--------------------------- MODULE MCMultiAgentRAG ---------------------------
(* Small instances of MultiAgentRAG for TLC. *)
EXTENDS MultiAgentRAG, TLC

CONSTANTS c1, c2, w1, x1

\* One passage to find or to miss, one web page, a draft that cites the
\* passage, an invented id, or nothing.
SmallCorpus == {{}, {c1}}
SmallWeb == {<<w1>>}
SmallCites == {{c1}, {x1}}

\* The least with which a draft can still be written, rejected and retried.
OneCorpus == {{c1}}
OneCites == {{c1}}

\* Every mixture of real, unretrieved and invented ids.
RichCorpus == SUBSET {c1, c2}
RichWeb == {<<w1>>}
RichCites == SUBSET {c1, w1, x1} \cup {{c2}}

Interchangeable == Permutations(Requests)
=============================================================================
