----------------------------- MODULE MCAnswerCache -----------------------------
(* Small instances of AnswerCache. *)
EXTENDS AnswerCache, TLC

CONSTANTS q1, q2

\* Two phrasings of one question; the relation is symmetric as the cosine is.
Close == {<<q1, q2>>, <<q2, q1>>}
Symmetric == Permutations(Asks) \cup Permutations(Queries)
=============================================================================
