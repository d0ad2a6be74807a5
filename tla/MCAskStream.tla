----------------------------- MODULE MCAskStream -----------------------------
(* Small instances of AskStream for TLC. *)
EXTENDS AskStream, TLC

\* Streams are interchangeable.
Interchangeable == Permutations(Streams)
=============================================================================
