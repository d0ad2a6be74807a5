---------------------------- MODULE MCCorpusStore ----------------------------
(* Small instances of CorpusStore for TLC. *)
EXTENDS CorpusStore, TLC

CONSTANTS d1, d2, o1, o2, r1, r2

\* The second run is of another organisation.
OrgOf == (r1 :> o1 @@ r2 :> o2)

\* The second revision rewrites the later piece of the section: the section and
\* its first piece keep their heads, and so their ids.
HeadOf == <<[i \in 0..2 |-> IF i = 2 THEN "tail1" ELSE "start"],
            [i \in 0..2 |-> IF i = 2 THEN "tail2" ELSE "start"]>>

\* It mentions in the later piece what the first one mentions at the start.
MentionsOf == <<<<{"IRC"}, {}>>, <<{}, {"IRC"}>>>>

\* Only the first revision has a date, and it is yet to come.
EffectiveDate == <<2, 0>>
ServiceLine == (d1 :> "credit" @@ d2 :> "payroll")

\* Questions of one organisation about one service line, on a day before the
\* date of the first revision: only the second can be found by the search.
AllScopes == [org_id : {o1}, as_of : {1}, service_line : {"credit"}]
=============================================================================
