------------------------------- MODULE GetOnce -------------------------------
(***************************************************************************)
(* What Query::GetDocuments promises to the app, and what FirebaseService  *)
(* builds on: every get is answered at most once, in whatever order, with  *)
(* the server's documents, with what the cache holds, or with an error,    *)
(* and with an error only for a query that the server refuses.             *)
(***************************************************************************)
EXTENDS Sequences

CONSTANT Gets

VARIABLES
    asked,      \* the gets the app has issued
    answers,    \* answers[g]: what its completion was called with
    refused     \* the gets whose query the server refuses

getVars == <<asked, answers, refused>>

Possible(g) == IF g \in refused THEN {"cache", "error"} ELSE {"cache", "server"}

Init ==
    /\ asked = {}
    /\ answers = [g \in Gets |-> <<>>]
    /\ refused \in SUBSET Gets

Ask(g) ==
    /\ g \notin asked
    /\ asked' = asked \cup {g}
    /\ UNCHANGED <<answers, refused>>

Answer(g) ==
    /\ g \in asked
    /\ answers[g] = <<>>
    /\ \E r \in Possible(g) : answers' = [answers EXCEPT ![g] = <<r>>]
    /\ UNCHANGED <<asked, refused>>

Next == \E g \in Gets : Ask(g) \/ Answer(g)

Spec == Init /\ [][Next]_getVars
==============================================================================
