----------------------------- MODULE FavoriteSet -----------------------------
(***************************************************************************)
(* What the favourites are to a user who waits for every task: a set of    *)
(* episodes, and a player that toggles the episode it shows in a view of   *)
(* its own.  A save makes the set what the player sees; a save that fails  *)
(* leaves the change in the view, for the next save, until the player is   *)
(* closed or the process ends.                                             *)
(***************************************************************************)
CONSTANTS Keys, Blank

VARIABLES
    saved,      \* the favourites
    shown,      \* the episode of the open player: {e}, or {} without a player
    seen        \* the favourites as the open player sees them

setVars == <<saved, shown, seen>>

Init ==
    /\ saved = {}
    /\ shown = {}
    /\ seen = saved

Open(e) ==
    /\ shown = {}
    /\ shown' = {e}
    /\ seen' = saved
    /\ UNCHANGED saved

\* The heart: with the episode go the ones without a title.
Toggle(e) ==
    /\ shown = {e}
    /\ seen' = IF e \in seen THEN seen \ {e, Blank} ELSE seen \cup {e}
    /\ UNCHANGED <<saved, shown>>

Save ==
    /\ shown # {}
    /\ saved' = seen
    /\ UNCHANGED <<shown, seen>>

\* Dismissal, or the end of the process.
Close ==
    /\ shown' = {}
    /\ seen' = saved
    /\ UNCHANGED saved

Next == (\E e \in Keys : Open(e) \/ Toggle(e)) \/ Save \/ Close

Spec == Init /\ [][Next]_setVars
==============================================================================
