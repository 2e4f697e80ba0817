----------------------------- MODULE EpisodeFeed -----------------------------
(***************************************************************************)
(* What FirebaseService promises its screen online: each podcast's         *)
(* episodes are handed over a page at a time, every page full but the      *)
(* last, and a podcast is given up only when all of it was handed over.    *)
(***************************************************************************)
EXTENDS Naturals

CONSTANTS Podcasts, Count, podcastLimit

VARIABLES
    read,       \* read[p]: how many episodes of p were handed over
    ended       \* the podcasts that nothing more is asked of

feedVars == <<read, ended>>

Init ==
    /\ read = [p \in Podcasts |-> 0]
    /\ ended = {}

Hand(p) ==
    /\ p \notin ended
    /\ read[p] < Count[p]
    /\ read' = [read EXCEPT ![p] = IF Count[p] - @ < podcastLimit THEN Count[p]
                                   ELSE @ + podcastLimit]
    /\ UNCHANGED ended

End(p) ==
    /\ p \notin ended
    /\ read[p] = Count[p]
    /\ ended' = ended \cup {p}
    /\ UNCHANGED read

Next == \E p \in Podcasts : Hand(p) \/ End(p)

Spec == Init /\ [][Next]_feedVars
==============================================================================
