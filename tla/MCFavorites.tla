----------------------------- MODULE MCFavorites -----------------------------
(* Small instances of Favorites for TLC. *)
EXTENDS Favorites, TLC

CONSTANT n1

OnePodcastOf == [e \in Episodes |-> n1]

\* Nothing tells two players, tasks, rows or episodes apart.
Symmetry == Permutations(Contexts) \cup Permutations(Tasks)
              \cup Permutations(RowIds) \cup Permutations(Episodes)
==============================================================================
