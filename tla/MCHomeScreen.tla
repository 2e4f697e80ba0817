---------------------------- MODULE MCHomeScreen ----------------------------
(* Small instances of HomeScreen for TLC. *)
EXTENDS HomeScreen, TLC

CONSTANTS c1, c2

\* One cell of the home screen, one of the carousel.
Kinds == (c1 :> "home") @@ (c2 :> "carousel")

\* The addresses and the downloads are only compared.
Symmetry == Permutations(Urls) \cup Permutations(Downloads)
==============================================================================
