-------------------------- MODULE MCFirebaseService --------------------------
(* Small instances of FirebaseService for TLC. *)
EXTENDS FirebaseService, TLC

CONSTANTS a, b

\* One collection that ends in the middle of a page, one at the end of a page.
Counts == (a :> 3) @@ (b :> 4)
==============================================================================
