--------------------------- MODULE MCPodcastScreen ---------------------------
(* Small instances of PodcastScreen for TLC. *)
EXTENDS PodcastScreen, TLC

CONSTANTS a, b, c

\* One page and a bit; exactly one page; exactly two.
Counts == (a :> 2) @@ (b :> 1) @@ (c :> 2)
CountsOfTwo == (a :> 2) @@ (b :> 3)
==============================================================================
