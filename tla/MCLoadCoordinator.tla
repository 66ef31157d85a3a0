------------------------- MODULE MCLoadCoordinator -------------------------
(* Two workers. *)
EXTENDS LoadCoordinator

CONSTANTS w1, w2
=============================================================================
