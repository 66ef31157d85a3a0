-------------------------- MODULE MCEventProducer --------------------------
(* Three event requests and one create. *)
EXTENDS EventProducer

CONSTANTS e1, e2, e3, c1
=============================================================================
