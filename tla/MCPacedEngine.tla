---------------------------- MODULE MCPacedEngine ----------------------------
(* Two rates that do not divide the ticker's period, with and without a ramp. *)
EXTENDS PacedEngine

CONSTANTS t1, t2, t3

MCRates == {<<2, 3>>, <<3, 2>>}
=============================================================================
