-------------------------- MODULE MCEventConsumer --------------------------
(* Small instances of EventConsumer. *)
EXTENDS EventConsumer, TLC

CONSTANTS w1, w2, p1, ev

\* One partition: an event, and a record that does not decode.
MCLog == p1 :> <<ev, Invalid>>
=============================================================================
