--------------------------- MODULE EventDelivery ---------------------------
(***************************************************************************)
(* What the event consumer promises, whatever its pods, their group and    *)
(* their faults: events are added to the rollups a batch at a time, and    *)
(* the committed position of a partition moves forward only, and only      *)
(* over events that are in the rollups.  EventConsumer implements it.      *)
(***************************************************************************)
EXTENDS Naturals

CONSTANTS
  Partitions,    \* partitions of titan.events
  Records,       \* pairs of a partition and a position in it
  ValidRecords   \* those that decode and have a type

VARIABLES
  committed,  \* committed position of each partition
  counted     \* how often each record is in event_rollups

vars == <<committed, counted>>

Init ==
  /\ committed = [p \in Partitions |-> 0]
  /\ counted = [r \in Records |-> 0]

\* Every valid record of p up to position n is in the rollups.
Settled(p, n) ==
  \A r \in ValidRecords : r[1] = p /\ r[2] <= n => counted[r] >= 1

\* One upsert of AddRollups; it has every event of the batch once.
Count(batch) ==
  /\ counted' = [r \in Records |-> IF r \in batch THEN counted[r] + 1 ELSE counted[r]]
  /\ UNCHANGED committed

\* One commit of the offsets a pod has polled, of all or of some partitions.
Commit ==
  /\ committed' \in [Partitions -> Nat]
  /\ \A p \in Partitions : committed'[p] >= committed[p] /\ Settled(p, committed'[p])
  /\ UNCHANGED counted

Next ==
  \/ \E batch \in SUBSET ValidRecords : Count(batch)
  \/ Commit

Spec == Init /\ [][Next]_vars
=============================================================================
