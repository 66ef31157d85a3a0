------------------------------- MODULE MCApi --------------------------------
(***************************************************************************)
(* One API pod that is probed, or one that is used.  Probes and requests   *)
(* share no state, so running them side by side would only multiply their  *)
(* states.  Two clients: they probe, one of them as the metrics server     *)
(* does, with a context of its own, or they send requests.  A pod of one   *)
(* slot has a store, which is what handlers wait for while others are      *)
(* shed; one of two slots has any dependencies, but always a bus beside a  *)
(* store and a cache, since a missing bus only skips a call.               *)
(***************************************************************************)
EXTENDS ReadinessProbe, ApiRequests

VARIABLE use   \* "probed" or "used"

podVars == <<use, readyVars, vars>>

Probed(A) == use = "probed" /\ A /\ UNCHANGED <<use, vars>>
Used(A) == use = "used" /\ A /\ UNCHANGED <<use, readyVars>>

PodInit ==
  /\ ReadyInit /\ Init
  /\ \/ use = "probed" /\ deps = {} /\ limit = 1
     \/ /\ use = "used" /\ up = Deps
        /\ limit = 1 => deps = {"store"}
        /\ {"store", "cache"} \subseteq deps => "bus" \in deps

PodNext == Probed(ReadyNext) \/ Used(Next)

\* What the client c waits for, in the half that is in use.
Runs(c) ==
  \/ c \in Probers /\ Probed(Probe(c) \/ Check(c) \/ PublishResult(c))
  \/ c \in Requests /\ Used(Step(c))

TakesMutex(c) ==
  \/ c \in Probers /\ Probed(AnswerCached(c) \/ Start(c))
  \/ c \in Requests /\ Used(CountLock(c))

\* ReadyFairness of a pod that is probed, Fairness of one that is used.
PodFairness ==
  /\ \A c \in Probers \cup Requests : WF_podVars(Runs(c)) /\ SF_podVars(TakesMutex(c))
  /\ WF_podVars(Probed(ExpireAnswer))
  /\ \A d \in Deps : WF_podVars(Probed(ComeUp(d)))

FairPodSpec == PodInit /\ [][PodNext]_podVars /\ PodFairness
=============================================================================
