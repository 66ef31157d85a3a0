--------------------------- MODULE ReadinessProbe ---------------------------
(***************************************************************************)
(* Server.Ready: the dependency checks behind /readyz, run under a mutex   *)
(* and cached for one second, asked for by many probers at once.  Time is  *)
(* abstracted to the moment the cached answer gets too old.                *)
(***************************************************************************)
EXTENDS Naturals, FiniteSets

CONSTANTS
  Probers,    \* callers of Ready
  Patient,    \* those with a context of their own: the metrics server
  Deps,       \* Deps.Checks
  MaxFaults,  \* bound: dependencies going down, probers giving up
  Nobody      \* the mutex is free, nothing is cached

ASSUME ProbeAssumption ==
  /\ Patient \subseteq Probers /\ MaxFaults \in Nat
  /\ Nobody \notin Probers /\ Nobody \notin BOOLEAN

VARIABLES
  stage,     \* where each prober is: idle, lock, check
  cancelled, \* probers whose request context has ended
  holder,    \* readyMu
  left,      \* dependencies the holder has still to check
  ok,        \* its result so far
  cached,    \* readyOK, or Nobody while readyDetails is nil
  fresh,     \* the cached answer is less than a second old
  up,        \* dependencies that are up
  found,     \* ghost: dependencies this round of checks found up
  basis,     \* ghost: found of the round that is cached
  credit,    \* ghost: rounds of checks the expired answers allow
  faults

readyVars == <<stage, cancelled, holder, left, ok, cached, fresh, up, found,
               basis, credit, faults>>
round == <<left, ok, found>>

ReadyInit ==
  /\ stage = [p \in Probers |-> "idle"]
  /\ cancelled = {} /\ holder = Nobody
  /\ left = {} /\ ok = TRUE /\ found = {} /\ basis = {}
  /\ cached = Nobody /\ fresh = FALSE
  /\ up \in SUBSET Deps
  /\ credit = 1 /\ faults = 0

Probe(p) ==
  /\ stage[p] = "idle"
  /\ stage' = [stage EXCEPT ![p] = "lock"]
  /\ cancelled' = cancelled \ {p}
  /\ UNCHANGED <<holder, round, cached, fresh, up, basis, credit, faults>>

\* With the mutex: a cached answer that is fresh is the answer.
AnswerCached(p) ==
  /\ stage[p] = "lock" /\ holder = Nobody
  /\ fresh /\ cached # Nobody
  /\ stage' = [stage EXCEPT ![p] = "idle"]
  /\ UNCHANGED <<cancelled, holder, round, cached, fresh, up, basis, credit, faults>>

\* Any prober that gets the mutex starts a round.
StartAlways(p) ==
  /\ stage[p] = "lock" /\ holder = Nobody
  /\ stage' = [stage EXCEPT ![p] = "check"]
  /\ holder' = p
  /\ left' = Deps /\ ok' = TRUE /\ found' = {}
  /\ credit' = credit - 1
  /\ UNCHANGED <<cancelled, cached, fresh, up, basis, faults>>

\* The result starts from the one before.
StartFromLast(p) ==
  /\ stage[p] = "lock" /\ holder = Nobody
  /\ ~(fresh /\ cached # Nobody)
  /\ stage' = [stage EXCEPT ![p] = "check"]
  /\ holder' = p
  /\ left' = Deps /\ ok' = ok /\ found' = {}
  /\ credit' = credit - 1
  /\ UNCHANGED <<cancelled, cached, fresh, up, basis, faults>>

\* With the mutex: else a round of checks begins.
Start(p) ==
  /\ stage[p] = "lock" /\ holder = Nobody
  /\ ~(fresh /\ cached # Nobody)
  /\ stage' = [stage EXCEPT ![p] = "check"]
  /\ holder' = p
  /\ left' = Deps /\ ok' = TRUE /\ found' = {}
  /\ credit' = credit - 1
  /\ UNCHANGED <<cancelled, cached, fresh, up, basis, faults>>

\* The result is that of the last check.
CheckLast(p) ==
  /\ stage[p] = "check"
  /\ \E d \in left :
       LET fine == d \in up /\ p \notin cancelled IN
       /\ left' = left \ {d}
       /\ ok' = fine
       /\ found' = IF fine THEN found \cup {d} ELSE found
  /\ UNCHANGED <<stage, cancelled, holder, cached, fresh, up, basis, credit, faults>>

\* A check that fails is tried again.
CheckRetry(p) ==
  /\ stage[p] = "check"
  /\ \E d \in left :
       LET fine == d \in up /\ p \notin cancelled IN
       /\ left' = IF fine THEN left \ {d} ELSE left
       /\ ok' = ok
       /\ found' = IF fine THEN found \cup {d} ELSE found
  /\ UNCHANGED <<stage, cancelled, holder, cached, fresh, up, basis, credit, faults>>

\* One check, in the context of the prober: it fails when the dependency is
\* down (or answers too late), and when the prober has gone.
Check(p) ==
  /\ stage[p] = "check"
  /\ \E d \in left :
       LET fine == d \in up /\ p \notin cancelled IN
       /\ left' = left \ {d}
       /\ ok' = (ok /\ fine)
       /\ found' = IF fine THEN found \cup {d} ELSE found
  /\ UNCHANGED <<stage, cancelled, holder, cached, fresh, up, basis, credit, faults>>

\* The result is cached and the mutex released.
PublishResult(p) ==
  /\ stage[p] = "check" /\ left = {}
  /\ cached' = ok /\ fresh' = TRUE
  /\ basis' = found
  /\ holder' = Nobody
  /\ stage' = [stage EXCEPT ![p] = "idle"]
  /\ UNCHANGED <<cancelled, round, up, credit, faults>>

\* The answer is a second old.
ExpireAnswer ==
  /\ fresh
  /\ fresh' = FALSE /\ credit' = credit + 1
  /\ UNCHANGED <<stage, cancelled, holder, round, cached, up, basis, faults>>

\* The prober times out or closes its connection.
GiveUp(p) ==
  /\ p \notin Patient \cup cancelled /\ stage[p] # "idle"
  /\ faults < MaxFaults /\ faults' = faults + 1
  /\ cancelled' = cancelled \cup {p}
  /\ UNCHANGED <<stage, holder, round, cached, fresh, up, basis, credit>>

GoDown(d) ==
  /\ d \in up /\ faults < MaxFaults /\ faults' = faults + 1
  /\ up' = up \ {d}
  /\ UNCHANGED <<stage, cancelled, holder, round, cached, fresh, basis, credit>>

ComeUp(d) ==
  /\ d \notin up
  /\ up' = up \cup {d}
  /\ UNCHANGED <<stage, cancelled, holder, round, cached, fresh, basis, credit, faults>>

ReadyNext ==
  \/ \E p \in Probers :
       Probe(p) \/ AnswerCached(p) \/ Start(p) \/ Check(p) \/ PublishResult(p) \/ GiveUp(p)
  \/ ExpireAnswer
  \/ \E d \in Deps : GoDown(d) \/ ComeUp(d)

ReadySpec == ReadyInit /\ [][ReadyNext]_readyVars

\* Probes are repeated, time passes, checks time out, a mutex is handed on to
\* everybody who waits (Go's is, after a millisecond, first come first served)
\* and dependencies come back.
ReadyFairness ==
  /\ \A p \in Probers :
       WF_readyVars(Probe(p)) /\ SF_readyVars(AnswerCached(p) \/ Start(p))
       /\ WF_readyVars(Check(p)) /\ WF_readyVars(PublishResult(p))
  /\ WF_readyVars(ExpireAnswer)
  /\ \A d \in Deps : WF_readyVars(ComeUp(d))

FairReadySpec == ReadySpec /\ ReadyFairness
-----------------------------------------------------------------------------
(* Properties.                                                             *)

\* The types; whoever checks has the mutex.
ReadyTypeOK ==
  /\ stage \in [Probers -> {"idle", "lock", "check"}]
  /\ cancelled \subseteq Probers
  /\ holder \in Probers \cup {Nobody}
  /\ \A p \in Probers : stage[p] = "check" => holder = p
  /\ left \subseteq Deps /\ found \subseteq Deps /\ up \subseteq Deps
  /\ ok \in BOOLEAN /\ fresh \in BOOLEAN
  /\ cached \in BOOLEAN \cup {Nobody}
  /\ basis \subseteq Deps
  /\ faults \in 0..MaxFaults

\* "cached for one second so that aggressive probes and load balancers cannot
\* turn into a thundering herd on backends": however many probers ask, each
\* expiry of the cached answer costs at most one round of checks.
OneRoundPerExpiry == credit >= 0

\* The pod says it is ready only when one round found all dependencies up.
ReadyMeansAllFound == cached = TRUE => basis = Deps

\* Every prober gets an answer, also when the one before it has gone.
ProbesAnswered == \A p \in Probers : []<>(stage[p] = "idle")

\* Once dependencies stay up and no prober gives up any more, the pod does not
\* stay out of the endpoints.
PodComesBack == <>[](cached # FALSE)
=============================================================================
