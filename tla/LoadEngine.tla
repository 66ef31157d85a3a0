----------------------------- MODULE LoadEngine -----------------------------
(***************************************************************************)
(* titanload's engine: Engine.Run with its goroutines (worker), the pacer  *)
(* of the open model (pace) and the token channel between them, and the    *)
(* three ways a run ends: budget spent, duration over, interrupted.        *)
(*                                                                         *)
(* Time is abstracted to what it decides: when the duration is over, when  *)
(* a ramp delay is over, and how many requests the schedule wants by now.  *)
(***************************************************************************)
EXTENDS Naturals, FiniteSets

CONSTANTS
  Threads,      \* the goroutines, Concurrency many
  MaxRequests,  \* Config.MaxRequests, 0 for none
  MaxStarted,   \* bound: requests of a run without a budget
  MaxWant       \* bound: requests the schedule wants

ASSUME EngineAssumption ==
  /\ IsFiniteSet(Threads) /\ Threads # {}
  /\ MaxRequests \in Nat /\ MaxStarted \in Nat /\ MaxWant \in Nat

VARIABLES
  duration,   \* Config.Duration > 0
  pc,         \* where each goroutine is
  issued,     \* Engine.issued
  started,    \* requests handed to the requester
  recorded,   \* requests in the shards
  cancelled,  \* the context of the run
  cut,        \* it was cancelled by the duration or from outside
  tokens,     \* tokens in the channel
  closed,     \* the channel is closed
  pacer,      \* tick, send, ended; off in the closed model
  want,       \* ExpectedRequests at the last tick
  sent,       \* tokens sent
  done        \* the done channel is closed

vars == <<duration, pc, issued, started, recorded, cancelled, cut,
          tokens, closed, pacer, want, sent, done>>
threadVars == <<pc, issued, started, recorded>>
pacerVars == <<tokens, closed, pacer, want, sent>>

Concurrency == Cardinality(Threads)

\* Any configuration that Config.Validate accepts: with a rate or without,
\* with a duration or a budget.  Only the closed model ramps its goroutines
\* up; the first has no delay.
Init ==
  /\ duration \in BOOLEAN /\ (duration \/ MaxRequests > 0)
  /\ pacer \in {"off", "tick"}
  /\ pc \in [Threads -> IF pacer = "off" THEN {"delay", "loop"} ELSE {"loop"}]
  /\ \/ \A t \in Threads : pc[t] = "loop"
     \/ Cardinality({t \in Threads : pc[t] = "loop"}) = 1
  /\ issued = 0 /\ started = 0 /\ recorded = 0
  /\ cancelled = FALSE /\ cut = FALSE
  /\ tokens = 0 /\ closed = FALSE
  /\ want = 0 /\ sent = 0
  /\ done = FALSE

Goto(t, l) == pc' = [pc EXCEPT ![t] = l]
-----------------------------------------------------------------------------
(* worker                                                                  *)

Delayed(t) ==
  /\ pc[t] = "delay"
  /\ \/ Goto(t, "loop")
     \/ cancelled /\ Goto(t, "exit")
  /\ UNCHANGED <<duration, issued, started, recorded, cancelled, cut, pacerVars, done>>

\* Closed model: go on unless the run is over.
Check(t) ==
  /\ pc[t] = "loop" /\ pacer = "off"
  /\ \/ cancelled /\ Goto(t, "exit")
     \/ ~cancelled /\ started < MaxStarted /\ Goto(t, "issue")
  /\ UNCHANGED <<duration, issued, started, recorded, cancelled, cut, pacerVars, done>>

\* Open model: a token or the end of the run, whichever select picks.
Receive(t) ==
  /\ pc[t] = "loop" /\ pacer # "off"
  /\ \/ tokens > 0 /\ tokens' = tokens - 1 /\ Goto(t, "issue")
     \/ tokens = 0 /\ closed /\ Goto(t, "exit") /\ UNCHANGED tokens
     \/ cancelled /\ Goto(t, "exit") /\ UNCHANGED tokens
  /\ UNCHANGED <<duration, issued, started, recorded, cancelled, cut,
                 closed, pacer, want, sent, done>>

\* The budget is tested on a value read before the increment.
IssueStale(t) ==
  /\ pc[t] = "issue"
  /\ issued' = IF MaxRequests > 0 THEN issued + 1 ELSE issued
  /\ IF MaxRequests > 0 /\ issued > MaxRequests
     THEN Goto(t, "exit") /\ cancelled' = TRUE /\ UNCHANGED started
     ELSE Goto(t, "do") /\ started' = started + 1 /\ UNCHANGED cancelled
  /\ UNCHANGED <<duration, recorded, cut, pacerVars, done>>

\* issued.Add(1) > max: the run is stopped, else the request is made.
Issue(t) ==
  /\ pc[t] = "issue"
  /\ issued' = IF MaxRequests > 0 THEN issued + 1 ELSE issued
  /\ IF MaxRequests > 0 /\ issued' > MaxRequests
     THEN Goto(t, "exit") /\ cancelled' = TRUE /\ UNCHANGED started
     ELSE Goto(t, "do") /\ started' = started + 1 /\ UNCHANGED cancelled
  /\ UNCHANGED <<duration, recorded, cut, pacerVars, done>>

\* The request uses the context of the run and is dropped when that ends.
DoCancelled(t) ==
  /\ pc[t] = "do"
  /\ \/ ~cancelled /\ recorded' = recorded + 1 /\ Goto(t, "loop")
     \/ cancelled /\ Goto(t, "exit") /\ UNCHANGED recorded
  /\ UNCHANGED <<duration, issued, started, cancelled, cut, pacerVars, done>>

\* The request has a context of its own: it completes, or times out, and is
\* recorded, also when the run is over.
Do(t) ==
  /\ pc[t] = "do"
  /\ recorded' = recorded + 1
  /\ Goto(t, "loop")
  /\ UNCHANGED <<duration, issued, started, cancelled, cut, pacerVars, done>>
-----------------------------------------------------------------------------
(* pace                                                                    *)

\* A tick of the pacer: time went on, the schedule wants more.
Tick ==
  /\ pacer = "tick"
  /\ want' \in (want + 1)..MaxWant
  /\ pacer' = "send"
  /\ UNCHANGED <<duration, threadVars, cancelled, cut, tokens, closed, sent, done>>

\* The next token, when the channel has room.
Send ==
  /\ pacer = "send" /\ sent < want
  /\ tokens < Concurrency
  /\ tokens' = tokens + 1 /\ sent' = sent + 1
  /\ UNCHANGED <<duration, threadVars, cancelled, cut, closed, pacer, want, done>>

AllSent ==
  /\ pacer = "send" /\ sent >= want
  /\ pacer' = "tick"
  /\ UNCHANGED <<duration, threadVars, cancelled, cut, tokens, closed, want, sent, done>>

\* The inner select waits for room in the channel only.
PacerEndsAtTick ==
  /\ pacer = "tick" /\ cancelled
  /\ pacer' = "ended" /\ closed' = TRUE
  /\ UNCHANGED <<duration, threadVars, cancelled, cut, tokens, want, sent, done>>

\* The end of the run, in either select; the channel is closed.
PacerEnds ==
  /\ cancelled
  /\ pacer = "tick" \/ (pacer = "send" /\ sent < want)
  /\ pacer' = "ended" /\ closed' = TRUE
  /\ UNCHANGED <<duration, threadVars, cancelled, cut, tokens, want, sent, done>>
-----------------------------------------------------------------------------
(* Run                                                                     *)

Expire ==
  /\ duration /\ ~cancelled
  /\ cancelled' = TRUE /\ cut' = TRUE
  /\ UNCHANGED <<duration, threadVars, pacerVars, done>>

\* The context given to Run is cancelled: Ctrl+C, or the end of the worker.
Interrupt ==
  /\ ~cancelled
  /\ cancelled' = TRUE /\ cut' = TRUE
  /\ UNCHANGED <<duration, threadVars, pacerVars, done>>

\* wg.Wait, close(done), and the deferred cancel that releases the pacer.
Finish ==
  /\ ~done /\ \A t \in Threads : pc[t] = "exit"
  /\ done' = TRUE
  /\ cancelled' = TRUE
  /\ UNCHANGED <<duration, threadVars, cut, pacerVars>>

Rest == done /\ pacer \in {"off", "ended"} /\ UNCHANGED vars

Next ==
  \/ \E t \in Threads : Delayed(t) \/ Check(t) \/ Receive(t) \/ Issue(t) \/ Do(t)
  \/ Tick \/ Send \/ AllSent \/ PacerEnds
  \/ Expire \/ Interrupt \/ Finish
  \/ Rest

Spec == Init /\ [][Next]_vars
-----------------------------------------------------------------------------
(* Properties.                                                             *)

\* The types; every goroutine passes the budget at most once, so the counter
\* issued stays within MaxRequests + Concurrency.
TypeOK ==
  /\ duration \in BOOLEAN
  /\ pc \in [Threads -> {"delay", "loop", "issue", "do", "exit"}]
  /\ issued \in 0..(MaxRequests + Concurrency)
  /\ started \in Nat /\ recorded \in Nat
  /\ cancelled \in BOOLEAN /\ cut \in BOOLEAN
  /\ tokens \in 0..Concurrency /\ closed \in BOOLEAN
  /\ pacer \in {"off", "tick", "send", "ended"}
  /\ want \in Nat /\ sent \in Nat
  /\ done \in BOOLEAN

\* "Stop after N requests (exact)": however the goroutines race for the last
\* requests, never more than MaxRequests are made.
NeverOverBudget == MaxRequests > 0 => started <= MaxRequests

\* When done is closed nothing is in flight any more and everything that was
\* sent is in the shards, so the snapshot taken then is final; a run that was
\* not cut short made exactly MaxRequests.
DoneIsComplete ==
  done => /\ recorded = started
          /\ ~cut => recorded = MaxRequests

\* The open model never runs ahead of its schedule: a request is made for a
\* token, and a token is sent for a request that is due.
NeverAheadOfSchedule == pacer # "off" => started + tokens <= want

\* The run ends whichever of its goroutines meets the end first, and the pacer
\* does not outlive it, although it may be blocked on a full channel.
RunEnds == <>[](done /\ pacer \in {"off", "ended"})
=============================================================================
