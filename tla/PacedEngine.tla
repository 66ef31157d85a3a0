----------------------------- MODULE PacedEngine -----------------------------
(***************************************************************************)
(* The engine with its clock: the ticker of pace, the number of requests   *)
(* the schedule wants by a tick (ExpectedRequests) and the time each of    *)
(* them is due (ScheduleOffset), with and without a ramp.  It implements   *)
(* LoadEngine, in which the schedule is any that grows.                    *)
(*                                                                         *)
(* A rate is a pair <<n, d>>: n requests in d units of time.  The code     *)
(* computes in floating point and truncates; the model is exact before     *)
(* it truncates.                                                           *)
(***************************************************************************)
EXTENDS LoadEngine

CONSTANTS
  Rates,     \* Config.Rate
  Ramps,     \* Config.Ramp, 0 for none
  Period,    \* of the ticker
  MaxTime,   \* bound: how long the clock runs
  MaxStall   \* bound: how long pace does not receive

ASSUME ScheduleAssumption ==
  /\ Rates \subseteq (Nat \ {0}) \X (Nat \ {0})
  /\ Ramps \subseteq Nat
  /\ Period \in Nat \ {0}
  /\ MaxTime \in Nat /\ MaxStall \in Nat

VARIABLES
  rate, ramp,  \* the configuration of the run
  now,         \* time since start
  ticker,      \* the tick in ticker.C, 0 if there is none
  last         \* the last tick pace received

clock == <<rate, ramp, now, ticker, last>>
pacedVars == <<vars, clock>>

\* The floor of the square root of k.
Root(k) == CHOOSE m \in 0..k : m * m <= k /\ k < (m + 1) * (m + 1)

\* The area of the ramp counts in full.
ExpectedWithoutHalf(t) ==
  CASE ramp = 0 -> (rate[1] * t) \div rate[2]
    [] ramp > 0 /\ t < ramp -> (rate[1] * t * t) \div (rate[2] * ramp)
    [] ramp > 0 /\ t >= ramp -> (rate[1] * t) \div rate[2]

\* The integral of the arrival rate from 0 to t, truncated.
ExpectedRequests(t) ==
  CASE ramp = 0 -> (rate[1] * t) \div rate[2]
    [] ramp > 0 /\ t < ramp -> (rate[1] * t * t) \div (2 * rate[2] * ramp)
    [] ramp > 0 /\ t >= ramp -> (rate[1] * (2 * t - ramp)) \div (2 * rate[2])

\* Past the ramp, what was due during the ramp is not subtracted by half.
OffsetFromRampEnd(n) ==
  CASE ramp = 0 -> (n * rate[2]) \div rate[1]
    [] ramp > 0 /\ 2 * rate[2] * n < rate[1] * ramp
         -> Root((2 * ramp * n * rate[2]) \div rate[1])
    [] ramp > 0 /\ 2 * rate[2] * n >= rate[1] * ramp
         -> (n * rate[2]) \div rate[1]

\* When request n is due, truncated.
ScheduleOffset(n) ==
  CASE ramp = 0 -> (n * rate[2]) \div rate[1]
    [] ramp > 0 /\ 2 * rate[2] * n < rate[1] * ramp
         -> Root((2 * ramp * n * rate[2]) \div rate[1])
    [] ramp > 0 /\ 2 * rate[2] * n >= rate[1] * ramp
         -> (rate[1] * ramp + 2 * rate[2] * n) \div (2 * rate[1])

\* The closed model has no schedule.
PacedInit ==
  /\ Init
  /\ rate \in Rates /\ ramp \in Ramps
  /\ pacer = "off" => rate = (CHOOSE r \in Rates : TRUE) /\ ramp = (CHOOSE r \in Ramps : TRUE)
  /\ now = 0 /\ ticker = 0 /\ last = 0

\* The next tick is due.  ticker.C holds one: a slow receiver misses ticks.
Advance ==
  /\ pacer \in {"tick", "send"} /\ now < MaxTime /\ now < last + MaxStall
  /\ now' = now + Period
  /\ ticker' = IF ticker = 0 THEN now' ELSE ticker
  /\ UNCHANGED <<vars, rate, ramp, last>>

\* pace receives a tick, with the time it was due, and sends what is wanted by then.
PacedTick ==
  /\ pacer = "tick" /\ ticker > 0
  /\ last' = ticker /\ ticker' = 0
  /\ \/ ExpectedRequests(ticker) > sent /\ Tick /\ want' = ExpectedRequests(ticker)
     \/ ExpectedRequests(ticker) <= sent /\ UNCHANGED vars
  /\ UNCHANGED <<rate, ramp, now>>

\* Everything that does not look at the clock.
Untimed ==
  /\ \/ \E t \in Threads : Delayed(t) \/ Check(t) \/ Receive(t) \/ Issue(t) \/ Do(t)
     \/ Send \/ AllSent \/ PacerEnds
     \/ Expire \/ Interrupt \/ Finish
     \/ Rest
  /\ UNCHANGED clock

PacedNext == Advance \/ PacedTick \/ Untimed

PacedSpec == PacedInit /\ [][PacedNext]_pacedVars

\* Goroutines are scheduled, requests complete or time out, the clock goes on
\* and the duration passes; nobody has to interrupt.
PacedFairSpec ==
  /\ PacedSpec
  /\ \A t \in Threads :
       WF_vars(Delayed(t)) /\ WF_vars(Check(t)) /\ WF_vars(Receive(t))
       /\ WF_vars(Issue(t)) /\ WF_vars(Do(t))
  /\ WF_pacedVars(Advance) /\ WF_pacedVars(PacedTick)
  /\ WF_vars(Send) /\ WF_vars(AllSent) /\ WF_vars(PacerEnds)
  /\ WF_vars(Expire) /\ WF_vars(Finish)
-----------------------------------------------------------------------------
(* Properties.                                                             *)

\* Request n is sent only once the time it is due has come, so that no latency
\* is negative: truncation, the ramp and missed ticks never let ExpectedRequests
\* run ahead of ScheduleOffset.
NeverEarly == \A n \in 0..(sent - 1) : ScheduleOffset(n) <= now

\* A stalled or late pacer catches up: when pace has served a tick, at most the
\* next request was due before that tick and is not sent, across the end of the
\* ramp too.
AtMostOneLate ==
  pacer = "tick" => \A n \in 0..MaxWant : ScheduleOffset(n) < last => n <= sent

\* "pace emits one token per request at the intended send time": when pace has
\* served a tick, every request that was due before that tick has been sent.
SentWhenDue ==
  pacer = "tick" => \A n \in 0..MaxWant : ScheduleOffset(n) < last => n < sent
=============================================================================
