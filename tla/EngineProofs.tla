----------------------------- MODULE EngineProofs -----------------------------
(***************************************************************************)
(* Proofs about LoadEngine for any number of goroutines, any budget and    *)
(* any schedule, then about PacedEngine for every rate, ramp and period of *)
(* the ticker: it implements LoadEngine, and its schedule is kept.         *)
(***************************************************************************)
EXTENDS PacedEngine, FiniteSetTheorems, WellFoundedInduction, TLAPS

At(l) == {t \in Threads : pc[t] = l}

\* A request that was made is recorded or in flight.
FlightInv == started = recorded + Cardinality(At("do"))

\* A goroutine that passed the budget has left, and one at most per increment.
BudgetInv ==
  /\ MaxRequests = 0 => issued = 0
  /\ MaxRequests > 0 =>
       /\ started = IF issued <= MaxRequests THEN issued ELSE MaxRequests
       /\ issued <= MaxRequests + Cardinality(At("exit"))

\* Unless it was cut short, a run ends only because its budget is spent.
Ending == cancelled \/ closed \/ \E t \in Threads : pc[t] = "exit"
EndInv ==
  /\ Ending /\ ~cut => MaxRequests > 0 /\ issued > MaxRequests
  /\ done => \A t \in Threads : pc[t] = "exit"

\* Every token sent is in the channel, with a goroutine or used.
ScheduleInv ==
  pacer # "off" => started + tokens + Cardinality(At("issue")) <= sent /\ sent <= want

EngineInv == TypeOK /\ FlightInv /\ BudgetInv /\ EndInv /\ ScheduleInv
-----------------------------------------------------------------------------
(* How the sets At(l) change when a goroutine moves.                       *)

LEMMA AtFinite ==
  ASSUME NEW l
  PROVE  /\ IsFiniteSet(At(l)) /\ Cardinality(At(l)) \in Nat
         /\ Cardinality(At(l)) <= Concurrency /\ Concurrency \in Nat
BY EngineAssumption, FS_Subset, FS_CardinalityType, At(l) \subseteq Threads, Zenon
DEF At, Concurrency

LEMMA Enter ==
  ASSUME NEW t \in Threads, NEW m, TypeOK, pc[t] # m, Goto(t, m)
  PROVE  Cardinality(At(m))' = Cardinality(At(m)) + 1
<1>1. At(m)' = At(m) \cup {t} /\ t \notin At(m)
  BY Zenon DEF At, Goto, TypeOK
<1>2. IsFiniteSet(At(m))
  BY AtFinite, Zenon
<1> QED
  BY <1>1, <1>2, FS_AddElement, Zenon

LEMMA Leave ==
  ASSUME NEW t \in Threads, NEW l, NEW m, TypeOK, pc[t] = l, m # l, Goto(t, m)
  PROVE  Cardinality(At(l))' = Cardinality(At(l)) - 1
<1>1. At(l)' = At(l) \ {t} /\ t \in At(l)
  BY Zenon DEF At, Goto, TypeOK
<1>2. IsFiniteSet(At(l))
  BY AtFinite, Zenon
<1> QED
  BY <1>1, <1>2, FS_RemoveElement, Zenon

LEMMA Stay ==
  ASSUME NEW t \in Threads, NEW k, NEW m, TypeOK, pc[t] # k, m # k, Goto(t, m)
  PROVE  Cardinality(At(k))' = Cardinality(At(k))
<1>1. At(k)' = At(k)
  BY Zenon DEF At, Goto, TypeOK
<1> QED
  BY <1>1, Zenon
-----------------------------------------------------------------------------
LEMMA InitInv == Init => EngineInv
<1> SUFFICES ASSUME Init PROVE EngineInv
  OBVIOUS
<1> USE EngineAssumption DEF Init
<1>1. pc \in [Threads -> {"delay", "loop"}]
  OBVIOUS
<1>2. At("do") = {} /\ At("issue") = {} /\ At("exit") = {}
  BY <1>1, Zenon DEF At
<1>3. Cardinality({}) = 0
  BY FS_EmptySet, Zenon
<1>4. Concurrency \in Nat
  BY AtFinite, Zenon
<1>a. pc \in [Threads -> {"delay", "loop", "issue", "do", "exit"}]
  BY <1>1, Zenon
<1>b. 0 \in 0..(MaxRequests + Concurrency) /\ 0 \in 0..Concurrency
  BY <1>4
<1>c. pacer \in {"off", "tick", "send", "ended"}
  OBVIOUS
<1>5. TypeOK
  BY <1>a, <1>b, <1>c, Zenon DEF TypeOK
<1>6. FlightInv /\ BudgetInv /\ ScheduleInv
  BY <1>2, <1>3 DEF FlightInv, BudgetInv, ScheduleInv
<1>7. EndInv
  BY <1>1, Zenon DEF EndInv, Ending
<1> QED
  BY <1>5, <1>6, <1>7, Zenon DEF EngineInv

LEMMA AtNext ==
  ASSUME NEW l
  PROVE  Cardinality(At(l))' <= Concurrency
BY EngineAssumption, FS_Subset, At(l)' \subseteq Threads, Zenon
DEF At, Concurrency

LEMMA TypeNext ==
  ASSUME TypeOK, BudgetInv, [Next]_vars
  PROVE  TypeOK'
<1> USE EngineAssumption, AtFinite
<1>1. ASSUME NEW t \in Threads, Delayed(t) PROVE TypeOK'
  BY <1>1, Zenon DEF Delayed, TypeOK, Goto, threadVars, pacerVars
<1>2. ASSUME NEW t \in Threads, Check(t) PROVE TypeOK'
  BY <1>2, Zenon DEF Check, TypeOK, Goto, threadVars, pacerVars
<1>3. ASSUME NEW t \in Threads, Receive(t) PROVE TypeOK'
  BY <1>3 DEF Receive, TypeOK, Goto, threadVars, pacerVars
<1>4. ASSUME NEW t \in Threads, Issue(t) PROVE TypeOK'
  <2>1. MaxRequests > 0 => issued' <= MaxRequests + Concurrency
    <3> issued' \in Nat
      BY <1>4 DEF Issue, TypeOK
    <3>a. Goto(t, "exit") \/ MaxRequests = 0 \/ issued' <= MaxRequests
      BY <1>4 DEF Issue
    <3>b. Goto(t, "exit") => Cardinality(At("exit"))' = Cardinality(At("exit")) + 1
      BY <1>4, Enter, Zenon DEF Issue
    <3>1. Cardinality(At("exit"))' = Cardinality(At("exit")) + 1
            \/ MaxRequests = 0 \/ issued' <= MaxRequests
      BY <3>a, <3>b, Zenon
    <3>2. Cardinality(At("exit"))' <= Concurrency /\ Cardinality(At("exit")) \in Nat
      BY AtNext, AtFinite, Zenon
    <3> QED
      BY <1>4, <3>1, <3>2 DEF Issue, BudgetInv, TypeOK
  <2>2. issued' \in Nat /\ started' \in Nat
    BY <1>4 DEF Issue, TypeOK
  <2>3. cancelled' \in BOOLEAN
    BY <1>4, Zenon DEF Issue, TypeOK
  <2>4. issued' \in 0..(MaxRequests + Concurrency)
    BY <1>4, <2>1, <2>2, AtFinite DEF Issue, TypeOK
  <2>5. pc' \in [Threads -> {"delay", "loop", "issue", "do", "exit"}]
    BY <1>4, Zenon DEF Issue, Goto, TypeOK
  <2> QED
    BY <1>4, <2>2, <2>3, <2>4, <2>5, Zenon DEF Issue, pacerVars, TypeOK
<1>5. ASSUME NEW t \in Threads, Do(t) PROVE TypeOK'
  BY <1>5 DEF Do, TypeOK, Goto, threadVars, pacerVars
<1>6. CASE Tick
  BY <1>6 DEF Tick, TypeOK, threadVars, pacerVars
<1>7. CASE Send
  BY <1>7 DEF Send, TypeOK, threadVars, pacerVars
<1>8. CASE AllSent
  BY <1>8, Zenon DEF AllSent, TypeOK, threadVars, pacerVars
<1>9. CASE PacerEnds
  BY <1>9, Zenon DEF PacerEnds, TypeOK, threadVars, pacerVars
<1>10. CASE Expire
  BY <1>10, Zenon DEF Expire, TypeOK, threadVars, pacerVars
<1>11. CASE Interrupt
  BY <1>11, Zenon DEF Interrupt, TypeOK, threadVars, pacerVars
<1>12. CASE Finish
  BY <1>12, Zenon DEF Finish, TypeOK, threadVars, pacerVars
<1>13. CASE UNCHANGED vars
  BY <1>13, Zenon DEF vars, TypeOK
<1> QED
  BY <1>1, <1>2, <1>3, <1>4, <1>5, <1>6, <1>7, <1>8, <1>9, <1>10, <1>11, <1>12, <1>13, Zenon DEF Next, Rest

LEMMA FlightNext ==
  ASSUME TypeOK, FlightInv, [Next]_vars
  PROVE  FlightInv'
<1> USE EngineAssumption, AtFinite
<1>1. ASSUME NEW t \in Threads, Delayed(t) PROVE FlightInv'
  <2>1. Cardinality(At("do"))' = Cardinality(At("do"))
    BY <1>1, Stay, Zenon DEF Delayed
  <2> QED
    BY <1>1, <2>1, Zenon DEF Delayed, FlightInv
<1>2. ASSUME NEW t \in Threads, Check(t) PROVE FlightInv'
  <2>1. Cardinality(At("do"))' = Cardinality(At("do"))
    BY <1>2, Stay, Zenon DEF Check
  <2> QED
    BY <1>2, <2>1, Zenon DEF Check, FlightInv
<1>3. ASSUME NEW t \in Threads, Receive(t) PROVE FlightInv'
  <2>1. Cardinality(At("do"))' = Cardinality(At("do"))
    BY <1>3, Stay, Zenon DEF Receive
  <2> QED
    BY <1>3, <2>1, Zenon DEF Receive, FlightInv
<1>4. ASSUME NEW t \in Threads, Issue(t) PROVE FlightInv'
  <2>1. CASE started' = started + 1 /\ Goto(t, "do")
    BY <1>4, <2>1, Enter DEF Issue, FlightInv, TypeOK
  <2>2. CASE started' = started /\ Goto(t, "exit")
    BY <1>4, <2>2, Stay, Zenon DEF Issue, FlightInv, TypeOK
  <2> QED
    BY <1>4, <2>1, <2>2, Zenon DEF Issue
<1>5. ASSUME NEW t \in Threads, Do(t) PROVE FlightInv'
  <2>1. Cardinality(At("do"))' = Cardinality(At("do")) - 1
    BY <1>5, Leave, Zenon DEF Do
  <2> QED
    BY <1>5, <2>1 DEF Do, FlightInv, TypeOK
<1>6. CASE Tick
  BY <1>6, Zenon DEF Tick, FlightInv, At, threadVars
<1>7. CASE Send
  BY <1>7, Zenon DEF Send, FlightInv, At, threadVars
<1>8. CASE AllSent
  BY <1>8, Zenon DEF AllSent, FlightInv, At, threadVars
<1>9. CASE PacerEnds
  BY <1>9, Zenon DEF PacerEnds, FlightInv, At, threadVars
<1>10. CASE Expire
  BY <1>10, Zenon DEF Expire, FlightInv, At, threadVars
<1>11. CASE Interrupt
  BY <1>11, Zenon DEF Interrupt, FlightInv, At, threadVars
<1>12. CASE Finish
  BY <1>12, Zenon DEF Finish, FlightInv, At, threadVars
<1>13. CASE UNCHANGED vars
  BY <1>13, Zenon DEF vars, FlightInv, At
<1> QED
  BY <1>1, <1>2, <1>3, <1>4, <1>5, <1>6, <1>7, <1>8, <1>9, <1>10, <1>11, <1>12, <1>13, Zenon DEF Next, Rest

LEMMA BudgetNext ==
  ASSUME TypeOK, BudgetInv, [Next]_vars
  PROVE  BudgetInv'
<1> USE EngineAssumption, AtFinite
<1>1. ASSUME NEW t \in Threads, Delayed(t) PROVE BudgetInv'
  <2>a. \/ Cardinality(At("exit"))' = Cardinality(At("exit"))
        \/ Cardinality(At("exit"))' = Cardinality(At("exit")) + 1
    <3>1. pc[t] # "exit" /\ (Goto(t, "loop") \/ Goto(t, "issue") \/ Goto(t, "exit"))
      BY <1>1, Zenon DEF Delayed
    <3>2. CASE Goto(t, "loop")
      BY <3>1, <3>2, Stay, Zenon
    <3>3. CASE Goto(t, "issue")
      BY <3>1, <3>3, Stay, Zenon
    <3>4. CASE Goto(t, "exit")
      BY <3>1, <3>4, Enter, Zenon
    <3> QED
      BY <3>1, <3>2, <3>3, <3>4, Zenon
  <2>1. Cardinality(At("exit")) \in Nat /\ issued \in Nat /\ MaxRequests \in Nat
    BY AtFinite DEF TypeOK
  <2>2. UNCHANGED <<issued, started>>
    BY <1>1, Zenon DEF Delayed
  <2> QED
    BY <2>a, <2>1, <2>2 DEF BudgetInv
<1>2. ASSUME NEW t \in Threads, Check(t) PROVE BudgetInv'
  <2>a. \/ Cardinality(At("exit"))' = Cardinality(At("exit"))
        \/ Cardinality(At("exit"))' = Cardinality(At("exit")) + 1
    <3>1. pc[t] # "exit" /\ (Goto(t, "loop") \/ Goto(t, "issue") \/ Goto(t, "exit"))
      BY <1>2, Zenon DEF Check
    <3>2. CASE Goto(t, "loop")
      BY <3>1, <3>2, Stay, Zenon
    <3>3. CASE Goto(t, "issue")
      BY <3>1, <3>3, Stay, Zenon
    <3>4. CASE Goto(t, "exit")
      BY <3>1, <3>4, Enter, Zenon
    <3> QED
      BY <3>1, <3>2, <3>3, <3>4, Zenon
  <2>1. Cardinality(At("exit")) \in Nat /\ issued \in Nat /\ MaxRequests \in Nat
    BY AtFinite DEF TypeOK
  <2>2. UNCHANGED <<issued, started>>
    BY <1>2, Zenon DEF Check
  <2> QED
    BY <2>a, <2>1, <2>2 DEF BudgetInv
<1>3. ASSUME NEW t \in Threads, Receive(t) PROVE BudgetInv'
  <2>a. \/ Cardinality(At("exit"))' = Cardinality(At("exit"))
        \/ Cardinality(At("exit"))' = Cardinality(At("exit")) + 1
    <3>1. pc[t] # "exit" /\ (Goto(t, "loop") \/ Goto(t, "issue") \/ Goto(t, "exit"))
      BY <1>3, Zenon DEF Receive
    <3>2. CASE Goto(t, "loop")
      BY <3>1, <3>2, Stay, Zenon
    <3>3. CASE Goto(t, "issue")
      BY <3>1, <3>3, Stay, Zenon
    <3>4. CASE Goto(t, "exit")
      BY <3>1, <3>4, Enter, Zenon
    <3> QED
      BY <3>1, <3>2, <3>3, <3>4, Zenon
  <2>1. Cardinality(At("exit")) \in Nat /\ issued \in Nat /\ MaxRequests \in Nat
    BY AtFinite DEF TypeOK
  <2>2. UNCHANGED <<issued, started>>
    BY <1>3, Zenon DEF Receive
  <2> QED
    BY <2>a, <2>1, <2>2 DEF BudgetInv
<1>4. ASSUME NEW t \in Threads, Issue(t) PROVE BudgetInv'
  <2>1. CASE started' = started + 1 /\ Goto(t, "do")
    <3>1. Cardinality(At("exit"))' = Cardinality(At("exit"))
      BY <1>4, <2>1, Stay, Zenon DEF Issue
    <3> QED
      BY <1>4, <2>1, <3>1 DEF Issue, BudgetInv, TypeOK, Goto
  <2>2. CASE started' = started /\ Goto(t, "exit")
    <3>1. Cardinality(At("exit"))' = Cardinality(At("exit")) + 1
      BY <1>4, <2>2, Enter, Zenon DEF Issue
    <3> QED
      BY <1>4, <2>2, <3>1 DEF Issue, BudgetInv, TypeOK
  <2> QED
    BY <1>4, <2>1, <2>2, Zenon DEF Issue
<1>5. ASSUME NEW t \in Threads, Do(t) PROVE BudgetInv'
  <2>1. Cardinality(At("exit"))' = Cardinality(At("exit"))
    BY <1>5, Stay, Zenon DEF Do
  <2> QED
    BY <1>5, <2>1, Zenon DEF Do, BudgetInv, TypeOK
<1>6. CASE Tick
  BY <1>6, Zenon DEF Tick, BudgetInv, At, threadVars
<1>7. CASE Send
  BY <1>7, Zenon DEF Send, BudgetInv, At, threadVars
<1>8. CASE AllSent
  BY <1>8, Zenon DEF AllSent, BudgetInv, At, threadVars
<1>9. CASE PacerEnds
  BY <1>9, Zenon DEF PacerEnds, BudgetInv, At, threadVars
<1>10. CASE Expire
  BY <1>10, Zenon DEF Expire, BudgetInv, At, threadVars
<1>11. CASE Interrupt
  BY <1>11, Zenon DEF Interrupt, BudgetInv, At, threadVars
<1>12. CASE Finish
  BY <1>12, Zenon DEF Finish, BudgetInv, At, threadVars
<1>13. CASE UNCHANGED vars
  BY <1>13, Zenon DEF vars, BudgetInv, At
<1> QED
  BY <1>1, <1>2, <1>3, <1>4, <1>5, <1>6, <1>7, <1>8, <1>9, <1>10, <1>11, <1>12, <1>13, Zenon DEF Next, Rest

LEMMA EndNext ==
  ASSUME TypeOK, EndInv, [Next]_vars
  PROVE  EndInv'
<1> USE EngineAssumption
<1>1. ASSUME NEW t \in Threads, Delayed(t) PROVE EndInv'
  BY <1>1, Zenon DEF Delayed, EndInv, Ending, TypeOK, Goto, threadVars, pacerVars
<1>2. ASSUME NEW t \in Threads, Check(t) PROVE EndInv'
  BY <1>2, Zenon DEF Check, EndInv, Ending, TypeOK, Goto, threadVars, pacerVars
<1>3. ASSUME NEW t \in Threads, Receive(t) PROVE EndInv'
  BY <1>3, Zenon DEF Receive, EndInv, Ending, TypeOK, Goto, threadVars, pacerVars
<1>4. ASSUME NEW t \in Threads, Issue(t) PROVE EndInv'
  BY <1>4 DEF Issue, EndInv, Ending, TypeOK, Goto, threadVars, pacerVars
<1>5. ASSUME NEW t \in Threads, Do(t) PROVE EndInv'
  BY <1>5, Zenon DEF Do, EndInv, Ending, TypeOK, Goto, threadVars, pacerVars
<1>6. CASE Tick
  BY <1>6, Zenon DEF Tick, EndInv, Ending, TypeOK, threadVars, pacerVars
<1>7. CASE Send
  BY <1>7, Zenon DEF Send, EndInv, Ending, TypeOK, threadVars, pacerVars
<1>8. CASE AllSent
  BY <1>8, Zenon DEF AllSent, EndInv, Ending, TypeOK, threadVars, pacerVars
<1>9. CASE PacerEnds
  BY <1>9, Zenon DEF PacerEnds, EndInv, Ending, TypeOK, threadVars, pacerVars
<1>10. CASE Expire
  BY <1>10, Zenon DEF Expire, EndInv, Ending, TypeOK, threadVars, pacerVars
<1>11. CASE Interrupt
  BY <1>11, Zenon DEF Interrupt, EndInv, Ending, TypeOK, threadVars, pacerVars
<1>12. CASE Finish
  BY <1>12, Zenon DEF Finish, EndInv, Ending, TypeOK, threadVars, pacerVars
<1>13. CASE UNCHANGED vars
  BY <1>13, Zenon DEF vars, EndInv, Ending
<1> QED
  BY <1>1, <1>2, <1>3, <1>4, <1>5, <1>6, <1>7, <1>8, <1>9, <1>10, <1>11, <1>12, <1>13, Zenon DEF Next, Rest

LEMMA ScheduleNext ==
  ASSUME TypeOK, ScheduleInv, [Next]_vars
  PROVE  ScheduleInv'
<1> USE EngineAssumption, AtFinite
<1>1. ASSUME NEW t \in Threads, Delayed(t) PROVE ScheduleInv'
  <2>1. Cardinality(At("issue"))' = Cardinality(At("issue"))
    BY <1>1, Stay, Zenon DEF Delayed
  <2> QED
    BY <1>1, <2>1, Zenon DEF Delayed, ScheduleInv, pacerVars
<1>2. ASSUME NEW t \in Threads, Check(t) PROVE ScheduleInv'
  BY <1>2, Zenon DEF Check, ScheduleInv, pacerVars
<1>3. ASSUME NEW t \in Threads, Receive(t) PROVE ScheduleInv'
  <2>1. CASE tokens > 0 /\ tokens' = tokens - 1 /\ Goto(t, "issue")
    <3>1. Cardinality(At("issue"))' = Cardinality(At("issue")) + 1
      BY <1>3, <2>1, Enter, Zenon DEF Receive
    <3> QED
      BY <1>3, <2>1, <3>1 DEF Receive, ScheduleInv, TypeOK
  <2>2. CASE tokens' = tokens /\ Goto(t, "exit")
    <3>1. Cardinality(At("issue"))' = Cardinality(At("issue"))
      BY <1>3, <2>2, Stay, Zenon DEF Receive
    <3> QED
      BY <1>3, <2>2, <3>1, Zenon DEF Receive, ScheduleInv
  <2> QED
    BY <1>3, <2>1, <2>2, Zenon DEF Receive
<1>4. ASSUME NEW t \in Threads, Issue(t) PROVE ScheduleInv'
  <2>1. Cardinality(At("issue"))' = Cardinality(At("issue")) - 1
    BY <1>4, Leave, Zenon DEF Issue
  <2>2. started' <= started + 1
    BY <1>4 DEF Issue, TypeOK
  <2>3. started' \in Nat
    BY <1>4 DEF Issue, TypeOK
  <2> QED
    BY <1>4, <2>1, <2>2, <2>3 DEF Issue, ScheduleInv, TypeOK, pacerVars
<1>5. ASSUME NEW t \in Threads, Do(t) PROVE ScheduleInv'
  <2>1. Cardinality(At("issue"))' = Cardinality(At("issue"))
    BY <1>5, Stay, Zenon DEF Do
  <2> QED
    BY <1>5, <2>1, Zenon DEF Do, ScheduleInv, pacerVars
<1>6. CASE Tick
  BY <1>6 DEF Tick, ScheduleInv, TypeOK, At, threadVars, pacerVars
<1>7. CASE Send
  <2>1. Cardinality(At("issue"))' = Cardinality(At("issue"))
    BY <1>7, Zenon DEF Send, At, threadVars
  <2>2. Cardinality(At("issue")) \in Nat
    BY FS_CardinalityType, Zenon
  <2> QED
    BY <1>7, <2>1, <2>2 DEF Send, ScheduleInv, TypeOK, threadVars
<1>8. CASE AllSent
  BY <1>8, Zenon DEF AllSent, ScheduleInv, TypeOK, At, threadVars, pacerVars
<1>9. CASE PacerEnds
  BY <1>9, Zenon DEF PacerEnds, ScheduleInv, TypeOK, At, threadVars, pacerVars
<1>10. CASE Expire
  BY <1>10, Zenon DEF Expire, ScheduleInv, TypeOK, At, threadVars, pacerVars
<1>11. CASE Interrupt
  BY <1>11, Zenon DEF Interrupt, ScheduleInv, TypeOK, At, threadVars, pacerVars
<1>12. CASE Finish
  BY <1>12, Zenon DEF Finish, ScheduleInv, TypeOK, At, threadVars, pacerVars
<1>13. CASE UNCHANGED vars
  BY <1>13, Zenon DEF vars, ScheduleInv, At
<1> QED
  BY <1>1, <1>2, <1>3, <1>4, <1>5, <1>6, <1>7, <1>8, <1>9, <1>10, <1>11, <1>12, <1>13, Zenon DEF Next, Rest

LEMMA EngineAlways == Spec => []EngineInv
<1>1. EngineInv /\ [Next]_vars => EngineInv'
  BY TypeNext, FlightNext, BudgetNext, EndNext, ScheduleNext, Zenon DEF EngineInv
<1> QED
  BY InitInv, <1>1, PTL DEF Spec

\* The types, and with them that Engine.issued stays within
\* MaxRequests + Concurrency: every goroutine passes the budget at most once.
THEOREM TypeCorrect == Spec => []TypeOK
<1>1. EngineInv => TypeOK
  BY Zenon DEF EngineInv
<1> QED
  BY EngineAlways, <1>1, PTL

\* Whatever the race for the last requests, worker never makes more than
\* MaxRequests.
THEOREM BudgetKept == Spec => []NeverOverBudget
<1>1. EngineInv => NeverOverBudget
  BY EngineAssumption, AtFinite DEF EngineInv, TypeOK, BudgetInv, NeverOverBudget
<1> QED
  BY EngineAlways, <1>1, PTL

\* When Run closes done, everything that was sent is in the shards, and a run
\* that was not cut short made exactly MaxRequests.
THEOREM FinalIsComplete == Spec => []DoneIsComplete
<1>1. EngineInv => DoneIsComplete
  <2> SUFFICES ASSUME EngineInv, done PROVE recorded = started /\ (~cut => recorded = MaxRequests)
    BY Zenon DEF DoneIsComplete
  <2>1. \A t \in Threads : pc[t] = "exit"
    BY Zenon DEF EngineInv, EndInv
  <2>2. At("do") = {}
    BY <2>1, Zenon DEF At
  <2>3. recorded = started
    BY <2>2, FS_EmptySet DEF EngineInv, FlightInv, TypeOK
  <2>4. ~cut => MaxRequests > 0 /\ issued > MaxRequests
    BY <2>1, EngineAssumption, Zenon DEF EngineInv, EndInv, Ending
  <2>5. ~cut => started = MaxRequests
    BY <2>4, EngineAssumption, AtFinite DEF EngineInv, BudgetInv, TypeOK
  <2> QED
    BY <2>3, <2>5, Zenon
<1> QED
  BY EngineAlways, <1>1, PTL

\* worker makes a request for a token, pace sends one for a request that is due.
THEOREM OnSchedule == Spec => []NeverAheadOfSchedule
<1>1. EngineInv => NeverAheadOfSchedule
  BY AtFinite DEF EngineInv, ScheduleInv, TypeOK, NeverAheadOfSchedule
<1> QED
  BY EngineAlways, <1>1, PTL
-----------------------------------------------------------------------------
(* Truncation: \div and Root.                                              *)

LEMMA DivGeq ==
  ASSUME NEW x \in Nat, NEW y \in Nat \ {0}, NEW k \in Nat
  PROVE  k <= x \div y <=> k * y <= x
<1> DEFINE q == x \div y
<1>1. q \in Nat /\ q * y <= x /\ x < (q + 1) * y
  OBVIOUS
<1>2. ASSUME k <= q PROVE k * y <= q * y
  BY <1>1, <1>2
<1>3. ASSUME q + 1 <= k PROVE (q + 1) * y <= k * y
  BY <1>1, <1>3
<1> HIDE DEF q
<1>4. k * y \in Nat /\ q * y \in Nat /\ (q + 1) * y \in Nat
  BY <1>1
<1>5. k <= q \/ q + 1 <= k
  BY <1>1
<1>6. k <= q <=> k * y <= x
  BY <1>1, <1>2, <1>3, <1>4, <1>5
<1> QED
  BY <1>6, Zenon DEF q

LEMMA DivNat ==
  ASSUME NEW x \in Nat, NEW y \in Nat \ {0}
  PROVE  x \div y \in Nat
OBVIOUS

LEMMA SquaresGrow ==
  ASSUME NEW a \in Nat, NEW b \in Nat, a < b
  PROVE  a * a < b * b
<1>1. a * a <= a * b /\ a * b < b * b
  OBVIOUS
<1> QED
  BY <1>1

LEMMA RootExists ==
  ASSUME NEW k \in Nat
  PROVE  \E m \in 0..k : m * m <= k /\ k < (m + 1) * (m + 1)
<1> DEFINE T == {m \in Nat : k < (m + 1) * (m + 1)}
<1>1. k < (k + 1) * (k + 1)
  OBVIOUS
<1>2. T \subseteq Nat /\ k \in T
  BY <1>1, Zenon
<1>3. PICK m \in T : \A y \in T : ~(<<y, m>> \in OpToRel(<, Nat))
  BY <1>2, WFMin, NatLessThanWellFounded, Zenon
<1>4. m \in Nat /\ k < (m + 1) * (m + 1)
  OBVIOUS
<1>5. \A y \in T : ~(y < m)
  BY <1>2, <1>3, <1>4, Zenon DEF OpToRel
<1>6. m * m <= k
  <2>1. CASE m = 0
    BY <2>1
  <2>2. CASE m > 0
    <3>1. m - 1 \in Nat /\ m - 1 < m /\ (m - 1) + 1 = m
      BY <1>4, <2>2
    <3>2. m - 1 \notin T
      BY <1>5, <3>1, Zenon
    <3>3. ~(k < ((m - 1) + 1) * ((m - 1) + 1))
      BY <3>1, <3>2, Zenon
    <3> QED
      BY <3>1, <3>3, <1>4
  <2> QED
    BY <2>1, <2>2, <1>4
<1>7. m <= k
  BY <1>2, <1>4, <1>5
<1> QED
  BY <1>4, <1>6, <1>7

LEMMA RootBounds ==
  ASSUME NEW k \in Nat
  PROVE  Root(k) \in Nat /\ Root(k) * Root(k) <= k /\ k < (Root(k) + 1) * (Root(k) + 1)
<1>1. Root(k) \in 0..k /\ Root(k) * Root(k) <= k /\ k < (Root(k) + 1) * (Root(k) + 1)
  BY RootExists, Zenon DEF Root
<1> QED
  BY <1>1

LEMMA RootLeq ==
  ASSUME NEW k \in Nat, NEW t \in Nat
  PROVE  /\ k <= t * t => Root(k) <= t
         /\ t * t <= k => t <= Root(k)
<1> DEFINE m == Root(k)
<1>1. m \in Nat /\ m * m <= k /\ k < (m + 1) * (m + 1)
  BY RootBounds, Zenon
<1> HIDE DEF m
<1>2. ASSUME k <= t * t PROVE m <= t
  <2> SUFFICES ASSUME t < m PROVE FALSE
    BY <1>1
  <2>1. t * t < m * m
    BY <1>1, SquaresGrow, Zenon
  <2> QED
    BY <1>1, <1>2, <2>1
<1>3. ASSUME t * t <= k PROVE t <= m
  <2> SUFFICES ASSUME m + 1 <= t PROVE FALSE
    BY <1>1
  <2>1. (m + 1) * (m + 1) <= t * t
    BY <1>1, SquaresGrow, m + 1 = t \/ m + 1 < t
  <2> QED
    BY <1>1, <1>3, <2>1
<1> QED
  BY <1>2, <1>3, Zenon DEF m

LEMMA DivLeq ==
  ASSUME NEW x \in Nat, NEW y \in Nat \ {0}, NEW k \in Nat, x <= k * y
  PROVE  x \div y <= k
<1>1. x \div y \in Nat /\ k * y \in Nat /\ k * y < (k + 1) * y
  OBVIOUS
<1>2. ~(k + 1 <= x \div y)
  BY <1>1, DivGeq
<1> QED
  BY <1>1, <1>2
-----------------------------------------------------------------------------
(* The two halves of "inverse", for a constant rate, during the ramp and   *)
(* after it: a requests in b units of time, a ramp of r, a tick at t.      *)

LEMMA ConstantRate ==
  ASSUME NEW a \in Nat \ {0}, NEW b \in Nat \ {0}, NEW t \in Nat, NEW n \in Nat
  PROVE  /\ n < (a * t) \div b => (n * b) \div a <= t
         /\ (a * t) \div b < n => t <= (n * b) \div a
<1>1. a * t \in Nat /\ n * b \in Nat /\ (n + 1) * b \in Nat /\ n * b <= (n + 1) * b
      /\ a * t = t * a /\ (a * t) \div b \in Nat
  OBVIOUS
<1>2. ASSUME n < (a * t) \div b PROVE (n * b) \div a <= t
  <2>1. (n + 1) * b <= a * t
    BY <1>1, <1>2, DivGeq
  <2> QED
    BY <1>1, <2>1, DivLeq
<1>3. ASSUME (a * t) \div b < n PROVE t <= (n * b) \div a
  <2>1. ~(n * b <= a * t)
    BY <1>1, <1>3, DivGeq
  <2> QED
    BY <1>1, <2>1, DivGeq
<1> QED
  BY <1>2, <1>3, Zenon

LEMMA DuringRamp ==
  ASSUME NEW a \in Nat \ {0}, NEW b \in Nat \ {0}, NEW r \in Nat \ {0}, NEW t \in Nat, NEW n \in Nat
  PROVE  /\ n < (a * t * t) \div (2 * b * r) => Root((2 * r * n * b) \div a) <= t
         /\ (a * t * t) \div (2 * b * r) < n => t <= Root((2 * r * n * b) \div a)
<1> DEFINE c == 2 * b * r
           d == 2 * r * n * b
           e == a * t * t
<1>1. c \in Nat \ {0} /\ d \in Nat /\ e \in Nat /\ t * t \in Nat /\ d \div a \in Nat /\ e \div c \in Nat
  OBVIOUS
<1>2. n * c = d /\ (t * t) * a = e /\ (n + 1) * c = d + c
  OBVIOUS
<1> HIDE DEF c, d, e
<1>3. ASSUME n < e \div c PROVE Root(d \div a) <= t
  <2>1. (n + 1) * c <= e
    BY <1>1, <1>3, DivGeq
  <2>2. d \div a <= t * t
    BY <1>1, <1>2, <2>1, DivLeq
  <2> QED
    BY <1>1, <2>2, RootLeq, Zenon
<1>4. ASSUME e \div c < n PROVE t <= Root(d \div a)
  <2>1. ~(n * c <= e)
    BY <1>1, <1>4, DivGeq
  <2>2. t * t <= d \div a
    BY <1>1, <1>2, <2>1, DivGeq
  <2> QED
    BY <1>1, <2>2, RootLeq, Zenon
<1> QED
  BY <1>3, <1>4, Zenon DEF c, d, e

LEMMA AfterRamp ==
  ASSUME NEW a \in Nat \ {0}, NEW b \in Nat \ {0}, NEW r \in Nat \ {0}, NEW t \in Nat, NEW n \in Nat, r <= t
  PROVE  /\ n < (a * (2 * t - r)) \div (2 * b) => (a * r + 2 * b * n) \div (2 * a) <= t
         /\ (a * (2 * t - r)) \div (2 * b) < n => t <= (a * r + 2 * b * n) \div (2 * a)
<1> DEFINE c == a * (2 * t - r)
           d == a * r + 2 * b * n
<1>1. c \in Nat /\ d \in Nat /\ 2 * a \in Nat \ {0} /\ 2 * b \in Nat \ {0} /\ n * (2 * b) \in Nat
      /\ c \div (2 * b) \in Nat
  OBVIOUS
<1>2. c = 2 * (a * t) - a * r /\ t * (2 * a) = 2 * (a * t) /\ d = a * r + n * (2 * b)
      /\ n * (2 * b) <= (n + 1) * (2 * b) /\ a * t \in Nat /\ a * r \in Nat /\ (n + 1) * (2 * b) \in Nat
  OBVIOUS
<1> HIDE DEF c, d
<1>3. ASSUME n < c \div (2 * b) PROVE d \div (2 * a) <= t
  <2>1. (n + 1) * (2 * b) <= c
    BY <1>1, <1>3, DivGeq
  <2>2. d <= t * (2 * a)
    BY <1>1, <1>2, <2>1
  <2> QED
    BY <1>1, <2>2, DivLeq, Zenon
<1>4. ASSUME c \div (2 * b) < n PROVE t <= d \div (2 * a)
  <2>1. ~(n * (2 * b) <= c)
    BY <1>1, <1>4, DivGeq
  <2>2. t * (2 * a) <= d
    BY <1>1, <1>2, <2>1
  <2> QED
    BY <1>1, <2>2, DivGeq, Zenon
<1> QED
  BY <1>3, <1>4, Zenon DEF c, d

\* The tick is in the ramp, the request is due after it.
LEMMA TickInRamp ==
  ASSUME NEW a \in Nat \ {0}, NEW b \in Nat \ {0}, NEW r \in Nat \ {0}, NEW t \in Nat, NEW n \in Nat,
         t < r, 2 * b * n >= a * r
  PROVE  /\ (a * t * t) \div (2 * b * r) <= n
         /\ t <= (a * r + 2 * b * n) \div (2 * a)
<1>1. a * t * t <= a * r * r
  <2>1. t * t <= r * r /\ t * t \in Nat /\ r * r \in Nat
    BY SquaresGrow
  <2>2. \A x, y \in Nat : x <= y => a * x <= a * y
    OBVIOUS
  <2> QED
    BY <2>1, <2>2, a * t * t = a * (t * t), a * r * r = a * (r * r), Zenon
<1>2. a * r * r <= n * (2 * b * r)
  <2>1. \A x, y \in Nat : x <= y => x * r <= y * r
    OBVIOUS
  <2> QED
    BY <2>1, a * r \in Nat, 2 * b * n \in Nat, (2 * b * n) * r = n * (2 * b * r), Zenon
<1>3. (a * t * t) \div (2 * b * r) <= n
  BY <1>1, <1>2, DivLeq, a * t * t \in Nat, a * r * r \in Nat, 2 * b * r \in Nat \ {0}, n * (2 * b * r) \in Nat
<1>4. t * (2 * a) <= r * (2 * a) /\ r * (2 * a) = a * r + a * r
  OBVIOUS
<1>5. t * (2 * a) <= a * r + 2 * b * n
  BY <1>4, a * r \in Nat, 2 * b * n \in Nat, t * (2 * a) \in Nat
<1>6. t <= (a * r + 2 * b * n) \div (2 * a)
  BY <1>5, DivGeq, a * r + 2 * b * n \in Nat, 2 * a \in Nat \ {0}, Zenon
<1> QED
  BY <1>3, <1>6, Zenon

\* The request is due in the ramp, the tick is after it.
LEMMA DueInRamp ==
  ASSUME NEW a \in Nat \ {0}, NEW b \in Nat \ {0}, NEW r \in Nat \ {0}, NEW t \in Nat, NEW n \in Nat,
         r <= t, 2 * b * n < a * r
  PROVE  /\ Root((2 * r * n * b) \div a) <= t
         /\ n <= (a * (2 * t - r)) \div (2 * b)
<1>1. 2 * r * n * b <= (r * r) * a
  <2>1. \A x, y \in Nat : x <= y => x * r <= y * r
    OBVIOUS
  <2> QED
    BY <2>1, a * r \in Nat, 2 * b * n \in Nat, (2 * b * n) * r = 2 * r * n * b, (a * r) * r = (r * r) * a
<1>2. (2 * r * n * b) \div a <= r * r
  BY <1>1, DivLeq, 2 * r * n * b \in Nat, r * r \in Nat, Zenon
<1>3. (2 * r * n * b) \div a \in Nat
  BY 2 * r * n * b \in Nat
<1>4. Root((2 * r * n * b) \div a) <= t
  <2>1. Root((2 * r * n * b) \div a) <= r
    BY <1>2, <1>3, RootLeq, Zenon
  <2>2. Root((2 * r * n * b) \div a) \in Nat
    BY <1>3, RootBounds, Zenon
  <2> QED
    BY <2>1, <2>2
<1>5. a * r <= a * (2 * t - r)
  <2>1. \A x, y \in Nat : x <= y => a * x <= a * y
    OBVIOUS
  <2> QED
    BY <2>1, 2 * t - r \in Nat, r <= 2 * t - r, Zenon
<1>6. n * (2 * b) <= a * (2 * t - r)
  BY <1>5, n * (2 * b) = 2 * b * n, a * r \in Nat, 2 * b * n \in Nat, a * (2 * t - r) \in Nat
<1>7. n <= (a * (2 * t - r)) \div (2 * b)
  BY <1>6, DivGeq, a * (2 * t - r) \in Nat, 2 * b \in Nat \ {0}, Zenon
<1> QED
  BY <1>4, <1>7, Zenon

LEMMA ScheduleTypes ==
  ASSUME rate \in Rates, ramp \in Ramps, NEW t \in Nat
  PROVE  ExpectedRequests(t) \in Nat /\ ScheduleOffset(t) \in Nat
<1> DEFINE a == rate[1]
           b == rate[2]
<1>1. a \in Nat \ {0} /\ b \in Nat \ {0} /\ ramp \in Nat
  BY ScheduleAssumption, Zenon
<1> HIDE DEF a, b
<1>2. /\ a * t \in Nat /\ a * t * t \in Nat /\ t * b \in Nat /\ 2 * ramp * t * b \in Nat
      /\ a * ramp + 2 * b * t \in Nat /\ 2 * b * t \in Nat /\ a * ramp \in Nat
      /\ 2 * a \in Nat \ {0} /\ 2 * b \in Nat \ {0}
      /\ ramp > 0 => 2 * b * ramp \in Nat \ {0}
      /\ t >= ramp => a * (2 * t - ramp) \in Nat
  BY <1>1
<1>3. /\ (a * t) \div b \in Nat /\ (t * b) \div a \in Nat
      /\ (2 * ramp * t * b) \div a \in Nat /\ (a * ramp + 2 * b * t) \div (2 * a) \in Nat
      /\ ramp > 0 => (a * t * t) \div (2 * b * ramp) \in Nat
      /\ t >= ramp => (a * (2 * t - ramp)) \div (2 * b) \in Nat
  BY <1>1, <1>2, DivNat, Zenon
<1>4. Root((2 * ramp * t * b) \div a) \in Nat
  BY <1>3, RootBounds, Zenon
<1>5. ExpectedRequests(t) \in Nat
  BY <1>1, <1>3 DEF ExpectedRequests, a, b
<1>6. ScheduleOffset(t) \in Nat
  BY <1>1, <1>2, <1>3, <1>4 DEF ScheduleOffset, a, b
<1> QED
  BY <1>5, <1>6, Zenon

\* ExpectedRequests and ScheduleOffset are inverse up to truncation, for every
\* rate and ramp: what the schedule wants by t is due by t, and what it does not
\* want by t, but for the next request, is due at t or later.
LEMMA ScheduleIsInverse ==
  ASSUME rate \in Rates, ramp \in Ramps, NEW t \in Nat, NEW n \in Nat
  PROVE  /\ n < ExpectedRequests(t) => ScheduleOffset(n) <= t
         /\ ExpectedRequests(t) < n => t <= ScheduleOffset(n)
<1>1. rate[1] \in Nat \ {0} /\ rate[2] \in Nat \ {0} /\ ramp \in Nat
  BY ScheduleAssumption, Zenon
<1>2. CASE ramp = 0
  BY <1>1, <1>2, ConstantRate DEF ExpectedRequests, ScheduleOffset
<1>3. CASE ramp > 0 /\ t < ramp /\ 2 * rate[2] * n < rate[1] * ramp
  BY <1>1, <1>3, DuringRamp DEF ExpectedRequests, ScheduleOffset
<1>4. CASE ramp > 0 /\ t < ramp /\ 2 * rate[2] * n >= rate[1] * ramp
  <2>1. ExpectedRequests(t) <= n /\ t <= ScheduleOffset(n)
    BY <1>1, <1>4, TickInRamp DEF ExpectedRequests, ScheduleOffset
  <2>2. ExpectedRequests(t) \in Nat
    BY ScheduleTypes, Zenon
  <2> QED
    BY <2>1, <2>2
<1>5. CASE ramp > 0 /\ t >= ramp /\ 2 * rate[2] * n < rate[1] * ramp
  <2>1. n <= ExpectedRequests(t) /\ ScheduleOffset(n) <= t
    BY <1>1, <1>5, DueInRamp DEF ExpectedRequests, ScheduleOffset
  <2>2. ExpectedRequests(t) \in Nat
    BY ScheduleTypes, Zenon
  <2> QED
    BY <2>1, <2>2
<1>6. CASE ramp > 0 /\ t >= ramp /\ 2 * rate[2] * n >= rate[1] * ramp
  BY <1>1, <1>6, AfterRamp DEF ExpectedRequests, ScheduleOffset
<1>7. 2 * rate[2] * n \in Nat /\ rate[1] * ramp \in Nat
  BY <1>1
<1> QED
  BY <1>1, <1>2, <1>3, <1>4, <1>5, <1>6, <1>7
-----------------------------------------------------------------------------
(* The engine with its clock is an engine.                                 *)

\* pace with its ticker, ExpectedRequests and ramp is a pacer whose schedule
\* grows: whatever holds of LoadEngine holds of the engine with its clock.
THEOREM PacedImplements == PacedSpec => Spec
<1>1. PacedInit => Init
  BY Zenon DEF PacedInit
<1>2. [PacedNext]_pacedVars => [Next]_vars
  BY Zenon DEF PacedNext, Advance, PacedTick, Untimed, Next, pacedVars
<1> QED
  BY <1>1, <1>2, PTL DEF PacedSpec, Spec

\* The schedule that pace follows.  The clock is never behind a tick, the pacer
\* sends what is wanted by the last tick and has then sent no less.
PacedInv ==
  /\ rate \in Rates /\ ramp \in Ramps
  /\ now \in Nat /\ ticker \in 0..now /\ last \in 0..now
  /\ pacer = "send" => want = ExpectedRequests(last)
  /\ pacer = "tick" => ExpectedRequests(last) <= sent
  /\ NeverEarly

LEMMA SameSchedule ==
  ASSUME UNCHANGED <<rate, ramp>>, NEW n
  PROVE  ScheduleOffset(n)' = ScheduleOffset(n) /\ ExpectedRequests(n)' = ExpectedRequests(n)
BY Zenon DEF ScheduleOffset, ExpectedRequests

LEMMA PacedInitInv == PacedInit => PacedInv
<1> SUFFICES ASSUME PacedInit PROVE PacedInv
  OBVIOUS
<1>1. rate \in Rates /\ ramp \in Ramps /\ now = 0 /\ ticker = 0 /\ last = 0 /\ sent = 0
      /\ pacer \in {"off", "tick"}
  BY Zenon DEF PacedInit, Init
<1>2. ExpectedRequests(0) <= 0
  <2>1. rate[1] \in Nat \ {0} /\ rate[2] \in Nat \ {0} /\ ramp \in Nat
    BY <1>1, ScheduleAssumption, Zenon
  <2>2. ExpectedRequests(0) = 0
    <3>1. \A y \in Nat \ {0} : 0 \div y = 0
      OBVIOUS
    <3>2. rate[1] * 0 = 0 /\ rate[1] * 0 * 0 = 0
      BY <2>1
    <3>3. ramp > 0 => 2 * rate[2] * ramp \in Nat \ {0}
      BY <2>1
    <3>4. CASE ramp = 0
      BY <2>1, <3>1, <3>2, <3>4 DEF ExpectedRequests
    <3>5. CASE ramp > 0
      BY <2>1, <3>1, <3>2, <3>3, <3>5 DEF ExpectedRequests
    <3> QED
      BY <2>1, <3>4, <3>5
  <2> QED
    BY <2>2
<1> QED
  BY <1>1, <1>2 DEF PacedInv, NeverEarly

LEMMA PacedNextInv == PacedInv /\ EngineInv /\ [PacedNext]_pacedVars => PacedInv'
<1> SUFFICES ASSUME PacedInv, EngineInv, [PacedNext]_pacedVars PROVE PacedInv'
  OBVIOUS
<1>1. UNCHANGED <<rate, ramp>>
  BY Zenon DEF PacedNext, Advance, PacedTick, Untimed, pacedVars, clock
<1>2. rate \in Rates /\ ramp \in Ramps /\ sent \in Nat /\ now \in Nat
      /\ ticker \in 0..now /\ last \in 0..now /\ want \in Nat
  BY Zenon DEF PacedInv, EngineInv, TypeOK
<1>3. \A n \in Nat : /\ ScheduleOffset(n)' = ScheduleOffset(n) /\ ScheduleOffset(n) \in Nat
                     /\ ExpectedRequests(n)' = ExpectedRequests(n) /\ ExpectedRequests(n) \in Nat
  BY <1>1, <1>2, SameSchedule, ScheduleTypes, Zenon
<1>4. CASE Advance
  <2>1. now' \in Nat /\ now <= now' /\ ticker' \in 0..now' /\ UNCHANGED <<last, pacer, want, sent>>
    BY <1>2, <1>4, ScheduleAssumption DEF Advance, vars
  <2>2. NeverEarly'
    BY <1>2, <1>3, <2>1 DEF PacedInv, NeverEarly
  <2> QED
    BY <1>1, <1>2, <1>3, <2>1, <2>2 DEF PacedInv
<1>5. CASE PacedTick
  <2>1. last' = ticker /\ ticker' = 0 /\ UNCHANGED <<now, sent>> /\ pacer = "tick"
    BY <1>5, Zenon DEF PacedTick, Tick, vars
  <2>2. /\ pacer' = "send" => want' = ExpectedRequests(ticker)
        /\ pacer' = "tick" => ExpectedRequests(ticker) <= sent
    BY <1>5, Zenon DEF PacedTick, Tick, vars
  <2>3. NeverEarly'
    BY <1>2, <1>3, <2>1 DEF PacedInv, NeverEarly
  <2> QED
    BY <1>1, <1>2, <1>3, <2>1, <2>2, <2>3 DEF PacedInv
<1>6. CASE Untimed /\ Send
  <2>1. UNCHANGED <<now, ticker, last, want, pacer>> /\ sent' = sent + 1 /\ sent < want /\ pacer = "send"
    BY <1>6, Zenon DEF Untimed, Send, clock
  <2>2. ScheduleOffset(sent) <= now
    <3>1. sent < ExpectedRequests(last)
      BY <2>1, Zenon DEF PacedInv
    <3>2. ScheduleOffset(sent) <= last
      BY <1>2, <3>1, ScheduleIsInverse
    <3> QED
      BY <1>2, <1>3, <3>2
  <2>3. \A n \in 0..(sent' - 1) : ScheduleOffset(n) <= now
    <3> SUFFICES ASSUME NEW n \in 0..(sent' - 1) PROVE ScheduleOffset(n) <= now
      OBVIOUS
    <3>1. n = sent \/ n \in 0..(sent - 1)
      BY <1>2, <2>1
    <3> QED
      BY <2>2, <3>1, Zenon DEF PacedInv, NeverEarly
  <2>4. NeverEarly'
    BY <1>2, <1>3, <2>1, <2>3 DEF NeverEarly
  <2> QED
    BY <1>1, <1>2, <1>3, <2>1, <2>4 DEF PacedInv
<1>7. CASE Untimed /\ AllSent
  <2>1. UNCHANGED <<now, ticker, last, sent>> /\ sent >= want /\ pacer = "send" /\ pacer' = "tick"
    BY <1>7, Zenon DEF Untimed, AllSent, clock
  <2>2. NeverEarly'
    BY <1>2, <1>3, <2>1 DEF PacedInv, NeverEarly
  <2>3. ExpectedRequests(last) <= sent
    BY <1>2, <2>1, Zenon DEF PacedInv
  <2> QED
    BY <1>1, <1>2, <1>3, <2>1, <2>2, <2>3 DEF PacedInv
<1>8. CASE UNCHANGED <<clock, want, sent>> /\ pacer' \in {pacer, "ended"}
  <2>1. UNCHANGED <<now, ticker, last, want, sent>>
    BY <1>8, Zenon DEF clock
  <2>2. NeverEarly'
    BY <1>2, <1>3, <2>1 DEF PacedInv, NeverEarly
  <2> QED
    BY <1>1, <1>2, <1>3, <1>8, <2>1, <2>2 DEF PacedInv
<1>9. CASE Untimed /\ ~Send /\ ~AllSent
  BY <1>8, <1>9, Zenon DEF Untimed, Delayed, Check, Receive, Issue, Do, PacerEnds,
     Expire, Interrupt, Finish, Rest, vars, threadVars, pacerVars
<1>10. CASE UNCHANGED pacedVars
  BY <1>8, <1>10, Zenon DEF pacedVars, vars
<1> QED
  BY <1>4, <1>5, <1>6, <1>7, <1>9, <1>10, Zenon DEF PacedNext

LEMMA PacedAlways == PacedSpec => [](PacedInv /\ EngineInv)
BY PacedImplements, EngineAlways, PacedInitInv, PacedNextInv, PTL DEF PacedSpec

\* For every rate, ramp and ticker: pace never sends a request before the time
\* ScheduleOffset gives it, so no latency is negative.
THEOREM ScheduleKept == PacedSpec => []NeverEarly
<1>1. PacedInv => NeverEarly
  BY Zenon DEF PacedInv
<1> QED
  BY PacedAlways, <1>1, PTL

\* For every rate, ramp and ticker, and however many ticks pace has missed: once
\* it has served a tick, at most the next request was due before.
THEOREM CatchesUp == PacedSpec => []AtMostOneLate
<1>1. PacedInv /\ EngineInv => AtMostOneLate
  <2> SUFFICES ASSUME PacedInv, EngineInv, pacer = "tick",
                      NEW n \in 0..MaxWant, ScheduleOffset(n) < last
               PROVE  n <= sent
    BY Zenon DEF AtMostOneLate
  <2>1. rate \in Rates /\ ramp \in Ramps /\ sent \in Nat /\ last \in Nat /\ n \in Nat
        /\ ExpectedRequests(last) <= sent
    BY EngineAssumption DEF PacedInv, EngineInv, TypeOK
  <2>2. ExpectedRequests(last) \in Nat /\ ScheduleOffset(n) \in Nat
    BY <2>1, ScheduleTypes, Zenon
  <2>3. ~(ExpectedRequests(last) < n)
    BY <2>1, <2>2, ScheduleIsInverse
  <2> QED
    BY <2>1, <2>2, <2>3
<1> QED
  BY PacedAlways, <1>1, PTL

\* What is proved of LoadEngine, for the engine with its clock: the budget is
\* kept, done means complete, and the open model follows its schedule.
THEOREM PacedSafe == PacedSpec => [](NeverOverBudget /\ DoneIsComplete /\ NeverAheadOfSchedule)
BY PacedImplements, BudgetKept, FinalIsComplete, OnSchedule, PTL

=============================================================================
