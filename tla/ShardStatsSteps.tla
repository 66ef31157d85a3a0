-------------------------- MODULE ShardStatsSteps ---------------------------
(***************************************************************************)
(* What the steps of ShardStats keep of the invariant's reading parts, one *)
(* lemma for each step and each part: snapshots never have more than the   *)
(* shards, the last one has it all, and a torn histogram is ahead of the   *)
(* requests by little.                                                     *)
(***************************************************************************)
EXTENDS ShardStatsLemmas

(* The steps of the reporter: what is seen, and the sums.                  *)

LEMMA SeenIs ==
  ASSUME pool \in Nat, from \in 1..(pool + 1), next \in 1..Len(Loads)
  PROVE  /\ \A c \in Counters : Seen[c] \in SUBSET Shards
         /\ from = 1 /\ next = 1 => \A c \in Counters : Seen[c] = {}
         /\ from > pool => \A c \in Counters : Seen[c] = Shards
<1>1. \A c \in Counters : Slot(c) \in 1..Len(Loads)
  BY LoadsBySlot, Zenon
<1>2. \A c \in Counters : Seen[c] = {s \in 1..pool : s < from \/ (s = from /\ Slot(c) < next)}
  BY Zenon DEF Seen, Shards
<1>3. \A c \in Counters : Seen[c] \in SUBSET (1..pool)
  BY <1>2, Zenon
<1>4. ASSUME from = 1, next = 1, NEW c \in Counters PROVE Seen[c] = {}
  BY <1>1, <1>2, <1>4
<1>5. ASSUME from > pool, NEW c \in Counters PROVE Seen[c] = 1..pool
  <2>1. \A s \in 1..pool : s < from
    BY <1>5
  <2> QED
    BY <1>2, <2>1, Zenon
<1> QED
  BY <1>3, <1>4, <1>5, Zenon DEF Shards

LEMMA SeenLoad ==
  ASSUME WriteTypeOK, ReadTypeOK, Load
  PROVE  /\ from \in Shards /\ ReadTypeOK' /\ reading' = Loaded(reading, shard[from], Loads[next])
         /\ \A c \in Counters :
              IF c \in Loads[next]
              THEN from \notin Seen[c] /\ Seen'[c] = Seen[c] \cup {from}
                   /\ reading'[c] = Combine(c, reading[c], shard[from][c])
              ELSE Seen'[c] = Seen[c] /\ reading'[c] = reading[c]
<1> DEFINE n == Len(Loads)
<1>1. pool \in Nat /\ from \in 1..pool /\ next \in 1..n /\ n \in Nat
  <2>1. n \in Nat
    BY LoadsAre, SnapshotsAssumption
  <2> QED
    BY <2>1, ShardStatsAssumption DEF WriteTypeOK, ReadTypeOK, Load
<1>2. /\ pool' = pool /\ reading' = Loaded(reading, shard[from], Loads[next])
      /\ IF next < n THEN next' = next + 1 /\ from' = from ELSE next' = 1 /\ from' = from + 1
      /\ reader' = reader /\ prev' = prev /\ interval' = interval /\ ticks' = ticks
      /\ report' = report /\ verdict' = verdict
  BY Zenon DEF Load, writeVars
<1>3. from \in Shards
  BY <1>1, Zenon DEF Shards
<1>4. \A c \in Counters : reading'[c] = IF c \in Loads[next] THEN Combine(c, reading[c], shard[from][c])
                                                            ELSE reading[c]
  BY <1>2, Zenon DEF Loaded
<1>5. reading' \in Snaps
  <2>1. \A c \in Counters : reading[c] \in 0..MaxUint /\ shard[from][c] \in 0..MaxUint
    BY <1>3, Zenon DEF ReadTypeOK, WriteTypeOK, Snaps
  <2>2. \A c \in Counters : Combine(c, reading[c], shard[from][c]) \in 0..MaxUint
    BY <2>1, CombineIs, Zenon
  <2>3. \A c \in Counters : reading'[c] \in 0..MaxUint
    BY <1>4, <2>1, <2>2, Zenon
  <2>4. reading' = [c \in Counters |-> reading'[c]]
    BY <1>2, Zenon DEF Loaded
  <2> QED
    BY <2>3, <2>4, Zenon DEF Snaps
<1>6. from' \in 1..(pool + 1) /\ next' \in 1..n
  BY <1>1, <1>2
<1>7. ReadTypeOK'
  BY <1>2, <1>5, <1>6, Zenon DEF ReadTypeOK
<1>8. ASSUME NEW c \in Counters
      PROVE  IF c \in Loads[next]
             THEN from \notin Seen[c] /\ Seen'[c] = Seen[c] \cup {from}
             ELSE Seen'[c] = Seen[c]
  <2>1. Slot(c) \in 1..n /\ (c \in Loads[next] <=> Slot(c) = next)
    BY <1>1, LoadsBySlot, Zenon
  <2>2. Seen[c] = {s \in 1..pool : s < from \/ (s = from /\ Slot(c) < next)}
    BY Zenon DEF Seen, Shards
  <2>3. Seen'[c] = {s \in 1..pool : s < from' \/ (s = from' /\ Slot(c) < next')}
    BY <1>2, Zenon DEF Seen, Shards
  <2> HIDE DEF n
  <2>4. CASE next < n
    BY <1>1, <1>2, <2>1, <2>2, <2>3, <2>4
  <2>5. CASE ~(next < n)
    <3>1. next' = 1 /\ from' = from + 1 /\ next = n
      BY <1>1, <1>2, <2>5
    <3> QED
      BY <1>1, <2>1, <2>2, <2>3, <3>1
  <2> QED
    BY <2>4, <2>5, Zenon
<1> QED
  BY <1>2, <1>3, <1>4, <1>7, <1>8, Zenon

\* The goroutines go on: what was read stays behind what the shards have.
LEMMA ReadsByWriter ==
  ASSUME WriteInv, ReadTypeOK, ReadInv, FinalInv, ~done, Grown, UNCHANGED <<pool, readVars>>
  PROVE  ReadTypeOK' /\ ReadInv' /\ FinalInv'
<1>1. /\ pool' = pool /\ reading' = reading /\ from' = from /\ next' = next /\ reader' = reader
      /\ prev' = prev /\ interval' = interval /\ ticks' = ticks /\ report' = report
      /\ verdict' = verdict
  BY Zenon DEF readVars
<1>2. ReadTypeOK'
  BY <1>1, Zenon DEF ReadTypeOK
<1>3. Shards' = Shards /\ Seen' = Seen
  BY <1>1, Zenon DEF Shards, Seen
<1>4. ASSUME NEW c \in Sums
      PROVE  /\ reader \in {"tick", "report"} => reading[c] <= Weight'[c][Seen[c]]
             /\ prev # None => prev[c] <= Weight'[c][Shards]
             /\ prev # None /\ reader = "tick" => prev[c] <= reading[c] + Weight'[c][Shards \ Seen[c]]
  <2>1. c \in Counters /\ Seen[c] \in SUBSET Shards /\ Shards \in SUBSET Shards
        /\ Shards \ Seen[c] \in SUBSET Shards
    BY KindsOfCounters, Zenon DEF Seen
  <2>2. /\ reader \in {"tick", "report"} => reading[c] <= Weight[c][Seen[c]]
        /\ prev # None => prev[c] <= Weight[c][Shards]
        /\ prev # None /\ reader = "tick" => prev[c] <= reading[c] + Weight[c][Shards \ Seen[c]]
    BY Zenon DEF ReadInv
  <2>3. reading[c] \in Int /\ (prev # None => prev[c] \in Int)
    BY <2>1 DEF ReadTypeOK, Snaps
  <2>4. \A L \in SUBSET Shards : Weight[c][L] \in Nat /\ Weight'[c][L] \in Nat /\ Weight[c][L] <= Weight'[c][L]
    BY Zenon DEF Grown
  <2>5. /\ Weight[c][Seen[c]] \in Nat /\ Weight'[c][Seen[c]] \in Nat
        /\ Weight[c][Seen[c]] <= Weight'[c][Seen[c]]
        /\ Weight[c][Shards] \in Nat /\ Weight'[c][Shards] \in Nat
        /\ Weight[c][Shards] <= Weight'[c][Shards]
        /\ Weight[c][Shards \ Seen[c]] \in Nat /\ Weight'[c][Shards \ Seen[c]] \in Nat
        /\ Weight[c][Shards \ Seen[c]] <= Weight'[c][Shards \ Seen[c]]
    BY <2>1, <2>4, Zenon
  <2> QED
    BY <2>2, <2>3, <2>5
<1>5. ReadInv'
  <2>1. TicksAreCumulative'
    BY <1>1, Zenon DEF ReadInv, TicksAreCumulative
  <2> QED
    BY <1>1, <1>3, <1>4, <2>1, Zenon DEF ReadInv
<1>6. reader \notin {"report", "ended"} /\ report = None /\ verdict = None
  BY Zenon DEF FinalInv
<1>7. FinalInv'
  <2>1. reader' # "report" /\ reader' # "ended" /\ report' = None /\ verdict' = None
    BY <1>1, <1>6, Zenon
  <2> QED
    BY <2>1, Zenon DEF FinalInv
<1> QED
  BY <1>2, <1>5, <1>7, Zenon

LEMMA NewSnapshotIs ==
  /\ NewSnapshot \in Snaps /\ \A c \in Sums : NewSnapshot[c] = 0
  /\ NewSnapshot[Total("maxUs")] = 0 /\ NewSnapshot[Total("minUs")] = MaxUint
<1>1. 0 \in 0..MaxUint /\ MaxUint \in 0..MaxUint
  BY SnapshotsAssumption DEF MaxUint
<1>2. \A c \in Counters : NewSnapshot[c] = IF c = Total("minUs") THEN MaxUint ELSE 0
  BY Zenon DEF NewSnapshot
<1>3. NewSnapshot \in Snaps
  BY <1>1, Zenon DEF NewSnapshot, Snaps
<1>4. \A c \in Sums : c \in Counters /\ c # Total("minUs")
  BY KindsOfCounters, Zenon DEF Extremes
<1>5. Total("maxUs") \in Counters /\ Total("minUs") \in Counters /\ Total("maxUs") # Total("minUs")
  BY KindsOfCounters, Zenon DEF Extremes
<1> QED
  BY <1>2, <1>3, <1>4, <1>5, Zenon

\* A snapshot begins with nothing of any shard.
LEMMA StartReads ==
  ASSUME WriteInv, ReadTypeOK, ReadInv, FinalInv, StartTick \/ StartReport
  PROVE  ReadTypeOK' /\ ReadInv' /\ FinalInv'
<1>1. /\ UNCHANGED writeVars /\ reading' = NewSnapshot /\ from' = 1 /\ next' = 1
      /\ report' = report /\ verdict' = verdict /\ reader = "idle"
      /\ \/ reader' = "tick" /\ ticks' = ticks + 1 /\ prev' = prev /\ interval' = interval
         \/ reader' = "report" /\ done /\ ticks' = 0 /\ prev' = None /\ interval' = None
  BY Zenon DEF StartTick, StartReport, StartSnapshot
<1>2. Same /\ WriteInv' /\ pool' = pool /\ done' = done
  BY <1>1, ReaderKeeps, Zenon DEF writeVars
<1>3. pool \in Nat /\ pool >= 1 /\ Len(Loads) \in Nat /\ Len(Loads) >= 1
  BY LoadsAre, SnapshotsAssumption, ShardStatsAssumption DEF WriteInv, WriteTypeOK
<1>4. 1 \in 1..(pool + 1) /\ 1 \in 1..Len(Loads) /\ 1 # pool + 1
  BY <1>3
<1>5. ReadTypeOK'
  <2>1. ticks' \in Nat
    BY <1>1 DEF ReadTypeOK
  <2>2. {prev', interval', report'} \subseteq Snaps \cup {None}
    BY <1>1, Zenon DEF ReadTypeOK
  <2>3. reader' \in {"idle", "tick", "report", "ended"}
    BY <1>1, Zenon
  <2>4. verdict' \in [slo : SLOs, elapsed : Elapsed, exit : 0..2] \cup {None}
    BY <1>1, Zenon DEF ReadTypeOK
  <2> QED
    BY <1>1, <1>2, <1>4, <2>1, <2>2, <2>3, <2>4, NewSnapshotIs, Zenon DEF ReadTypeOK
<1>6. \A c \in Counters : Seen'[c] = {}
  <2>1. Seen'= [c \in Counters |-> {s \in 1..pool : s < 1 \/ (s = 1 /\ Slot(c) < 1)}]
    BY <1>1, <1>2, Zenon DEF Seen, Shards
  <2>2. \A c \in Counters : Slot(c) \in 1..Len(Loads)
    BY LoadsBySlot, Zenon
  <2> QED
    BY <1>3, <2>1, <2>2
<1>7. ASSUME NEW c \in Sums
      PROVE  /\ reading'[c] <= Weight[c][Seen'[c]]
             /\ prev # None => prev[c] <= Weight[c][Shards]
             /\ prev # None => prev[c] <= reading'[c] + Weight[c][Shards \ Seen'[c]]
  <2>1. c \in Counters /\ Seen'[c] = {}
    BY <1>6, KindsOfCounters, Zenon
  <2>2. reading'[c] = 0 /\ Weight[c][{}] = 0
    BY <1>1, NewSnapshotIs, WeightNone
  <2>3. prev # None => prev[c] <= Weight[c][Shards]
    BY Zenon DEF ReadInv
  <2>4. Shards \ {} = Shards /\ Shards \in SUBSET Shards
    OBVIOUS
  <2>5. Weight[c][Shards] \in Nat
    BY <2>4, UnitsCounted DEF WriteInv
  <2>6. prev # None => prev[c] \in Int
    BY <2>1 DEF ReadTypeOK, Snaps
  <2>7. Weight[c][Shards \ Seen'[c]] = Weight[c][Shards] /\ Weight[c][Seen'[c]] = 0
    BY <2>1, <2>2, <2>4, Zenon
  <2> QED
    BY <2>2, <2>3, <2>5, <2>6, <2>7
<1>8. ReadInv'
  <2>1. reader' \in {"tick", "report"} /\ from' # pool' + 1
    BY <1>1, <1>2, <1>4
  <2>2. TicksAreCumulative'
    BY <1>1, Zenon DEF ReadInv, TicksAreCumulative
  <2>3. prev' # None => prev' = prev
    BY <1>1, Zenon
  <2> QED
    BY <1>2, <1>7, <2>1, <2>2, <2>3, Zenon DEF ReadInv, Same
<1>9. FinalInv'
  <2>1. report = None /\ verdict = None
    BY <1>1, Zenon DEF FinalInv
  <2>2. reader' # "ended" /\ (reader' = "report" => done)
    BY <1>1, Zenon
  <2>3. Complete(reading, Seen)'
    <3>1. \A c \in Sums : reading'[c] = Weight'[c][Seen'[c]]
      <4>1. ASSUME NEW c \in Sums PROVE reading'[c] = Weight'[c][Seen'[c]]
        <5>1. c \in Counters /\ Seen'[c] = {}
          BY <1>6, KindsOfCounters, Zenon
        <5>2. reading'[c] = 0 /\ Weight[c][{}] = 0
          BY <1>1, NewSnapshotIs, WeightNone, Zenon
        <5> QED
          BY <1>2, <5>1, <5>2, Zenon DEF Same
      <4> QED
        BY <4>1
    <3>2. \A c \in Extremes : Seen'[c] = {} /\ Applied'[c][{}] = {}
      <4>1. \A c \in Extremes : c \in Counters
        BY KindsOfCounters, Zenon
      <4>2. \A c \in Counters : Applied[c][{}] = {}
        BY Zenon DEF Applied
      <4> QED
        BY <1>2, <1>6, <4>1, <4>2, Zenon DEF Same
    <3>3. IsMax(0, Of', {}) /\ IsMin(MaxUint, Of', {})
      BY Zenon DEF IsMax, IsMin
    <3>4. Total("maxUs") \in Extremes /\ Total("minUs") \in Extremes
      BY Zenon DEF Extremes
    <3>5. reading'[Total("maxUs")] = 0 /\ reading'[Total("minUs")] = MaxUint
      BY <1>1, NewSnapshotIs, Zenon
    <3> QED
      BY <3>1, <3>2, <3>3, <3>4, <3>5, Zenon DEF Complete
  <2> QED
    BY <1>1, <1>2, <2>1, <2>2, <2>3, Zenon DEF FinalInv
<1> QED
  BY <1>5, <1>8, <1>9, Zenon

\* What a load adds to a sum: all that the shard has.
LEMMA LoadAdds ==
  ASSUME WriteInv, ReadTypeOK, ReadInv, Load, NEW c \in Sums, c \in Loads[next]
  PROVE  /\ Weight[c][{from}] \in Nat /\ Weight[c][Seen[c]] \in Nat
         /\ Weight[c][Seen'[c]] = Weight[c][Seen[c]] + Weight[c][{from}]
         /\ Weight[c][Shards \ Seen'[c]] \in Nat
         /\ Weight[c][Shards \ Seen[c]] = Weight[c][Shards \ Seen'[c]] + Weight[c][{from}]
         /\ reading[c] \in Nat /\ reading'[c] = reading[c] + Weight[c][{from}]
<1>a. /\ from \in Shards
      /\ \A d \in Counters :
           d \in Loads[next] => from \notin Seen[d] /\ Seen'[d] = Seen[d] \cup {from}
                               /\ reading'[d] = Combine(d, reading[d], shard[from][d])
  BY SeenLoad, Zenon DEF WriteInv
<1>b. reader \in {"tick", "report"}
  <2>1. pool \in Nat /\ from \in 1..pool
    BY ShardStatsAssumption DEF WriteInv, WriteTypeOK, ReadTypeOK, Load
  <2> QED
    BY <2>1 DEF ReadInv
<1>1. /\ c \in Counters /\ from \notin Seen[c] /\ Seen'[c] = Seen[c] \cup {from}
      /\ reading'[c] = Combine(c, reading[c], shard[from][c])
  BY <1>a, KindsOfCounters, Zenon
<1>2. from \in Shards \ Seen[c] /\ {from} \in SUBSET Shards /\ Seen[c] \in SUBSET Shards
      /\ Seen'[c] \in SUBSET Shards
      /\ Shards \ Seen'[c] \in SUBSET Shards
  BY <1>a, <1>1, Zenon DEF Seen
<1>3. shard[from][c] = Weight[c][{from}]
  BY <1>a, Zenon DEF WriteInv, ShardInv
<1>4. /\ Weight[c][{from}] \in 0..MaxUint /\ Weight[c][Seen[c]] \in 0..MaxUint
      /\ Weight[c][Seen'[c]] \in 0..MaxUint /\ Weight[c][Shards \ Seen'[c]] \in 0..MaxUint
  BY <1>1, <1>2, UnitsCounted, Zenon DEF WriteInv
<1>5. Weight[c][Seen[c] \cup {from}] = Weight[c][Seen[c]] + Weight[c][{from}]
  BY <1>1, <1>2, WeightAdd DEF WriteInv
<1>6. Weight[c][Shards \ Seen[c]] = Weight[c][Shards \ (Seen[c] \cup {from})] + Weight[c][{from}]
  BY <1>1, <1>2, WeightRest DEF WriteInv
<1>7. reading[c] \in 0..MaxUint
  BY <1>1 DEF ReadTypeOK, Snaps
<1>8. reading[c] <= Weight[c][Seen[c]]
  BY <1>b, Zenon DEF ReadInv
<1>9. MaxUint \in Nat
  BY SnapshotsAssumption DEF MaxUint
<1>10. Weight[c][Seen'[c]] = Weight[c][Seen[c]] + Weight[c][{from}]
  BY <1>1, <1>5, Zenon
<1>11. Weight[c][Shards \ Seen[c]] = Weight[c][Shards \ Seen'[c]] + Weight[c][{from}]
  BY <1>1, <1>6, Zenon
<1>12. reading[c] + Weight[c][{from}] \in 0..MaxUint
  <2>1. ASSUME NEW r \in 0..MaxUint, NEW w \in 0..MaxUint, NEW a \in 0..MaxUint, r <= w,
               w + a \in 0..MaxUint
        PROVE  r + a \in 0..MaxUint
    BY <1>9, <2>1
  <2>2. Weight[c][Seen[c]] + Weight[c][{from}] \in 0..MaxUint
    BY <1>4, <1>10, Zenon
  <2> QED
    BY <1>4, <1>7, <1>8, <2>1, <2>2, Zenon
<1>13. reading'[c] = reading[c] + Weight[c][{from}]
  <2>1. Combine(c, reading[c], Weight[c][{from}]) = reading[c] + Weight[c][{from}]
    BY <1>4, <1>7, <1>12, CombineIs, Zenon
  <2> QED
    BY <1>1, <1>3, <2>1, Zenon
<1>14. Weight[c][{from}] \in Nat /\ Weight[c][Seen[c]] \in Nat /\ reading[c] \in Nat
       /\ Weight[c][Shards \ Seen'[c]] \in Nat
  BY <1>4, <1>7, <1>9
<1> QED
  BY <1>3, <1>10, <1>11, <1>13, <1>14, Zenon

\* A load moves what the shard has into the snapshot.
LEMMA LoadReads ==
  ASSUME WriteInv, ReadTypeOK, ReadInv, FinalInv, Load
  PROVE  ReadTypeOK' /\ ReadInv' /\ FinalInv'
<1>1. /\ UNCHANGED writeVars /\ reader' = reader /\ prev' = prev /\ interval' = interval
      /\ report' = report /\ verdict' = verdict /\ from <= pool
      /\ IF next < Len(Loads) THEN next' = next + 1 /\ from' = from ELSE next' = 1 /\ from' = from + 1
  BY Zenon DEF Load
<1>2. Same /\ WriteInv' /\ pool' = pool /\ done' = done
  BY <1>1, ReaderKeeps, Zenon DEF writeVars
<1>3. /\ from \in Shards /\ ReadTypeOK'
      /\ \A c \in Counters :
           IF c \in Loads[next]
           THEN from \notin Seen[c] /\ Seen'[c] = Seen[c] \cup {from}
                /\ reading'[c] = Combine(c, reading[c], shard[from][c])
           ELSE Seen'[c] = Seen[c] /\ reading'[c] = reading[c]
  BY SeenLoad, Zenon DEF WriteInv
<1>4. pool \in Nat /\ from \in 1..pool
  BY <1>1, ShardStatsAssumption DEF WriteInv, WriteTypeOK, ReadTypeOK
<1>5. reader \in {"tick", "report"}
  BY <1>4 DEF ReadInv
<1>6. \A c \in Counters : Seen[c] \in SUBSET Shards
  BY Zenon DEF Seen
<1>7. ASSUME NEW c \in Sums, c \in Loads[next]
      PROVE  /\ Weight[c][{from}] \in Nat /\ Weight[c][Seen[c]] \in Nat
             /\ Weight[c][Seen'[c]] = Weight[c][Seen[c]] + Weight[c][{from}]
             /\ Weight[c][Shards \ Seen'[c]] \in Nat
             /\ Weight[c][Shards \ Seen[c]] = Weight[c][Shards \ Seen'[c]] + Weight[c][{from}]
             /\ reading[c] \in Nat /\ reading'[c] = reading[c] + Weight[c][{from}]
  BY <1>7, LoadAdds, Zenon
<1>8. ASSUME NEW c \in Sums
      PROVE  /\ reading'[c] <= Weight[c][Seen'[c]]
             /\ prev # None /\ reader = "tick" => prev[c] <= reading'[c] + Weight[c][Shards \ Seen'[c]]
  <2>1. reading[c] <= Weight[c][Seen[c]]
    BY <1>5, Zenon DEF ReadInv
  <2>2. prev # None /\ reader = "tick" => prev[c] <= reading[c] + Weight[c][Shards \ Seen[c]]
    BY Zenon DEF ReadInv
  <2>3. c \in Counters
    BY KindsOfCounters, Zenon
  <2>4. CASE c \notin Loads[next]
    <3>1. Seen'[c] = Seen[c] /\ reading'[c] = reading[c]
      BY <1>3, <2>3, <2>4, Zenon
    <3> QED
      BY <2>1, <2>2, <3>1, Zenon
  <2>5. CASE c \in Loads[next]
    <3>1. prev # None => prev[c] \in Int
      BY <2>3 DEF ReadTypeOK, Snaps
    <3>2. /\ Weight[c][{from}] \in Nat /\ Weight[c][Seen[c]] \in Nat
          /\ Weight[c][Seen'[c]] = Weight[c][Seen[c]] + Weight[c][{from}]
          /\ Weight[c][Shards \ Seen'[c]] \in Nat
          /\ Weight[c][Shards \ Seen[c]] = Weight[c][Shards \ Seen'[c]] + Weight[c][{from}]
          /\ reading[c] \in Nat /\ reading'[c] = reading[c] + Weight[c][{from}]
      BY <1>7, <2>5, Zenon
    <3> QED
      BY <2>1, <2>2, <3>1, <3>2
  <2> QED
    BY <2>4, <2>5, Zenon
<1>9. ReadInv'
  <2>1. from' = pool + 1 => next' = 1
    BY <1>1, <1>4
  <2>2. TicksAreCumulative'
    BY <1>1, Zenon DEF ReadInv, TicksAreCumulative
  <2>3. \A c \in Sums : prev # None => prev[c] <= Weight[c][Shards]
    BY Zenon DEF ReadInv
  <2> QED
    BY <1>1, <1>2, <1>5, <1>8, <2>1, <2>2, <2>3, Zenon DEF ReadInv, Same
<1>10. ASSUME reader = "report" PROVE Complete(reading, Seen)'
  <2>1. Complete(reading, Seen)
    BY <1>10, Zenon DEF FinalInv
  <2>2. ASSUME NEW c \in Sums PROVE reading'[c] = Weight'[c][Seen'[c]]
    <3>1. reading[c] = Weight[c][Seen[c]] /\ c \in Counters
      BY <2>1, KindsOfCounters, Zenon DEF Complete
    <3>2. CASE c \notin Loads[next]
      BY <1>2, <1>3, <3>1, <3>2, Zenon DEF Same
    <3>3. CASE c \in Loads[next]
      <4>1. reading'[c] = Weight[c][Seen'[c]]
        BY <1>7, <3>1, <3>3
      <4> QED
        BY <1>2, <4>1, Zenon DEF Same
    <3> QED
      BY <3>2, <3>3, Zenon
  <2>3. ASSUME NEW c \in Extremes
        PROVE  /\ c \in Counters /\ reading[c] \in Nat /\ reading[c] <= MaxUint
               /\ shard[from][c] \in Nat /\ shard[from][c] <= MaxUint
               /\ Applied[c][Seen[c]] \cup Applied[c][{from}] = Applied[c][Seen[c] \cup {from}]
               /\ \A e \in Applied[c][Seen[c]] \cup Applied[c][{from}] : Of[e].us \in Nat
    <3>1. c \in Counters
      BY KindsOfCounters, Zenon
    <3>2. reading[c] \in 0..MaxUint /\ shard[from][c] \in 0..MaxUint /\ MaxUint \in Nat
      BY <1>3, <3>1, SnapshotsAssumption DEF ReadTypeOK, WriteInv, WriteTypeOK, Snaps, MaxUint
    <3>3. Seen[c] \in SUBSET Shards /\ {from} \in SUBSET Shards /\ Seen[c] \cup {from} \in SUBSET Shards
      BY <1>3, <1>6, <3>1, Zenon
    <3>4. \A L \in SUBSET Shards : Applied[c][L] = {e \in Entries : e[1] \in L /\ <<c, e>> \notin Waiting}
      BY <3>1, Zenon DEF Applied
    <3>5. Applied[c][Seen[c]] \cup Applied[c][{from}] = Applied[c][Seen[c] \cup {from}]
      BY <3>3, <3>4, Zenon
    <3>6. Applied[c][Seen[c]] \subseteq Entries /\ Applied[c][{from}] \subseteq Entries
      BY <3>3, <3>4, Zenon
    <3>7. \A e \in Entries : Of[e].us \in Nat
      BY EntryUs, Zenon DEF WriteInv
    <3>8. reading[c] \in Nat /\ reading[c] <= MaxUint /\ shard[from][c] \in Nat
          /\ shard[from][c] <= MaxUint
      BY <3>2
    <3>9. \A e \in Applied[c][Seen[c]] \cup Applied[c][{from}] : Of[e].us \in Nat
      BY <3>6, <3>7, Zenon
    <3> QED
      BY <3>1, <3>5, <3>8, <3>9, Zenon
  <2>4. IsMax(reading'[Total("maxUs")], Of, Applied[Total("maxUs")][Seen'[Total("maxUs")]])
    <3> DEFINE c == Total("maxUs")
    <3>1. c \in Extremes
      BY Zenon DEF Extremes
    <3>2. IsMax(reading[c], Of, Applied[c][Seen[c]]) /\ IsMax(shard[from][c], Of, Applied[c][{from}])
      BY <1>3, <2>1, Zenon DEF Complete, WriteInv, ShardInv
    <3>3. Combine(c, reading[c], shard[from][c]) = Larger(reading[c], shard[from][c])
      BY CombineIs, Zenon
    <3> HIDE DEF c
    <3>4. IsMax(Larger(reading[c], shard[from][c]), Of, Applied[c][Seen[c]] \cup Applied[c][{from}])
      BY <2>3, <3>1, <3>2, Joined
    <3>5. IsMax(reading'[c], Of, Applied[c][Seen'[c]])
      <4>1. CASE c \in Loads[next]
        BY <1>3, <2>3, <3>1, <3>3, <3>4, <4>1, Zenon
      <4>2. CASE c \notin Loads[next]
        BY <1>3, <2>3, <3>1, <3>2, <4>2, Zenon
      <4> QED
        BY <4>1, <4>2, Zenon
    <3> QED
      BY <3>5, Zenon DEF c
  <2>5. IsMin(reading'[Total("minUs")], Of, Applied[Total("minUs")][Seen'[Total("minUs")]])
    <3> DEFINE c == Total("minUs")
    <3>1. c \in Extremes
      BY Zenon DEF Extremes
    <3>2. IsMin(reading[c], Of, Applied[c][Seen[c]]) /\ IsMin(shard[from][c], Of, Applied[c][{from}])
      BY <1>3, <2>1, Zenon DEF Complete, WriteInv, ShardInv
    <3>3. Combine(c, reading[c], shard[from][c]) = Smaller(reading[c], shard[from][c])
      BY CombineIs, Zenon
    <3> HIDE DEF c
    <3>4. IsMin(Smaller(reading[c], shard[from][c]), Of, Applied[c][Seen[c]] \cup Applied[c][{from}])
      BY <2>3, <3>1, <3>2, Joined
    <3>5. IsMin(reading'[c], Of, Applied[c][Seen'[c]])
      <4>1. CASE c \in Loads[next]
        BY <1>3, <2>3, <3>1, <3>3, <3>4, <4>1, Zenon
      <4>2. CASE c \notin Loads[next]
        BY <1>3, <2>3, <3>1, <3>2, <4>2, Zenon
      <4> QED
        BY <4>1, <4>2, Zenon
    <3> QED
      BY <3>5, Zenon DEF c
  <2> QED
    BY <1>2, <2>2, <2>4, <2>5, Zenon DEF Complete, Same
<1>11. FinalInv'
  <2>1. reader # "ended"
    BY <1>5, Zenon
  <2> QED
    BY <1>1, <1>2, <1>10, <2>1, Zenon DEF FinalInv
<1> QED
  BY <1>3, <1>9, <1>11

LEMMA SeenAll ==
  ASSUME WriteTypeOK, ReadTypeOK, from > pool
  PROVE  \A c \in Counters : Seen[c] = Shards
<1>1. pool \in Nat /\ from \in 1..(pool + 1) /\ next \in 1..Len(Loads)
  BY ShardStatsAssumption DEF WriteTypeOK, ReadTypeOK
<1> QED
  BY <1>1, SeenIs

\* A tick shows the difference to the tick before.
LEMMA TickReads ==
  ASSUME WriteInv, ReadTypeOK, ReadInv, FinalInv, Tick
  PROVE  ReadTypeOK' /\ ReadInv' /\ FinalInv'
<1>1. /\ UNCHANGED writeVars /\ reader = "tick" /\ reader' = "idle" /\ reading' = NewSnapshot
      /\ from' = from /\ next' = next /\ ticks' = ticks /\ report' = report /\ verdict' = verdict
      /\ from > pool /\ prev' = reading
      /\ interval' = IF prev = None THEN Merge(NewSnapshot, reading) ELSE Sub(reading, prev)
  BY Zenon DEF Tick
<1>2. Same /\ WriteInv' /\ pool' = pool /\ done' = done
  BY <1>1, ReaderKeeps, Zenon DEF writeVars
<1>3. pool \in Nat /\ from = pool + 1
  BY <1>1, ShardStatsAssumption DEF WriteInv, WriteTypeOK, ReadTypeOK
<1>4. ASSUME NEW c \in Sums
      PROVE  reading[c] <= Weight[c][Shards] /\ interval'[c] \in 0..MaxUint /\ interval'[c] <= reading[c]
  <2>1. c \in Counters /\ Seen[c] = Shards
    BY <1>1, SeenAll, KindsOfCounters, Zenon DEF WriteInv
  <2>2. reading[c] <= Weight[c][Shards]
    BY <1>1, <2>1, Zenon DEF ReadInv
  <2>3. reading[c] \in 0..MaxUint /\ (prev # None => prev[c] \in 0..MaxUint)
    BY <2>1, Zenon DEF ReadTypeOK, Snaps
  <2>4. W \in Nat \ {0} /\ MaxUint = W - 1
    BY SnapshotsAssumption, Zenon DEF MaxUint
  <2>5. CASE prev = None
    <3>1. interval'[c] = Combine(c, 0, reading[c])
      <4>1. interval' = Merge(NewSnapshot, reading) /\ NewSnapshot[c] = 0 /\ c # Total("minUs")
        BY <1>1, <2>5, NewSnapshotIs, KindsOfCounters, Zenon DEF Extremes
      <4> QED
        BY <2>1, <4>1, Zenon DEF Merge
    <3>2. 0 \in 0..MaxUint /\ 0 + reading[c] \in 0..MaxUint /\ 0 + reading[c] = reading[c]
      BY <2>3, <2>4
    <3>3. interval'[c] = reading[c]
      BY <2>3, <3>1, <3>2, CombineIs, Zenon
    <3> QED
      BY <2>2, <2>3, <3>3
  <2>6. CASE prev # None
    <3>1. interval'[c] = Minus(reading[c], prev[c])
      BY <1>1, <2>1, <2>6, Zenon DEF Sub
    <3>2. prev[c] <= reading[c] + Weight[c][Shards \ Shards]
      BY <1>1, <2>1, <2>6, Zenon DEF ReadInv
    <3>3. Shards \ Shards = {} /\ Weight[c][{}] = 0
      BY WeightNone
    <3>4. prev[c] <= reading[c] + 0
      BY <3>2, <3>3, Zenon
    <3>5. reading[c] - prev[c] \in 0..(W - 1)
      BY <2>3, <2>4, <2>6, <3>4
    <3>6. (reading[c] - prev[c]) % W = reading[c] - prev[c]
      BY <2>4, <3>5
    <3> QED
      BY <2>2, <2>3, <2>4, <2>6, <3>1, <3>5, <3>6 DEF Minus
  <2> QED
    BY <2>5, <2>6, Zenon
<1>5. ReadTypeOK'
  <2>1. interval' \in Snaps
    <3>1. \A c \in Counters : reading[c] \in 0..MaxUint
      BY Zenon DEF ReadTypeOK, Snaps
    <3>2. ASSUME NEW c \in Extremes PROVE interval'[c] \in 0..MaxUint
      <4>1. c \in Counters /\ c \notin Sums
        BY KindsOfCounters, Zenon
      <4>2. NewSnapshot[c] \in 0..MaxUint
        BY <4>1, NewSnapshotIs, Zenon DEF Snaps
      <4>3. Combine(c, NewSnapshot[c], reading[c]) \in 0..MaxUint
        BY <3>1, <4>1, <4>2, CombineIs, Zenon
      <4>4. interval'[c] \in {NewSnapshot[c], Combine(c, NewSnapshot[c], reading[c]), reading[c]}
        BY <1>1, <4>1, Zenon DEF Merge, Sub
      <4> QED
        BY <3>1, <4>1, <4>2, <4>3, <4>4, Zenon
    <3>3. \A c \in Counters : interval'[c] \in 0..MaxUint
      BY <1>4, <3>2, KindsOfCounters, Zenon
    <3>4. interval' = [c \in Counters |-> interval'[c]]
      BY <1>1, Zenon DEF Merge, Sub
    <3> QED
      BY <3>3, <3>4, Zenon DEF Snaps
  <2>2. {prev', interval', report'} \subseteq Snaps \cup {None}
    BY <1>1, <2>1, Zenon DEF ReadTypeOK
  <2>3. reader' \in {"idle", "tick", "report", "ended"}
    BY <1>1, Zenon
  <2> QED
    BY <1>1, <1>2, <2>2, <2>3, NewSnapshotIs, Zenon DEF ReadTypeOK
<1>6. ReadInv'
  <2>1. TicksAreCumulative'
    BY <1>1, <1>4, Zenon DEF TicksAreCumulative
  <2>2. reader' \notin {"tick", "report"} /\ reader' # "tick"
    BY <1>1, Zenon
  <2>3. from = pool + 1 => next = 1
    BY Zenon DEF ReadInv
  <2> QED
    BY <1>1, <1>2, <1>3, <1>4, <2>1, <2>2, <2>3, Zenon DEF ReadInv, Same
<1>7. FinalInv'
  <2>1. report = None /\ verdict = None
    BY <1>1, Zenon DEF FinalInv
  <2>2. reader' \notin {"report", "ended"} /\ reader' # "report" /\ reader' # "ended"
    BY <1>1
  <2> QED
    BY <1>1, <2>1, <2>2, Zenon DEF FinalInv
<1> QED
  BY <1>5, <1>6, <1>7

\* The report is made of the last snapshot.
LEMMA ReportReads ==
  ASSUME WriteInv, ReadTypeOK, ReadInv, FinalInv, Report
  PROVE  ReadTypeOK' /\ ReadInv' /\ FinalInv'
<1>1. /\ UNCHANGED writeVars /\ reader = "report" /\ reader' = "ended" /\ reading' = NewSnapshot
      /\ from' = from /\ next' = next /\ ticks' = ticks /\ prev' = prev /\ interval' = interval
      /\ from > pool /\ report' = reading
  BY Zenon DEF Report
<1>2. Same /\ WriteInv' /\ pool' = pool /\ done' = done
  BY <1>1, ReaderKeeps DEF writeVars
<1>3. pool \in Nat /\ from = pool + 1
  <2>1. pool \in Nat
    BY ShardStatsAssumption DEF WriteInv, WriteTypeOK
  <2>2. from \in 1..(pool + 1)
    BY Zenon DEF ReadTypeOK
  <2> QED
    BY <1>1, <2>1, <2>2
<1>4. verdict' \in [slo : SLOs, elapsed : Elapsed, exit : 0..2]
  BY DEF Report
<1>5. ReadTypeOK'
  <2>1. {prev', interval', report'} \subseteq Snaps \cup {None}
    BY <1>1, Zenon DEF ReadTypeOK
  <2>2. reader' \in {"idle", "tick", "report", "ended"}
    BY <1>1, Zenon
  <2>3. verdict' \in [slo : SLOs, elapsed : Elapsed, exit : 0..2] \cup {None}
    BY <1>4, Zenon
  <2> QED
    BY <1>1, <1>2, <2>1, <2>2, <2>3, NewSnapshotIs, Zenon DEF ReadTypeOK
<1>6. ReadInv'
  <2>1. TicksAreCumulative'
    BY <1>1, Zenon DEF TicksAreCumulative, ReadInv
  <2>2. reader' \notin {"tick", "report"} /\ reader' # "tick"
    BY <1>1, Zenon
  <2>3. from = pool + 1 => next = 1
    BY Zenon DEF ReadInv
  <2>4. \A c \in Sums : prev # None => prev[c] <= Weight[c][Shards]
    BY Zenon DEF ReadInv
  <2> QED
    BY <1>1, <1>2, <1>3, <2>1, <2>2, <2>3, <2>4, Zenon DEF ReadInv, Same
<1>7. FinalInv'
  <2>1. Complete(reading, Seen) /\ done /\ reading \in Snaps
    BY <1>1 DEF FinalInv, ReadTypeOK
  <2>2. \A c \in Counters : Seen[c] = Shards
    BY <1>1, SeenAll DEF WriteInv
  <2>3. Seen = [c \in Counters |-> Shards]
    BY <2>2, Zenon DEF Seen
  <2>4. Complete(report, [c \in Counters |-> Shards])'
    BY <1>1, <1>2, <2>1, <2>3, Zenon DEF Complete, Same
  <2>5. reader' # "report"
    BY <1>1, Zenon
  <2> QED
    BY <1>1, <1>2, <2>1, <2>4, <2>5, Zenon DEF FinalInv
<1> QED
  BY <1>5, <1>6, <1>7, Zenon

-----------------------------------------------------------------------------
(* The histogram and the requests of a torn snapshot.                      *)

Hists == {"hist"} \X (0..(NumBuckets - 1))
Active == {s \in Shards : log[s] # <<>>}

\* The requests of the shard being read that are in the histogram so far.
Ahead ==
  {u \in Entries \X {1} : LET b == bucketFor(Of[u[1]].us)
                          IN u[1][1] = from /\ b < next - 1 /\ <<<<"hist", b>>, u[1]>> \notin Waiting}

\* The shards that are read have one request each that the histogram has and
\* the request counter has not; of the one being read nothing is counted yet.
LagInv ==
  /\ prev # None => SumFunctionOnSet(prev, Hists) <= prev[Total("requests")] + Cardinality(Active)
  /\ reader = "tick" =>
       IF next <= NumBuckets + 1
       THEN SumFunctionOnSet(reading, Hists) <= reading[Total("requests")]
              + Cardinality(Active \cap (1..(from - 1))) + Cardinality(Ahead)
       ELSE SumFunctionOnSet(reading, Hists) <= reading[Total("requests")]
              + Cardinality(Active \cap (1..from))

LEMMA HistsAre ==
  /\ IsFiniteSet(Hists) /\ Hists \subseteq Sums /\ Hists \subseteq Counters
  /\ Hists = {<<"hist", b>> : b \in Buckets} /\ Total("requests") \notin Hists
<1>1. NumBuckets - 1 \in Int
  BY SnapshotsAssumption
<1>2. IsFiniteSet(Hists)
  <2>1. IsFiniteSet({"hist"})
    BY FS_Singleton, Zenon
  <2>2. \A n \in Int : IsFiniteSet(0..n)
    BY FS_Interval
  <2>3. IsFiniteSet(0..(NumBuckets - 1))
    BY <1>1, <2>2, Zenon
  <2> QED
    BY <2>1, <2>3, FS_Product, Zenon DEF Hists
<1>3. Hists = {<<"hist", b>> : b \in Buckets}
  BY DEF Hists, Buckets
<1>4. Total("requests") \notin Hists
  BY Zenon DEF Hists, Total
<1> QED
  BY <1>2, <1>3, <1>4, KindsOfCounters

LEMMA LagFinite ==
  ASSUME IsFiniteSet(Entries), pool \in Nat
  PROVE  /\ IsFiniteSet(Ahead) /\ Cardinality(Ahead) \in Nat
         /\ \A L : IsFiniteSet(Active \cap L) /\ Cardinality(Active \cap L) \in Nat
         /\ IsFiniteSet(Active) /\ Cardinality(Active) \in Nat
<1>1. IsFiniteSet(Entries \X {1})
  BY FS_Singleton, FS_Product, Zenon
<1>2. Ahead \subseteq Entries \X {1}
  BY Zenon DEF Ahead
<1>3. IsFiniteSet(1..pool)
  BY FS_Interval
<1>4. Active \subseteq 1..pool
  BY Zenon DEF Active, Shards
<1>5. IsFiniteSet(Active)
  BY <1>3, <1>4, FS_Subset, Zenon
<1>6. \A L : IsFiniteSet(Active \cap L)
  BY <1>5, FS_Subset, Zenon
<1>7. IsFiniteSet(Ahead)
  BY <1>1, <1>2, FS_Subset, Zenon
<1> QED
  BY <1>5, <1>6, <1>7, FS_CardinalityType, Zenon

LEMMA SumOfHists ==
  ASSUME NEW sn \in Snaps
  PROVE  /\ SumFunctionOnSet(sn, Hists) \in Nat /\ sn[Total("requests")] \in Nat
         /\ \A c \in Counters : sn[c] \in Nat
<1>1. Hists \subseteq Counters /\ IsFiniteSet(Hists) /\ Total("requests") \in Counters
  BY HistsAre, KindsOfCounters, Zenon
<1>2. \A c \in Counters : sn[c] \in Nat
  BY SnapshotsAssumption DEF Snaps, MaxUint
<1>3. SumFunctionOnSet(sn, Hists) = Cardinality(UnitsOf(sn, Hists)) /\ IsFiniteSet(UnitsOf(sn, Hists))
  BY <1>1, <1>2, SumIsCount, UnitsFinite, Zenon
<1> QED
  BY <1>1, <1>2, <1>3, FS_CardinalityType, Zenon

\* The goroutines only add to what the histogram may be ahead by.
LEMMA LagByWriter ==
  ASSUME WriteInv, WriteInv', ReadTypeOK, LagInv, UNCHANGED <<pool, readVars>>,
         Active \subseteq Active', Ahead \subseteq Ahead', IsFiniteSet(Ahead'), IsFiniteSet(Active')
  PROVE  LagInv'
<1>1. reading' = reading /\ from' = from /\ next' = next /\ reader' = reader /\ prev' = prev
  BY Zenon DEF readVars
<1>2. pool \in Nat /\ IsFiniteSet(Entries)
  BY ShardStatsAssumption DEF WriteInv, WriteTypeOK, TodoInv
<1>3. /\ Cardinality(Ahead) \in Nat /\ Cardinality(Active) \in Nat
      /\ \A L : Cardinality(Active \cap L) \in Nat
  BY <1>2, LagFinite, Zenon
<1>4. Cardinality(Ahead') \in Nat /\ Cardinality(Ahead) <= Cardinality(Ahead')
  BY FS_Subset, FS_CardinalityType, Zenon
<1>5. Cardinality(Active') \in Nat /\ Cardinality(Active) <= Cardinality(Active')
  BY FS_Subset, FS_CardinalityType, Zenon
<1>6. ASSUME NEW L
      PROVE  Cardinality(Active' \cap L) \in Nat /\ Cardinality(Active \cap L) <= Cardinality(Active' \cap L)
  <2>1. IsFiniteSet(Active' \cap L)
    BY FS_Subset, Zenon
  <2>2. Active \cap L \subseteq Active' \cap L
    OBVIOUS
  <2> QED
    BY <2>1, <2>2, FS_Subset, FS_CardinalityType
<1>8. \A sn \in Snaps : SumFunctionOnSet(sn, Hists) \in Nat /\ sn[Total("requests")] \in Nat
  BY SumOfHists, Zenon
<1>9. reading \in Snaps /\ (prev # None => prev \in Snaps)
  BY Zenon DEF ReadTypeOK
<1>10. prev # None => SumFunctionOnSet(prev, Hists) <= prev[Total("requests")] + Cardinality(Active')
  <2>1. prev # None => SumFunctionOnSet(prev, Hists) <= prev[Total("requests")] + Cardinality(Active)
    BY Zenon DEF LagInv
  <2>2. prev # None => SumFunctionOnSet(prev, Hists) \in Nat /\ prev[Total("requests")] \in Nat
    BY <1>8, <1>9, Zenon
  <2> QED
    BY <1>3, <1>5, <2>1, <2>2
<1>11. reader = "tick" =>
         IF next <= NumBuckets + 1
         THEN SumFunctionOnSet(reading, Hists) <= reading[Total("requests")]
                + Cardinality(Active' \cap (1..(from - 1))) + Cardinality(Ahead')
         ELSE SumFunctionOnSet(reading, Hists) <= reading[Total("requests")]
                + Cardinality(Active' \cap (1..from))
  <2>1. SumFunctionOnSet(reading, Hists) \in Nat /\ reading[Total("requests")] \in Nat
    BY <1>8, <1>9, Zenon
  <2>2. CASE next <= NumBuckets + 1
    <3>1. /\ Cardinality(Active \cap (1..(from - 1))) \in Nat
          /\ Cardinality(Active' \cap (1..(from - 1))) \in Nat
          /\ Cardinality(Active \cap (1..(from - 1))) <= Cardinality(Active' \cap (1..(from - 1)))
      BY <1>3, <1>6, Zenon
    <3>2. reader = "tick" =>
            SumFunctionOnSet(reading, Hists) <= reading[Total("requests")]
              + Cardinality(Active \cap (1..(from - 1))) + Cardinality(Ahead)
      BY <2>2, Zenon DEF LagInv
    <3>3. reader = "tick" =>
            SumFunctionOnSet(reading, Hists) <= reading[Total("requests")]
              + Cardinality(Active' \cap (1..(from - 1))) + Cardinality(Ahead')
      BY <1>3, <1>4, <2>1, <3>1, <3>2
    <3> QED
      BY <2>2, <3>3, Zenon
  <2>3. CASE ~(next <= NumBuckets + 1)
    <3>1. /\ Cardinality(Active \cap (1..from)) \in Nat
          /\ Cardinality(Active' \cap (1..from)) \in Nat
          /\ Cardinality(Active \cap (1..from)) <= Cardinality(Active' \cap (1..from))
      BY <1>3, <1>6, Zenon
    <3>2. reader = "tick" =>
            SumFunctionOnSet(reading, Hists) <= reading[Total("requests")] + Cardinality(Active \cap (1..from))
      BY <2>3, Zenon DEF LagInv
    <3>3. reader = "tick" =>
            SumFunctionOnSet(reading, Hists) <= reading[Total("requests")] + Cardinality(Active' \cap (1..from))
      BY <2>1, <3>1, <3>2
    <3> QED
      BY <2>3, <3>3, Zenon
  <2> QED
    BY <2>2, <2>3, Zenon
<1> QED
  BY <1>1, <1>10, <1>11, Zenon DEF LagInv

LEMMA LagWrites ==
  ASSUME WriteInv, WriteInv', ReadTypeOK, LagInv, UNCHANGED <<pool, readVars>>,
         Finish \/ \E s \in Shards : Record(s) \/ Store(s)
  PROVE  LagInv'
<1>1. Shards' = Shards /\ from' = from /\ next' = next
  BY Zenon DEF Shards, readVars
<1>2. pool' \in Nat /\ IsFiniteSet(Entries')
  BY ShardStatsAssumption DEF WriteInv, WriteTypeOK, TodoInv
<1>3. IsFiniteSet(Active')
  <2>1. IsFiniteSet(1..pool') /\ Active' \subseteq 1..pool'
    BY <1>2, FS_Interval DEF Active, Shards
  <2> QED
    BY <2>1, FS_Subset, Zenon
<1>4. IsFiniteSet(Ahead')
  <2>1. IsFiniteSet(Entries' \X {1})
    BY <1>2, FS_Singleton, FS_Product, Zenon
  <2>2. Ahead' \subseteq Entries' \X {1}
    BY Zenon DEF Ahead
  <2> QED
    BY <2>1, <2>2, FS_Subset, Zenon
<1>5. \A e \in Entries : <<"hist", bucketFor(Of[e].us)>> \in Counters
  <2>1. \A e \in Entries : Of[e].us \in Nat
    BY EntryUs, Zenon DEF WriteInv
  <2>2. \A e \in Entries : bucketFor(Of[e].us) \in Buckets
    BY <2>1, BucketIsAround, Zenon
  <2> QED
    BY <2>2, KindsOfCounters, Zenon
<1>6. ASSUME Entries \subseteq Entries', \A e \in Entries : Of'[e] = Of[e],
             \A c \in Counters, e \in Entries : <<c, e>> \in Waiting' => <<c, e>> \in Waiting
      PROVE  Ahead \subseteq Ahead'
  <2>1. ASSUME NEW u \in Ahead PROVE u \in Ahead'
    <3> DEFINE b == bucketFor(Of[u[1]].us)
    <3>1. /\ u \in Entries \X {1} /\ u[1][1] = from /\ b < next - 1
          /\ <<<<"hist", b>>, u[1]>> \notin Waiting
      BY Zenon DEF Ahead
    <3>2. u[1] \in Entries /\ u \in Entries' \X {1}
      BY <1>6, <3>1, Zenon
    <3>3. Of'[u[1]] = Of[u[1]] /\ <<"hist", b>> \in Counters
      BY <1>5, <1>6, <3>2, Zenon
    <3>4. <<<<"hist", b>>, u[1]>> \notin Waiting'
      BY <1>6, <3>1, <3>2, <3>3, Zenon
    <3> QED
      BY <1>1, <3>1, <3>2, <3>3, <3>4, Zenon DEF Ahead
  <2> QED
    BY <2>1, Zenon
<1>7. CASE Finish
  <2>1. Same
    BY <1>7, FinishKeeps, Zenon
  <2>2. Ahead \subseteq Ahead'
    BY <1>6, <2>1, Zenon DEF Same
  <2>3. Active \subseteq Active'
    BY <1>1, <1>7, Zenon DEF Active, Finish
  <2> QED
    BY <1>3, <1>4, <2>2, <2>3, LagByWriter
<1>8. ASSUME NEW s \in Shards, Record(s) PROVE LagInv'
  <2>1. PICK r \in Requests : \E e : Begins(s, r, e)
    BY <1>8, RecordBegins, Zenon DEF WriteInv
  <2>2. PICK e : Begins(s, r, e)
    BY <2>1, Zenon
  <2>3. Entries \subseteq Entries'
    BY <2>2, Zenon DEF Begins
  <2>4. Ahead \subseteq Ahead'
    BY <1>6, <2>2, <2>3, Zenon DEF Begins
  <2>5. Active \subseteq Active'
    <3>1. PICK q \in Requests : log' = [log EXCEPT ![s] = Append(@, q)]
      BY <1>8, Zenon DEF Record
    <3>2. log[s] \in Seq(Requests) /\ DOMAIN log = Shards
      BY Zenon DEF WriteInv, WriteTypeOK
    <3>3. Append(log[s], q) # <<>>
      BY <3>2
    <3> QED
      BY <1>1, <3>1, <3>2, <3>3 DEF Active
  <2> QED
    BY <1>3, <1>4, <2>4, <2>5, LagByWriter
<1>9. ASSUME NEW s \in Shards, Store(s) PROVE LagInv'
  <2>1. PICK c, e : Adds(s, c, e)
    BY <1>9, StoreAdds, Zenon DEF WriteInv
  <2>2. Entries' = Entries /\ Of' = Of /\ Waiting' \subseteq Waiting
    BY <2>1, Zenon DEF Adds
  <2>3. Ahead \subseteq Ahead'
    BY <1>6, <2>2, Zenon
  <2>4. Active \subseteq Active'
    BY <1>1, <1>9, Zenon DEF Active, Store
  <2> QED
    BY <1>3, <1>4, <2>3, <2>4, LagByWriter
<1> QED
  BY <1>7, <1>8, <1>9, Zenon

LEMMA NothingAhead ==
  ASSUME WriteInv, next = 1
  PROVE  Ahead = {} /\ Cardinality(Ahead) = 0
<1>1. ASSUME NEW u \in Entries \X {1} PROVE ~(bucketFor(Of[u[1]].us) < next - 1)
  <2>1. Of[u[1]].us \in Nat
    BY EntryUs, Zenon DEF WriteInv
  <2>2. bucketFor(Of[u[1]].us) \in Buckets
    BY <2>1, BucketIsAround, Zenon
  <2> QED
    BY <2>2 DEF Buckets
<1>2. Ahead = {}
  BY <1>1, Zenon DEF Ahead
<1> QED
  BY <1>2, FS_EmptySet, Zenon

LEMMA LagStart ==
  ASSUME WriteInv, ReadTypeOK, LagInv, StartTick \/ StartReport
  PROVE  LagInv'
<1>1. /\ UNCHANGED writeVars /\ reading' = NewSnapshot /\ from' = 1 /\ next' = 1
      /\ (prev' = prev \/ prev' = None)
  BY Zenon DEF StartTick, StartReport, StartSnapshot
<1>2. Same /\ pool' = pool /\ log' = log /\ WriteInv'
  BY <1>1, ReaderKeeps, Zenon DEF writeVars
<1>3. Active' = Active
  BY <1>2, Zenon DEF Active, Same
<1>4. SumFunctionOnSet(NewSnapshot, Hists) = 0 /\ NewSnapshot[Total("requests")] = 0
  <2>1. \A c \in Sums : NewSnapshot[c] = 0
    BY NewSnapshotIs, Zenon
  <2>2. \A c \in Hists : NewSnapshot[c] = 0
    BY <2>1, HistsAre
  <2> QED
    BY <2>1, <2>2, HistsAre, SumZero, KindsOfCounters
<1>5. pool \in Nat /\ IsFiniteSet(Entries)
  BY ShardStatsAssumption DEF WriteInv, WriteTypeOK, TodoInv
<1>6. Cardinality(Active \cap (1..(1 - 1))) \in Nat
  BY <1>5, LagFinite, Zenon
<1>7. Cardinality(Ahead') \in Nat
  <2>1. IsFiniteSet(Entries \X {1})
    BY <1>5, FS_Singleton, FS_Product, Zenon
  <2>2. Ahead' \subseteq Entries \X {1}
    BY <1>2, Zenon DEF Ahead, Same
  <2> QED
    BY <2>1, <2>2, FS_Subset, FS_CardinalityType, Zenon
<1>8. SumFunctionOnSet(reading', Hists) <= reading'[Total("requests")]
        + Cardinality(Active' \cap (1..(from' - 1))) + Cardinality(Ahead')
  <2>1. 0 <= 0 + Cardinality(Active \cap (1..(1 - 1))) + Cardinality(Ahead')
    BY <1>6, <1>7
  <2> QED
    BY <1>1, <1>3, <1>4, <2>1, Zenon
<1>9. next' <= NumBuckets + 1
  BY <1>1, SnapshotsAssumption
<1>10. prev' # None => SumFunctionOnSet(prev', Hists) <= prev'[Total("requests")] + Cardinality(Active')
  BY <1>1, <1>3, Zenon DEF LagInv
<1> QED
  BY <1>8, <1>9, <1>10, Zenon DEF LagInv

LEMMA LagTick ==
  ASSUME WriteInv, ReadTypeOK, ReadInv, LagInv, Tick
  PROVE  LagInv'
<1>1. UNCHANGED writeVars /\ reader = "tick" /\ reader' = "idle" /\ prev' = reading /\ from > pool
  BY Zenon DEF Tick
<1>2. Same /\ pool' = pool /\ log' = log
  BY <1>1, ReaderKeeps, Zenon DEF writeVars
<1>3. Active' = Active
  BY <1>2, Zenon DEF Active, Same
<1>4. pool \in Nat /\ from = pool + 1 /\ IsFiniteSet(Entries)
  BY <1>1, ShardStatsAssumption DEF WriteInv, WriteTypeOK, ReadTypeOK, TodoInv
<1>5. next = 1
  BY <1>4, Zenon DEF ReadInv
<1>6. Cardinality(Ahead) = 0
  BY <1>5, NothingAhead, Zenon
<1>7. Active \cap (1..(from - 1)) = Active
  BY <1>4 DEF Active, Shards
<1>8. next <= NumBuckets + 1
  BY <1>5, SnapshotsAssumption
<1>9. SumFunctionOnSet(reading, Hists) <= reading[Total("requests")] + Cardinality(Active) + 0
  BY <1>1, <1>6, <1>7, <1>8, Zenon DEF LagInv
<1>10. reading[Total("requests")] \in Nat /\ Cardinality(Active) \in Nat
  BY <1>4, LagFinite, SumOfHists, Zenon DEF ReadTypeOK
<1>11. SumFunctionOnSet(reading, Hists) <= reading[Total("requests")] + Cardinality(Active)
  BY <1>9, <1>10
<1>12. reader' # "tick"
  BY <1>1, Zenon
<1> QED
  BY <1>1, <1>3, <1>11, <1>12, Zenon DEF LagInv

\* Loading a bucket adds its requests to what the histogram is ahead by.
LEMMA LagBucket ==
  ASSUME WriteInv, ReadTypeOK, Load, next <= NumBuckets
  PROVE  LET c == <<"hist", next - 1>> IN
         /\ c \in Hists /\ next' = next + 1 /\ from' = from
         /\ \A d \in Counters : d \in Loads[next] <=> d = c
         /\ Cardinality(Ahead') = Cardinality(Ahead) + Weight[c][{from}]
<1> DEFINE b == next - 1
           c == <<"hist", b>>
           L == {from}
           X == Units[c][L]
<1>1. /\ NumBuckets \in Nat /\ Len(Loads) = NumBuckets + 12 /\ next \in 1..NumBuckets /\ next < Len(Loads)
      /\ b \in Buckets
  BY LoadsAre, SnapshotsAssumption DEF ReadTypeOK, Buckets
<1>2. next' = next + 1 /\ from' = from /\ UNCHANGED writeVars
  BY <1>1, Zenon DEF Load
<1>3. c \in Hists /\ c \in Sums /\ c \in Counters
  BY <1>1, HistsAre, Zenon
<1>4. ASSUME NEW d \in Counters PROVE d \in Loads[next] <=> d = c
  <2>1. d \in Loads[next] <=> Slot(d) = next
    BY LoadsBySlot, Zenon DEF ReadTypeOK
  <2>2. Slot(c) = next
    BY <1>1, SlotOf
  <2>3. ASSUME Slot(d) = next PROVE d = c
    <3>0. (\A i \in Classes : NumBuckets + 6 + i # next) /\ NumBuckets + 12 # next
      BY <1>1 DEF Classes, ClassOther
    <3>1. \A i \in Classes : Slot(<<"class", i>>) # next
      BY <3>0, SlotOf, Zenon
    <3>2. \A k \in Kinds : Slot(<<"err", k>>) # next
      BY <3>0, SlotOf, Zenon
    <3>3. \A a \in Buckets : Slot(<<"hist", a>>) = next => a = b
      BY <1>1, SlotOf DEF Buckets
    <3>4. d \notin {Total("requests"), Total("failures"), Total("sumUs"), Total("maxUs"), Total("minUs")}
      BY <1>1, <2>3, SlotOf
    <3> QED
      BY <2>3, <3>1, <3>2, <3>3, <3>4, CounterKinds, Zenon
  <2> QED
    BY <2>1, <2>2, <2>3, Zenon
<1>5. Same /\ L \in SUBSET Shards
  <2>1. from \in Shards
    BY SeenLoad, Zenon DEF WriteInv
  <2> QED
    BY <1>2, <2>1, ReaderKeeps, Zenon
<1>6. X = {u \in Entries \X (1..MaxUs) :
             u[1][1] \in L /\ <<c, u[1]>> \notin Waiting /\ u[2] <= Amount(c, Of[u[1]])}
  BY <1>3, <1>5, Zenon DEF Units
<1>7. ASSUME NEW e \in Entries
      PROVE  /\ bucketFor(Of[e].us) \in Buckets
             /\ Amount(c, Of[e]) = IF bucketFor(Of[e].us) = b THEN 1 ELSE 0
  <2>1. bucketFor(Of[e].us) \in Buckets
    BY EntryUs, BucketIsAround DEF WriteInv
  <2>2. c # Total("sumUs") /\ c # Total("requests") /\ c # Total("failures") /\ c[1] = "hist" /\ c[2] = b
    BY Zenon DEF Total
  <2>3. Amount(c, Of[e]) = IF bucketFor(Of[e].us) = b THEN 1 ELSE 0
    BY <2>2, Zenon DEF Amount
  <2> QED
    BY <2>1, <2>3, Zenon
<1> HIDE DEF c, X, b
<1>8. \A u \in Entries \X (1..MaxUs) :
        u \in X <=> /\ u \in Entries \X {1} /\ u[1][1] = from /\ bucketFor(Of[u[1]].us) = b
                    /\ <<c, u[1]>> \notin Waiting
  <2>1. ASSUME NEW u \in Entries \X (1..MaxUs)
        PROVE  u[2] <= Amount(c, Of[u[1]]) <=> u \in Entries \X {1} /\ bucketFor(Of[u[1]].us) = b
    <3>1. u[1] \in Entries /\ u[2] \in 1..MaxUs /\ u = <<u[1], u[2]>> /\ MaxUs \in Nat
      BY ShardStatsAssumption, SnapshotsAssumption DEF MaxUint
    <3>2. u \in Entries \X {1} <=> u[2] = 1
      BY <3>1, Zenon
    <3>3. Amount(c, Of[u[1]]) = IF bucketFor(Of[u[1]].us) = b THEN 1 ELSE 0
      BY <1>7, <3>1, Zenon
    <3>4. u[2] <= 0 <=> FALSE
      BY <3>1
    <3>5. u[2] <= 1 <=> u[2] = 1
      BY <3>1
    <3> QED
      BY <3>2, <3>3, <3>4, <3>5, Zenon
  <2> QED
    BY <1>6, <2>1, Zenon
<1>9. Entries \X {1} \subseteq Entries \X (1..MaxUs)
  <2>1. 1 \in 1..MaxUs
    BY ShardStatsAssumption, SnapshotsAssumption DEF MaxUint
  <2> QED
    BY <2>1, Zenon
<1>10. \A u : u \in X <=> /\ u \in Entries \X {1} /\ u[1][1] = from /\ bucketFor(Of[u[1]].us) = b
                         /\ <<c, u[1]>> \notin Waiting
  <2>1. X \subseteq Entries \X (1..MaxUs)
    BY <1>6, Zenon
  <2> QED
    BY <1>8, <1>9, <2>1, Zenon
<1>11. \A u : u \in Ahead <=>
         /\ u \in Entries \X {1} /\ u[1][1] = from /\ bucketFor(Of[u[1]].us) < b
         /\ <<<<"hist", bucketFor(Of[u[1]].us)>>, u[1]>> \notin Waiting
  BY Zenon DEF Ahead, b
<1>12. \A u : u \in Ahead' <=>
         /\ u \in Entries \X {1} /\ u[1][1] = from /\ bucketFor(Of[u[1]].us) < next + 1 - 1
         /\ <<<<"hist", bucketFor(Of[u[1]].us)>>, u[1]>> \notin Waiting
  <2>1. next' = next + 1 /\ from' = from /\ Entries' = Entries /\ Of' = Of /\ Waiting' = Waiting
    BY <1>2, <1>5, Zenon DEF Same
  <2>2. \A u : u \in Ahead' <=>
         /\ u \in Entries' \X {1} /\ u[1][1] = from' /\ bucketFor(Of'[u[1]].us) < next' - 1
         /\ <<<<"hist", bucketFor(Of'[u[1]].us)>>, u[1]>> \notin Waiting'
    BY Zenon DEF Ahead
  <2> TAKE u
  <2>3. Entries' \X {1} = Entries \X {1}
    BY <2>1, Zenon
  <2>4. Of'[u[1]].us = Of[u[1]].us
    BY <2>1, Zenon
  <2>5. bucketFor(Of'[u[1]].us) = bucketFor(Of[u[1]].us)
    BY <2>4, Zenon
  <2>6. next' - 1 = next + 1 - 1
    BY <1>1, <2>1
  <2> QED
    BY <2>1, <2>2, <2>3, <2>5, <2>6, Zenon
<1>13. \A u \in Entries \X {1} : bucketFor(Of[u[1]].us) < next + 1 - 1
                                 <=> bucketFor(Of[u[1]].us) < b \/ bucketFor(Of[u[1]].us) = b
  <2>1. \A u \in Entries \X {1} : bucketFor(Of[u[1]].us) \in Nat
    BY <1>7 DEF Buckets
  <2>2. \A k \in Nat : k < next + 1 - 1 <=> k < b \/ k = b
    BY <1>1 DEF b
  <2> QED
    BY <2>1, <2>2, Zenon
<1>14. \A u \in Entries \X {1} : ~(bucketFor(Of[u[1]].us) < b /\ bucketFor(Of[u[1]].us) = b)
  <2>1. \A u \in Entries \X {1} : bucketFor(Of[u[1]].us) \in Nat
    BY <1>7 DEF Buckets
  <2>2. \A k \in Nat : ~(k < b /\ k = b)
    BY <1>1 DEF b
  <2> QED
    BY <2>1, <2>2, Zenon
<1>15. Ahead' = Ahead \cup X
  <2>1. \A u : u \in Ahead' <=> u \in Ahead \/ u \in X
    <3> TAKE u
    <3>1. CASE u \notin Entries \X {1}
      BY <1>10, <1>11, <1>12, <3>1, Zenon
    <3>2. CASE u \in Entries \X {1} /\ bucketFor(Of[u[1]].us) = b
      <4>1. bucketFor(Of[u[1]].us) < next + 1 - 1
        BY <1>13, <3>2, Zenon
      <4>2. <<"hist", bucketFor(Of[u[1]].us)>> = c
        BY <3>2, Zenon DEF c
      <4>3. ~(bucketFor(Of[u[1]].us) < b)
        BY <1>14, <3>2, Zenon
      <4> QED
        BY <1>10, <1>11, <1>12, <3>2, <4>1, <4>2, <4>3, Zenon
    <3>3. CASE u \in Entries \X {1} /\ bucketFor(Of[u[1]].us) # b
      BY <1>10, <1>11, <1>12, <1>13, <3>3, Zenon
    <3> QED
      BY <3>1, <3>2, <3>3
  <2> QED
    BY <2>1, Zenon
<1>16. Ahead \cap X = {}
  BY <1>10, <1>11, <1>14
<1>17. IsFiniteSet(X) /\ Weight[c][L] = Cardinality(X)
  BY <1>3, <1>5, UnitsCounted DEF WriteInv, X
<1>18. IsFiniteSet(Ahead)
  BY LagFinite, ShardStatsAssumption DEF WriteInv, WriteTypeOK, TodoInv
<1>19. Cardinality(Ahead') = Cardinality(Ahead) + Weight[c][L]
  BY <1>15, <1>16, <1>17, <1>18, DisjointUnion, Zenon
<1> QED
  BY <1>2, <1>3, <1>4, <1>19, Zenon DEF c, b

\* Of what the histogram has of a shard, the request counter misses at most the
\* request that is being recorded.
LEMMA LagRequests ==
  ASSUME WriteInv, from \in Shards
  PROVE  Cardinality(Ahead) + Cardinality(Active \cap (1..(from - 1)))
           <= Weight[Total("requests")][{from}] + Cardinality(Active \cap (1..from))
<1> DEFINE c == Total("requests")
           X == Units[c][{from}]
           last == <<<<from, Len(log[from])>>, 1>>
           A == Active \cap (1..(from - 1))
           B == Active \cap (1..from)
<1>1. pool \in Nat /\ from \in 1..pool /\ IsFiniteSet(Entries)
  BY ShardStatsAssumption DEF WriteInv, WriteTypeOK, TodoInv, Shards
<1>2. /\ IsFiniteSet(Ahead) /\ Cardinality(Ahead) \in Nat /\ IsFiniteSet(A) /\ Cardinality(A) \in Nat
      /\ IsFiniteSet(B) /\ Cardinality(B) \in Nat
  BY <1>1, LagFinite, Zenon
<1>3. c \in Sums /\ c \in Counters /\ {from} \in SUBSET Shards
  BY KindsOfCounters, Zenon
<1>4. IsFiniteSet(X) /\ Weight[c][{from}] = Cardinality(X) /\ Cardinality(X) \in Nat
  <2>1. IsFiniteSet(X) /\ Weight[c][{from}] = Cardinality(X)
    BY <1>3, UnitsCounted, Zenon DEF WriteInv
  <2> QED
    BY <2>1, FS_CardinalityType, Zenon
<1>5. CASE from \in Active
  <2>1. B = A \cup {from} /\ from \notin A
    BY <1>1, <1>5
  <2>2. Cardinality(B) = Cardinality(A) + 1
    BY <1>2, <2>1, FS_AddElement, Zenon
  <2>3. Ahead \subseteq X \cup {last}
    <3>1. ASSUME NEW u \in Ahead PROVE u \in X \/ u = last
      <4>1. u \in Entries \X {1} /\ u[1][1] = from
        BY Zenon DEF Ahead
      <4>2. u[1] \in Entries /\ u[2] = 1 /\ u = <<u[1], 1>> /\ u \in Entries \X (1..MaxUs)
        BY <4>1, ShardStatsAssumption, SnapshotsAssumption DEF MaxUint
      <4>3. CASE <<c, u[1]>> \in Waiting
        <5>1. u[1][2] = Len(log[from]) /\ u[1] = <<u[1][1], u[1][2]>>
          BY <4>1, <4>2, <4>3, EntryIs, Zenon DEF Waiting, WriteInv
        <5> QED
          BY <4>1, <4>2, <5>1, Zenon
      <4>4. CASE <<c, u[1]>> \notin Waiting
        <5>1. Amount(c, Of[u[1]]) = 1
          <6>1. c # Total("sumUs") /\ c # Total("failures") /\ c[1] = "total"
            BY Zenon DEF Total
          <6>2. "total" # "hist" /\ "total" # "class" /\ "total" # "err"
            OBVIOUS
          <6> QED
            BY <6>1, <6>2, Zenon DEF Amount
        <5>2. u[2] <= Amount(c, Of[u[1]])
          BY <4>2, <5>1
        <5>3. X = {x \in Entries \X (1..MaxUs) :
                     x[1][1] \in {from} /\ <<c, x[1]>> \notin Waiting /\ x[2] <= Amount(c, Of[x[1]])}
          BY <1>3, Zenon DEF Units
        <5> QED
          BY <4>1, <4>2, <4>4, <5>2, <5>3, Zenon
      <4> QED
        BY <4>3, <4>4, Zenon
    <3> QED
      BY <3>1, Zenon
  <2> HIDE DEF X, last
  <2>4. IsFiniteSet(X \cup {last}) /\ Cardinality(X \cup {last}) <= Cardinality(X) + 1
        /\ Cardinality(X \cup {last}) \in Nat
    BY <1>4, FS_AddElement, FS_CardinalityType
  <2>5. Cardinality(Ahead) <= Cardinality(X \cup {last})
    BY <2>3, <2>4, FS_Subset, Zenon
  <2> QED
    BY <1>2, <1>4, <2>2, <2>4, <2>5
<1>6. CASE from \notin Active
  <2>1. log[from] = <<>>
    BY <1>6, Zenon DEF Active
  <2>2. Ahead = {}
    <3>1. \A e \in Entries : e[1] # from
      BY <2>1 DEF Entries
    <3> QED
      BY <3>1, Zenon DEF Ahead
  <2>3. Cardinality(Ahead) = 0
    BY <2>2, FS_EmptySet, Zenon
  <2>4. A \subseteq B
    BY <1>1
  <2>5. Cardinality(A) <= Cardinality(B)
    BY <1>2, <2>4, FS_Subset, Zenon
  <2> HIDE DEF A, B, X
  <2> QED
    BY <1>2, <1>4, <2>3, <2>5 DEF A, B, X
<1> QED
  BY <1>5, <1>6, Zenon

LEMMA LagLoad ==
  ASSUME WriteInv, ReadTypeOK, ReadInv, LagInv, Load
  PROVE  LagInv'
<1> DEFINE req == Total("requests")
           Old == SumFunctionOnSet(reading, Hists)
           New == SumFunctionOnSet(reading', Hists)
           w == Weight[req][{from}]
           A == Cardinality(Active \cap (1..(from - 1)))
           B == Cardinality(Active \cap (1..from))
<1>1. UNCHANGED writeVars /\ reader' = reader /\ prev' = prev
      /\ IF next < Len(Loads) THEN next' = next + 1 /\ from' = from ELSE next' = 1 /\ from' = from + 1
  BY Zenon DEF Load
<1>2. Same /\ pool' = pool /\ log' = log /\ WriteInv'
  BY <1>1, ReaderKeeps, Zenon DEF writeVars
<1>3. Active' = Active
  BY <1>2, Zenon DEF Active, Same
<1>4. /\ from \in Shards /\ reading' \in Snaps /\ reading \in Snaps
      /\ \A c \in Counters : c \notin Loads[next] => reading'[c] = reading[c]
  BY SeenLoad, Zenon DEF WriteInv, ReadTypeOK
<1>5. /\ pool \in Nat /\ from \in 1..pool /\ IsFiniteSet(Entries) /\ NumBuckets \in Nat
      /\ Len(Loads) = NumBuckets + 12 /\ next \in 1..(NumBuckets + 12)
  BY <1>4, LoadsAre, ShardStatsAssumption, SnapshotsAssumption
  DEF WriteInv, WriteTypeOK, TodoInv, ReadTypeOK, Shards
<1>6. A \in Nat /\ B \in Nat /\ Cardinality(Ahead) \in Nat
  BY <1>5, LagFinite, Zenon
<1>7. Old \in Nat /\ New \in Nat /\ reading[req] \in Nat /\ reading'[req] \in Nat
  BY <1>4, SumOfHists, Zenon
<1>8. req \in Counters /\ req \in Sums /\ req \notin Hists /\ IsFiniteSet(Hists) /\ Hists \subseteq Counters
  BY HistsAre, KindsOfCounters, Zenon
<1>9. \A c \in Counters : c \in Loads[next] <=> Slot(c) = next
  BY LoadsBySlot, Zenon DEF ReadTypeOK
<1>10. /\ \A b \in Buckets : <<"hist", b>> \in Loads[next] <=> b + 1 = next
       /\ req \in Loads[next] <=> next = NumBuckets + 1
  <2>1. \A b \in Buckets : <<"hist", b>> \in Counters /\ Slot(<<"hist", b>>) = b + 1
    BY SlotOf, KindsOfCounters, Zenon
  <2>2. Slot(req) = NumBuckets + 1
    BY SlotOf, Zenon
  <2> QED
    BY <1>8, <1>9, <2>1, <2>2, Zenon
<1>11. next > NumBuckets => New = Old
  <2> SUFFICES ASSUME next > NumBuckets PROVE New = Old
    OBVIOUS
  <2>1. \A b \in Buckets : b + 1 # next
    BY <1>5 DEF Buckets
  <2>2. \A c \in Hists : c \notin Loads[next]
    BY <1>10, <2>1, HistsAre, Zenon
  <2>3. \A c \in Hists : reading[c] \in Nat /\ reading[c] = reading'[c]
    <3>1. \A c \in Counters : reading[c] \in Nat
      BY <1>4, SumOfHists, Zenon
    <3> QED
      BY <1>4, <1>8, <2>2, <3>1
  <2> QED
    BY <1>8, <2>3, SumSame, Zenon
<1>12. CASE next <= NumBuckets
  <2> DEFINE c == <<"hist", next - 1>>
  <2>1. /\ c \in Hists /\ next' = next + 1 /\ from' = from
        /\ \A d \in Counters : d \in Loads[next] <=> d = c
        /\ Cardinality(Ahead') = Cardinality(Ahead) + Weight[c][{from}]
    BY <1>12, LagBucket, Zenon
  <2> HIDE DEF c
  <2>2. c \in Sums /\ c \in Counters /\ c \in Loads[next]
    BY <2>1, HistsAre, Zenon
  <2>3. Weight[c][{from}] \in Nat /\ reading[c] \in Nat /\ reading'[c] = reading[c] + Weight[c][{from}]
    BY <2>2, LoadAdds, Zenon
  <2>4. \A d \in Hists \ {c} : reading[d] = reading'[d]
    BY <1>4, <1>8, <2>1, Zenon
  <2>5. \A d \in Hists : reading[d] \in Nat /\ reading'[d] \in Nat
    BY <1>4, <1>8, SumOfHists, Zenon
  <2>6. New + reading[c] = Old + reading'[c]
    BY <1>8, <2>1, <2>4, <2>5, SumExcept
  <2>7. reading'[req] = reading[req]
    BY <1>4, <1>8, <2>1, Zenon
  <2>8. reader = "tick" => Old <= reading[req] + A + Cardinality(Ahead)
    <3>1. next <= NumBuckets + 1
      BY <1>5, <1>12
    <3> QED
      BY <3>1, Zenon DEF LagInv
  <2>9. reader = "tick" => New <= reading'[req] + A + Cardinality(Ahead')
    <3> HIDE DEF Old, New, A, req
    <3> QED
      BY <1>6, <1>7, <2>1, <2>3, <2>6, <2>7, <2>8
  <2>10. next' <= NumBuckets + 1
    BY <1>5, <1>12, <2>1
  <2> QED
    BY <1>1, <1>3, <2>1, <2>9, <2>10, Zenon DEF LagInv
<1>13. CASE next = NumBuckets + 1
  <2>1. next' = NumBuckets + 2 /\ from' = from /\ ~(next' <= NumBuckets + 1) /\ next > NumBuckets
    BY <1>1, <1>5, <1>13
  <2>2. w \in Nat /\ reading'[req] = reading[req] + w
    BY <1>8, <1>10, <1>13, LoadAdds
  <2>3. Cardinality(Ahead) + A <= w + B
    BY <1>4, LagRequests, Zenon
  <2>4. reader = "tick" => Old <= reading[req] + A + Cardinality(Ahead)
    <3>1. next <= NumBuckets + 1
      BY <1>5, <1>13
    <3> QED
      BY <3>1, Zenon DEF LagInv
  <2>5. reader = "tick" => New <= reading'[req] + B
    <3>1. New = Old
      BY <1>11, <2>1, Zenon
    <3> HIDE DEF Old, New, A, B, w, req
    <3> QED
      BY <1>6, <1>7, <2>2, <2>3, <2>4, <3>1
  <2> QED
    BY <1>1, <1>3, <2>1, <2>5, Zenon DEF LagInv
<1>14. CASE next > NumBuckets + 1
  <2>1. New = Old /\ reading'[req] = reading[req]
    <3>1. next > NumBuckets /\ next # NumBuckets + 1
      BY <1>5, <1>14
    <3> QED
      BY <1>4, <1>8, <1>10, <1>11, <3>1, Zenon
  <2>2. reader = "tick" => Old <= reading[req] + B
    <3>1. ~(next <= NumBuckets + 1)
      BY <1>5, <1>14
    <3> QED
      BY <3>1, Zenon DEF LagInv
  <2>3. CASE next < Len(Loads)
    <3>1. from' = from /\ ~(next' <= NumBuckets + 1)
      BY <1>1, <1>5, <1>14, <2>3
    <3> QED
      BY <1>1, <1>3, <2>1, <2>2, <3>1, Zenon DEF LagInv
  <2>4. CASE ~(next < Len(Loads))
    <3>1. next' = 1 /\ from' = from + 1 /\ next' <= NumBuckets + 1 /\ from' - 1 = from
      BY <1>1, <1>5, <2>4
    <3>2. Cardinality(Ahead') \in Nat
      <4>1. IsFiniteSet(Entries \X {1})
        BY <1>5, FS_Singleton, FS_Product, Zenon
      <4>2. Ahead' \subseteq Entries' \X {1}
        BY Zenon DEF Ahead
      <4>3. Entries' = Entries
        BY <1>2, Zenon DEF Same
      <4> QED
        BY <4>1, <4>2, <4>3, FS_Subset, FS_CardinalityType, Zenon
    <3>3. reader = "tick" => New <= reading'[req] + B + Cardinality(Ahead')
      <4> HIDE DEF Old, New, B, req
      <4> QED
        BY <1>6, <1>7, <2>1, <2>2, <3>2
    <3> QED
      BY <1>1, <1>3, <3>1, <3>3, Zenon DEF LagInv
  <2> QED
    BY <2>3, <2>4, Zenon
<1> QED
  BY <1>5, <1>12, <1>13, <1>14
=============================================================================
