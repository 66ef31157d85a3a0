----------------------------- MODULE ApiProofs ------------------------------
(***************************************************************************)
(* Proofs about the API server: ReadinessProbe for any number of probers,  *)
(* dependencies and faults, and ApiRequests for any number of connections, *)
(* items and slots.                                                        *)
(***************************************************************************)
EXTENDS ReadinessProbe, ApiRequests, FiniteSetTheorems, TLAPS

(* ReadinessProbe.                                                         *)

\* While a round of checks runs its result is that of the dependencies it has
\* checked, and what is cached is the result of a whole round.
RoundInv ==
  /\ holder # Nobody /\ ok = TRUE => found \cup left = Deps
  /\ fresh = TRUE => cached # Nobody
  /\ ReadyMeansAllFound

\* A round runs only while no answer is fresh, and there is a round to spend
\* exactly when neither is.
CreditInv ==
  /\ holder # Nobody => fresh = FALSE
  /\ credit = IF fresh = TRUE \/ holder # Nobody THEN 0 ELSE 1

ProbeInv == ReadyTypeOK /\ RoundInv /\ CreditInv

LEMMA ProbeInit == ReadyInit => ProbeInv
<1> SUFFICES ASSUME ReadyInit PROVE ProbeInv
  OBVIOUS
<1> USE ProbeAssumption DEF ReadyInit
<1>1. ReadyTypeOK
  <2>1. cached \in BOOLEAN \cup {Nobody}
    BY Zenon
  <2>2. ok \in BOOLEAN /\ fresh \in BOOLEAN
    BY Zenon
  <2> QED
    BY <2>1, <2>2 DEF ReadyTypeOK
<1>2. cached # TRUE
  BY Zenon
<1>3. RoundInv
  BY <1>2, Zenon DEF RoundInv, ReadyMeansAllFound
<1>4. CreditInv
  BY Zenon DEF CreditInv
<1> QED
  BY <1>1, <1>3, <1>4, Zenon DEF ProbeInv

LEMMA ReadyTypeNext ==
  ASSUME ReadyTypeOK, [ReadyNext]_readyVars
  PROVE  ReadyTypeOK'
<1> USE ProbeAssumption
<1>1. ASSUME NEW p \in Probers, Probe(p) PROVE ReadyTypeOK'
  BY <1>1, Zenon DEF Probe, round, ReadyTypeOK
<1>2. ASSUME NEW p \in Probers, AnswerCached(p) PROVE ReadyTypeOK'
  BY <1>2, Zenon DEF AnswerCached, round, ReadyTypeOK
<1>3. ASSUME NEW p \in Probers, Start(p) PROVE ReadyTypeOK'
  BY <1>3, Zenon DEF Start, round, ReadyTypeOK
<1>4. ASSUME NEW p \in Probers, Check(p) PROVE ReadyTypeOK'
  BY <1>4, Zenon DEF Check, round, ReadyTypeOK
<1>5. ASSUME NEW p \in Probers, PublishResult(p) PROVE ReadyTypeOK'
  BY <1>5, Zenon DEF PublishResult, round, ReadyTypeOK
<1>6. ASSUME NEW p \in Probers, GiveUp(p) PROVE ReadyTypeOK'
  BY <1>6 DEF GiveUp, round, ReadyTypeOK
<1>7. CASE ExpireAnswer
  BY <1>7, Zenon DEF ExpireAnswer, round, ReadyTypeOK
<1>8. ASSUME NEW d \in Deps, GoDown(d) \/ ComeUp(d) PROVE ReadyTypeOK'
  BY <1>8 DEF GoDown, ComeUp, round, ReadyTypeOK
<1>9. CASE UNCHANGED readyVars
  BY <1>9, Zenon DEF readyVars, ReadyTypeOK
<1> QED
  BY <1>1, <1>2, <1>3, <1>4, <1>5, <1>6, <1>7, <1>8, <1>9, Zenon DEF ReadyNext

LEMMA RoundNext ==
  ASSUME ReadyTypeOK, RoundInv, [ReadyNext]_readyVars
  PROVE  RoundInv'
<1> USE ProbeAssumption
<1>1. ASSUME NEW p \in Probers, Probe(p) PROVE RoundInv'
  BY <1>1, Zenon DEF Probe, round, ReadyTypeOK, RoundInv, ReadyMeansAllFound
<1>2. ASSUME NEW p \in Probers, AnswerCached(p) PROVE RoundInv'
  BY <1>2, Zenon DEF AnswerCached, round, ReadyTypeOK, RoundInv, ReadyMeansAllFound
<1>3. ASSUME NEW p \in Probers, Start(p) PROVE RoundInv'
  BY <1>3, Zenon DEF Start, round, ReadyTypeOK, RoundInv, ReadyMeansAllFound
<1>4. ASSUME NEW p \in Probers, Check(p) PROVE RoundInv'
  BY <1>4, Zenon DEF Check, round, ReadyTypeOK, RoundInv, ReadyMeansAllFound
<1>5. ASSUME NEW p \in Probers, PublishResult(p) PROVE RoundInv'
  BY <1>5, Zenon DEF PublishResult, round, ReadyTypeOK, RoundInv, ReadyMeansAllFound
<1>6. ASSUME NEW p \in Probers, GiveUp(p) PROVE RoundInv'
  BY <1>6, Zenon DEF GiveUp, round, ReadyTypeOK, RoundInv, ReadyMeansAllFound
<1>7. CASE ExpireAnswer
  BY <1>7, Zenon DEF ExpireAnswer, round, ReadyTypeOK, RoundInv, ReadyMeansAllFound
<1>8. ASSUME NEW d \in Deps, GoDown(d) \/ ComeUp(d) PROVE RoundInv'
  BY <1>8, Zenon DEF GoDown, ComeUp, round, ReadyTypeOK, RoundInv, ReadyMeansAllFound
<1>9. CASE UNCHANGED readyVars
  BY <1>9, Zenon DEF readyVars, ReadyTypeOK, RoundInv, ReadyMeansAllFound
<1> QED
  BY <1>1, <1>2, <1>3, <1>4, <1>5, <1>6, <1>7, <1>8, <1>9, Zenon DEF ReadyNext

LEMMA CreditNext ==
  ASSUME ReadyTypeOK, RoundInv, CreditInv, [ReadyNext]_readyVars
  PROVE  CreditInv'
<1> USE ProbeAssumption
<1>1. ASSUME NEW p \in Probers, Probe(p) PROVE CreditInv'
  BY <1>1, Zenon DEF Probe, round, ReadyTypeOK, RoundInv, CreditInv
<1>2. ASSUME NEW p \in Probers, AnswerCached(p) PROVE CreditInv'
  BY <1>2, Zenon DEF AnswerCached, round, ReadyTypeOK, RoundInv, CreditInv
<1>3. ASSUME NEW p \in Probers, Start(p) PROVE CreditInv'
  BY <1>3 DEF Start, round, ReadyTypeOK, RoundInv, CreditInv
<1>4. ASSUME NEW p \in Probers, Check(p) PROVE CreditInv'
  BY <1>4, Zenon DEF Check, round, ReadyTypeOK, RoundInv, CreditInv
<1>5. ASSUME NEW p \in Probers, PublishResult(p) PROVE CreditInv'
  BY <1>5, Zenon DEF PublishResult, round, ReadyTypeOK, RoundInv, CreditInv
<1>6. ASSUME NEW p \in Probers, GiveUp(p) PROVE CreditInv'
  BY <1>6, Zenon DEF GiveUp, round, ReadyTypeOK, RoundInv, CreditInv
<1>7. CASE ExpireAnswer
  BY <1>7 DEF ExpireAnswer, round, ReadyTypeOK, RoundInv, CreditInv
<1>8. ASSUME NEW d \in Deps, GoDown(d) \/ ComeUp(d) PROVE CreditInv'
  BY <1>8, Zenon DEF GoDown, ComeUp, round, ReadyTypeOK, RoundInv, CreditInv
<1>9. CASE UNCHANGED readyVars
  BY <1>9, Zenon DEF readyVars, ReadyTypeOK, RoundInv, CreditInv
<1> QED
  BY <1>1, <1>2, <1>3, <1>4, <1>5, <1>6, <1>7, <1>8, <1>9, Zenon DEF ReadyNext

LEMMA ProbeAlways == ReadySpec => []ProbeInv
<1>1. ProbeInv /\ [ReadyNext]_readyVars => ProbeInv'
  BY ReadyTypeNext, RoundNext, CreditNext, Zenon DEF ProbeInv
<1> QED
  BY ProbeInit, <1>1, PTL DEF ReadySpec

\* The types, and that whoever runs the checks of Ready has the mutex.
THEOREM ReadyTypeCorrect == ReadySpec => []ReadyTypeOK
<1>1. ProbeInv => ReadyTypeOK
  BY Zenon DEF ProbeInv
<1> QED
  BY ProbeAlways, <1>1, PTL

\* Ready runs its checks at most once for each expiry of the cached answer.
THEOREM NoHerd == ReadySpec => []OneRoundPerExpiry
<1>1. ProbeInv => OneRoundPerExpiry
  BY DEF ProbeInv, CreditInv, OneRoundPerExpiry
<1> QED
  BY ProbeAlways, <1>1, PTL

\* Ready never caches a yes that no single round of checks has found.
THEOREM ReadyIsFound == ReadySpec => []ReadyMeansAllFound
<1>1. ProbeInv => ReadyMeansAllFound
  BY Zenon DEF ProbeInv, RoundInv
<1> QED
  BY ProbeAlways, <1>1, PTL

-----------------------------------------------------------------------------
(* ApiRequests.                                                            *)

\* Only what is committed is acknowledged, and Redis holds under a key the
\* committed row of that key.
StoreInv ==
  /\ acked \subseteq rows /\ \A r \in Requests : known[r] \subseteq acked
  /\ \A i \in Items : cache[i] # None => cache[i] = i /\ i \in rows

\* Which requests have an item, and that the last answer was forgotten when
\* the request began.
Lookup == {"get", "cacheGet", "dbGet", "cacheSet"}
ItemInv ==
  \A r \in Requests :
    /\ pc[r] # "idle" => reply[r].code = 0
    /\ pc[r] \in Lookup => item[r] \in Items
    /\ pc[r] \notin Lookup \cup {"publish", "idle"} => item[r] = None
    /\ pc[r] \in {"cacheSet", "publish"} => item[r] \in rows

RequestInv == TypeOK /\ StoreInv /\ ItemInv /\ LookupsAreRight

LEMMA RequestInit == Init => RequestInv
<1> SUFFICES ASSUME Init PROVE RequestInv
  OBVIOUS
<1> USE ApiAssumption DEF Init, NoReply, Routes
<1>1. TypeOK
  <2>1. counted \in BOOLEAN
    BY Zenon
  <2> QED
    BY <2>1 DEF TypeOK, PlaceOK, ReplyOK, DataOK
<1>2. StoreInv
  BY Zenon DEF StoreInv
<1>3. ItemInv
  BY Zenon DEF ItemInv, Lookup
<1>4. LookupsAreRight
  BY Zenon DEF LookupsAreRight
<1> QED
  BY <1>1, <1>2, <1>3, <1>4, Zenon DEF RequestInv

LEMMA PlaceNext ==
  ASSUME PlaceOK, [Next]_vars
  PROVE  PlaceOK'
<1> USE ApiAssumption DEF config, db, ghosts, PlaceOK, Routes
<1>1. ASSUME NEW r \in Requests, NEW o \in Routes, NEW i \in Items, Admit(r, o, i) PROVE PlaceOK'
  BY <1>1, Zenon DEF Admit, Go, NoReply
<1>2. ASSUME NEW r \in Requests, Shed(r) PROVE PlaceOK'
  BY <1>2, Zenon DEF Shed, Go
<1>3. ASSUME NEW r \in Requests, Ping(r) PROVE PlaceOK'
  BY <1>3, Zenon DEF Ping, Parse, Go, Answer
<1>4. ASSUME NEW r \in Requests, GetItem(r) PROVE PlaceOK'
  BY <1>4 DEF GetItem, Parse, Go, Refused, Answer, Continue
<1>5. ASSUME NEW r \in Requests, ListItems(r) PROVE PlaceOK'
  BY <1>5 DEF ListItems, Parse, Go, Refused, Answer, Continue
<1>6. ASSUME NEW r \in Requests, CreateItem(r) PROVE PlaceOK'
  BY <1>6 DEF CreateItem, Parse, Go, Refused, Answer, Continue
<1>7. ASSUME NEW r \in Requests, Stats(r) PROVE PlaceOK'
  BY <1>7 DEF Stats, Parse, Go, Answer, Continue
<1>8. ASSUME NEW r \in Requests, CacheGet(r) PROVE PlaceOK'
  BY <1>8 DEF CacheGet, Go, Answer, Continue
<1>9. ASSUME NEW r \in Requests, DbGet(r) PROVE PlaceOK'
  BY <1>9 DEF DbGet, Go, Answer, Continue
<1>10. ASSUME NEW r \in Requests, CacheSet(r) PROVE PlaceOK'
  BY <1>10, Zenon DEF CacheSet, Go, Answer
<1>11. ASSUME NEW r \in Requests, DbList(r) PROVE PlaceOK'
  BY <1>11 DEF DbList, Go, Answer
<1>12. ASSUME NEW r \in Requests, DbInsert(r) PROVE PlaceOK'
  BY <1>12 DEF DbInsert, Go, Answer, Continue
<1>13. ASSUME NEW r \in Requests, Publish(r) PROVE PlaceOK'
  BY <1>13, Zenon DEF Publish, Go, Answer
<1>14. ASSUME NEW r \in Requests, CacheInt(r) PROVE PlaceOK'
  BY <1>14 DEF CacheInt, Go, Answer, Continue
<1>15. ASSUME NEW r \in Requests, CountLock(r) PROVE PlaceOK'
  BY <1>15 DEF CountLock, Go, Answer, Continue
<1>16. ASSUME NEW r \in Requests, DbCount(r) PROVE PlaceOK'
  BY <1>16, Zenon DEF DbCount, Go, Answer
<1>17. ASSUME NEW r \in Requests, Panic(r) PROVE PlaceOK'
  BY <1>17, Zenon DEF Panic, Answer
<1>18. CASE Expire
  BY <1>18, Zenon DEF Expire
<1>19. CASE UNCHANGED vars
  BY <1>19, Zenon DEF vars
<1> QED
  BY <1>1, <1>2, <1>3, <1>4, <1>5, <1>6, <1>7, <1>8, <1>9, <1>10, <1>11, <1>12, <1>13, <1>14,
     <1>15, <1>16, <1>17, <1>18, <1>19, Zenon DEF Next, Step

LEMMA ReplyNext ==
  ASSUME ReplyOK, DataOK, ItemInv, [Next]_vars
  PROVE  ReplyOK'
<1> USE ApiAssumption DEF config, db, ghosts, ReplyOK, DataOK, ItemInv, Lookup
<1>1. ASSUME NEW r \in Requests, NEW o \in Routes, NEW i \in Items, Admit(r, o, i) PROVE ReplyOK'
  BY <1>1 DEF Admit, Go, NoReply
<1>2. ASSUME NEW r \in Requests, Shed(r) PROVE ReplyOK'
  BY <1>2 DEF Shed, Go
<1>3. ASSUME NEW r \in Requests, Ping(r) PROVE ReplyOK'
  BY <1>3 DEF Ping, Parse, Go, Answer
<1>4. ASSUME NEW r \in Requests, GetItem(r) PROVE ReplyOK'
  BY <1>4 DEF GetItem, Parse, Go, Refused, Answer, Continue
<1>5. ASSUME NEW r \in Requests, ListItems(r) PROVE ReplyOK'
  BY <1>5 DEF ListItems, Parse, Go, Refused, Answer, Continue
<1>6. ASSUME NEW r \in Requests, CreateItem(r) PROVE ReplyOK'
  BY <1>6 DEF CreateItem, Parse, Go, Refused, Answer, Continue
<1>7. ASSUME NEW r \in Requests, Stats(r) PROVE ReplyOK'
  BY <1>7 DEF Stats, Parse, Go, Answer, Continue
<1>8. ASSUME NEW r \in Requests, CacheGet(r) PROVE ReplyOK'
  BY <1>8 DEF CacheGet, Go, Answer, Continue
<1>9. ASSUME NEW r \in Requests, DbGet(r) PROVE ReplyOK'
  BY <1>9 DEF DbGet, Go, Answer, Continue
<1>10. ASSUME NEW r \in Requests, CacheSet(r) PROVE ReplyOK'
  BY <1>10 DEF CacheSet, Go, Answer
<1>11. ASSUME NEW r \in Requests, DbList(r) PROVE ReplyOK'
  BY <1>11 DEF DbList, Go, Answer
<1>12. ASSUME NEW r \in Requests, DbInsert(r) PROVE ReplyOK'
  BY <1>12 DEF DbInsert, Go, Answer, Continue
<1>13. ASSUME NEW r \in Requests, Publish(r) PROVE ReplyOK'
  BY <1>13 DEF Publish, Go, Answer
<1>14. ASSUME NEW r \in Requests, CacheInt(r) PROVE ReplyOK'
  BY <1>14 DEF CacheInt, Go, Answer, Continue
<1>15. ASSUME NEW r \in Requests, CountLock(r) PROVE ReplyOK'
  BY <1>15 DEF CountLock, Go, Answer, Continue
<1>16. ASSUME NEW r \in Requests, DbCount(r) PROVE ReplyOK'
  BY <1>16 DEF DbCount, Go, Answer
<1>17. ASSUME NEW r \in Requests, Panic(r) PROVE ReplyOK'
  BY <1>17 DEF Panic, Answer
<1>18. CASE Expire
  BY <1>18 DEF Expire
<1>19. CASE UNCHANGED vars
  BY <1>19, Zenon DEF vars
<1> QED
  BY <1>1, <1>2, <1>3, <1>4, <1>5, <1>6, <1>7, <1>8, <1>9, <1>10, <1>11, <1>12, <1>13, <1>14,
     <1>15, <1>16, <1>17, <1>18, <1>19 DEF Next, Step

LEMMA DataNext ==
  ASSUME DataOK, ItemInv, [Next]_vars
  PROVE  DataOK'
<1> USE ApiAssumption DEF config, db, ghosts, DataOK, ItemInv, Lookup
<1>1. ASSUME NEW r \in Requests, NEW o \in Routes, NEW i \in Items, Admit(r, o, i) PROVE DataOK'
  BY <1>1, Zenon DEF Admit, Go, NoReply
<1>2. ASSUME NEW r \in Requests, Shed(r) PROVE DataOK'
  BY <1>2, Zenon DEF Shed, Go
<1>3. ASSUME NEW r \in Requests, Ping(r) PROVE DataOK'
  BY <1>3, Zenon DEF Ping, Parse, Go, Answer
<1>4. ASSUME NEW r \in Requests, GetItem(r) PROVE DataOK'
  BY <1>4, Zenon DEF GetItem, Parse, Go, Refused, Answer, Continue
<1>5. ASSUME NEW r \in Requests, ListItems(r) PROVE DataOK'
  BY <1>5, Zenon DEF ListItems, Parse, Go, Refused, Answer, Continue
<1>6. ASSUME NEW r \in Requests, CreateItem(r) PROVE DataOK'
  BY <1>6, Zenon DEF CreateItem, Parse, Go, Refused, Answer, Continue
<1>7. ASSUME NEW r \in Requests, Stats(r) PROVE DataOK'
  BY <1>7, Zenon DEF Stats, Parse, Go, Answer, Continue
<1>8. ASSUME NEW r \in Requests, CacheGet(r) PROVE DataOK'
  BY <1>8, Zenon DEF CacheGet, Go, Answer, Continue
<1>9. ASSUME NEW r \in Requests, DbGet(r) PROVE DataOK'
  BY <1>9, Zenon DEF DbGet, Go, Answer, Continue
<1>10. ASSUME NEW r \in Requests, CacheSet(r) PROVE DataOK'
  BY <1>10, Zenon DEF CacheSet, Go, Answer
<1>11. ASSUME NEW r \in Requests, DbList(r) PROVE DataOK'
  BY <1>11, Zenon DEF DbList, Go, Answer
<1>12. ASSUME NEW r \in Requests, DbInsert(r) PROVE DataOK'
  BY <1>12 DEF DbInsert, Go, Answer, Continue
<1>13. ASSUME NEW r \in Requests, Publish(r) PROVE DataOK'
  BY <1>13, Zenon DEF Publish, Go, Answer
<1>14. ASSUME NEW r \in Requests, CacheInt(r) PROVE DataOK'
  BY <1>14, Zenon DEF CacheInt, Go, Answer, Continue
<1>15. ASSUME NEW r \in Requests, CountLock(r) PROVE DataOK'
  BY <1>15, Zenon DEF CountLock, Go, Answer, Continue
<1>16. ASSUME NEW r \in Requests, DbCount(r) PROVE DataOK'
  BY <1>16, Zenon DEF DbCount, Go, Answer
<1>17. ASSUME NEW r \in Requests, Panic(r) PROVE DataOK'
  BY <1>17, Zenon DEF Panic, Answer
<1>18. CASE Expire
  BY <1>18, Zenon DEF Expire
<1>19. CASE UNCHANGED vars
  BY <1>19, Zenon DEF vars
<1> QED
  BY <1>1, <1>2, <1>3, <1>4, <1>5, <1>6, <1>7, <1>8, <1>9, <1>10, <1>11, <1>12, <1>13, <1>14,
     <1>15, <1>16, <1>17, <1>18, <1>19, Zenon DEF Next, Step

LEMMA TypeNext ==
  ASSUME TypeOK, ItemInv, [Next]_vars
  PROVE  TypeOK'
<1>1. counted' = counted \/ counted' = TRUE \/ counted' = FALSE
  <2>1. (\E r \in Requests : DbCount(r)) \/ Expire \/ UNCHANGED counted
    <3>1. ASSUME NEW r \in Requests, NEW o \in Routes, NEW i \in Items, Admit(r, o, i)
          PROVE  UNCHANGED counted
      BY <3>1, Zenon DEF Admit
    <3>2. ASSUME NEW r \in Requests, Shed(r) \/ Panic(r) PROVE UNCHANGED counted
      BY <3>2, Zenon DEF Shed, Panic
    <3>3. ASSUME NEW r \in Requests, Step(r), ~DbCount(r) PROVE UNCHANGED counted
      BY <3>3, Zenon DEF Step, Parse, Ping, GetItem, ListItems, CreateItem, Stats, CacheGet, DbGet,
                  CacheSet, DbList, DbInsert, Publish, CacheInt, CountLock
    <3> QED
      BY <3>1, <3>2, <3>3, Zenon DEF Next, vars
  <2>2. CASE Expire
    BY <2>2, Zenon DEF Expire
  <2>3. CASE \E r \in Requests : DbCount(r)
    BY <2>3, Zenon DEF DbCount
  <2> QED
    BY <2>1, <2>2, <2>3, Zenon
<1>2. counted' \in BOOLEAN
  BY <1>1, Zenon DEF TypeOK
<1>3. PlaceOK' /\ ReplyOK' /\ DataOK'
  BY PlaceNext, ReplyNext, DataNext, Zenon DEF TypeOK
<1> QED
  BY <1>2, <1>3, Zenon DEF TypeOK

LEMMA StoreNext ==
  ASSUME PlaceOK, ReplyOK, DataOK, StoreInv, ItemInv, [Next]_vars
  PROVE  StoreInv'
<1> USE ApiAssumption DEF config, db, ghosts, PlaceOK, ReplyOK, DataOK, StoreInv, ItemInv, Lookup
<1>1. ASSUME NEW r \in Requests, NEW o \in Routes, NEW i \in Items, Admit(r, o, i) PROVE StoreInv'
  BY <1>1 DEF Admit, Go, NoReply
<1>2. ASSUME NEW r \in Requests, Shed(r) PROVE StoreInv'
  BY <1>2 DEF Shed, Go
<1>3. ASSUME NEW r \in Requests, Ping(r) PROVE StoreInv'
  BY <1>3 DEF Ping, Parse, Go, Answer
<1>4. ASSUME NEW r \in Requests, GetItem(r) PROVE StoreInv'
  BY <1>4 DEF GetItem, Parse, Go, Refused, Answer, Continue
<1>5. ASSUME NEW r \in Requests, ListItems(r) PROVE StoreInv'
  BY <1>5 DEF ListItems, Parse, Go, Refused, Answer, Continue
<1>6. ASSUME NEW r \in Requests, CreateItem(r) PROVE StoreInv'
  BY <1>6 DEF CreateItem, Parse, Go, Refused, Answer, Continue
<1>7. ASSUME NEW r \in Requests, Stats(r) PROVE StoreInv'
  BY <1>7 DEF Stats, Parse, Go, Answer, Continue
<1>8. ASSUME NEW r \in Requests, CacheGet(r) PROVE StoreInv'
  BY <1>8 DEF CacheGet, Go, Answer, Continue
<1>9. ASSUME NEW r \in Requests, DbGet(r) PROVE StoreInv'
  BY <1>9 DEF DbGet, Go, Answer, Continue
<1>10. ASSUME NEW r \in Requests, CacheSet(r) PROVE StoreInv'
  BY <1>10 DEF CacheSet, Go, Answer
<1>11. ASSUME NEW r \in Requests, DbList(r) PROVE StoreInv'
  BY <1>11 DEF DbList, Go, Answer
<1>12. ASSUME NEW r \in Requests, DbInsert(r) PROVE StoreInv'
  BY <1>12 DEF DbInsert, Go, Answer, Continue
<1>13. ASSUME NEW r \in Requests, Publish(r) PROVE StoreInv'
  BY <1>13 DEF Publish, Go, Answer
<1>14. ASSUME NEW r \in Requests, CacheInt(r) PROVE StoreInv'
  BY <1>14 DEF CacheInt, Go, Answer, Continue
<1>15. ASSUME NEW r \in Requests, CountLock(r) PROVE StoreInv'
  BY <1>15, Zenon DEF CountLock, Go, Answer, Continue
<1>16. ASSUME NEW r \in Requests, DbCount(r) PROVE StoreInv'
  BY <1>16, Zenon DEF DbCount, Go, Answer
<1>17. ASSUME NEW r \in Requests, Panic(r) PROVE StoreInv'
  BY <1>17, Zenon DEF Panic, Answer
<1>18. CASE Expire
  BY <1>18 DEF Expire
<1>19. CASE UNCHANGED vars
  BY <1>19 DEF vars
<1> HIDE DEF config, db, ghosts, PlaceOK, ReplyOK, DataOK, StoreInv, ItemInv, Lookup
<1> QED
  BY <1>1, <1>2, <1>3, <1>4, <1>5, <1>6, <1>7, <1>8, <1>9, <1>10, <1>11, <1>12, <1>13, <1>14,
     <1>15, <1>16, <1>17, <1>18, <1>19, Zenon DEF Next, Step

LEMMA ItemNext ==
  ASSUME PlaceOK, ReplyOK, DataOK, StoreInv, ItemInv, [Next]_vars
  PROVE  ItemInv'
<1> USE ApiAssumption DEF config, db, ghosts, PlaceOK, ReplyOK, DataOK, StoreInv, ItemInv, Lookup, Routes
<1>1. ASSUME NEW r \in Requests, NEW o \in Routes, NEW i \in Items, Admit(r, o, i) PROVE ItemInv'
  BY <1>1 DEF Admit, Go, NoReply
<1>2. ASSUME NEW r \in Requests, Shed(r) PROVE ItemInv'
  BY <1>2 DEF Shed, Go
<1>3. ASSUME NEW r \in Requests, Ping(r) PROVE ItemInv'
  BY <1>3 DEF Ping, Parse, Go, Answer
<1>4. ASSUME NEW r \in Requests, GetItem(r) PROVE ItemInv'
  BY <1>4 DEF GetItem, Parse, Go, Refused, Answer, Continue
<1>5. ASSUME NEW r \in Requests, ListItems(r) PROVE ItemInv'
  BY <1>5 DEF ListItems, Parse, Go, Refused, Answer, Continue
<1>6. ASSUME NEW r \in Requests, CreateItem(r) PROVE ItemInv'
  BY <1>6 DEF CreateItem, Parse, Go, Refused, Answer, Continue
<1>7. ASSUME NEW r \in Requests, Stats(r) PROVE ItemInv'
  BY <1>7 DEF Stats, Parse, Go, Answer, Continue
<1>8. ASSUME NEW r \in Requests, CacheGet(r) PROVE ItemInv'
  BY <1>8 DEF CacheGet, Go, Answer, Continue
<1>9. ASSUME NEW r \in Requests, DbGet(r) PROVE ItemInv'
  BY <1>9 DEF DbGet, Go, Answer, Continue
<1>10. ASSUME NEW r \in Requests, CacheSet(r) PROVE ItemInv'
  BY <1>10 DEF CacheSet, Go, Answer
<1>11. ASSUME NEW r \in Requests, DbList(r) PROVE ItemInv'
  BY <1>11 DEF DbList, Go, Answer
<1>12. ASSUME NEW r \in Requests, DbInsert(r) PROVE ItemInv'
  BY <1>12 DEF DbInsert, Go, Answer, Continue
<1>13. ASSUME NEW r \in Requests, Publish(r) PROVE ItemInv'
  BY <1>13 DEF Publish, Go, Answer
<1>14. ASSUME NEW r \in Requests, CacheInt(r) PROVE ItemInv'
  BY <1>14 DEF CacheInt, Go, Answer, Continue
<1>15. ASSUME NEW r \in Requests, CountLock(r) PROVE ItemInv'
  BY <1>15 DEF CountLock, Go, Answer, Continue
<1>16. ASSUME NEW r \in Requests, DbCount(r) PROVE ItemInv'
  BY <1>16 DEF DbCount, Go, Answer
<1>17. ASSUME NEW r \in Requests, Panic(r) PROVE ItemInv'
  BY <1>17 DEF Panic, Answer
<1>18. CASE Expire
  BY <1>18 DEF Expire
<1>19. CASE UNCHANGED vars
  BY <1>19 DEF vars
<1> HIDE DEF config, db, ghosts, PlaceOK, ReplyOK, DataOK, StoreInv, ItemInv, Lookup, Routes
<1> QED
  BY <1>1, <1>2, <1>3, <1>4, <1>5, <1>6, <1>7, <1>8, <1>9, <1>10, <1>11, <1>12, <1>13, <1>14,
     <1>15, <1>16, <1>17, <1>18, <1>19, Zenon DEF Next, Step

\* An answer that finds nothing, or is to a request without an item, and going on
\* to the next call leave the lookups right.
LEMMA OtherAnswers ==
  ASSUME ReplyOK, LookupsAreRight, NEW r \in Requests, NEW code \in Nat, NEW body,
         code \notin {200, 404} \/ item[r] = None, Answer(r, code, body),
         UNCHANGED <<item, known, rows>>
  PROVE  LookupsAreRight'
  BY DEF ReplyOK, LookupsAreRight, Answer

LEMMA Continues ==
  ASSUME LookupsAreRight, NEW r \in Requests, NEW next, Continue(r, next),
         UNCHANGED <<item, known, rows>>
  PROVE  LookupsAreRight'
  BY Zenon DEF LookupsAreRight, Continue

LEMMA LookupNext ==
  ASSUME PlaceOK, ReplyOK, DataOK, StoreInv, ItemInv, LookupsAreRight, [Next]_vars
  PROVE  LookupsAreRight'
<1> USE DEF config, db, ghosts
<1>1. ASSUME NEW r \in Requests, NEW o \in Routes, NEW i \in Items, Admit(r, o, i) PROVE LookupsAreRight'
  BY <1>1 DEF Admit, NoReply, ReplyOK, DataOK, LookupsAreRight
<1>2. ASSUME NEW r \in Requests, Shed(r) PROVE LookupsAreRight'
  BY <1>2 DEF Shed, ReplyOK, DataOK, LookupsAreRight
<1>3. ASSUME NEW r \in Requests, Ping(r) \/ ListItems(r) \/ CreateItem(r) \/ Stats(r)
      PROVE  LookupsAreRight'
  <2>1. item[r] = None /\ UNCHANGED <<item, known, rows>>
    BY <1>3, Zenon DEF Ping, ListItems, CreateItem, Stats, Parse, Go, ItemInv, Lookup
  <2>2. (\E code \in Nat : Answer(r, code, None)) \/ \E next : Continue(r, next)
    BY <1>3 DEF Ping, ListItems, CreateItem, Stats, Refused
  <2> QED
    BY <2>1, <2>2, OtherAnswers, Continues, Zenon
<1>4. ASSUME NEW r \in Requests, GetItem(r) PROVE LookupsAreRight'
  <2>1. UNCHANGED <<item, known, rows>>
    BY <1>4, Zenon DEF GetItem, Parse
  <2>2. (\E code \in {400, 503} : Answer(r, code, None)) \/ \E next : Continue(r, next)
    BY <1>4 DEF GetItem, Refused
  <2> QED
    BY <2>1, <2>2, OtherAnswers, Continues
<1>5. ASSUME NEW r \in Requests, CacheGet(r) PROVE LookupsAreRight'
  <2>1. CASE cache[item[r]] # None /\ Answer(r, 200, cache[item[r]])
    <3>1. item[r] \in Items
      BY <1>5, Zenon DEF CacheGet, Go, ItemInv, Lookup
    <3>2. cache[item[r]] = item[r] /\ item[r] \in rows
      BY <2>1, <3>1, Zenon DEF StoreInv
    <3> QED
      BY <1>5, <2>1, <3>2 DEF CacheGet, Answer, ReplyOK, LookupsAreRight
  <2>2. CASE Continue(r, "dbGet")
    BY <1>5, <2>2, Continues, Zenon DEF CacheGet
  <2> QED
    BY <1>5, <2>1, <2>2, Zenon DEF CacheGet
<1>6. ASSUME NEW r \in Requests, DbGet(r) PROVE LookupsAreRight'
  <2>1. CASE item[r] \notin rows /\ Answer(r, 404, None)
    BY <1>6, <2>1 DEF DbGet, Answer, ReplyOK, StoreInv, LookupsAreRight
  <2>2. CASE item[r] \in rows /\ Answer(r, 200, item[r])
    BY <1>6, <2>2 DEF DbGet, Answer, ReplyOK, LookupsAreRight
  <2>3. CASE Answer(r, 500, None) \/ Continue(r, "cacheSet")
    BY <1>6, <2>3, OtherAnswers, Continues DEF DbGet
  <2> QED
    BY <1>6, <2>1, <2>2, <2>3, Zenon DEF DbGet
<1>7. ASSUME NEW r \in Requests, CacheSet(r) PROVE LookupsAreRight'
  BY <1>7 DEF CacheSet, Go, Answer, ReplyOK, ItemInv, LookupsAreRight
<1>8. ASSUME NEW r \in Requests, DbInsert(r) PROVE LookupsAreRight'
  BY <1>8 DEF DbInsert, Go, Answer, Continue, PlaceOK, ReplyOK, DataOK, ItemInv, Lookup,
              LookupsAreRight
<1>9. ASSUME NEW r \in Requests, Publish(r) PROVE LookupsAreRight'
  BY <1>9, OtherAnswers DEF Publish
<1>10. ASSUME NEW r \in Requests, DbList(r) \/ CacheInt(r) \/ CountLock(r) \/ DbCount(r)
       PROVE  LookupsAreRight'
  <2>1. item[r] = None /\ UNCHANGED <<item, known, rows>>
    BY <1>10, Zenon DEF DbList, CacheInt, CountLock, DbCount, Go, ItemInv, Lookup
  <2>2. (\E code \in Nat : Answer(r, code, None)) \/ \E next : Continue(r, next)
    BY <1>10 DEF DbList, CacheInt, CountLock, DbCount
  <2> QED
    BY <2>1, <2>2, OtherAnswers, Continues, Zenon
<1>11. ASSUME NEW r \in Requests, Panic(r) PROVE LookupsAreRight'
  BY <1>11, OtherAnswers DEF Panic
<1>12. CASE Expire
  <2>1. UNCHANGED <<item, reply, known, rows>>
    BY <1>12, Zenon DEF Expire
  <2> QED
    BY <2>1 DEF LookupsAreRight
<1>13. CASE UNCHANGED vars
  BY <1>13 DEF vars, LookupsAreRight
<1> QED
  BY <1>1, <1>2, <1>3, <1>4, <1>5, <1>6, <1>7, <1>8, <1>9, <1>10, <1>11, <1>12, <1>13, Zenon
     DEF Next, Step

LEMMA RequestAlways == Spec => []RequestInv
<1>1. RequestInv /\ [Next]_vars => RequestInv'
  <2> SUFFICES ASSUME RequestInv, [Next]_vars PROVE RequestInv'
    OBVIOUS
  <2>1. TypeOK /\ PlaceOK /\ ReplyOK /\ DataOK /\ StoreInv /\ ItemInv /\ LookupsAreRight
    BY Zenon DEF RequestInv, TypeOK
  <2> QED
    BY <2>1, TypeNext, StoreNext, ItemNext, LookupNext, Zenon DEF RequestInv
<1> QED
  BY RequestInit, <1>1, PTL DEF Spec

\* The types, and that only a request that counts has the mutex of the count.
THEOREM TypeCorrect == Spec => []TypeOK
<1>1. RequestInv => TypeOK
  BY Zenon DEF RequestInv
<1> QED
  BY RequestAlways, <1>1, PTL

\* getItem, createItem: what a 201 named is found by every later request, and
\* what is found is the committed row that was asked for.
THEOREM LookupsRight == Spec => []LookupsAreRight
<1>1. RequestInv => LookupsAreRight
  BY Zenon DEF RequestInv
<1> QED
  BY RequestAlways, <1>1, PTL

\* Every step of a handler keeps its place, or leaves and gives its token back.
LEMMA StepShape ==
  ASSUME PlaceOK, NEW r \in Requests, Step(r) \/ Panic(r)
  PROVE  /\ r \in Inside /\ limit' = limit
         /\ \/ Inside' = Inside \ {r} /\ inflight' = inflight - 1
            \/ Inside' = Inside /\ inflight' = inflight
<1>1. pc[r] # "idle" /\ limit' = limit
  BY Zenon DEF Step, Panic, Go, Parse, config, Ping, GetItem, ListItems, CreateItem, Stats, CacheGet, DbGet,
         CacheSet, DbList, DbInsert, Publish, CacheInt, CountLock, DbCount
<1> DEFINE Moves == \/ \E code, body : Answer(r, code, body)
                     \/ \E next : next # "idle" /\ Continue(r, next)
<1>2. Moves
  <2>1. ASSUME Ping(r) \/ Panic(r) \/ CacheSet(r) \/ Publish(r) \/ DbCount(r) \/ DbList(r) PROVE Moves
    BY <2>1 DEF Ping, Panic, CacheSet, Publish, DbCount, DbList
  <2>2. ASSUME GetItem(r) \/ ListItems(r) \/ CreateItem(r) PROVE Moves
    BY <2>2 DEF GetItem, ListItems, CreateItem, Refused
  <2>3. ASSUME Stats(r) \/ CacheInt(r) \/ CountLock(r) PROVE Moves
    BY <2>3, Zenon DEF Stats, CacheInt, CountLock
  <2>4. ASSUME CacheGet(r) \/ DbGet(r) \/ DbInsert(r) PROVE Moves
    BY <2>4 DEF CacheGet, DbGet, DbInsert
  <2> HIDE DEF Moves
  <2> QED
    BY <2>1, <2>2, <2>3, <2>4, Zenon DEF Step
<1>3. ASSUME NEW code, NEW body, Answer(r, code, body)
      PROVE  Inside' = Inside \ {r} /\ inflight' = inflight - 1
  BY <1>1, <1>3, Zenon DEF Answer, Inside, PlaceOK
<1>4. ASSUME NEW next, next # "idle", Continue(r, next)
      PROVE  Inside' = Inside /\ inflight' = inflight
  BY <1>1, <1>4, Zenon DEF Continue, Inside, PlaceOK
<1> QED
  BY <1>1, <1>2, <1>3, <1>4, Zenon DEF Inside

\* The semaphore of shed counts exactly the requests inside handlers, and never
\* more than MAX_INFLIGHT.
THEOREM SlotsCounted == Spec => []SlotsExact
<1> DEFINE SlotsInv == SlotsExact /\ IsFiniteSet(Inside) /\ limit \in Nat
<1>1. Init => SlotsInv
  <2> SUFFICES ASSUME Init PROVE SlotsInv
    OBVIOUS
  <2>1. Inside = {} /\ inflight = 0 /\ limit \in Nat
    BY ApiAssumption, Zenon DEF Init, Inside
  <2> QED
    BY <2>1, FS_EmptySet DEF SlotsExact
<1>2. RequestInv /\ SlotsInv /\ [Next]_vars => SlotsInv'
  <2> SUFFICES ASSUME RequestInv, SlotsInv, [Next]_vars PROVE SlotsInv'
    OBVIOUS
  <2>0. PlaceOK /\ inflight \in Nat /\ inflight = Cardinality(Inside) /\ inflight <= limit
    BY FS_CardinalityType, Zenon DEF RequestInv, TypeOK, SlotsExact
  <2>1. ASSUME NEW r \in Requests, NEW o \in Routes, NEW i \in Items, Admit(r, o, i)
        PROVE  SlotsInv'
    <3>1. r \notin Inside /\ Inside' = Inside \cup {r} /\ inflight' = inflight + 1
          /\ inflight < limit /\ limit' = limit
      BY <2>0, <2>1, Zenon DEF Admit, Go, HasRoom, config, Inside, PlaceOK, Routes
    <3>2. IsFiniteSet(Inside') /\ Cardinality(Inside') = Cardinality(Inside) + 1
      BY <3>1, FS_AddElement, Zenon
    <3> QED
      BY <2>0, <3>1, <3>2 DEF SlotsExact
  <2>2. ASSUME NEW r \in Requests, Step(r) \/ Panic(r) PROVE SlotsInv'
    <3>1. IsFiniteSet(Inside \ {r}) /\ (r \in Inside => Cardinality(Inside \ {r}) = Cardinality(Inside) - 1)
      BY FS_RemoveElement, Zenon
    <3> QED
      BY <2>0, <2>2, <3>1, StepShape DEF SlotsExact
  <2>3. CASE UNCHANGED <<pc, inflight, limit>>
    BY <2>3, Zenon DEF SlotsExact, Inside
  <2>4. ASSUME NEW r \in Requests, Shed(r) PROVE SlotsInv'
    BY <2>3, <2>4, Zenon DEF Shed, config
  <2>5. CASE Expire
    BY <2>3, <2>5, Zenon DEF Expire, config
  <2>6. CASE UNCHANGED vars
    BY <2>3, <2>6, Zenon DEF vars
  <2> QED
    BY <2>1, <2>2, <2>4, <2>5, <2>6, Zenon DEF Next
<1>3. SlotsInv => SlotsExact
  OBVIOUS
<1> QED
  BY <1>1, <1>2, <1>3, RequestAlways, PTL DEF Spec
=============================================================================
