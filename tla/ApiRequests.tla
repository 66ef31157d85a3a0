---------------------------- MODULE ApiRequests -----------------------------
(***************************************************************************)
(* The request path of one API pod: the recoverer, the admission           *)
(* controller (shed) and the item and stats handlers over PostgreSQL and   *)
(* Redis.  A handler is one step per call it makes; each call may fail     *)
(* (an outage, a timeout, a client that has hung up).  Items are only ever *)
(* inserted, so an item stands for its row and for the row's bytes.        *)
(* publishEvent is in module EventProducer, readyz in ReadinessProbe.      *)
(***************************************************************************)
EXTENDS Naturals, FiniteSets

CONSTANTS
  Requests,     \* connections, one request at a time each
  Items,        \* ids the sequence of the items table can give
  Slots,        \* values of cfg.MaxInflight
  None

ASSUME ApiAssumption ==
  /\ Slots \subseteq Nat \ {0}
  /\ None \notin Items /\ None \notin Requests

VARIABLES
  deps,      \* the dependencies this pod was configured with
  limit,     \* its MAX_INFLIGHT
  pc,        \* the handler a request enters, its next call, or "idle"
  item,      \* the id asked for, found or inserted
  reply,     \* status code and item of the last answer
  inflight,  \* tokens in the semaphore
  countMu,   \* holder of the mutex of the memoised count
  counted,   \* the count is memoised and less than five seconds old
  rows,      \* PostgreSQL: the items table
  cache,     \* Redis: the value under each item's key
  known,     \* ghost: items acknowledged before the request began
  acked      \* ghost: items some 201 has named

vars == <<deps, limit, pc, item, reply, inflight, countMu, counted, rows, cache,
          known, acked>>
config == <<deps, limit>>
db == <<rows, cache>>
ghosts == <<known, acked>>

Routes == {"ping", "get", "list", "create", "stats"}
NoReply == [code |-> 0, body |-> None]
Inside == {r \in Requests : pc[r] # "idle"}

Init ==
  /\ deps \in SUBSET {"store", "cache", "bus"} /\ limit \in Slots
  /\ pc = [r \in Requests |-> "idle"]
  /\ item = [r \in Requests |-> None]
  /\ reply = [r \in Requests |-> NoReply]
  /\ inflight = 0 /\ countMu = None /\ counted = FALSE
  /\ rows = {} /\ cache = [i \in Items |-> None]
  /\ known = [r \in Requests |-> {}]
  /\ acked = {}

\* The handler returns: the answer goes out and the deferred calls run.
Answer(r, code, body) ==
  /\ reply' = [reply EXCEPT ![r] = [code |-> code, body |-> body]]
  /\ pc' = [pc EXCEPT ![r] = "idle"]
  /\ inflight' = inflight - 1

Continue(r, next) ==
  /\ pc' = [pc EXCEPT ![r] = next]
  /\ UNCHANGED <<reply, inflight>>

Go(r, step) == pc[r] = step

\* shed's select: is there room in the channel?
HasRoom ==
  inflight < limit

\* A request comes; shed admits it or answers 503 at once.
Admit(r, o, i) ==
  /\ Go(r, "idle") /\ HasRoom
  /\ inflight' = inflight + 1
  /\ pc' = [pc EXCEPT ![r] = o]
  /\ item' = [item EXCEPT ![r] = IF o = "get" THEN i ELSE None]
  /\ reply' = [reply EXCEPT ![r] = NoReply]
  /\ known' = [known EXCEPT ![r] = IF o = "get" THEN acked ELSE {}]
  /\ UNCHANGED <<config, countMu, counted, db, acked>>

Shed(r) ==
  /\ Go(r, "idle") /\ ~HasRoom
  /\ reply' = [reply EXCEPT ![r] = [code |-> 503, body |-> None]]
  /\ item' = [item EXCEPT ![r] = None]
  /\ UNCHANGED <<config, pc, inflight, countMu, counted, db, ghosts>>

\* The handlers up to their first call.
Parse(r, route) ==
  /\ Go(r, route)
  /\ UNCHANGED <<config, item, countMu, counted, db, ghosts>>

Ping(r) == Parse(r, "ping") /\ Answer(r, 200, None)

\* Without a database 503; what does not validate is answered 400.
Refused(r) == Answer(r, IF "store" \in deps THEN 400 ELSE 503, None)

GetItem(r) ==
  /\ Parse(r, "get")
  /\ \/ Refused(r)
     \/ /\ "store" \in deps
        /\ Continue(r, IF "cache" \in deps THEN "cacheGet" ELSE "dbGet")

ListItems(r) ==
  /\ Parse(r, "list")
  /\ Refused(r) \/ ("store" \in deps /\ Continue(r, "dbList"))

CreateItem(r) ==
  /\ Parse(r, "create")
  /\ Refused(r) \/ ("store" \in deps /\ Continue(r, "dbInsert"))

Stats(r) ==
  /\ Parse(r, "stats")
  /\ \/ "cache" \in deps /\ Continue(r, "cacheInt")
     \/ "cache" \notin deps /\ "store" \in deps /\ Continue(r, "countLock")
     \/ deps \cap {"store", "cache"} = {} /\ Answer(r, 200, None)

\* getItem: a hit is the answer; a miss and an error go to the database.
CacheGet(r) ==
  /\ Go(r, "cacheGet")
  /\ \/ cache[item[r]] # None /\ Answer(r, 200, cache[item[r]])
     \/ Continue(r, "dbGet")
  /\ UNCHANGED <<config, item, countMu, counted, db, ghosts>>

\* getItem: the row is put in Redis and returned; no such row is a 404.
DbGet(r) ==
  /\ Go(r, "dbGet")
  /\ \/ /\ item[r] \notin rows
        /\ Answer(r, 404, None)
     \/ /\ item[r] \in rows
        /\ IF "cache" \in deps THEN Continue(r, "cacheSet")
                                   ELSE Answer(r, 200, item[r])
     \/ Answer(r, 500, None)
  /\ UNCHANGED <<config, item, countMu, counted, db, ghosts>>

\* One key for all items.
CacheSetOneKey(r) ==
  /\ Go(r, "cacheSet")
  /\ \/ cache' = [i \in Items |-> item[r]]
     \/ UNCHANGED cache
  /\ Answer(r, 200, item[r])
  /\ UNCHANGED <<config, item, countMu, counted, rows, ghosts>>

\* getItem: Redis is populated, or not; the item read is the answer.
CacheSet(r) ==
  /\ Go(r, "cacheSet")
  /\ \/ cache' = [cache EXCEPT ![item[r]] = item[r]]
     \/ UNCHANGED cache
  /\ Answer(r, 200, item[r])
  /\ UNCHANGED <<config, item, countMu, counted, rows, ghosts>>

\* listItems.
DbList(r) ==
  /\ Go(r, "dbList")
  /\ \/ Answer(r, 200, None)
     \/ Answer(r, 500, None)
  /\ UNCHANGED <<config, item, countMu, counted, db, ghosts>>

\* createItem: the row is inserted under a new id; an error may also come
\* back for a row that was committed.
DbInsert(r) ==
  /\ Go(r, "dbInsert")
  /\ \/ /\ \E i \in Items \ rows :
             rows' = rows \cup {i} /\ item' = [item EXCEPT ![r] = i]
        /\ IF "bus" \in deps
           THEN Continue(r, "publish") /\ UNCHANGED acked
           ELSE Answer(r, 201, item'[r]) /\ acked' = acked \cup {item'[r]}
     \/ /\ \/ UNCHANGED rows
           \/ \E i \in Items \ rows : rows' = rows \cup {i}
        /\ Answer(r, 500, None)
        /\ UNCHANGED <<item, acked>>
  /\ UNCHANGED <<config, countMu, counted, cache, known>>

\* createItem: item.created is published at best effort.
Publish(r) ==
  /\ Go(r, "publish")
  /\ Answer(r, 201, item[r])
  /\ acked' = acked \cup {item[r]}
  /\ UNCHANGED <<config, item, countMu, counted, db, known>>

\* stats: the counter in Redis is left out of the answer when it fails.
CacheInt(r) ==
  /\ Go(r, "cacheInt")
  /\ IF "store" \in deps THEN Continue(r, "countLock")
                             ELSE Answer(r, 200, None)
  /\ UNCHANGED <<config, item, countMu, counted, db, ghosts>>

\* itemCount: with the mutex, a fresh count is the answer.
CountLock(r) ==
  /\ Go(r, "countLock") /\ countMu = None
  /\ \/ counted /\ Answer(r, 200, None) /\ UNCHANGED countMu
     \/ ~counted /\ Continue(r, "dbCount") /\ countMu' = r
  /\ UNCHANGED <<config, item, counted, db, ghosts>>

\* An error returns before the unlock.
DbCountLocked(r) ==
  /\ Go(r, "dbCount")
  /\ \/ counted' = TRUE /\ countMu' = None
     \/ UNCHANGED <<counted, countMu>>
  /\ Answer(r, 200, None)
  /\ UNCHANGED <<config, item, db, ghosts>>

\* itemCount: a count is kept, an error is not and leaves the count out.
DbCount(r) ==
  /\ Go(r, "dbCount")
  /\ \/ counted' = TRUE
     \/ UNCHANGED counted
  /\ countMu' = None
  /\ Answer(r, 200, None)
  /\ UNCHANGED <<config, item, db, ghosts>>

\* The token is returned after the handler, not in a deferred call.
PanicKeepsSlot(r) ==
  /\ pc[r] # "idle"
  /\ reply' = [reply EXCEPT ![r] = [code |-> 500, body |-> None]]
  /\ pc' = [pc EXCEPT ![r] = "idle"]
  /\ countMu' = IF countMu = r THEN None ELSE countMu
  /\ UNCHANGED <<config, item, inflight, counted, db, ghosts>>

\* The handler panics: deferred calls return the token and the mutex, and the
\* recoverer answers 500 (or lets net/http abort the connection).
Panic(r) ==
  /\ pc[r] # "idle"
  /\ Answer(r, 500, None)
  /\ countMu' = IF countMu = r THEN None ELSE countMu
  /\ UNCHANGED <<config, item, counted, db, ghosts>>

\* Time passes: an entry's TTL, the five seconds of the count.
Expire ==
  \/ /\ \E i \in Items : cache[i] # None /\ cache' = [cache EXCEPT ![i] = None]
     /\ UNCHANGED <<config, pc, item, reply, inflight, countMu, counted, rows, ghosts>>
  \/ /\ counted /\ counted' = FALSE
     /\ UNCHANGED <<config, pc, item, reply, inflight, countMu, db, ghosts>>

Step(r) ==
  \/ Ping(r) \/ GetItem(r) \/ ListItems(r) \/ CreateItem(r) \/ Stats(r)
  \/ CacheGet(r) \/ DbGet(r) \/ CacheSet(r) \/ DbList(r)
  \/ DbInsert(r) \/ Publish(r) \/ CacheInt(r) \/ CountLock(r) \/ DbCount(r)

Next ==
  \/ \E r \in Requests :
       \/ \E o \in Routes, i \in Items : Admit(r, o, i)
       \/ Shed(r) \/ Step(r) \/ Panic(r)
  \/ Expire

Spec == Init /\ [][Next]_vars

\* A handler runs on: Redis calls time out, database calls end at the latest
\* when the client hangs up, and a mutex is handed to everybody who waits.
Fairness == \A r \in Requests : WF_vars(Step(r)) /\ SF_vars(CountLock(r))

FairSpec == Spec /\ Fairness
-----------------------------------------------------------------------------
(* Properties.                                                             *)

\* Where the requests are; only one that counts holds the mutex of the count.
PlaceOK ==
  /\ pc \in [Requests -> Routes \cup
               {"idle", "cacheGet", "dbGet", "cacheSet", "dbList", "dbInsert",
                "publish", "cacheInt", "countLock", "dbCount"}]
  /\ countMu \in Requests \cup {None}
  /\ \A r \in Requests : pc[r] = "dbCount" <=> countMu = r
\* What was answered.
ReplyOK ==
  reply \in [Requests -> [code : {0, 200, 201, 400, 404, 500, 503},
                          body : Items \cup {None}]]
\* The configuration and the data.
DataOK ==
  /\ deps \subseteq {"store", "cache", "bus"} /\ limit \in Slots
  /\ item \in [Requests -> Items \cup {None}]
  /\ rows \subseteq Items /\ cache \in [Items -> Items \cup {None}]
  /\ known \in [Requests -> SUBSET Items] /\ acked \subseteq Items

\* The types; only a request that counts holds the mutex of the count.
TypeOK == PlaceOK /\ ReplyOK /\ DataOK /\ counted \in BOOLEAN

\* shed: the tokens are exactly the requests inside a handler, never more
\* than MAX_INFLIGHT, whether handlers return, fail or panic.  A leak would
\* shed requests for good.
SlotsExact == inflight = Cardinality(Inside) /\ inflight <= limit

\* createItem, then getItem: an item that a 201 named is never "not found" to a
\* request that starts later, and what is found, in Redis or in PostgreSQL, is
\* the committed row that was asked for.
LookupsAreRight ==
  \A r \in Requests : item[r] # None =>
    /\ reply[r].code = 404 => item[r] \notin known[r]
    /\ reply[r].code = 200 => reply[r].body = item[r] /\ item[r] \in rows

\* Every admitted request is answered, also behind the mutex of the count.
RequestsEnd == \A r \in Requests : []<>(pc[r] = "idle")
=============================================================================
