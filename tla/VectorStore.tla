----------------------------- MODULE VectorStore -----------------------------
(***************************************************************************)
(* vectors.sqlite and the embedder all projects share                      *)
(* (hoangsa-memory-store/src/vector.rs): metadata filters, upserts and     *)
(* queries that embed before they take the connection, and the model that  *)
(* is loaded at the first use and dropped when it was idle or loaded for   *)
(* too long.  A task holds the model it got, whatever the sweep drops.     *)
(***************************************************************************)
EXTENDS Integers, Sequences, FiniteSets, SequencesExt

CONSTANTS
  VecTasks,    \* tasks of the process
  VecBatches,  \* batches to upsert: [col, ids, meta]
  VecQueries,  \* [col, text, n, filter]
  VecFilters,  \* the conditions they set, and the parts of these
  NearTo,      \* [texts -> [row ids -> distance]]
  IdleAfter, StaleAfter,   \* the sweep's two limits
  NoFilter,
  MaxVecOps, MaxVecTime    \* bounds

ASSUME VecAssumption ==
  /\ 0 \notin VecTasks
  /\ \A b \in VecBatches : b.do = "upsert"
  /\ \A q \in VecQueries : q.do = "query"

VARIABLES
  vecRows,     \* [<<collection, id>> -> [batch, meta]]
  slot,        \* whether the shared slot holds a model
  initLock,    \* the task that holds init_lock, or 0
  lastAccess, loadedAt, vecClock,
  vecTask,     \* [VecTasks -> what the task does]
  lastHits,    \* ghost: the last query, the rows it saw and its answer
  reloaded,    \* ghost: a model was put into a slot that had one
  vecOps

vecVars == <<vecRows, slot, initLock, lastAccess, loadedAt, vecClock, vecTask, lastHits, reloaded, vecOps>>

NoTask == [pc |-> "idle"]
NoHits == [rows |-> {}, hits |-> <<>>, n |-> 0, text |-> ""]

VecInit ==
  /\ vecRows = [x \in {} |-> 0] /\ slot = FALSE /\ initLock = 0
  /\ lastAccess = 0 /\ loadedAt = 0 /\ vecClock = 1
  /\ vecTask = [t \in VecTasks |-> NoTask]
  /\ lastHits = NoHits
  /\ reloaded = FALSE /\ vecOps = 0

(***************************************************************************)
(* Filter: an object with one key $and or $or, or with one condition on    *)
(* each of its fields.  A row without the field is unequal to any value.   *)
(***************************************************************************)

Meets(f, meta) ==
  LET meets[g \in VecFilters] ==
        CASE g.form = "and" -> \A i \in DOMAIN g.subs : meets[g.subs[i]]
          [] g.form = "or"  -> \E i \in DOMAIN g.subs : meets[g.subs[i]]
          [] g.form = "eq"  -> g.field \in DOMAIN meta /\ meta[g.field] = g.value
          [] g.form = "ne"  -> g.field \in DOMAIN meta => meta[g.field] # g.value
          [] g.form = "in"  -> g.field \in DOMAIN meta /\ meta[g.field] \in g.values
  IN  meets[f]

Passes(f, meta) == f = NoFilter \/ Meets(f, meta)
Matching(col, f) == {k \in DOMAIN vecRows : k[1] = col /\ Passes(f, vecRows[k].meta)}

(* the nearest n; no text is no order *)
Nearest(ids, text, n) ==
  LET d(k) == IF text = "" THEN 0 ELSE NearTo[text][k[2]]
      sorted == SetToSortSeq(ids, LAMBDA a, b : d(a) < d(b))
  IN  SubSeq(sorted, 1, IF Len(sorted) < n THEN Len(sorted) ELSE n)

(***************************************************************************)
(* The shared embedder                                                     *)
(***************************************************************************)

To(t, pc) == vecTask' = [vecTask EXCEPT ![t].pc = pc]

(* an empty batch or a limit of 0 is answered at once, an empty text needs *)
(* no model                                                                *)
Ask(t, job) ==
  /\ vecTask[t] = NoTask /\ vecOps < MaxVecOps
  /\ vecOps' = vecOps + 1
  /\ vecTask' = [vecTask EXCEPT ![t] =
       [pc |-> IF job.do = "query" /\ job.text = "" THEN "run" ELSE "get", job |-> job, no |-> vecOps + 1]]
  /\ lastHits' = NoHits
  /\ UNCHANGED <<vecRows, slot, initLock, lastAccess, loadedAt, vecClock, reloaded>>

DeleteByFilter(col, f) ==
  /\ vecOps < MaxVecOps
  /\ vecOps' = vecOps + 1
  /\ vecRows' = [k \in DOMAIN vecRows \ Matching(col, f) |-> vecRows[k]]
  /\ UNCHANGED <<slot, initLock, lastAccess, loadedAt, vecClock, vecTask, lastHits, reloaded>>

(* get_or_init: look, wait for the lock, look again, load *)
GetModel(t) ==
  /\ vecTask[t].pc = "get"
  /\ To(t, IF slot THEN "access" ELSE "lock")
  /\ UNCHANGED <<vecRows, slot, initLock, lastAccess, loadedAt, vecClock, lastHits, reloaded, vecOps>>

LockInit(t) ==
  /\ vecTask[t].pc = "lock" /\ initLock = 0
  /\ IF slot THEN To(t, "access") /\ UNCHANGED initLock
     ELSE To(t, "load") /\ initLock' = t
  /\ UNCHANGED <<vecRows, slot, lastAccess, loadedAt, vecClock, lastHits, reloaded, vecOps>>

(* the new model goes into the slot; its time is noted after that *)
LoadModel(t) ==
  /\ vecTask[t].pc = "load"
  /\ reloaded' = (reloaded \/ slot)
  /\ slot' = TRUE
  /\ To(t, "stamp")
  /\ UNCHANGED <<vecRows, initLock, lastAccess, loadedAt, vecClock, lastHits, vecOps>>

(* no weights, no network: the call fails and nothing is written *)
LoadFails(t) ==
  /\ vecTask[t].pc = "load"
  /\ initLock' = 0
  /\ vecTask' = [vecTask EXCEPT ![t] = NoTask]
  /\ UNCHANGED <<vecRows, slot, lastAccess, loadedAt, vecClock, lastHits, reloaded, vecOps>>

StampLoaded(t) ==
  /\ vecTask[t].pc = "stamp"
  /\ loadedAt' = vecClock /\ initLock' = 0
  /\ To(t, "access")
  /\ UNCHANGED <<vecRows, slot, lastAccess, vecClock, lastHits, reloaded, vecOps>>

Access(t) ==
  /\ vecTask[t].pc = "access"
  /\ lastAccess' = vecClock
  /\ To(t, "run")
  /\ UNCHANGED <<vecRows, slot, initLock, loadedAt, vecClock, lastHits, reloaded, vecOps>>

VecTick ==
  /\ vecClock < MaxVecTime
  /\ vecClock' = vecClock + 1
  /\ UNCHANGED <<vecRows, slot, initLock, lastAccess, loadedAt, vecTask, lastHits, reloaded, vecOps>>

(* drop_slot: both fields under the slot's lock *)
DropSlot ==
  /\ slot
  /\ slot' = FALSE /\ loadedAt' = 0
  /\ UNCHANGED <<vecRows, initLock, lastAccess, vecClock, vecTask, lastHits, reloaded, vecOps>>

EvictIfIdle  == lastAccess <= vecClock - IdleAfter /\ DropSlot
EvictIfStale == loadedAt # 0 /\ loadedAt <= vecClock - StaleAfter /\ DropSlot

(***************************************************************************)
(* The rows                                                                *)
(***************************************************************************)

(* one transaction for the batch *)
UpsertBatch(t) ==
  /\ vecTask[t].pc = "run" /\ vecTask[t].job.do = "upsert"
  /\ LET batch == vecTask[t].job
         keys == {<<batch.col, id>> : id \in batch.ids}
     IN  vecRows' = [k \in DOMAIN vecRows \cup keys |->
                       IF k \in keys THEN [batch |-> vecTask[t].no, meta |-> batch.meta] ELSE vecRows[k]]
  /\ vecTask' = [vecTask EXCEPT ![t] = NoTask]
  /\ UNCHANGED <<slot, initLock, lastAccess, loadedAt, vecClock, lastHits, reloaded, vecOps>>

QueryText(t) ==
  /\ vecTask[t].pc = "run" /\ vecTask[t].job.do = "query"
  /\ LET q == vecTask[t].job
         rows == Matching(q.col, q.filter)
     IN  lastHits' = [rows |-> rows, hits |-> Nearest(rows, q.text, q.n), n |-> q.n, text |-> q.text]
  /\ vecTask' = [vecTask EXCEPT ![t] = NoTask]
  /\ UNCHANGED <<vecRows, slot, initLock, lastAccess, loadedAt, vecClock, reloaded, vecOps>>

VecStep(t) ==
  GetModel(t) \/ LockInit(t) \/ LoadModel(t) \/ LoadFails(t) \/ StampLoaded(t) \/ Access(t) \/ UpsertBatch(t) \/ QueryText(t)

VecNext ==
  \/ VecTick \/ EvictIfIdle \/ EvictIfStale
  \/ \E q \in VecQueries : q.filter # NoFilter /\ DeleteByFilter(q.col, q.filter)
  \/ \E t \in VecTasks : VecStep(t) \/ (\E b \in VecBatches : Ask(t, b)) \/ (\E q \in VecQueries : Ask(t, q))

(***************************************************************************)
(* Properties                                                              *)
(***************************************************************************)

(* However many tasks find the slot empty, one of them loads: a model is   *)
(* never put into a slot that has one, and no two loads run at once.       *)
OneLoad ==
  /\ ~reloaded
  /\ Cardinality({t \in VecTasks : vecTask[t].pc \in {"load", "stamp"}}) <= 1

(* The sweep can see how old the loaded model is, however its eviction and *)
(* a load crossed, unless its loader has still to note it.                 *)
AgeKnown == slot /\ initLock = 0 => loadedAt # 0

(* The rows of one batch come and go together, though two tasks write them *)
(* at once: none is left from an older batch of the same ids.              *)
BatchWhole ==
  \A b \in VecBatches :
    LET there == {<<b.col, id>> : id \in b.ids} \cap DOMAIN vecRows
    IN  /\ there = {} \/ there = {<<b.col, id>> : id \in b.ids}
        /\ \A x, y \in there : vecRows[x].batch = vecRows[y].batch

(* A query gives the nearest of the rows that match, as many as there are  *)
(* up to its limit.                                                        *)
NearestFirst ==
  LET d(k) == IF lastHits.text = "" THEN 0 ELSE NearTo[lastHits.text][k[2]]
      got == Range(lastHits.hits)
  IN  /\ got \subseteq lastHits.rows
      /\ Len(lastHits.hits) = IF Cardinality(lastHits.rows) < lastHits.n THEN Cardinality(lastHits.rows) ELSE lastHits.n
      /\ \A i, j \in DOMAIN lastHits.hits : i < j => d(lastHits.hits[i]) <= d(lastHits.hits[j])
      /\ \A x \in got, y \in lastHits.rows \ got : d(x) <= d(y)

(* One model at a time, of the age the sweep believes; a batch is visible in *)
(* full or not at all; a query answers with the nearest rows it may.        *)
VectorsHonest == OneLoad /\ AgeKnown /\ BatchWhole /\ NearestFirst
==============================================================================
