----------------------------- MODULE EdgeTables -----------------------------
(***************************************************************************)
(* The graph's tables of graph.redb (hoangsa-memory-store/src/kv.rs):      *)
(* nodes, the edges by their source and the reverse index by their         *)
(* destination.  A write transaction is atomic and durable, and each batch *)
(* is one.  A purge reads what it is to delete in a transaction of its     *)
(* own.  A database of an earlier release has no reverse index; it is      *)
(* filled once, when the store is opened.                                  *)
(***************************************************************************)
EXTENDS Naturals, FiniteSets

CONSTANTS
  GraphFiles,    \* files
  Symbols,       \* [GraphFiles -> set of node ids]
  Batches,       \* batches of edges an indexing writes: sets of <<src, kind, dst>>
  Purgers,       \* tasks that purge
  MaxGraphOps    \* bound: writes, purges and restarts

(* An edge is a source, a kind and a destination.                          *)
ASSUME KvAssumption == \A b \in Batches : \A e \in b : e = <<e[1], e[2], e[3]>>

Flip(e) == <<e[3], e[2], e[1]>>

VARIABLES
  kvNodes,     \* [id -> path]
  forward,     \* keys of `edges`
  reverse,     \* keys of `edges_by_dst`
  backfilled,  \* the flag in `meta`
  kvOpen,      \* a process has the database
  purger,      \* [Purgers -> what the purge does]
  graphOps

kvVars == <<kvNodes, forward, reverse, backfilled, kvOpen, purger, graphOps>>

NoPurge == [pc |-> "idle", ids |-> {}, keys |-> {}]
Counted == graphOps < MaxGraphOps /\ graphOps' = graphOps + 1

KvInit ==
  /\ forward \in {{}} \cup Batches /\ reverse = {}
  /\ kvNodes = [x \in {} |-> "none"]
  /\ backfilled = FALSE /\ kvOpen = FALSE
  /\ purger = [t \in Purgers |-> NoPurge]
  /\ graphOps = 0

(* KvStore::open: one transaction *)
OpenKv ==
  /\ ~kvOpen
  /\ kvOpen' = TRUE /\ backfilled' = TRUE
  /\ reverse' = IF backfilled THEN reverse ELSE reverse \cup {Flip(e) : e \in forward}
  /\ UNCHANGED <<kvNodes, forward, purger, graphOps>>

CloseKv ==
  /\ kvOpen /\ Counted
  /\ kvOpen' = FALSE
  /\ purger' = [t \in Purgers |-> NoPurge]
  /\ UNCHANGED <<kvNodes, forward, reverse, backfilled>>

PutNodesBatch(f) ==
  /\ kvOpen /\ Counted
  /\ kvNodes' = [x \in DOMAIN kvNodes \cup Symbols[f] |-> IF x \in Symbols[f] THEN f ELSE kvNodes[x]]
  /\ UNCHANGED <<forward, reverse, backfilled, kvOpen, purger>>

PutEdgesBatch(b) ==
  /\ kvOpen /\ Counted
  /\ forward' = forward \cup b
  /\ reverse' = reverse \cup {Flip(e) : e \in b}
  /\ UNCHANGED <<kvNodes, backfilled, kvOpen, purger>>

(***************************************************************************)
(* Graph::purge_path: the nodes of the file, then the edges at them; each  *)
(* reads first and deletes in a second transaction.                        *)
(***************************************************************************)

ReadNodes(t, f) ==
  /\ kvOpen /\ purger[t] = NoPurge /\ Counted
  /\ purger' = [purger EXCEPT ![t] = [pc |-> "nodes", ids |-> {x \in DOMAIN kvNodes : kvNodes[x] = f}, keys |-> {}]]
  /\ UNCHANGED <<kvNodes, forward, reverse, backfilled, kvOpen>>

DeleteNodes(t) ==
  /\ purger[t].pc = "nodes"
  /\ kvNodes' = [x \in DOMAIN kvNodes \ purger[t].ids |-> kvNodes[x]]
  /\ purger' = [purger EXCEPT ![t].pc = "edges"]
  /\ UNCHANGED <<forward, reverse, backfilled, kvOpen, graphOps>>

ReadEdges(t) ==
  /\ purger[t].pc = "edges"
  /\ purger' = [purger EXCEPT ![t].pc = "delete",
                  ![t].keys = {e \in forward : e[1] \in purger[t].ids \/ e[3] \in purger[t].ids}]
  /\ UNCHANGED <<kvNodes, forward, reverse, backfilled, kvOpen, graphOps>>

DeleteEdges(t) ==
  /\ purger[t].pc = "delete"
  /\ forward' = forward \ purger[t].keys
  /\ reverse' = reverse \ {Flip(e) : e \in purger[t].keys}
  /\ purger' = [purger EXCEPT ![t] = NoPurge]
  /\ UNCHANGED <<kvNodes, backfilled, kvOpen, graphOps>>

KvNext ==
  \/ OpenKv \/ CloseKv
  \/ \E f \in GraphFiles : PutNodesBatch(f)
  \/ \E b \in Batches : PutEdgesBatch(b)
  \/ \E t \in Purgers : (\E f \in GraphFiles : ReadNodes(t, f)) \/ DeleteNodes(t) \/ ReadEdges(t) \/ DeleteEdges(t)

(***************************************************************************)
(* Properties                                                              *)
(***************************************************************************)

(* "The two indexes can never disagree on whether an edge exists": callers *)
(* and callees are two views of one set of edges, also after an upgrade    *)
(* and whatever two purges and an indexing do to the same edges at once.   *)
EdgesInStep == kvOpen => reverse = {Flip(e) : e \in forward}
=============================================================================
