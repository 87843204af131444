----------------------------- MODULE Bootstrap -----------------------------
(***************************************************************************)
(* The one-shot bootstrap of a project: every SessionStart decides whether *)
(* to spawn a worker, the worker indexes, ingests and seeds, and leaves a  *)
(* sentinel.  Nothing but bootstrap.state keeps two workers apart; it is   *)
(* renamed over, and taken for a crashed worker's after 30 minutes.        *)
(***************************************************************************)
EXTENDS Naturals, FiniteSets

CONSTANTS
  BootWorkers,   \* the workers a behaviour may spawn
  NoBoot,        \* bootstrap.state does not exist
  MaxBootFails   \* bound: workers killed and indexings that fail

VARIABLES
  optOut,     \* the project, the environment or the config opts out
  binary,     \* hoangsa-memory is installed
  sentinel,   \* .bootstrap-done exists
  boot,       \* NoBoot or [phase, by], bootstrap.state
  stale,      \* boot was last written 30 minutes ago or more
  worker,     \* per worker: "unborn", "born", "forced", a phase, or "gone"
  started,    \* ghost: has a SessionStart decided yet
  indexed,    \* ghost: an indexing of the whole project succeeded
  bootFails

bootVars == <<optOut, binary, sentinel, boot, stale, worker, started, indexed, bootFails>>

Phases == {"indexing", "ingesting", "seeding"}
Terminal == {"done", "error"}
Alive(w) == worker[w] \notin {"unborn", "gone"}

(* Variant: a state that is not terminal belongs to a living worker. *)
EverActive == boot # NoBoot /\ boot.phase \notin Terminal

StateIsActive == boot # NoBoot /\ boot.phase \notin Terminal /\ ~ stale

ShouldBootstrap == ~ optOut /\ ~ sentinel /\ ~ StateIsActive

BootInit ==
  /\ optOut \in BOOLEAN /\ binary \in BOOLEAN
  /\ sentinel = FALSE /\ boot = NoBoot /\ stale = FALSE
  /\ worker = [w \in BootWorkers |-> "unborn"]
  /\ started = FALSE /\ indexed = FALSE /\ bootFails = 0

Write(w, phase) == boot' = [phase |-> phase, by |-> w] /\ stale' = FALSE
Becomes(w, at) == worker' = [worker EXCEPT ![w] = at]
Same == UNCHANGED <<optOut, binary>>

\* cmd_session_start: the hook answers at once, the worker is detached.
SessionStart ==
  /\ started' = TRUE
  /\ IF ShouldBootstrap
     THEN \E w \in BootWorkers : worker[w] = "unborn" /\ Becomes(w, "born")
     ELSE UNCHANGED worker
  /\ UNCHANGED <<sentinel, boot, stale, indexed, bootFails>> /\ Same

\* The user runs it by hand, with --force against the opt-out and the sentinel.
ByHand ==
  /\ \E w \in BootWorkers, force \in BOOLEAN :
       worker[w] = "unborn" /\ Becomes(w, IF force THEN "forced" ELSE "born")
  /\ UNCHANGED <<sentinel, boot, stale, started, indexed, bootFails>> /\ Same

\* cmd_bootstrap asks again for everything but the state; without a binary the
\* worker ends before it wrote anything.
WorkerStart(w) ==
  /\ worker[w] \in {"born", "forced"}
  /\ IF ~ binary \/ ((optOut \/ sentinel) /\ worker[w] = "born")
     THEN Becomes(w, "gone") /\ UNCHANGED <<boot, stale>>
     ELSE Becomes(w, "indexing") /\ Write(w, "indexing")
  /\ UNCHANGED <<sentinel, started, indexed, bootFails>> /\ Same

Index(w) ==
  /\ worker[w] = "indexing"
  /\ \/ Becomes(w, "ingesting") /\ Write(w, "ingesting") /\ indexed' = TRUE /\ UNCHANGED bootFails
     \/ /\ bootFails < MaxBootFails /\ bootFails' = bootFails + 1
        /\ Becomes(w, "gone") /\ Write(w, "error") /\ UNCHANGED indexed
  /\ UNCHANGED <<sentinel, started>> /\ Same

\* What archive ingest and init answer is logged and not looked at.
Ingest(w) ==
  /\ worker[w] = "ingesting" /\ Becomes(w, "seeding") /\ Write(w, "seeding")
  /\ UNCHANGED <<sentinel, started, indexed, bootFails>> /\ Same

LeaveSentinel(w) ==
  /\ worker[w] = "seeding" /\ Becomes(w, "done") /\ sentinel' = TRUE
  /\ UNCHANGED <<boot, stale, started, indexed, bootFails>> /\ Same

WorkerDone(w) ==
  /\ worker[w] = "done" /\ Becomes(w, "gone") /\ Write(w, "done")
  /\ UNCHANGED <<sentinel, started, indexed, bootFails>> /\ Same

WorkerKilled(w) ==
  /\ Alive(w) /\ bootFails < MaxBootFails /\ bootFails' = bootFails + 1
  /\ Becomes(w, "gone")
  /\ UNCHANGED <<sentinel, boot, stale, started, indexed>> /\ Same

\* Half an hour goes by; an indexing may take longer than that.
HalfHour ==
  /\ boot # NoBoot /\ ~ stale /\ stale' = TRUE
  /\ UNCHANGED <<sentinel, boot, worker, started, indexed, bootFails>> /\ Same

BootNext ==
  \/ SessionStart \/ ByHand \/ HalfHour
  \/ \E w \in BootWorkers :
       \/ WorkerStart(w) \/ Index(w) \/ Ingest(w) \/ LeaveSentinel(w)
       \/ WorkerDone(w) \/ WorkerKilled(w)
-----------------------------------------------------------------------------
(* The sentinel says that the project was indexed and seeded: no worker     *)
(* that failed or died leaves it, whatever another one wrote meanwhile.     *)
SentinelHonest == sentinel => indexed

(* As long as sessions go on being opened, a project that does not opt out *)
(* and has the binary is bootstrapped in the end, whatever workers died.   *)
Bootstrapped == []<>(~ optOut /\ binary => sentinel)
=============================================================================
