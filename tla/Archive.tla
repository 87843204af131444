------------------------------- MODULE Archive -------------------------------
(***************************************************************************)
(* The conversation archive: transcripts on disk, the tracker of what was  *)
(* ingested (hoangsa-memory-store/src/archive.rs) and the chunks in the    *)
(* vector collection, written by run_ingest of                             *)
(* hoangsa-memory-retrieve/src/archive.rs from the daemon and from the     *)
(* command line, trimmed by its retention cap and by `archive purge`, and  *)
(* triggered by the PreCompact and SessionEnd hooks.                       *)
(*                                                                         *)
(* A transcript only grows: its content is the number of times it was      *)
(* written.  ChunksOf[s][v] are the chunks of version v of session s, the  *)
(* value Transcript computes.  A process may be killed between any two of  *)
(* its steps.                                                              *)
(***************************************************************************)
EXTENDS Integers, Sequences, FiniteSets, SequencesExt

CONSTANTS
  Transcripts,  \* session ids, numbered in the order an ingest takes them
  ChunksOf,     \* [Transcripts -> [1..LastVersion -> Seq(text)]]
  LastVersion,
  BatchSize,    \* BATCH_SIZE
  MaxSessions,  \* MAX_ARCHIVE_SESSIONS
  FirstLimit,   \* INITIAL_INGEST_LIMIT
  Writers,      \* processes that may ingest: the daemon's tasks and the detached commands
  Daemons,      \* whether a daemon answers on the socket: the cases to consider
  Overlap,      \* whether a writer may start while another is at work
  MaxMishaps    \* bound: kills, failed vector calls and refusals of a behaviour

(* Sessions and writers are numbered.  A transcript is appended to, and the *)
(* longer one is cut into at least as many chunks.                          *)
ASSUME ArchiveAssumption ==
  /\ Transcripts \subseteq Nat \ {0} /\ Writers \subseteq Nat \ {0}
  /\ LastVersion \in Nat /\ MaxSessions \in Nat /\ BatchSize \in Nat \ {0} /\ FirstLimit \in Nat
  /\ Daemons \subseteq BOOLEAN
  /\ \A s \in Transcripts, v \in 1..LastVersion : /\ DOMAIN ChunksOf[s][v] = 1..Len(ChunksOf[s][v])
                                                     /\ Len(ChunksOf[s][v]) \in Nat
  /\ \A s \in Transcripts, v, u \in 1..LastVersion : v <= u => Len(ChunksOf[s][v]) <= Len(ChunksOf[s][u])

VARIABLES
  version,   \* what is on disk: 0 is no transcript yet
  recent,    \* the transcripts, last modified first
  tracker,   \* rows of archive_sessions: what was recorded at the last ingest
  rows,      \* the rows' ids, first ingested first
  vectors,   \* the collection: [chunk id -> text]; an id is a session and an index
  writer,    \* [Writers -> what the ingest is doing]
  flock,     \* the writer that holds archive-ingest.lock, or 0
  purge,     \* the sessions whose vectors a purge has still to remove
  stamped,   \* archive-ingest.last is younger than the cooldown
  hook,      \* a hook's dispatch: 0, or the writer whose reply it waits for
  daemonUp,  \* whether a daemon answers
  mishaps

archiveVars == <<version, recent, tracker, rows, vectors, writer, flock, purge, stamped, hook, daemonUp, mishaps>>

Tracked == DOMAIN tracker
Ids(s) == {id \in DOMAIN vectors : id[1] = s}
AtWork(pc, refresh, todo) == [pc |-> pc, refresh |-> refresh, todo |-> todo, hash |-> 0, chunks |-> <<>>, done |-> 0]
Idle == AtWork("idle", FALSE, {})
Working == {w \in Writers : writer[w].pc # "idle"}
Lowest(S) == CHOOSE x \in S : \A y \in S : x <= y
Without(f, S) == [x \in DOMAIN f \ S |-> f[x]]

(* a list that holds nothing twice, and one without x *)
OnceEach(q) == \A i, j \in DOMAIN q : q[i] = q[j] => i = j
Strike(q, x) ==
  LET n == CHOOSE i \in DOMAIN q : q[i] = x
  IN  IF x \in Range(q) THEN [i \in 1..(Len(q) - 1) |-> IF i < n THEN q[i] ELSE q[i + 1]] ELSE q

(* ChunksOf's text at each chunk id *)
Embedding(s, chunks, from, to) == [id \in {<<s, i>> : i \in from..to} |-> chunks[id[2]]]
Over(f, g) == [x \in DOMAIN f \cup DOMAIN g |-> IF x \in DOMAIN g THEN g[x] ELSE f[x]]

(* The tracker has one row for each session it knows, `recent` lists those  *)
(* that were written, and both locks name a writer or nobody.               *)
ArchiveTypeOK ==
  /\ version \in [Transcripts -> 0..LastVersion]
  /\ OnceEach(recent) /\ Range(recent) = {s \in Transcripts : version[s] > 0}
  /\ OnceEach(rows) /\ Range(rows) = Tracked
  /\ flock \in Writers \cup {0} /\ hook \in Writers \cup {0}
  /\ purge \subseteq Transcripts

ArchiveInit ==
  /\ version = [s \in Transcripts |-> 0] /\ recent = <<>>
  /\ tracker = <<>> /\ rows = <<>> /\ vectors = <<>>
  /\ writer = [w \in Writers |-> Idle] /\ flock = 0 /\ purge = {}
  /\ stamped = FALSE /\ hook = 0 /\ mishaps = 0 /\ daemonUp \in Daemons

(***************************************************************************)
(* The world: conversations grow, the cooldown passes.                     *)
(***************************************************************************)

Grow(s) ==
  /\ version[s] < LastVersion
  /\ version' = [version EXCEPT ![s] = @ + 1]
  /\ recent' = <<s>> \o Strike(recent, s)
  /\ UNCHANGED <<tracker, rows, vectors, writer, flock, purge, stamped, hook, mishaps, daemonUp>>

CooldownPasses ==
  /\ stamped
  /\ stamped' = FALSE
  /\ UNCHANGED <<version, recent, tracker, rows, vectors, writer, flock, purge, hook, mishaps, daemonUp>>

(***************************************************************************)
(* The hooks: spawn_archive_ingest                                         *)
(***************************************************************************)

MayStart == Overlap \/ (Working = {} /\ purge = {})
Started(w, pc, refresh) == writer' = [writer EXCEPT ![w] = AtWork(pc, refresh, {})]

(* A hook past its cooldown asks the daemon, and waits two seconds for its *)
(* reply, which comes when the ingest has ended.                           *)
HookForwards(w) ==
  /\ ~stamped /\ hook = 0 /\ daemonUp /\ MayStart /\ writer[w] = Idle
  /\ Started(w, "list", TRUE)
  /\ hook' = w
  /\ UNCHANGED <<version, recent, tracker, rows, vectors, flock, purge, stamped, mishaps, daemonUp>>

(* Any reply counts as dispatched, an error too: the daemon that has no    *)
(* vector store refuses and nothing is ingested.                           *)
DaemonRefuses ==
  /\ ~stamped /\ hook = 0 /\ daemonUp /\ mishaps < MaxMishaps
  /\ mishaps' = mishaps + 1
  /\ stamped' = TRUE
  /\ UNCHANGED <<version, recent, tracker, rows, vectors, writer, flock, purge, hook, daemonUp>>

DaemonReplies ==
  /\ hook # 0 /\ writer[hook] = Idle
  /\ hook' = 0 /\ stamped' = TRUE
  /\ UNCHANGED <<version, recent, tracker, rows, vectors, writer, flock, purge, mishaps, daemonUp>>

(* The daemon has not answered in time: a detached command is started too. *)
(* No daemon: the command is all there is.                                 *)
SpawnDetached(w) ==
  /\ writer[w] = Idle
  /\ \/ hook # 0 /\ Overlap /\ writer[hook] # Idle
     \/ hook = 0 /\ ~daemonUp /\ ~stamped /\ MayStart
  /\ Started(w, "lock", TRUE)
  /\ hook' = 0 /\ stamped' = TRUE
  /\ UNCHANGED <<version, recent, tracker, rows, vectors, flock, purge, mishaps, daemonUp>>

(* `archive ingest` by hand, which leaves tracked sessions alone *)
IngestByHand(w) ==
  /\ writer[w] = Idle /\ hook # w /\ MayStart
  /\ Started(w, "lock", FALSE)
  /\ UNCHANGED <<version, recent, tracker, rows, vectors, flock, purge, stamped, hook, mishaps, daemonUp>>

(***************************************************************************)
(* cmd_archive_ingest's lock: only the commands take it.                   *)
(***************************************************************************)

Lock(w) ==
  /\ writer[w].pc = "lock"
  /\ IF flock = 0
     THEN flock' = w /\ Started(w, "list", writer[w].refresh)
     ELSE writer' = [writer EXCEPT ![w] = Idle] /\ UNCHANGED flock   \* waited in vain: skipped
  /\ UNCHANGED <<version, recent, tracker, rows, vectors, purge, stamped, hook, mishaps, daemonUp>>

(***************************************************************************)
(* run_ingest                                                              *)
(***************************************************************************)

(* Variant: the lock is the file, and it stays *)
LockStays(w) == writer' = [writer EXCEPT ![w] = Idle] /\ UNCHANGED flock

Ends(w) == /\ writer' = [writer EXCEPT ![w] = Idle]
           /\ flock' = IF flock = w THEN 0 ELSE flock

Goes(w, pc) == writer' = [writer EXCEPT ![w].pc = pc]
Takes(w, todo) == writer' = [writer EXCEPT ![w] = AtWork("next", writer[w].refresh, todo)]

(* an empty tracker takes the most recently modified transcripts only *)
List(w) ==
  /\ writer[w].pc = "list"
  /\ LET n == Len(recent)
         limit == IF Tracked = {} /\ FirstLimit < n THEN FirstLimit ELSE n
     IN  Takes(w, {recent[i] : i \in 1..limit})
  /\ UNCHANGED <<version, recent, tracker, rows, vectors, flock, purge, stamped, hook, mishaps, daemonUp>>

(* the session that is next in name order *)
Current(w) == Lowest(writer[w].todo)
Rest(w) == writer[w].todo \ {Current(w)}

UpToDate(s) == s \in Tracked /\ tracker[s] = version[s]

(* A session that is tracked is skipped unless this is a refresh, and one  *)
(* whose bytes are those of the last ingest always is.                     *)
Next1(w) ==
  /\ writer[w].pc = "next" /\ writer[w].todo # {}
  /\ LET s == Current(w)
     IN  IF (~writer[w].refresh /\ s \in Tracked) \/ UpToDate(s)
         THEN Takes(w, Rest(w))
         ELSE writer' = [writer EXCEPT ![w].pc = IF s \in Tracked THEN "delete" ELSE "parse",
                                       ![w].hash = version[s]]
  /\ UNCHANGED <<version, recent, tracker, rows, vectors, flock, purge, stamped, hook, mishaps, daemonUp>>

(* the old chunks go first, best effort *)
DeleteOld(w) ==
  /\ writer[w].pc = "delete"
  /\ \/ vectors' = Without(vectors, Ids(Current(w))) /\ UNCHANGED mishaps
     \/ mishaps < MaxMishaps /\ mishaps' = mishaps + 1 /\ UNCHANGED vectors
  /\ Goes(w, "parse")
  /\ UNCHANGED <<version, recent, tracker, rows, flock, purge, stamped, hook, daemonUp>>

(* The transcript is read a second time.  One with nothing to keep is left *)
(* untracked, or tracked as it was.                                        *)
Parse(w) ==
  /\ writer[w].pc = "parse"
  /\ LET s == Current(w)
         chunks == ChunksOf[s][version[s]]
     IN  IF chunks = <<>> THEN Takes(w, Rest(w))
         ELSE writer' = [writer EXCEPT ![w].pc = "upsert", ![w].chunks = chunks]
  /\ UNCHANGED <<version, recent, tracker, rows, vectors, flock, purge, stamped, hook, mishaps, daemonUp>>

(* one batch; a batch that fails ends the ingest *)
Upsert1(w) ==
  /\ writer[w].pc = "upsert"
  /\ LET n == Len(writer[w].chunks)
         to == IF writer[w].done + BatchSize < n THEN writer[w].done + BatchSize ELSE n
     IN  \/ /\ vectors' = Over(vectors, Embedding(Current(w), writer[w].chunks, writer[w].done + 1, to))
            /\ writer' = [writer EXCEPT ![w].done = to, ![w].pc = IF to = n THEN "track" ELSE "upsert"]
            /\ UNCHANGED <<flock, mishaps>>
         \/ mishaps < MaxMishaps /\ mishaps' = mishaps + 1 /\ Ends(w) /\ UNCHANGED vectors
  /\ UNCHANGED <<version, recent, tracker, rows, purge, stamped, hook, daemonUp>>

(* Variant: the digest recorded is that of the bytes that are there now *)
DigestNow(w) == version[Current(w)]

Digest(w) == writer[w].hash

(* upsert_session: a row that is there keeps the time of its first ingest *)
Track(w) ==
  /\ writer[w].pc = "track"
  /\ LET s == Current(w)
     IN  /\ tracker' = Over(tracker, [x \in {s} |-> Digest(w)])
         /\ rows' = IF s \in Tracked THEN rows ELSE Append(rows, s)
  /\ Takes(w, Rest(w))
  /\ UNCHANGED <<version, recent, vectors, flock, purge, stamped, hook, mishaps, daemonUp>>

(* Retention: past the cap, the sessions first ingested lose their row and *)
(* then, best effort, their chunks.                                        *)
Retain(w) ==
  /\ writer[w].pc = "next" /\ writer[w].todo = {}
  /\ LET excess == Len(rows) - MaxSessions
     IN  IF excess <= 0 THEN Ends(w)
         ELSE /\ writer' = [writer EXCEPT ![w].pc = "dropRow", ![w].todo = {rows[i] : i \in 1..excess}]
              /\ UNCHANGED flock
  /\ UNCHANGED <<version, recent, tracker, rows, vectors, purge, stamped, hook, mishaps, daemonUp>>

DropRow(w) ==
  /\ writer[w].pc = "dropRow"
  /\ tracker' = Without(tracker, {Current(w)})
  /\ rows' = Strike(rows, Current(w))
  /\ Goes(w, "dropVectors")
  /\ UNCHANGED <<version, recent, vectors, flock, purge, stamped, hook, mishaps, daemonUp>>

DropVectors(w) ==
  /\ writer[w].pc = "dropVectors"
  /\ \/ vectors' = Without(vectors, Ids(Current(w))) /\ UNCHANGED mishaps
     \/ mishaps < MaxMishaps /\ mishaps' = mishaps + 1 /\ UNCHANGED vectors
  /\ IF Rest(w) = {} THEN Ends(w)
     ELSE writer' = [writer EXCEPT ![w].pc = "dropRow", ![w].todo = Rest(w)] /\ UNCHANGED flock
  /\ UNCHANGED <<version, recent, tracker, rows, purge, stamped, hook, daemonUp>>

KillWriter(w) ==
  /\ writer[w] # Idle /\ mishaps < MaxMishaps
  /\ mishaps' = mishaps + 1
  /\ Ends(w)
  /\ UNCHANGED <<version, recent, tracker, rows, vectors, purge, stamped, hook, daemonUp>>

(***************************************************************************)
(* `archive purge`: rows first, vectors after; no lock is taken.           *)
(***************************************************************************)

(* the sessions ingested before a cutoff, or all of them *)
PurgeRows(n) ==
  /\ purge = {} /\ MayStart /\ mishaps < MaxMishaps
  /\ n \in 1..Len(rows)
  /\ mishaps' = mishaps + 1
  /\ purge' = {rows[i] : i \in 1..n}
  /\ tracker' = Without(tracker, purge')
  /\ rows' = SubSeq(rows, n + 1, Len(rows))
  /\ UNCHANGED <<version, recent, vectors, writer, flock, stamped, hook, daemonUp>>

PurgeVectors ==
  /\ purge # {}
  /\ purge' = purge \ {Lowest(purge)}
  /\ vectors' = Without(vectors, Ids(Lowest(purge)))
  /\ UNCHANGED <<version, recent, tracker, rows, writer, flock, stamped, hook, mishaps, daemonUp>>

(* killed, or without a vector store: the chunks are left *)
PurgeStops ==
  /\ purge # {} /\ mishaps < MaxMishaps
  /\ mishaps' = mishaps + 1
  /\ purge' = {}
  /\ UNCHANGED <<version, recent, tracker, rows, vectors, writer, flock, stamped, hook, daemonUp>>

Step(w) ==
  Lock(w) \/ List(w) \/ Next1(w) \/ DeleteOld(w) \/ Parse(w) \/ Upsert1(w) \/ Track(w)
    \/ Retain(w) \/ DropRow(w) \/ DropVectors(w)

Hooked == DaemonReplies \/ \E w \in Writers : HookForwards(w) \/ SpawnDetached(w)

ArchiveNext ==
  \/ \E s \in Transcripts : Grow(s)
  \/ CooldownPasses \/ DaemonRefuses \/ Hooked
  \/ \E w \in Writers : IngestByHand(w) \/ Step(w) \/ KillWriter(w)
  \/ \E n \in 1..Cardinality(Transcripts) : PurgeRows(n)
  \/ PurgeVectors \/ PurgeStops

(***************************************************************************)
(* Properties                                                              *)
(***************************************************************************)

(* What a later ingest will take as up to date is embedded in full: a row  *)
(* whose digest is that of the transcript on disk has every chunk of it in *)
(* the collection, at its index, through kills and failed calls.           *)
DigestMeansEmbedded ==
  \A s \in Tracked : UpToDate(s) =>
    \A i \in DOMAIN ChunksOf[s][version[s]] :
      <<s, i>> \in DOMAIN vectors /\ vectors[<<s, i>>] = ChunksOf[s][version[s]][i]

(* No search finds a passage the conversation no longer has at that place: *)
(* the chunks of an up-to-date session are those of its transcript.        *)
NoLeftovers ==
  \A s \in Tracked : UpToDate(s) => \A id \in Ids(s) : id[2] \in DOMAIN ChunksOf[s][version[s]]

ArchiveHonest == ArchiveTypeOK /\ DigestMeansEmbedded /\ NoLeftovers

(* When the conversations have ended, each of them is in the archive in    *)
(* the end, whatever the cooldown skipped and the kills left undone.       *)
Rearchived ==
  \A s \in Transcripts : (\A x \in Transcripts : version[x] = LastVersion) ~> UpToDate(s)

(* The processes that run go on, the cooldown passes, and sessions keep    *)
(* ending at moments when no ingest is at work.                            *)
ArchiveFairness ==
  /\ WF_archiveVars(CooldownPasses) /\ SF_archiveVars(Hooked) /\ WF_archiveVars(PurgeVectors)
  /\ \A w \in Writers : WF_archiveVars(Step(w))

ArchiveSpec == ArchiveInit /\ [][ArchiveNext]_archiveVars /\ ArchiveFairness
==============================================================================
