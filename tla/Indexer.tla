------------------------------ MODULE Indexer ------------------------------
(***************************************************************************)
(* The indexer of one project: a full run (memory_index or the command     *)
(* line) and the background watcher write four stores and one sentinel,    *)
(* each with a commit of its own:                                          *)
(*   docs      BM25 documents in tantivy, lost unless committed,           *)
(*   symbols, nodes, topicAt, edges   tables of redb, durable at once,     *)
(*   vectors   rows of SQLite, durable at once, written by full runs only, *)
(*   hash      the content hash in redb: "this file is indexed, skip it".  *)
(*                                                                         *)
(* A content is a number and never comes back: an edit writes the next     *)
(* one, 0 is "no such file" and, for hash, "no hash".  A content has line  *)
(* ranges (one chunk and one symbol each) and, in code, links - to event   *)
(* topics and to other files' functions - and imports.  The edges of links *)
(* start at a function of the file, those of imports at its module path,   *)
(* for which there is no node.  An event node is shared: its path is that  *)
(* of the file that wrote it last.                                         *)
(***************************************************************************)
EXTENDS Naturals, FiniteSets

CONSTANTS
  Code, Text,    \* files with and without a grammar
  NoFile,        \* no file
  Ranges,        \* line ranges, as in chunk ids "path:start-end"
  LinesOf,       \* the ranges of each content
  Topics,        \* event topics
  LinksOf,       \* the topics and the files each content of each code file links to
  Modules,       \* what is imported
  ImportsOf,     \* the imports of each content
  RunWorkers,    \* files a full run indexes at once (its concurrency)
  Watcher,       \* the watcher's worker
  Watching,      \* [watch].enabled
  Scopes,        \* bounds: the files, edits, runs and crashes of an instance,
                 \* and whether the embedder may fail and the stores be evicted
  MaxContent     \* bound: no scope has more edits than MaxContent - 1

Files    == Code \cup Text
Contents == 1 .. MaxContent
Versions == Contents \cup {0}
Workers  == RunWorkers \cup {Watcher}

ASSUME IndexerAssumption ==
  /\ Code \cap Text = {} /\ NoFile \notin Files /\ Watcher \notin RunWorkers
  /\ Watcher \notin RunWorkers
  /\ LinesOf \in [Contents -> (SUBSET Ranges) \ {{}}]
  /\ LinksOf \in [Code \X Contents -> SUBSET (Topics \cup Code)]
  /\ ImportsOf \in [Contents -> SUBSET Modules]
  /\ Code \cap Topics = {}
  /\ Watching \in BOOLEAN
  /\ MaxContent \in Nat \ {0}
  /\ Scopes \subseteq [files : SUBSET Files, edits : 0 .. MaxContent - 1,
                      runs : Nat, crashes : Nat, vecMayFail : BOOLEAN, idles : BOOLEAN]

VARIABLES
  disk,       \* the content of each file
  events,     \* the watcher's channel: the last event of each file
  hash,       \* the content-hash sentinels
  symbols,    \* symbol rows: <<file, range, content>>
  nodes,      \* files whose function nodes are in the graph
  topicAt,    \* the path of each event node, NoFile when there is none
  edges,      \* edges from a file's functions: <<file, topic or file>>
  imports,    \* edges from a file's module path: <<file, import>>
  docs,       \* BM25 documents as the writer has them
  committed,  \* BM25 documents a search finds and a crash leaves
  vectors,    \* vector rows: <<file, range, content>>
  warm,       \* are the project's stores open?
  phase,      \* of the full run: "off", "code", "text"
  withVec,    \* does the run have the vector collection?
  todo,       \* files the run has still to take
  queue,      \* chunks on their way to the embedder: <<file, range, parsed, seen>>
  batch,      \* what is left of the watcher's batch
  inBatch,    \* is the watcher working on a batch?
  pc, on, mode,  \* each worker's position, file and pipeline
  seen,       \* the content it hashed
  parsed,     \* the content it parsed, read again
  doomed,     \* the graph nodes its purge deleted
  (* Bounds and ghosts. *)
  scope,      \* the bounds of this instance
  clock, runs, crashes,
  tangled,    \* workers that shared their file with another one
  flaws       \* what has happened to a file since it was last indexed

store  == <<hash, symbols, nodes, topicAt, edges, imports, docs, committed, vectors>>
task   == <<pc, on, mode, seen, parsed, doomed, tangled>>
run    == <<phase, withVec, todo, queue>>
watch  == <<events, batch, inBatch>>
bounds == <<scope, clock, runs, crashes>>
vars == <<disk, events, hash, symbols, nodes, topicAt, edges, imports, docs, committed,
          vectors, warm, phase, withVec, todo, queue, batch, inBatch, pc, on,
          mode, seen, parsed, doomed, scope, clock, runs, crashes, tangled, flaws>>

Change == {"none", "changed", "deleted"}
Modes  == {"code", "text", "purge"}
PCs == {"idle", "read", "compare", "delDocs", "delSymbols", "delNodes", "delEdges",
        "delVectors", "delHash", "parse", "putDocs", "putSymbols", "putNodes",
        "putEdges", "stamp"}
Flaw == {"overlap",     \* two workers were at it at once
         "uncommitted", \* a crash took documents that were not committed
         "blank",       \* a text file went through the code pipeline
         "severed",     \* another file's purge took edges of this one
         "halfPurged",  \* a crash in the middle of the purge of a deleted file
         "orphanEdges", \* a crash between a purge's nodes and its edges
         "noVectors",   \* recorded, not embedded (yet)
         "oldVectors",  \* the deletion of its vectors failed
         "missed"}      \* the watcher lost an event about it

Rows(f, c)   == {<<f, r, c>> : r \in LinesOf[c]}
Of(S, f)     == {x \in S : x[1] = f}
Without(S, f) == {x \in S : x[1] # f}
Links(f, c)  == IF f \in Code THEN {<<f, t>> : t \in LinksOf[<<f, c>>]} ELSE {}
Imports(f, c) == IF f \in Code THEN {<<f, i>> : i \in ImportsOf[c]} ELSE {}

(* An insert replaces the rows with the same id. *)
Upsert(S, N) == {x \in S : \A y \in N : <<x[1], x[2]>> # <<y[1], y[2]>>} \cup N

(* What a pipeline makes of the content it parsed: no grammar, no chunks.  *)
Parsed(w) == IF mode[w] = "code" /\ on[w] \in Text THEN {} ELSE Rows(on[w], parsed[w])

Busy(f)  == \E w \in Workers : on[w] = f

(* From here on w rewrites its file, and nobody else has been at it.  When *)
(* the file went meanwhile, its deletion has still been missed.            *)
FreshStart(w) ==
  LET gone == IF mode[w] # "purge" /\ disk[on[w]] = 0 THEN {"missed"} ELSE {}
  IN  IF w \notin tangled
      THEN [flaws EXCEPT ![on[w]] = @ \cap ({"orphanEdges", "noVectors", "oldVectors"} \cup gone)]
      ELSE flaws

Init ==
  /\ scope \in Scopes
  /\ disk = [f \in Files |-> IF f \in scope.files THEN 1 ELSE 0]
  /\ events = [f \in Files |-> "none"]
  /\ hash = [f \in Files |-> 0]
  /\ symbols = {} /\ nodes = {} /\ edges = {} /\ imports = {}
  /\ topicAt = [t \in Topics |-> NoFile]
  /\ docs = {} /\ committed = {} /\ vectors = {}
  /\ warm = FALSE /\ phase = "off" /\ withVec = FALSE /\ todo = {} /\ queue = {}
  /\ batch = [f \in Files |-> "none"] /\ inBatch = FALSE
  /\ pc = [w \in Workers |-> "idle"]
  /\ on = [w \in Workers |-> NoFile]
  /\ mode = [w \in Workers |-> "code"]
  /\ seen = [w \in Workers |-> 0]
  /\ parsed = [w \in Workers |-> 0]
  /\ doomed = [w \in Workers |-> {}]
  /\ clock = 1 /\ runs = 0 /\ crashes = 0 /\ tangled = {}
  /\ flaws = [f \in Files |-> {}]

Goto(w, l) == pc' = [pc EXCEPT ![w] = l]

Flawed(f, x) == flaws' = [flaws EXCEPT ![f] = @ \cup x]

Begin(w, f, m, l) ==
  /\ on' = [on EXCEPT ![w] = f]
  /\ mode' = [mode EXCEPT ![w] = m]
  /\ Goto(w, l)
  /\ Flawed(f, IF Busy(f) THEN {"overlap", "orphanEdges"} ELSE {})
  /\ tangled' = tangled \cup {v \in Workers : Busy(f) /\ (v = w \/ on[v] = f)}
  /\ UNCHANGED <<seen, parsed, doomed>>

Done(w) ==
  /\ Goto(w, "idle")
  /\ on' = [on EXCEPT ![w] = NoFile]
  /\ mode' = [mode EXCEPT ![w] = "code"]
  /\ seen' = [seen EXCEPT ![w] = 0]
  /\ parsed' = [parsed EXCEPT ![w] = 0]
  /\ doomed' = [doomed EXCEPT ![w] = {}]
  /\ tangled' = tangled \ {w}

At(w, l) == pc[w] = l

-----------------------------------------------------------------------------
(* index_file_no_embed and index_text_file, one await after the other.     *)

Read(w) ==
  /\ At(w, "read")
  /\ IF disk[on[w]] = 0
     THEN Done(w)
     ELSE /\ seen' = [seen EXCEPT ![w] = disk[on[w]]]
          /\ Goto(w, "compare")
          /\ UNCHANGED <<on, mode, parsed, doomed, tangled>>
  /\ UNCHANGED <<disk, store, warm, run, watch, bounds, flaws>>

(* Variant: the hash is recorded before the work instead of after it. *)
CompareAndStamp(w) ==
  /\ At(w, "compare")
  /\ IF hash[on[w]] = seen[w]
     THEN Done(w) /\ UNCHANGED flaws
     ELSE /\ Goto(w, "delDocs") /\ flaws' = FreshStart(w)
          /\ UNCHANGED <<on, mode, seen, parsed, doomed, tangled>>
  /\ hash' = [hash EXCEPT ![on[w]] = seen[w]]
  /\ UNCHANGED <<disk, symbols, nodes, topicAt, edges, imports, docs, committed, vectors,
                 warm, run, watch, bounds>>

Compare(w) ==
  /\ At(w, "compare")
  /\ IF hash[on[w]] = seen[w]
     THEN Done(w) /\ UNCHANGED flaws
     ELSE /\ Goto(w, "delDocs") /\ flaws' = FreshStart(w)
          /\ UNCHANGED <<on, mode, seen, parsed, doomed, tangled>>
  /\ UNCHANGED <<disk, store, warm, run, watch, bounds>>

(* purge_path starts here; a text file only loses its documents.           *)
DelDocs(w) ==
  /\ At(w, "delDocs")
  /\ docs' = Without(docs, on[w])
  /\ flaws' = IF mode[w] = "purge" THEN FreshStart(w) ELSE flaws
  /\ Goto(w, IF mode[w] = "text" THEN "parse" ELSE "delSymbols")
  /\ UNCHANGED <<disk, hash, symbols, nodes, topicAt, edges, imports, committed, vectors,
                 warm, run, watch, on, mode, seen, parsed, doomed, tangled, bounds>>

DelSymbols(w) ==
  /\ At(w, "delSymbols")
  /\ symbols' = Without(symbols, on[w])
  /\ doomed' = [doomed EXCEPT ![w] = IF Of(symbols, on[w]) = {} THEN {} ELSE {on[w]}]
  /\ Goto(w, "delNodes")
  /\ UNCHANGED <<disk, hash, nodes, topicAt, edges, imports, docs, committed, vectors,
                 warm, run, watch, on, mode, seen, parsed, tangled, bounds, flaws>>

(* delete_nodes_by_path: the functions of the file and the event nodes it  *)
(* wrote last.                                                             *)
DelNodes(w) ==
  /\ At(w, "delNodes")
  /\ nodes' = nodes \ {on[w]}
  /\ topicAt' = [t \in Topics |-> IF topicAt[t] = on[w] THEN NoFile ELSE topicAt[t]]
  /\ doomed' = [doomed EXCEPT ![w] = @ \cup (nodes \cap {on[w]})
                                        \cup {t \in Topics : topicAt[t] = on[w]}]
  /\ Goto(w, "delEdges")
  /\ UNCHANGED <<disk, hash, symbols, edges, imports, docs, committed, vectors, warm, run,
                 watch, on, mode, seen, parsed, tangled, bounds, flaws>>

(* delete_edges_touching: whoever wrote them.  No node stands for a file's  *)
(* module path (a Rust mod item of the parent file is not modelled).       *)
DelEdges(w) ==
  LET gone == {e \in edges : e[1] \in doomed[w] \/ e[2] \in doomed[w]} IN
  /\ At(w, "delEdges")
  /\ edges' = edges \ gone
  /\ flaws' = [f \in Files |->
       IF f = on[w]
       THEN IF f \in doomed[w] /\ w \notin tangled THEN flaws[f] \ {"orphanEdges"} ELSE flaws[f]
       ELSE IF Of(gone, f) # {} THEN flaws[f] \cup {"severed"} ELSE flaws[f]]
  /\ Goto(w, "delVectors")
  /\ UNCHANGED <<disk, hash, symbols, nodes, topicAt, imports, docs, committed, vectors,
                 warm, run, watch, on, mode, seen, parsed, doomed, tangled, bounds>>

HasVec(w) == w \in RunWorkers /\ withVec

(* Variant: a pipeline with the collection leaves the old vectors there. *)
KeepVectors(w) ==
  /\ At(w, "delVectors")
  /\ Flawed(on[w], {})
  /\ Goto(w, "delHash")
  /\ UNCHANGED <<disk, store, warm, run, watch, on, mode, seen, parsed, doomed, tangled, bounds>>

(* Only with the collection, and its failure is ignored. *)
DelVectors(w) ==
  /\ At(w, "delVectors")
  /\ \/ /\ HasVec(w)
        /\ vectors' = Without(vectors, on[w])
        /\ flaws' = [flaws EXCEPT ![on[w]] = @ \ {"oldVectors"}]
     \/ /\ ~HasVec(w) \/ scope.vecMayFail
        /\ Flawed(on[w], {"oldVectors"})
        /\ UNCHANGED vectors
  /\ Goto(w, "delHash")
  /\ UNCHANGED <<disk, hash, symbols, nodes, topicAt, edges, imports, docs, committed,
                 warm, run, watch, on, mode, seen, parsed, doomed, tangled, bounds>>

DelHash(w) ==
  /\ At(w, "delHash")
  /\ hash' = [hash EXCEPT ![on[w]] = 0]
  /\ IF mode[w] = "purge"
     THEN Done(w)
     ELSE Goto(w, "parse") /\ UNCHANGED <<on, mode, seen, parsed, doomed, tangled>>
  /\ UNCHANGED <<disk, symbols, nodes, topicAt, edges, imports, docs, committed, vectors,
                 warm, run, watch, bounds, flaws>>

(* The file is read a second time.  parse_file fails when it is gone,      *)
(* parse_text_file finds no text then.                                     *)
Parse(w) ==
  /\ At(w, "parse")
  /\ IF disk[on[w]] = 0 /\ mode[w] = "code"
     THEN Done(w)
     ELSE /\ parsed' = [parsed EXCEPT ![w] = disk[on[w]]]
          /\ Goto(w, IF disk[on[w]] = 0 THEN "stamp" ELSE "putDocs")
          /\ UNCHANGED <<on, mode, seen, doomed, tangled>>
  /\ UNCHANGED <<disk, store, warm, run, watch, bounds, flaws>>

PutDocs(w) ==
  /\ At(w, "putDocs")
  /\ docs' = Upsert(docs, Parsed(w))
  /\ Goto(w, IF mode[w] = "text" THEN "stamp" ELSE "putSymbols")
  /\ UNCHANGED <<disk, hash, symbols, nodes, topicAt, edges, imports, committed, vectors,
                 warm, run, watch, on, mode, seen, parsed, doomed, tangled, bounds, flaws>>

PutSymbols(w) ==
  /\ At(w, "putSymbols")
  /\ symbols' = Upsert(symbols, Parsed(w))
  /\ Goto(w, "putNodes")
  /\ UNCHANGED <<disk, hash, nodes, topicAt, edges, imports, docs, committed, vectors,
                 warm, run, watch, on, mode, seen, parsed, doomed, tangled, bounds, flaws>>

PutNodes(w) ==
  /\ At(w, "putNodes")
  /\ nodes' = IF Parsed(w) = {} THEN nodes ELSE nodes \cup {on[w]}
  /\ topicAt' = [t \in Topics |->
                   IF <<on[w], t>> \in Links(on[w], parsed[w]) THEN on[w] ELSE topicAt[t]]
  /\ Goto(w, "putEdges")
  /\ UNCHANGED <<disk, hash, symbols, edges, imports, docs, committed, vectors, warm, run,
                 watch, on, mode, seen, parsed, doomed, tangled, bounds, flaws>>

PutEdges(w) ==
  /\ At(w, "putEdges")
  /\ edges' = edges \cup Links(on[w], parsed[w])
  /\ imports' = imports \cup Imports(on[w], parsed[w])
  /\ Goto(w, "stamp")
  /\ UNCHANGED <<disk, hash, symbols, nodes, topicAt, docs, committed, vectors,
                 warm, run, watch, on, mode, seen, parsed, doomed, tangled, bounds, flaws>>

(* Variant: text files go to the embedder too. *)
StampQueuesText(w) ==
  LET f == on[w] IN
  /\ At(w, "stamp")
  /\ hash' = [hash EXCEPT ![f] = seen[w]]
  /\ queue' = IF HasVec(w) THEN queue \cup {<<e[1], e[2], e[3], seen[w]>> : e \in Parsed(w)} ELSE queue
  /\ Flawed(f, IF mode[w] = "text" THEN {}
               ELSE IF f \in Text THEN {"blank", "noVectors"} ELSE {"noVectors"})
  /\ Done(w)
  /\ UNCHANGED <<disk, symbols, nodes, topicAt, edges, imports, docs, committed, vectors,
                 warm, phase, withVec, todo, watch, bounds>>

Stamp(w) ==
  LET f == on[w] IN
  /\ At(w, "stamp")
  /\ hash' = [hash EXCEPT ![f] = seen[w]]
  /\ queue' = IF HasVec(w) /\ mode[w] = "code"
              THEN queue \cup {<<e[1], e[2], e[3], seen[w]>> : e \in Parsed(w)} ELSE queue
  /\ Flawed(f, IF mode[w] = "text" THEN {}
               ELSE IF f \in Text THEN {"blank", "noVectors"} ELSE {"noVectors"})
  /\ Done(w)
  /\ UNCHANGED <<disk, symbols, nodes, topicAt, edges, imports, docs, committed, vectors,
                 warm, phase, withVec, todo, watch, bounds>>

Pipeline(w) ==
  \/ Read(w) \/ Compare(w) \/ DelDocs(w) \/ DelSymbols(w) \/ DelNodes(w)
  \/ DelEdges(w) \/ DelVectors(w) \/ DelHash(w) \/ Parse(w) \/ PutDocs(w)
  \/ PutSymbols(w) \/ PutNodes(w) \/ PutEdges(w) \/ Stamp(w)

-----------------------------------------------------------------------------
(* index_path, one at a time (index_mutex, or the only open store).        *)

RunsIdle == \A w \in RunWorkers : pc[w] = "idle"

RunStart(v) ==
  /\ phase = "off" /\ runs < scope.runs
  /\ warm \/ ~inBatch
  /\ runs' = runs + 1
  /\ phase' = "code" /\ withVec' = v
  /\ todo' = {f \in Code : disk[f] # 0}
  /\ warm' = TRUE
  /\ UNCHANGED <<disk, store, queue, watch, task, scope, clock, crashes, flaws>>

TakeFile(w, f) ==
  /\ w \in RunWorkers /\ pc[w] = "idle" /\ f \in todo
  /\ todo' = todo \ {f}
  /\ Begin(w, f, phase, "read")
  /\ UNCHANGED <<disk, store, warm, phase, withVec, queue, watch, bounds>>

(* embed_consumer: one batch, skipped when the embedder fails.             *)
EmbedBatch(S) ==
  /\ S \subseteq queue /\ S # {}
  /\ queue' = queue \ S
  /\ \/ /\ vectors' = Upsert(vectors, {<<e[1], e[2], e[3]>> : e \in S})
        /\ flaws' = [f \in Files |->
             IF \E e \in S : e[1] = f /\ e[4] = hash[f] /\ Rows(f, e[3]) \subseteq vectors'
             THEN flaws[f] \ {"noVectors"} ELSE flaws[f]]
     \/ scope.vecMayFail /\ UNCHANGED <<vectors, flaws>>
  /\ UNCHANGED <<disk, hash, symbols, nodes, topicAt, edges, imports, docs, committed,
                 warm, phase, withVec, todo, watch, task, bounds>>

RunText ==
  /\ phase = "code" /\ todo = {} /\ RunsIdle /\ queue = {}
  /\ phase' = "text"
  /\ todo' = {f \in Text : disk[f] # 0}
  /\ UNCHANGED <<disk, store, warm, withVec, queue, watch, task, bounds, flaws>>

RunCommit ==
  /\ phase = "text" /\ todo = {} /\ RunsIdle
  /\ committed' = docs
  /\ phase' = "off" /\ withVec' = FALSE
  /\ UNCHANGED <<disk, hash, symbols, nodes, topicAt, edges, imports, docs, vectors, warm,
                 todo, queue, watch, task, bounds, flaws>>

-----------------------------------------------------------------------------
(* run_watcher: the debounced batch holds one event per file, the last.    *)

NextBatch ==
  /\ ~inBatch /\ \E f \in Files : events[f] # "none"
  /\ events' = [f \in Files |-> "none"]
  /\ IF warm
     THEN batch' = events /\ inBatch' = TRUE /\ UNCHANGED flaws
     ELSE /\ flaws' = [f \in Files |->
                         IF events[f] # "none" THEN flaws[f] \cup {"missed"} ELSE flaws[f]]
          /\ UNCHANGED <<batch, inBatch>>
  /\ UNCHANGED <<disk, store, warm, run, task, bounds>>

TakeEvent(f) ==
  /\ pc[Watcher] = "idle" /\ batch[f] # "none"
  /\ batch[f] = "changed" => \A g \in Files : batch[g] # "deleted"
  /\ batch' = [batch EXCEPT ![f] = "none"]
  /\ IF batch[f] = "deleted"
     THEN Begin(Watcher, f, "purge", "delDocs")
     ELSE Begin(Watcher, f, "code", "read")
  /\ UNCHANGED <<disk, store, warm, run, events, inBatch, bounds>>

(* Variant: the batch ends without a commit. *)
EndBatchUncommitted ==
  /\ inBatch /\ pc[Watcher] = "idle" /\ \A f \in Files : batch[f] = "none"
  /\ inBatch' = FALSE
  /\ UNCHANGED <<disk, store, warm, run, events, batch, task, bounds, flaws>>

EndBatch ==
  /\ inBatch /\ pc[Watcher] = "idle" /\ \A f \in Files : batch[f] = "none"
  /\ committed' = docs
  /\ inBatch' = FALSE
  /\ UNCHANGED <<disk, hash, symbols, nodes, topicAt, edges, imports, docs, vectors, warm,
                 run, events, batch, task, bounds, flaws>>

-----------------------------------------------------------------------------
(* The user's edits, the server's residency, the death of the process.     *)

Notify(f, e) == events' = IF Watching THEN [events EXCEPT ![f] = e] ELSE events

Missed == IF Watching THEN {} ELSE {"missed"}

Edit(f) ==
  /\ clock <= scope.edits
  /\ clock' = clock + 1
  /\ disk' = [disk EXCEPT ![f] = clock + 1]
  /\ Notify(f, "changed") /\ Flawed(f, Missed)
  /\ UNCHANGED <<store, warm, run, batch, inBatch, task, scope, runs, crashes>>

Delete(f) ==
  /\ disk[f] # 0 /\ clock <= scope.edits
  /\ clock' = clock + 1
  /\ disk' = [disk EXCEPT ![f] = 0]
  /\ Notify(f, "deleted") /\ Flawed(f, Missed)
  /\ UNCHANGED <<store, warm, run, batch, inBatch, task, scope, runs, crashes>>

(* Whoever works keeps the stores open; they cannot be opened twice.       *)
Evict ==
  /\ scope.idles /\ warm
  /\ warm' = FALSE
  /\ UNCHANGED <<disk, store, run, watch, task, bounds, flaws>>

Hydrate ==
  /\ ~warm /\ ~inBatch /\ phase = "off"
  /\ warm' = TRUE
  /\ UNCHANGED <<disk, store, run, watch, task, bounds, flaws>>

Crash ==
  /\ crashes < scope.crashes
  /\ crashes' = crashes + 1
  /\ docs' = committed
  /\ warm' = FALSE /\ phase' = "off" /\ withVec' = FALSE /\ todo' = {} /\ queue' = {}
  /\ events' = [f \in Files |-> "none"]
  /\ batch' = [f \in Files |-> "none"] /\ inBatch' = FALSE
  /\ pc' = [w \in Workers |-> "idle"] /\ on' = [w \in Workers |-> NoFile]
  /\ mode' = [w \in Workers |-> "code"] /\ seen' = [w \in Workers |-> 0]
  /\ parsed' = [w \in Workers |-> 0] /\ doomed' = [w \in Workers |-> {}]
  /\ tangled' = {}
  /\ flaws' = [f \in Files |-> flaws[f]
       \cup (IF Of(docs, f) # Of(committed, f) THEN {"uncommitted"} ELSE {})
       \cup (IF events[f] # "none" \/ batch[f] # "none" THEN {"missed"} ELSE {})
       \cup (IF \E w \in Workers : on[w] = f /\ mode[w] = "purge"
             THEN {"missed", "halfPurged"} ELSE {})
       \cup (IF \E w \in Workers : on[w] = f /\ pc[w] = "delEdges"
             THEN {"orphanEdges"} ELSE {})]
  /\ UNCHANGED <<disk, hash, symbols, nodes, topicAt, edges, imports, committed, vectors,
                 scope, clock, runs>>

Run ==
  \/ \E v \in BOOLEAN : RunStart(v)
  \/ \E w \in RunWorkers, f \in todo : TakeFile(w, f)
  \/ \E S \in SUBSET queue : EmbedBatch(S)
  \/ RunText \/ RunCommit

Watch == NextBatch \/ (\E f \in Files : TakeEvent(f)) \/ EndBatch

Next ==
  \/ \E w \in Workers : Pipeline(w)
  \/ Run \/ Watch
  \/ \E f \in scope.files : Edit(f) \/ Delete(f)
  \/ Evict \/ Hydrate \/ Crash

Spec == Init /\ [][Next]_vars

-----------------------------------------------------------------------------
Row == Files \X Ranges \X Contents

StoresOK ==
  /\ hash \in [Files -> Versions]
  /\ symbols \subseteq Row /\ docs \subseteq Row
  /\ committed \subseteq Row /\ vectors \subseteq Row
  /\ nodes \subseteq Files
  /\ topicAt \in [Topics -> Code \cup {NoFile}]
  /\ edges \subseteq Code \X (Topics \cup Code)
  /\ imports \subseteq Code \X Modules
  /\ queue \subseteq Code \X Ranges \X Contents \X Contents

WorkersOK ==
  /\ pc \in [Workers -> PCs]
  /\ on \in [Workers -> Files \cup {NoFile}]
  /\ mode \in [Workers -> Modes]
  /\ seen \in [Workers -> Versions]
  /\ parsed \in [Workers -> Versions]
  /\ doomed \in [Workers -> SUBSET (Files \cup Topics)]
  /\ tangled \subseteq Workers

PhasesOK ==
  /\ events \in [Files -> Change] /\ batch \in [Files -> Change]
  /\ warm \in BOOLEAN /\ withVec \in BOOLEAN /\ inBatch \in BOOLEAN
  /\ phase \in {"off", "code", "text"}
  /\ todo \subseteq Files

BoundsOK ==
  /\ disk \in [Files -> Versions]
  /\ scope \in Scopes /\ clock \in 1 .. scope.edits + 1
  /\ runs \in 0 .. scope.runs /\ crashes \in 0 .. scope.crashes

(* Type invariant. *)
TypeOK == StoresOK /\ WorkersOK /\ PhasesOK /\ BoundsOK /\ flaws \in [Files -> SUBSET Flaw]

(* The next index run will skip f: nobody is at it and its hash is right.  *)
Skipped(f) == ~Busy(f) /\ disk[f] # 0 /\ hash[f] = disk[f]

Unless(f, x) == flaws[f] \cap x # {}

(* "If they match, the on-disk state is authoritative": of a file that the *)
(* next run will skip, the stores hold exactly the rows of its content,    *)
(* wherever edits fell between the two reads and wherever the process      *)
(* died.  The exceptions are named: two workers on one file, a file that   *)
(* came back while the watcher was purging it and the process died,        *)
(* documents a crash took before their commit, a text file handled by the  *)
(* watcher, and edges that another file's purge took or a crash left.      *)
HashMeansIndexed ==
  \A f \in Files : Skipped(f) /\ ~Unless(f, {"overlap", "halfPurged"}) =>
    /\ Unless(f, {"uncommitted", "blank"}) \/ Of(docs, f) = Rows(f, disk[f])
    /\ f \in Code => Of(symbols, f) = Rows(f, disk[f]) /\ f \in nodes
    /\ Imports(f, disk[f]) \subseteq imports
    /\ Unless(f, {"severed"}) \/ Links(f, disk[f]) \subseteq edges
    /\ Unless(f, {"orphanEdges"}) \/ Of(edges, f) \subseteq Links(f, disk[f])

(* The same without exceptions. *)
HashIsAuthoritative ==
  \A f \in Files : Skipped(f) => Of(docs, f) = Rows(f, disk[f])

(* "Any pre-existing index state for `path` ... is purged before the new   *)
(* parse is written": no import of an earlier content is left.             *)
\* The code does not keep it: README, disagreements.
ImportsFollow ==
  \A f \in Code : Skipped(f) => Of(imports, f) = Imports(f, disk[f])

(* A file that is gone, and whose deletion the watcher has been told of    *)
(* and is done with, has left every store a search reads, and a later file *)
(* of the same name will not be skipped.                                   *)
DeletedIsGone ==
  \A f \in Code :
    disk[f] = 0 /\ ~Busy(f) /\ events[f] = "none" /\ batch[f] = "none"
      /\ ~Unless(f, {"overlap", "missed", "uncommitted", "orphanEdges"})
      => /\ hash[f] = 0 /\ f \notin nodes
         /\ Of(docs, f) = {} /\ Of(symbols, f) = {} /\ Of(edges, f) = {}

(* Vectors of a file the next run will skip belong to its content, unless  *)
(* the last pipeline had no collection, or the embedder failed or is late. *)
VectorsFollow ==
  \A f \in Code :
    Skipped(f) /\ ~Unless(f, {"overlap", "halfPurged", "noVectors", "oldVectors"})
      => Of(vectors, f) = Rows(f, disk[f])

(* The rows a search or a later run goes by follow the file, whether it    *)
(* changed or went.                                                        *)
RowsFollow == DeletedIsGone /\ VectorsFollow

(* At rest, everything the indexer wrote can be searched. *)
CommittedAtRest == phase = "off" /\ ~inBatch => committed = docs
=============================================================================
