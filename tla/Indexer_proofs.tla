--------------------------- MODULE Indexer_proofs ---------------------------
(***************************************************************************)
(* Proofs about Indexer, for any files, contents, workers and scopes.      *)
(*                                                                         *)
(*   TypeCorrect       the type invariant, with what a worker has in hand  *)
(*                     at each position (InHand);                          *)
(*   SearchableAtRest  CommittedAtRest, from Housed: whoever writes works  *)
(*                     inside a run or a batch, which end with a commit;   *)
(*   HashIsEarned      HashMeansIndexed, and                               *)
(*   RowsGoWithFiles   RowsFollow, both from FilesOK: what is true of one  *)
(*                     file and of the workers at it.                      *)
(*                                                                         *)
(* FilesOK speaks of one file at a time, for the stores are keyed by file: *)
(* a step is about the file of its worker, and Steady of every other one.  *)
(* A worker that shares its file is tangled and the file marked; of one    *)
(* that does not, Midway says what each store holds at each position, and  *)
(* that the recorded hash is not the file's from the first deletion to the *)
(* last write.                                                             *)
(***************************************************************************)
EXTENDS Indexer, TLAPS

(* The contents of the type invariant a step cannot see from a subset.     *)
LEMMA RowFacts ==
  /\ \A f \in Files, c \in Contents : Rows(f, c) \subseteq Row
  /\ \A f \in Files, c \in Contents : Links(f, c) \subseteq Code \X (Topics \cup Code)
  /\ \A f \in Files, c \in Contents : Imports(f, c) \subseteq Code \X Modules
<1>1. ASSUME NEW f \in Files, NEW c \in Contents
      PROVE  /\ Rows(f, c) \subseteq Row
             /\ Links(f, c) \subseteq Code \X (Topics \cup Code)
             /\ Imports(f, c) \subseteq Code \X Modules
  <2>1. LinesOf[c] \subseteq Ranges /\ ImportsOf[c] \subseteq Modules
    BY IndexerAssumption
  <2>2. f \in Code => LinksOf[<<f, c>>] \subseteq Topics \cup Code
    BY IndexerAssumption
  <2> QED BY <2>1, <2>2 DEF Rows, Links, Imports, Row
<1> QED BY <1>1

(* Stored rows are rows; an insert adds only new ones.                     *)
LEMMA UpsertFacts ==
  ASSUME NEW S, NEW N
  PROVE  Upsert(S, N) \subseteq S \cup N
BY DEF Upsert

Puts == {"putDocs", "putSymbols", "putNodes", "putEdges"}

(* A worker has a file from its first step to its last, a hashed content   *)
(* when it compares, and a parsed content when it writes.                  *)
InHand ==
  /\ \A w \in Workers :
       /\ pc[w] # "idle" => on[w] \in Files
       /\ pc[w] \notin {"idle", "read"} /\ mode[w] # "purge" => seen[w] \in Contents
       /\ pc[w] \in {"parse", "stamp"} \cup Puts => mode[w] # "purge"
       /\ pc[w] \in Puts => parsed[w] \in Contents
       /\ pc[w] = "stamp" /\ mode[w] = "code" => parsed[w] \in Contents
  /\ phase = "off" => todo = {}

(* The rows a worker parsed are rows, those of code are of a code file.    *)
LEMMA ParsedFacts ==
  ASSUME NEW w \in Workers, on[w] \in Files, parsed[w] \in Contents
  PROVE  /\ Parsed(w) \subseteq Row
         /\ mode[w] = "code" => Parsed(w) \subseteq Code \X Ranges \X Contents
         /\ Links(on[w], parsed[w]) \subseteq Code \X (Topics \cup Code)
         /\ Imports(on[w], parsed[w]) \subseteq Code \X Modules
         /\ \A t \in Topics : <<on[w], t>> \in Links(on[w], parsed[w]) => on[w] \in Code
<1>1. Rows(on[w], parsed[w]) \subseteq Row
  BY RowFacts
<1>2. on[w] \in Code => Rows(on[w], parsed[w]) \subseteq Code \X Ranges \X Contents
  BY IndexerAssumption DEF Rows
<1>3. \A t \in Topics : <<on[w], t>> \in Links(on[w], parsed[w]) => on[w] \in Code
  BY DEF Links
<1> QED BY <1>1, <1>2, <1>3, RowFacts DEF Parsed, Files

-----------------------------------------------------------------------------
(* A pipeline step, part by part.                                          *)
LEMMA DoneWorkers ==
  ASSUME WorkersOK, InHand, NEW w \in Workers, Done(w), UNCHANGED <<phase, todo>>
  PROVE  WorkersOK' /\ InHand'
<1>1. doomed' \in [Workers -> SUBSET (Files \cup Topics)]
  BY DEF WorkersOK, Done
<1>2. seen' \in [Workers -> Versions] /\ parsed' \in [Workers -> Versions]
  BY DEF WorkersOK, Done, Versions
<1>3. WorkersOK'
  BY <1>1, <1>2 DEF WorkersOK, Done, Goto, PCs, Modes
<1> QED BY <1>3 DEF WorkersOK, InHand, Done, Goto, Puts

(* A step of the pipeline keeps the workers in their types.                *)
LEMMA PipelineWorkers ==
  ASSUME WorkersOK, InHand, disk \in [Files -> Versions], NEW w \in Workers, Pipeline(w)
  PROVE  WorkersOK' /\ InHand'
<1>0. CASE Done(w) /\ UNCHANGED <<phase, todo>>
  BY <1>0, DoneWorkers
<1> USE DEF WorkersOK, InHand, Goto, At, Puts, PCs, Modes, Versions, run
<1>1. CASE Read(w)        BY <1>0, <1>1 DEF Read
<1>2. CASE Compare(w)     BY <1>0, <1>2 DEF Compare
<1>3. CASE DelDocs(w)     BY <1>3 DEF DelDocs
<1>4. CASE DelSymbols(w)
  <2>1. doomed' \in [Workers -> SUBSET (Files \cup Topics)]
    BY <1>4 DEF DelSymbols
  <2> QED BY <1>4, <2>1 DEF DelSymbols
<1>5. CASE DelNodes(w)
  <2>1. doomed' \in [Workers -> SUBSET (Files \cup Topics)]
    BY <1>5 DEF DelNodes
  <2> QED BY <1>5, <2>1 DEF DelNodes
<1>6. CASE DelEdges(w)    BY <1>6 DEF DelEdges
<1>7. CASE DelVectors(w)  BY <1>7 DEF DelVectors
<1>8. CASE DelHash(w)     BY <1>0, <1>8 DEF DelHash
<1>9. CASE Parse(w)       BY <1>0, <1>9 DEF Parse
<1>10. CASE PutDocs(w)    BY <1>10 DEF PutDocs
<1>11. CASE PutSymbols(w) BY <1>11 DEF PutSymbols
<1>12. CASE PutNodes(w)   BY <1>12 DEF PutNodes
<1>13. CASE PutEdges(w)   BY <1>13 DEF PutEdges
<1>14. CASE Stamp(w)      BY <1>0, <1>14 DEF Stamp
<1> QED BY <1>1, <1>2, <1>3, <1>4, <1>5, <1>6, <1>7, <1>8, <1>9, <1>10, <1>11, <1>12,
           <1>13, <1>14 DEF Pipeline

(* A step of the pipeline keeps the stores in their types.                 *)
LEMMA PipelineStores ==
  ASSUME StoresOK, WorkersOK, InHand, NEW w \in Workers, Pipeline(w)
  PROVE  StoresOK'
<1> USE DEF StoresOK, At, store, run
<1>1. CASE Read(w)        BY <1>1 DEF Read
<1>2. CASE Compare(w)     BY <1>2 DEF Compare
<1>3. CASE DelDocs(w)     BY <1>3 DEF DelDocs, Without
<1>4. CASE DelSymbols(w)  BY <1>4 DEF DelSymbols, Without
<1>5. CASE DelNodes(w)    BY <1>5 DEF DelNodes
<1>6. CASE DelEdges(w)    BY <1>6 DEF DelEdges
<1>7. CASE DelVectors(w)  BY <1>7 DEF DelVectors, Without
<1>8. CASE DelHash(w)     BY <1>8 DEF DelHash, Versions
<1>9. CASE Parse(w)       BY <1>9 DEF Parse
<1>10. CASE PutDocs(w)
  <2>1. docs' \subseteq Row
    BY <1>10, UpsertFacts, ParsedFacts DEF PutDocs, InHand, Puts
  <2> QED BY <1>10, <2>1 DEF PutDocs
<1>11. CASE PutSymbols(w)
  <2>1. symbols' \subseteq Row
    BY <1>11, UpsertFacts, ParsedFacts DEF PutSymbols, InHand, Puts
  <2> QED BY <1>11, <2>1 DEF PutSymbols
<1>12. CASE PutNodes(w)
  <2>1. on[w] \in Files /\ parsed[w] \in Contents
    BY <1>12 DEF PutNodes, InHand, Puts
  <2>2. topicAt' \in [Topics -> Code \cup {NoFile}]
    BY <1>12, <2>1, ParsedFacts DEF PutNodes
  <2>3. nodes' \subseteq Files
    BY <1>12, <2>1 DEF PutNodes
  <2> QED BY <1>12, <2>2, <2>3 DEF PutNodes
<1>13. CASE PutEdges(w)
  <2>1. on[w] \in Files /\ parsed[w] \in Contents
    BY <1>13 DEF PutEdges, InHand, Puts
  <2>2. /\ edges' \subseteq Code \X (Topics \cup Code)
        /\ imports' \subseteq Code \X Modules
    BY <1>13, <2>1, ParsedFacts DEF PutEdges
  <2> QED BY <1>13, <2>2 DEF PutEdges
<1>14. CASE Stamp(w)
  <2>1. hash' \in [Files -> Versions]
    BY <1>14 DEF Stamp, WorkersOK
  <2>2. queue' \subseteq Code \X Ranges \X Contents \X Contents
    <3>1. CASE HasVec(w) /\ mode[w] = "code"
      <4>1. on[w] \in Files /\ parsed[w] \in Contents /\ seen[w] \in Contents
        BY <1>14, <3>1 DEF Stamp, InHand, Puts
      <4>2. Parsed(w) \subseteq Code \X Ranges \X Contents
        BY <3>1, <4>1, ParsedFacts
      <4>3. \A e \in Parsed(w) : <<e[1], e[2], e[3], seen[w]>> \in Code \X Ranges \X Contents \X Contents
        BY <4>1, <4>2
      <4> QED BY <1>14, <3>1, <4>3 DEF Stamp
    <3>2. CASE ~(HasVec(w) /\ mode[w] = "code")
      BY <1>14, <3>2 DEF Stamp
    <3> QED BY <3>1, <3>2
  <2> QED BY <1>14, <2>1, <2>2 DEF Stamp
<1> QED BY <1>1, <1>2, <1>3, <1>4, <1>5, <1>6, <1>7, <1>8, <1>9, <1>10, <1>11, <1>12,
           <1>13, <1>14 DEF Pipeline

(* A step of the pipeline keeps the flaws in their types.                  *)
LEMMA PipelineFlaws ==
  ASSUME flaws \in [Files -> SUBSET Flaw], NEW w \in Workers, Pipeline(w)
  PROVE  flaws' \in [Files -> SUBSET Flaw]
<1> USE DEF Flaw, FreshStart, Flawed
<1>1. CASE Read(w) \/ DelSymbols(w) \/ DelNodes(w) \/ DelHash(w) \/ Parse(w)
  BY <1>1 DEF Read, DelSymbols, DelNodes, DelHash, Parse
<1>2. CASE PutDocs(w) \/ PutSymbols(w) \/ PutNodes(w) \/ PutEdges(w)
  BY <1>2 DEF PutDocs, PutSymbols, PutNodes, PutEdges
<1>3. CASE Compare(w)     BY <1>3 DEF Compare
<1>4. CASE DelDocs(w)     BY <1>4 DEF DelDocs
<1>5. CASE DelEdges(w)    BY <1>5 DEF DelEdges
<1>6. CASE DelVectors(w)  BY <1>6 DEF DelVectors
<1>7. CASE Stamp(w)       BY <1>7 DEF Stamp
<1> QED BY <1>1, <1>2, <1>3, <1>4, <1>5, <1>6, <1>7 DEF Pipeline

(* The three together.                                                     *)
LEMMA PipelineTypes ==
  ASSUME TypeOK, InHand, NEW w \in Workers, Pipeline(w)
  PROVE  TypeOK' /\ InHand'
<1>1. PhasesOK' /\ BoundsOK'
  BY DEF TypeOK, PhasesOK, BoundsOK, Pipeline, Read, Compare, DelDocs, DelSymbols, DelNodes,
         DelEdges, DelVectors, DelHash, Parse, PutDocs, PutSymbols, PutNodes, PutEdges, Stamp,
         run, watch, bounds
<1> QED BY <1>1, PipelineWorkers, PipelineStores, PipelineFlaws DEF TypeOK, BoundsOK

-----------------------------------------------------------------------------
(* The steps of the full run, of the watcher and of the environment.       *)
LEMMA RunTypes ==
  ASSUME TypeOK, InHand, Run
  PROVE  TypeOK' /\ InHand'
<1> USE DEF TypeOK, InHand, Puts, Files, store, task, run, watch, bounds
<1>1. ASSUME NEW v \in BOOLEAN, RunStart(v) PROVE TypeOK' /\ InHand'
  <2>1. runs' \in 0 .. scope.runs
    <3>1. scope.runs \in Nat /\ runs \in 0 .. scope.runs /\ runs < scope.runs
      BY <1>1, IndexerAssumption DEF RunStart, BoundsOK
    <3> QED BY <1>1, <3>1 DEF RunStart
  <2> QED BY <1>1, <2>1 DEF RunStart, StoresOK, WorkersOK, PhasesOK, BoundsOK
<1>2. ASSUME NEW w \in RunWorkers, NEW f \in todo, TakeFile(w, f)
      PROVE  TypeOK' /\ InHand'
  <2>1. f \in Files /\ phase \in {"code", "text"} /\ w \in Workers
    BY DEF PhasesOK, Workers
  <2>2. WorkersOK' /\ InHand'
    BY <1>2, <2>1 DEF TakeFile, Begin, Goto, WorkersOK, PCs, Modes
  <2>3. flaws' \in [Files -> SUBSET Flaw]
    BY <1>2 DEF TakeFile, Begin, Flawed, Flaw
  <2> QED BY <1>2, <2>2, <2>3 DEF TakeFile, StoresOK, PhasesOK, BoundsOK
<1>3. ASSUME NEW S \in SUBSET queue, EmbedBatch(S) PROVE TypeOK' /\ InHand'
  <2>1. {<<e[1], e[2], e[3]>> : e \in S} \subseteq Row
    BY DEF Row, StoresOK
  <2>2. vectors' \subseteq Row
    BY <1>3, <2>1, UpsertFacts DEF EmbedBatch, StoresOK
  <2>3. flaws' \in [Files -> SUBSET Flaw]
    BY <1>3 DEF EmbedBatch
  <2> QED BY <1>3, <2>2, <2>3 DEF EmbedBatch, StoresOK, WorkersOK, PhasesOK, BoundsOK
<1>4. CASE RunText
  BY <1>4 DEF RunText, StoresOK, WorkersOK, PhasesOK, BoundsOK
<1>5. CASE RunCommit
  BY <1>5 DEF RunCommit, StoresOK, WorkersOK, PhasesOK, BoundsOK
<1> QED BY <1>1, <1>2, <1>3, <1>4, <1>5 DEF Run

(* The watcher keeps the types.                                            *)
LEMMA WatchTypes ==
  ASSUME TypeOK, InHand, Watch
  PROVE  TypeOK' /\ InHand'
<1> USE DEF TypeOK, InHand, Puts, store, task, run, watch, bounds
<1>1. CASE NextBatch
  <2>1. flaws' \in [Files -> SUBSET Flaw]
    BY <1>1 DEF NextBatch, Flaw
  <2> QED BY <1>1, <2>1 DEF NextBatch, StoresOK, WorkersOK, PhasesOK, BoundsOK, Change
<1>2. ASSUME NEW f \in Files, TakeEvent(f) PROVE TypeOK' /\ InHand'
  <2>1. Watcher \in Workers
    BY DEF Workers
  <2>2. WorkersOK' /\ InHand'
    BY <1>2, <2>1 DEF TakeEvent, Begin, Goto, WorkersOK, PCs, Modes
  <2>3. flaws' \in [Files -> SUBSET Flaw]
    BY <1>2 DEF TakeEvent, Begin, Flawed, Flaw
  <2> QED BY <1>2, <2>2, <2>3 DEF TakeEvent, StoresOK, PhasesOK, BoundsOK, Change
<1>3. CASE EndBatch
  BY <1>3 DEF EndBatch, StoresOK, WorkersOK, PhasesOK, BoundsOK
<1> QED BY <1>1, <1>2, <1>3 DEF Watch

(* Edits, deletions, evictions, hydration and crashes keep the types.      *)
LEMMA OutsideTypes ==
  ASSUME TypeOK, InHand,
         \/ \E f \in scope.files : Edit(f) \/ Delete(f)
         \/ Evict \/ Hydrate \/ Crash
  PROVE  TypeOK' /\ InHand'
<1> USE DEF TypeOK, InHand, Puts, store, task, run, watch, bounds
<1>1. ASSUME NEW f \in scope.files, Edit(f) \/ Delete(f) PROVE TypeOK' /\ InHand'
  <2>1. /\ scope.edits \in 0 .. MaxContent - 1 /\ clock \in 1 .. scope.edits + 1
        /\ MaxContent \in Nat \ {0}
        /\ scope.files \subseteq Files /\ scope' = scope
        /\ clock' = clock + 1 /\ clock <= scope.edits
    BY <1>1, IndexerAssumption DEF Edit, Delete, BoundsOK
  <2>2. clock + 1 \in Contents /\ clock' \in 1 .. scope'.edits + 1
    BY <2>1 DEF Contents
  <2>3. disk' \in [Files -> Versions]
    BY <1>1, <2>1, <2>2 DEF Edit, Delete, BoundsOK, Versions
  <2>4. events' \in [Files -> Change]
    BY <1>1 DEF Edit, Delete, Notify, PhasesOK, Change
  <2>5. flaws' \in [Files -> SUBSET Flaw]
    BY <1>1 DEF Edit, Delete, Missed, Flawed, Flaw
  <2>6. BoundsOK'
    BY <1>1, <2>1, <2>2, <2>3 DEF Edit, Delete, BoundsOK
  <2> QED BY <1>1, <2>4, <2>5, <2>6 DEF Edit, Delete, StoresOK, WorkersOK, PhasesOK
<1>2. CASE Evict
  BY <1>2 DEF Evict, StoresOK, WorkersOK, PhasesOK, BoundsOK
<1>3. CASE Hydrate
  BY <1>3 DEF Hydrate, StoresOK, WorkersOK, PhasesOK, BoundsOK
<1>4. CASE Crash
  <2>1. flaws' \in [Files -> SUBSET Flaw]
    <3>1. \A f \in Files : flaws[f] \subseteq Flaw
      OBVIOUS
    <3> QED BY <1>4, <3>1 DEF Crash, Flaw
  <2>2. WorkersOK' /\ InHand'
    BY <1>4 DEF Crash, WorkersOK, PCs, Modes, Versions
  <2>3. StoresOK'
    BY <1>4 DEF Crash, StoresOK
  <2>4. PhasesOK'
    BY <1>4 DEF Crash, PhasesOK, Change
  <2>5. BoundsOK'
    <3>1. scope.crashes \in Nat /\ crashes \in 0 .. scope.crashes /\ crashes < scope.crashes
      BY <1>4, IndexerAssumption DEF Crash, BoundsOK
    <3>2. crashes' \in 0 .. scope.crashes
      BY <1>4, <3>1 DEF Crash
    <3> QED BY <1>4, <3>2 DEF Crash, BoundsOK
  <2> QED BY <2>1, <2>2, <2>3, <2>4, <2>5
<1> QED BY <1>1, <1>2, <1>3, <1>4

(* Every variable stays in its type, with any number of files and workers: *)
(* whatever a worker writes, it has hashed and parsed before.              *)
THEOREM TypeCorrect == Spec => [](TypeOK /\ InHand)
<1>1. Init => TypeOK /\ InHand
  <2> SUFFICES ASSUME Init PROVE TypeOK /\ InHand
    OBVIOUS
  <2>1. 1 \in Contents /\ 0 \in Versions /\ 1 \in Versions
    BY IndexerAssumption DEF Contents, Versions
  <2>2. /\ scope.edits \in 0 .. MaxContent - 1 /\ scope.runs \in Nat
        /\ scope.crashes \in Nat /\ MaxContent \in Nat \ {0}
    BY IndexerAssumption DEF Init
  <2>3. BoundsOK
    BY <2>1, <2>2 DEF Init, BoundsOK
  <2>4. StoresOK
    BY <2>1 DEF Init, StoresOK
  <2>5. WorkersOK /\ InHand
    BY <2>1 DEF Init, WorkersOK, InHand, PCs, Modes, Puts
  <2>6. PhasesOK /\ flaws \in [Files -> SUBSET Flaw]
    BY DEF Init, PhasesOK, Change
  <2> QED BY <2>3, <2>4, <2>5, <2>6 DEF TypeOK
<1>2. TypeOK /\ InHand /\ [Next]_vars => TypeOK' /\ InHand'
  <2> SUFFICES ASSUME TypeOK, InHand, [Next]_vars PROVE TypeOK' /\ InHand'
    OBVIOUS
  <2>1. CASE UNCHANGED vars
    BY <2>1 DEF vars, TypeOK, StoresOK, WorkersOK, PhasesOK, BoundsOK, InHand
  <2> QED BY <2>1, PipelineTypes, RunTypes, WatchTypes, OutsideTypes DEF Next
<1> QED BY <1>1, <1>2, PTL DEF Spec

-----------------------------------------------------------------------------
(* Whoever writes to the stores works inside a run or inside a batch, and  *)
(* each of them ends with a commit.                                        *)
Housed ==
  /\ \A w \in RunWorkers : pc[w] # "idle" => phase # "off"
  /\ pc[Watcher] # "idle" => inBatch
  /\ ~inBatch => \A f \in Files : batch[f] = "none"
  /\ CommittedAtRest

(* Work is done inside a run or a batch.                                   *)
THEOREM WorkHoused == Spec => []Housed
<1>1. Init => Housed
  BY DEF Init, Housed, CommittedAtRest, Workers
<1>2. TypeOK /\ InHand /\ Housed /\ [Next]_vars => Housed'
  <2> SUFFICES ASSUME TypeOK, InHand, Housed, [Next]_vars PROVE Housed'
    OBVIOUS
  <2> USE IndexerAssumption
      DEF Housed, CommittedAtRest, Goto, Done, At, store, run, watch, bounds, task, Workers,
          TypeOK, WorkersOK
  <2>1. ASSUME NEW w \in Workers, Pipeline(w) PROVE Housed'
    <3>1. /\ pc[w] # "idle" /\ phase' = phase /\ inBatch' = inBatch /\ batch' = batch
          /\ \A v \in Workers : v # w => pc'[v] = pc[v]
          /\ committed' = committed
      BY <2>1 DEF Pipeline, Read, Compare, DelDocs, DelSymbols, DelNodes, DelEdges,
                  DelVectors, DelHash, Parse, PutDocs, PutSymbols, PutNodes, PutEdges, Stamp
    <3>2. phase # "off" \/ inBatch
      BY <3>1
    <3> QED BY <3>1, <3>2
  <2>2. CASE Run
    <3>1. ASSUME NEW v \in BOOLEAN, RunStart(v) PROVE Housed'
      <4>1. phase' = "code" /\ pc' = pc /\ inBatch' = inBatch /\ batch' = batch
        BY <3>1 DEF RunStart
      <4> QED BY <4>1
    <3>2. ASSUME NEW w \in RunWorkers, NEW f \in todo, TakeFile(w, f) PROVE Housed'
      <4>1. phase # "off" /\ phase' = phase /\ inBatch' = inBatch /\ batch' = batch
            /\ pc'[Watcher] = pc[Watcher]
        BY <3>2 DEF TakeFile, Begin, InHand
      <4> QED BY <4>1
    <3>3. ASSUME NEW S \in SUBSET queue, EmbedBatch(S) PROVE Housed'
      BY <3>3 DEF EmbedBatch
    <3>4. CASE RunText    BY <3>4 DEF RunText
    <3>5. CASE RunCommit  BY <3>5 DEF RunCommit, RunsIdle
    <3> QED BY <2>2, <3>1, <3>2, <3>3, <3>4, <3>5 DEF Run
  <2>3. CASE Watch
    <3>1. CASE NextBatch
      <4>1. /\ inBatch' \/ (inBatch' = inBatch /\ batch' = batch)
            /\ pc' = pc /\ phase' = phase /\ docs' = docs /\ committed' = committed
            /\ ~inBatch
        BY <3>1 DEF NextBatch
      <4> QED BY <4>1
    <3>2. ASSUME NEW f \in Files, TakeEvent(f) PROVE Housed'
      <4>1. inBatch' = inBatch /\ phase' = phase /\ inBatch /\ batch[f] # "none"
            /\ \A w \in RunWorkers : pc'[w] = pc[w]
        BY <3>2 DEF TakeEvent, Begin, InHand
      <4> QED BY <4>1
    <3>3. CASE EndBatch   BY <3>3 DEF EndBatch
    <3> QED BY <2>3, <3>1, <3>2, <3>3 DEF Watch
  <2>4. ASSUME NEW f \in scope.files, Edit(f) \/ Delete(f) PROVE Housed'
    BY <2>4 DEF Edit, Delete
  <2>5. CASE Evict    BY <2>5 DEF Evict
  <2>6. CASE Hydrate  BY <2>6 DEF Hydrate
  <2>7. CASE Crash    BY <2>7 DEF Crash
  <2>8. CASE UNCHANGED vars
    BY <2>8 DEF vars
  <2> QED BY <2>1, <2>2, <2>3, <2>4, <2>5, <2>6, <2>7, <2>8 DEF Next
<1> QED BY <1>1, <1>2, TypeCorrect, PTL DEF Spec

(* However full runs, watcher batches, evictions and crashes interleave:   *)
(* when no run and no batch is going on, a search finds every document the *)
(* indexer wrote, and a crash takes none.                                  *)
THEOREM SearchableAtRest == Spec => []CommittedAtRest
BY WorkHoused, PTL DEF Housed

-----------------------------------------------------------------------------
(* What is true of one file, and of the workers at it.                     *)

OnFile(f) == {w \in Workers : on[w] = f}

(* Only a worker that shares its file is tangled, and the file is marked.  *)
Apart(f) ==
  /\ \A w \in OnFile(f) : w \in tangled => {"overlap", "orphanEdges"} \subseteq flaws[f]
  /\ \A w, v \in OnFile(f) : w \notin tangled => v = w

(* Contents that have been are below the clock, the next one is above.     *)
Aged(f) ==
  /\ disk[f] <= clock /\ hash[f] <= clock
  /\ \A w \in OnFile(f) : seen[w] <= clock

Purging(w) == mode[w] = "purge"
Deleting == {"delSymbols", "delNodes", "delEdges", "delVectors", "delHash"}

(* The recorded hash is not that of what is on disk.                       *)
Stale(f) == hash[f] # disk[f] \/ hash[f] = 0

(* Who works on f alone has read one content, unless the file changed.     *)
ReadOnce(w, f) ==
  /\ pc[w] = "compare" /\ ~Purging(w) => seen[w] = disk[f] \/ Stale(f)
  /\ pc[w] \in {"delDocs", "parse", "stamp"} \cup Deleting \cup Puts /\ ~Purging(w) => Stale(f)
  /\ pc[w] \in {"stamp"} \cup Puts => (disk[f] = seen[w] => parsed[w] = seen[w])

(* What the documents, the symbols, ... hold of f while w works on it.     *)
DocsMidway(w, f) ==
  /\ pc[w] \in {"parse", "putDocs"} \cup Deleting => Of(docs, f) = {}
  /\ pc[w] \in {"putSymbols", "putNodes", "putEdges"} => Of(docs, f) = Parsed(w)
  /\ pc[w] = "stamp" /\ parsed[w] = seen[w] => Of(docs, f) = Parsed(w)

RowsMidway(w, f) ==
  mode[w] # "text" =>
    /\ pc[w] \in {"delNodes", "delEdges", "delVectors", "delHash", "parse", "putDocs", "putSymbols"}
         => Of(symbols, f) = {}
    /\ pc[w] \in {"putNodes", "putEdges", "stamp"} => Of(symbols, f) = Parsed(w)
    /\ pc[w] \in {"delEdges", "delVectors", "delHash", "parse", "putDocs", "putSymbols", "putNodes"}
         => f \notin nodes
    /\ pc[w] \in {"putEdges", "stamp"} /\ f \in Code => f \in nodes

EdgesMidway(w, f) ==
  mode[w] # "text" =>
    /\ pc[w] \in {"delVectors", "delHash", "parse"} \cup Puts
         => Unless(f, {"orphanEdges"}) \/ Of(edges, f) = {}
    /\ pc[w] = "stamp" =>
         /\ Imports(f, parsed[w]) \subseteq imports
         /\ Unless(f, {"severed"}) \/ Links(f, parsed[w]) \subseteq edges
         /\ Unless(f, {"orphanEdges"}) \/ Of(edges, f) \subseteq Links(f, parsed[w])

VectorsMidway(w, f) ==
  f \in Code /\ pc[w] \in {"delHash", "parse", "stamp"} \cup Puts =>
    Unless(f, {"oldVectors"}) \/ (Of(vectors, f) = {} /\ Of(queue, f) = {})

Midway(w, f) ==
  /\ mode[w] = "text" => f \in Text
  /\ Purging(w) => pc[w] \in {"delDocs"} \cup Deleting
  /\ ReadOnce(w, f) /\ DocsMidway(w, f) /\ RowsMidway(w, f)
  /\ EdgesMidway(w, f) /\ VectorsMidway(w, f)

(* Edges of f that nobody knows to be orphans can still be purged.         *)
Owned(f) ==
  Of(edges, f) # {} =>
    \/ Unless(f, {"orphanEdges"}) \/ f \in nodes
    \/ \E w \in OnFile(f) : pc[w] = "delEdges" /\ f \in doomed[w]

(* No one has begun to rewrite f, and the next run will skip it.           *)
Settled(f) ==
  /\ \A w \in OnFile(f) : pc[w] \in {"read", "compare"}
  /\ disk[f] # 0 /\ hash[f] = disk[f]
  /\ ~Unless(f, {"overlap", "halfPurged"})

StoresFollow(f) ==
  /\ Unless(f, {"uncommitted", "blank"}) \/ Of(docs, f) = Rows(f, disk[f])
  /\ f \in Code => Of(symbols, f) = Rows(f, disk[f]) /\ f \in nodes
  /\ Imports(f, disk[f]) \subseteq imports
  /\ Unless(f, {"severed"}) \/ Links(f, disk[f]) \subseteq edges
  /\ Unless(f, {"orphanEdges"}) \/ Of(edges, f) \subseteq Links(f, disk[f])

(* No vector of another content is there or on its way.                    *)
EmbeddingsFollow(f) ==
  f \in Code /\ ~Unless(f, {"oldVectors"}) =>
    /\ Of(vectors, f) \subseteq Rows(f, disk[f])
    /\ \A e \in Of(queue, f) : <<f, e[2], e[3]>> \in Rows(f, disk[f])
    /\ Unless(f, {"noVectors"}) \/ Rows(f, disk[f]) \subseteq vectors

AtRest(f) == Settled(f) => StoresFollow(f) /\ EmbeddingsFollow(f)

(* The watcher is going to hear, or has heard, that f is gone.             *)
Pending(f) == events[f] = "deleted" \/ batch[f] = "deleted" \/ Unless(f, {"missed"})

Gone(f) ==
  /\ hash[f] = 0 /\ f \notin nodes /\ Of(symbols, f) = {}
  /\ Unless(f, {"uncommitted"}) \/ Of(docs, f) = {}
  /\ Unless(f, {"orphanEdges"}) \/ Of(edges, f) = {}

Told(f) ==
  disk[f] = 0 =>
    /\ \A w \in OnFile(f) : w \notin tangled /\ ~Purging(w) /\ pc[w] # "read" => Pending(f)
    /\ f \in Code /\ ~Unless(f, {"overlap"}) =>
         \/ Pending(f)
         \/ \E w \in OnFile(f) : Purging(w)
         \/ Gone(f)

FileOK(f) ==
  /\ Apart(f) /\ Aged(f) /\ Owned(f) /\ AtRest(f) /\ Told(f)
  /\ \A w \in OnFile(f) : w \notin tangled => Midway(w, f)

(* What a run has not taken yet, has in hand and has queued are different  *)
(* files, and only the code pass queues.                                   *)
Turns ==
  /\ \A w \in Workers : pc[w] = "idle" => on[w] = NoFile /\ seen[w] = 0 /\ w \notin tangled
  /\ \A w \in RunWorkers : on[w] \notin todo /\ \A v \in RunWorkers \ {w} :
       on[w] # NoFile => on[v] # on[w]
  /\ phase = "code" => todo \subseteq Code
  /\ phase = "text" => todo \subseteq Text
  /\ \A e \in queue : phase = "code" /\ e[1] \notin todo /\ \A w \in RunWorkers : on[w] # e[1]
  /\ \A w \in RunWorkers : pc[w] # "idle" => mode[w] = phase
  /\ mode[Watcher] # "text"

FilesOK == \A f \in Files : FileOK(f)

-----------------------------------------------------------------------------
(* The rows of one file.                                                   *)
LEMMA OfWithout ==
  ASSUME NEW S, NEW f, NEW g
  PROVE  Of(Without(S, g), f) = IF f = g THEN {} ELSE Of(S, f)
BY DEF Of, Without

(* An insert of other files' rows is none of f's business.                 *)
LEMMA OfUpsertOther ==
  ASSUME NEW S, NEW N, NEW f, \A y \in N : y[1] # f
  PROVE  Of(Upsert(S, N), f) = Of(S, f)
<1>1. \A x \in S : x[1] = f => \A y \in N : <<x[1], x[2]>> # <<y[1], y[2]>>
  OBVIOUS
<1> QED BY <1>1 DEF Of, Upsert

(* An insert where there was nothing of f leaves what was inserted.        *)
LEMMA OfUpsertFresh ==
  ASSUME NEW S, NEW N, NEW f, \A y \in N : y[1] = f, Of(S, f) = {}
  PROVE  Of(Upsert(S, N), f) = N
<1>1. \A x \in Upsert(S, N) : x \in S \/ x \in N
  BY DEF Upsert
<1>2. N \subseteq Upsert(S, N)
  BY DEF Upsert
<1> QED BY <1>1, <1>2 DEF Of

(* A row carries its file, a range of its content, and its content.        *)
LEMMA RowsAre ==
  ASSUME NEW f, NEW c
  PROVE  \A x \in Rows(f, c) : x[1] = f /\ x[3] = c /\ x = <<f, x[2], c>> /\ x[2] \in LinesOf[c]
BY DEF Rows

(* Every content has rows.                                                 *)
LEMMA RowsThere ==
  ASSUME NEW f, NEW c \in Contents
  PROVE  Rows(f, c) # {}
<1>1. LinesOf[c] # {}
  BY IndexerAssumption
<1>2. PICK r : r \in LinesOf[c]
  BY <1>1
<1>3. <<f, r, c>> \in Rows(f, c)
  BY <1>2 DEF Rows
<1> QED BY <1>3

(* Links and imports belong to their file, and only code has them.         *)
LEMMA LinksAre ==
  ASSUME NEW f, NEW c
  PROVE  /\ \A x \in Links(f, c) : x[1] = f
         /\ \A x \in Imports(f, c) : x[1] = f
         /\ f \notin Code => Links(f, c) = {} /\ Imports(f, c) = {}
BY DEF Links, Imports

-----------------------------------------------------------------------------
(* A step that leaves alone what concerns f, or only adds an exception.    *)
Steady(f) ==
  /\ disk'[f] = disk[f] /\ hash'[f] = hash[f] /\ clock <= clock' /\ clock' \in Nat
  /\ Of(docs', f) = Of(docs, f) /\ Of(symbols', f) = Of(symbols, f)
  /\ Of(vectors', f) = Of(vectors, f) /\ Of(queue', f) = Of(queue, f)
  /\ f \in nodes' <=> f \in nodes
  /\ imports \subseteq imports'
  /\ Of(edges', f) \subseteq Of(edges, f)
  /\ "severed" \in flaws'[f] \/ Of(edges', f) = Of(edges, f)
  /\ flaws[f] \subseteq flaws'[f]
  /\ Pending(f) => Pending(f)'
  /\ OnFile(f)' = OnFile(f)
  /\ \A w \in OnFile(f) :
       /\ pc'[w] = pc[w] /\ mode'[w] = mode[w] /\ seen'[w] = seen[w]
       /\ on'[w] = on[w] /\ parsed'[w] = parsed[w] /\ doomed'[w] = doomed[w]
       /\ w \in tangled' <=> w \in tangled

(* What holds of f midway or at rest goes on holding when a step is steady.*)
LEMMA SteadyMidway ==
  ASSUME NEW f \in Files, Steady(f), NEW w \in OnFile(f), Midway(w, f)
  PROVE  Midway(w, f)'
<1>1. Parsed(w)' = Parsed(w)
  BY DEF Parsed, Steady
<1>2. Unless(f, {"severed"})' \/ (Links(f, parsed[w]) \subseteq edges => Links(f, parsed'[w]) \subseteq edges')
  <2>1. Of(edges', f) = Of(edges, f) /\ Links(f, parsed[w]) \subseteq edges => Links(f, parsed[w]) \subseteq edges'
    BY LinksAre DEF Of
  <2> QED BY <2>1 DEF Steady, Unless
<1> USE DEF Steady
<1>3. \A x : Unless(f, {x}) => Unless(f, {x})'
  BY DEF Unless
<1>4. ReadOnce(w, f)'
  BY DEF Midway, ReadOnce, Stale, Purging
<1>5. DocsMidway(w, f)'
  BY <1>1 DEF Midway, DocsMidway
<1>6. RowsMidway(w, f)'
  BY <1>1 DEF Midway, RowsMidway
<1>7. EdgesMidway(w, f)'
  BY <1>2, <1>3 DEF Midway, EdgesMidway
<1>8. VectorsMidway(w, f)'
  BY <1>3 DEF Midway, VectorsMidway
<1> QED BY <1>4, <1>5, <1>6, <1>7, <1>8 DEF Midway, Purging

(* A file at rest stays at rest through a step that does not concern it.   *)
LEMMA SteadyAtRest ==
  ASSUME NEW f \in Files, Steady(f), AtRest(f)
  PROVE  AtRest(f)'
<1> SUFFICES ASSUME Settled(f)' PROVE StoresFollow(f)' /\ EmbeddingsFollow(f)'
  BY DEF AtRest
<1>1. \A X : Unless(f, X) => Unless(f, X)'
  BY DEF Steady, Unless
<1>2. Settled(f)
  BY <1>1 DEF Steady, Settled
<1>3. StoresFollow(f) /\ EmbeddingsFollow(f)
  BY <1>2 DEF AtRest
<1> USE DEF Steady
<1>4. Unless(f, {"severed"})' \/ (Links(f, disk[f]) \subseteq edges => Links(f, disk'[f]) \subseteq edges')
  <2>1. Of(edges', f) = Of(edges, f) /\ Links(f, disk[f]) \subseteq edges => Links(f, disk[f]) \subseteq edges'
    BY LinksAre DEF Of
  <2> QED BY <2>1 DEF Unless
<1>5. StoresFollow(f)'
  BY <1>1, <1>3, <1>4 DEF StoresFollow
<1>6. Rows(f, disk[f]) \subseteq vectors => Rows(f, disk'[f]) \subseteq vectors'
  <2>1. Rows(f, disk[f]) \subseteq vectors => Rows(f, disk[f]) \subseteq Of(vectors, f)
    BY RowsAre DEF Of
  <2> QED BY <2>1 DEF Of
<1>7. EmbeddingsFollow(f)'
  BY <1>1, <1>3, <1>6 DEF EmbeddingsFollow
<1> QED BY <1>5, <1>7

(* All that is said of a file survives a step that does not concern it.    *)
LEMMA SteadyFile ==
  ASSUME NEW f \in Files, FileOK(f), Steady(f), TypeOK
  PROVE  FileOK(f)'
<1>1. \A X : Unless(f, X) => Unless(f, X)'
  BY DEF Steady, Unless
<1>2. Apart(f)'
  BY DEF FileOK, Apart, Steady
<1>3. Aged(f)'
  <2>1. disk[f] \in Nat /\ hash[f] \in Nat /\ clock \in Nat /\ \A w \in OnFile(f) : seen[w] \in Nat
    BY IndexerAssumption DEF TypeOK, StoresOK, BoundsOK, WorkersOK, Versions, Contents, OnFile
  <2> QED BY <2>1 DEF FileOK, Aged, Steady
<1>4. Owned(f)'
  BY <1>1 DEF FileOK, Owned, Steady
<1>5. AtRest(f)'
  BY SteadyAtRest DEF FileOK
<1>6. Told(f)'
  BY <1>1 DEF FileOK, Told, Gone, Purging, Steady
<1>7. \A w \in OnFile(f)' : w \notin tangled' => Midway(w, f)'
  BY SteadyMidway DEF FileOK, Steady
<1> QED BY <1>2, <1>3, <1>4, <1>5, <1>6, <1>7 DEF FileOK

(* A worker's step concerns its own file, except that a purge takes edges  *)
(* that end there.                                                         *)
LEMMA StepOthers ==
  ASSUME TypeOK, InHand, NEW w \in Workers, Pipeline(w)
  PROVE  /\ UNCHANGED <<disk, clock, events, batch>>
         /\ \A v \in Workers : v # w =>
              /\ pc'[v] = pc[v] /\ on'[v] = on[v] /\ mode'[v] = mode[v] /\ seen'[v] = seen[v]
              /\ parsed'[v] = parsed[v] /\ doomed'[v] = doomed[v]
              /\ v \in tangled' <=> v \in tangled
         /\ on[w] \in Files /\ on[w] # NoFile
         /\ \/ on'[w] = on[w] /\ pc'[w] # "idle" /\ (w \in tangled' <=> w \in tangled)
            \/ on'[w] = NoFile /\ pc'[w] = "idle" /\ w \notin tangled'
<1>0. pc[w] # "idle" /\ on[w] \in Files /\ on[w] # NoFile
  BY IndexerAssumption DEF Pipeline, InHand, At, Read, Compare, DelDocs, DelSymbols, DelNodes, DelEdges,
         DelVectors, DelHash, Parse, PutDocs, PutSymbols, PutNodes, PutEdges, Stamp
<1> USE DEF TypeOK, WorkersOK, Goto, Done, bounds, watch
<1>1. CASE Read(w)        BY <1>0, <1>1 DEF Read
<1>2. CASE Compare(w)     BY <1>0, <1>2 DEF Compare
<1>3. CASE DelDocs(w)     BY <1>0, <1>3 DEF DelDocs
<1>4. CASE DelSymbols(w)
  <2>1. \A v \in Workers : v # w => doomed'[v] = doomed[v]
    BY <1>4 DEF DelSymbols
  <2> QED BY <1>0, <1>4, <2>1 DEF DelSymbols
<1>5. CASE DelNodes(w)
  <2>1. \A v \in Workers : v # w => doomed'[v] = doomed[v]
    BY <1>5 DEF DelNodes
  <2> QED BY <1>0, <1>5, <2>1 DEF DelNodes
<1>6. CASE DelEdges(w)    BY <1>0, <1>6 DEF DelEdges
<1>7. CASE DelVectors(w)  BY <1>0, <1>7 DEF DelVectors
<1>8. CASE DelHash(w)     BY <1>0, <1>8 DEF DelHash
<1>9. CASE Parse(w)       BY <1>0, <1>9 DEF Parse
<1>10. CASE PutDocs(w)    BY <1>0, <1>10 DEF PutDocs
<1>11. CASE PutSymbols(w) BY <1>0, <1>11 DEF PutSymbols
<1>12. CASE PutNodes(w)   BY <1>0, <1>12 DEF PutNodes
<1>13. CASE PutEdges(w)   BY <1>0, <1>13 DEF PutEdges
<1>14. CASE Stamp(w)      BY <1>0, <1>14 DEF Stamp
<1> QED BY <1>1, <1>2, <1>3, <1>4, <1>5, <1>6, <1>7, <1>8, <1>9, <1>10, <1>11, <1>12,
           <1>13, <1>14 DEF Pipeline

(* Rows a worker inserts are those of its file.                            *)
LEMMA ParsedAre ==
  ASSUME NEW w
  PROVE  \A x \in Parsed(w) : x[1] = on[w] /\ x[3] = parsed[w]
BY RowsAre DEF Parsed

(* Of every other file a step keeps what FileOK is about.                  *)
LEMMA StepElsewhere ==
  ASSUME TypeOK, InHand, NEW w \in Workers, Pipeline(w), NEW f \in Files, f # on[w]
  PROVE  Steady(f)
<1>1. /\ disk'[f] = disk[f] /\ clock <= clock' /\ clock' \in Nat
      /\ Pending(f) /\ flaws[f] \subseteq flaws'[f] => Pending(f)'
  BY StepOthers, IndexerAssumption DEF TypeOK, BoundsOK, Pending, Unless
<1>2. OnFile(f)' = OnFile(f)
  BY StepOthers, IndexerAssumption DEF OnFile
<1>3. \A v \in OnFile(f) :
        /\ pc'[v] = pc[v] /\ mode'[v] = mode[v] /\ seen'[v] = seen[v]
        /\ on'[v] = on[v] /\ parsed'[v] = parsed[v] /\ doomed'[v] = doomed[v]
        /\ v \in tangled' <=> v \in tangled
  BY StepOthers DEF OnFile
<1> DEFINE Same ==
      /\ hash'[f] = hash[f]
      /\ Of(docs', f) = Of(docs, f) /\ Of(symbols', f) = Of(symbols, f)
      /\ Of(vectors', f) = Of(vectors, f) /\ Of(queue', f) = Of(queue, f)
      /\ f \in nodes' <=> f \in nodes
      /\ imports \subseteq imports'
      /\ Of(edges', f) \subseteq Of(edges, f)
      /\ "severed" \in flaws'[f] \/ Of(edges', f) = Of(edges, f)
      /\ flaws[f] \subseteq flaws'[f]
<1>4. Same
  <2> USE DEF TypeOK, StoresOK, store, run, Flawed, FreshStart
  <2>1. CASE Read(w)        BY <2>1 DEF Read
  <2>2. CASE Compare(w)     BY <2>2 DEF Compare
  <2>3. CASE DelDocs(w)     BY <2>3, OfWithout DEF DelDocs
  <2>4. CASE DelSymbols(w)  BY <2>4, OfWithout DEF DelSymbols
  <2>5. CASE DelNodes(w)    BY <2>5 DEF DelNodes
  <2>6. CASE DelEdges(w)
    <3> DEFINE gone == {e \in edges : e[1] \in doomed[w] \/ e[2] \in doomed[w]}
    <3>1. edges' = edges \ gone
      BY <2>6 DEF DelEdges
    <3>2. flaws'[f] = IF Of(gone, f) # {} THEN flaws[f] \cup {"severed"} ELSE flaws[f]
      BY <2>6 DEF DelEdges
    <3> HIDE DEF gone
    <3>3. Of(edges', f) \subseteq Of(edges, f) /\ (Of(gone, f) = {} => Of(edges', f) = Of(edges, f))
      BY <3>1 DEF Of
    <3> QED BY <2>6, <3>2, <3>3 DEF DelEdges
  <2>7. CASE DelVectors(w)  BY <2>7, OfWithout DEF DelVectors
  <2>8. CASE DelHash(w)     BY <2>8 DEF DelHash
  <2>9. CASE Parse(w)       BY <2>9 DEF Parse
  <2>10. CASE PutDocs(w)
    <3>1. Of(docs', f) = Of(docs, f)
      BY <2>10, OfUpsertOther, ParsedAre DEF PutDocs
    <3> QED BY <2>10, <3>1 DEF PutDocs
  <2>11. CASE PutSymbols(w)
    <3>1. Of(symbols', f) = Of(symbols, f)
      BY <2>11, OfUpsertOther, ParsedAre DEF PutSymbols
    <3> QED BY <2>11, <3>1 DEF PutSymbols
  <2>12. CASE PutNodes(w)   BY <2>12 DEF PutNodes
  <2>13. CASE PutEdges(w)
    <3>1. Of(edges', f) = Of(edges, f)
      BY <2>13, LinksAre DEF PutEdges, Of
    <3> QED BY <2>13, <3>1 DEF PutEdges
  <2>14. CASE Stamp(w)
    <3>1. Of(queue', f) = Of(queue, f)
      <4>1. \A e \in {<<e[1], e[2], e[3], seen[w]>> : e \in Parsed(w)} : e[1] # f
        BY ParsedAre
      <4> QED BY <2>14, <4>1 DEF Stamp, Of
    <3> QED BY <2>14, <3>1 DEF Stamp
  <2> QED BY <2>1, <2>2, <2>3, <2>4, <2>5, <2>6, <2>7, <2>8, <2>9, <2>10, <2>11, <2>12,
             <2>13, <2>14 DEF Pipeline
<1> HIDE DEF Same
<1>5. flaws[f] \subseteq flaws'[f]
  BY <1>4 DEF Same
<1> QED BY <1>1, <1>2, <1>3, <1>4, <1>5 DEF Same, Steady

(* Nothing a worker writes or reads is newer than the clock.               *)
LEMMA StepAges ==
  ASSUME TypeOK, InHand, NEW w \in Workers, Pipeline(w), NEW f \in Files, f = on[w], Aged(f),
         OnFile(f)' \subseteq OnFile(f)
  PROVE  Aged(f)'
<1>0. w \in OnFile(f) /\ 0 <= clock /\ disk' = disk /\ clock' = clock
  BY StepOthers, IndexerAssumption DEF OnFile, TypeOK, BoundsOK
<1>1. hash'[f] \in {hash[f], seen[w], 0}
  BY DEF TypeOK, StoresOK, store, Pipeline, Read, Compare, DelDocs, DelSymbols, DelNodes, DelEdges,
         DelVectors, DelHash, Parse, PutDocs, PutSymbols, PutNodes, PutEdges, Stamp
<1>2. seen'[w] \in {seen[w], disk[f], 0}
  BY DEF TypeOK, WorkersOK, Done, Pipeline, Read, Compare, DelDocs, DelSymbols, DelNodes, DelEdges,
         DelVectors, DelHash, Parse, PutDocs, PutSymbols, PutNodes, PutEdges, Stamp
<1>3. \A v \in OnFile(f)' : v # w => seen'[v] = seen[v]
  BY StepOthers DEF OnFile
<1> QED BY <1>0, <1>1, <1>2, <1>3 DEF Aged

(* A worker that shares its file can only leave it as bad as it is marked. *)
LEMMA TangledStep ==
  ASSUME TypeOK, InHand, NEW w \in Workers, Pipeline(w), w \in tangled,
         NEW f \in Files, f = on[w], FileOK(f)
  PROVE  FileOK(f)'
<1>0. w \in OnFile(f)
  BY StepOthers DEF OnFile
<1>1. \A v \in OnFile(f) : v \in tangled
  BY <1>0 DEF FileOK, Apart
<1>2. {"overlap", "orphanEdges"} \subseteq flaws[f]
  BY <1>0, <1>1 DEF FileOK, Apart
<1>3. {"overlap", "orphanEdges"} \subseteq flaws'[f]
  <2> USE <1>0, <1>2 DEF TypeOK, Flawed, FreshStart
  <2>1. CASE Read(w) \/ DelSymbols(w) \/ DelNodes(w) \/ DelHash(w) \/ Parse(w)
    BY <2>1 DEF Read, DelSymbols, DelNodes, DelHash, Parse
  <2>2. CASE PutDocs(w) \/ PutSymbols(w) \/ PutNodes(w) \/ PutEdges(w)
    BY <2>2 DEF PutDocs, PutSymbols, PutNodes, PutEdges
  <2>3. CASE Compare(w)     BY <2>3 DEF Compare
  <2>4. CASE DelDocs(w)     BY <2>4 DEF DelDocs
  <2>5. CASE DelEdges(w)    BY <2>5 DEF DelEdges
  <2>6. CASE DelVectors(w)  BY <2>6 DEF DelVectors
  <2>7. CASE Stamp(w)       BY <2>7 DEF Stamp
  <2> QED BY <2>1, <2>2, <2>3, <2>4, <2>5, <2>6, <2>7 DEF Pipeline
<1>4. OnFile(f)' \subseteq OnFile(f) /\ \A v \in OnFile(f)' : v \in tangled'
  BY <1>0, <1>1, StepOthers DEF OnFile
<1>5. Aged(f)'
  BY <1>0, <1>4, StepAges DEF FileOK
<1>6. Apart(f)'
  BY <1>3, <1>4 DEF Apart
<1>7. Owned(f)' /\ AtRest(f)' /\ Told(f)'
  BY <1>3, <1>4 DEF Owned, AtRest, Settled, Told, Unless
<1> QED BY <1>4, <1>5, <1>6, <1>7 DEF FileOK

-----------------------------------------------------------------------------
(* The steps of a worker that has its file for itself.                     *)
Alone(w, f) ==
  /\ TypeOK /\ InHand /\ Turns /\ w \in Workers /\ f \in Files /\ f = on[w] /\ w \notin tangled
  /\ FileOK(f)

(* Nobody else is at the file of a worker that is not tangled.             *)
LEMMA AloneFacts ==
  ASSUME NEW w, NEW f, Alone(w, f), Pipeline(w)
  PROVE  /\ OnFile(f) = {w} /\ Midway(w, f) /\ disk' = disk /\ events' = events /\ batch' = batch
         /\ OnFile(f)' = {w} \/ OnFile(f)' = {}
         /\ on'[w] = f => OnFile(f)' = {w} /\ w \notin tangled'
         /\ on'[w] # f => OnFile(f)' = {}
         /\ Aged(f)'
         /\ hash[f] \in Nat /\ seen[w] \in Nat /\ disk[f] \in Nat
<1>1. OnFile(f) = {w}
  BY DEF Alone, FileOK, Apart, OnFile
<1>2. /\ OnFile(f)' = {w} \/ OnFile(f)' = {}
      /\ on'[w] = f => OnFile(f)' = {w} /\ w \notin tangled'
      /\ on'[w] # f => OnFile(f)' = {}
  BY <1>1, StepOthers DEF Alone, OnFile
<1>3. Aged(f)'
  BY <1>1, <1>2, StepAges DEF Alone, FileOK
<1> QED BY <1>1, <1>2, <1>3, StepOthers
        DEF Alone, FileOK, TypeOK, StoresOK, WorkersOK, BoundsOK, Versions, Contents

(* It keeps the file: what was told about the file stays told.             *)
LEMMA Stays ==
  ASSUME NEW w, NEW f, Alone(w, f), Pipeline(w), on'[w] = f, pc[w] # "read",
         mode'[w] = mode[w], pc'[w] \notin {"read", "compare"},
         Pending(f) /\ ~Purging(w) /\ disk[f] = 0 => Pending(f)',
         Midway(w, f)', Owned(f)'
  PROVE  FileOK(f)'
<1>1. OnFile(f)' = {w} /\ OnFile(f) = {w} /\ Aged(f)' /\ w \notin tangled' /\ disk' = disk
  BY AloneFacts
<1>2. Apart(f)' /\ AtRest(f)'
  BY <1>1 DEF Apart, AtRest, Settled
<1>3. disk[f] = 0 /\ ~Purging(w) => Pending(f)
  BY <1>1 DEF Alone, FileOK, Told
<1>4. Told(f)'
  BY <1>1, <1>3 DEF Told, Purging
<1> QED BY <1>1, <1>2, <1>4 DEF FileOK

(* It leaves the file: what matters then is what is at rest.               *)
LEMMA Leaves ==
  ASSUME NEW w, NEW f, Alone(w, f), Pipeline(w), on'[w] # f, Owned(f)', AtRest(f)', Told(f)'
  PROVE  FileOK(f)'
BY AloneFacts DEF FileOK, Apart

(* Read and Compare: the work begins only when the hash is not the file's. *)
LEMMA OwnReads ==
  ASSUME NEW w, NEW f, Alone(w, f), Read(w) \/ Compare(w)
  PROVE  FileOK(f)'
<1> USE DEF At, Alone, store, run
<1>0. /\ OnFile(f) = {w} /\ Midway(w, f) /\ Aged(f)' /\ OnFile(f)' \in {{w}, {}} /\ Pipeline(w)
      /\ disk' = disk /\ events' = events /\ batch' = batch
      /\ on'[w] = f => OnFile(f)' = {w} /\ w \notin tangled'
      /\ on'[w] # f => OnFile(f)' = {}
      /\ f # NoFile /\ w \in Workers
  BY AloneFacts, IndexerAssumption DEF Pipeline
<1>1. CASE Read(w)
  <2>0. pc[w] = "read" /\ mode[w] # "purge" /\ UNCHANGED <<store, flaws, queue, disk, events, batch>>
    BY <1>0, <1>1 DEF Read, Midway, Purging, Deleting, watch
  <2>1. CASE disk[f] = 0
    <3>1. on'[w] # f
      BY <1>0, <1>1, <2>1 DEF Read, Done, TypeOK, WorkersOK
    <3>2. Owned(f)' /\ AtRest(f)'
      BY <1>0, <2>0, <2>1, <3>1 DEF FileOK, Owned, AtRest, Settled, Unless
    <3>3. Told(f)'
      BY <1>0, <2>0, <2>1, <3>1 DEF FileOK, Told, Pending, Gone, Purging, Unless
    <3> QED BY <1>0, <3>1, <3>2, <3>3, Leaves
  <2>2. CASE disk[f] # 0
    <3>1. /\ pc'[w] = "compare" /\ seen'[w] = disk[f] /\ mode' = mode /\ on' = on
          /\ parsed' = parsed /\ doomed' = doomed /\ w \notin tangled' /\ OnFile(f)' = {w}
      BY <1>0, <1>1, <2>2 DEF Read, Goto, TypeOK, WorkersOK
    <3>2. Owned(f)' /\ AtRest(f)'
      BY <1>0, <2>0, <2>2, <3>1 DEF FileOK, Owned, AtRest, Settled, Unless, StoresFollow, EmbeddingsFollow
    <3>3. Told(f)' /\ Apart(f)'
      BY <1>0, <2>2, <3>1 DEF Told, Apart
    <3>4. Midway(w, f)'
      BY <1>0, <2>0, <3>1 DEF Midway, ReadOnce, DocsMidway, RowsMidway, EdgesMidway, VectorsMidway,
                              Purging, Deleting, Puts
    <3> QED BY <1>0, <3>1, <3>2, <3>3, <3>4 DEF FileOK
  <2> QED BY <2>1, <2>2
<1>2. CASE Compare(w)
  <2>0. pc[w] = "compare" /\ mode[w] # "purge" /\ UNCHANGED <<store, queue, disk, events, batch>>
    BY <1>0, <1>2 DEF Compare, Midway, Purging, Deleting, watch
  <2>1. CASE hash[f] = seen[w]
    <3>1. on'[w] # f /\ flaws' = flaws
      BY <1>0, <1>2, <2>1 DEF Compare, Done, TypeOK, WorkersOK
    <3>2. Owned(f)'
      BY <1>0, <2>0, <3>1 DEF FileOK, Owned, Unless
    <3>3. AtRest(f)'
      <4>1. Settled(f)' => Settled(f)
        BY <1>0, <2>0, <3>1 DEF Settled, Unless
      <4> QED BY <1>0, <2>0, <3>1, <4>1 DEF FileOK, AtRest, Unless, StoresFollow, EmbeddingsFollow
    <3>4. Told(f)'
      BY <1>0, <2>0, <3>1 DEF FileOK, Told, Pending, Purging, Unless
    <3> QED BY <1>0, <3>1, <3>2, <3>3, <3>4, Leaves
  <2>2. CASE hash[f] # seen[w]
    <3>1. /\ pc'[w] = "delDocs" /\ seen' = seen /\ mode' = mode /\ on' = on
          /\ parsed' = parsed /\ doomed' = doomed /\ OnFile(f)' = {w}
      BY <1>0, <1>2, <2>2 DEF Compare, Goto, TypeOK, WorkersOK
    <3>2. flaws'[f] = flaws[f] \cap ({"orphanEdges", "noVectors", "oldVectors"} \cup
                                     IF disk[f] = 0 THEN {"missed"} ELSE {})
      BY <1>2, <2>0, <2>2 DEF Compare, FreshStart, TypeOK
    <3>3. Stale(f)'
      BY <1>0, <2>0, <2>2 DEF Midway, ReadOnce, Stale, Purging
    <3>4. Midway(w, f)'
      BY <1>0, <2>0, <3>1, <3>3 DEF Midway, ReadOnce, DocsMidway, RowsMidway, EdgesMidway, VectorsMidway,
                                    Purging, Deleting, Puts
    <3>5. Pending(f) /\ disk[f] = 0 => Pending(f)'
      BY <2>0, <3>2 DEF Pending, Unless
    <3>6. Owned(f)'
      BY <1>0, <2>0, <3>1, <3>2 DEF FileOK, Owned, Unless
    <3> QED BY <1>0, <2>0, <3>1, <3>4, <3>5, <3>6, Stays
  <2> QED BY <2>1, <2>2
<1> QED BY <1>1, <1>2

(* What a worker that goes on leaves as it was.                            *)
Onward(w, f, l) ==
  /\ pc'[w] = l /\ on'[w] = f /\ mode'[w] = mode[w] /\ seen'[w] = seen[w] /\ parsed'[w] = parsed[w]
  /\ Parsed(w)' = Parsed(w)
  /\ OnFile(f)' = {w} /\ OnFile(f) = {w} /\ Midway(w, f)
  /\ UNCHANGED <<disk, events, batch>>

(* A step that only moves the worker on is one.                            *)
LEMMA OnwardFacts ==
  ASSUME NEW w, NEW f, NEW l, Alone(w, f), Pipeline(w), Goto(w, l), UNCHANGED <<on, mode, seen, parsed>>
  PROVE  Onward(w, f, l)
<1>1. pc'[w] = l /\ Parsed(w)' = Parsed(w)
  BY DEF Goto, Alone, TypeOK, WorkersOK, Parsed
<1> QED BY <1>1, AloneFacts DEF Onward, Alone

(* The deletions, each of which empties one store of f.                    *)
LEMMA OwnDeletes ==
  ASSUME NEW w, NEW f, Alone(w, f),
         DelDocs(w) \/ DelSymbols(w) \/ DelNodes(w) \/ DelEdges(w) \/ DelVectors(w)
  PROVE  FileOK(f)'
<1> USE DEF At, Alone, store, run
<1>0. Pipeline(w) /\ w \in Workers /\ f \in Files /\ f = on[w] /\ Midway(w, f) /\ Owned(f)
      /\ OnFile(f) = {w}
  BY AloneFacts DEF Pipeline, FileOK
<1>1. CASE DelDocs(w)
  <2> DEFINE l == IF mode[w] = "text" THEN "parse" ELSE "delSymbols"
  <2>1. Onward(w, f, l) /\ pc[w] = "delDocs"
    BY <1>0, <1>1, OnwardFacts DEF DelDocs
  <2>2. Of(docs', f) = {} /\ UNCHANGED <<hash, symbols, nodes, edges, imports, vectors, queue>>
    BY <1>1, OfWithout DEF DelDocs
  <2>3. flaws'[f] \cap {"orphanEdges", "oldVectors"} = flaws[f] \cap {"orphanEdges", "oldVectors"}
    BY <1>1 DEF DelDocs, FreshStart, TypeOK
  <2>4. ~Purging(w) => flaws' = flaws
    BY <1>1 DEF DelDocs, Purging
  <2>5. Midway(w, f)'
    BY <2>1, <2>2, IndexerAssumption
       DEF Onward, Midway, ReadOnce, DocsMidway, RowsMidway, EdgesMidway, VectorsMidway,
           Purging, Deleting, Puts, Stale
  <2>6. Owned(f)'
    BY <1>0, <2>1, <2>2, <2>3 DEF Owned, Onward, Unless
  <2> HIDE DEF l
  <2>7. Pending(f) /\ ~Purging(w) => Pending(f)'
    BY <2>1, <2>4 DEF Pending, Unless, Onward
  <2> QED BY <1>0, <2>1, <2>5, <2>6, <2>7, Stays DEF Onward, l
<1>2. CASE DelSymbols(w)
  <2>1. Onward(w, f, "delNodes") /\ pc[w] = "delSymbols"
    BY <1>0, <1>2, OnwardFacts DEF DelSymbols
  <2>2. Of(symbols', f) = {}
        /\ UNCHANGED <<hash, docs, nodes, edges, imports, vectors, queue, flaws, disk>>
    BY <1>2, <2>1, OfWithout DEF DelSymbols, Onward
  <2>3. Midway(w, f)'
    BY <2>1, <2>2 DEF Onward, Midway, ReadOnce, DocsMidway, RowsMidway, EdgesMidway, VectorsMidway,
                      Purging, Deleting, Puts, Stale
  <2>4. Owned(f)' /\ (Pending(f) => Pending(f)')
    BY <1>0, <2>1, <2>2 DEF Owned, Onward, Unless, Pending
  <2> QED BY <1>0, <2>1, <2>3, <2>4, Stays DEF Onward
<1>3. CASE DelNodes(w)
  <2>1. Onward(w, f, "delEdges") /\ pc[w] = "delNodes"
    BY <1>0, <1>3, OnwardFacts DEF DelNodes
  <2>2. nodes' = nodes \ {f}
        /\ UNCHANGED <<hash, docs, symbols, edges, imports, vectors, queue, flaws, disk>>
    BY <1>3, <2>1 DEF DelNodes, Onward
  <2>3. f \in nodes => f \in doomed'[w]
    BY <1>3 DEF DelNodes, TypeOK, WorkersOK
  <2>4. Midway(w, f)'
    BY <2>1, <2>2 DEF Onward, Midway, ReadOnce, DocsMidway, RowsMidway, EdgesMidway, VectorsMidway,
                      Purging, Deleting, Puts, Stale
  <2>5. Owned(f)' /\ (Pending(f) => Pending(f)')
    BY <1>0, <2>1, <2>2, <2>3 DEF Owned, Onward, Unless, Pending
  <2> QED BY <1>0, <2>1, <2>4, <2>5, Stays DEF Onward
<1>4. CASE DelEdges(w)
  <2>1. Onward(w, f, "delVectors") /\ pc[w] = "delEdges"
    BY <1>0, <1>4, OnwardFacts DEF DelEdges
  <2>2. edges' \subseteq edges
        /\ UNCHANGED <<hash, docs, symbols, nodes, imports, vectors, queue, disk>>
    BY <1>4, <2>1 DEF DelEdges, Onward
  <2>3. flaws'[f] = IF f \in doomed[w] THEN flaws[f] \ {"orphanEdges"} ELSE flaws[f]
    BY <1>4 DEF DelEdges
  <2>4. f \in doomed[w] => Of(edges', f) = {}
    BY <1>4 DEF DelEdges, Of
  <2>5. f \notin nodes \/ mode[w] = "text"
    BY <1>0, <2>1 DEF Midway, RowsMidway
  <2>6. Of(edges', f) \subseteq Of(edges, f)
    BY <2>2 DEF Of
  <2>7. Of(edges', f) # {} => Unless(f, {"orphanEdges"})' \/ f \in nodes
    BY <1>0, <2>1, <2>3, <2>4, <2>6 DEF Owned, Unless
  <2>8. Midway(w, f)'
    BY <2>1, <2>2, <2>5, <2>7 DEF Onward, Midway, ReadOnce, DocsMidway, RowsMidway, EdgesMidway,
                      VectorsMidway, Purging, Deleting, Puts, Stale
  <2>9. Owned(f)' /\ (Pending(f) => Pending(f)')
    BY <2>1, <2>2, <2>3, <2>7 DEF Owned, Onward, Unless, Pending
  <2> QED BY <1>0, <2>1, <2>8, <2>9, Stays DEF Onward
<1>5. CASE DelVectors(w)
  <2>1. Onward(w, f, "delHash") /\ pc[w] = "delVectors"
    BY <1>0, <1>5, OnwardFacts DEF DelVectors
  <2>2. UNCHANGED <<hash, docs, symbols, nodes, edges, imports, queue, disk>>
    BY <1>5, <2>1 DEF DelVectors, Onward
  <2>3. /\ "orphanEdges" \in flaws'[f] <=> "orphanEdges" \in flaws[f]
        /\ "missed" \in flaws'[f] <=> "missed" \in flaws[f]
    BY <1>5 DEF DelVectors, TypeOK, Flawed
  <2>4. "oldVectors" \in flaws'[f] \/ (Of(vectors', f) = {} /\ w \in RunWorkers)
    BY <1>5, OfWithout DEF DelVectors, TypeOK, Flawed, HasVec
  <2>5. w \in RunWorkers => Of(queue, f) = {}
    BY DEF Turns, Of
  <2>6. Midway(w, f)'
    BY <2>1, <2>2, <2>3, <2>4, <2>5 DEF Onward, Midway, ReadOnce, DocsMidway, RowsMidway, EdgesMidway,
                      VectorsMidway, Purging, Deleting, Puts, Stale, Unless
  <2>7. Owned(f)' /\ (Pending(f) => Pending(f)')
    BY <1>0, <2>1, <2>2, <2>3 DEF Owned, Onward, Unless, Pending
  <2> QED BY <1>0, <2>1, <2>6, <2>7, Stays DEF Onward
<1> QED BY <1>1, <1>2, <1>3, <1>4, <1>5

(* The hash goes; a purge is over, a pipeline reads the file again.        *)
LEMMA OwnParses ==
  ASSUME NEW w, NEW f, Alone(w, f), DelHash(w) \/ Parse(w)
  PROVE  FileOK(f)'
<1> USE DEF At, Alone, store, run, watch
<1>0. /\ Pipeline(w) /\ w \in Workers /\ f \in Files /\ f = on[w] /\ f # NoFile /\ Midway(w, f) /\ Owned(f)
      /\ OnFile(f) = {w} /\ disk' = disk /\ events' = events /\ batch' = batch
      /\ on'[w] # f => OnFile(f)' = {}
      /\ on'[w] = f => OnFile(f)' = {w}
  BY AloneFacts, IndexerAssumption DEF Pipeline, FileOK
<1>1. CASE DelHash(w)
  <2>1. /\ hash'[f] = 0 /\ pc[w] = "delHash"
        /\ UNCHANGED <<docs, symbols, nodes, edges, imports, vectors, queue, flaws>>
    BY <1>1 DEF DelHash, TypeOK, StoresOK
  <2>2. CASE Purging(w)
    <3>1. on'[w] # f
      BY <1>0, <1>1, <2>2 DEF DelHash, Done, TypeOK, WorkersOK, Purging
    <3>2. Owned(f)' /\ AtRest(f)'
      BY <1>0, <2>1, <3>1 DEF Owned, AtRest, Settled, Unless
    <3>3. Gone(f)'
      BY <1>0, <2>1, <2>2 DEF Gone, Midway, DocsMidway, RowsMidway, EdgesMidway, Purging, Deleting, Unless
    <3>4. Told(f)'
      BY <1>0, <3>1, <3>3 DEF Told
    <3> QED BY <1>0, <3>1, <3>2, <3>4, Leaves
  <2>3. CASE ~Purging(w)
    <3>1. Onward(w, f, "parse")
      BY <1>0, <1>1, <2>3, OnwardFacts DEF DelHash, Purging
    <3>2. Midway(w, f)'
      BY <2>1, <2>3, <3>1 DEF Onward, Midway, ReadOnce, DocsMidway, RowsMidway, EdgesMidway,
                              VectorsMidway, Purging, Deleting, Puts, Stale, Unless
    <3>3. Owned(f)' /\ (Pending(f) => Pending(f)')
      BY <1>0, <2>1, <3>1 DEF Owned, Onward, Unless, Pending
    <3> QED BY <1>0, <2>1, <3>1, <3>2, <3>3, Stays DEF Onward
  <2> QED BY <2>2, <2>3
<1>2. CASE Parse(w)
  <2>1. /\ pc[w] = "parse" /\ ~Purging(w)
        /\ UNCHANGED <<hash, docs, symbols, nodes, edges, imports, vectors, queue, flaws>>
    BY <1>0, <1>2 DEF Parse, InHand, Purging
  <2>2. CASE disk[f] = 0 /\ mode[w] = "code"
    <3>1. on'[w] # f
      BY <1>0, <1>2, <2>2 DEF Parse, Done, TypeOK, WorkersOK
    <3>2. Owned(f)' /\ AtRest(f)'
      BY <1>0, <2>1, <2>2, <3>1 DEF Owned, AtRest, Settled, Unless
    <3>3. Pending(f)'
      BY <1>0, <2>1, <2>2 DEF FileOK, Told, Pending, Unless
    <3>4. Told(f)'
      BY <1>0, <3>1, <3>3 DEF Told
    <3> QED BY <1>0, <3>1, <3>2, <3>4, Leaves
  <2>3. CASE ~(disk[f] = 0 /\ mode[w] = "code")
    <3>1. /\ pc'[w] = (IF disk[f] = 0 THEN "stamp" ELSE "putDocs") /\ parsed'[w] = disk[f]
          /\ mode' = mode /\ seen' = seen /\ on' = on
      BY <1>0, <1>2, <2>3 DEF Parse, Goto, TypeOK, WorkersOK
    <3>2. seen[w] # 0 /\ (disk[f] = 0 => mode[w] = "text")
      BY <1>0, <2>1, <2>3 DEF InHand, Contents, TypeOK, WorkersOK, Modes, Purging
    <3>3. Midway(w, f)'
      BY <1>0, <2>1, <3>1, <3>2, IndexerAssumption
         DEF Midway, ReadOnce, DocsMidway, RowsMidway, EdgesMidway, VectorsMidway, Purging,
             Deleting, Puts, Stale, Unless
    <3>4. Owned(f)' /\ (Pending(f) => Pending(f)')
      BY <1>0, <2>1, <3>1 DEF Owned, Unless, Pending
    <3> QED BY <1>0, <2>1, <3>1, <3>3, <3>4, Stays
  <2> QED BY <2>2, <2>3
<1> QED BY <1>1, <1>2

(* The inserts, each into a store that holds nothing of f.                 *)
LEMMA OwnPuts ==
  ASSUME NEW w, NEW f, Alone(w, f), PutDocs(w) \/ PutSymbols(w) \/ PutNodes(w) \/ PutEdges(w)
  PROVE  FileOK(f)'
<1> USE DEF At, Alone, store, run
<1>0. Pipeline(w) /\ w \in Workers /\ f \in Files /\ f = on[w] /\ Midway(w, f) /\ Owned(f)
      /\ OnFile(f) = {w}
  BY AloneFacts DEF Pipeline, FileOK
<1>1. pc[w] \in Puts /\ ~Purging(w) /\ parsed[w] \in Contents /\ (f \in Code => mode[w] = "code")
  BY <1>0, IndexerAssumption
     DEF PutDocs, PutSymbols, PutNodes, PutEdges, InHand, Puts, Purging, Midway, TypeOK, WorkersOK, Modes
<1>2. \A x \in Parsed(w) : x[1] = f
  BY ParsedAre
<1>3. CASE PutDocs(w)
  <2> DEFINE l == IF mode[w] = "text" THEN "stamp" ELSE "putSymbols"
  <2>1. Onward(w, f, l) /\ pc[w] = "putDocs"
    BY <1>0, <1>3, OnwardFacts DEF PutDocs
  <2>2. UNCHANGED <<hash, symbols, nodes, edges, imports, vectors, queue, flaws>>
    BY <1>3 DEF PutDocs
  <2>3. Of(docs, f) = {}
    BY <1>0, <2>1 DEF Midway, DocsMidway
  <2>4. Of(docs', f) = Parsed(w)
    BY <1>2, <1>3, <2>3, OfUpsertFresh DEF PutDocs
  <2>5. Midway(w, f)'
    BY <1>1, <2>1, <2>2, <2>4, IndexerAssumption
       DEF Onward, Midway, ReadOnce, DocsMidway, RowsMidway, EdgesMidway, VectorsMidway,
           Purging, Deleting, Puts, Stale, Unless
  <2>6. Owned(f)' /\ (Pending(f) => Pending(f)')
    BY <1>0, <2>1, <2>2 DEF Owned, Onward, Unless, Pending
  <2> QED BY <1>0, <2>1, <2>5, <2>6, Stays DEF Onward
<1>4. CASE PutSymbols(w)
  <2>1. Onward(w, f, "putNodes") /\ pc[w] = "putSymbols"
    BY <1>0, <1>4, OnwardFacts DEF PutSymbols
  <2>2. UNCHANGED <<hash, docs, nodes, edges, imports, vectors, queue, flaws>>
    BY <1>4 DEF PutSymbols
  <2>3. mode[w] # "text" => Of(symbols, f) = {}
    BY <1>0, <2>1 DEF Midway, RowsMidway
  <2>4. mode[w] # "text" => Of(symbols', f) = Parsed(w)
    BY <1>2, <1>4, <2>3, OfUpsertFresh DEF PutSymbols
  <2>5. Midway(w, f)'
    BY <1>1, <2>1, <2>2, <2>4
       DEF Onward, Midway, ReadOnce, DocsMidway, RowsMidway, EdgesMidway, VectorsMidway,
           Purging, Deleting, Puts, Stale, Unless
  <2>6. Owned(f)' /\ (Pending(f) => Pending(f)')
    BY <1>0, <2>1, <2>2 DEF Owned, Onward, Unless, Pending
  <2> QED BY <1>0, <2>1, <2>5, <2>6, Stays DEF Onward
<1>5. CASE PutNodes(w)
  <2>1. Onward(w, f, "putEdges") /\ pc[w] = "putNodes"
    BY <1>0, <1>5, OnwardFacts DEF PutNodes
  <2>2. UNCHANGED <<hash, docs, symbols, edges, imports, vectors, queue, flaws>>
    BY <1>5 DEF PutNodes
  <2>3. nodes \subseteq nodes' /\ (f \in Code => f \in nodes')
    <3>1. f \in Code => Parsed(w) # {}
      BY <1>1, RowsThere, IndexerAssumption DEF Parsed
    <3> QED BY <1>5, <3>1 DEF PutNodes
  <2>4. Midway(w, f)'
    BY <1>1, <2>1, <2>2, <2>3
       DEF Onward, Midway, ReadOnce, DocsMidway, RowsMidway, EdgesMidway, VectorsMidway,
           Purging, Deleting, Puts, Stale, Unless
  <2>5. Owned(f)' /\ (Pending(f) => Pending(f)')
    BY <1>0, <2>1, <2>2, <2>3 DEF Owned, Onward, Unless, Pending
  <2> QED BY <1>0, <2>1, <2>4, <2>5, Stays DEF Onward
<1>6. CASE PutEdges(w)
  <2>1. Onward(w, f, "stamp") /\ pc[w] = "putEdges"
    BY <1>0, <1>6, OnwardFacts DEF PutEdges
  <2>2. UNCHANGED <<hash, docs, symbols, nodes, vectors, queue, flaws>>
    BY <1>6 DEF PutEdges
  <2>3. /\ Links(f, parsed[w]) \subseteq edges' /\ Imports(f, parsed[w]) \subseteq imports'
        /\ Of(edges, f) = {} => Of(edges', f) \subseteq Links(f, parsed[w])
    BY <1>6 DEF PutEdges, Of
  <2>4. Midway(w, f)'
    BY <1>1, <2>1, <2>2, <2>3
       DEF Onward, Midway, ReadOnce, DocsMidway, RowsMidway, EdgesMidway, VectorsMidway,
           Purging, Deleting, Puts, Stale, Unless
  <2>5. f \in Code => f \in nodes
    BY <1>0, <1>1, <2>1 DEF Midway, RowsMidway
  <2>6. f \notin Code => Of(edges', f) = Of(edges, f)
    BY <1>6, LinksAre DEF PutEdges, Of
  <2>7. Owned(f)' /\ (Pending(f) => Pending(f)')
    BY <1>0, <2>1, <2>2, <2>5, <2>6 DEF Owned, Onward, Unless, Pending
  <2> QED BY <1>0, <2>1, <2>4, <2>7, Stays DEF Onward
<1> QED BY <1>3, <1>4, <1>5, <1>6

(* The hash is recorded when every store holds what was parsed.            *)
LEMMA OwnStamp ==
  ASSUME NEW w, NEW f, Alone(w, f), Stamp(w)
  PROVE  FileOK(f)'
<1> USE DEF At, Alone
<1>0. /\ Pipeline(w) /\ w \in Workers /\ f \in Files /\ f = on[w] /\ f # NoFile /\ Midway(w, f) /\ Owned(f)
      /\ OnFile(f) = {w} /\ disk' = disk /\ events' = events /\ batch' = batch
      /\ on'[w] # f => OnFile(f)' = {}
  BY AloneFacts, IndexerAssumption DEF Pipeline, FileOK
<1>1. /\ pc[w] = "stamp" /\ mode[w] \in {"code", "text"} /\ (f \in Code => mode[w] = "code")
      /\ mode[w] = "text" => f \in Text
  BY <1>0, IndexerAssumption DEF Stamp, InHand, Midway, TypeOK, WorkersOK, Modes
<1>2. /\ hash'[f] = seen[w] /\ on'[w] # f
      /\ UNCHANGED <<docs, symbols, nodes, edges, imports, vectors>>
      /\ flaws[f] \subseteq flaws'[f]
      /\ mode[w] = "code" => "noVectors" \in flaws'[f]
      /\ mode[w] = "code" /\ f \in Text => "blank" \in flaws'[f]
  BY <1>0, <1>1 DEF Stamp, Done, Flawed, TypeOK, StoresOK, WorkersOK
<1>3. Owned(f)'
  BY <1>0, <1>1, <1>2 DEF Owned, Unless
<1>4. Told(f)'
  <2>1. disk[f] = 0 => Pending(f)
    BY <1>0, <1>1 DEF FileOK, Told, Purging
  <2>2. disk'[f] = 0 => Pending(f)'
    BY <1>0, <1>2, <2>1 DEF Pending, Unless
  <2> QED BY <1>0, <1>2, <2>2 DEF Told
<1>5. AtRest(f)'
  <2> SUFFICES ASSUME Settled(f)' PROVE StoresFollow(f)' /\ EmbeddingsFollow(f)'
    BY DEF AtRest
  <2>1. parsed[w] = seen[w] /\ disk'[f] = parsed[w]
    BY <1>0, <1>1, <1>2 DEF Settled, Midway, ReadOnce
  <2>2. Of(docs', f) = Parsed(w)
    BY <1>0, <1>1, <1>2, <2>1 DEF Midway, DocsMidway
  <2>3. mode[w] = "text" \/ f \in Code => Parsed(w) = Rows(f, disk'[f])
    BY <1>1, <2>1, IndexerAssumption DEF Parsed
  <2>4. StoresFollow(f)'
    <3>1. Unless(f, {"blank"})' \/ Of(docs', f) = Rows(f, disk'[f])
      BY <1>1, <1>2, <2>2, <2>3 DEF Unless, Files
    <3>2. f \in Code => Of(symbols', f) = Rows(f, disk'[f]) /\ f \in nodes'
      BY <1>0, <1>1, <1>2, <2>3 DEF Midway, RowsMidway
    <3>3. CASE f \in Code
      <4>1. /\ Imports(f, parsed[w]) \subseteq imports
            /\ Unless(f, {"severed"}) \/ Links(f, parsed[w]) \subseteq edges
            /\ Unless(f, {"orphanEdges"}) \/ Of(edges, f) \subseteq Links(f, parsed[w])
        BY <1>0, <1>1, <3>3 DEF Midway, EdgesMidway
      <4> QED BY <1>2, <2>1, <3>1, <3>2, <4>1 DEF StoresFollow, Unless
    <3>4. CASE f \notin Code
      <4>1. Links(f, disk'[f]) = {} /\ Imports(f, disk'[f]) = {}
        BY <3>4, LinksAre
      <4>2. Of(edges', f) = {}
        BY <1>2, <3>4 DEF TypeOK, StoresOK, Of
      <4> QED BY <3>1, <3>4, <4>1, <4>2 DEF StoresFollow, Unless
    <3> QED BY <3>3, <3>4
  <2>5. EmbeddingsFollow(f)'
    <3> SUFFICES ASSUME f \in Code, ~Unless(f, {"oldVectors"})'
                 PROVE  /\ Of(vectors', f) \subseteq Rows(f, disk'[f])
                        /\ \A e \in Of(queue', f) : <<f, e[2], e[3]>> \in Rows(f, disk'[f])
                        /\ Unless(f, {"noVectors"})'
      BY DEF EmbeddingsFollow
    <3>1. Of(vectors, f) = {} /\ Of(queue, f) = {}
      BY <1>0, <1>1, <1>2 DEF Midway, VectorsMidway, Unless
    <3>2. \A e \in queue' : e \in queue \/ e \in {<<x[1], x[2], x[3], seen[w]>> : x \in Parsed(w)}
      BY DEF Stamp
    <3>3. \A x \in Parsed(w) : <<f, x[2], x[3]>> \in Rows(f, disk'[f])
      BY <1>1, <2>3, RowsAre
    <3>4. \A e \in Of(queue', f) : <<f, e[2], e[3]>> \in Rows(f, disk'[f])
      BY <3>1, <3>2, <3>3 DEF Of
    <3> QED BY <1>1, <1>2, <3>1, <3>4 DEF Unless
  <2> QED BY <2>4, <2>5
<1> QED BY <1>0, <1>2, <1>3, <1>4, <1>5, Leaves

(* A step of a worker keeps every file as it should be.                    *)
LEMMA StepFiles ==
  ASSUME TypeOK, InHand, Turns, FilesOK, NEW w \in Workers, Pipeline(w)
  PROVE  FilesOK'
<1> SUFFICES ASSUME NEW f \in Files PROVE FileOK(f)'
  BY DEF FilesOK, Files
<1>1. FileOK(f)
  BY DEF FilesOK
<1>2. CASE f # on[w]
  BY <1>1, <1>2, StepElsewhere, SteadyFile
<1>3. CASE f = on[w] /\ w \in tangled
  BY <1>1, <1>3, TangledStep
<1>4. CASE f = on[w] /\ w \notin tangled
  <2>1. Alone(w, f)
    BY <1>1, <1>4 DEF Alone
  <2> QED BY <2>1, OwnReads, OwnDeletes, OwnParses, OwnPuts, OwnStamp DEF Pipeline
<1> QED BY <1>2, <1>3, <1>4

-----------------------------------------------------------------------------
(* Files are shared out among the workers of a run.                        *)
LEMMA StepTurns ==
  ASSUME TypeOK, InHand, Housed, Turns, NEW w \in Workers, Pipeline(w)
  PROVE  Turns'
<1>1. /\ phase' = phase /\ todo' = todo
      /\ mode'[w] \in {mode[w], "code"} /\ (pc'[w] # "idle" => mode'[w] = mode[w])
      /\ \A v \in Workers : v # w => mode'[v] = mode[v]
      /\ pc'[w] = "idle" => on'[w] = NoFile /\ seen'[w] = 0 /\ w \notin tangled'
      /\ on[w] \in Files /\ on'[w] \in {on[w], NoFile}
      /\ \A v \in Workers : v # w => 
           pc'[v] = pc[v] /\ on'[v] = on[v] /\ seen'[v] = seen[v] /\ (v \in tangled' <=> v \in tangled)
  <2>1. /\ mode'[w] \in {mode[w], "code"} /\ (pc'[w] # "idle" => mode'[w] = mode[w])
        /\ \A v \in Workers : v # w => mode'[v] = mode[v]
    BY DEF TypeOK, WorkersOK, Done, Goto, Pipeline, Read, Compare, DelDocs, DelSymbols, DelNodes, DelEdges,
           DelVectors, DelHash, Parse, PutDocs, PutSymbols, PutNodes, PutEdges, Stamp
  <2>3. pc'[w] = "idle" => seen'[w] = 0
    BY DEF TypeOK, WorkersOK, Done, Goto, Pipeline, Read, Compare, DelDocs, DelSymbols, DelNodes, DelEdges,
           DelVectors, DelHash, Parse, PutDocs, PutSymbols, PutNodes, PutEdges, Stamp
  <2>2. phase' = phase /\ todo' = todo
    BY DEF run, Pipeline, Read, Compare, DelDocs, DelSymbols, DelNodes, DelEdges,
           DelVectors, DelHash, Parse, PutDocs, PutSymbols, PutNodes, PutEdges, Stamp
  <2> QED BY <2>1, <2>2, <2>3, StepOthers
<1>2. NoFile \notin todo
  BY IndexerAssumption DEF TypeOK, PhasesOK
<1>3. \A e \in queue' : e \in queue \/
        (w \in RunWorkers /\ phase = "code" /\ e[1] = on[w] /\ on'[w] = NoFile)
  <2>1. CASE Stamp(w)
    <3>1. \A e \in queue' : e \in queue \/
            (HasVec(w) /\ mode[w] = "code" /\ e \in {<<x[1], x[2], x[3], seen[w]>> : x \in Parsed(w)})
      BY <2>1 DEF Stamp
    <3>2. \A e \in {<<x[1], x[2], x[3], seen[w]>> : x \in Parsed(w)} : e[1] = on[w]
      BY ParsedAre
    <3>3. on'[w] = NoFile
      BY <2>1 DEF Stamp, Done, TypeOK, WorkersOK
    <3>4. w \in RunWorkers /\ mode[w] = "code" => phase = "code"
      BY <2>1 DEF Stamp, At, Turns
    <3> QED BY <3>1, <3>2, <3>3, <3>4 DEF HasVec
  <2>2. CASE ~Stamp(w)
    BY <2>2 DEF run, Pipeline, Read, Compare, DelDocs, DelSymbols, DelNodes, DelEdges,
           DelVectors, DelHash, Parse, PutDocs, PutSymbols, PutNodes, PutEdges
  <2> QED BY <2>1, <2>2
<1>4. /\ Watcher \notin RunWorkers /\ Watcher \in Workers /\ RunWorkers \subseteq Workers
      /\ NoFile \notin Files /\ NoFile \notin todo
  BY <1>2, IndexerAssumption DEF Workers
<1>5. \A v \in Workers : pc'[v] = "idle" => on'[v] = NoFile /\ seen'[v] = 0 /\ v \notin tangled'
  BY <1>1 DEF Turns
<1>6. \A v \in RunWorkers : on'[v] \notin todo' /\ \A u \in RunWorkers \ {v} :
        on'[v] # NoFile => on'[u] # on'[v]
  BY <1>1, <1>4 DEF Turns
<1>7. \A e \in queue' : phase' = "code" /\ e[1] \notin todo' /\ \A v \in RunWorkers : on'[v] # e[1]
  <2> SUFFICES ASSUME NEW e \in queue' PROVE phase = "code" /\ e[1] \notin todo /\ \A v \in RunWorkers : on'[v] # e[1]
    BY <1>1
  <2>1. CASE e \in queue
    <3>1. e[1] \in Files
      BY <2>1 DEF TypeOK, StoresOK, Files
    <3> QED BY <1>1, <1>4, <2>1, <3>1 DEF Turns
  <2>2. CASE w \in RunWorkers /\ phase = "code" /\ e[1] = on[w] /\ on'[w] = NoFile
    BY <1>1, <1>4, <2>2 DEF Turns
  <2> QED BY <1>3, <2>1, <2>2
<1>8. /\ \A v \in RunWorkers : pc'[v] # "idle" => mode'[v] = phase'
      /\ mode'[Watcher] # "text"
  <2>1. pc[w] # "idle"
    BY DEF Pipeline, At, Read, Compare, DelDocs, DelSymbols, DelNodes, DelEdges,
           DelVectors, DelHash, Parse, PutDocs, PutSymbols, PutNodes, PutEdges, Stamp
  <2> QED BY <1>1, <1>4, <2>1 DEF Turns
<1> QED BY <1>1, <1>5, <1>6, <1>7, <1>8 DEF Turns

(* A worker begins with a file: a run with one nobody of it has had, the    *)
(* watcher with whatever its batch tells.                                  *)
LEMMA BeginFacts ==
  ASSUME TypeOK, NEW w \in Workers, pc[w] = "idle", Turns, NEW f \in Files, NEW m, NEW l,
         Begin(w, f, m, l)
  PROVE  /\ on'[w] = f /\ mode'[w] = m /\ pc'[w] = l /\ on[w] = NoFile
         /\ \A v \in Workers : v # w =>
              /\ on'[v] = on[v] /\ mode'[v] = mode[v] /\ pc'[v] = pc[v]
              /\ v \in tangled => v \in tangled'
              /\ v \in tangled' => v \in tangled \/ on[v] = f
         /\ seen' = seen /\ parsed' = parsed /\ doomed' = doomed
         /\ \A g \in Files : flaws[g] \subseteq flaws'[g] /\ flaws'[g] \subseteq flaws[g] \cup {"overlap", "orphanEdges"}
         /\ IF \E v \in Workers : on[v] = f
            THEN /\ {"overlap", "orphanEdges"} \subseteq flaws'[f]
                 /\ w \in tangled' /\ \A v \in Workers : on[v] = f => v \in tangled'
            ELSE flaws'[f] = flaws[f] /\ tangled' = tangled
<1>1. on[w] = NoFile /\ w \notin tangled
  BY DEF Turns
<1>2. tangled' = tangled \cup {v \in Workers : Busy(f) /\ (v = w \/ on[v] = f)}
  BY DEF Begin
<1>3. flaws' = [flaws EXCEPT ![f] = @ \cup (IF Busy(f) THEN {"overlap", "orphanEdges"} ELSE {})]
  BY DEF Begin, Flawed
<1>4. \A g \in Files : flaws[g] \subseteq flaws'[g] /\ flaws'[g] \subseteq flaws[g] \cup {"overlap", "orphanEdges"}
  BY <1>3 DEF TypeOK
<1>5. IF Busy(f)
      THEN {"overlap", "orphanEdges"} \subseteq flaws'[f] /\ \A v \in Workers : v = w \/ on[v] = f => v \in tangled'
      ELSE flaws'[f] = flaws[f] /\ tangled' = tangled
  BY <1>2, <1>3 DEF TypeOK
<1> QED BY <1>1, <1>2, <1>4, <1>5 DEF Begin, Goto, TypeOK, WorkersOK, Busy

(* Of every other file a beginning changes nothing.                        *)
LEMMA BeginElsewhere ==
  ASSUME TypeOK, NEW w \in Workers, pc[w] = "idle", Turns, NEW f \in Files, NEW m, NEW l,
         Begin(w, f, m, l), UNCHANGED <<disk, store, queue, events, clock>>,
         NEW g \in Files, g # f, batch'[g] = batch[g]
  PROVE  Steady(g)
<1>1. OnFile(g)' = OnFile(g) /\ flaws[g] \subseteq flaws'[g]
  BY BeginFacts, IndexerAssumption DEF OnFile
<1>2. \A v \in OnFile(g) :
        /\ pc'[v] = pc[v] /\ mode'[v] = mode[v] /\ seen'[v] = seen[v]
        /\ on'[v] = on[v] /\ parsed'[v] = parsed[v] /\ doomed'[v] = doomed[v]
        /\ v \in tangled' <=> v \in tangled
  BY BeginFacts, IndexerAssumption DEF OnFile
<1>3. Pending(g) => Pending(g)'
  BY <1>1 DEF Pending, Unless
<1>4. clock \in Nat
  BY IndexerAssumption DEF TypeOK, BoundsOK
<1> QED BY <1>1, <1>2, <1>3, <1>4 DEF Steady, store

(* Of its own it only tells that somebody is there, or too many.           *)
LEMMA BeginFile ==
  ASSUME TypeOK, NEW w \in Workers, pc[w] = "idle", Turns, NEW f \in Files, FileOK(f), NEW m, NEW l,
         Begin(w, f, m, l), UNCHANGED <<disk, store, queue, events, clock>>,
         \/ m \in {"code", "text"} /\ l = "read" /\ (batch[f] = "deleted" => batch'[f] = "deleted")
         \/ m = "purge" /\ l = "delDocs",
         m = "text" => f \in Text
  PROVE  FileOK(f)'
<1>a. /\ on'[w] = f /\ on[w] = NoFile /\ seen' = seen /\ f # NoFile
      /\ \A v \in Workers : v # w => on'[v] = on[v]
  BY BeginFacts, IndexerAssumption
<1>b. OnFile(f)' = OnFile(f) \cup {w} /\ w \notin OnFile(f)
  BY <1>a DEF OnFile
<1>c. disk[f] \in Nat /\ hash[f] \in Nat /\ clock \in Nat
  BY IndexerAssumption DEF TypeOK, StoresOK, BoundsOK, Versions, Contents
<1>0. /\ disk[f] \in Nat /\ hash[f] \in Nat /\ clock \in Nat /\ seen'[w] = 0 /\ seen' = seen
      /\ OnFile(f)' = OnFile(f) \cup {w} /\ w \notin OnFile(f)
  BY <1>a, <1>b, <1>c DEF Turns
<1>1. Aged(f)'
  BY <1>0 DEF FileOK, Aged, store
<1>2. CASE \E v \in Workers : on[v] = f
  <2>1. {"overlap", "orphanEdges"} \subseteq flaws'[f] /\ \A v \in OnFile(f)' : v \in tangled'
    BY <1>0, <1>2, BeginFacts DEF OnFile
  <2>2. Apart(f)' /\ Owned(f)' /\ AtRest(f)' /\ Told(f)'
    BY <2>1 DEF Apart, Owned, AtRest, Settled, Told, Unless
  <2> QED BY <1>1, <2>1, <2>2 DEF FileOK
<1>3. CASE ~\E v \in Workers : on[v] = f
  <2>1. /\ OnFile(f) = {} /\ OnFile(f)' = {w} /\ flaws'[f] = flaws[f] /\ w \notin tangled'
        /\ mode'[w] = m /\ pc'[w] = l
    BY <1>0, <1>3, BeginFacts DEF OnFile, Turns
  <2>2. Apart(f)' /\ Owned(f)'
    BY <2>1 DEF FileOK, Apart, Owned, Unless, store
  <2>3. AtRest(f)'
    <3>1. Settled(f)' => Settled(f)
      BY <2>1 DEF Settled, Unless, store
    <3> QED BY <2>1, <3>1 DEF FileOK, AtRest, StoresFollow, EmbeddingsFollow, Unless, store
  <2>4. Told(f)'
    BY <2>1 DEF FileOK, Told, Pending, Gone, Purging, Unless, store
  <2>5. Midway(w, f)'
    BY <2>1 DEF Midway, ReadOnce, DocsMidway, RowsMidway, EdgesMidway, VectorsMidway, Purging, Deleting, Puts
  <2> QED BY <1>1, <2>1, <2>2, <2>3, <2>4, <2>5 DEF FileOK
<1> QED BY <1>2, <1>3

-----------------------------------------------------------------------------
(* Steps that concern no file more than another.                           *)
LEMMA Still ==
  ASSUME TypeOK, NEW f \in Files, FileOK(f),
         UNCHANGED <<disk, hash, symbols, nodes, edges, imports, docs, vectors, queue, task, clock>>,
         flaws[f] \subseteq flaws'[f], Pending(f) => Pending(f)'
  PROVE  FileOK(f)'
<1>1. OnFile(f)' = OnFile(f) /\ clock \in Nat
  BY IndexerAssumption DEF OnFile, task, TypeOK, BoundsOK
<1>2. Steady(f)
  BY <1>1 DEF Steady, task
<1> QED BY <1>2, SteadyFile

(* Vectors on their way belong to a content, and arrive or are lost.       *)
LEMMA EmbedFile ==
  ASSUME TypeOK, NEW S \in SUBSET queue, EmbedBatch(S), NEW f \in Files, FileOK(f)
  PROVE  FileOK(f)'
<1> DEFINE N == {<<e[1], e[2], e[3]>> : e \in S}
<1>0. /\ UNCHANGED <<disk, hash, symbols, nodes, edges, imports, docs, task, clock, events, batch>>
      /\ queue' = queue \ S
      /\ \/ /\ vectors' = Upsert(vectors, N)
            /\ flaws'[f] = IF \E e \in S : e[1] = f /\ e[4] = hash[f] /\ Rows(f, e[3]) \subseteq vectors'
                           THEN flaws[f] \ {"noVectors"} ELSE flaws[f]
         \/ UNCHANGED <<vectors, flaws>>
  BY DEF EmbedBatch, watch, bounds
<1>1. OnFile(f)' = OnFile(f) /\ \A w \in OnFile(f) : Parsed(w)' = Parsed(w)
  BY <1>0 DEF OnFile, task, Parsed
<1>2. \A x : x # "noVectors" => (x \in flaws'[f] <=> x \in flaws[f])
  BY <1>0
<1>3. Of(queue', f) \subseteq Of(queue, f)
  BY <1>0 DEF Of
<1>4. Of(queue, f) = {} => Of(vectors', f) = Of(vectors, f)
  <2> SUFFICES ASSUME Of(queue, f) = {} PROVE Of(vectors', f) = Of(vectors, f)
    OBVIOUS
  <2>1. \A y \in N : y[1] # f
    BY DEF Of
  <2> HIDE DEF N
  <2> QED BY <1>0, <2>1, OfUpsertOther
<1>5. Apart(f)' /\ Aged(f)' /\ Owned(f)' /\ Told(f)'
  BY <1>0, <1>1, <1>2 DEF FileOK, Apart, Aged, Owned, Told, Pending, Gone, Purging, Unless, task
<1>6. ASSUME NEW w \in OnFile(f), w \notin tangled PROVE Midway(w, f)'
  <2>0. Midway(w, f)
    BY <1>6 DEF FileOK
  <2>1. ReadOnce(w, f)' /\ DocsMidway(w, f)' /\ RowsMidway(w, f)' /\ EdgesMidway(w, f)'
    BY <1>0, <1>1, <1>2, <2>0
       DEF Midway, ReadOnce, DocsMidway, RowsMidway, EdgesMidway, Purging, Stale, Unless, task
  <2>2. VectorsMidway(w, f)'
    BY <1>0, <1>2, <1>3, <1>4, <2>0 DEF Midway, VectorsMidway, Unless, task
  <2> QED BY <1>0, <2>0, <2>1, <2>2 DEF Midway, Purging, task
<1>7. AtRest(f)'
  <2> SUFFICES ASSUME Settled(f)' PROVE StoresFollow(f)' /\ EmbeddingsFollow(f)'
    BY DEF AtRest
  <2>1. Settled(f)
    BY <1>0, <1>1, <1>2 DEF Settled, Unless, task
  <2>2. StoresFollow(f) /\ EmbeddingsFollow(f)
    BY <2>1 DEF FileOK, AtRest
  <2>3. StoresFollow(f)'
    BY <1>0, <1>2, <2>2 DEF StoresFollow, Unless
  <2>4. EmbeddingsFollow(f)'
    <3> SUFFICES ASSUME f \in Code, ~Unless(f, {"oldVectors"})
                 PROVE  /\ Of(vectors', f) \subseteq Rows(f, disk[f])
                        /\ \A e \in Of(queue', f) : <<f, e[2], e[3]>> \in Rows(f, disk[f])
                        /\ "noVectors" \in flaws'[f] \/ Rows(f, disk[f]) \subseteq vectors'
      BY <1>0, <1>2 DEF EmbeddingsFollow, Unless
    <3>1. /\ Of(vectors, f) \subseteq Rows(f, disk[f])
          /\ \A e \in Of(queue, f) : <<f, e[2], e[3]>> \in Rows(f, disk[f])
          /\ "noVectors" \in flaws[f] \/ Rows(f, disk[f]) \subseteq vectors
      BY <2>2 DEF EmbeddingsFollow, Unless
    <3>2. CASE UNCHANGED <<vectors, flaws>>
      BY <1>3, <3>1, <3>2
    <3>3. CASE /\ vectors' = Upsert(vectors, N)
               /\ flaws'[f] = IF \E e \in S : e[1] = f /\ e[4] = hash[f] /\ Rows(f, e[3]) \subseteq vectors'
                              THEN flaws[f] \ {"noVectors"} ELSE flaws[f]
      <4>1. \A y \in N : y[1] = f => y \in Rows(f, disk[f])
        <5> SUFFICES ASSUME NEW e \in S, e[1] = f PROVE <<e[1], e[2], e[3]>> \in Rows(f, disk[f])
          OBVIOUS
        <5>1. e \in Of(queue, f)
          BY DEF Of
        <5> QED BY <3>1, <5>1
      <4>2. Of(vectors', f) \subseteq Rows(f, disk[f])
        <5> HIDE DEF N
        <5> SUFFICES ASSUME NEW x \in Of(vectors', f) PROVE x \in Rows(f, disk[f])
          OBVIOUS
        <5>1. x[1] = f /\ (x \in vectors \/ x \in N)
          BY <3>3 DEF Of, Upsert
        <5> QED BY <3>1, <4>1, <5>1 DEF Of
      <4>3. Rows(f, disk[f]) \subseteq vectors => Rows(f, disk[f]) \subseteq vectors'
        <5> HIDE DEF N
        <5> SUFFICES ASSUME Rows(f, disk[f]) \subseteq vectors, NEW x \in Rows(f, disk[f])
                     PROVE  x \in vectors'
          OBVIOUS
        <5>1. CASE \E y \in N : <<x[1], x[2]>> = <<y[1], y[2]>>
          <6>1. PICK y \in N : x[1] = y[1] /\ x[2] = y[2]
            BY <5>1
          <6>2. x[1] = f /\ y \in Rows(f, disk[f])
            BY <4>1, <6>1, RowsAre
          <6>3. y = x
            BY <6>1, <6>2, RowsAre
          <6> QED BY <3>3, <6>3 DEF Upsert
        <5>2. CASE \A y \in N : <<x[1], x[2]>> # <<y[1], y[2]>>
          BY <3>3, <5>2 DEF Upsert
        <5> QED BY <5>1, <5>2
      <4>4. "noVectors" \notin flaws'[f] /\ "noVectors" \in flaws[f] => Rows(f, disk[f]) \subseteq vectors'
        <5> SUFFICES ASSUME NEW e \in S, e[1] = f, Rows(f, e[3]) \subseteq vectors'
                     PROVE  Rows(f, disk[f]) \subseteq vectors'
          BY <3>3
        <5>1. <<f, e[2], e[3]>> \in Rows(f, disk[f])
          BY <3>1 DEF Of
        <5>2. e[3] = disk[f]
          BY <5>1, RowsAre
        <5> QED BY <5>2
      <4> QED BY <1>3, <3>1, <4>2, <4>3, <4>4
    <3> QED BY <1>0, <3>2, <3>3
  <2> QED BY <2>3, <2>4
<1> QED BY <1>0, <1>1, <1>5, <1>6, <1>7 DEF FileOK, task

(* The file changes or goes: no hash is that of what is there now.         *)
LEMMA ChangeFile ==
  ASSUME TypeOK, InHand, Turns, NEW f \in Files, Edit(f) \/ Delete(f), FileOK(f)
  PROVE  FileOK(f)'
<1>0. /\ UNCHANGED <<hash, symbols, nodes, edges, imports, docs, vectors, queue, task, batch>>
      /\ disk'[f] = clock + 1 \/ disk'[f] = 0
      /\ disk'[f] = 0 => Pending(f)'
      /\ clock' = clock + 1 /\ clock \in Nat
      /\ flaws[f] \subseteq flaws'[f]
      /\ hash[f] \in Nat
  <2>1. /\ disk'[f] = clock + 1 \/ disk'[f] = 0
        /\ flaws'[f] = flaws[f] \cup Missed
        /\ clock' = clock + 1
    BY DEF Edit, Delete, Flawed, TypeOK, BoundsOK
  <2>2. clock \in Nat /\ hash[f] \in Nat
    BY IndexerAssumption DEF TypeOK, BoundsOK, StoresOK, Versions, Contents
  <2>3. CASE Delete(f)
    <3>1. events'[f] = "deleted" \/ "missed" \in flaws'[f]
      BY <2>1, <2>3 DEF Delete, Notify, Missed, TypeOK, PhasesOK
    <3> QED BY <2>1, <2>2, <2>3, <3>1 DEF Delete, store, run, Pending, Unless
  <2>4. CASE Edit(f)
    <3>1. disk'[f] = clock + 1
      BY <2>4 DEF Edit, TypeOK, BoundsOK
    <3> QED BY <2>1, <2>2, <2>4, <3>1 DEF Edit, store, run
  <2> QED BY <2>3, <2>4
<1>1. OnFile(f)' = OnFile(f) /\ \A w \in OnFile(f) : Parsed(w)' = Parsed(w) /\ seen[w] \in Nat
  BY <1>0 DEF OnFile, task, Parsed, TypeOK, WorkersOK, Versions, Contents
<1>2. Stale(f)' /\ ~(hash'[f] = disk'[f] /\ disk'[f] # 0) /\ \A w \in OnFile(f) : seen[w] # 0 => disk'[f] # seen[w]
  BY <1>0, <1>1 DEF FileOK, Aged, Stale
<1>3. Apart(f)' /\ Owned(f)' /\ Told(f)'
  BY <1>0, <1>1 DEF FileOK, Apart, Owned, Told, Unless, task
<1>4. Aged(f)'
  BY <1>0, <1>1 DEF FileOK, Aged, task
<1>5. AtRest(f)'
  BY <1>2 DEF AtRest, Settled
<1>6. ASSUME NEW w \in OnFile(f), w \notin tangled PROVE Midway(w, f)'
  <2>0. Midway(w, f)
    BY <1>6 DEF FileOK
  <2>1. pc[w] \in {"stamp"} \cup Puts => seen[w] # 0
    BY DEF InHand, OnFile, Puts, Contents
  <2>2. ReadOnce(w, f)'
    BY <1>0, <1>2, <2>0, <2>1 DEF Midway, ReadOnce, task
  <2>3. DocsMidway(w, f)' /\ RowsMidway(w, f)' /\ EdgesMidway(w, f)' /\ VectorsMidway(w, f)'
    BY <1>0, <1>1, <2>0 DEF Midway, DocsMidway, RowsMidway, EdgesMidway, VectorsMidway, Unless, task
  <2> QED BY <1>0, <2>0, <2>2, <2>3 DEF Midway, Purging, task
<1> QED BY <1>0, <1>1, <1>3, <1>4, <1>5, <1>6 DEF FileOK, task

(* The process dies: whoever was half way leaves a hash that is not that   *)
(* of the file, or a mark.                                                 *)
LEMMA CrashFile ==
  ASSUME TypeOK, InHand, Turns, NEW f \in Files, Crash, FileOK(f)
  PROVE  FileOK(f)'
<1>0. /\ UNCHANGED <<disk, hash, symbols, nodes, edges, imports, vectors, clock>>
      /\ docs' = committed /\ queue' = {} /\ tangled' = {}
      /\ OnFile(f)' = {}
  BY IndexerAssumption DEF Crash, OnFile
<1>1. flaws'[f] = flaws[f]
       \cup (IF Of(docs, f) # Of(committed, f) THEN {"uncommitted"} ELSE {})
       \cup (IF events[f] # "none" \/ batch[f] # "none" THEN {"missed"} ELSE {})
       \cup (IF \E w \in Workers : on[w] = f /\ mode[w] = "purge"
             THEN {"missed", "halfPurged"} ELSE {})
       \cup (IF \E w \in Workers : on[w] = f /\ pc[w] = "delEdges"
             THEN {"orphanEdges"} ELSE {})
  BY DEF Crash
<1>2. /\ flaws[f] \subseteq flaws'[f]
      /\ "uncommitted" \in flaws'[f] \/ Of(docs', f) = Of(docs, f)
      /\ events[f] = "deleted" \/ batch[f] = "deleted" => "missed" \in flaws'[f]
      /\ \A w \in OnFile(f) : /\ Purging(w) => {"missed", "halfPurged"} \subseteq flaws'[f]
                              /\ pc[w] = "delEdges" => "orphanEdges" \in flaws'[f]
  <2>1. \A w \in OnFile(f) : w \in Workers /\ on[w] = f
    BY DEF OnFile
  <2> QED BY <1>0, <1>1, <2>1 DEF Purging
<1>3. Apart(f)' /\ Aged(f)' /\ Owned(f)'
  BY <1>0, <1>2 DEF FileOK, Apart, Aged, Owned, Unless
<1>4. Told(f)'
  BY <1>0, <1>2 DEF FileOK, Told, Gone, Pending, Unless
<1>5. AtRest(f)'
  <2> SUFFICES ASSUME Settled(f)' PROVE StoresFollow(f)' /\ EmbeddingsFollow(f)'
    BY DEF AtRest
  <2>1. ASSUME NEW w \in OnFile(f) PROVE pc[w] \in {"read", "compare"}
    <3>1. w \notin tangled /\ ~Purging(w) /\ ~Stale(f)
      BY <1>0, <1>2 DEF FileOK, Apart, Settled, Unless, Stale
    <3>2. Midway(w, f) /\ pc[w] # "idle" /\ pc[w] \in PCs
      BY <3>1, IndexerAssumption DEF FileOK, OnFile, Turns, TypeOK, WorkersOK
    <3> QED BY <3>1, <3>2 DEF Midway, ReadOnce, Deleting, Puts, PCs
  <2>2. Settled(f)
    BY <1>0, <1>2, <2>1 DEF Settled, Unless
  <2> QED BY <1>0, <1>2, <2>2 DEF FileOK, AtRest, StoresFollow, EmbeddingsFollow, Unless, Of
<1> QED BY <1>0, <1>3, <1>4, <1>5 DEF FileOK

-----------------------------------------------------------------------------
(* A run, the watcher and what happens around them.                        *)
LEMMA RunFiles ==
  ASSUME TypeOK, InHand, Housed, Turns, FilesOK, Run
  PROVE  Turns' /\ FilesOK'
<1> USE DEF FilesOK
<1>0. /\ Watcher \notin RunWorkers /\ Watcher \in Workers /\ RunWorkers \subseteq Workers
      /\ NoFile \notin Files /\ NoFile \notin todo /\ Code \subseteq Files /\ Text \subseteq Files
  BY IndexerAssumption DEF Workers, Files, TypeOK, PhasesOK
<1>1. ASSUME NEW v \in BOOLEAN, RunStart(v) PROVE Turns' /\ FilesOK'
  <2>1. ASSUME NEW f \in Files PROVE FileOK(f)'
    BY <1>1, Still DEF RunStart, store, watch, Pending, Unless
  <2>2. queue = {} /\ \A w \in RunWorkers : pc[w] = "idle"
    BY <1>1 DEF RunStart, Turns, Housed
  <2>3. /\ phase' = "code" /\ todo' = {f \in Code : disk[f] # 0}
        /\ UNCHANGED <<queue, pc, on, mode, seen, tangled>>
    BY <1>1 DEF RunStart, task
  <2> QED BY <1>0, <2>1, <2>2, <2>3 DEF Turns
<1>2. ASSUME NEW w \in RunWorkers, NEW f \in todo, TakeFile(w, f) PROVE Turns' /\ FilesOK'
  <2>0. /\ w \in Workers /\ f \in Files /\ pc[w] = "idle" /\ phase \in {"code", "text"}
        /\ Begin(w, f, phase, "read") /\ todo' = todo \ {f} /\ phase' = phase
        /\ UNCHANGED <<disk, store, queue, events, clock, batch>>
        /\ phase = "text" => f \in Text
    BY <1>0, <1>2 DEF TakeFile, InHand, TypeOK, PhasesOK, Turns, watch, bounds
  <2>1. FileOK(f)'
    BY <2>0, BeginFile
  <2>2. ASSUME NEW g \in Files, g # f PROVE FileOK(g)'
    <3>1. Steady(g)
      BY <2>0, <2>2, BeginElsewhere
    <3> QED BY <3>1, SteadyFile
  <2>3. /\ on'[w] = f /\ mode'[w] = phase /\ pc'[w] = "read" /\ seen' = seen
        /\ \A v \in Workers : v # w => on'[v] = on[v] /\ mode'[v] = mode[v] /\ pc'[v] = pc[v]
        /\ \A v \in Workers : v \in tangled' => v \in tangled \/ v = w \/ on[v] = f
    BY <2>0, BeginFacts
  <2>4. \A v \in Workers : pc'[v] = "idle" => on'[v] = NoFile /\ seen'[v] = 0 /\ v \notin tangled'
    BY <1>0, <2>0, <2>3 DEF Turns
  <2>5. \A v \in RunWorkers : on'[v] \notin todo' /\ \A u \in RunWorkers \ {v} :
          on'[v] # NoFile => on'[u] # on'[v]
    BY <1>0, <2>0, <2>3 DEF Turns
  <2>6. \A e \in queue' : phase' = "code" /\ e[1] \notin todo' /\ \A v \in RunWorkers : on'[v] # e[1]
    BY <1>0, <2>0, <2>3 DEF Turns
  <2>7. Turns'
    BY <1>0, <2>0, <2>3, <2>4, <2>5, <2>6 DEF Turns
  <2> QED BY <2>1, <2>2, <2>7
<1>3. ASSUME NEW S \in SUBSET queue, EmbedBatch(S) PROVE Turns' /\ FilesOK'
  <2>1. Turns'
    BY <1>3 DEF EmbedBatch, Turns, task
  <2> QED BY <1>3, <2>1, EmbedFile
<1>4. CASE RunText
  <2>1. ASSUME NEW f \in Files PROVE FileOK(f)'
    BY <1>4, Still DEF RunText, store, watch, bounds, Pending, Unless
  <2>2. /\ phase' = "text" /\ todo' = {f \in Text : disk[f] # 0} /\ queue = {}
        /\ \A w \in RunWorkers : pc[w] = "idle"
        /\ UNCHANGED <<queue, pc, on, mode, seen, tangled>>
    BY <1>4 DEF RunText, RunsIdle, task
  <2> QED BY <1>0, <2>1, <2>2 DEF Turns
<1>5. CASE RunCommit
  <2>1. ASSUME NEW f \in Files PROVE FileOK(f)'
    BY <1>5, Still DEF RunCommit, watch, bounds, Pending, Unless
  <2>2. /\ phase = "text" /\ phase' = "off" /\ \A w \in RunWorkers : pc[w] = "idle"
        /\ UNCHANGED <<queue, pc, on, mode, seen, tangled, todo>>
    BY <1>5 DEF RunCommit, RunsIdle, task
  <2> QED BY <1>0, <2>1, <2>2 DEF Turns
<1> QED BY <1>1, <1>2, <1>3, <1>4, <1>5 DEF Run

(* The watcher passes on what it has heard, or the file is marked.         *)
LEMMA WatchFiles ==
  ASSUME TypeOK, InHand, Housed, Turns, FilesOK, Watch
  PROVE  Turns' /\ FilesOK'
<1> USE DEF FilesOK
<1>0. /\ Watcher \notin RunWorkers /\ Watcher \in Workers /\ RunWorkers \subseteq Workers
      /\ NoFile \notin Files
  BY IndexerAssumption DEF Workers
<1>1. CASE NextBatch
  <2>1. ASSUME NEW f \in Files PROVE FileOK(f)'
    <3>1. flaws[f] \subseteq flaws'[f]
      BY <1>1 DEF NextBatch
    <3>2. Pending(f) => Pending(f)'
      <4>1. batch[f] = "none"
        BY <1>1 DEF NextBatch, Housed
      <4> QED BY <1>1, <3>1, <4>1 DEF NextBatch, Pending, Unless
    <3> QED BY <1>1, <3>1, <3>2, Still DEF NextBatch, store, run, bounds
  <2>2. Turns'
    BY <1>1 DEF NextBatch, Turns, task, run
  <2> QED BY <2>1, <2>2
<1>2. ASSUME NEW f \in Files, TakeEvent(f) PROVE Turns' /\ FilesOK'
  <2> DEFINE m == IF batch[f] = "deleted" THEN "purge" ELSE "code"
             l == IF batch[f] = "deleted" THEN "delDocs" ELSE "read"
  <2>0. /\ pc[Watcher] = "idle" /\ Begin(Watcher, f, m, l)
        /\ batch' = [batch EXCEPT ![f] = "none"] /\ phase' = phase /\ todo' = todo
        /\ UNCHANGED <<disk, store, queue, events, clock>>
    BY <1>2 DEF TakeEvent, run, bounds
  <2>1. FileOK(f)'
    <3>1. \/ m \in {"code", "text"} /\ l = "read" /\ (batch[f] = "deleted" => batch'[f] = "deleted")
          \/ m = "purge" /\ l = "delDocs"
      OBVIOUS
    <3>2. m # "text" /\ Watcher \in Workers
      BY <1>0
    <3> HIDE DEF m, l
    <3> QED BY <2>0, <3>1, <3>2, BeginFile
  <2>2. ASSUME NEW g \in Files, g # f PROVE FileOK(g)'
    <3>1. batch'[g] = batch[g]
      BY <2>0, <2>2 DEF TypeOK, PhasesOK
    <3> HIDE DEF m, l
    <3>2. Steady(g)
      BY <1>0, <2>0, <2>2, <3>1, BeginElsewhere
    <3> QED BY <3>2, SteadyFile
  <2>3. /\ on'[Watcher] = f /\ mode'[Watcher] = m /\ pc'[Watcher] = l /\ seen' = seen
        /\ \A v \in Workers : v # Watcher => on'[v] = on[v] /\ mode'[v] = mode[v] /\ pc'[v] = pc[v]
        /\ \A v \in Workers : v \in tangled' => v \in tangled \/ v = Watcher \/ on[v] = f
    <3> HIDE DEF m, l
    <3> QED BY <1>0, <2>0, BeginFacts
  <2>4. \A v \in Workers : pc'[v] = "idle" => on'[v] = NoFile /\ seen'[v] = 0 /\ v \notin tangled'
    BY <1>0, <2>0, <2>3 DEF Turns
  <2>5. m # "text"
    OBVIOUS
  <2> HIDE DEF m, l
  <2>6. \A v \in RunWorkers : on'[v] = on[v] /\ mode'[v] = mode[v] /\ pc'[v] = pc[v]
    BY <1>0, <2>3
  <2>7. queue' = queue
    BY <2>0
  <2>8. Turns'
    BY <2>0, <2>3, <2>4, <2>5, <2>6, <2>7 DEF Turns
  <2> QED BY <2>1, <2>2, <2>8
<1>3. CASE EndBatch
  <2>1. ASSUME NEW f \in Files PROVE FileOK(f)'
    BY <1>3, Still DEF EndBatch, run, bounds, Pending, Unless
  <2>2. Turns'
    BY <1>3 DEF EndBatch, Turns, task, run
  <2> QED BY <2>1, <2>2
<1> QED BY <1>1, <1>2, <1>3 DEF Watch

(* Edits, deletions, evictions and the death of the process.               *)
LEMMA OutsideFiles ==
  ASSUME TypeOK, InHand, Housed, Turns, FilesOK,
         \/ \E f \in scope.files : Edit(f) \/ Delete(f)
         \/ Evict \/ Hydrate \/ Crash
  PROVE  Turns' /\ FilesOK'
<1> USE DEF FilesOK
<1>1. ASSUME NEW f \in scope.files, Edit(f) \/ Delete(f) PROVE Turns' /\ FilesOK'
  <2>0. f \in Files
    BY IndexerAssumption DEF TypeOK, BoundsOK
  <2>1. FileOK(f)'
    BY <1>1, <2>0, ChangeFile
  <2>2. ASSUME NEW g \in Files, g # f PROVE FileOK(g)'
    <3>1. /\ disk'[g] = disk[g] /\ flaws'[g] = flaws[g] /\ events'[g] = events[g] /\ batch' = batch
          /\ UNCHANGED <<hash, symbols, nodes, edges, imports, docs, vectors, queue, task>>
      BY <1>1, <2>2 DEF Edit, Delete, Notify, Flawed, store, run, TypeOK, BoundsOK, PhasesOK
    <3>2. clock \in Nat /\ clock' = clock + 1
      BY <1>1, IndexerAssumption DEF Edit, Delete, TypeOK, BoundsOK
    <3>3. OnFile(g)' = OnFile(g) /\ (Pending(g) => Pending(g)')
      BY <3>1 DEF OnFile, task, Pending, Unless
    <3>4. clock <= clock' /\ clock' \in Nat
      BY <3>2
    <3>5. Steady(g)
      BY <3>1, <3>3, <3>4 DEF Steady, task
    <3> QED BY <3>5, SteadyFile
  <2>3. Turns'
    BY <1>1 DEF Edit, Delete, Turns, task, run
  <2> QED BY <2>1, <2>2, <2>3
<1>2. CASE Evict \/ Hydrate
  <2>1. ASSUME NEW f \in Files PROVE FileOK(f)'
    BY <1>2, Still DEF Evict, Hydrate, store, run, watch, bounds, Pending, Unless
  <2>2. Turns'
    BY <1>2 DEF Evict, Hydrate, Turns, task, run
  <2> QED BY <2>1, <2>2
<1>3. CASE Crash
  <2>1. Turns'
    BY <1>3, IndexerAssumption DEF Crash, Turns, Workers
  <2> QED BY <1>3, <2>1, CrashFile
<1> QED BY <1>1, <1>2, <1>3

(* Every file, and whoever works on it, is as FileOK says.                 *)
THEOREM EveryFile == Spec => [](FilesOK /\ Turns)
<1>1. Init => FilesOK /\ Turns
  <2> SUFFICES ASSUME Init PROVE FilesOK /\ Turns
    OBVIOUS
  <2>1. Turns
    BY IndexerAssumption DEF Init, Turns, Workers
  <2>2. ASSUME NEW f \in Files PROVE FileOK(f)
    <3>1. /\ OnFile(f) = {} /\ hash[f] = 0 /\ disk[f] \in {0, 1} /\ clock = 1 /\ flaws[f] = {}
          /\ Of(docs, f) = {} /\ Of(symbols, f) = {} /\ Of(edges, f) = {} /\ f \notin nodes
      BY IndexerAssumption DEF Init, OnFile, Of
    <3> QED BY <3>1 DEF FileOK, Apart, Aged, Owned, AtRest, Settled, Told, Gone
  <2> QED BY <2>1, <2>2 DEF FilesOK
<1>2. TypeOK /\ InHand /\ Housed /\ FilesOK /\ Turns /\ [Next]_vars => FilesOK' /\ Turns'
  <2> SUFFICES ASSUME TypeOK, InHand, Housed, FilesOK, Turns, [Next]_vars PROVE FilesOK' /\ Turns'
    OBVIOUS
  <2>1. CASE UNCHANGED vars
    <3>1. ASSUME NEW f \in Files PROVE FileOK(f)'
      BY <2>1, Still DEF vars, FilesOK, task, Pending, Unless
    <3> QED BY <2>1, <3>1 DEF vars, FilesOK, Turns
  <2> QED BY <2>1, StepFiles, StepTurns, RunFiles, WatchFiles, OutsideFiles DEF Next
<1> QED BY <1>1, <1>2, TypeCorrect, WorkHoused, PTL DEF Spec

(* Of a file the next run will skip, the stores hold exactly what its      *)
(* content makes, however edits, crashes, runs and the watcher interleave. *)
THEOREM HashIsEarned == Spec => []HashMeansIndexed
<1>1. FilesOK => HashMeansIndexed
  <2> SUFFICES ASSUME FilesOK, NEW f \in Files, Skipped(f), ~Unless(f, {"overlap", "halfPurged"})
               PROVE  StoresFollow(f)
    BY DEF HashMeansIndexed, StoresFollow
  <2>1. Settled(f)
    BY DEF Settled, Skipped, Busy, OnFile
  <2> QED BY <2>1 DEF FilesOK, FileOK, AtRest
<1> QED BY <1>1, EveryFile, PTL

(* A deleted file leaves every store the watcher could tell to forget it,  *)
(* and no vector of an older content answers for a newer one.              *)
THEOREM RowsGoWithFiles == Spec => []RowsFollow
<1>1. FilesOK /\ Turns /\ TypeOK => DeletedIsGone
  <2> SUFFICES ASSUME FilesOK, TypeOK, NEW f \in Code,
                      disk[f] = 0, ~Busy(f), events[f] = "none", batch[f] = "none",
                      ~Unless(f, {"overlap", "missed", "uncommitted", "orphanEdges"})
               PROVE  /\ hash[f] = 0 /\ f \notin nodes
                      /\ Of(docs, f) = {} /\ Of(symbols, f) = {} /\ Of(edges, f) = {}
    BY DEF DeletedIsGone
  <2>1. f \in Files /\ OnFile(f) = {}
    BY DEF Files, Busy, OnFile
  <2>2. Gone(f)
    BY <2>1 DEF FilesOK, FileOK, Told, Pending, Unless
  <2> QED BY <2>2 DEF Gone, Unless
<1>2. FilesOK => VectorsFollow
  <2> SUFFICES ASSUME FilesOK, NEW f \in Code, Skipped(f),
                      ~Unless(f, {"overlap", "halfPurged", "noVectors", "oldVectors"})
               PROVE  Of(vectors, f) = Rows(f, disk[f])
    BY DEF VectorsFollow
  <2>1. f \in Files /\ Settled(f)
    BY DEF Files, Settled, Skipped, Busy, OnFile, Unless
  <2>2. Of(vectors, f) \subseteq Rows(f, disk[f]) /\ Rows(f, disk[f]) \subseteq vectors
    BY <2>1 DEF FilesOK, FileOK, AtRest, EmbeddingsFollow, Unless
  <2> QED BY <2>2, RowsAre DEF Of
<1> QED BY <1>1, <1>2, EveryFile, TypeCorrect, PTL DEF RowsFollow
=============================================================================
