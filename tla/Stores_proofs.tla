--------------------------- MODULE Stores_proofs ---------------------------
(***************************************************************************)
(* Proofs about the stores, and about what stands in front of a command    *)
(* and of the configuration, for any values of their constants.            *)
(*                                                                         *)
(*   PublishIsOneStep  TargetWhole, from WriteInv: while the tasks of one  *)
(*                     process take turns, the file under a process's name *)
(*                     belongs to the task at work in it;                  *)
(*   IndexesAgree      EdgesInStep, from KvInv: both edge tables change in *)
(*                     one transaction, and flipping an edge loses nothing;*)
(*   ArchiveKept       ArchiveHonest, from ArchiveInv: while writers take  *)
(*                     turns, the session one has in hand is out of date   *)
(*                     in the tracker until its last chunk is embedded,    *)
(*                     and the digest its row gets is no newer than the    *)
(*                     text its chunks were cut from;                      *)
(*   RegistryKept      RegistryHonest, from SavesKnow and ServedAndKept:   *)
(*                     whoever is about to save has seen the registry as   *)
(*                     it is, and the slots owe it at most one look;       *)
(*   EpisodesKept      EpisodesHonest, from EpInv and TurnInv: a row goes  *)
(*                     with an event the pass has judged, and a session's  *)
(*                     turns number as many as there are;                  *)
(*   OneModelServes    three parts of VectorsHonest, from VecInv: whoever  *)
(*                     loads a model holds the lock, and the rows of a     *)
(*                     batch bear one number;                              *)
(*   CaptureKept       CaptureHonest, from CaptureInv: what was written is *)
(*                     what is stored, in a reader's hand or in the pipe,  *)
(*                     in this order, and a buffer is what its count says; *)
(*   PatchKept         PatchHonest, from LayerInv: whichever file bears a  *)
(*                     page's token holds what its preview was made of;    *)
(*   FilterKept        FilterHonest, from FilterOK and, by induction over  *)
(*                     what is printed, typed or installed, from what the  *)
(*                     filters (Fits), the choice of a handler (PickBest)  *)
(*                     and the rewriting (Rewritten) make of any input;    *)
(*   FrontsKept        FrontsHonest, from the last three.                  *)
(***************************************************************************)
EXTENDS Archive, EdgeTables, AtomicWrite, Registry, EpisodeLog, VectorStore, Fronts,
        SequenceTheorems, FiniteSetTheorems, WellFoundedInduction, TLAPS

-----------------------------------------------------------------------------
(* The publish routine                                                     *)

(* Why: while the tasks of a process take turns, the file under a process's *)
(* name belongs to the task at work in it, which is the only one that can   *)
(* write into it, and holds exactly what that task has written.             *)
Busy(t) == publisher[t].pc \in {"write", "rename"}
Prefix(t) == [k \in 1..publisher[t].done |-> BodyOf[t][k]]
OwnFile(t) ==
  /\ publisher[t].done \in 0..Len(BodyOf[t])
  /\ publisher[t].pc = "rename" => publisher[t].done = Len(BodyOf[t])
  /\ publisher[t].pc = "write" => publisher[t].done < Len(BodyOf[t])
  /\ TempName(t) \in DOMAIN names /\ names[TempName(t)] = publisher[t].inode
  /\ content[publisher[t].inode] = Prefix(t)

DirectoryOK ==
  /\ content \in Seq(Seq(Blocks))
  /\ "target" \in DOMAIN names
  /\ \A n \in DOMAIN names : names[n] \in 1..Len(content)
  /\ \A n \in DOMAIN names : \A m \in DOMAIN names : names[n] = names[m] => n = m

PublishersOK ==
  /\ publisher \in [Publishers -> {Resting} \cup [pc : {"write", "rename"}, inode : Nat, done : Nat]]
  /\ \A t \in Publishers : Busy(t) => OwnFile(t)
  /\ \A t \in Publishers : \A u \in Publishers : Busy(t) /\ Busy(u) /\ ProcessOf[t] = ProcessOf[u] => t = u

PublishedOK == published = "nobody" \/ published \in Publishers

WriteInv == DirectoryOK /\ PublishersOK /\ PublishedOK /\ TargetWhole

(* A finished prefix is the body.                                           *)
LEMMA WholeBody ==
  ASSUME NEW t \in Publishers, publisher[t].done = Len(BodyOf[t])
  PROVE  Prefix(t) = BodyOf[t]
<1>1. BodyOf[t] \in Seq(Blocks)
  BY WriteAssumption
<1> QED  BY <1>1 DEF Prefix

(* The start: one body in the target, nobody at work.                       *)
LEMMA WriteStart == WriteInit => WriteInv
<1> SUFFICES ASSUME WriteInit PROVE WriteInv
  OBVIOUS
<1>1. PICK t \in Publishers : content = << BodyOf[t] >>
  BY DEF WriteInit
<1>2. BodyOf[t] \in Seq(Blocks)
  BY WriteAssumption
<1>3. content \in Seq(Seq(Blocks)) /\ Len(content) = 1 /\ content[1] = BodyOf[t]
  BY <1>1, <1>2
<1>4. DOMAIN names = {"target"} /\ names["target"] = 1
  BY DEF WriteInit
<1>5. DirectoryOK
  BY <1>3, <1>4 DEF DirectoryOK
<1>6. PublishersOK /\ PublishedOK
  BY DEF WriteInit, PublishersOK, PublishedOK, Busy, Resting
<1>7. TargetWhole
  BY <1>3, <1>4 DEF TargetWhole, WriteInit
<1> QED  BY <1>5, <1>6, <1>7 DEF WriteInv

(* Opening takes a file no other task holds: the name is the process's, and *)
(* a file that has no name yet is a new one.                                *)
LEMMA OpenKeeps ==
  ASSUME WriteInv, Together = FALSE, NEW t \in Publishers, OpenTemp(t)
  PROVE  WriteInv'
<1> DEFINE n == TempName(t)
           i == IF n \in DOMAIN names THEN names[n] ELSE Len(content) + 1
<1>1. /\ content' = IF i > Len(content) THEN Append(content, <<>>) ELSE [content EXCEPT ![i] = <<>>]
      /\ names' = [m \in DOMAIN names \cup {n} |-> IF m = n THEN i ELSE names[m]]
      /\ publisher' = [publisher EXCEPT ![t] = [pc |-> "write", inode |-> i, done |-> 0]]
      /\ UNCHANGED published
      /\ \A u \in Publishers \ {t} : ProcessOf[u] = ProcessOf[t] => publisher[u].pc = "idle"
  BY DEF OpenTemp
<1>2. i \in Nat /\ i \in 1..(Len(content) + 1) /\ (i = Len(content) + 1 <=> n \notin DOMAIN names)
  BY DEF WriteInv, DirectoryOK
<1>3. /\ content' \in Seq(Seq(Blocks)) /\ content'[i] = <<>> /\ i \in 1..Len(content') /\ Len(content') >= Len(content)
      /\ \A j \in 1..Len(content) : j # i => content'[j] = content[j]
  <2>1. CASE i = Len(content) + 1
    BY <1>1, <2>1 DEF WriteInv, DirectoryOK
  <2>2. CASE i \in 1..Len(content)
    BY <1>1, <2>2 DEF WriteInv, DirectoryOK
  <2>3. Len(content) \in Nat
    BY DEF WriteInv, DirectoryOK
  <2>4. i = Len(content) + 1 \/ i \in 1..Len(content)
    <3> HIDE DEF i
    <3> QED  BY <1>2, <2>3
  <2> QED  BY <2>1, <2>2, <2>4
<1>4. n # "target"
  BY WriteAssumption DEF TempName
<1>5. \A m \in DOMAIN names : m # n => names[m] # i /\ names'[m] = names[m]
  BY <1>1, <1>2 DEF WriteInv, DirectoryOK
<1>6. DirectoryOK'
  <2>1. DOMAIN names' = DOMAIN names \cup {n} /\ names'[n] = i
    BY <1>1
  <2>2. ASSUME NEW m \in DOMAIN names' PROVE names'[m] \in 1..Len(content')
    <3>1. CASE m = n
      BY <1>3, <2>1, <3>1
    <3>2. CASE m # n
      <4>1. names'[m] \in 1..Len(content)
        <5>1. m \in DOMAIN names
          BY <2>1, <3>2
        <5>2. names'[m] = names[m]
          BY <1>5, <3>2, <5>1
        <5> QED  BY <5>1, <5>2 DEF WriteInv, DirectoryOK
      <4>2. Len(content) \in Nat /\ Len(content') \in Nat
        <5>1. content \in Seq(Seq(Blocks)) /\ content' \in Seq(Seq(Blocks))
          BY <1>3 DEF WriteInv, DirectoryOK
        <5> QED  BY <5>1, LenProperties
      <4>3. Len(content') >= Len(content)
        BY <1>3
      <4> QED  BY <4>1, <4>2, <4>3
    <3> QED  BY <3>1, <3>2
  <2>3. ASSUME NEW m \in DOMAIN names', NEW k \in DOMAIN names', names'[m] = names'[k] PROVE m = k
    BY <1>5, <2>1, <2>3 DEF WriteInv, DirectoryOK
  <2>4. "target" \in DOMAIN names'
    BY <2>1 DEF WriteInv, DirectoryOK
  <2> QED  BY <1>3, <2>2, <2>3, <2>4 DEF DirectoryOK
<1>7. PublishersOK'
  <2>1. publisher'[t] = [pc |-> "write", inode |-> i, done |-> 0] /\ OwnFile(t)'
    <3>1. publisher'[t] = [pc |-> "write", inode |-> i, done |-> 0]
      BY <1>1 DEF WriteInv, PublishersOK
    <3>2. Prefix(t)' = <<>>
      BY <3>1 DEF Prefix
    <3>3. Len(BodyOf[t]) \in Nat /\ Len(BodyOf[t]) > 0
      BY WriteAssumption
    <3>4. n \in DOMAIN names' /\ names'[n] = i
      BY <1>1
    <3> QED  BY <1>3, <3>1, <3>2, <3>3, <3>4 DEF OwnFile, TempName
  <2>2. ASSUME NEW u \in Publishers, u # t, Busy(u)'
        PROVE  Busy(u) /\ OwnFile(u)' /\ ProcessOf[u] # ProcessOf[t]
    <3>1. publisher'[u] = publisher[u] /\ Busy(u)
      BY <1>1, <2>2 DEF WriteInv, PublishersOK, Busy
    <3>2. ProcessOf[u] # ProcessOf[t]
      BY <1>1, <2>2, <3>1 DEF Busy
    <3>3. TempName(u) # n /\ OwnFile(u)
      BY <3>1, <3>2 DEF TempName, WriteInv, PublishersOK
    <3>4. TempName(u) \in DOMAIN names' /\ names'[TempName(u)] = publisher[u].inode /\ publisher[u].inode # i
      BY <1>1, <1>5, <3>3 DEF OwnFile
    <3>5. content'[publisher[u].inode] = Prefix(u) /\ Prefix(u)' = Prefix(u)
      <4>1. publisher[u].inode \in 1..Len(content)
        BY <3>3 DEF OwnFile, WriteInv, DirectoryOK
      <4> QED  BY <1>3, <3>1, <3>3, <3>4, <4>1 DEF OwnFile, Prefix
    <3> QED  BY <3>1, <3>2, <3>3, <3>4, <3>5 DEF OwnFile, TempName
  <2>3. publisher' \in [Publishers -> {Resting} \cup [pc : {"write", "rename"}, inode : Nat, done : Nat]]
    BY <1>1, <1>2 DEF WriteInv, PublishersOK
  <2>4. \A u \in Publishers : Busy(u)' => OwnFile(u)'
    BY <2>1, <2>2
  <2>5. ASSUME NEW u \in Publishers, NEW v \in Publishers, Busy(u)', Busy(v)', ProcessOf[u] = ProcessOf[v]
        PROVE  u = v
    <3>1. CASE u = t \/ v = t
      BY <2>2, <2>5, <3>1
    <3>2. CASE u # t /\ v # t
      BY <2>2, <2>5, <3>2 DEF WriteInv, PublishersOK
    <3> QED  BY <3>1, <3>2
  <2> QED  BY <2>3, <2>4, <2>5 DEF PublishersOK
<1>8. TargetWhole' /\ PublishedOK'
  <2>1. names["target"] \in 1..Len(content) /\ names'["target"] = names["target"] /\ names["target"] # i
    BY <1>4, <1>5 DEF WriteInv, DirectoryOK
  <2> QED  BY <1>1, <1>3, <2>1 DEF WriteInv, TargetWhole, PublishedOK
<1> QED  BY <1>6, <1>7, <1>8 DEF WriteInv

(* A block goes to the end of the writer's own prefix: no hole, nobody      *)
(* else's file.                                                             *)
LEMMA BlockKeeps ==
  ASSUME WriteInv, NEW t \in Publishers, WriteBlock(t)
  PROVE  WriteInv'
<1> DEFINE p == publisher[t]
           at == p.done + 1
<1>1. Busy(t) /\ OwnFile(t) /\ p.pc = "write"
  BY DEF WriteBlock, Busy, WriteInv, PublishersOK
<1>2. p.inode \in 1..Len(content) /\ p.done \in Nat /\ at \in 1..Len(BodyOf[t]) /\ BodyOf[t] \in Seq(Blocks)
  <2>1. TempName(t) \in DOMAIN names /\ names[TempName(t)] = p.inode
    BY <1>1 DEF OwnFile
  <2>2. p.inode \in 1..Len(content)
    BY <2>1 DEF WriteInv, DirectoryOK
  <2>3. p.done \in Nat /\ p.done < Len(BodyOf[t])
    BY <1>1 DEF OwnFile
  <2>4. BodyOf[t] \in Seq(Blocks)
    BY WriteAssumption
  <2> QED BY <2>2, <2>3, <2>4
<1>3. content[p.inode] = [k \in 1..p.done |-> BodyOf[t][k]] /\ Len(content[p.inode]) = p.done
  <2>1. content[p.inode] = [k \in 1..p.done |-> BodyOf[t][k]]
    BY <1>1 DEF OwnFile, Prefix
  <2>2. p.done \in Nat
    BY <1>2
  <2> HIDE DEF p
  <2> QED BY <2>1, <2>2
<1>4. content' = [content EXCEPT ![p.inode] = [k \in 1..at |-> BodyOf[t][k]]]
  <2>1. content' = [content EXCEPT ![p.inode] =
          [k \in 1..at |-> IF k = at THEN BodyOf[t][at] ELSE IF k <= p.done THEN content[p.inode][k] ELSE "hole"]]
    <3> DEFINE old == content[p.inode]
               length == IF Len(old) < at THEN at ELSE Len(old)
    <3>1. content' = [content EXCEPT ![p.inode] =
            [k \in 1..length |-> IF k = at THEN BodyOf[t][at] ELSE IF k <= Len(old) THEN old[k] ELSE "hole"]]
      BY DEF WriteBlock
    <3>2. length = at /\ Len(old) = p.done
      BY <1>2, <1>3
    <3> HIDE DEF length
    <3> QED  BY <3>1, <3>2
  <2>2. [k \in 1..at |-> IF k = at THEN BodyOf[t][at] ELSE IF k <= p.done THEN content[p.inode][k] ELSE "hole"]
        = [k \in 1..at |-> BodyOf[t][k]]
    BY <1>2, <1>3
  <2> QED  BY <2>1, <2>2
<1>5. publisher' = [publisher EXCEPT ![t] = [p EXCEPT !.done = at, !.pc = IF at = Len(BodyOf[t]) THEN "rename" ELSE "write"]]
  BY DEF WriteBlock, WriteInv, PublishersOK
<1>6. UNCHANGED <<names, published>>
  BY DEF WriteBlock
<1>7. [k \in 1..at |-> BodyOf[t][k]] \in Seq(Blocks)
  <2>1. \A k \in 1..at : BodyOf[t][k] \in Blocks
    BY <1>2
  <2>2. at \in Nat
    BY <1>2
  <2> HIDE DEF at
  <2> QED  BY <2>1, <2>2, SeqDef
<1>8. /\ content' \in Seq(Seq(Blocks)) /\ Len(content') = Len(content)
      /\ content'[p.inode] = [k \in 1..at |-> BodyOf[t][k]]
      /\ \A j \in 1..Len(content) : j # p.inode => content'[j] = content[j]
  BY <1>2, <1>4, <1>7 DEF WriteInv, DirectoryOK
<1>9. DirectoryOK'
  BY <1>6, <1>8 DEF WriteInv, DirectoryOK
<1>10. p \in [pc : {"write", "rename"}, inode : Nat, done : Nat]
  BY <1>1 DEF Busy, WriteInv, PublishersOK, Resting
<1>11. PublishersOK'
  <2>1. /\ publisher'[t].done = at /\ publisher'[t].inode = p.inode
        /\ publisher'[t].pc = IF at = Len(BodyOf[t]) THEN "rename" ELSE "write"
    BY <1>5, <1>10 DEF WriteInv, PublishersOK
  <2>2. OwnFile(t)'
    BY <1>1, <1>2, <1>6, <1>8, <2>1 DEF OwnFile, Prefix, TempName
  <2>3. ASSUME NEW u \in Publishers, u # t, Busy(u)'
        PROVE  Busy(u) /\ OwnFile(u)' /\ ProcessOf[u] # ProcessOf[t]
    <3>1. publisher'[u] = publisher[u] /\ Busy(u)
      BY <1>5, <2>3 DEF WriteInv, PublishersOK, Busy
    <3>2. OwnFile(u) /\ ProcessOf[u] # ProcessOf[t]
      BY <1>1, <2>3, <3>1 DEF WriteInv, PublishersOK
    <3>3. publisher[u].inode # p.inode /\ publisher[u].inode \in 1..Len(content)
      BY <1>1, <3>2, <2>3 DEF OwnFile, TempName, WriteInv, DirectoryOK
    <3> QED  BY <1>6, <1>8, <3>1, <3>2, <3>3 DEF OwnFile, Prefix, TempName
  <2>4. publisher' \in [Publishers -> {Resting} \cup [pc : {"write", "rename"}, inode : Nat, done : Nat]]
    <3> DEFINE pc2 == IF at = Len(BodyOf[t]) THEN "rename" ELSE "write"
               q == [p EXCEPT !.done = at, !.pc = pc2]
    <3>1. pc2 \in {"write", "rename"} /\ at \in Nat
      BY <1>2
    <3>2. publisher' = [publisher EXCEPT ![t] = q]
      BY <1>5
    <3> HIDE DEF pc2, at
    <3>3. q \in [pc : {"write", "rename"}, inode : Nat, done : Nat]
      BY <1>10, <3>1
    <3> HIDE DEF q
    <3> QED  BY <3>2, <3>3 DEF WriteInv, PublishersOK
  <2>5. \A u \in Publishers : Busy(u)' => OwnFile(u)'
    BY <2>2, <2>3
  <2>6. ASSUME NEW u \in Publishers, NEW v \in Publishers, Busy(u)', Busy(v)', ProcessOf[u] = ProcessOf[v]
        PROVE  u = v
    <3>1. CASE u = t \/ v = t
      BY <2>3, <2>6, <3>1
    <3>2. CASE u # t /\ v # t
      BY <2>3, <2>6, <3>2 DEF WriteInv, PublishersOK
    <3> QED  BY <3>1, <3>2
  <2> QED  BY <2>4, <2>5, <2>6 DEF PublishersOK
<1>12. TargetWhole' /\ PublishedOK'
  <2>1. names["target"] \in 1..Len(content) /\ names["target"] # p.inode
    BY <1>1, WriteAssumption DEF OwnFile, TempName, WriteInv, DirectoryOK
  <2> QED  BY <1>6, <1>8, <2>1 DEF WriteInv, TargetWhole, PublishedOK
<1> QED  BY <1>9, <1>11, <1>12 DEF WriteInv

(* What is renamed over the target is a body, whole.                        *)
LEMMA RenameKeeps ==
  ASSUME WriteInv, NEW t \in Publishers, RenameTemp(t)
  PROVE  WriteInv'
<1> DEFINE n == TempName(t)
<1>1. Busy(t) /\ OwnFile(t) /\ publisher[t].pc = "rename"
  BY DEF RenameTemp, Busy, WriteInv, PublishersOK
<1>2. n \in DOMAIN names /\ n # "target" /\ content[names[n]] = BodyOf[t]
  BY <1>1, WholeBody, WriteAssumption DEF OwnFile, TempName
<1>3. /\ names' = [m \in DOMAIN names \ {n} |-> IF m = "target" THEN names[n] ELSE names[m]]
      /\ published' = t
      /\ publisher' = [publisher EXCEPT ![t] = Resting]
      /\ UNCHANGED content
  BY <1>2 DEF RenameTemp
<1>4. DirectoryOK'
  <2>1. DOMAIN names' = DOMAIN names \ {n} /\ names'["target"] = names[n]
    BY <1>2, <1>3 DEF WriteInv, DirectoryOK
  <2>2. \A m \in DOMAIN names' : m # "target" => names'[m] = names[m]
    BY <1>3
  <2> QED  BY <1>2, <1>3, <2>1, <2>2 DEF WriteInv, DirectoryOK
<1>5. PublishersOK'
  <2>1. ~ Busy(t)'
    BY <1>3 DEF Busy, Resting, WriteInv, PublishersOK
  <2>2. ASSUME NEW u \in Publishers, Busy(u)'
        PROVE  OwnFile(u)' /\ Busy(u)
    <3>1. u # t /\ publisher'[u] = publisher[u] /\ Busy(u)
      BY <1>3, <2>1, <2>2 DEF WriteInv, PublishersOK, Busy
    <3>2. OwnFile(u) /\ TempName(u) # n /\ TempName(u) # "target"
      BY <1>1, <3>1, WriteAssumption DEF TempName, WriteInv, PublishersOK
    <3> QED  BY <1>3, <3>1, <3>2 DEF OwnFile, Prefix, TempName
  <2>3. publisher' \in [Publishers -> {Resting} \cup [pc : {"write", "rename"}, inode : Nat, done : Nat]]
    BY <1>3 DEF WriteInv, PublishersOK
  <2> QED  BY <2>2, <2>3 DEF WriteInv, PublishersOK
<1>6. TargetWhole' /\ PublishedOK'
  BY <1>2, <1>3 DEF WriteInv, DirectoryOK, TargetWhole, PublishedOK
<1> QED  BY <1>4, <1>5, <1>6 DEF WriteInv

(* A kill leaves the names and the contents; who is killed holds no file.   *)
LEMMA KillKeeps ==
  ASSUME WriteInv, NEW q \in Processes, KillProcess(q)
  PROVE  WriteInv'
<1>1. UNCHANGED <<names, content, published>>
  BY DEF KillProcess
<1>2. \A u \in Publishers : Busy(u)' => publisher'[u] = publisher[u] /\ Busy(u)
  BY DEF KillProcess, Busy, Resting
<1>3. publisher' \in [Publishers -> {Resting} \cup [pc : {"write", "rename"}, inode : Nat, done : Nat]]
  BY DEF KillProcess, WriteInv, PublishersOK
<1>4. PublishersOK'
  <2>1. ASSUME NEW u \in Publishers, Busy(u)' PROVE OwnFile(u)'
    BY <1>1, <1>2, <2>1 DEF OwnFile, Prefix, TempName, WriteInv, PublishersOK
  <2> QED  BY <1>2, <1>3, <2>1 DEF WriteInv, PublishersOK
<1> QED  BY <1>1, <1>4 DEF WriteInv, DirectoryOK, PublishedOK, TargetWhole

(* While the tasks of one process take turns, whatever the processes are,   *)
(* whatever they publish and wherever they die, the target is a body, whole, *)
(* that of the last rename.                                                 *)
THEOREM PublishIsOneStep ==
  ASSUME Together = FALSE
  PROVE  WriteSpec => []TargetWhole
<1>1. ASSUME WriteInv, [WriteNext]_writeVars PROVE WriteInv'
  <2>1. CASE UNCHANGED writeVars
    BY <1>1, <2>1 DEF writeVars, WriteInv, DirectoryOK, PublishersOK, PublishedOK, TargetWhole,
                      Busy, OwnFile, Prefix, TempName
  <2> QED  BY <1>1, <2>1, OpenKeeps, BlockKeeps, RenameKeeps, KillKeeps DEF WriteNext
<1>2. WriteInv => TargetWhole
  BY DEF WriteInv
<1> QED  BY <1>1, <1>2, WriteStart, PTL DEF WriteSpec

-----------------------------------------------------------------------------
(* The graph's tables                                                      *)

(* Before the first opening there is no reverse index; after it the two     *)
(* agree, whether the database is open or not, and a purge only goes on     *)
(* while it is.                                                            *)
KvInv ==
  /\ forward \subseteq UNION Batches
  /\ IF backfilled THEN reverse = {Flip(e) : e \in forward} ELSE reverse = {} /\ ~ kvOpen
  /\ DOMAIN purger = Purgers
  /\ \A t \in Purgers : purger[t].keys \subseteq UNION Batches

(* A flipped edge names its edge. *)
LEMMA FlipOnce ==
  ASSUME NEW d, NEW e, d = <<d[1], d[2], d[3]>>, e = <<e[1], e[2], e[3]>>, Flip(d) = Flip(e)
  PROVE  d = e
BY DEF Flip

(* Whatever is put and purged, and whenever the database is closed or its   *)
(* owner dies: the reverse index holds the edges of the forward one and no  *)
(* other, once it was filled.                                               *)
THEOREM IndexesAgree == KvInit /\ [][KvNext]_kvVars => []EdgesInStep
<1>1. KvInit => KvInv
  BY DEF KvInit, KvInv, NoPurge
<1>2. KvInv /\ [KvNext]_kvVars => KvInv'
  <2> SUFFICES ASSUME KvInv, [KvNext]_kvVars PROVE KvInv'
    OBVIOUS
  <2>1. CASE OpenKv
    BY <2>1 DEF OpenKv, KvInv
  <2>2. CASE CloseKv
    BY <2>2 DEF CloseKv, KvInv, NoPurge
  <2>3. CASE \E f \in GraphFiles : PutNodesBatch(f)
    BY <2>3 DEF PutNodesBatch, KvInv
  <2>4. CASE \E b \in Batches : PutEdgesBatch(b)
    BY <2>4 DEF PutEdgesBatch, KvInv
  <2>5. ASSUME NEW t \in Purgers, NEW f \in GraphFiles, ReadNodes(t, f) PROVE KvInv'
    BY <2>5 DEF ReadNodes, KvInv
  <2>6. ASSUME NEW t \in Purgers, DeleteNodes(t) PROVE KvInv'
    BY <2>6 DEF DeleteNodes, KvInv
  <2>7. ASSUME NEW t \in Purgers, ReadEdges(t) PROVE KvInv'
    BY <2>7 DEF ReadEdges, KvInv
  <2>8. ASSUME NEW t \in Purgers, DeleteEdges(t) PROVE KvInv'
    <3> DEFINE keys == purger[t].keys
    <3>1. /\ forward' = forward \ keys /\ reverse' = reverse \ {Flip(e) : e \in keys}
          /\ keys \subseteq UNION Batches /\ forward \subseteq UNION Batches
          /\ purger' = [purger EXCEPT ![t] = NoPurge] /\ UNCHANGED <<backfilled, kvOpen>>
      BY <2>8 DEF DeleteEdges, KvInv
    <3>2. \A d, e \in UNION Batches : Flip(d) = Flip(e) => d = e
      BY KvAssumption, FlipOnce
    <3>3. {Flip(e) : e \in forward} \ {Flip(e) : e \in keys} = {Flip(e) : e \in forward \ keys}
      BY <3>1, <3>2
    <3>4. IF backfilled THEN reverse' = {Flip(e) : e \in forward'} ELSE reverse' = {} /\ ~ kvOpen
      BY <3>1, <3>3 DEF KvInv
    <3> QED BY <3>1, <3>4 DEF KvInv, NoPurge
  <2>9. CASE UNCHANGED kvVars
    BY <2>9 DEF kvVars, KvInv
  <2> QED BY <2>1, <2>2, <2>3, <2>4, <2>5, <2>6, <2>7, <2>8, <2>9 DEF KvNext
<1>3. KvInv => EdgesInStep
  BY DEF KvInv, EdgesInStep
<1> QED BY <1>1, <1>2, <1>3, PTL

-----------------------------------------------------------------------------
(* The conversation archive                                                *)

(* Any non-empty set of natural numbers has a least element.               *)
LEMMA LowestIn ==
  ASSUME NEW T, T \subseteq Nat, T # {}
  PROVE  Lowest(T) \in T /\ \A y \in T : Lowest(T) <= y
<1> DEFINE R == {ss \in Nat \X Nat : ss[1] < ss[2]}
<1>1. IsWellFoundedOn(R, Nat)
  <2>1. R = OpToRel(<, Nat)
    BY DEF OpToRel
  <2> QED BY <2>1, NatLessThanWellFounded
<1>2. \E x \in T : \A y \in T : ~ (<<y, x>> \in R)
  <2> HIDE DEF R
  <2> QED BY <1>1, WFMin
<1>3. PICK x \in T : \A y \in T : ~ (<<y, x>> \in R)
  BY <1>2
<1>4. ASSUME NEW y \in T PROVE x <= y
  <2>1. ~(<<y, x>> \in R) /\ y \in Nat /\ x \in Nat
    BY <1>3
  <2>2. ~ (y < x)
    BY <2>1
  <2> QED BY <2>1, <2>2
<1> QED BY <1>4 DEF Lowest

(* A list that holds nothing twice still does without x, which is all it    *)
(* lost.                                                                    *)
LEMMA StrikeFacts ==
  ASSUME NEW S, NEW q \in Seq(S), OnceEach(q), NEW x
  PROVE  Strike(q, x) \in Seq(S) /\ OnceEach(Strike(q, x)) /\ Range(Strike(q, x)) = Range(q) \ {x}
<1>1. CASE x \notin Range(q)
  BY <1>1 DEF Strike
<1>2. CASE x \in Range(q)
  <2> DEFINE n == CHOOSE i \in DOMAIN q : q[i] = x
             r == Strike(q, x)
  <2>1. DOMAIN q = 1..Len(q) /\ Len(q) \in Nat /\ (\A i \in 1..Len(q) : q[i] \in S)
    OBVIOUS
  <2>2. n \in 1..Len(q) /\ q[n] = x
    BY <1>2, <2>1 DEF Range
  <2>3. r = [i \in 1..(Len(q) - 1) |-> IF i < n THEN q[i] ELSE q[i + 1]]
    BY <1>2 DEF Strike
  <2> HIDE DEF n, r
  <2>4. Len(q) - 1 \in Nat
    BY <2>1, <2>2
  <2>5. r \in Seq(S) /\ Len(r) = Len(q) - 1 /\ DOMAIN r = 1..(Len(q) - 1)
    BY <2>1, <2>2, <2>3, <2>4
  <2>6. \A i \in 1..(Len(q) - 1) : r[i] = q[IF i < n THEN i ELSE i + 1]
    BY <2>3
  <2>7. \A i, j \in 1..Len(q) : q[i] = q[j] => i = j
    BY <2>1 DEF OnceEach
  <2>8. OnceEach(r)
    <3> SUFFICES ASSUME NEW i \in 1..(Len(q) - 1), NEW j \in 1..(Len(q) - 1), r[i] = r[j] PROVE i = j
      BY <2>5 DEF OnceEach
    <3>1. PICK a \in 1..Len(q) : a = (IF i < n THEN i ELSE i + 1) /\ r[i] = q[a]
      BY <2>1, <2>2, <2>6
    <3>2. PICK b \in 1..Len(q) : b = (IF j < n THEN j ELSE j + 1) /\ r[j] = q[b]
      BY <2>1, <2>2, <2>6
    <3>3. a = b
      BY <2>7, <3>1, <3>2
    <3> QED BY <2>1, <2>2, <3>1, <3>2, <3>3
  <2>9. ASSUME NEW y \in Range(r) PROVE y \in Range(q) /\ y # x
    <3>1. PICK i \in 1..(Len(q) - 1) : y = r[i]
      BY <2>5, <2>9 DEF Range
    <3>2. PICK a \in 1..Len(q) : a = (IF i < n THEN i ELSE i + 1) /\ y = q[a]
      BY <2>1, <2>2, <2>6, <3>1
    <3>3. a # n
      BY <2>1, <2>2, <3>2
    <3> QED BY <2>1, <2>2, <2>7, <3>2, <3>3 DEF Range
  <2>10. ASSUME NEW y \in Range(q), y # x PROVE y \in Range(r)
    <3>1. PICK a \in 1..Len(q) : y = q[a]
      BY <2>1, <2>10 DEF Range
    <3>2. a # n
      BY <2>2, <2>10, <3>1
    <3>3. PICK i \in 1..(Len(q) - 1) : i = IF a < n THEN a ELSE a - 1
      BY <2>1, <2>2, <3>2
    <3>4. (IF i < n THEN i ELSE i + 1) = a
      BY <2>1, <2>2, <3>2, <3>3
    <3>5. r[i] = y
      BY <2>6, <3>1, <3>4
    <3> QED BY <2>5, <3>5 DEF Range
  <2> QED BY <2>5, <2>8, <2>9, <2>10 DEF r
<1> QED BY <1>1, <1>2

(* One element put before a list. *)
LEMMA FrontFacts ==
  ASSUME NEW S, NEW p \in Seq(S), NEW x \in S, NEW r, r = <<x>> \o p
  PROVE  /\ r \in Seq(S) /\ Len(r) = Len(p) + 1 /\ Len(p) \in Nat /\ r[1] = x
         /\ \A i \in 2..(Len(p) + 1) : r[i] = p[i - 1]
<1> DEFINE h == <<x>>
<1>1. h \in Seq(S) /\ Len(h) = 1 /\ h[1] = x /\ r = h \o p
  OBVIOUS
<1> HIDE DEF h
<1>2. /\ (h \o p) \in Seq(S) /\ Len(h \o p) = Len(h) + Len(p)
      /\ \A i \in 1 .. Len(h) + Len(p) : (h \o p)[i] = IF i <= Len(h) THEN h[i] ELSE p[i - Len(h)]
  BY <1>1, ConcatProperties, Zenon
<1>3. Len(p) \in Nat
  OBVIOUS
<1>4. PICK l \in Nat : l = Len(p)
  BY <1>3
<1>5. /\ r \in Seq(S) /\ Len(r) = 1 + l
      /\ \A i \in 1 .. 1 + l : r[i] = IF i <= 1 THEN h[i] ELSE p[i - 1]
  BY <1>1, <1>2, <1>4, Zenon
<1>6. r[1] = x
  BY <1>1, <1>5
<1>7. \A i \in 2..(l + 1) : r[i] = p[i - 1]
  BY <1>5
<1> QED BY <1>3, <1>4, <1>5, <1>6, <1>7

(* A list stays without repetition when what it lacks comes first. *)
LEMMA ToFront ==
  ASSUME NEW S, NEW p \in Seq(S), OnceEach(p), NEW x \in S, x \notin Range(p)
  PROVE  \E r \in Seq(S) : r = <<x>> \o p /\ OnceEach(r) /\ Range(r) = Range(p) \cup {x}
<1>2. PICK r : r = <<x>> \o p
  OBVIOUS
<1>1. p \in Seq(S) /\ OnceEach(p) /\ x \notin Range(p)
  OBVIOUS
<1>3. /\ r \in Seq(S) /\ Len(r) = Len(p) + 1 /\ Len(p) \in Nat /\ r[1] = x
      /\ \A i \in 2..(Len(p) + 1) : r[i] = p[i - 1]
  BY <1>2, FrontFacts
<1>4. DOMAIN r = 1..(Len(p) + 1) /\ DOMAIN p = 1..Len(p)
  BY <1>1, <1>3
<1>5. \A i \in 2..(Len(p) + 1) : i - 1 \in DOMAIN p
  BY <1>3, <1>4
<1>6. OnceEach(r)
  <2> SUFFICES ASSUME NEW i \in 1..(Len(p) + 1), NEW j \in 1..(Len(p) + 1), r[i] = r[j] PROVE i = j
    BY <1>4 DEF OnceEach
  <2>1. \A k \in 2..(Len(p) + 1) : r[k] # x
    BY <1>1, <1>3, <1>5 DEF Range
  <2>2. CASE i = 1 \/ j = 1
    BY <1>3, <2>1, <2>2
  <2>3. CASE i # 1 /\ j # 1
    <3>1. i \in 2..(Len(p) + 1) /\ j \in 2..(Len(p) + 1)
      BY <1>3, <2>3
    <3>2. p[i - 1] = p[j - 1]
      BY <1>3, <3>1
    <3>3. i - 1 = j - 1
      BY <1>1, <1>5, <3>1, <3>2 DEF OnceEach
    <3> QED BY <3>1, <3>3
  <2> QED BY <2>2, <2>3
<1>7. Range(r) = Range(p) \cup {x}
  <2>1. ASSUME NEW y \in Range(r) PROVE y \in Range(p) \cup {x}
    <3>1. PICK i \in 1..(Len(p) + 1) : y = r[i]
      BY <1>4, <2>1 DEF Range
    <3>2. i = 1 \/ i \in 2..(Len(p) + 1)
      BY <1>3
    <3> QED BY <1>3, <1>5, <3>1, <3>2 DEF Range
  <2>2. ASSUME NEW y \in Range(p) PROVE y \in Range(r)
    <3>1. PICK i \in 1..Len(p) : y = p[i]
      BY <1>4, <2>2 DEF Range
    <3>2. i + 1 \in 2..(Len(p) + 1) /\ (i + 1) - 1 = i
      BY <1>3
    <3>3. r[i + 1] = y
      BY <1>3, <3>1, <3>2
    <3>4. i + 1 \in DOMAIN r
      BY <1>3, <1>4
    <3> QED BY <3>3, <3>4 DEF Range
  <2>3. x \in Range(r)
    <3>1. 1 \in DOMAIN r
      BY <1>3, <1>4
    <3> QED BY <1>3, <3>1 DEF Range
  <2> QED BY <2>1, <2>2, <2>3
<1> QED BY <1>1, <1>2, <1>3, <1>6, <1>7

(* How many elements are left after the first n.                            *)
LEMMA LeftAfter ==
  ASSUME NEW n \in Nat, NEW l \in Nat, n <= l
  PROVE  (IF n + 1 <= l THEN l - (n + 1) + 1 ELSE 0) = l - n
OBVIOUS

(* The rows a purge or the cap leaves: those after the first n. *)
LEMMA TailFacts ==
  ASSUME NEW S, NEW q \in Seq(S), OnceEach(q), NEW n \in 1..Len(q), NEW r, r = SubSeq(q, n + 1, Len(q))
  PROVE  r \in Seq(S) /\ OnceEach(r) /\ Range(r) = Range(q) \ {q[i] : i \in 1..n}
<1>1. Len(q) \in Nat /\ n \in Nat /\ n + 1 \in Int /\ Len(q) \in Int /\ DOMAIN q = 1..Len(q) /\ n >= 1 /\ n <= Len(q)
  OBVIOUS
<1>2. \A i \in (n + 1)..Len(q) : q[i] \in S
  BY <1>1
<1>3. /\ r \in Seq(S) /\ Len(r) = (IF n + 1 <= Len(q) THEN Len(q) - (n + 1) + 1 ELSE 0)
      /\ \A i \in 1 .. Len(q) - (n + 1) + 1 : r[i] = q[(n + 1) + i - 1]
  BY <1>1, <1>2, SubSeqProperties
<1>4. DOMAIN r = 1..(Len(q) - n) /\ \A i \in 1..(Len(q) - n) : r[i] = q[n + i] /\ n + i \in (n + 1)..Len(q)
  <2>1. Len(r) = Len(q) - n
    <3>1. Len(r) = IF n + 1 <= Len(q) THEN Len(q) - (n + 1) + 1 ELSE 0
      BY <1>3
    <3>2. n \in Nat /\ Len(q) \in Nat /\ n <= Len(q)
      BY <1>1
    <3> QED BY <3>1, <3>2, LeftAfter, Zenon
  <2>2. DOMAIN r = 1..Len(r)
    BY <1>3
  <2>3. ASSUME NEW i \in 1..(Len(q) - n) PROVE r[i] = q[n + i] /\ n + i \in (n + 1)..Len(q)
    <3>1. i \in 1 .. Len(q) - (n + 1) + 1 /\ (n + 1) + i - 1 = n + i
      BY <1>1
    <3>2. r[i] = q[(n + 1) + i - 1]
      BY <1>3, <3>1
    <3> QED BY <1>1, <3>1, <3>2
  <2> QED BY <2>1, <2>2, <2>3
<1>5. \A i, j \in 1..Len(q) : q[i] = q[j] => i = j
  BY <1>1 DEF OnceEach
<1>6. OnceEach(r)
  <2> SUFFICES ASSUME NEW i \in 1..(Len(q) - n), NEW j \in 1..(Len(q) - n), r[i] = r[j] PROVE i = j
    BY <1>4 DEF OnceEach
  <2>1. n + i \in 1..Len(q) /\ n + j \in 1..Len(q) /\ q[n + i] = q[n + j]
    BY <1>1, <1>4
  <2>2. n + i = n + j
    BY <1>5, <2>1
  <2> QED BY <1>1, <2>2
<1>7. ASSUME NEW y \in Range(r) PROVE y \in Range(q) /\ y \notin {q[i] : i \in 1..n}
  <2>1. PICK i \in 1..(Len(q) - n) : y = r[i]
    BY <1>4, <1>7 DEF Range
  <2>2. y = q[n + i] /\ n + i \in 1..Len(q) /\ n + i \notin 1..n
    BY <1>1, <1>4, <2>1
  <2>3. \A j \in 1..n : j \in 1..Len(q)
    BY <1>1
  <2> QED BY <1>1, <1>5, <2>2, <2>3 DEF Range
<1>8. ASSUME NEW y \in Range(q), y \notin {q[i] : i \in 1..n} PROVE y \in Range(r)
  <2>1. PICK k \in 1..Len(q) : y = q[k]
    BY <1>1, <1>8 DEF Range
  <2>2. k \notin 1..n
    BY <1>8, <2>1
  <2>3. k - n \in 1..(Len(q) - n) /\ n + (k - n) = k
    BY <1>1, <2>2
  <2>4. r[k - n] = y
    BY <1>4, <2>1, <2>3
  <2> QED BY <1>4, <2>3, <2>4 DEF Range
<1> QED BY <1>3, <1>6, <1>7, <1>8

(* One more row. *)
LEMMA AppendFacts ==
  ASSUME NEW S, NEW q \in Seq(S), OnceEach(q), NEW x \in S, x \notin Range(q)
  PROVE  \E r \in Seq(S) : r = Append(q, x) /\ OnceEach(r) /\ Range(r) = Range(q) \cup {x}
<1>0. PICK r : r = Append(q, x)
  OBVIOUS
<1>1. /\ r \in Seq(S) /\ Len(r) = Len(q) + 1 /\ Len(q) \in Nat /\ r[Len(q) + 1] = x
      /\ \A i \in 1..Len(q) : r[i] = q[i]
  BY <1>0
<1>2. DOMAIN r = 1..(Len(q) + 1) /\ DOMAIN q = 1..Len(q)
  BY <1>1
<1>3. \A i \in 1..(Len(q) + 1) : i \in 1..Len(q) \/ i = Len(q) + 1
  BY <1>1
<1>4. \A i \in 1..Len(q) : q[i] # x
  BY <1>2 DEF Range
<1>5. OnceEach(r)
  BY <1>1, <1>2, <1>3, <1>4 DEF OnceEach
<1>6. \A i \in 1..Len(q) : i \in DOMAIN r
  BY <1>1, <1>2
<1>7. Len(q) + 1 \in DOMAIN r
  BY <1>1, <1>2
<1>8. Range(r) = Range(q) \cup {x}
  BY <1>1, <1>2, <1>3, <1>6, <1>7 DEF Range
<1> QED BY <1>0, <1>1, <1>5, <1>8

Phases == {"idle", "lock", "list", "next", "delete", "parse", "upsert", "track", "dropRow", "dropVectors"}
Cuttings == {<<>>} \cup {ChunksOf[s][v] : s \in Transcripts, v \in 1..LastVersion}

WriterRecords ==
  [pc : Phases, refresh : BOOLEAN, todo : SUBSET Transcripts, hash : Nat, chunks : Cuttings, done : Nat]

Lists ==
  /\ version \in [Transcripts -> 0..LastVersion]
  /\ recent \in Seq(Transcripts) /\ rows \in Seq(Transcripts)
  /\ writer \in [Writers -> WriterRecords]
  /\ ArchiveTypeOK

(* One process at a time is at work on the archive. *)
Alone ==
  /\ \A w, v \in Writers : writer[w].pc # "idle" /\ writer[v].pc # "idle" => w = v
  /\ purge # {} => \A w \in Writers : writer[w].pc = "idle"

(* A row names a digest the transcript has had, and is gone before the      *)
(* chunks a purge removes.                                                  *)
RowsTrue ==
  /\ Tracked \subseteq Transcripts /\ purge \cap Tracked = {}
  /\ \A s \in Tracked : tracker[s] \in 1..version[s]

(* A chunk is at an index the transcript has now.                           *)
ChunksPlaced ==
  \A id \in DOMAIN vectors :
    /\ id = <<id[1], id[2]>> /\ id[1] \in Transcripts
    /\ version[id[1]] > 0 /\ id[2] \in 1..Len(ChunksOf[id[1]][version[id[1]]])

Embedded(s, chunks, n) ==
  \A i \in 1..n : <<s, i>> \in DOMAIN vectors /\ vectors[<<s, i>>] = chunks[i]

(* While a session is in hand its row, if it has one, is out of date; the   *)
(* digest it will get is no newer than the text its chunks are made of, and *)
(* as many of them as were counted are in the collection.                   *)
InHand(r) ==
  LET s == Lowest(r.todo)
  IN  /\ r.pc \in {"delete", "parse", "upsert", "track", "dropRow", "dropVectors"} => r.todo # {}
      /\ r.pc \in {"next", "delete", "parse", "upsert", "track"} => \A t \in r.todo : version[t] > 0
      /\ r.pc \in {"next", "delete", "parse"} => r.done = 0
      /\ r.pc \in {"delete", "parse", "upsert", "track"} =>
           r.hash \in 1..version[s] /\ (s \in Tracked => tracker[s] < version[s])
      /\ r.pc \in {"upsert", "track"} =>
           /\ \E v \in r.hash..version[s] : r.chunks = ChunksOf[s][v]
           /\ r.done <= Len(r.chunks) /\ Embedded(s, r.chunks, r.done)
      /\ r.pc = "track" => r.done = Len(r.chunks)
      /\ r.pc = "idle" => r = Idle
      /\ r.pc = "dropVectors" => s \notin Tracked

ArchiveInv ==
  /\ Lists /\ Alone /\ RowsTrue /\ ChunksPlaced
  /\ (\A w \in Writers : InHand(writer[w])) /\ DigestMeansEmbedded

(* Who is idle, waits or has yet to list has nothing in hand.               *)
LEMMA IdleHand ==
  /\ InHand(Idle)
  /\ \A r : r.pc \in {"lock", "list"} => InHand(r)
<1>1. Idle.pc = "idle"
  BY DEF Idle, AtWork
<1>2. InHand(Idle)
  BY <1>1 DEF InHand
<1> QED BY <1>2 DEF InHand

(* At the start nothing is on disk, tracked, embedded or at work.           *)
LEMMA Initially == ArchiveInit => ArchiveInv
<1> SUFFICES ASSUME ArchiveInit PROVE ArchiveInv
  OBVIOUS
<1>0. /\ tracker = <<>> /\ rows = <<>> /\ recent = <<>> /\ vectors = <<>> /\ DOMAIN tracker = {} /\ DOMAIN vectors = {}
      /\ \A s \in Transcripts : version[s] = 0
      /\ purge = {} /\ \A w \in Writers : writer[w] = Idle
  BY DEF ArchiveInit
<1>1. Idle \in WriterRecords /\ Idle.pc = "idle"
  BY DEF Idle, AtWork, WriterRecords, Phases, Cuttings
<1>2. <<>> \in Seq(Transcripts) /\ OnceEach(<<>>) /\ Range(<<>>) = {}
  BY DEF OnceEach, Range
<1>3. ArchiveTypeOK
  BY <1>0, <1>2, ArchiveAssumption DEF ArchiveInit, ArchiveTypeOK, Tracked
<1>4. Lists
  BY <1>1, <1>2, <1>3 DEF ArchiveInit, Lists, ArchiveTypeOK
<1>5. Alone /\ RowsTrue /\ ChunksPlaced /\ DigestMeansEmbedded
  BY <1>0, <1>1 DEF Alone, RowsTrue, ChunksPlaced, DigestMeansEmbedded, Tracked
<1>6. \A w \in Writers : InHand(writer[w])
  BY <1>0, IdleHand
<1> QED BY <1>4, <1>5, <1>6 DEF ArchiveInv

(* What a step of the archive leaves when the disk and the collection stay *)
(* as they are: only the writer w goes on, and it may when nobody else is  *)
(* at work.                                                                *)
LEMMA OneGoesOn ==
  ASSUME Lists, Alone, NEW w \in Writers, NEW r \in WriterRecords, writer' = [writer EXCEPT ![w] = r],
         writer[w].pc # "idle" \/ (Working = {} /\ purge = {}),
         UNCHANGED purge
  PROVE  /\ Alone' /\ writer' \in [Writers -> WriterRecords] /\ writer'[w] = r
         /\ \A x \in Writers \ {w} : writer'[x] = writer[x] /\ writer[x].pc = "idle"
<1>1. writer \in [Writers -> WriterRecords]
  BY DEF Lists
<1>2. writer'[w] = r /\ (\A x \in Writers \ {w} : writer'[x] = writer[x]) /\ writer' \in [Writers -> WriterRecords]
  BY <1>1
<1>3. ASSUME NEW x \in Writers \ {w} PROVE writer[x].pc = "idle"
  BY <1>3 DEF Alone, Working
<1>4. purge = {} \/ \A x \in Writers : writer[x].pc = "idle"
  BY DEF Alone
<1>5. purge = {}
  BY <1>4 DEF Working
<1> QED BY <1>2, <1>3, <1>5 DEF Alone

(* A writer's step that leaves the disk, the tracker and the collection.    *)
LEMMA Turn ==
  ASSUME ArchiveInv, NEW w \in Writers, NEW r \in WriterRecords, writer' = [writer EXCEPT ![w] = r], InHand(r),
         writer[w].pc # "idle" \/ (Working = {} /\ purge = {}),
         flock' \in Writers \cup {0}, hook' \in Writers \cup {0},
         UNCHANGED <<version, recent, tracker, rows, vectors, purge>>
  PROVE  ArchiveInv'
<1>1. Lists /\ Alone /\ RowsTrue /\ ChunksPlaced /\ DigestMeansEmbedded /\ \A x \in Writers : InHand(writer[x])
  BY DEF ArchiveInv
<1>2. /\ Alone' /\ writer' \in [Writers -> WriterRecords] /\ writer'[w] = r
      /\ \A x \in Writers \ {w} : writer'[x] = writer[x] /\ writer[x].pc = "idle"
  BY <1>1, OneGoesOn
<1>3. Lists'
  BY <1>1, <1>2 DEF Lists, ArchiveTypeOK, Tracked
<1>4. RowsTrue'
  BY <1>1 DEF RowsTrue, Tracked
<1>5. ChunksPlaced'
  BY <1>1 DEF ChunksPlaced
<1>6. DigestMeansEmbedded'
  BY <1>1 DEF DigestMeansEmbedded, UpToDate, Tracked
<1>7. ASSUME NEW x \in Writers PROVE InHand(writer[x])'
  <2>1. InHand(writer'[x])
    BY <1>1, <1>2
  <2> QED BY <2>1 DEF InHand, Embedded, Tracked
<1> QED BY <1>2, <1>3, <1>4, <1>5, <1>6, <1>7 DEF ArchiveInv

(* A writer that has just been started.                                     *)
LEMMA StartRecord ==
  ASSUME NEW pc \in {"lock", "list"}, NEW refresh \in BOOLEAN,
         NEW r, r = [pc |-> pc, refresh |-> refresh, todo |-> {}, hash |-> 0, chunks |-> <<>>, done |-> 0]
  PROVE  r \in WriterRecords /\ r.pc = pc /\ InHand(r)
<1>1. r \in WriterRecords
  BY DEF WriterRecords, Phases, Cuttings
<1>2. r.pc = pc
  OBVIOUS
<1> QED BY <1>1, <1>2 DEF InHand

(* A writer that has a list of sessions to see to.                          *)
LEMMA TakeRecord ==
  ASSUME NEW refresh \in BOOLEAN, NEW todo \in SUBSET Transcripts, \A s \in todo : version[s] > 0,
         NEW r, r = [pc |-> "next", refresh |-> refresh, todo |-> todo, hash |-> 0, chunks |-> <<>>, done |-> 0]
  PROVE  r \in WriterRecords /\ r.pc = "next" /\ r.todo = todo /\ InHand(r)
<1>1. r.pc = "next" /\ r.todo = todo /\ r.done = 0
  OBVIOUS
<1>2. r \in WriterRecords
  BY DEF WriterRecords, Phases, Cuttings
<1>3. InHand(r)
  BY <1>1 DEF InHand
<1> QED BY <1>1, <1>2, <1>3

(* A writer that has ended.                                                 *)
LEMMA IdleRecord == Idle \in WriterRecords /\ Idle.pc = "idle" /\ InHand(Idle)
<1>1. Idle \in WriterRecords /\ Idle.pc = "idle"
  BY DEF Idle, AtWork, WriterRecords, Phases, Cuttings
<1> QED BY <1>1, IdleHand

(* What a writer's record holds.                                            *)
LEMMA Fields ==
  ASSUME NEW r \in WriterRecords
  PROVE  /\ r.refresh \in BOOLEAN /\ r.todo \in SUBSET Transcripts /\ r.hash \in Nat /\ r.done \in Nat
         /\ r.chunks \in Cuttings /\ r.pc \in Phases
         /\ r = [pc |-> r.pc, refresh |-> r.refresh, todo |-> r.todo, hash |-> r.hash, chunks |-> r.chunks, done |-> r.done]
BY DEF WriterRecords

(* What a writer has in hand is a transcript that was written. *)
LEMMA InHandIsWritten ==
  ASSUME Lists, NEW w \in Writers, writer[w].todo # {}
  PROVE  Current(w) \in writer[w].todo /\ Current(w) \in Transcripts /\ Rest(w) \in SUBSET Transcripts
<1>1. writer[w] \in WriterRecords
  BY DEF Lists
<1>2. writer[w].todo \subseteq Transcripts /\ writer[w].todo \subseteq Nat
  BY <1>1, Fields, ArchiveAssumption
<1>3. Lowest(writer[w].todo) \in writer[w].todo
  BY <1>2, LowestIn
<1> QED BY <1>2, <1>3 DEF Current, Rest

(* A start that waits for its turn keeps the invariant.                     *)
LEMMA Starts ==
  ASSUME ArchiveInv, NEW w \in Writers, NEW pc \in {"lock", "list"}, NEW refresh \in BOOLEAN, Started(w, pc, refresh),
         writer[w].pc # "idle" \/ (Working = {} /\ purge = {}),
         flock' \in Writers \cup {0}, hook' \in Writers \cup {0},
         UNCHANGED <<version, recent, tracker, rows, vectors, purge>>
  PROVE  ArchiveInv'
<1>1. PICK r : r = [pc |-> pc, refresh |-> refresh, todo |-> {}, hash |-> 0, chunks |-> <<>>, done |-> 0]
  OBVIOUS
<1>2. r \in WriterRecords /\ InHand(r)
  BY <1>1, StartRecord
<1>3. writer' = [writer EXCEPT ![w] = r]
  BY <1>1 DEF Started, AtWork
<1> QED BY <1>2, <1>3, Turn

(* So does going over to the sessions that are left.                        *)
LEMMA Takings ==
  ASSUME ArchiveInv, NEW w \in Writers, NEW todo \in SUBSET Transcripts, \A s \in todo : version[s] > 0, Takes(w, todo),
         writer[w].pc # "idle",
         UNCHANGED <<version, recent, tracker, rows, vectors, purge, flock, hook>>
  PROVE  ArchiveInv'
<1>1. PICK refresh : refresh = writer[w].refresh
  OBVIOUS
<1>2. refresh \in BOOLEAN /\ flock \in Writers \cup {0} /\ hook \in Writers \cup {0}
  BY <1>1, Fields DEF ArchiveInv, Lists, ArchiveTypeOK
<1>3. PICK r : r = [pc |-> "next", refresh |-> refresh, todo |-> todo, hash |-> 0, chunks |-> <<>>, done |-> 0]
  OBVIOUS
<1>4. r \in WriterRecords /\ InHand(r)
  BY <1>2, <1>3, TakeRecord
<1>5. writer' = [writer EXCEPT ![w] = r]
  BY <1>1, <1>3 DEF Takes, AtWork
<1> QED BY <1>2, <1>4, <1>5, Turn

(* So does the end of a writer, wherever it was.                            *)
LEMMA Endings ==
  ASSUME ArchiveInv, NEW w \in Writers, Ends(w), writer[w].pc # "idle",
         UNCHANGED <<version, recent, tracker, rows, vectors, purge, hook>>
  PROVE  ArchiveInv'
<1>1. flock \in Writers \cup {0} /\ hook \in Writers \cup {0}
  BY DEF ArchiveInv, Lists, ArchiveTypeOK
<1>2. writer' = [writer EXCEPT ![w] = Idle] /\ flock' \in Writers \cup {0}
  BY <1>1 DEF Ends
<1> QED BY <1>1, <1>2, IdleRecord, Turn

(* A writer that is past its choice has a session in hand.                  *)
LEMMA AliveHand ==
  ASSUME ArchiveInv, NEW w \in Writers, writer[w].pc \in {"delete", "parse", "upsert", "track", "dropRow", "dropVectors"}
  PROVE  writer[w].todo # {} /\ Current(w) \in writer[w].todo /\ Current(w) \in Transcripts /\ Rest(w) \in SUBSET Transcripts
<1>1. writer[w].todo # {}
  BY DEF ArchiveInv, InHand
<1> QED BY <1>1, InHandIsWritten DEF ArchiveInv

(* What touches neither the archive nor a writer keeps the invariant.       *)
LEMMA Elsewhere ==
  ASSUME ArchiveInv, UNCHANGED <<version, recent, tracker, rows, vectors, writer, flock, purge>>,
         hook' \in Writers \cup {0}
  PROVE  ArchiveInv'
BY DEF ArchiveInv, Lists, Alone, RowsTrue, ChunksPlaced, InHand, DigestMeansEmbedded, ArchiveTypeOK, Tracked,
       Embedded, UpToDate

(* The conjuncts of the invariant, and what they say of the variables.      *)
LEMMA InvFacts ==
  ASSUME ArchiveInv
  PROVE  /\ Lists /\ Alone /\ RowsTrue /\ ChunksPlaced /\ DigestMeansEmbedded /\ \A w \in Writers : InHand(writer[w])
         /\ flock \in Writers \cup {0} /\ hook \in Writers \cup {0} /\ version \in [Transcripts -> 0..LastVersion]
         /\ recent \in Seq(Transcripts) /\ rows \in Seq(Transcripts) /\ OnceEach(recent) /\ OnceEach(rows)
         /\ Range(recent) = {s \in Transcripts : version[s] > 0} /\ Range(rows) = Tracked
         /\ writer \in [Writers -> WriterRecords] /\ purge \subseteq Transcripts
         /\ LastVersion \in Nat
BY ArchiveAssumption DEF ArchiveInv, Lists, ArchiveTypeOK

(* The hooks and the command line start a writer when nobody is at work.    *)
LEMMA HookSteps ==
  ASSUME ArchiveInv, Overlap = FALSE, NEW w \in Writers, HookForwards(w) \/ SpawnDetached(w) \/ IngestByHand(w)
  PROVE  ArchiveInv'
<1>1. flock \in Writers \cup {0} /\ hook \in Writers \cup {0} /\ 0 \in Writers \cup {0}
  BY InvFacts
<1>2. CASE HookForwards(w)
  <2>1. Started(w, "list", TRUE) /\ Working = {} /\ purge = {}
    BY <1>2 DEF HookForwards, MayStart
  <2> QED BY <1>1, <1>2, <2>1, Starts DEF HookForwards
<1>3. CASE SpawnDetached(w)
  <2>1. Started(w, "lock", TRUE) /\ Working = {} /\ purge = {}
    BY <1>3 DEF SpawnDetached, MayStart
  <2> QED BY <1>1, <1>3, <2>1, Starts DEF SpawnDetached
<1>4. CASE IngestByHand(w)
  <2>1. Started(w, "lock", FALSE) /\ Working = {} /\ purge = {}
    BY <1>4 DEF IngestByHand, MayStart
  <2> QED BY <1>1, <1>4, <2>1, Starts DEF IngestByHand
<1> QED BY <1>2, <1>3, <1>4

(* A command that gets the lock goes on, one that does not is done.         *)
LEMMA LockStep == ASSUME ArchiveInv, NEW w \in Writers, Lock(w) PROVE ArchiveInv'
<1>1. /\ writer[w].pc = "lock" /\ UNCHANGED <<version, recent, tracker, rows, vectors, purge>>
      /\ flock \in Writers \cup {0} /\ hook' \in Writers \cup {0}
  BY InvFacts DEF Lock
<1>2. CASE flock = 0
  <2>1. PICK refresh : refresh = writer[w].refresh
    OBVIOUS
  <2>2. refresh \in BOOLEAN
    BY <2>1, InvFacts, Fields
  <2>3. Started(w, "list", refresh) /\ flock' \in Writers \cup {0}
    BY <1>2, <2>1 DEF Lock
  <2> QED BY <1>1, <2>2, <2>3, Starts
<1>3. CASE flock # 0
  <2>1. writer' = [writer EXCEPT ![w] = Idle] /\ UNCHANGED flock
    BY <1>3 DEF Lock
  <2> QED BY <1>1, <2>1, IdleRecord, Turn
<1> QED BY <1>2, <1>3

(* What is listed was written: it is in the list of transcripts.            *)
LEMMA ListStep == ASSUME ArchiveInv, NEW w \in Writers, List(w) PROVE ArchiveInv'
<1> DEFINE n == Len(recent)
           limit == IF Tracked = {} /\ FirstLimit < n THEN FirstLimit ELSE n
           todo == {recent[i] : i \in 1..limit}
<1>1. writer[w].pc = "list" /\ Takes(w, todo) /\ UNCHANGED <<version, recent, tracker, rows, vectors, purge, flock, hook>>
  BY DEF List
<1>2. /\ recent \in Seq(Transcripts) /\ Range(recent) = {s \in Transcripts : version[s] > 0}
      /\ DOMAIN recent = 1..n /\ n \in Nat
  BY InvFacts
<1>3. limit \in Nat /\ limit <= n
  BY <1>2, ArchiveAssumption
<1>4. todo \subseteq Range(recent)
  BY <1>2, <1>3 DEF Range
<1>5. todo \in SUBSET Transcripts /\ \A s \in todo : version[s] > 0
  BY <1>2, <1>4
<1> HIDE DEF todo
<1> QED BY <1>1, <1>5, Takings

(* What is chosen is out of date, and what is hashed is on disk.            *)
LEMMA NextStep == ASSUME ArchiveInv, NEW w \in Writers, Next1(w) PROVE ArchiveInv'
<1>1. /\ writer[w].pc = "next" /\ writer[w].todo # {}
      /\ UNCHANGED <<version, recent, tracker, rows, vectors, flock, purge, hook>>
  BY DEF Next1
<1> DEFINE s == Current(w)
<1>2. s \in writer[w].todo /\ s \in Transcripts /\ Rest(w) \in SUBSET Transcripts
  BY <1>1, InHandIsWritten, InvFacts
<1>3. \A t \in writer[w].todo : version[t] > 0
  BY <1>1, InvFacts DEF InHand
<1>4. CASE (~writer[w].refresh /\ s \in Tracked) \/ UpToDate(s)
  <2>1. Takes(w, Rest(w))
    BY <1>4 DEF Next1
  <2>2. \A t \in Rest(w) : version[t] > 0
    BY <1>3 DEF Rest
  <2> QED BY <1>1, <1>2, <2>1, <2>2, Takings
<1>5. CASE ~ ((~writer[w].refresh /\ s \in Tracked) \/ UpToDate(s))
  <2>1. PICK go \in {"delete", "parse"} : go = IF s \in Tracked THEN "delete" ELSE "parse"
    OBVIOUS
  <2>2. PICK q \in WriterRecords : q = writer[w]
    BY InvFacts
  <2>3. PICK h \in 1..LastVersion : h = version[s]
    BY <1>2, <1>3, InvFacts
  <2>4. go \in Phases /\ h \in Nat
    BY <2>3, InvFacts DEF Phases
  <2>10. PICK r : r = [q EXCEPT !.pc = go, !.hash = h]
    OBVIOUS
  <2>5. r \in WriterRecords /\ r.pc = go /\ r.todo = q.todo /\ r.hash = h /\ r.done = q.done
    <3>1. r \in WriterRecords
      BY <2>4, <2>10 DEF WriterRecords
    <3> QED BY <2>10, <3>1 DEF WriterRecords
  <2>6. writer' = [writer EXCEPT ![w] = r]
    <3>1. writer' = [writer EXCEPT ![w].pc = go, ![w].hash = h]
      BY <1>5, <2>1, <2>3 DEF Next1
    <3> QED BY <2>2, <2>10, <3>1, InvFacts
  <2>7. q.done = 0
    BY <1>1, <2>2, InvFacts DEF InHand
  <2>8. s \in Tracked => tracker[s] < version[s]
    BY <1>5, <1>2, InvFacts DEF UpToDate, RowsTrue
  <2>9. InHand(r)
    BY <1>2, <1>3, <2>1, <2>2, <2>3, <2>5, <2>7, <2>8 DEF InHand, Current
  <2> QED BY <1>1, <2>5, <2>6, <2>9, InvFacts, Turn
<1> QED BY <1>4, <1>5

(* The chunks of a version of a transcript.                                 *)
LEMMA ChunkFacts ==
  ASSUME NEW s \in Transcripts, NEW v \in 1..LastVersion
  PROVE  /\ ChunksOf[s][v] \in Cuttings /\ Len(ChunksOf[s][v]) \in Nat
         /\ DOMAIN ChunksOf[s][v] = 1..Len(ChunksOf[s][v])
         /\ \A u \in 1..LastVersion : v <= u => Len(ChunksOf[s][v]) <= Len(ChunksOf[s][u])
<1>1. ChunksOf[s][v] \in Cuttings
  BY DEF Cuttings
<1>2. DOMAIN ChunksOf[s][v] = 1..Len(ChunksOf[s][v]) /\ Len(ChunksOf[s][v]) \in Nat
  BY ArchiveAssumption, Zenon
<1>3. ASSUME NEW u \in 1..LastVersion, v <= u PROVE Len(ChunksOf[s][v]) <= Len(ChunksOf[s][u])
  BY <1>3, ArchiveAssumption, Zenon
<1> QED BY <1>1, <1>2, <1>3, Zenon

(* What is parsed is no older than what was hashed.                         *)
LEMMA ParseStep == ASSUME ArchiveInv, NEW w \in Writers, Parse(w) PROVE ArchiveInv'
<1> DEFINE s == Current(w)
<1>1. /\ writer[w].pc = "parse"
      /\ UNCHANGED <<version, recent, tracker, rows, vectors, flock, purge, hook>>
  BY DEF Parse
<1>2. writer[w].todo # {} /\ s \in writer[w].todo /\ s \in Transcripts /\ Rest(w) \in SUBSET Transcripts
  BY <1>1, AliveHand
<1>3. PICK q \in WriterRecords : q = writer[w]
  BY InvFacts
<1>4. /\ (\A t \in q.todo : version[t] > 0) /\ q.done = 0 /\ q.hash \in 1..version[s]
      /\ s \in Tracked => tracker[s] < version[s]
  BY <1>1, <1>3, InvFacts DEF InHand, Current
<1>5. version[s] \in 1..LastVersion
  BY <1>2, <1>3, <1>4, InvFacts
<1>6. PICK c \in Cuttings : c = ChunksOf[s][version[s]] /\ Len(c) \in Nat
  BY <1>2, <1>5, ChunkFacts
<1>7. CASE c = <<>>
  <2>1. Takes(w, Rest(w))
    BY <1>6, <1>7 DEF Parse
  <2>2. \A t \in Rest(w) : version[t] > 0
    BY <1>3, <1>4 DEF Rest
  <2> QED BY <1>1, <1>2, <2>1, <2>2, Takings
<1>8. CASE c # <<>>
  <2>1. writer' = [writer EXCEPT ![w].pc = "upsert", ![w].chunks = c]
    BY <1>6, <1>8 DEF Parse
  <2>2. PICK r : r = [q EXCEPT !.pc = "upsert", !.chunks = c]
    OBVIOUS
  <2>3. r \in WriterRecords
    BY <1>6, <2>2 DEF WriterRecords, Phases
  <2>4. r.pc = "upsert" /\ r.todo = q.todo /\ r.hash = q.hash /\ r.chunks = c /\ r.done = q.done
    BY <2>2, <2>3 DEF WriterRecords
  <2>5. writer' = [writer EXCEPT ![w] = r]
    BY <1>3, <2>1, <2>2, InvFacts
  <2>6. s = Lowest(r.todo) /\ r.todo # {} /\ r.done = 0 /\ r.done <= Len(r.chunks)
    BY <1>2, <1>3, <1>4, <1>6, <2>4 DEF Current
  <2>7. Embedded(s, r.chunks, r.done)
    BY <2>6 DEF Embedded
  <2>8. version[s] \in r.hash..version[s] /\ r.chunks = ChunksOf[s][version[s]]
    BY <1>4, <1>5, <1>6, <2>4
  <2>9. InHand(r)
    BY <1>3, <1>4, <2>4, <2>6, <2>7, <2>8 DEF InHand
  <2> QED BY <1>1, <2>3, <2>5, <2>9, InvFacts, Turn
<1> QED BY <1>7, <1>8

(* Past the cap there is a session to drop.                                 *)
LEMMA RetainStep == ASSUME ArchiveInv, NEW w \in Writers, Retain(w) PROVE ArchiveInv'
<1> DEFINE excess == Len(rows) - MaxSessions
<1>1. /\ writer[w].pc = "next"
      /\ UNCHANGED <<version, recent, tracker, rows, vectors, purge, hook>>
  BY DEF Retain
<1>2. CASE excess <= 0
  BY <1>1, <1>2, Endings DEF Retain
<1>3. CASE ~ (excess <= 0)
  <2>1. Len(rows) \in Nat /\ excess \in 1..Len(rows) /\ DOMAIN rows = 1..Len(rows) /\ \A i \in 1..Len(rows) : rows[i] \in Transcripts
    BY <1>3, InvFacts, ArchiveAssumption
  <2>2. PICK T : T = {rows[i] : i \in 1..excess}
    OBVIOUS
  <2>3. T \in SUBSET Transcripts /\ rows[1] \in T
    BY <2>1, <2>2
  <2>4. writer' = [writer EXCEPT ![w].pc = "dropRow", ![w].todo = T] /\ UNCHANGED flock
    BY <1>3, <2>2 DEF Retain
  <2>5. PICK q \in WriterRecords : q = writer[w]
    BY InvFacts
  <2>6. PICK r : r = [q EXCEPT !.pc = "dropRow", !.todo = T]
    OBVIOUS
  <2>7. r \in WriterRecords
    BY <2>3, <2>6 DEF WriterRecords, Phases
  <2>8. r.pc = "dropRow" /\ r.todo = T
    BY <2>6, <2>7 DEF WriterRecords
  <2>9. writer' = [writer EXCEPT ![w] = r]
    BY <2>4, <2>5, <2>6, InvFacts
  <2>10. InHand(r)
    BY <2>3, <2>8 DEF InHand
  <2> QED BY <1>1, <2>4, <2>7, <2>9, <2>10, InvFacts, Turn
<1> QED BY <1>2, <1>3

(* Who is killed leaves everything as it is.                                *)
LEMMA KillStep == ASSUME ArchiveInv, NEW w \in Writers, KillWriter(w) PROVE ArchiveInv'
<1>1. /\ writer[w] # Idle /\ Ends(w)
      /\ UNCHANGED <<version, recent, tracker, rows, vectors, purge, hook>>
  BY DEF KillWriter
<1>2. writer[w].pc # "idle"
  BY <1>1, InvFacts DEF InHand
<1> QED BY <1>1, <1>2, Endings

(* A transcript that is written to: what is in hand stays in hand, and the  *)
(* session it belongs to is out of date.                                    *)
LEMMA GrowStep == ASSUME ArchiveInv, NEW s \in Transcripts, Grow(s) PROVE ArchiveInv'
<1>1. /\ version[s] < LastVersion /\ version' = [version EXCEPT ![s] = @ + 1]
      /\ recent' = <<s>> \o Strike(recent, s)
      /\ UNCHANGED <<tracker, rows, vectors, writer, flock, purge, hook>>
  BY DEF Grow
<1>2. /\ version \in [Transcripts -> 0..LastVersion] /\ LastVersion \in Nat
      /\ recent \in Seq(Transcripts) /\ OnceEach(recent) /\ Range(recent) = {t \in Transcripts : version[t] > 0}
  BY InvFacts
<1>3. /\ version' \in [Transcripts -> 0..LastVersion] /\ version'[s] = version[s] + 1
      /\ \A t \in Transcripts \ {s} : version'[t] = version[t]
  BY <1>1, <1>2
<1>4. \A t \in Transcripts : version[t] \in 0..LastVersion /\ version'[t] \in 0..LastVersion /\ version[t] <= version'[t]
  BY <1>2, <1>3
<1>5. recent' \in Seq(Transcripts) /\ OnceEach(recent') /\ Range(recent') = Range(recent) \cup {s}
  <2>1. PICK p : p = Strike(recent, s)
    OBVIOUS
  <2>2. p \in Seq(Transcripts) /\ OnceEach(p) /\ Range(p) = Range(recent) \ {s}
    BY <1>2, <2>1, StrikeFacts
  <2>3. s \notin Range(p) /\ recent' = <<s>> \o p
    BY <1>1, <2>1, <2>2
  <2>4. p \in Seq(Transcripts) /\ OnceEach(p) /\ s \notin Range(p)
    BY <2>2, <2>3
  <2>5. PICK q \in Seq(Transcripts) : q = <<s>> \o p /\ OnceEach(q) /\ Range(q) = Range(p) \cup {s}
    BY <2>4, ToFront
  <2>6. recent' = q
    BY <2>3, <2>5, Zenon
  <2> QED BY <2>2, <2>5, <2>6
<1>6. Range(recent') = {t \in Transcripts : version'[t] > 0}
  BY <1>2, <1>3, <1>4, <1>5
<1>7. Lists'
  BY <1>1, <1>3, <1>5, <1>6, InvFacts DEF Lists, ArchiveTypeOK, Tracked
<1>8. Alone'
  BY <1>1, InvFacts DEF Alone
<1>9. Tracked \subseteq Transcripts /\ purge \cap Tracked = {} /\ \A t \in Tracked : tracker[t] \in 1..version[t]
  BY InvFacts DEF RowsTrue
<1>10. \A t \in Tracked : tracker[t] \in 1..version'[t]
  BY <1>4, <1>9
<1>11. RowsTrue'
  BY <1>1, <1>9, <1>10 DEF RowsTrue, Tracked
<1>12. ChunksPlaced'
  <2> SUFFICES ASSUME NEW id \in DOMAIN vectors
               PROVE  /\ id = <<id[1], id[2]>> /\ id[1] \in Transcripts
                      /\ version'[id[1]] > 0 /\ id[2] \in 1..Len(ChunksOf[id[1]][version'[id[1]]])
    BY <1>1 DEF ChunksPlaced
  <2>1. /\ id = <<id[1], id[2]>> /\ id[1] \in Transcripts
        /\ version[id[1]] > 0 /\ id[2] \in 1..Len(ChunksOf[id[1]][version[id[1]]])
    BY InvFacts DEF ChunksPlaced
  <2>2. PICK t \in Transcripts, v \in 1..LastVersion, u \in 1..LastVersion :
          t = id[1] /\ v = version[t] /\ u = version'[t] /\ v <= u
    BY <1>2, <1>4, <2>1
  <2>3. Len(ChunksOf[t][v]) <= Len(ChunksOf[t][u]) /\ Len(ChunksOf[t][v]) \in Nat /\ Len(ChunksOf[t][u]) \in Nat
    <3>1. v <= u
      BY <2>2
    <3>2. /\ Len(ChunksOf[t][v]) \in Nat
          /\ \A x \in 1..LastVersion : v <= x => Len(ChunksOf[t][v]) <= Len(ChunksOf[t][x])
      BY ChunkFacts, Zenon
    <3>3. Len(ChunksOf[t][u]) \in Nat
      BY ChunkFacts, Zenon
    <3> QED BY <3>1, <3>2, <3>3, Zenon
  <2>4. id[2] \in 1..Len(ChunksOf[t][u])
    BY <2>1, <2>2, <2>3
  <2>5. version'[id[1]] > 0
    BY <2>2
  <2> QED BY <2>1, <2>2, <2>4, <2>5
<1>13. ASSUME NEW w \in Writers PROVE InHand(writer[w])'
  <2>1. PICK r \in WriterRecords : r = writer[w]
    BY InvFacts
  <2>2. InHand(r)
    BY <2>1, InvFacts
  <2>3. ASSUME r.pc \in {"delete", "parse", "upsert", "track"}
        PROVE  /\ Lowest(r.todo) \in Transcripts /\ version[Lowest(r.todo)] \in 0..LastVersion
               /\ version'[Lowest(r.todo)] \in 0..LastVersion /\ version[Lowest(r.todo)] <= version'[Lowest(r.todo)]
    <3>1. Lowest(r.todo) \in Transcripts
      BY <2>1, <2>3, AliveHand DEF Current
    <3> QED BY <1>4, <3>1
  <2>4. r.pc \in {"next", "delete", "parse", "upsert", "track"} => \A t \in r.todo : version'[t] > 0
    <3>1. r.todo \subseteq Transcripts
      BY Fields
    <3> QED BY <1>4, <2>2, <3>1 DEF InHand
  <2>5. r.pc \in {"delete", "parse", "upsert", "track"} =>
           r.hash \in 1..version'[Lowest(r.todo)] /\ (Lowest(r.todo) \in Tracked => tracker[Lowest(r.todo)] < version'[Lowest(r.todo)])
    <3> SUFFICES ASSUME r.pc \in {"delete", "parse", "upsert", "track"}
                 PROVE r.hash \in 1..version'[Lowest(r.todo)] /\ (Lowest(r.todo) \in Tracked => tracker[Lowest(r.todo)] < version'[Lowest(r.todo)])
      OBVIOUS
    <3>1. PICK t : t = Lowest(r.todo)
      OBVIOUS
    <3>2. r.hash \in 1..version[t] /\ (t \in Tracked => tracker[t] < version[t])
      BY <2>2, <3>1 DEF InHand
    <3>3. version[t] \in 0..LastVersion /\ version'[t] \in 0..LastVersion /\ version[t] <= version'[t]
      BY <2>3, <3>1
    <3>4. t \in Tracked => tracker[t] < version'[t]
      BY <1>9, <3>2, <3>3
    <3> QED BY <3>1, <3>2, <3>3, <3>4
  <2>6. r.pc \in {"upsert", "track"} => \E v \in r.hash..version'[Lowest(r.todo)] : r.chunks = ChunksOf[Lowest(r.todo)][v]
    <3> SUFFICES ASSUME r.pc \in {"upsert", "track"}
                 PROVE  \E v \in r.hash..version'[Lowest(r.todo)] : r.chunks = ChunksOf[Lowest(r.todo)][v]
      OBVIOUS
    <3>1. PICK v \in r.hash..version[Lowest(r.todo)] : r.chunks = ChunksOf[Lowest(r.todo)][v]
      BY <2>2 DEF InHand
    <3>2. v \in r.hash..version'[Lowest(r.todo)]
      BY <2>3, Fields
    <3> QED BY <3>1, <3>2
  <2>7. writer'[w] = r /\ tracker' = tracker /\ vectors' = vectors
    BY <1>1, <2>1
  <2> QED BY <2>2, <2>4, <2>5, <2>6, <2>7 DEF InHand, Embedded, Tracked
<1>14. DigestMeansEmbedded'
  <2> SUFFICES ASSUME NEW t \in Tracked', UpToDate(t)', NEW i \in DOMAIN ChunksOf[t][version'[t]]
               PROVE  <<t, i>> \in DOMAIN vectors' /\ vectors'[<<t, i>>] = ChunksOf[t][version'[t]][i]
    BY DEF DigestMeansEmbedded
  <2>1. t \in Tracked /\ tracker[t] = version'[t] /\ t \in Transcripts
    BY <1>1, <1>9 DEF UpToDate, Tracked
  <2>2. tracker[t] <= version[t] /\ version[t] \in 0..LastVersion
    BY <1>4, <1>9, <2>1
  <2>3. version'[t] = version[t]
    BY <1>4, <2>1, <2>2
  <2>4. UpToDate(t)
    BY <2>1, <2>3 DEF UpToDate
  <2> QED BY <1>1, <2>1, <2>3, <2>4, InvFacts DEF DigestMeansEmbedded
<1> QED BY <1>7, <1>8, <1>11, <1>12, <1>13, <1>14 DEF ArchiveInv

(* A writer's step that reaches the collection or the tracker.              *)
LEMMA Reaches ==
  ASSUME ArchiveInv, NEW w \in Writers, NEW r \in WriterRecords, writer' = [writer EXCEPT ![w] = r],
         writer[w].pc # "idle", InHand(r)',
         flock' \in Writers \cup {0}, hook' \in Writers \cup {0},
         UNCHANGED <<version, recent, purge>>,
         rows' \in Seq(Transcripts), OnceEach(rows'), Range(rows') = Tracked',
         RowsTrue', ChunksPlaced', DigestMeansEmbedded'
  PROVE  ArchiveInv'
<1>1. Lists /\ Alone
  BY InvFacts
<1>2. /\ Alone' /\ writer' \in [Writers -> WriterRecords] /\ writer'[w] = r
      /\ \A x \in Writers \ {w} : writer'[x] = writer[x] /\ writer[x].pc = "idle"
  BY <1>1, OneGoesOn
<1>3. Lists'
  BY <1>2, InvFacts DEF Lists, ArchiveTypeOK
<1>4. ASSUME NEW x \in Writers PROVE InHand(writer[x])'
  <2>1. CASE x = w
    BY <1>2, <2>1 DEF InHand, Embedded, Tracked
  <2>2. CASE x # w
    <3>1. writer'[x] = writer[x] /\ writer[x].pc = "idle" /\ InHand(writer[x])
      BY <1>2, <2>2, InvFacts
    <3> QED BY <3>1 DEF InHand
  <2> QED BY <2>1, <2>2
<1> QED BY <1>2, <1>3, <1>4 DEF ArchiveInv

(* The chunks of a session that is not up to date may go.                   *)
LEMMA Cleared ==
  ASSUME ArchiveInv, NEW s \in Transcripts, ~ UpToDate(s), UNCHANGED <<version, tracker>>,
         vectors' = Without(vectors, Ids(s)) \/ vectors' = vectors
  PROVE  ChunksPlaced' /\ DigestMeansEmbedded'
<1>1. DOMAIN vectors' \subseteq DOMAIN vectors /\ \A id \in DOMAIN vectors' : vectors'[id] = vectors[id]
  BY DEF Without
<1>2. ChunksPlaced'
  BY <1>1, InvFacts DEF ChunksPlaced
<1>3. DigestMeansEmbedded'
  <2> SUFFICES ASSUME NEW t \in Tracked', UpToDate(t)', NEW i \in DOMAIN ChunksOf[t][version'[t]]
               PROVE  <<t, i>> \in DOMAIN vectors' /\ vectors'[<<t, i>>] = ChunksOf[t][version'[t]][i]
    BY DEF DigestMeansEmbedded
  <2>1. t \in Tracked /\ UpToDate(t) /\ t # s
    BY DEF UpToDate, Tracked
  <2>2. <<t, i>> \in DOMAIN vectors /\ vectors[<<t, i>>] = ChunksOf[t][version[t]][i]
    BY <2>1, InvFacts DEF DigestMeansEmbedded
  <2>3. <<t, i>>[1] = t
    OBVIOUS
  <2>4. <<t, i>> \notin Ids(s)
    BY <2>1, <2>3 DEF Ids
  <2>5. <<t, i>> \in DOMAIN vectors'
    BY <2>2, <2>4 DEF Without
  <2> QED BY <1>1, <2>2, <2>5
<1> QED BY <1>2, <1>3

(* The old chunks go, or stay where they were.                              *)
LEMMA DeleteStep == ASSUME ArchiveInv, NEW w \in Writers, DeleteOld(w) PROVE ArchiveInv'
<1> DEFINE s == Current(w)
<1>1. /\ writer[w].pc = "delete" /\ writer' = [writer EXCEPT ![w].pc = "parse"]
      /\ vectors' = Without(vectors, Ids(s)) \/ vectors' = vectors
      /\ UNCHANGED <<version, recent, tracker, rows, flock, purge, hook>>
  BY DEF DeleteOld, Goes
<1>2. writer[w].todo # {} /\ s \in writer[w].todo /\ s \in Transcripts
  BY <1>1, AliveHand
<1>3. PICK q \in WriterRecords : q = writer[w]
  BY InvFacts
<1>4. /\ (\A t \in q.todo : version[t] > 0) /\ q.done = 0 /\ q.hash \in 1..version[s] /\ s = Lowest(q.todo) /\ q.todo # {}
      /\ s \in Tracked => tracker[s] < version[s]
  BY <1>1, <1>2, <1>3, InvFacts DEF InHand, Current
<1>5. PICK r : r = [q EXCEPT !.pc = "parse"]
  OBVIOUS
<1>6. r \in WriterRecords
  BY <1>5 DEF WriterRecords, Phases
<1>7. r.pc = "parse" /\ r.todo = q.todo /\ r.hash = q.hash /\ r.done = q.done
  BY <1>5, <1>6 DEF WriterRecords
<1>8. writer' = [writer EXCEPT ![w] = r]
  BY <1>1, <1>3, <1>5, InvFacts
<1>9. InHand(r)'
  BY <1>1, <1>4, <1>7 DEF InHand, Tracked
<1>10. ~ UpToDate(s)
  <2>1. version[s] \in Int /\ (s \in Tracked => tracker[s] \in Int)
    BY <1>2, InvFacts DEF RowsTrue
  <2> QED BY <1>4, <2>1 DEF UpToDate
<1>11. ChunksPlaced' /\ DigestMeansEmbedded'
  BY <1>1, <1>2, <1>10, Cleared
<1>12. RowsTrue' /\ rows' \in Seq(Transcripts) /\ OnceEach(rows') /\ Range(rows') = Tracked'
  BY <1>1, InvFacts DEF RowsTrue, Tracked
<1> QED BY <1>1, <1>6, <1>8, <1>9, <1>11, <1>12, InvFacts, Reaches

(* A purge removes the chunks of sessions that have no row any more.        *)
LEMMA PurgeVectorsStep == ASSUME ArchiveInv, PurgeVectors \/ PurgeStops PROVE ArchiveInv'
<1>1. UNCHANGED <<version, recent, tracker, rows, writer, flock, hook>> /\ purge # {} /\ purge' \subseteq purge
  BY DEF PurgeVectors, PurgeStops
<1>2. Lists' /\ Alone' /\ RowsTrue'
  BY <1>1, InvFacts DEF Lists, Alone, RowsTrue, ArchiveTypeOK, Tracked
<1>3. \A w \in Writers : writer[w].pc = "idle" /\ InHand(writer[w])
  BY <1>1, InvFacts DEF Alone
<1>4. ASSUME NEW w \in Writers PROVE InHand(writer[w])'
  BY <1>1, <1>3 DEF InHand
<1>5. ChunksPlaced' /\ DigestMeansEmbedded'
  <2>1. purge \subseteq Transcripts /\ purge \subseteq Nat /\ purge \cap Tracked = {}
    BY InvFacts, ArchiveAssumption DEF RowsTrue
  <2>2. PICK s \in purge : s = Lowest(purge)
    BY <1>1, <2>1, LowestIn
  <2>3. s \in Transcripts /\ ~ UpToDate(s)
    BY <2>1 DEF UpToDate
  <2>4. vectors' = Without(vectors, Ids(s)) \/ vectors' = vectors
    BY <2>2 DEF PurgeVectors, PurgeStops
  <2> QED BY <1>1, <2>3, <2>4, Cleared
<1> QED BY <1>2, <1>4, <1>5 DEF ArchiveInv

(* Rows may go, their chunks being where they were.                         *)
LEMMA Untracked ==
  ASSUME ArchiveInv, NEW T, tracker' = Without(tracker, T), UNCHANGED <<version, vectors>>,
         purge' \cap (Tracked \ T) = {}
  PROVE  Tracked' = Tracked \ T /\ RowsTrue' /\ ChunksPlaced' /\ DigestMeansEmbedded'
<1>1. Tracked' = Tracked \ T /\ \A s \in Tracked' : tracker'[s] = tracker[s]
  BY DEF Without, Tracked
<1>2. RowsTrue'
  BY <1>1, InvFacts DEF RowsTrue
<1>3. ChunksPlaced'
  BY InvFacts DEF ChunksPlaced
<1>4. DigestMeansEmbedded'
  BY <1>1, InvFacts DEF DigestMeansEmbedded, UpToDate
<1> QED BY <1>1, <1>2, <1>3, <1>4

(* Retention takes the row first.                                           *)
LEMMA DropRowStep == ASSUME ArchiveInv, NEW w \in Writers, DropRow(w) PROVE ArchiveInv'
<1> DEFINE s == Current(w)
<1>1. /\ writer[w].pc = "dropRow" /\ writer' = [writer EXCEPT ![w].pc = "dropVectors"]
      /\ tracker' = Without(tracker, {s}) /\ rows' = Strike(rows, s)
      /\ UNCHANGED <<version, recent, vectors, flock, purge, hook>>
  BY DEF DropRow, Goes
<1>2. writer[w].todo # {} /\ s \in writer[w].todo /\ s \in Transcripts
  BY <1>1, AliveHand
<1>3. PICK q \in WriterRecords : q = writer[w]
  BY InvFacts
<1>4. Tracked' = Tracked \ {s} /\ RowsTrue' /\ ChunksPlaced' /\ DigestMeansEmbedded'
  <2>1. purge' \cap (Tracked \ {s}) = {}
    BY <1>1, InvFacts DEF RowsTrue
  <2> QED BY <1>1, <2>1, Untracked
<1>5. PICK r : r = [q EXCEPT !.pc = "dropVectors"]
  OBVIOUS
<1>6. r \in WriterRecords
  BY <1>5 DEF WriterRecords, Phases
<1>7. r.pc = "dropVectors" /\ r.todo = q.todo
  BY <1>5, <1>6 DEF WriterRecords
<1>8. writer' = [writer EXCEPT ![w] = r]
  BY <1>1, <1>3, <1>5, InvFacts
<1>9. InHand(r)'
  <2>1. Lowest(r.todo) = s /\ r.todo # {}
    BY <1>2, <1>3, <1>7 DEF Current
  <2> QED BY <1>4, <1>7, <2>1 DEF InHand
<1>10. rows' \in Seq(Transcripts) /\ OnceEach(rows') /\ Range(rows') = Tracked'
  BY <1>1, <1>4, InvFacts, StrikeFacts
<1> QED BY <1>1, <1>4, <1>6, <1>8, <1>9, <1>10, InvFacts, Reaches

(* Then the chunks, which no row stands for.                                *)
LEMMA DropVectorsStep == ASSUME ArchiveInv, NEW w \in Writers, DropVectors(w) PROVE ArchiveInv'
<1> DEFINE s == Current(w)
<1>1. /\ writer[w].pc = "dropVectors"
      /\ vectors' = Without(vectors, Ids(s)) \/ vectors' = vectors
      /\ UNCHANGED <<version, recent, tracker, rows, purge, hook>>
  BY DEF DropVectors
<1>2. writer[w].todo # {} /\ s \in writer[w].todo /\ s \in Transcripts /\ Rest(w) \in SUBSET Transcripts
  BY <1>1, AliveHand
<1>3. ~ UpToDate(s)
  BY <1>1, InvFacts DEF InHand, Current, UpToDate
<1>4. ChunksPlaced' /\ DigestMeansEmbedded'
  BY <1>1, <1>2, <1>3, Cleared
<1>5. RowsTrue' /\ rows' \in Seq(Transcripts) /\ OnceEach(rows') /\ Range(rows') = Tracked'
  BY <1>1, InvFacts DEF RowsTrue, Tracked
<1>6. CASE Rest(w) = {}
  <2>1. writer' = [writer EXCEPT ![w] = Idle] /\ flock' \in Writers \cup {0}
    BY <1>6, InvFacts DEF DropVectors, Ends
  <2>2. InHand(Idle)'
    BY IdleRecord DEF InHand
  <2> QED BY <1>1, <1>4, <1>5, <2>1, <2>2, IdleRecord, InvFacts, Reaches
<1>7. CASE Rest(w) # {}
  <2>1. PICK T \in SUBSET Transcripts : T = Rest(w) /\ T # {}
    BY <1>2, <1>7
  <2>2. writer' = [writer EXCEPT ![w].pc = "dropRow", ![w].todo = T] /\ UNCHANGED flock
    BY <1>7, <2>1 DEF DropVectors
  <2>3. PICK q \in WriterRecords : q = writer[w]
    BY InvFacts
  <2>4. PICK r : r = [q EXCEPT !.pc = "dropRow", !.todo = T]
    OBVIOUS
  <2>5. r \in WriterRecords
    BY <2>1, <2>4 DEF WriterRecords, Phases
  <2>6. r.pc = "dropRow" /\ r.todo = T
    BY <2>4, <2>5 DEF WriterRecords
  <2>7. writer' = [writer EXCEPT ![w] = r]
    BY <2>2, <2>3, <2>4, InvFacts
  <2>8. InHand(r)'
    BY <2>1, <2>6 DEF InHand
  <2> QED BY <1>1, <1>4, <1>5, <2>2, <2>5, <2>7, <2>8, InvFacts, Reaches
<1> QED BY <1>6, <1>7

(* A purge takes the rows first, when nobody is at work.                    *)
LEMMA PurgeRowsStep ==
  ASSUME ArchiveInv, Overlap = FALSE, NEW n \in 1..Cardinality(Transcripts), PurgeRows(n)
  PROVE  ArchiveInv'
<1>1. /\ n \in 1..Len(rows) /\ purge' = {rows[i] : i \in 1..n} /\ tracker' = Without(tracker, purge')
      /\ rows' = SubSeq(rows, n + 1, Len(rows)) /\ UNCHANGED <<version, recent, vectors, writer, flock, hook>>
      /\ Working = {}
  BY DEF PurgeRows, MayStart
<1>2. rows \in Seq(Transcripts) /\ OnceEach(rows) /\ Range(rows) = Tracked
  BY InvFacts
<1>3. rows' \in Seq(Transcripts) /\ OnceEach(rows') /\ Range(rows') = Range(rows) \ purge'
  BY <1>1, <1>2, TailFacts
<1>4. Tracked' = Tracked \ purge' /\ RowsTrue' /\ ChunksPlaced' /\ DigestMeansEmbedded'
  <2>1. PICK T : T = purge'
    OBVIOUS
  <2>2. tracker' = Without(tracker, T) /\ purge' \cap (Tracked \ T) = {}
    BY <1>1, <2>1
  <2> QED BY <1>1, <2>1, <2>2, Untracked
<1>5. purge' \subseteq Transcripts
  BY <1>1, <1>2
<1>6. Lists'
  BY <1>1, <1>2, <1>3, <1>4, <1>5, InvFacts DEF Lists, ArchiveTypeOK
<1>7. \A w \in Writers : writer[w].pc = "idle" /\ InHand(writer[w])
  BY <1>1, InvFacts DEF Working
<1>8. Alone'
  BY <1>1, <1>7 DEF Alone
<1>9. ASSUME NEW w \in Writers PROVE InHand(writer[w])'
  BY <1>1, <1>7 DEF InHand
<1> QED BY <1>4, <1>6, <1>8, <1>9 DEF ArchiveInv

(* A batch of embedded chunks, by its ids.                                  *)
LEMMA EmbeddingFacts ==
  ASSUME NEW s, NEW c, NEW from, NEW to
  PROVE  \E e : /\ e = Embedding(s, c, from, to)
                /\ \A i \in from..to : <<s, i>> \in DOMAIN e /\ e[<<s, i>>] = c[i]
                /\ \A id \in DOMAIN e : \E i \in from..to : id = <<s, i>>
                /\ \A i : <<s, i>> \in DOMAIN e => i \in from..to
<1>0. PICK e : e = Embedding(s, c, from, to)
  OBVIOUS
<1>1. DOMAIN e = {<<s, i>> : i \in from..to}
  BY <1>0 DEF Embedding
<1>2. ASSUME NEW i \in from..to PROVE <<s, i>> \in DOMAIN e /\ e[<<s, i>>] = c[i]
  <2>1. PICK id : id = <<s, i>>
    OBVIOUS
  <2>2. id \in DOMAIN e /\ id[2] = i
    BY <1>1, <2>1
  <2>3. e[id] = c[id[2]]
    BY <1>0, <1>1, <2>2 DEF Embedding
  <2> QED BY <2>1, <2>2, <2>3
<1>3. ASSUME NEW i, <<s, i>> \in DOMAIN e PROVE i \in from..to
  <2>1. PICK j \in from..to : <<s, i>> = <<s, j>>
    BY <1>1, <1>3
  <2> QED BY <2>1
<1> QED BY <1>0, <1>1, <1>2, <1>3

(* One more batch in the collection: the session's own, none in the place of *)
(* another's.                                                               *)
LEMMA UpsertStep == ASSUME ArchiveInv, NEW w \in Writers, Upsert1(w) PROVE ArchiveInv'
<1>0. PICK s : s = Current(w)
  OBVIOUS
<1>1. /\ writer[w].pc = "upsert"
      /\ UNCHANGED <<version, recent, tracker, rows, purge, hook>>
  BY DEF Upsert1
<1>2. writer[w].todo # {} /\ s \in writer[w].todo /\ s \in Transcripts
  BY <1>0, <1>1, AliveHand
<1>3. PICK q \in WriterRecords : q = writer[w]
  BY InvFacts
<1>4. /\ (\A t \in q.todo : version[t] > 0) /\ q.hash \in 1..version[s] /\ s = Lowest(q.todo) /\ q.todo # {}
      /\ s \in Tracked => tracker[s] < version[s]
      /\ \E v \in q.hash..version[s] : q.chunks = ChunksOf[s][v]
      /\ q.done <= Len(q.chunks) /\ Embedded(s, q.chunks, q.done)
  BY <1>0, <1>1, <1>2, <1>3, InvFacts DEF InHand, Current
<1>5. version[s] \in 1..LastVersion
  BY <1>2, <1>3, <1>4, InvFacts
<1>6. PICK v \in q.hash..version[s] : q.chunks = ChunksOf[s][v]
  BY <1>4
<1>7. v \in 1..LastVersion /\ v <= version[s]
  BY <1>4, <1>5, InvFacts
<1>8. PICK c : c = q.chunks
  OBVIOUS
<1>9. PICK n \in Nat : n = Len(c) /\ q.done <= n /\ q.done \in Nat /\ n <= Len(ChunksOf[s][version[s]])
                       /\ Len(ChunksOf[s][version[s]]) \in Nat
  <2>1. Len(ChunksOf[s][v]) \in Nat /\ (\A u \in 1..LastVersion : v <= u => Len(ChunksOf[s][v]) <= Len(ChunksOf[s][u]))
    BY <1>2, <1>7, ChunkFacts, Zenon
  <2>2. Len(ChunksOf[s][version[s]]) \in Nat
    BY <1>2, <1>5, ChunkFacts, Zenon
  <2>3. Len(ChunksOf[s][v]) <= Len(ChunksOf[s][version[s]])
    BY <1>5, <1>7, <2>1, Zenon
  <2>4. q.done \in Nat
    BY Fields
  <2> QED BY <1>4, <1>6, <1>8, <2>1, <2>2, <2>3, <2>4, Zenon
<1>10. PICK to : to = IF q.done + BatchSize < n THEN q.done + BatchSize ELSE n
  OBVIOUS
<1>11. to \in Nat /\ q.done <= to /\ to <= n
  BY <1>9, <1>10, ArchiveAssumption
<1>12. CASE Ends(w) /\ UNCHANGED vectors
  BY <1>1, <1>12, Endings
<1>13. CASE /\ vectors' = Over(vectors, Embedding(s, c, q.done + 1, to))
            /\ writer' = [writer EXCEPT ![w].done = to, ![w].pc = IF to = n THEN "track" ELSE "upsert"]
            /\ UNCHANGED flock
  <2>1. PICK go \in {"track", "upsert"} : go = IF to = n THEN "track" ELSE "upsert"
    OBVIOUS
  <2>2. PICK r : r = [q EXCEPT !.done = to, !.pc = go]
    OBVIOUS
  <2>3. r \in WriterRecords
    BY <1>11, <2>1, <2>2 DEF WriterRecords, Phases
  <2>4. r.pc = go /\ r.todo = q.todo /\ r.hash = q.hash /\ r.chunks = c /\ r.done = to
    BY <1>8, <2>2, <2>3 DEF WriterRecords
  <2>5. writer' = [writer EXCEPT ![w] = r]
    BY <1>3, <1>13, <2>1, <2>2, InvFacts
  <2>14. PICK m : m = q.done + 1
    OBVIOUS
  <2>6. PICK e : /\ e = Embedding(s, c, m, to)
                 /\ \A i \in m..to : <<s, i>> \in DOMAIN e /\ e[<<s, i>>] = c[i]
                 /\ \A id \in DOMAIN e : \E i \in m..to : id = <<s, i>>
                 /\ \A i : <<s, i>> \in DOMAIN e => i \in m..to
    BY EmbeddingFacts
  <2>7. /\ \A i \in (q.done + 1)..to : <<s, i>> \in DOMAIN e /\ e[<<s, i>>] = c[i]
        /\ \A id \in DOMAIN e : \E i \in (q.done + 1)..to : id = <<s, i>>
        /\ \A i : <<s, i>> \in DOMAIN e => i \in (q.done + 1)..to
    BY <2>6, <2>14, Zenon
  <2>8. /\ DOMAIN vectors' = DOMAIN vectors \cup DOMAIN e
        /\ \A id \in DOMAIN vectors' : vectors'[id] = IF id \in DOMAIN e THEN e[id] ELSE vectors[id]
    BY <1>13, <2>6, <2>14 DEF Over
  <2>9. Embedded(s, c, to)'
    <3> SUFFICES ASSUME NEW i \in 1..to PROVE <<s, i>> \in DOMAIN vectors' /\ vectors'[<<s, i>>] = c[i]
      BY DEF Embedded
    <3>1. CASE i \in (q.done + 1)..to
      BY <2>7, <2>8, <3>1
    <3>2. CASE i \notin (q.done + 1)..to
      <4>1. i \in 1..q.done
        BY <1>9, <1>11, <3>2
      <4>2. <<s, i>> \in DOMAIN vectors /\ vectors[<<s, i>>] = c[i]
        BY <1>4, <1>8, <4>1 DEF Embedded
      <4>3. <<s, i>> \notin DOMAIN e
        BY <2>7, <3>2
      <4> QED BY <2>8, <4>2, <4>3
    <3> QED BY <3>1, <3>2
  <2>10. ChunksPlaced'
    <3> SUFFICES ASSUME NEW id \in DOMAIN vectors'
                 PROVE  /\ id = <<id[1], id[2]>> /\ id[1] \in Transcripts
                        /\ version[id[1]] > 0 /\ id[2] \in 1..Len(ChunksOf[id[1]][version[id[1]]])
      BY <1>1 DEF ChunksPlaced
    <3>1. CASE id \in DOMAIN vectors
      BY <3>1, InvFacts DEF ChunksPlaced
    <3>2. CASE id \in DOMAIN e
      <4>1. PICK i \in (q.done + 1)..to : id = <<s, i>>
        BY <2>7, <3>2
      <4>2. id[1] = s /\ id[2] = i
        BY <4>1
      <4>3. i \in 1..Len(ChunksOf[s][version[s]])
        BY <1>9, <1>11
      <4>4. version[s] > 0
        BY <1>5, InvFacts
      <4> QED BY <1>2, <4>1, <4>2, <4>3, <4>4
    <3> QED BY <2>8, <3>1, <3>2
  <2>11. DigestMeansEmbedded'
    <3> SUFFICES ASSUME NEW t \in Tracked', UpToDate(t)', NEW i \in DOMAIN ChunksOf[t][version'[t]]
                 PROVE  <<t, i>> \in DOMAIN vectors' /\ vectors'[<<t, i>>] = ChunksOf[t][version'[t]][i]
      BY DEF DigestMeansEmbedded
    <3>1. t \in Tracked /\ UpToDate(t)
      BY <1>1 DEF UpToDate, Tracked
    <3>2. t # s
      <4>1. tracker[t] = version[t]
        BY <3>1 DEF UpToDate
      <4>2. s \in Tracked => tracker[s] # version[s]
        BY <1>4, <1>5, InvFacts DEF RowsTrue
      <4> QED BY <3>1, <4>1, <4>2
    <3>3. <<t, i>> \in DOMAIN vectors /\ vectors[<<t, i>>] = ChunksOf[t][version[t]][i]
      BY <1>1, <3>1, InvFacts DEF DigestMeansEmbedded
    <3>4. <<t, i>> \notin DOMAIN e
      <4> SUFFICES ASSUME <<t, i>> \in DOMAIN e PROVE FALSE
        OBVIOUS
      <4>1. PICK j \in (q.done + 1)..to : <<t, i>> = <<s, j>>
        BY <2>7
      <4> QED BY <3>2, <4>1
    <3> QED BY <1>1, <2>8, <3>3, <3>4
  <2>12. InHand(r)'
    <3>1. s = Lowest(r.todo) /\ r.todo # {} /\ \A t \in r.todo : version[t] > 0
      BY <1>4, <2>4
    <3>2. r.pc = "track" => r.done = Len(r.chunks)
      BY <1>9, <2>1, <2>4
    <3>3. r.done <= Len(r.chunks) /\ Embedded(s, r.chunks, r.done)'
      BY <1>9, <1>11, <2>4, <2>9 DEF Embedded
    <3>4. r.hash \in 1..version[s] /\ (s \in Tracked => tracker[s] < version[s])
          /\ \E u \in r.hash..version[s] : r.chunks = ChunksOf[s][u]
      BY <1>4, <1>8, <2>4
    <3> QED BY <1>1, <2>1, <2>4, <3>1, <3>2, <3>3, <3>4 DEF InHand, Tracked, Embedded
  <2>13. RowsTrue' /\ rows' \in Seq(Transcripts) /\ OnceEach(rows') /\ Range(rows') = Tracked'
    BY <1>1, InvFacts DEF RowsTrue, Tracked
  <2> QED BY <1>1, <1>13, <2>3, <2>5, <2>10, <2>11, <2>12, <2>13, InvFacts, Reaches
<1> QED BY <1>0, <1>3, <1>8, <1>9, <1>10, <1>12, <1>13, Zenon DEF Upsert1

(* The row is written when every chunk is in the collection; it is current  *)
(* only if the text they were cut from is.                                  *)
LEMMA TrackStep == ASSUME ArchiveInv, NEW w \in Writers, Track(w) PROVE ArchiveInv'
<1>0. PICK s : s = Current(w)
  OBVIOUS
<1>1. PICK q \in WriterRecords : q = writer[w]
  BY InvFacts
<1>2. /\ q.pc = "track"
      /\ tracker' = Over(tracker, [x \in {s} |-> q.hash])
      /\ rows' = (IF s \in Tracked THEN rows ELSE Append(rows, s))
      /\ UNCHANGED <<version, recent, vectors, flock, purge, hook>>
  BY <1>0, <1>1 DEF Track, Digest
<1>3. q.todo # {} /\ s \in q.todo /\ s \in Transcripts
  BY <1>0, <1>1, <1>2, AliveHand
<1>4. /\ (\A t \in q.todo : version[t] > 0) /\ q.hash \in 1..version[s] /\ s = Lowest(q.todo)
      /\ \E v \in q.hash..version[s] : q.chunks = ChunksOf[s][v]
      /\ q.done = Len(q.chunks) /\ Embedded(s, q.chunks, q.done)
  BY <1>0, <1>1, <1>2, InvFacts DEF InHand, Current
<1>5. version[s] \in 1..LastVersion
  BY <1>3, <1>4, InvFacts
<1>6. PICK v \in q.hash..version[s] : q.chunks = ChunksOf[s][v]
  BY <1>4
<1>7. PICK T \in SUBSET Transcripts : T = Rest(w) /\ \A t \in T : version[t] > 0
  <2>1. Rest(w) \subseteq q.todo /\ q.todo \subseteq Transcripts
    BY <1>1, Fields DEF Rest
  <2> QED BY <1>4, <2>1
<1>8. PICK refresh \in BOOLEAN : refresh = q.refresh
  BY Fields
<1>9. PICK r : r = [pc |-> "next", refresh |-> refresh, todo |-> T, hash |-> 0, chunks |-> <<>>, done |-> 0]
  OBVIOUS
<1>10. r \in WriterRecords /\ r.pc = "next" /\ r.todo = T /\ r.done = 0
  <2>1. r \in WriterRecords
    BY <1>9, TakeRecord DEF WriterRecords, Phases, Cuttings
  <2> QED BY <1>9, <2>1
<1>11. writer' = [writer EXCEPT ![w] = r]
  BY <1>1, <1>7, <1>8, <1>9 DEF Track, Takes, AtWork
<1>12. InHand(r)'
  BY <1>2, <1>7, <1>10 DEF InHand
<1>13. /\ Tracked' = Tracked \cup {s} /\ tracker'[s] = q.hash
       /\ \A t \in Tracked \ {s} : tracker'[t] = tracker[t]
  BY <1>2 DEF Over, Tracked
<1>14. RowsTrue'
  <2>1. purge = {}
    BY <1>1, <1>2, InvFacts DEF Alone
  <2> QED BY <1>2, <1>3, <1>4, <1>13, <2>1, InvFacts DEF RowsTrue
<1>15. ChunksPlaced'
  BY <1>2, InvFacts DEF ChunksPlaced
<1>16. DigestMeansEmbedded'
  <2> SUFFICES ASSUME NEW t \in Tracked', UpToDate(t)', NEW i \in DOMAIN ChunksOf[t][version[t]]
               PROVE  <<t, i>> \in DOMAIN vectors /\ vectors[<<t, i>>] = ChunksOf[t][version[t]][i]
    BY <1>2 DEF DigestMeansEmbedded
  <2>1. tracker'[t] = version[t]
    BY <1>2 DEF UpToDate
  <2>2. CASE t = s
    <3>1. v = version[s] /\ q.hash \in Nat
      BY <1>4, <1>5, <1>6, <1>13, <2>1, <2>2, InvFacts
    <3>2. i \in 1..q.done
      <4>1. DOMAIN ChunksOf[s][version[s]] = 1..Len(ChunksOf[s][version[s]])
        BY <1>3, <1>5, ChunkFacts, Zenon
      <4> QED BY <1>4, <1>6, <2>2, <3>1, <4>1, Zenon
    <3> QED BY <1>4, <1>6, <2>2, <3>1, <3>2 DEF Embedded
  <2>3. CASE t # s
    <3>1. t \in Tracked /\ UpToDate(t)
      BY <1>13, <2>1, <2>3 DEF UpToDate
    <3> QED BY <3>1, InvFacts DEF DigestMeansEmbedded
  <2> QED BY <2>2, <2>3
<1>17. rows' \in Seq(Transcripts) /\ OnceEach(rows') /\ Range(rows') = Tracked'
  <2>1. CASE s \in Tracked
    BY <1>2, <1>13, <2>1, InvFacts
  <2>2. CASE s \notin Tracked
    <3>1. rows \in Seq(Transcripts) /\ OnceEach(rows) /\ s \notin Range(rows) /\ Range(rows) = Tracked
      BY <2>2, InvFacts
    <3>2. PICK l \in Seq(Transcripts) : l = Append(rows, s) /\ OnceEach(l) /\ Range(l) = Range(rows) \cup {s}
      BY <1>3, <3>1, AppendFacts
    <3>3. rows' = l
      BY <1>2, <2>2, <3>2, Zenon
    <3> QED BY <1>13, <3>1, <3>2, <3>3
  <2> QED BY <2>1, <2>2
<1> QED BY <1>1, <1>2, <1>10, <1>11, <1>12, <1>14, <1>15, <1>16, <1>17, InvFacts, Reaches

(* Every step keeps the invariant.                                          *)
LEMMA ArchiveStep == ASSUME ArchiveInv, Overlap = FALSE, [ArchiveNext]_archiveVars PROVE ArchiveInv'
<1>1. CASE \E s \in Transcripts : Grow(s)
  BY <1>1, GrowStep
<1>2. CASE CooldownPasses \/ DaemonRefuses \/ DaemonReplies \/ UNCHANGED archiveVars
  <2>1. UNCHANGED <<version, recent, tracker, rows, vectors, writer, flock, purge>>
    BY <1>2 DEF CooldownPasses, DaemonRefuses, DaemonReplies, archiveVars
  <2>2. hook' \in Writers \cup {0}
    BY <1>2, InvFacts DEF CooldownPasses, DaemonRefuses, DaemonReplies, archiveVars
  <2> QED BY <2>1, <2>2, Elsewhere
<1>3. ASSUME NEW w \in Writers, HookForwards(w) \/ SpawnDetached(w) \/ IngestByHand(w) PROVE ArchiveInv'
  BY <1>3, HookSteps
<1>4. ASSUME NEW w \in Writers, Step(w) PROVE ArchiveInv'
  BY <1>4, LockStep, ListStep, NextStep, DeleteStep, ParseStep, UpsertStep, TrackStep, RetainStep, DropRowStep,
     DropVectorsStep DEF Step
<1>5. ASSUME NEW w \in Writers, KillWriter(w) PROVE ArchiveInv'
  BY <1>5, KillStep
<1>6. CASE \E n \in 1..Cardinality(Transcripts) : PurgeRows(n)
  BY <1>6, PurgeRowsStep
<1>7. CASE PurgeVectors \/ PurgeStops
  BY <1>7, PurgeVectorsStep
<1> QED BY <1>1, <1>2, <1>3, <1>4, <1>5, <1>6, <1>7 DEF ArchiveNext, Hooked

(* While writers take turns, and whatever is killed, refused or fails between *)
(* any two steps: a row whose digest is that of the transcript stands for   *)
(* every chunk of it, each at its index and none besides.                   *)
THEOREM ArchiveKept == ASSUME Overlap = FALSE PROVE ArchiveSpec => []ArchiveHonest
<1>1. ArchiveInv => ArchiveHonest
  <2> SUFFICES ASSUME ArchiveInv PROVE ArchiveHonest
    OBVIOUS
  <2>1. ArchiveTypeOK /\ DigestMeansEmbedded
    BY InvFacts DEF Lists
  <2>2. NoLeftovers
    <3> SUFFICES ASSUME NEW s \in Tracked, NEW id \in Ids(s) PROVE id[2] \in DOMAIN ChunksOf[s][version[s]]
      BY DEF NoLeftovers
    <3>1. id \in DOMAIN vectors /\ id[1] = s
      BY DEF Ids
    <3>2. s \in Transcripts /\ version[s] > 0 /\ id[2] \in 1..Len(ChunksOf[s][version[s]])
      BY <3>1, InvFacts DEF ChunksPlaced
    <3>3. version[s] \in 1..LastVersion
      BY <3>2, InvFacts
    <3>4. DOMAIN ChunksOf[s][version[s]] = 1..Len(ChunksOf[s][version[s]])
      BY <3>2, <3>3, ChunkFacts, Zenon
    <3> QED BY <3>2, <3>4
  <2> QED BY <2>1, <2>2 DEF ArchiveHonest
<1>2. ArchiveInv /\ [ArchiveNext]_archiveVars => ArchiveInv'
  BY ArchiveStep
<1> QED BY <1>1, <1>2, Initially, PTL DEF ArchiveSpec

-----------------------------------------------------------------------------
(* The registry of projects                                                *)

(* Where a command is in its work.                                         *)
Commanded(p) ==
  \/ regProc[p] = AtRest
  \/ regProc[p] = [pc |-> "lock", op |-> regProc[p].op] /\ Locked(regProc[p].op)
  \/ regProc[p] = [pc |-> "load", op |-> regProc[p].op]
  \/ regProc[p] = [pc |-> "save", op |-> regProc[p].op, seen |-> registry]

Inside(p) == regProc[p].pc \in {"load", "save"}

(* While a command without the lock runs alone, the one that is about to    *)
(* save has seen the registry as it is: those that take the lock are inside *)
(* one at a time, one that takes none is the only one at work.             *)
SavesKnow ==
  /\ DOMAIN regProc = RegProcs
  /\ registry = asked
  /\ \A p \in RegProcs : Commanded(p)
  /\ \A p \in RegProcs : Inside(p) /\ Locked(regProc[p].op) => regLock = p
  /\ \A p, q \in RegProcs :
       ~ Locked(regProc[p].op) /\ regProc[p].pc # "idle" /\ regProc[q].pc # "idle" => p = q

(* Two commands that read and write are one, whatever locks they take.      *)
LEMMA OneInside ==
  ASSUME SavesKnow, NEW p \in RegProcs, NEW q \in RegProcs, Inside(p), Inside(q)
  PROVE  p = q
BY DEF SavesKnow, Inside

(* The registry is untouched, and only p goes on.                          *)
LEMMA GoesOn ==
  ASSUME SavesKnow, NEW p \in RegProcs, NEW r, regProc' = [regProc EXCEPT ![p] = r],
         UNCHANGED <<registry, asked>>,
         Commanded(p)', Inside(p)' /\ Locked(r.op) => regLock' = p,
         \A q \in RegProcs \ {p} : Inside(q) /\ Locked(regProc[q].op) => regLock' = q,
         r.pc # "idle" => regProc[p].pc # "idle" /\ r.op = regProc[p].op
  PROVE  SavesKnow'
<1>1. DOMAIN regProc' = RegProcs /\ regProc'[p] = r /\ \A q \in RegProcs \ {p} : regProc'[q] = regProc[q]
  BY DEF SavesKnow
<1>2. \A q \in RegProcs : Commanded(q)'
  <2>1. ASSUME NEW q \in RegProcs, q # p PROVE Commanded(q)'
    BY <1>1, <2>1 DEF SavesKnow, Commanded
  <2> QED BY <2>1
<1>3. \A q \in RegProcs : Inside(q)' /\ Locked(regProc'[q].op) => regLock' = q
  BY <1>1 DEF Inside
<1>4. \A q, o \in RegProcs :
        ~ Locked(regProc'[q].op) /\ regProc'[q].pc # "idle" /\ regProc'[o].pc # "idle" => q = o
  <2> SUFFICES ASSUME NEW q \in RegProcs, NEW o \in RegProcs,
                      ~ Locked(regProc'[q].op), regProc'[q].pc # "idle", regProc'[o].pc # "idle"
               PROVE  q = o
    OBVIOUS
  <2>1. regProc[q].pc # "idle" /\ regProc[o].pc # "idle" /\ regProc'[q].op = regProc[q].op
    BY <1>1
  <2> QED BY <2>1 DEF SavesKnow
<1> QED BY <1>1, <1>2, <1>3, <1>4 DEF SavesKnow

(* Every step of the registry keeps what the commands at work know.         *)
LEMMA RegStepKeeps ==
  ASSUME SavesKnow, Unlocked = FALSE, [RegNext]_regVars
  PROVE  SavesKnow'
<1>1. ASSUME NEW p \in RegProcs, NEW op, Begin(p, op) PROVE SavesKnow'
  <2>0. PICK l : l = IF Locked(op) THEN "lock" ELSE "load"
    OBVIOUS
  <2>1. PICK r : r = [pc |-> l, op |-> op]
    OBVIOUS
  <2>2. /\ regProc' = [regProc EXCEPT ![p] = r] /\ UNCHANGED <<registry, asked, regLock>>
        /\ regProc[p] = AtRest
        /\ Writing = {} \/ (Locked(op) /\ \A q \in Writing : Locked(regProc[q].op))
    BY <1>1, <2>0, <2>1 DEF Begin, registryFile
  <2>3. DOMAIN regProc' = RegProcs /\ regProc'[p] = r /\ \A q \in RegProcs \ {p} : regProc'[q] = regProc[q]
    BY <2>2 DEF SavesKnow
  <2>4. r.op = op /\ r.pc = IF Locked(op) THEN "lock" ELSE "load"
    BY <2>0, <2>1
  <2>5. r = [pc |-> r.pc, op |-> r.op]
    BY <2>1
  <2>6. \A q \in RegProcs : Commanded(q)'
    <3>1. Commanded(p)'
      BY <2>3, <2>4, <2>5 DEF Commanded
    <3>2. ASSUME NEW q \in RegProcs, q # p PROVE Commanded(q)'
      BY <2>2, <2>3, <3>2 DEF SavesKnow, Commanded
    <3> QED BY <3>1, <3>2
  <2>7. \A q \in RegProcs : Inside(q)' /\ Locked(regProc'[q].op) => regLock' = q
    BY <2>2, <2>3, <2>4 DEF SavesKnow, Inside
  <2>8. ASSUME NEW q \in RegProcs, NEW o \in RegProcs,
               ~ Locked(regProc'[q].op), regProc'[q].pc # "idle", regProc'[o].pc # "idle"
        PROVE  q = o
    <3>1. \A z \in RegProcs : z # p /\ regProc'[z].pc # "idle" => z \in Writing
      BY <2>3 DEF Writing
    <3>2. CASE Writing = {}
      BY <2>8, <3>1, <3>2
    <3>3. CASE Locked(op) /\ \A z \in Writing : Locked(regProc[z].op)
      BY <2>3, <2>4, <2>8, <3>1, <3>3
    <3> QED BY <2>2, <3>2, <3>3
  <2> QED BY <2>2, <2>3, <2>6, <2>7, <2>8 DEF SavesKnow
<1>2. ASSUME NEW p \in RegProcs, TakeLock(p) PROVE SavesKnow'
  <2>1. /\ regProc[p].pc = "lock" /\ regLock = NoProc /\ regLock' = p
        /\ regProc' = [regProc EXCEPT ![p].pc = "load"] /\ UNCHANGED <<registry, asked>>
    BY <1>2 DEF TakeLock
  <2>2. PICK op : op = regProc[p].op
    OBVIOUS
  <2>3. regProc[p] = [pc |-> "lock", op |-> op] /\ Locked(op)
    BY <2>1, <2>2 DEF SavesKnow, Commanded, AtRest
  <2>4. PICK r : r = [regProc[p] EXCEPT !.pc = "load"]
    OBVIOUS
  <2>5. regProc' = [regProc EXCEPT ![p] = r]
    BY <2>1, <2>4
  <2>6. r = [pc |-> "load", op |-> op] /\ r.pc = "load" /\ r.op = op
    BY <2>3, <2>4
  <2>7. Commanded(p)'
    BY <2>5, <2>6 DEF Commanded, SavesKnow
  <2>8. \A q \in RegProcs \ {p} : ~ (Inside(q) /\ Locked(regProc[q].op))
    BY <2>1, RegistryAssumption DEF SavesKnow
  <2>9. regProc[p].pc # "idle" /\ r.op = regProc[p].op
    BY <2>1, <2>2, <2>6
  <2> QED BY <2>1, <2>5, <2>7, <2>8, <2>9, GoesOn
<1>3. ASSUME NEW p \in RegProcs, LockTimesOut(p) PROVE FALSE
  BY <1>3 DEF LockTimesOut
<1>4. ASSUME NEW p \in RegProcs, Load(p) PROVE SavesKnow'
  <2>1. PICK op : op = regProc[p].op
    OBVIOUS
  <2>2. regProc[p].pc = "load" /\ UNCHANGED <<registry, asked, regLock>>
    BY <1>4 DEF Load, registryFile
  <2>3. PICK r : /\ regProc' = [regProc EXCEPT ![p] = r]
                 /\ r = [pc |-> "save", op |-> op, seen |-> registry] \/ r = AtRest
    BY <1>4, <2>1 DEF Load
  <2>4. regProc'[p] = r
    BY <2>3 DEF SavesKnow
  <2>5. r.pc # "idle" => r.op = op /\ r.pc = "save" /\ r = [pc |-> "save", op |-> op, seen |-> registry]
    BY <2>3 DEF AtRest
  <2>6. Commanded(p)'
    BY <2>2, <2>3, <2>4, <2>5 DEF Commanded
  <2>7. Inside(p)' /\ Locked(r.op) => regLock' = p
    BY <2>1, <2>2, <2>4, <2>5 DEF SavesKnow, Inside
  <2>8. \A q \in RegProcs \ {p} : Inside(q) /\ Locked(regProc[q].op) => regLock' = q
    BY <2>2 DEF SavesKnow
  <2>9. r.pc # "idle" => regProc[p].pc # "idle" /\ r.op = regProc[p].op
    BY <2>1, <2>2, <2>5
  <2> QED BY <2>2, <2>3, <2>6, <2>7, <2>8, <2>9, GoesOn
<1>5. ASSUME NEW p \in RegProcs, Save(p) PROVE SavesKnow'
  <2>1. /\ regProc[p].pc = "save" /\ regProc' = [regProc EXCEPT ![p] = AtRest] /\ regLock' = Unlock(p)
        /\ registry' = Effect(regProc[p].op, regProc[p].seen) /\ asked' = Effect(regProc[p].op, asked)
    BY <1>5 DEF Save
  <2>2. regProc[p].seen = asked
    BY <2>1 DEF SavesKnow, Commanded, AtRest
  <2>3. DOMAIN regProc' = RegProcs /\ regProc'[p] = AtRest /\ \A q \in RegProcs \ {p} : regProc'[q] = regProc[q]
    BY <2>1 DEF SavesKnow
  <2>4. \A q \in RegProcs \ {p} : ~ Inside(q)
    BY <2>1, OneInside DEF Inside
  <2>5. \A q \in RegProcs : ~ Inside(q)'
    BY <2>3, <2>4 DEF Inside, AtRest
  <2>6. \A q \in RegProcs : Commanded(q)'
    <3>1. ASSUME NEW q \in RegProcs, q # p PROVE Commanded(q)'
      BY <2>3, <2>4, <3>1 DEF SavesKnow, Commanded, Inside
    <3> QED BY <2>3, <3>1 DEF Commanded
  <2>7. \A q, o \in RegProcs :
          ~ Locked(regProc'[q].op) /\ regProc'[q].pc # "idle" /\ regProc'[o].pc # "idle" => q = o
    BY <2>3 DEF SavesKnow, AtRest
  <2> QED BY <2>1, <2>2, <2>3, <2>5, <2>6, <2>7 DEF SavesKnow
<1>6. ASSUME NEW p \in RegProcs, KillCommand(p) PROVE SavesKnow'
  <2>1. regProc' = [regProc EXCEPT ![p] = AtRest] /\ regLock' = Unlock(p) /\ UNCHANGED <<registry, asked>>
    BY <1>6 DEF KillCommand
  <2>2. regProc'[p] = AtRest /\ AtRest.pc = "idle"
    BY <2>1 DEF SavesKnow, AtRest
  <2>3. Commanded(p)' /\ ~ Inside(p)'
    BY <2>2 DEF Commanded, Inside
  <2>4. \A q \in RegProcs \ {p} : Inside(q) /\ Locked(regProc[q].op) => regLock' = q
    BY <2>1 DEF SavesKnow, Unlock
  <2> QED BY <2>1, <2>2, <2>3, <2>4, GoesOn
<1>7. ASSUME UNCHANGED <<registryFile, regProc>> PROVE SavesKnow'
  BY <1>7 DEF registryFile, SavesKnow, Commanded, Inside
<1>8. CASE RestartService \/ Reconcile \/ (\E p \in Paths : IndexByDefault(p) \/ IndexLocally(p)) \/ UNCHANGED regVars
  BY <1>7, <1>8 DEF RestartService, Reconcile, IndexByDefault, IndexLocally, regVars, registryFile
<1> QED BY <1>1, <1>2, <1>3, <1>4, <1>5, <1>6, <1>8 DEF RegNext, RegStep

(* The slots agree with the registry but for a change the service has yet   *)
(* to look at, and a path's data stays where it was put.                   *)
ServedAndKept == SlotsFollow /\ RootKept /\ local \in [Paths -> {"absent", "empty", "populated"}] /\ DOMAIN indexedAt = Paths

(* Every step keeps what is served and where data is found.                 *)
LEMMA ServedKeeps ==
  ASSUME ServedAndKept, [RegNext]_regVars
  PROVE  ServedAndKept'
<1>1. ASSUME UNCHANGED <<registry, slots, regEvent>> PROVE SlotsFollow'
  BY <1>1 DEF ServedAndKept, SlotsFollow
<1>2. ASSUME UNCHANGED <<local, indexedAt>> PROVE RootKept' /\ local' = local /\ indexedAt' = indexedAt
  BY <1>2 DEF ServedAndKept, RootKept, ResolveRoot
<1>3. ASSUME NEW p \in RegProcs, RegStep(p) \/ KillCommand(p) \/ \E op \in RegOps : Begin(p, op)
      PROVE  ServedAndKept'
  <2>1. UNCHANGED <<local, indexedAt, slots>>
    BY <1>3 DEF RegStep, TakeLock, LockTimesOut, Load, Save, KillCommand, Begin
  <2>2. UNCHANGED <<registry, regEvent>> \/ regEvent' = TRUE
    BY <1>3 DEF RegStep, TakeLock, LockTimesOut, Load, Save, KillCommand, Begin, registryFile
  <2>3. SlotsFollow'
    BY <1>1, <2>1, <2>2 DEF SlotsFollow
  <2> QED BY <1>2, <2>1, <2>3 DEF ServedAndKept
<1>4. CASE RestartService
  <2>1. slots' = SlotsOf(registry, dataDirs) /\ UNCHANGED <<registry, local, indexedAt>>
    BY <1>4 DEF RestartService, registryFile
  <2>2. SlotsFollow'
    BY <2>1 DEF SlotsFollow, SlotsOf
  <2> QED BY <1>2, <2>1, <2>2 DEF ServedAndKept
<1>5. CASE Reconcile
  <2>1. /\ slots' = [s \in (DOMAIN slots \ Dropped(registry)) \cup DOMAIN registry |->
                       IF s \in DOMAIN slots THEN slots[s] ELSE registry[s].path]
        /\ UNCHANGED <<registry, local, indexedAt>>
    BY <1>5 DEF Reconcile, registryFile
  <2>2. SlotsFollow'
    BY <2>1 DEF SlotsFollow, Dropped
  <2> QED BY <1>2, <2>1, <2>2 DEF ServedAndKept
<1>6. ASSUME NEW p \in Paths, IndexByDefault(p) \/ IndexLocally(p) PROVE ServedAndKept'
  <2>1. UNCHANGED <<registry, slots, regEvent>>
    BY <1>6 DEF IndexByDefault, IndexLocally, registryFile
  <2>2. CASE IndexByDefault(p)
    <3>1. local' = local /\ indexedAt' = [indexedAt EXCEPT ![p] = ResolveRoot(p)]
      BY <2>2 DEF IndexByDefault
    <3>2. RootKept'
      BY <3>1 DEF ServedAndKept, RootKept, ResolveRoot
    <3> QED BY <1>1, <2>1, <3>1, <3>2 DEF ServedAndKept
  <2>3. CASE IndexLocally(p)
    <3>1. local' = [local EXCEPT ![p] = "populated"] /\ indexedAt' = [indexedAt EXCEPT ![p] = "local"]
      BY <2>3 DEF IndexLocally
    <3>2. \A q \in Paths : q # p => local'[q] = local[q] /\ indexedAt'[q] = indexedAt[q]
      BY <3>1 DEF ServedAndKept
    <3>3. local'[p] = "populated" /\ indexedAt'[p] = "local"
      BY <3>1 DEF ServedAndKept
    <3>4. RootKept'
      BY <3>2, <3>3 DEF ServedAndKept, RootKept, ResolveRoot
    <3>5. local' \in [Paths -> {"absent", "empty", "populated"}] /\ DOMAIN indexedAt' = Paths
      BY <3>1 DEF ServedAndKept
    <3> QED BY <1>1, <2>1, <3>4, <3>5 DEF ServedAndKept
  <2> QED BY <1>6, <2>2, <2>3
<1>7. CASE UNCHANGED regVars
  BY <1>1, <1>2, <1>7 DEF regVars, ServedAndKept
<1> QED BY <1>3, <1>4, <1>5, <1>6, <1>7 DEF RegNext

(* The registry, for any paths, two of one slug included, and any commands  *)
(* killed anywhere: while a command without the lock runs alone and the     *)
(* lock is obtained, none undoes what another did; the service serves what  *)
(* the registry lists once it has looked; data stays where it is looked for.*)
THEOREM RegistryKept == ASSUME Unlocked = FALSE PROVE RegSpec => []RegistryHonest
<1>1. RegInit => SavesKnow /\ ServedAndKept
  <2> SUFFICES ASSUME RegInit PROVE SavesKnow /\ ServedAndKept
    OBVIOUS
  <2>1. SavesKnow
    BY DEF RegInit, SavesKnow, Commanded, Inside, AtRest
  <2>2. SlotsFollow
    <3>1. DOMAIN registry = {} /\ \A s \in DOMAIN slots : slots[s] = NoSource
      BY DEF RegInit
    <3> QED BY <3>1 DEF SlotsFollow
  <2>3. RootKept
    BY DEF RegInit, RootKept
  <2> QED BY <2>1, <2>2, <2>3 DEF RegInit, ServedAndKept
<1>2. SavesKnow /\ ServedAndKept /\ [RegNext]_regVars => SavesKnow' /\ ServedAndKept'
  BY RegStepKeeps, ServedKeeps
<1>3. SavesKnow /\ ServedAndKept => RegistryHonest
  BY DEF SavesKnow, ServedAndKept, RegistryHonest, NothingLost
<1> QED BY <1>1, <1>2, <1>3, PTL DEF RegSpec

-----------------------------------------------------------------------------
(* The episode log                                                         *)

(* The highest of numbers that are bounded.                                *)
LEMMA HighestIn ==
  ASSUME NEW n \in Nat, NEW S \in SUBSET (0 .. n), S # {}
  PROVE  EpTop(S) \in S /\ \A y \in S : EpTop(S) >= y
<1> DEFINE D == {n - x : x \in S}
<1>1. D \subseteq Nat /\ D # {}
  <2>1. \A x \in S : n - x \in Nat
    OBVIOUS
  <2> QED BY <2>1
<1>2. PICK d \in D : \A e \in D : d <= e
  <2> HIDE DEF D
  <2> QED BY <1>1, LowestIn
<1>3. PICK x \in S : d = n - x
  BY <1>2
<1>4. \A y \in S : x >= y
  BY <1>2, <1>3
<1> QED BY <1>3, <1>4 DEF EpTop

EpRows == [born : Nat, at : Nat, reads : Nat, last : Nat]
Dated(id) ==
  /\ episodes[id].born \in 1 .. born /\ episodes[id].at = history[episodes[id].born]
  /\ episodes[id].last >= episodes[id].at

(* Why an event may be forgotten.                                          *)
Condemned(b) ==
  epClock > history[b] + EpTtl \/ born >= b + EpCapacity \/ epClock - history[b] >= EpDecayAfter

(* What happened, and what is kept of it.                                  *)
EpTyped ==
  /\ born \in Nat /\ epClock \in Nat
  /\ history \in Seq(Nat) /\ Len(history) = born /\ \A b \in 1 .. born : history[b] <= epClock
  /\ EpIds \subseteq 1 .. born /\ episodes \in [EpIds -> EpRows] /\ \A id \in EpIds : Dated(id)

(* A pass that is about to delete has named rows that are there still, and  *)
(* has judged their events.                                                *)
PassHonest ==
  /\ pass = [at |-> pass.at, now |-> pass.now, doomed |-> pass.doomed]
  /\ pass.now \in Nat /\ pass.now <= epClock
  /\ pass.at = "decay" => \A id \in pass.doomed : id \in EpIds /\ episodes[id].born \in judged

EpInv ==
  /\ EpTyped /\ PassHonest /\ IndexInStep /\ OrderKept
  /\ judged \subseteq 1 .. born
  /\ \A b \in judged : Condemned(b)
  /\ \A b \in 1 .. born : (\A id \in EpIds : episodes[id].born # b) => b \in judged

(* The limits are numbers.                                                  *)
LEMMA EpConstants == EpTtl \in Nat /\ EpCapacity \in Nat /\ EpDecayAfter \in Nat
BY EpisodeAssumption

(* A row of its own for the next event.                                    *)
LEMMA AppendKeeps ==
  ASSUME EpInv, AppendEpisode
  PROVE  EpInv'
<1>1. PICK id, r : /\ id = EpTop(EpIds) + 1
                   /\ r = [born |-> born + 1, at |-> epClock, reads |-> 0, last |-> epClock]
  OBVIOUS
<1>2. /\ episodes' = Put(episodes, id, r) /\ epIndex' = Put(epIndex, id, born + 1)
      /\ born' = born + 1 /\ history' = Append(history, epClock)
      /\ UNCHANGED <<pass, epClock, judged>>
  BY <1>1 DEF AppendEpisode
<1>3. id \in 1 .. born + 1 /\ \A x \in EpIds : x < id
  <2>1. EpIds \in SUBSET (0 .. born) /\ born \in Nat /\ EpIds \subseteq 1 .. born
    BY DEF EpInv, EpTyped
  <2>2. CASE EpIds = {}
    BY <1>1, <2>1, <2>2 DEF EpTop
  <2>3. CASE EpIds # {}
    <3>1. EpTop(EpIds) \in EpIds /\ \A y \in EpIds : EpTop(EpIds) >= y
      BY <2>1, <2>3, HighestIn
    <3>2. PICK t : t = EpTop(EpIds)
      OBVIOUS
    <3>3. t \in EpIds /\ \A y \in EpIds : t >= y /\ y \in Nat
      BY <2>1, <3>1, <3>2
    <3>4. t \in 1 .. born /\ id = t + 1
      BY <1>1, <2>1, <3>2, <3>3
    <3> QED BY <2>1, <3>3, <3>4
  <2> QED BY <2>2, <2>3
<1>4. /\ EpIds' = EpIds \cup {id} /\ id \notin EpIds
      /\ episodes'[id] = r /\ \A x \in EpIds : episodes'[x] = episodes[x]
  <2>1. id \notin EpIds
    BY <1>3 DEF EpInv, EpTyped
  <2> QED BY <1>2, <2>1 DEF Put, EpIds
<1>5. /\ history' \in Seq(Nat) /\ Len(history') = born' /\ born' \in Nat
      /\ history'[born'] = epClock /\ \A b \in 1 .. born : history'[b] = history[b]
  BY <1>2 DEF EpInv, EpTyped
<1>6. EpTyped'
  <2>1. \A b \in 1 .. born' : history'[b] <= epClock'
    BY <1>2, <1>5 DEF EpInv, EpTyped
  <2>2. r \in EpRows /\ Dated(id)'
    <3>1. r \in EpRows /\ r.born = born + 1 /\ r.at = epClock /\ r.last = epClock
      BY <1>1 DEF EpInv, EpTyped, EpRows
    <3>2. epClock \in Nat /\ born \in Nat
      BY DEF EpInv, EpTyped
    <3> QED BY <1>2, <1>4, <1>5, <3>1, <3>2 DEF Dated
  <2>3. ASSUME NEW x \in EpIds PROVE Dated(x)'
    <3>1. Dated(x) /\ episodes'[x] = episodes[x] /\ born \in Nat
      BY <1>4 DEF EpInv, EpTyped
    <3>2. history'[episodes[x].born] = history[episodes[x].born]
      BY <1>5, <3>1 DEF Dated
    <3> QED BY <1>2, <3>1, <3>2 DEF Dated
  <2>6. episodes' \in [EpIds' -> EpRows]
    <3>1. episodes' = [x \in EpIds' |-> IF x = id THEN r ELSE episodes[x]]
      BY <1>2, <1>4 DEF Put, EpIds
    <3> QED BY <1>4, <2>2, <3>1 DEF EpInv, EpTyped
  <2>4. EpIds' \subseteq 1 .. born'
    BY <1>2, <1>3, <1>4 DEF EpInv, EpTyped
  <2>5. epClock' \in Nat
    BY <1>2 DEF EpInv, EpTyped
  <2> QED BY <1>4, <1>5, <2>1, <2>2, <2>3, <2>4, <2>5, <2>6 DEF EpTyped
<1>7. PassHonest'
  BY <1>2, <1>4 DEF EpInv, PassHonest
<1>8. IndexInStep'
  BY <1>1, <1>2, <1>4 DEF EpInv, IndexInStep, Put, EpIds
<1>9. OrderKept'
  <2>1. r.born = born + 1
    BY <1>1
  <2>2. \A x \in EpIds : episodes[x].born \in 1 .. born
    BY DEF EpInv, EpTyped, Dated
  <2>3. born \in Nat
    BY DEF EpInv, EpTyped
  <2> SUFFICES ASSUME NEW x \in EpIds', NEW y \in EpIds', x < y PROVE episodes'[x].born < episodes'[y].born
    BY DEF OrderKept
  <2>4. x \in EpIds
    <3>1. CASE x = id
      <4>1. y \in EpIds \/ y = id
        BY <1>4
      <4>2. y \in EpIds => y < id /\ y \in Nat
        BY <1>3 DEF EpInv, EpTyped
      <4>3. id \in Nat
        BY <1>3, <2>3
      <4> QED BY <3>1, <4>1, <4>2, <4>3
    <3> QED BY <1>4, <3>1
  <2>5. CASE y = id
    BY <1>4, <2>1, <2>2, <2>3, <2>4, <2>5
  <2>6. CASE y \in EpIds
    BY <1>4, <2>4, <2>6 DEF EpInv, OrderKept
  <2> QED BY <1>4, <2>5, <2>6
<1>10. judged' \subseteq 1 .. born' /\ \A b \in judged : Condemned(b)'
  <2>1. judged \subseteq 1 .. born /\ born \in Nat
    BY DEF EpInv, EpTyped
  <2>2. ASSUME NEW b \in judged PROVE Condemned(b)'
    <3>1. b \in 1 .. born /\ Condemned(b) /\ history[b] \in Nat /\ epClock \in Nat
      BY <2>1 DEF EpInv, EpTyped
    <3>2. history'[b] = history[b] /\ epClock' = epClock /\ born' = born + 1
      BY <1>2, <1>5, <3>1
    <3> QED BY <2>1, <3>1, <3>2, EpConstants DEF Condemned
  <2>3. judged' = judged
    BY <1>2
  <2> QED BY <1>2, <2>1, <2>2, <2>3
<1>11. \A b \in 1 .. born' : (\A x \in EpIds' : episodes'[x].born # b) => b \in judged'
  <2>1. r.born = born + 1
    BY <1>1
  <2>2. born \in Nat /\ \A b \in 1 .. born : (\A x \in EpIds : episodes[x].born # b) => b \in judged
    BY DEF EpInv, EpTyped
  <2> QED BY <1>2, <1>4, <2>1, <2>2
<1> QED BY <1>2, <1>6, <1>7, <1>8, <1>9, <1>10, <1>11 DEF EpInv

(* The events: what a pass, or the clock, does not touch.                  *)
EventsStay == UNCHANGED <<born, history>> /\ epClock' \in Nat /\ epClock' >= epClock

LEMMA StillCondemned ==
  ASSUME EpTyped, EventsStay, NEW b \in 1 .. born, Condemned(b)
  PROVE  Condemned(b)'
<1>1. history[b] \in Nat /\ epClock \in Nat /\ born \in Nat /\ history'[b] = history[b] /\ born' = born
  BY DEF EpTyped, EventsStay
<1> QED BY <1>1, EpConstants DEF Condemned, EventsStay

(* Rows of condemned events are deleted.                                   *)
LEMMA DeleteKeeps ==
  ASSUME EpInv, NEW ids \in SUBSET EpIds, Delete(ids), EventsStay,
         judged' = judged \cup {episodes[id].born : id \in ids},
         \A id \in ids : Condemned(episodes[id].born)
  PROVE  EpTyped' /\ IndexInStep' /\ OrderKept' /\ judged' \subseteq 1 .. born'
         /\ (\A b \in judged' : Condemned(b)')
         /\ (\A b \in 1 .. born' : (\A id \in EpIds' : episodes'[id].born # b) => b \in judged')
<1>1. /\ EpIds' = EpIds \ ids /\ \A id \in EpIds' : episodes'[id] = episodes[id]
      /\ episodes' \in [EpIds' -> EpRows]
  BY DEF Delete, Only, EpIds, EpInv, EpTyped
<1>2. \A id \in EpIds : episodes[id].born \in 1 .. born
  BY DEF EpInv, EpTyped, Dated
<1>3. born' = born /\ history' = history /\ born \in Nat
  BY DEF EventsStay, EpInv, EpTyped
<1>4. EpTyped'
  <2>1. \A b \in 1 .. born' : history'[b] <= epClock'
    BY <1>3 DEF EpInv, EpTyped, EventsStay
  <2>2. ASSUME NEW id \in EpIds' PROVE Dated(id)'
    BY <1>1, <1>3, <2>2 DEF EpInv, EpTyped, Dated
  <2> QED BY <1>1, <1>3, <2>1, <2>2 DEF EpInv, EpTyped, EventsStay
<1>5. IndexInStep'
  BY <1>1 DEF EpInv, IndexInStep, Delete, Only, EpIds
<1>6. OrderKept'
  BY <1>1 DEF EpInv, OrderKept
<1>7. judged' \subseteq 1 .. born'
  BY <1>2, <1>3 DEF EpInv
<1>8. ASSUME NEW b \in judged' PROVE Condemned(b)'
  <2>1. Condemned(b) /\ b \in 1 .. born
    BY <1>2, <1>8 DEF EpInv
  <2>2. EpTyped
    BY DEF EpInv
  <2> QED BY <2>1, <2>2, StillCondemned
<1>9. ASSUME NEW b \in 1 .. born', \A id \in EpIds' : episodes'[id].born # b PROVE b \in judged'
  <2>1. CASE \E id \in ids : episodes[id].born = b
    BY <2>1
  <2>2. CASE \A id \in ids : episodes[id].born # b
    <3>1. \A id \in EpIds : episodes[id].born # b
      BY <1>1, <1>9, <2>2
    <3> QED BY <1>3, <1>9, <3>1 DEF EpInv
  <2> QED BY <2>1, <2>2
<1> QED BY <1>4, <1>5, <1>6, <1>7, <1>8, <1>9

(* No row is touched but for when it was last read.                        *)
LEMMA RowsStay ==
  ASSUME EpInv, EventsStay, UNCHANGED epIndex, judged' = judged,
         EpIds' = EpIds, episodes' \in [EpIds -> EpRows],
         \A id \in EpIds : episodes'[id].born = episodes[id].born /\ episodes'[id].at = episodes[id].at
                          /\ episodes'[id].last >= episodes'[id].at
  PROVE  EpTyped' /\ IndexInStep' /\ OrderKept' /\ judged' \subseteq 1 .. born'
         /\ (\A b \in judged' : Condemned(b)')
         /\ (\A b \in 1 .. born' : (\A id \in EpIds' : episodes'[id].born # b) => b \in judged')
<1>1. born' = born /\ history' = history /\ born \in Nat
  BY DEF EventsStay, EpInv, EpTyped
<1>2. EpTyped'
  <2>1. \A b \in 1 .. born' : history'[b] <= epClock'
    BY <1>1 DEF EpInv, EpTyped, EventsStay
  <2>2. ASSUME NEW id \in EpIds PROVE Dated(id)'
    BY <1>1, <2>2 DEF EpInv, EpTyped, Dated
  <2> QED BY <1>1, <2>1, <2>2 DEF EpInv, EpTyped, EventsStay
<1>3. IndexInStep'
  BY DEF EpInv, IndexInStep
<1>4. OrderKept'
  BY DEF EpInv, OrderKept
<1>5. ASSUME NEW b \in judged' PROVE Condemned(b)'
  <2>1. Condemned(b) /\ b \in 1 .. born
    BY <1>5 DEF EpInv
  <2>2. EpTyped
    BY DEF EpInv
  <2> QED BY <2>1, <2>2, StillCondemned
<1> QED BY <1>1, <1>2, <1>3, <1>4, <1>5 DEF EpInv

(* The rows above one that is not among the last are at least EpCapacity    *)
(* events that came after its own.                                         *)
LEMMA TooMany ==
  ASSUME EpInv, NEW id \in EpIds \ LastRows
  PROVE  born >= episodes[id].born + EpCapacity
<1> DEFINE above == {x \in EpIds : x > id}
           later == (episodes[id].born + 1) .. born
<1>1. /\ born \in Nat /\ \A x \in EpIds : x \in Nat /\ episodes[x].born \in 1 .. born
      /\ \A x, y \in EpIds : x < y => episodes[x].born < episodes[y].born
      /\ EpIds \subseteq 1 .. born
  BY DEF EpInv, EpTyped, Dated, OrderKept
<1>2. IsFiniteSet(above) /\ Cardinality(above) \in Nat
  <2>1. IsFiniteSet(1 .. born)
    BY <1>1, FS_Interval
  <2>2. above \in SUBSET (1 .. born)
    BY <1>1
  <2>3. IsFiniteSet(above)
    BY <2>1, <2>2, FS_Subset
  <2> QED BY <2>3, FS_CardinalityType
<1>3. Cardinality(above) >= EpCapacity
  BY <1>2, EpConstants DEF LastRows
<1>4. IsFiniteSet(later) /\ Cardinality(later) = born - episodes[id].born
  <2>1. episodes[id].born \in 1 .. born
    BY <1>1
  <2>2. episodes[id].born + 1 \in Int /\ born \in Int
    BY <1>1, <2>1
  <2>3. /\ IsFiniteSet(later)
        /\ Cardinality(later) = IF episodes[id].born + 1 > born THEN 0 ELSE born - (episodes[id].born + 1) + 1
    BY <2>2, FS_Interval
  <2> QED BY <1>1, <2>1, <2>3
<1>5. Cardinality(above) <= Cardinality(later)
  <2>1. SUFFICES ASSUME Cardinality(later) < Cardinality(above) PROVE FALSE
    BY <1>1, <1>2, <1>4
  <2>2. PICK f : f = [x \in above |-> episodes[x].born]
    OBVIOUS
  <2>3. f \in [above -> later]
    <3>1. ASSUME NEW x \in above PROVE episodes[x].born \in later
      <4>1. x \in EpIds /\ id \in EpIds /\ id < x
        BY <1>1
      <4>2. episodes[id].born < episodes[x].born
        BY <1>1, <4>1
      <4>3. episodes[id].born \in 1 .. born /\ episodes[x].born \in 1 .. born
        BY <1>1, <4>1
      <4> QED BY <1>1, <4>2, <4>3
    <3> HIDE DEF above, later
    <3> QED BY <2>2, <3>1
  <2>4. PICK x \in above, y \in above : x # y /\ f[x] = f[y]
    <3> HIDE DEF above, later
    <3> QED BY <1>2, <1>4, <2>1, <2>3, FS_PigeonHole
  <2>5. x < y \/ y < x
    <3>1. x \in Nat /\ y \in Nat
      BY <1>1
    <3> QED BY <2>4, <3>1
  <2>6. episodes[x].born = episodes[y].born
    <3> HIDE DEF above
    <3> QED BY <2>2, <2>4
  <2>7. x \in EpIds /\ y \in EpIds /\ episodes[x].born \in Nat
    BY <1>1
  <2> HIDE DEF above, later
  <2>8. x < y => episodes[x].born < episodes[y].born
    BY <1>1, <2>7
  <2>9. y < x => episodes[y].born < episodes[x].born
    BY <1>1, <2>7
  <2>10. ~ (episodes[x].born < episodes[x].born)
    BY <2>7
  <2> QED BY <2>5, <2>6, <2>8, <2>9, <2>10
<1> QED
  <2>1. episodes[id].born \in 1 .. born
    BY <1>1
  <2> QED BY <1>1, <1>2, <1>3, <1>4, <1>5, <2>1, EpConstants

(* Every step keeps the log, its index and the reasons for what is gone.    *)
LEMMA EpStepKeeps ==
  ASSUME EpInv, [EpNext]_epVars
  PROVE  EpInv'
<1>0. /\ EpTyped /\ PassHonest /\ born \in Nat /\ epClock \in Nat
      /\ episodes \in [EpIds -> EpRows] /\ EpIds \subseteq 1 .. born
      /\ pass.now \in Nat /\ pass.now <= epClock
      /\ \A id \in EpIds : Dated(id)
  BY DEF EpInv, EpTyped, PassHonest
<1>1. CASE AppendEpisode
  BY <1>1, AppendKeeps
<1>2. ASSUME UNCHANGED <<episodes, epIndex, judged>>, EventsStay, PassHonest' PROVE EpInv'
  <2>1. /\ EpIds' = EpIds /\ UNCHANGED epIndex /\ judged' = judged
        /\ episodes' = episodes
    BY <1>2 DEF EpIds
  <2>2. \A id \in EpIds : episodes'[id].born = episodes[id].born /\ episodes'[id].at = episodes[id].at
                         /\ episodes'[id].last >= episodes'[id].at
    BY <1>0, <2>1 DEF Dated
  <2>3. episodes' \in [EpIds -> EpRows]
    BY <1>0, <2>1
  <2> QED BY <1>2, <2>1, <2>2, <2>3, RowsStay DEF EpInv
<1>3. CASE EpTick
  <2>1. UNCHANGED <<episodes, epIndex, judged, born, history, pass>> /\ epClock' = epClock + 1
    BY <1>3 DEF EpTick
  <2>2. EventsStay
    BY <1>0, <2>1 DEF EventsStay
  <2>3. PassHonest'
    BY <1>0, <2>1 DEF PassHonest, EpIds
  <2> QED BY <1>2, <2>1, <2>2, <2>3
<1>4. ASSUME NEW id \in EpIds, BumpAccess(id) PROVE EpInv'
  <2>1. PICK r : r = episodes[id]
    OBVIOUS
  <2>2. PICK t : t = [r EXCEPT !.reads = r.reads + 1, !.last = epClock]
    OBVIOUS
  <2>3. episodes' = [episodes EXCEPT ![id] = t] /\ UNCHANGED <<epIndex, pass, epClock, born, history, judged>>
    BY <1>4, <2>1, <2>2 DEF BumpAccess, Read
  <2>4. r \in EpRows
    BY <1>0, <2>1
  <2>5. t \in EpRows /\ t.born = r.born /\ t.at = r.at /\ t.last = epClock
    <3>1. t = [born |-> r.born, at |-> r.at, reads |-> r.reads + 1, last |-> epClock]
      BY <2>2, <2>4 DEF EpRows
    <3> QED BY <1>0, <2>4, <3>1 DEF EpRows
  <2>6. r.at <= epClock
    BY <1>0, <2>1 DEF EpTyped, Dated
  <2>7. EpIds' = EpIds /\ episodes' \in [EpIds -> EpRows]
    BY <1>0, <2>3, <2>5 DEF EpIds
  <2>8. \A x \in EpIds : episodes'[x] = IF x = id THEN t ELSE episodes[x]
    BY <1>0, <2>3
  <2>9. \A x \in EpIds : episodes'[x].born = episodes[x].born /\ episodes'[x].at = episodes[x].at
                        /\ episodes'[x].last >= episodes'[x].at
    <3>1. r.at \in Nat
      BY <2>4 DEF EpRows
    <3>2. ASSUME NEW x \in EpIds, x # id
          PROVE  episodes'[x] = episodes[x] /\ episodes[x].last >= episodes[x].at
      BY <1>0, <2>8, <3>2 DEF Dated
    <3>3. episodes'[id] = t
      BY <2>8
    <3>4. t.last >= t.at
      BY <1>0, <2>5, <2>6, <3>1
    <3> QED BY <2>1, <2>5, <3>2, <3>3, <3>4
  <2>10. EventsStay
    BY <1>0, <2>3 DEF EventsStay
  <2>11. PassHonest'
    BY <1>0, <2>3, <2>7, <2>9 DEF PassHonest
  <2> QED BY <2>3, <2>7, <2>9, <2>10, <2>11, RowsStay DEF EpInv
<1>5. ASSUME NEW s \in TurnSessions, AppendTurn(s) PROVE EpInv'
  <2>1. UNCHANGED <<episodes, epIndex, judged, born, history, pass, epClock>>
    BY <1>5 DEF AppendTurn
  <2> QED BY <1>0, <1>2, <2>1 DEF EventsStay, PassHonest, EpIds
<1>6. CASE BeginPass
  <2>1. /\ UNCHANGED <<episodes, epIndex, judged, born, history, epClock>>
        /\ pass' = [at |-> "ttl", now |-> epClock, doomed |-> {}]
    BY <1>6 DEF BeginPass
  <2> QED BY <1>0, <1>2, <2>1 DEF EventsStay, PassHonest
<1>7. CASE StopPass
  <2>1. UNCHANGED <<episodes, epIndex, judged, born, history, epClock>> /\ pass' = NoPass
    BY <1>7 DEF StopPass
  <2> QED BY <1>0, <1>2, <2>1 DEF EventsStay, PassHonest, NoPass
<1>8. CASE DropOld
  <2>1. PICK old \in SUBSET EpIds : old = {id \in EpIds : episodes[id].at + EpTtl < pass.now}
    OBVIOUS
  <2>2. /\ Delete(old) /\ judged' = judged \cup {episodes[id].born : id \in old}
        /\ pass' = [pass EXCEPT !.at = "capacity"] /\ UNCHANGED <<epClock, born, history>>
    BY <1>8, <2>1 DEF DropOld, Judge
  <2>3. ASSUME NEW id \in old PROVE Condemned(episodes[id].born)
    <3>1. episodes[id].at + EpTtl < pass.now /\ episodes[id].at = history[episodes[id].born]
      BY <1>0, <2>1 DEF Dated
    <3>2. episodes[id].at \in Nat
      BY <1>0 DEF EpRows
    <3>3. epClock > episodes[id].at + EpTtl
      BY <1>0, <3>1, <3>2, EpConstants
    <3> QED BY <3>1, <3>3 DEF Condemned
  <2>4. EventsStay
    BY <1>0, <2>2 DEF EventsStay
  <2>5. PassHonest'
    BY <1>0, <2>2 DEF PassHonest
  <2> QED BY <2>2, <2>3, <2>4, <2>5, DeleteKeeps DEF EpInv
<1>9. CASE TrimToCapacity
  <2>1. PICK many \in SUBSET EpIds : many = EpIds \ LastRows
    OBVIOUS
  <2>2. /\ Delete(many) /\ judged' = judged \cup {episodes[id].born : id \in many}
        /\ pass' = [pass EXCEPT !.at = "score"] /\ UNCHANGED <<epClock, born, history>>
    BY <1>9, <2>1 DEF TrimToCapacity, Judge
  <2>3. ASSUME NEW id \in many PROVE Condemned(episodes[id].born)
    BY <2>1, TooMany DEF Condemned
  <2>4. EventsStay
    BY <1>0, <2>2 DEF EventsStay
  <2>5. PassHonest'
    BY <1>0, <2>2 DEF PassHonest
  <2> QED BY <2>2, <2>3, <2>4, <2>5, DeleteKeeps DEF EpInv
<1>10. CASE Score
  <2>1. PICK low \in SUBSET EpIds :
          low = {id \in EpIds : episodes[id].last <= pass.now /\ Decayed(episodes[id], pass.now)}
    OBVIOUS
  <2>2. /\ judged' = judged \cup {episodes[id].born : id \in low}
        /\ pass' = [pass EXCEPT !.at = "decay", !.doomed = low]
        /\ UNCHANGED <<episodes, epIndex, epClock, born, history>>
    BY <1>10, <2>1 DEF Score, Judge
  <2>3. ASSUME NEW id \in low PROVE Condemned(episodes[id].born) /\ episodes[id].born \in 1 .. born
    <3>1. /\ episodes[id].last <= pass.now /\ pass.now - episodes[id].last >= EpDecayAfter + episodes[id].reads
          /\ episodes[id].at = history[episodes[id].born] /\ episodes[id].last >= episodes[id].at
          /\ episodes[id].born \in 1 .. born
      BY <1>0, <2>1 DEF Dated, Decayed
    <3>2. episodes[id].at \in Nat /\ episodes[id].last \in Nat /\ episodes[id].reads \in Nat
      BY <1>0 DEF EpRows
    <3>3. epClock - episodes[id].at >= EpDecayAfter
      BY <1>0, <3>1, <3>2, EpConstants
    <3> QED BY <3>1, <3>3 DEF Condemned
  <2>4. EpTyped' /\ IndexInStep' /\ OrderKept'
    BY <1>0, <2>2 DEF EpInv, EpTyped, IndexInStep, OrderKept, EpIds, Dated
  <2>5. judged' \subseteq 1 .. born' /\ \A b \in judged' : Condemned(b)'
    <3>1. judged' \subseteq 1 .. born'
      BY <2>2, <2>3 DEF EpInv
    <3>2. ASSUME NEW b \in judged' PROVE Condemned(b)'
      <4>1. Condemned(b)
        BY <2>2, <2>3 DEF EpInv
      <4> QED BY <2>2, <4>1 DEF Condemned
    <3> QED BY <3>1, <3>2
  <2>6. PassHonest'
    <3>1. pass' = [at |-> "decay", now |-> pass.now, doomed |-> low]
      BY <1>0, <2>2 DEF PassHonest
    <3>2. \A id \in low : id \in EpIds' /\ episodes'[id].born \in judged'
      BY <2>2 DEF EpIds
    <3> QED BY <1>0, <2>2, <3>1, <3>2 DEF PassHonest
  <2>7. \A b \in 1 .. born' : (\A id \in EpIds' : episodes'[id].born # b) => b \in judged'
    BY <2>2 DEF EpInv, EpIds
  <2> QED BY <2>4, <2>5, <2>6, <2>7 DEF EpInv
<1>11. CASE DropDecayed
  <2>1. PICK doomed \in SUBSET EpIds : doomed = pass.doomed
    BY <1>0, <1>11 DEF DropDecayed, PassHonest
  <2>2. /\ Delete(doomed) /\ judged' = judged /\ pass' = NoPass /\ UNCHANGED <<epClock, born, history>>
    BY <1>11, <2>1 DEF DropDecayed
  <2>3. \A id \in doomed : episodes[id].born \in judged
    BY <1>0, <1>11, <2>1 DEF DropDecayed, PassHonest
  <2>4. \A id \in doomed : Condemned(episodes[id].born)
    BY <2>3 DEF EpInv
  <2>5. judged' = judged \cup {episodes[id].born : id \in doomed}
    BY <2>2, <2>3
  <2>6. EventsStay
    BY <1>0, <2>2 DEF EventsStay
  <2>7. PassHonest'
    BY <1>0, <2>2 DEF PassHonest, NoPass
  <2> QED BY <2>2, <2>4, <2>5, <2>6, <2>7, DeleteKeeps DEF EpInv
<1>12. CASE UNCHANGED epVars
  <2>1. UNCHANGED <<episodes, epIndex, judged, born, history, pass, epClock>>
    BY <1>12 DEF epVars
  <2> QED BY <1>0, <1>2, <2>1 DEF EventsStay, PassHonest, EpIds
<1> QED BY <1>1, <1>3, <1>4, <1>5, <1>6, <1>7, <1>8, <1>9, <1>10, <1>11, <1>12 DEF EpNext

(* Turns: a session's next number is the count of its turns and one.       *)
TurnInv == turns \in Seq(TurnSessions \X Nat) /\ TurnsNumbered

LEMMA NextNumber ==
  ASSUME TurnInv, NEW s \in TurnSessions, AppendTurn(s)
  PROVE  TurnInv'
<1> DEFINE mine(q, n) == {j \in 1 .. n : q[j][1] = s}
<1>1. PICK n : n = EpTop({turns[i][2] : i \in {j \in DOMAIN turns : turns[j][1] = s}})
  OBVIOUS
<1>2. turns' = Append(turns, <<s, n + 1>>)
  BY <1>1 DEF AppendTurn
<1>3. PICK m \in Nat : m = Len(turns) /\ DOMAIN turns = 1 .. m
  BY DEF TurnInv
<1>4. PICK J : J = {j \in 1 .. m : turns[j][1] = s}
  OBVIOUS
<1>5. IsFiniteSet(J) /\ Cardinality(J) \in Nat
  <2>1. IsFiniteSet(1 .. m) /\ J \in SUBSET (1 .. m)
    BY <1>4, FS_Interval
  <2>2. IsFiniteSet(J)
    BY <2>1, FS_Subset
  <2> QED BY <2>2, FS_CardinalityType
<1>6. PICK N : N = {turns[i][2] : i \in J}
  OBVIOUS
<1>7. n = EpTop(N)
  BY <1>1, <1>3, <1>4, <1>6
<1>8. n = Cardinality(J)
  <2>1. CASE J = {}
    <3>1. N = {}
      BY <1>6, <2>1
    <3> QED BY <1>7, <2>1, <3>1, FS_EmptySet DEF EpTop
  <2>2. CASE J # {}
    <3>1. PICK k \in J : \A j \in J : k >= j
      <4>1. J \in SUBSET (0 .. m)
        BY <1>4
      <4> QED BY <1>3, <2>2, <4>1, HighestIn
    <3>2. J = {j \in 1 .. k : turns[j][1] = turns[k][1]}
      BY <1>3, <1>4, <3>1
    <3>3. turns[k][2] = Cardinality(J)
      BY <1>3, <1>4, <3>1, <3>2 DEF TurnInv, TurnsNumbered
    <3>4. ASSUME NEW i \in J PROVE turns[i][2] \in 0 .. Cardinality(J)
      <4>1. PICK T : T = {j \in 1 .. i : turns[j][1] = turns[i][1]}
        OBVIOUS
      <4>2. T \in SUBSET J
        BY <1>3, <1>4, <4>1
      <4>3. turns[i][2] = Cardinality(T)
        BY <1>3, <1>4, <4>1 DEF TurnInv, TurnsNumbered
      <4>4. IsFiniteSet(T) /\ Cardinality(T) <= Cardinality(J)
        BY <1>5, <4>2, FS_Subset
      <4>5. Cardinality(T) \in Nat
        BY <4>4, FS_CardinalityType
      <4> QED BY <1>5, <4>3, <4>4, <4>5
    <3>5. N \in SUBSET (0 .. Cardinality(J)) /\ N # {} /\ Cardinality(J) \in N
      BY <1>6, <3>1, <3>3, <3>4
    <3>6. EpTop(N) \in N /\ \A y \in N : EpTop(N) >= y
      BY <1>5, <3>5, HighestIn
    <3>7. \A y \in N : y \in 0 .. Cardinality(J)
      BY <3>5
    <3>8. PICK c \in Nat : c = Cardinality(J)
      BY <1>5
    <3>9. EpTop(N) \in 0 .. c
      BY <3>6, <3>7, <3>8
    <3>10. EpTop(N) >= c
      BY <3>5, <3>6, <3>8
    <3> QED BY <1>7, <3>8, <3>9, <3>10
  <2> QED BY <2>1, <2>2
<1>9. turns' \in Seq(TurnSessions \X Nat) /\ Len(turns') = m + 1 /\ turns'[m + 1] = <<s, n + 1>>
      /\ \A i \in 1 .. m : turns'[i] = turns[i]
  BY <1>2, <1>3, <1>5, <1>8 DEF TurnInv
<1>10. DOMAIN turns' = 1 .. m + 1
  BY <1>3, <1>9
<1>11. ASSUME NEW i \in 1 .. m + 1
       PROVE  turns'[i][2] = Cardinality({j \in 1 .. i : turns'[j][1] = turns'[i][1]})
  <2>1. CASE i \in 1 .. m
    <3>1. {j \in 1 .. i : turns'[j][1] = turns'[i][1]} = {j \in 1 .. i : turns[j][1] = turns[i][1]}
      BY <1>3, <1>9, <2>1
    <3>2. turns'[i] = turns[i] /\ i \in DOMAIN turns
      BY <1>3, <1>9, <2>1
    <3> QED BY <3>1, <3>2 DEF TurnInv, TurnsNumbered
  <2>2. CASE i = m + 1
    <3>1. {j \in 1 .. i : turns'[j][1] = turns'[i][1]} = J \cup {m + 1} /\ m + 1 \notin J
      BY <1>3, <1>4, <1>9, <2>2
    <3>2. Cardinality(J \cup {m + 1}) = Cardinality(J) + 1
      BY <1>5, <3>1, FS_AddElement
    <3>3. turns'[i][2] = n + 1
      BY <1>9, <2>2
    <3> QED BY <1>8, <3>1, <3>2, <3>3
  <2> QED BY <1>3, <2>1, <2>2
<1> QED BY <1>9, <1>10, <1>11 DEF TurnInv, TurnsNumbered

(* Every step keeps the numbers of the turns: only an appended turn adds one.*)
LEMMA TurnStepKeeps ==
  ASSUME TurnInv, [EpNext]_epVars
  PROVE  TurnInv'
<1>1. ASSUME UNCHANGED turns PROVE TurnInv'
  BY <1>1 DEF TurnInv, TurnsNumbered
<1>2. ASSUME NEW s \in TurnSessions, AppendTurn(s) PROVE TurnInv'
  BY <1>2, NextNumber
<1> QED BY <1>1, <1>2 DEF EpNext, epVars, AppendEpisode, EpTick, BeginPass, DropOld, TrimToCapacity, Score,
                        DropDecayed, StopPass, BumpAccess

(* The log of episodes, whatever is appended, read and forgotten and in    *)
(* whatever order, passes that stop half way included.                     *)
THEOREM EpisodesKept == EpInit /\ [][EpNext]_epVars => []EpisodesHonest
<1>1. EpInit => EpInv /\ TurnInv
  <2> SUFFICES ASSUME EpInit PROVE EpInv /\ TurnInv
    OBVIOUS
  <2>1. EpIds = {}
    BY DEF EpInit, EpIds
  <2>2. EpTyped
    BY <2>1 DEF EpInit, EpTyped
  <2>3. PassHonest
    BY DEF EpInit, PassHonest, NoPass
  <2>4. IndexInStep
    BY <2>1 DEF EpInit, IndexInStep
  <2>5. TurnInv
    BY DEF EpInit, TurnInv, TurnsNumbered
  <2> QED BY <2>1, <2>2, <2>3, <2>4, <2>5 DEF EpInit, EpInv, OrderKept
<1>2. EpInv /\ TurnInv /\ [EpNext]_epVars => EpInv' /\ TurnInv'
  BY EpStepKeeps, TurnStepKeeps
<1>3. EpInv /\ TurnInv => EpisodesHonest
  <2> SUFFICES ASSUME EpInv, TurnInv PROVE EpisodesHonest
    OBVIOUS
  <2>1. Remembered
    BY DEF Remembered, EpInv, Condemned
  <2> QED BY <2>1 DEF EpisodesHonest, EpInv, TurnInv
<1> QED BY <1>1, <1>2, <1>3, PTL

-----------------------------------------------------------------------------
(* The vectors and the model they share                                     *)

(* What a task has in hand.                                                 *)
HasTask(t) ==
  /\ DOMAIN vecTask[t] = {"pc", "job", "no"}
  /\ vecTask[t].pc \in {"run", "get", "lock", "load", "stamp", "access"}
  /\ vecTask[t].job \in VecBatches \cup VecQueries
TasksOK == DOMAIN vecTask = VecTasks /\ \A t \in VecTasks : vecTask[t] = NoTask \/ HasTask(t)

(* Whoever loads a model holds the lock, and the slot is empty until the    *)
(* model is put there.                                                      *)
LoadersOK ==
  /\ initLock \in VecTasks \cup {0} /\ ~ reloaded /\ vecClock \in Nat \ {0}
  /\ \A t \in VecTasks : vecTask[t].pc \in {"load", "stamp"} => initLock = t
  /\ \A t \in VecTasks : vecTask[t].pc = "load" => ~ slot
  /\ AgeKnown

(* The rows of a batch bear one metadata and one number.                    *)
KeysOf(b) == {<<b.col, id>> : id \in b.ids}
RowsOK ==
  \A b \in VecBatches :
    /\ KeysOf(b) \cap DOMAIN vecRows \in {{}, KeysOf(b)}
    /\ \A x, y \in KeysOf(b) \cap DOMAIN vecRows : vecRows[x] = vecRows[y]

VecInv == TasksOK /\ LoadersOK /\ RowsOK

LEMMA NoTaskPc == NoTask.pc = "idle"
BY DEF NoTask

LEMMA VecStart == VecInit => VecInv
<1> SUFFICES ASSUME VecInit PROVE VecInv
  OBVIOUS
<1> USE DEF VecInit
<1>1. \A t \in VecTasks : vecTask[t] = NoTask
  OBVIOUS
<1>2. TasksOK
  BY <1>1 DEF TasksOK
<1>3. LoadersOK
  BY <1>1, NoTaskPc DEF LoadersOK, AgeKnown
<1>4. DOMAIN vecRows = {}
  OBVIOUS
<1>5. RowsOK
  BY <1>4 DEF RowsOK
<1> QED BY <1>2, <1>3, <1>5 DEF VecInv

(* A task goes on to another place.                                         *)
LEMMA TaskMoves ==
  ASSUME TasksOK, NEW t \in VecTasks, NEW pc \in {"run", "get", "lock", "load", "stamp", "access"},
         vecTask[t].pc # "idle", To(t, pc)
  PROVE  TasksOK' /\ vecTask'[t].pc = pc /\ \A u \in VecTasks : u # t => vecTask'[u] = vecTask[u]
<1>1. HasTask(t)
  BY NoTaskPc DEF TasksOK
<1>2. PICK r : r = [vecTask[t] EXCEPT !.pc = pc]
  OBVIOUS
<1>3. DOMAIN r = {"pc", "job", "no"} /\ r.pc = pc /\ r.job = vecTask[t].job
  BY <1>1, <1>2 DEF HasTask
<1>4. vecTask' = [vecTask EXCEPT ![t] = r]
  BY <1>2 DEF To
<1>5. vecTask'[t] = r /\ DOMAIN vecTask' = VecTasks /\ \A u \in VecTasks : u # t => vecTask'[u] = vecTask[u]
  BY <1>4 DEF TasksOK
<1>6. HasTask(t)'
  BY <1>1, <1>3, <1>5 DEF HasTask
<1>7. \A u \in VecTasks : u # t => (vecTask'[u] = NoTask \/ HasTask(u)')
  BY <1>5 DEF TasksOK, HasTask
<1> QED BY <1>3, <1>5, <1>6, <1>7 DEF TasksOK

LEMMA TaskEnds ==
  ASSUME TasksOK, NEW t \in VecTasks, vecTask' = [vecTask EXCEPT ![t] = NoTask]
  PROVE  TasksOK' /\ vecTask'[t].pc = "idle" /\ \A u \in VecTasks : u # t => vecTask'[u] = vecTask[u]
<1>1. vecTask'[t] = NoTask /\ DOMAIN vecTask' = VecTasks /\ \A u \in VecTasks : u # t => vecTask'[u] = vecTask[u]
  BY DEF TasksOK
<1>2. \A u \in VecTasks : u # t => (vecTask'[u] = NoTask \/ HasTask(u)')
  BY <1>1 DEF TasksOK, HasTask
<1> QED BY <1>1, <1>2, NoTaskPc DEF TasksOK

(* The steps of the embedder, which leave the rows alone.                   *)
LEMMA EmbedderKeeps ==
  ASSUME VecInv, NEW t \in VecTasks,
         GetModel(t) \/ LockInit(t) \/ LoadModel(t) \/ LoadFails(t) \/ StampLoaded(t) \/ Access(t)
  PROVE  VecInv'
<1>0. TasksOK /\ LoadersOK /\ RowsOK /\ 0 \notin VecTasks
  BY VecAssumption DEF VecInv
<1>1. RowsOK'
  BY <1>0 DEF RowsOK, GetModel, LockInit, LoadModel, LoadFails, StampLoaded, Access
<1>2. CASE GetModel(t)
  <2>1. PICK pc \in {"access", "lock"} : To(t, pc)
    BY <1>2 DEF GetModel
  <2>2. TasksOK' /\ vecTask'[t].pc = pc /\ \A u \in VecTasks : u # t => vecTask'[u] = vecTask[u]
    BY <1>0, <1>2, <2>1, TaskMoves DEF GetModel
  <2>3. LoadersOK'
    BY <1>0, <1>2, <2>2 DEF LoadersOK, AgeKnown, GetModel
  <2> QED BY <1>1, <2>2, <2>3 DEF VecInv
<1>3. CASE LockInit(t)
  <2>1. vecTask[t].pc = "lock" /\ initLock = 0 /\ UNCHANGED <<slot, loadedAt, vecClock, reloaded>>
    BY <1>3 DEF LockInit
  <2>2. CASE slot
    <3>1. To(t, "access") /\ UNCHANGED initLock
      BY <1>3, <2>2 DEF LockInit
    <3>2. TasksOK' /\ vecTask'[t].pc = "access" /\ \A u \in VecTasks : u # t => vecTask'[u] = vecTask[u]
      BY <1>0, <2>1, <3>1, TaskMoves
    <3>3. LoadersOK'
      BY <1>0, <2>1, <3>1, <3>2 DEF LoadersOK, AgeKnown
    <3> QED BY <1>1, <3>2, <3>3 DEF VecInv
  <2>3. CASE ~ slot
    <3>1. To(t, "load") /\ initLock' = t
      BY <1>3, <2>3 DEF LockInit
    <3>2. TasksOK' /\ vecTask'[t].pc = "load" /\ \A u \in VecTasks : u # t => vecTask'[u] = vecTask[u]
      BY <1>0, <2>1, <3>1, TaskMoves
    <3>3. \A u \in VecTasks : u # t => vecTask[u].pc \notin {"load", "stamp"}
      BY <1>0, <2>1 DEF LoadersOK
    <3>4. LoadersOK'
      BY <1>0, <2>1, <2>3, <3>1, <3>2, <3>3 DEF LoadersOK, AgeKnown
    <3> QED BY <1>1, <3>2, <3>4 DEF VecInv
  <2> QED BY <2>2, <2>3
<1>4. CASE LoadModel(t)
  <2>1. vecTask[t].pc = "load" /\ slot' = TRUE /\ UNCHANGED <<initLock, loadedAt, vecClock>> /\ To(t, "stamp")
    BY <1>4 DEF LoadModel
  <2>2. TasksOK' /\ vecTask'[t].pc = "stamp" /\ \A u \in VecTasks : u # t => vecTask'[u] = vecTask[u]
    BY <1>0, <2>1, TaskMoves
  <2>3. initLock = t /\ ~ slot /\ \A u \in VecTasks : u # t => vecTask[u].pc # "load"
    BY <1>0, <2>1 DEF LoadersOK
  <2>4. ~ reloaded'
    BY <1>0, <1>4, <2>3 DEF LoadModel, LoadersOK
  <2>5. LoadersOK'
    BY <1>0, <2>1, <2>2, <2>3, <2>4 DEF LoadersOK, AgeKnown
  <2> QED BY <1>1, <2>2, <2>5 DEF VecInv
<1>5. CASE LoadFails(t)
  <2>1. /\ vecTask[t].pc = "load" /\ initLock' = 0 /\ vecTask' = [vecTask EXCEPT ![t] = NoTask]
        /\ UNCHANGED <<slot, loadedAt, vecClock, reloaded>>
    BY <1>5 DEF LoadFails
  <2>2. TasksOK' /\ vecTask'[t].pc = "idle" /\ \A u \in VecTasks : u # t => vecTask'[u] = vecTask[u]
    BY <1>0, <2>1, TaskEnds
  <2>3. initLock = t /\ ~ slot /\ \A u \in VecTasks : u # t => vecTask[u].pc \notin {"load", "stamp"}
    BY <1>0, <2>1 DEF LoadersOK
  <2>4. LoadersOK'
    BY <1>0, <2>1, <2>2, <2>3 DEF LoadersOK, AgeKnown
  <2> QED BY <1>1, <2>2, <2>4 DEF VecInv
<1>6. CASE StampLoaded(t)
  <2>1. /\ vecTask[t].pc = "stamp" /\ initLock' = 0 /\ loadedAt' = vecClock /\ To(t, "access")
        /\ UNCHANGED <<slot, vecClock, reloaded>>
    BY <1>6 DEF StampLoaded
  <2>2. TasksOK' /\ vecTask'[t].pc = "access" /\ \A u \in VecTasks : u # t => vecTask'[u] = vecTask[u]
    BY <1>0, <2>1, TaskMoves
  <2>3. initLock = t /\ \A u \in VecTasks : u # t => vecTask[u].pc \notin {"load", "stamp"}
    BY <1>0, <2>1 DEF LoadersOK
  <2>4. LoadersOK'
    BY <1>0, <2>1, <2>2, <2>3 DEF LoadersOK, AgeKnown
  <2> QED BY <1>1, <2>2, <2>4 DEF VecInv
<1>7. CASE Access(t)
  <2>1. vecTask[t].pc = "access" /\ To(t, "run") /\ UNCHANGED <<slot, initLock, loadedAt, vecClock, reloaded>>
    BY <1>7 DEF Access
  <2>2. TasksOK' /\ vecTask'[t].pc = "run" /\ \A u \in VecTasks : u # t => vecTask'[u] = vecTask[u]
    BY <1>0, <2>1, TaskMoves
  <2>3. LoadersOK'
    BY <1>0, <2>1, <2>2 DEF LoadersOK, AgeKnown
  <2> QED BY <1>1, <2>2, <2>3 DEF VecInv
<1> QED BY <1>2, <1>3, <1>4, <1>5, <1>6, <1>7

(* A task is given, or ended with, something that is no load.               *)
LEMMA LoadersStay ==
  ASSUME LoadersOK, UNCHANGED <<slot, initLock, loadedAt, vecClock, reloaded>>,
         \A t \in VecTasks : vecTask'[t] = vecTask[t] \/ vecTask'[t].pc \notin {"load", "stamp"}
  PROVE  LoadersOK'
BY DEF LoadersOK, AgeKnown

LEMMA AskKeeps ==
  ASSUME VecInv, NEW t \in VecTasks, NEW job \in VecBatches \cup VecQueries, Ask(t, job)
  PROVE  VecInv'
<1>0. TasksOK /\ LoadersOK /\ RowsOK
  BY DEF VecInv
<1>1. PICK pc \in {"run", "get"} : vecTask' = [vecTask EXCEPT ![t] = [pc |-> pc, job |-> job, no |-> vecOps + 1]]
  <2>1. PICK pc : pc = IF job.do = "query" /\ job.text = "" THEN "run" ELSE "get"
    OBVIOUS
  <2>2. pc \in {"run", "get"}
    BY <2>1
  <2> QED BY <2>1, <2>2 DEF Ask
<1>2. UNCHANGED <<vecRows, slot, initLock, loadedAt, vecClock, reloaded>>
  BY DEF Ask
<1>3. PICK r : r = [pc |-> pc, job |-> job, no |-> vecOps + 1]
  OBVIOUS
<1>4. DOMAIN r = {"pc", "job", "no"} /\ r.pc = pc /\ r.job = job
  BY <1>3
<1>5. vecTask'[t] = r /\ DOMAIN vecTask' = VecTasks /\ \A u \in VecTasks : u # t => vecTask'[u] = vecTask[u]
  BY <1>0, <1>1, <1>3 DEF TasksOK
<1>6. HasTask(t)'
  BY <1>4, <1>5 DEF HasTask
<1>7. TasksOK'
  BY <1>0, <1>5, <1>6 DEF TasksOK, HasTask
<1>8. \A u \in VecTasks : vecTask'[u] = vecTask[u] \/ vecTask'[u].pc \notin {"load", "stamp"}
  BY <1>4, <1>5
<1>9. LoadersOK'
  BY <1>0, <1>2, <1>8, LoadersStay
<1>10. RowsOK'
  BY <1>0, <1>2 DEF RowsOK
<1> QED BY <1>7, <1>9, <1>10 DEF VecInv

LEMMA QueryKeeps ==
  ASSUME VecInv, NEW t \in VecTasks, QueryText(t)
  PROVE  VecInv'
<1>0. TasksOK /\ LoadersOK /\ RowsOK
  BY DEF VecInv
<1>1. vecTask' = [vecTask EXCEPT ![t] = NoTask] /\ UNCHANGED <<vecRows, slot, initLock, loadedAt, vecClock, reloaded>>
  BY DEF QueryText
<1>2. TasksOK' /\ vecTask'[t].pc = "idle" /\ \A u \in VecTasks : u # t => vecTask'[u] = vecTask[u]
  BY <1>0, <1>1, TaskEnds
<1>3. LoadersOK'
  BY <1>0, <1>1, <1>2, LoadersStay
<1>4. RowsOK'
  BY <1>0, <1>1 DEF RowsOK
<1> QED BY <1>2, <1>3, <1>4 DEF VecInv

(* Two batches of a collection write the same rows or have none in common.  *)
BatchesApart == \A b, c \in VecBatches : KeysOf(b) = KeysOf(c) \/ KeysOf(b) \cap KeysOf(c) = {}

LEMMA UpsertKeeps ==
  ASSUME BatchesApart, VecInv, NEW t \in VecTasks, UpsertBatch(t)
  PROVE  VecInv'
<1>0. TasksOK /\ LoadersOK /\ RowsOK
  BY DEF VecInv
<1>1. /\ vecTask' = [vecTask EXCEPT ![t] = NoTask] /\ UNCHANGED <<slot, initLock, loadedAt, vecClock, reloaded>>
      /\ vecTask[t].pc = "run" /\ vecTask[t].job.do = "upsert"
  BY DEF UpsertBatch
<1>2. TasksOK' /\ vecTask'[t].pc = "idle" /\ \A u \in VecTasks : u # t => vecTask'[u] = vecTask[u]
  BY <1>0, <1>1, TaskEnds
<1>3. LoadersOK'
  BY <1>0, <1>1, <1>2, LoadersStay
<1>4. HasTask(t)
  BY <1>0, <1>1, NoTaskPc DEF TasksOK
<1>5. PICK b \in VecBatches : b = vecTask[t].job
  BY <1>1, <1>4, VecAssumption DEF HasTask
<1>6. PICK r : r = [batch |-> vecTask[t].no, meta |-> b.meta]
  OBVIOUS
<1>7. vecRows' = [k \in DOMAIN vecRows \cup KeysOf(b) |-> IF k \in KeysOf(b) THEN r ELSE vecRows[k]]
  BY <1>5, <1>6 DEF UpsertBatch, KeysOf
<1>8. /\ DOMAIN vecRows' = DOMAIN vecRows \cup KeysOf(b)
      /\ \A k \in KeysOf(b) : vecRows'[k] = r
      /\ \A k \in DOMAIN vecRows \ KeysOf(b) : vecRows'[k] = vecRows[k]
  BY <1>7
<1>9. ASSUME NEW c \in VecBatches
      PROVE  /\ KeysOf(c) \cap DOMAIN vecRows' \in {{}, KeysOf(c)}
             /\ \A x, y \in KeysOf(c) \cap DOMAIN vecRows' : vecRows'[x] = vecRows'[y]
  <2>1. CASE KeysOf(c) = KeysOf(b)
    BY <1>8, <2>1
  <2>2. CASE KeysOf(c) \cap KeysOf(b) = {}
    <3>1. KeysOf(c) \cap DOMAIN vecRows' = KeysOf(c) \cap DOMAIN vecRows
      BY <1>8, <2>2
    <3>2. \A x \in KeysOf(c) \cap DOMAIN vecRows : vecRows'[x] = vecRows[x]
      BY <1>8, <2>2
    <3> QED BY <1>0, <3>1, <3>2 DEF RowsOK
  <2> QED BY <2>1, <2>2 DEF BatchesApart
<1>10. RowsOK'
  BY <1>9 DEF RowsOK
<1> QED BY <1>2, <1>3, <1>10 DEF VecInv

LEMMA VecDeleteKeeps ==
  ASSUME VecInv, NEW col, NEW f, DeleteByFilter(col, f)
  PROVE  VecInv'
<1>0. TasksOK /\ LoadersOK /\ RowsOK
  BY DEF VecInv
<1>1. UNCHANGED <<slot, initLock, loadedAt, vecClock, reloaded, vecTask>>
  BY DEF DeleteByFilter
<1>2. PICK G : G = Matching(col, f)
  OBVIOUS
<1>3. DOMAIN vecRows' = DOMAIN vecRows \ G /\ \A k \in DOMAIN vecRows \ G : vecRows'[k] = vecRows[k]
  BY <1>2 DEF DeleteByFilter
<1>4. ASSUME NEW b \in VecBatches
      PROVE  /\ KeysOf(b) \cap DOMAIN vecRows' \in {{}, KeysOf(b)}
             /\ \A x, y \in KeysOf(b) \cap DOMAIN vecRows' : vecRows'[x] = vecRows'[y]
  <2>1. /\ KeysOf(b) \cap DOMAIN vecRows \in {{}, KeysOf(b)}
        /\ \A x, y \in KeysOf(b) \cap DOMAIN vecRows : vecRows[x] = vecRows[y]
    BY <1>0 DEF RowsOK
  <2>2. \A x \in KeysOf(b) : x[1] = b.col
    BY DEF KeysOf
  <2>3. \A x, y \in KeysOf(b) \cap DOMAIN vecRows : x \in G <=> y \in G
    BY <1>2, <2>1, <2>2 DEF Matching
  <2>4. KeysOf(b) \cap DOMAIN vecRows' = {} \/ KeysOf(b) \cap DOMAIN vecRows' = KeysOf(b) \cap DOMAIN vecRows
    BY <1>3, <2>3
  <2>5. \A x, y \in KeysOf(b) \cap DOMAIN vecRows' : vecRows'[x] = vecRows'[y]
    BY <1>3, <2>1
  <2> QED BY <2>1, <2>4, <2>5
<1>5. RowsOK'
  BY <1>4 DEF RowsOK
<1>6. TasksOK' /\ LoadersOK'
  BY <1>0, <1>1 DEF TasksOK, HasTask, LoadersOK, AgeKnown
<1> QED BY <1>5, <1>6 DEF VecInv

LEMMA SweepKeeps ==
  ASSUME VecInv, VecTick \/ EvictIfIdle \/ EvictIfStale
  PROVE  VecInv'
<1>1. UNCHANGED <<vecRows, vecTask, initLock, reloaded>>
  BY DEF VecTick, EvictIfIdle, EvictIfStale, DropSlot
<1>2. \/ slot' = FALSE /\ vecClock' = vecClock
      \/ UNCHANGED <<slot, loadedAt>> /\ vecClock' = vecClock + 1
  BY DEF VecTick, EvictIfIdle, EvictIfStale, DropSlot
<1>3. LoadersOK'
  BY <1>1, <1>2 DEF VecInv, LoadersOK, AgeKnown
<1>4. TasksOK' /\ RowsOK'
  BY <1>1 DEF VecInv, TasksOK, HasTask, RowsOK
<1> QED BY <1>3, <1>4 DEF VecInv

LEMMA VecSteps ==
  ASSUME BatchesApart
  PROVE  VecInv /\ [VecNext]_vecVars => VecInv'
<1> SUFFICES ASSUME VecInv, [VecNext]_vecVars PROVE VecInv'
  OBVIOUS
<1>1. CASE UNCHANGED vecVars
  BY <1>1 DEF VecInv, TasksOK, HasTask, LoadersOK, AgeKnown, RowsOK, vecVars
<1>2. CASE \E t \in VecTasks : VecStep(t) \/ (\E b \in VecBatches : Ask(t, b)) \/ (\E q \in VecQueries : Ask(t, q))
  <2>1. PICK t \in VecTasks : VecStep(t) \/ (\E b \in VecBatches : Ask(t, b)) \/ (\E q \in VecQueries : Ask(t, q))
    BY <1>2
  <2>2. CASE VecStep(t)
    BY <2>2, EmbedderKeeps, UpsertKeeps, QueryKeeps DEF VecStep
  <2>3. CASE \E job \in VecBatches \cup VecQueries : Ask(t, job)
    BY <2>3, AskKeeps
  <2> QED BY <2>1, <2>2, <2>3
<1>3. CASE \E q \in VecQueries : DeleteByFilter(q.col, q.filter)
  BY <1>3, VecDeleteKeeps
<1> QED BY <1>1, <1>2, <1>3, SweepKeeps DEF VecNext

LEMMA VecImplies == VecInv => OneLoad /\ AgeKnown /\ BatchWhole
<1> SUFFICES ASSUME VecInv PROVE OneLoad /\ AgeKnown /\ BatchWhole
  OBVIOUS
<1>1. PICK L : L = {t \in VecTasks : vecTask[t].pc \in {"load", "stamp"}}
  OBVIOUS
<1>2. L \subseteq {initLock}
  BY <1>1 DEF VecInv, LoadersOK
<1>3. Cardinality(L) <= 1
  <2>1. L = {} \/ L = {initLock}
    BY <1>2
  <2>2. Cardinality({}) = 0 /\ Cardinality({initLock}) = 1
    BY FS_EmptySet, FS_Singleton
  <2> QED BY <2>1, <2>2
<1>4. OneLoad
  BY <1>1, <1>3 DEF VecInv, LoadersOK, OneLoad
<1>5. BatchWhole
  <2>1. \A b \in VecBatches : KeysOf(b) = {<<b.col, id>> : id \in b.ids}
    BY DEF KeysOf
  <2> QED BY <2>1 DEF VecInv, RowsOK, BatchWhole
<1> QED BY <1>4, <1>5 DEF VecInv, LoadersOK

(* However many tasks use the embedder at once, one of them loads and the   *)
(* sweep knows the age of what it loaded; the rows of a batch are seen in   *)
(* full or not at all, whatever is written and deleted meanwhile.           *)
THEOREM OneModelServes ==
  ASSUME BatchesApart
  PROVE  VecInit /\ [][VecNext]_vecVars => [](OneLoad /\ AgeKnown /\ BatchWhole)
<1>1. VecInit => VecInv
  BY VecStart
<1>2. VecInv /\ [VecNext]_vecVars => VecInv'
  BY VecSteps
<1>3. VecInv => OneLoad /\ AgeKnown /\ BatchWhole
  BY VecImplies
<1> QED BY <1>1, <1>2, <1>3, PTL

-----------------------------------------------------------------------------
(* The run of a command                                                     *)

(* A set of numbers has a least one. *)
LEMMA Least ==
  ASSUME NEW T, T \subseteq Nat, T # {}
  PROVE  \E x \in T : \A y \in T : x <= y
<1> DEFINE Less == {ss \in Nat \X Nat : ss[1] < ss[2]}
<1>1. IsWellFoundedOn(Less, Nat)
  <2>1. Less = OpToRel(<, Nat)
    BY DEF OpToRel
  <2> QED BY <2>1, NatLessThanWellFounded
<1>2. \E x \in T : \A y \in T : ~ (<<y, x>> \in Less)
  <2> HIDE DEF Less
  <2> QED BY <1>1, WFMin
<1>3. PICK x \in T : \A y \in T : ~ (<<y, x>> \in Less)
  BY <1>2
<1>4. ASSUME NEW y \in T PROVE x <= y
  <2>1. ~(<<y, x>> \in Less) /\ y \in Nat /\ x \in Nat
    BY <1>3
  <2>2. ~ (y < x)
    BY <2>1
  <2> QED BY <2>1, <2>2
<1> QED BY <1>4

(* What a reader's buffer says of a stream when it has stored n chunks.    *)
Chunk == {"child", "left"} \X Nat
Capped(n) == IF n < OutputCap THEN n ELSE OutputCap
Summary(w, n) == [buf |-> Firsts(w, Capped(n)), total |-> n, truncated |-> n > OutputCap]

(* What was written is what is stored, in the reader's hand, or in the     *)
(* pipe, in this order.                                                    *)
Carried(h) == IF h = NoChunk THEN 0 ELSE 1
Flows(w, q, h, n) ==
  /\ w \in Seq(Chunk) /\ q \in Seq(Chunk) /\ h \in Chunk \cup {NoChunk} /\ n \in Nat
  /\ Len(w) = n + Carried(h) + Len(q)
  /\ h # NoChunk => h = w[n + 1]
  /\ \A i \in 1 .. Len(q) : q[i] = w[n + Carried(h) + i]

LEMMA NotAChunk == NoChunk \notin Chunk
BY DEF NoChunk, Chunk

(* The first chunks of a stream. *)
LEMMA FirstsFacts ==
  ASSUME NEW w \in Seq(Chunk), NEW n \in Nat, n <= Len(w)
  PROVE  /\ Firsts(w, n) \in Seq(Chunk) /\ Len(Firsts(w, n)) = n
         /\ \A i \in 1 .. n : Firsts(w, n)[i] = w[i]
<1>1. Firsts(w, n) = SubSeq(w, 1, n)
  <2>1. (IF n < Len(w) THEN n ELSE Len(w)) = n
    OBVIOUS
  <2> QED BY <2>1 DEF Firsts
<1>2. PICK f : f = SubSeq(w, 1, n)
  OBVIOUS
<1>3. f \in Seq(Chunk) /\ Len(f) = n /\ \A i \in 1 .. n : f[i] = w[i]
  BY <1>2
<1> QED BY <1>1, <1>2, <1>3

LEMMA CappedFacts ==
  ASSUME NEW n \in Nat
  PROVE  Capped(n) \in Nat /\ Capped(n) <= n
BY CaptureAssumption DEF Capped

(* More that is written does not change what the first chunks say.         *)
LEMMA SummaryStays ==
  ASSUME NEW w \in Seq(Chunk), NEW c \in Chunk, NEW n \in Nat, n <= Len(w)
  PROVE  Summary(Append(w, c), n) = Summary(w, n)
<1>1. PICK m \in Nat : m = Capped(n) /\ m <= Len(w)
  BY CappedFacts
<1>2. PICK v : v = Append(w, c)
  OBVIOUS
<1>3. v \in Seq(Chunk) /\ Len(v) = Len(w) + 1 /\ \A i \in 1 .. Len(w) : v[i] = w[i]
  BY <1>2
<1>4. m <= Len(v)
  BY <1>1, <1>3
<1>5. PICK f, g : f = Firsts(w, m) /\ g = Firsts(v, m)
  OBVIOUS
<1>6. /\ f \in Seq(Chunk) /\ Len(f) = m /\ \A i \in 1 .. m : f[i] = w[i]
      /\ g \in Seq(Chunk) /\ Len(g) = m /\ \A i \in 1 .. m : g[i] = v[i]
  BY <1>1, <1>3, <1>4, <1>5, FirstsFacts
<1>7. ASSUME NEW i \in 1 .. m PROVE f[i] = g[i]
  <2>1. i \in 1 .. Len(w)
    BY <1>1
  <2>2. v[i] = w[i]
    BY <1>3, <2>1
  <2>3. f[i] = w[i] /\ g[i] = v[i]
    BY <1>6
  <2> QED BY <2>2, <2>3
<1>8. f = g
  BY <1>6, <1>7
<1> QED BY <1>1, <1>2, <1>5, <1>8 DEF Summary

(* One more chunk is stored, or dropped beyond the cap and counted.        *)
LEMMA SummaryOn ==
  ASSUME NEW w \in Seq(Chunk), NEW n \in Nat, n < Len(w), NEW full, full \in BOOLEAN,
         full <=> Len(Summary(w, n).buf) = OutputCap
  PROVE  [buf |-> IF full THEN Summary(w, n).buf ELSE Append(Summary(w, n).buf, w[n + 1]),
          total |-> Summary(w, n).total + 1, truncated |-> Summary(w, n).truncated \/ full]
           = Summary(w, n + 1)
<1>1. PICK m \in Nat : m = Capped(n) /\ m <= Len(w) /\ m <= n
  BY CappedFacts
<1>2. PICK f : f = Firsts(w, m)
  OBVIOUS
<1>3. f \in Seq(Chunk) /\ Len(f) = m /\ \A i \in 1 .. m : f[i] = w[i]
  BY <1>1, <1>2, FirstsFacts
<1>4. Summary(w, n).buf = f /\ Summary(w, n).total = n /\ Summary(w, n).truncated = (n > OutputCap)
  BY <1>1, <1>2 DEF Summary
<1>5. full <=> m = OutputCap
  BY <1>3, <1>4
<1>6. CASE full
  <2>1. ~ (n < OutputCap) /\ Capped(n + 1) = m /\ n + 1 > OutputCap
    BY <1>1, <1>5, <1>6, CaptureAssumption DEF Capped
  <2>2. Summary(w, n + 1) = [buf |-> f, total |-> n + 1, truncated |-> TRUE]
    <3>1. (n + 1 > OutputCap) = TRUE
      BY <2>1
    <3> QED BY <1>2, <2>1, <3>1 DEF Summary
  <2>3. (Summary(w, n).truncated \/ full) = TRUE
    BY <1>6
  <2> QED BY <1>4, <1>6, <2>2, <2>3
<1>7. CASE ~ full
  <2>1. n < OutputCap /\ m = n /\ Capped(n + 1) = n + 1 /\ ~ (n + 1 > OutputCap) /\ ~ (n > OutputCap)
    BY <1>1, <1>5, <1>7, CaptureAssumption DEF Capped
  <2>2. PICK g : g = Firsts(w, n + 1)
    OBVIOUS
  <2>3. n + 1 \in Nat /\ n + 1 <= Len(w)
    OBVIOUS
  <2>4. g \in Seq(Chunk) /\ Len(g) = n + 1 /\ \A i \in 1 .. n + 1 : g[i] = w[i]
    BY <2>2, <2>3, FirstsFacts
  <2>5. PICK e : e = Append(f, w[n + 1])
    OBVIOUS
  <2>6. w[n + 1] \in Chunk
    BY <2>3
  <2>7. e \in Seq(Chunk) /\ Len(e) = n + 1 /\ e[n + 1] = w[n + 1] /\ \A i \in 1 .. n : e[i] = f[i]
    BY <1>3, <2>1, <2>5, <2>6
  <2>8. \A i \in 1 .. n + 1 : e[i] = g[i]
    <3>1. TAKE i \in 1 .. n + 1
    <3>2. i \in 1 .. n \/ i = n + 1
      OBVIOUS
    <3> QED BY <1>3, <2>1, <2>4, <2>7, <3>2
  <2>9. e = g
    BY <2>4, <2>7, <2>8
  <2>10. (n + 1 > OutputCap) = FALSE /\ (n > OutputCap) = FALSE
    BY <2>1
  <2>11. Summary(w, n + 1) = [buf |-> g, total |-> n + 1, truncated |-> FALSE]
    BY <2>1, <2>2, <2>10 DEF Summary
  <2>12. (Summary(w, n).truncated \/ full) = FALSE
    BY <1>4, <1>7, <2>10
  <2> QED BY <1>4, <1>7, <2>5, <2>9, <2>11, <2>12
<1> QED BY <1>6, <1>7

(* A chunk is written, taken from the pipe, stored.                        *)
LEMMA FlowWritten ==
  ASSUME NEW w, NEW q, NEW h, NEW n, Flows(w, q, h, n), NEW c \in Chunk
  PROVE  Flows(Append(w, c), Append(q, c), h, n)
<1>1. PICK k \in {0, 1} : k = Carried(h)
  BY DEF Carried
<1>2. /\ w \in Seq(Chunk) /\ q \in Seq(Chunk) /\ n \in Nat /\ Len(w) = n + k + Len(q)
      /\ \A i \in 1 .. Len(q) : q[i] = w[n + k + i]
      /\ Len(w) \in Nat /\ Len(q) \in Nat
  BY <1>1 DEF Flows
<1>3. PICK v, r : v = Append(w, c) /\ r = Append(q, c)
  OBVIOUS
<1>4. /\ v \in Seq(Chunk) /\ Len(v) = Len(w) + 1 /\ v[Len(w) + 1] = c
      /\ \A i \in 1 .. Len(w) : v[i] = w[i]
      /\ r \in Seq(Chunk) /\ Len(r) = Len(q) + 1 /\ r[Len(q) + 1] = c
      /\ \A i \in 1 .. Len(q) : r[i] = q[i]
  BY <1>2, <1>3
<1>5. ASSUME NEW i \in 1 .. Len(r) PROVE r[i] = v[n + k + i]
  <2>1. CASE i \in 1 .. Len(q)
    <3>1. n + k + i \in 1 .. Len(w)
      BY <1>2, <2>1
    <3> QED BY <1>2, <1>4, <2>1, <3>1
  <2>2. CASE i = Len(q) + 1
    <3>1. n + k + i = Len(w) + 1
      BY <1>2, <2>2
    <3> QED BY <1>4, <2>2, <3>1
  <2>3. i \in 1 .. Len(q) \/ i = Len(q) + 1
    BY <1>2, <1>4
  <2> QED BY <2>1, <2>2, <2>3
<1>6. h # NoChunk => h = v[n + 1]
  <2>1. ASSUME h # NoChunk PROVE h = v[n + 1]
    <3>1. k = 1 /\ h = w[n + 1]
      BY <1>1, <2>1 DEF Carried, Flows
    <3>2. n + 1 \in 1 .. Len(w)
      BY <1>2, <3>1
    <3> QED BY <1>4, <3>1, <3>2
  <2> QED BY <2>1
<1>7. Len(v) = n + k + Len(r)
  BY <1>2, <1>4
<1> QED BY <1>1, <1>2, <1>3, <1>4, <1>5, <1>6, <1>7 DEF Flows

LEMMA FlowRead ==
  ASSUME NEW w, NEW q, NEW n, Flows(w, q, NoChunk, n), q # <<>>
  PROVE  Flows(w, Tail(q), Head(q), n)
<1>1. /\ w \in Seq(Chunk) /\ q \in Seq(Chunk) /\ n \in Nat /\ Len(w) = n + Len(q)
      /\ \A i \in 1 .. Len(q) : q[i] = w[n + i]
      /\ Len(q) \in Nat /\ Len(q) > 0
  BY DEF Flows, Carried
<1>2. PICK h, t : h = Head(q) /\ t = Tail(q)
  OBVIOUS
<1>3. /\ h = q[1] /\ h \in Chunk /\ t \in Seq(Chunk) /\ Len(t) = Len(q) - 1
      /\ \A i \in 1 .. Len(t) : t[i] = q[i + 1]
  BY <1>1, <1>2
<1>4. h # NoChunk /\ Carried(h) = 1
  BY <1>3, NotAChunk DEF Carried
<1>5. h = w[n + 1]
  <2>1. 1 \in 1 .. Len(q)
    BY <1>1
  <2> QED BY <1>1, <1>3, <2>1
<1>6. ASSUME NEW i \in 1 .. Len(t) PROVE t[i] = w[n + 1 + i]
  <2>1. i + 1 \in 1 .. Len(q) /\ n + (i + 1) = n + 1 + i
    BY <1>1, <1>3
  <2> QED BY <1>1, <1>3, <2>1
<1>7. Len(w) = n + 1 + Len(t)
  BY <1>1, <1>3
<1> QED BY <1>1, <1>2, <1>3, <1>4, <1>5, <1>6, <1>7 DEF Flows

LEMMA FlowStored ==
  ASSUME NEW w, NEW q, NEW h, NEW n, Flows(w, q, h, n), h # NoChunk
  PROVE  Flows(w, q, NoChunk, n + 1) /\ n < Len(w) /\ h = w[n + 1]
BY DEF Flows, Carried
-----------------------------------------------------------------------------
(* What the threads know of each other.                                    *)
Pours(s) ==
  /\ Flows(written[s], pipe[s], hand[s], kept[s].total)
  /\ kept[s] = Summary(written[s], kept[s].total)

\* A stream that is at its end has nobody left who could write to it.
Ended(s) == child \in {"zombie", "reaped"} /\ s \notin held /\ hand[s] = NoChunk /\ pipe[s] = <<>>

\* All the child wrote is among the first n chunks.
ByChild(s, n) == \A i \in DOMAIN written[s] : written[s][i][1] = "child" => i <= n
Reported(s) == \E n \in 0 .. Len(written[s]) : answer[s] = Summary(written[s], n) /\ ByChild(s, n)

CaptureTypes ==
  /\ hsp \in {"spawn", "store", "readers", "wait", "clear", "joinOut", "joinErr", "take", "takeErr", "done", "dead"}
  /\ child \in {"none", "running", "zombie", "reaped"} /\ held \subseteq Streams
  /\ DOMAIN written = Streams /\ DOMAIN pipe = Streams /\ DOMAIN hand = Streams
  /\ reader \in [Streams -> {"none", "reading", "done"}]
  /\ DOMAIN kept = Streams /\ DOMAIN answer = Streams

MainKnows ==
  /\ hsp = "spawn" => child = "none" /\ held = {}
  /\ hsp \in {"store", "readers", "wait"} => child \in {"running", "zombie"}
  /\ hsp \in {"clear", "joinOut", "joinErr", "take", "takeErr"} => child = "reaped"
  /\ hsp \in {"readers", "wait", "clear"} => pidStored
  /\ hsp \in {"spawn", "store"} => ~ pidStored
  /\ hsp \in {"spawn", "store", "readers"} => \A s \in Streams : reader[s] = "none"
  /\ hsp = "wait" => \A s \in Streams : reader[s] # "none"
  /\ signalled # "no" => hsp = "dead"
  /\ NoOrphan

AnswerKnows ==
  /\ hsp \in {"joinErr", "take", "takeErr"} => ByChild("stdout", kept["stdout"].total)
  /\ hsp \in {"take", "takeErr"} => ByChild("stderr", kept["stderr"].total)
  /\ hsp = "takeErr" => Reported("stdout")
  /\ hsp = "done" /\ child = "reaped" => exitCode = status /\ \A s \in Streams : Reported(s)

CaptureInv ==
  /\ CaptureTypes /\ MainKnows /\ AnswerKnows
  /\ \A s \in Streams : Pours(s) /\ (reader[s] = "done" => Ended(s))
-----------------------------------------------------------------------------
LEMMA CaptureStarts == CaptureInit => CaptureInv
<1> SUFFICES ASSUME CaptureInit PROVE CaptureInv
  OBVIOUS
<1> USE DEF CaptureInit
<1>1. CaptureTypes
  BY DEF CaptureTypes, Streams
<1>2. MainKnows
  BY DEF MainKnows, NoOrphan
<1>3. AnswerKnows
  BY DEF AnswerKnows
<1>4. ASSUME NEW s \in Streams PROVE Pours(s) /\ reader[s] # "done"
  <2>1. /\ written[s] = <<>> /\ pipe[s] = <<>> /\ hand[s] = NoChunk
        /\ kept[s] = [buf |-> <<>>, total |-> 0, truncated |-> FALSE]
    BY <1>4 DEF Fresh
  <2>2. PICK w : w = <<>>
    OBVIOUS
  <2>3. w \in Seq(Chunk) /\ Len(w) = 0
    BY <2>2
  <2>4. Flows(w, w, NoChunk, 0)
    BY <2>3 DEF Flows, Carried
  <2>5. Capped(0) = 0
    BY CappedFacts
  <2>6. PICK f : f = Firsts(w, 0)
    OBVIOUS
  <2>7. f \in Seq(Chunk) /\ Len(f) = 0
    <3>1. 0 \in Nat /\ 0 <= Len(w)
      BY <2>3
    <3> QED BY <2>3, <2>6, <3>1, FirstsFacts
  <2>8. f = <<>>
    BY <2>7
  <2>9. (0 > OutputCap) = FALSE
    BY CaptureAssumption
  <2>10. Summary(w, 0) = [buf |-> <<>>, total |-> 0, truncated |-> FALSE]
    BY <2>5, <2>6, <2>8, <2>9 DEF Summary
  <2>11. kept[s].total = 0
    BY <2>1
  <2> QED BY <1>4, <2>1, <2>2, <2>4, <2>10, <2>11 DEF Pours
<1> QED BY <1>1, <1>2, <1>3, <1>4 DEF CaptureInv

(* A step that leaves the streams alone leaves what was poured alone.      *)
LEMMA PoursOn ==
  ASSUME UNCHANGED <<pipe, hand, kept, written>>
  PROVE  \A s \in Streams : /\ Pours(s) <=> Pours(s)'
                            /\ \A n : ByChild(s, n) <=> ByChild(s, n)'
BY DEF Pours, ByChild

(* The steps of the main thread.                                           *)
MainStep ==
  \/ Spawn \/ SpawnError \/ StorePid \/ StartReaders \/ Wait \/ ClearPid
  \/ JoinStdout \/ JoinStderr \/ TakeState \/ TakeStderr
LEMMA MainTypes == CaptureInv /\ MainStep => CaptureTypes'
<1> SUFFICES ASSUME CaptureInv, MainStep PROVE CaptureTypes'
  OBVIOUS
<1> USE DEF CaptureInv, CaptureTypes, At, KeepStreams, KeepChild, KeepEnd, Streams
<1>1. CASE Spawn \/ SpawnError \/ StorePid \/ Wait \/ ClearPid
  BY <1>1 DEF Spawn, SpawnError, StorePid, Wait, ClearPid
<1>2. CASE StartReaders
  BY <1>2 DEF StartReaders
<1>3. CASE JoinStdout \/ JoinStderr
  BY <1>3 DEF JoinStdout, JoinStderr
<1>4. CASE TakeState \/ TakeStderr
  BY <1>4 DEF TakeState, TakeStderr
<1> QED BY <1>1, <1>2, <1>3, <1>4 DEF MainStep

LEMMA MainMain == CaptureInv /\ MainStep => MainKnows'
<1> SUFFICES ASSUME CaptureInv, MainStep PROVE MainKnows'
  OBVIOUS
<1> USE DEF CaptureInv, CaptureTypes, MainKnows, NoOrphan, At, KeepStreams, KeepChild, KeepEnd, Streams
<1>1. CASE Spawn
  <2>1. /\ hsp = "spawn" /\ hsp' = "store" /\ child' = "running"
        /\ UNCHANGED <<held, pidStored, reader, signalled>>
    BY <1>1 DEF Spawn
  <2> QED BY <2>1
<1>2. CASE SpawnError
  BY <1>2 DEF SpawnError
<1>3. CASE StorePid
  BY <1>3 DEF StorePid
<1>4. CASE StartReaders
  BY <1>4 DEF StartReaders
<1>5. CASE Wait
  BY <1>5 DEF Wait
<1>6. CASE ClearPid
  BY <1>6 DEF ClearPid
<1>7. CASE JoinStdout \/ JoinStderr
  BY <1>7 DEF JoinStdout, JoinStderr
<1>8. CASE TakeState \/ TakeStderr
  BY <1>8 DEF TakeState, TakeStderr
<1> QED BY <1>1, <1>2, <1>3, <1>4, <1>5, <1>6, <1>7, <1>8 DEF MainStep

(* The reader of a stream that ended, or that drained in time, has stored  *)
(* all the child wrote.                                                    *)
LEMMA EndedDrained ==
  ASSUME NEW s \in Streams, Pours(s), Ended(s)
  PROVE  ByChild(s, kept[s].total)
<1>1. /\ written[s] \in Seq(Chunk) /\ kept[s].total \in Nat /\ Len(written[s]) = kept[s].total + 0 + Len(pipe[s])
      /\ pipe[s] = <<>>
  BY DEF Pours, Ended, Flows, Carried
<1>2. Len(written[s]) = kept[s].total
  BY <1>1
<1> QED BY <1>1, <1>2 DEF ByChild

LEMMA DrainDrained ==
  ASSUME NEW s \in Streams, Pours(s), DrainInTime
  PROVE  ByChild(s, kept[s].total)
<1>1. PICK w, q, h, n : w = written[s] /\ q = pipe[s] /\ h = hand[s] /\ n = kept[s].total
  OBVIOUS
<1>2. Flows(w, q, h, n)
  BY <1>1 DEF Pours
<1>3. (h # NoChunk => h[1] # "child") /\ \A i \in DOMAIN q : q[i] # NoChunk => q[i][1] # "child"
  BY <1>1 DEF DrainInTime, OfChild
<1>4. PICK k \in {0, 1} : k = Carried(h)
  BY DEF Carried
<1>5. /\ w \in Seq(Chunk) /\ q \in Seq(Chunk) /\ n \in Nat /\ Len(w) = n + k + Len(q)
      /\ \A i \in 1 .. Len(q) : q[i] = w[n + k + i]
      /\ Len(w) \in Nat /\ Len(q) \in Nat
  BY <1>2, <1>4 DEF Flows
<1>6. ASSUME NEW i \in DOMAIN w, w[i][1] = "child", ~ (i <= n) PROVE FALSE
  <2>1. i \in 1 .. Len(w)
    BY <1>5, <1>6
  <2>2. CASE k = 1 /\ i = n + 1
    <3>1. h # NoChunk /\ h = w[n + 1]
      BY <1>2, <1>4, <2>2 DEF Carried, Flows
    <3> QED BY <1>3, <1>6, <2>2, <3>1
  <2>3. CASE ~ (k = 1 /\ i = n + 1)
    <3>0. i \in Nat /\ n < i /\ i <= Len(w) /\ k \in Nat /\ ~ (k = 1 /\ i = n + 1)
      BY <1>4, <1>5, <1>6, <2>1, <2>3
    <3>1. k = 0 \/ (k = 1 /\ n + 1 < i)
      BY <1>4, <1>5, <3>0
    <3>2. PICK j \in 1 .. Len(q) : n + k + j = i
      <4>1. PICK j \in Int : j = i - n - k
        BY <1>5, <3>0
      <4>2. PICK a \in Nat, b \in Nat : a = Len(w) /\ b = Len(q)
        BY <1>5
      <4>3. a = n + k + b /\ i <= a /\ n \in Nat
        BY <1>5, <3>0, <4>2
      <4>4. ASSUME k = 0 PROVE n + k + j = i /\ j >= 1 /\ j <= Len(q)
        <5>1. n + k + j = i /\ j >= 1 /\ j <= b
          BY <3>0, <4>1, <4>3, <4>4
        <5> QED BY <4>2, <5>1
      <4>5. ASSUME k = 1, n + 1 < i PROVE n + k + j = i /\ j >= 1 /\ j <= Len(q)
        <5>1. n + k + j = i /\ j >= 1 /\ j <= b
          BY <3>0, <4>1, <4>3, <4>5
        <5> QED BY <4>2, <5>1
      <4>6. n + k + j = i /\ j >= 1 /\ j <= Len(q)
        BY <3>1, <4>4, <4>5
      <4> QED BY <1>5, <4>1, <4>6
    <3>3. q[j] = w[i] /\ q[j] \in Chunk /\ j \in DOMAIN q
      BY <1>5, <3>2
    <3>4. q[j] # NoChunk
      BY <3>3, NotAChunk
    <3> QED BY <1>3, <1>6, <3>3, <3>4
  <2> QED BY <2>2, <2>3
<1> QED BY <1>1, <1>6 DEF ByChild

LEMMA PouredReported ==
  ASSUME NEW s \in Streams, Pours(s), ByChild(s, kept[s].total), answer'[s] = kept[s], written' = written
  PROVE  Reported(s)'
<1>1. PICK n : n = kept[s].total
  OBVIOUS
<1>2. n \in 0 .. Len(written[s])
  <2>1. PICK w, q, h : w = written[s] /\ q = pipe[s] /\ h = hand[s] /\ Flows(w, q, h, n)
    BY <1>1 DEF Pours
  <2>2. PICK k \in {0, 1} : k = Carried(h)
    BY DEF Carried
  <2>3. n \in Nat /\ Len(w) = n + k + Len(q) /\ q \in Seq(Chunk) /\ Len(q) \in Nat
    BY <2>1, <2>2 DEF Flows
  <2>4. n \in 0 .. Len(w)
    BY <2>2, <2>3
  <2> QED BY <2>1, <2>4
<1>3. answer'[s] = Summary(written'[s], n)
  BY <1>1 DEF Pours
<1>4. ByChild(s, n)'
  BY <1>1 DEF ByChild
<1> QED BY <1>2, <1>3, <1>4 DEF Reported

LEMMA MainAnswer == CaptureInv /\ MainStep => AnswerKnows'
<1> SUFFICES ASSUME CaptureInv, MainStep PROVE AnswerKnows'
  OBVIOUS
<1>0. "stdout" \in Streams /\ "stderr" \in Streams
  BY DEF Streams
<1>1. CASE Spawn \/ SpawnError \/ StorePid \/ StartReaders \/ Wait \/ ClearPid
  <2>1. hsp' \in {"store", "readers", "wait", "clear", "joinOut"} \/ (hsp' = "done" /\ child' = "none")
    BY <1>1 DEF Spawn, SpawnError, StorePid, StartReaders, Wait, ClearPid, At, KeepChild, CaptureInv, MainKnows
  <2> QED BY <2>1 DEF AnswerKnows
<1>2. CASE JoinStdout
  <2>1. /\ hsp = "joinOut" /\ UNCHANGED <<pipe, hand, kept, written, child>>
        /\ \/ reader["stdout"] = "done" /\ hsp' = "joinErr"
           \/ DrainInTime /\ hsp' = "take"
    BY <1>2 DEF JoinStdout, KeepStreams, KeepChild
  <2>2. \A s \in Streams : ByChild(s, kept[s].total) => ByChild(s, kept[s].total)'
    BY <2>1 DEF ByChild
  <2>3. CASE reader["stdout"] = "done" /\ hsp' = "joinErr"
    <3>1. ByChild("stdout", kept["stdout"].total)
      BY <1>0, <2>3, EndedDrained DEF CaptureInv
    <3> QED BY <1>0, <2>2, <2>3, <3>1 DEF AnswerKnows
  <2>4. CASE DrainInTime /\ hsp' = "take"
    <3>1. ByChild("stdout", kept["stdout"].total) /\ ByChild("stderr", kept["stderr"].total)
      BY <1>0, <2>4, DrainDrained DEF CaptureInv
    <3> QED BY <1>0, <2>2, <2>4, <3>1 DEF AnswerKnows
  <2> QED BY <2>1, <2>3, <2>4
<1>3. CASE JoinStderr
  <2>1. /\ hsp = "joinErr" /\ hsp' = "take" /\ UNCHANGED <<pipe, hand, kept, written, child>>
        /\ reader["stderr"] = "done" \/ DrainInTime
    BY <1>3 DEF JoinStderr, At, KeepStreams, KeepChild
  <2>2. \A s \in Streams : ByChild(s, kept[s].total) => ByChild(s, kept[s].total)'
    BY <2>1 DEF ByChild
  <2>3. ByChild("stdout", kept["stdout"].total)
    BY <2>1 DEF CaptureInv, AnswerKnows
  <2>4. ByChild("stderr", kept["stderr"].total)
    BY <1>0, <2>1, EndedDrained, DrainDrained DEF CaptureInv
  <2> QED BY <1>0, <2>1, <2>2, <2>3, <2>4 DEF AnswerKnows
<1>4. CASE TakeState
  <2>1. /\ hsp = "take" /\ hsp' = "takeErr" /\ UNCHANGED <<pipe, hand, kept, written, child>>
        /\ answer' = [answer EXCEPT !["stdout"] = kept["stdout"]]
    BY <1>4 DEF TakeState, At, KeepStreams, KeepChild
  <2>2. ByChild("stdout", kept["stdout"].total) /\ ByChild("stderr", kept["stderr"].total)
    BY <2>1 DEF CaptureInv, AnswerKnows
  <2>3. answer'["stdout"] = kept["stdout"]
    BY <1>0, <2>1 DEF CaptureInv, CaptureTypes
  <2>4. Reported("stdout")'
    BY <1>0, <2>1, <2>2, <2>3, PouredReported DEF CaptureInv
  <2>5. ByChild("stdout", kept["stdout"].total)' /\ ByChild("stderr", kept["stderr"].total)'
    BY <2>1, <2>2 DEF ByChild
  <2> QED BY <2>1, <2>4, <2>5 DEF AnswerKnows
<1>5. CASE TakeStderr
  <2>1. /\ hsp = "takeErr" /\ hsp' = "done" /\ UNCHANGED <<pipe, hand, kept, written, child, status>>
        /\ answer' = [answer EXCEPT !["stderr"] = kept["stderr"]] /\ exitCode' = status
    BY <1>5 DEF TakeStderr, At, KeepStreams, KeepChild
  <2>2. ByChild("stderr", kept["stderr"].total) /\ Reported("stdout")
    BY <2>1 DEF CaptureInv, AnswerKnows
  <2>3. answer'["stderr"] = kept["stderr"] /\ answer'["stdout"] = answer["stdout"]
    BY <1>0, <2>1 DEF CaptureInv, CaptureTypes
  <2>4. Reported("stderr")'
    BY <1>0, <2>1, <2>2, <2>3, PouredReported DEF CaptureInv
  <2>5. Reported("stdout")'
    BY <2>1, <2>2, <2>3 DEF Reported, ByChild
  <2>6. \A s \in Streams : Reported(s)'
    BY <2>4, <2>5 DEF Streams
  <2> QED BY <2>1, <2>6 DEF AnswerKnows
<1> QED BY <1>1, <1>2, <1>3, <1>4, <1>5 DEF MainStep

LEMMA MainPours == CaptureInv /\ MainStep => \A s \in Streams : (Pours(s) /\ (reader[s] = "done" => Ended(s)))'
<1> SUFFICES ASSUME CaptureInv, MainStep, NEW s \in Streams
             PROVE  Pours(s)' /\ (reader'[s] = "done" => Ended(s)')
  OBVIOUS
<1>1. UNCHANGED <<pipe, hand, kept, written>>
  BY DEF MainStep, Spawn, SpawnError, StorePid, StartReaders, Wait, ClearPid, JoinStdout, JoinStderr,
         TakeState, TakeStderr, KeepStreams
<1>2. Pours(s) /\ (reader[s] = "done" => Ended(s))
  BY DEF CaptureInv
<1>3. Pours(s)'
  BY <1>1, <1>2, PoursOn
<1>4. reader'[s] = "done" => reader[s] = "done"
  BY DEF MainStep, Spawn, SpawnError, StorePid, StartReaders, Wait, ClearPid, JoinStdout, JoinStderr,
         TakeState, TakeStderr, KeepStreams
<1>5. reader[s] = "done" => child' \in {"zombie", "reaped"} /\ held' = held
  <2>1. ASSUME reader[s] = "done" PROVE child' \in {"zombie", "reaped"} /\ held' = held
    <3>1. hsp # "spawn" /\ child \in {"zombie", "reaped"}
      BY <1>2, <2>1 DEF Ended, CaptureInv, MainKnows
    <3> QED BY <3>1 DEF MainStep, Spawn, SpawnError, StorePid, StartReaders, Wait, ClearPid,
               JoinStdout, JoinStderr, TakeState, TakeStderr, KeepChild, At
  <2> QED BY <2>1
<1> QED BY <1>1, <1>2, <1>3, <1>4, <1>5 DEF Ended

(* The steps of the readers.                                               *)
LEMMA ReadKeeps == CaptureInv /\ (\E s \in Streams : ReadChunk(s)) => CaptureInv'
<1> SUFFICES ASSUME CaptureInv, NEW s \in Streams, ReadChunk(s) PROVE CaptureInv'
  OBVIOUS
<1>1. /\ reader[s] = "reading" /\ hand[s] = NoChunk /\ pipe[s] # <<>>
      /\ hand' = [hand EXCEPT ![s] = Head(pipe[s])] /\ pipe' = [pipe EXCEPT ![s] = Tail(pipe[s])]
      /\ UNCHANGED <<hsp, pidStored, reader, kept, written, child, status, held, left, answer, exitCode, signalled>>
  BY DEF ReadChunk, KeepChild, KeepEnd
<1>2. CaptureTypes'
  BY <1>1 DEF CaptureInv, CaptureTypes
<1>3. MainKnows'
  BY <1>1 DEF CaptureInv, MainKnows, NoOrphan
<1>4. AnswerKnows'
  BY <1>1 DEF CaptureInv, AnswerKnows, ByChild, Reported
<1>5. ASSUME NEW r \in Streams PROVE (Pours(r) /\ (reader[r] = "done" => Ended(r)))'
  <2>0. Pours(r) /\ (reader[r] = "done" => Ended(r))
    BY DEF CaptureInv
  <2>1. CASE r = s
    <3>1. hand'[r] = Head(pipe[r]) /\ pipe'[r] = Tail(pipe[r])
      BY <1>1, <2>1 DEF CaptureInv, CaptureTypes
    <3>2. Flows(written[r], pipe[r], NoChunk, kept[r].total)
      BY <1>1, <2>0, <2>1 DEF Pours
    <3>3. Flows(written[r], Tail(pipe[r]), Head(pipe[r]), kept[r].total)
      BY <1>1, <2>1, <3>2, FlowRead
    <3> QED BY <1>1, <2>0, <2>1, <3>1, <3>3 DEF Pours
  <2>2. CASE r # s
    <3>1. hand'[r] = hand[r] /\ pipe'[r] = pipe[r]
      BY <1>1, <2>2 DEF CaptureInv, CaptureTypes
    <3> QED BY <1>1, <2>0, <3>1 DEF Pours, Ended
  <2> QED BY <2>1, <2>2
<1> QED BY <1>2, <1>3, <1>4, <1>5 DEF CaptureInv

LEMMA StoreKeeps == CaptureInv /\ (\E s \in Streams : StoreChunk(s)) => CaptureInv'
<1> SUFFICES ASSUME CaptureInv, NEW s \in Streams, StoreChunk(s) PROVE CaptureInv'
  OBVIOUS
<1>1. PICK full \in BOOLEAN : full <=> Len(kept[s].buf) = OutputCap
  OBVIOUS
<1>2. /\ hand[s] # NoChunk /\ hand' = [hand EXCEPT ![s] = NoChunk]
      /\ UNCHANGED <<hsp, pidStored, pipe, reader, written, child, status, held, left, answer, exitCode, signalled>>
      /\ Alive
  BY DEF StoreChunk, KeepChild, KeepEnd
<1>3. kept' = [kept EXCEPT ![s] =
                 [buf |-> IF full THEN kept[s].buf ELSE Append(kept[s].buf, hand[s]),
                  total |-> kept[s].total + 1, truncated |-> kept[s].truncated \/ full]]
  <2>1. full = (Len(kept[s].buf) = OutputCap)
    BY <1>1
  <2> QED BY <2>1 DEF StoreChunk
<1>4. Pours(s) /\ (reader[s] = "done" => Ended(s))
  BY DEF CaptureInv
<1>5. PICK w, n : w = written[s] /\ n = kept[s].total
  OBVIOUS
<1>6. Flows(w, pipe[s], hand[s], n) /\ kept[s] = Summary(w, n)
  BY <1>4, <1>5 DEF Pours
<1>7. Flows(w, pipe[s], NoChunk, n + 1) /\ n < Len(w) /\ hand[s] = w[n + 1]
  BY <1>2, <1>6, FlowStored
<1>8. w \in Seq(Chunk) /\ n \in Nat
  BY <1>6 DEF Flows
<1>9. full <=> Len(Summary(w, n).buf) = OutputCap
  BY <1>1, <1>6
<1>10. kept'[s] = Summary(w, n + 1)
  <2>1. [buf |-> IF full THEN Summary(w, n).buf ELSE Append(Summary(w, n).buf, w[n + 1]),
         total |-> Summary(w, n).total + 1, truncated |-> Summary(w, n).truncated \/ full]
           = Summary(w, n + 1)
    BY <1>7, <1>8, <1>9, SummaryOn
  <2>2. kept'[s] = [buf |-> IF full THEN kept[s].buf ELSE Append(kept[s].buf, hand[s]),
                    total |-> kept[s].total + 1, truncated |-> kept[s].truncated \/ full]
    BY <1>3 DEF CaptureInv, CaptureTypes
  <2> QED BY <1>6, <1>7, <2>1, <2>2
<1>11. kept'[s].total = n + 1
  BY <1>10 DEF Summary
<1>12. CaptureTypes'
  BY <1>2, <1>3 DEF CaptureInv, CaptureTypes
<1>13. MainKnows'
  BY <1>2 DEF CaptureInv, MainKnows, NoOrphan
<1>14. ASSUME NEW r \in Streams, r # s PROVE kept'[r] = kept[r] /\ hand'[r] = hand[r]
  BY <1>2, <1>3, <1>14 DEF CaptureInv, CaptureTypes
<1>15. ASSUME NEW r \in Streams, ByChild(r, kept[r].total) PROVE ByChild(r, kept[r].total)'
  <2>1. CASE r # s
    BY <1>2, <1>14, <1>15, <2>1 DEF ByChild
  <2>2. CASE r = s
    <3>1. \A i \in 1 .. Len(w) : w[i][1] = "child" => i <= n
      BY <1>5, <1>8, <1>15, <2>2 DEF ByChild
    <3>2. \A i \in 1 .. Len(w) : w[i][1] = "child" => i <= n + 1
      BY <1>8, <3>1
    <3> QED BY <1>2, <1>5, <1>8, <1>11, <2>2, <3>2 DEF ByChild
  <2> QED BY <2>1, <2>2
<1>16. AnswerKnows'
  <2>1. "stdout" \in Streams /\ "stderr" \in Streams
    BY DEF Streams
  <2>2. hsp' # "done" /\ hsp' = hsp /\ (Reported("stdout") => Reported("stdout")')
    BY <1>2 DEF Alive, Reported, ByChild
  <2>3. AnswerKnows
    BY DEF CaptureInv
  <2>4. hsp' \in {"joinErr", "take", "takeErr"} => ByChild("stdout", kept["stdout"].total)'
    BY <1>15, <2>1, <2>2, <2>3 DEF AnswerKnows
  <2>5. hsp' \in {"take", "takeErr"} => ByChild("stderr", kept["stderr"].total)'
    BY <1>15, <2>1, <2>2, <2>3 DEF AnswerKnows
  <2>6. hsp' = "takeErr" => Reported("stdout")'
    BY <2>2, <2>3 DEF AnswerKnows
  <2> QED BY <2>2, <2>4, <2>5, <2>6 DEF AnswerKnows
<1>17. ASSUME NEW r \in Streams PROVE (Pours(r) /\ (reader[r] = "done" => Ended(r)))'
  <2>0. Pours(r) /\ (reader[r] = "done" => Ended(r))
    BY DEF CaptureInv
  <2>1. CASE r = s
    <3>1. reader[r] # "done"
      BY <1>2, <2>0, <2>1 DEF Ended
    <3>2. hand'[r] = NoChunk /\ pipe'[r] = pipe[r] /\ written'[r] = w
      BY <1>2, <1>5, <2>1 DEF CaptureInv, CaptureTypes
    <3>3. Pours(r)'
      BY <1>7, <1>10, <1>11, <2>1, <3>2 DEF Pours
    <3> QED BY <1>2, <3>1, <3>3
  <2>2. CASE r # s
    BY <1>2, <1>14, <2>0, <2>2 DEF Pours, Ended
  <2> QED BY <2>1, <2>2
<1> QED BY <1>12, <1>13, <1>16, <1>17 DEF CaptureInv

LEMMA EofKeeps == CaptureInv /\ (\E s \in Streams : ReadEof(s)) => CaptureInv'
<1> SUFFICES ASSUME CaptureInv, NEW s \in Streams, ReadEof(s) PROVE CaptureInv'
  OBVIOUS
<1>1. /\ reader[s] = "reading" /\ hand[s] = NoChunk /\ pipe[s] = <<>>
      /\ child \in {"zombie", "reaped"} /\ s \notin held /\ reader' = [reader EXCEPT ![s] = "done"]
      /\ UNCHANGED <<hsp, pidStored, pipe, hand, kept, written, child, status, held, left, answer, exitCode, signalled>>
      /\ Alive
  BY DEF ReadEof, KeepChild, KeepEnd
<1>2. CaptureTypes'
  BY <1>1 DEF CaptureInv, CaptureTypes
<1>3. \A r \in Streams : reader'[r] = reader[r] \/ (r = s /\ reader'[r] = "done")
  BY <1>1 DEF CaptureInv, CaptureTypes
<1>4. MainKnows'
  <2>1. hsp \notin {"spawn", "store", "readers"}
    BY <1>1 DEF CaptureInv, MainKnows
  <2>2. signalled' = "no"
    BY <1>1 DEF CaptureInv, MainKnows, Alive
  <2> QED BY <1>1, <1>3, <2>1, <2>2 DEF CaptureInv, MainKnows, NoOrphan
<1>5. AnswerKnows'
  BY <1>1 DEF CaptureInv, AnswerKnows, ByChild, Reported
<1>6. ASSUME NEW r \in Streams PROVE (Pours(r) /\ (reader[r] = "done" => Ended(r)))'
  <2>0. Pours(r) /\ (reader[r] = "done" => Ended(r))
    BY DEF CaptureInv
  <2>1. Pours(r)'
    BY <1>1, <2>0 DEF Pours
  <2>2. reader'[r] = "done" => Ended(r)'
    BY <1>1, <1>3, <2>0 DEF Ended
  <2> QED BY <2>1, <2>2
<1> QED BY <1>2, <1>4, <1>5, <1>6 DEF CaptureInv

(* The steps of the command and of what it leaves behind.                  *)
LEMMA WriteKeeps == CaptureInv /\ (\E s \in Streams : ChildWrites(s) \/ LeftWrites(s)) => CaptureInv'
<1> SUFFICES ASSUME CaptureInv, NEW s \in Streams, ChildWrites(s) \/ LeftWrites(s) PROVE CaptureInv'
  OBVIOUS
<1>1. PICK who \in {"child", "left"} : /\ who = "child" => child = "running"
                                       /\ who = "left" => s \in held
                                       /\ Alive /\ WriteBy(who, s)
  BY DEF ChildWrites, LeftWrites
<1>2. PICK w, n, c : w = written[s] /\ n = kept[s].total /\ c = <<who, Len(w) + 1>>
  OBVIOUS
<1>3. Pours(s) /\ (reader[s] = "done" => Ended(s))
  BY DEF CaptureInv
<1>4. Flows(w, pipe[s], hand[s], n) /\ kept[s] = Summary(w, n)
  BY <1>2, <1>3 DEF Pours
<1>5. w \in Seq(Chunk) /\ n \in Nat /\ n <= Len(w) /\ Len(w) \in Nat
  <2>1. w \in Seq(Chunk) /\ n \in Nat /\ pipe[s] \in Seq(Chunk) /\ Len(w) = n + Carried(hand[s]) + Len(pipe[s])
    BY <1>4 DEF Flows
  <2>2. Carried(hand[s]) \in {0, 1}
    BY DEF Carried
  <2>3. Len(pipe[s]) \in Nat /\ Len(w) \in Nat
    BY <2>1
  <2> QED BY <2>1, <2>2, <2>3
<1>6. c \in Chunk
  BY <1>2, <1>5 DEF Chunk
<1>7. /\ pipe' = [pipe EXCEPT ![s] = Append(pipe[s], c)] /\ written' = [written EXCEPT ![s] = Append(w, c)]
      /\ UNCHANGED <<hsp, pidStored, hand, reader, kept, child, status, held, left, answer, exitCode, signalled>>
  BY <1>1, <1>2 DEF WriteBy, KeepChild, KeepEnd
<1>8. pipe'[s] = Append(pipe[s], c) /\ written'[s] = Append(w, c)
  BY <1>7 DEF CaptureInv, CaptureTypes
<1>9. CaptureTypes'
  BY <1>7 DEF CaptureInv, CaptureTypes
<1>10. MainKnows'
  BY <1>7 DEF CaptureInv, MainKnows, NoOrphan
<1>11. ASSUME NEW r \in Streams, r # s PROVE written'[r] = written[r] /\ pipe'[r] = pipe[r]
  BY <1>7, <1>11 DEF CaptureInv, CaptureTypes
<1>12. PICK v : v = Append(w, c)
  OBVIOUS
<1>13. /\ v \in Seq(Chunk) /\ Len(v) = Len(w) + 1 /\ v[Len(w) + 1] = c
       /\ \A i \in 1 .. Len(w) : v[i] = w[i]
  BY <1>5, <1>6, <1>12
<1>14. ASSUME child # "running", NEW r \in Streams, NEW m, ByChild(r, m) PROVE ByChild(r, m)'
  <2>1. CASE r # s
    BY <1>11, <1>14, <2>1 DEF ByChild
  <2>2. CASE r = s
    <3>1. who = "left" /\ c[1] = "left"
      BY <1>1, <1>2, <1>14
    <3>2. \A i \in 1 .. Len(w) : w[i][1] = "child" => i <= m
      BY <1>2, <1>5, <1>14, <2>2 DEF ByChild
    <3>3. \A i \in 1 .. Len(v) : i \in 1 .. Len(w) \/ i = Len(w) + 1
      BY <1>5, <1>13
    <3>4. \A i \in 1 .. Len(v) : v[i][1] = "child" => i <= m
      BY <1>13, <3>1, <3>2, <3>3
    <3> QED BY <1>8, <1>12, <1>13, <2>2, <3>4 DEF ByChild
  <2> QED BY <2>1, <2>2
<1>15. ASSUME child # "running", Reported("stdout") PROVE Reported("stdout")'
  <2>0. "stdout" \in Streams
    BY DEF Streams
  <2>1. PICK m \in 0 .. Len(written["stdout"]) : answer["stdout"] = Summary(written["stdout"], m) /\ ByChild("stdout", m)
    BY <1>15 DEF Reported
  <2>2. ByChild("stdout", m)'
    BY <1>14, <1>15, <2>0, <2>1
  <2>3. CASE s # "stdout"
    <3>1. written'["stdout"] = written["stdout"]
      BY <1>11, <2>0, <2>3
    <3> QED BY <1>7, <2>1, <2>2, <3>1 DEF Reported
  <2>4. CASE s = "stdout"
    <3>1. m \in Nat /\ m <= Len(w)
      BY <1>2, <1>5, <2>1, <2>4
    <3>2. Summary(v, m) = Summary(w, m)
      BY <1>5, <1>6, <1>12, <3>1, SummaryStays
    <3>3. m \in 0 .. Len(v)
      BY <1>5, <1>13, <3>1
    <3>4. written'["stdout"] = v /\ answer'["stdout"] = Summary(v, m)
      BY <1>2, <1>7, <1>8, <1>12, <2>1, <2>4, <3>2
    <3> QED BY <2>2, <3>3, <3>4 DEF Reported
  <2> QED BY <2>3, <2>4
<1>16. AnswerKnows'
  <2>1. "stdout" \in Streams /\ "stderr" \in Streams /\ kept' = kept /\ hsp' = hsp /\ child' = child
    BY <1>7 DEF Streams
  <2>2. hsp \in {"joinErr", "take", "takeErr"} => child # "running"
    BY DEF CaptureInv, MainKnows
  <2>3. hsp # "done"
    BY <1>1 DEF Alive
  <2>4. AnswerKnows
    BY DEF CaptureInv
  <2>5. hsp \in {"joinErr", "take", "takeErr"} => ByChild("stdout", kept["stdout"].total)'
    BY <1>14, <2>1, <2>2, <2>4 DEF AnswerKnows
  <2>6. hsp \in {"take", "takeErr"} => ByChild("stderr", kept["stderr"].total)'
    BY <1>14, <2>1, <2>2, <2>4 DEF AnswerKnows
  <2>7. hsp = "takeErr" => Reported("stdout")'
    BY <1>15, <2>2, <2>4 DEF AnswerKnows
  <2> QED BY <2>1, <2>3, <2>5, <2>6, <2>7 DEF AnswerKnows
<1>17. ASSUME NEW r \in Streams PROVE (Pours(r) /\ (reader[r] = "done" => Ended(r)))'
  <2>0. Pours(r) /\ (reader[r] = "done" => Ended(r))
    BY DEF CaptureInv
  <2>1. CASE r = s
    <3>1. reader[r] # "done"
      BY <1>1, <2>0, <2>1 DEF Ended
    <3>2. Flows(Append(w, c), Append(pipe[s], c), hand[s], n)
      BY <1>4, <1>6, FlowWritten
    <3>3. Summary(Append(w, c), n) = Summary(w, n)
      BY <1>5, <1>6, SummaryStays
    <3>4. Pours(r)'
      BY <1>2, <1>4, <1>7, <1>8, <2>1, <3>2, <3>3 DEF Pours
    <3> QED BY <1>7, <3>1, <3>4
  <2>2. CASE r # s
    BY <1>7, <1>11, <2>0, <2>2 DEF Pours, Ended
  <2> QED BY <2>1, <2>2
<1> QED BY <1>9, <1>10, <1>16, <1>17 DEF CaptureInv

LEMMA EndKeeps == CaptureInv /\ (LeaveProcess \/ LeftEnds \/ ChildExits \/ Signal) => CaptureInv'
<1> SUFFICES ASSUME CaptureInv, LeaveProcess \/ LeftEnds \/ ChildExits \/ Signal PROVE CaptureInv'
  OBVIOUS
<1>1. UNCHANGED <<pidStored, pipe, hand, reader, kept, written, answer, exitCode>> /\ Alive
  BY DEF LeaveProcess, LeftEnds, ChildExits, Signal, KeepStreams, KeepEnd
<1>2. \/ /\ child = "running" /\ held' \subseteq Streams /\ UNCHANGED <<hsp, child, status, signalled>>
      \/ /\ held' = {} /\ UNCHANGED <<hsp, child, status, signalled>>
      \/ /\ child = "running" /\ child' = "zombie" /\ UNCHANGED <<hsp, held, signalled>>
      \/ /\ hsp # "spawn" /\ hsp' = "dead" /\ (signalled' = "nobody" => ~ pidStored)
         /\ UNCHANGED <<child, status, held>>
  BY DEF LeaveProcess, LeftEnds, ChildExits, Signal, KeepChild, KeepEnd
<1>3. CaptureTypes'
  BY <1>1, <1>2 DEF CaptureInv, CaptureTypes
<1>4. signalled = "no" /\ hsp \notin {"done", "dead"}
  BY <1>1 DEF CaptureInv, MainKnows, Alive
<1>5. MainKnows'
  <2>1. CASE hsp' = hsp /\ signalled' = signalled
    BY <1>1, <1>2, <1>4, <2>1 DEF CaptureInv, MainKnows, NoOrphan
  <2>2. CASE hsp' = "dead" /\ child' = child /\ (signalled' = "nobody" => ~ pidStored)
    <3>1. child = "running" /\ ~ pidStored => reader["stdout"] = "none"
      BY <1>4 DEF CaptureInv, MainKnows, CaptureTypes, Streams
    <3> QED BY <1>1, <2>2, <3>1 DEF MainKnows, NoOrphan
  <2> QED BY <1>2, <2>1, <2>2
<1>6. AnswerKnows'
  <2>1. CASE hsp' = hsp
    BY <1>1, <1>4, <2>1 DEF CaptureInv, AnswerKnows, ByChild, Reported
  <2>2. CASE hsp' = "dead"
    BY <2>2 DEF AnswerKnows
  <2> QED BY <1>2, <2>1, <2>2
<1>7. ASSUME NEW r \in Streams PROVE (Pours(r) /\ (reader[r] = "done" => Ended(r)))'
  <2>0. Pours(r) /\ (reader[r] = "done" => Ended(r))
    BY DEF CaptureInv
  <2>1. Pours(r)'
    BY <1>1, <2>0 DEF Pours
  <2>2. reader[r] = "done" => Ended(r)'
    BY <1>1, <1>2, <2>0 DEF Ended
  <2> QED BY <1>1, <2>1, <2>2
<1> QED BY <1>3, <1>5, <1>6, <1>7 DEF CaptureInv

LEMMA MainKeeps == CaptureInv /\ MainStep => CaptureInv'
BY MainTypes, MainMain, MainAnswer, MainPours DEF CaptureInv

LEMMA CaptureSteps == CaptureInv /\ [CaptureNext]_captureVars => CaptureInv'
<1> SUFFICES ASSUME CaptureInv, [CaptureNext]_captureVars PROVE CaptureInv'
  OBVIOUS
<1>1. CASE CaptureNext
  BY <1>1, MainKeeps, ReadKeeps, StoreKeeps, EofKeeps, WriteKeeps, EndKeeps DEF CaptureNext, MainStep
<1>2. CASE UNCHANGED captureVars
  BY <1>2 DEF captureVars, CaptureInv, CaptureTypes, MainKnows, NoOrphan, AnswerKnows, Reported, ByChild, Pours, Ended
<1> QED BY <1>1, <1>2

(* The largest number of a bounded set.                                    *)
LEMMA Greatest ==
  ASSUME NEW T, T \subseteq Nat, T # {}, NEW n \in Nat, \A x \in T : x <= n
  PROVE  \E x \in T : \A y \in T : y <= x
<1> DEFINE U == {n - x : x \in T}
<1>1. U \subseteq Nat /\ U # {}
  <2>1. ASSUME NEW x \in T PROVE n - x \in Nat
    <3>1. x \in Nat /\ x <= n
      BY <2>1
    <3> QED BY <3>1
  <2>2. PICK x \in T : TRUE
    OBVIOUS
  <2>3. n - x \in U
    OBVIOUS
  <2> QED BY <2>1, <2>3
<1>2. PICK u \in U : \A y \in U : u <= y
  <2> HIDE DEF U
  <2> QED BY <1>1, Least
<1>3. PICK x \in T : u = n - x
  BY <1>2
<1>4. ASSUME NEW y \in T PROVE y <= x
  <2>1. n - y \in U
    OBVIOUS
  <2>2. n - x <= n - y
    BY <1>2, <1>3, <2>1
  <2>3. x \in Nat /\ y \in Nat
    OBVIOUS
  <2> QED BY <2>2, <2>3
<1> QED BY <1>4

LEMMA CaptureImplies == CaptureInv => CaptureHonest
<1> SUFFICES ASSUME CaptureInv PROVE CaptureHonest
  OBVIOUS
<1>1. NothingMissed
  <2> SUFFICES ASSUME hsp = "done", child = "reaped", NEW s \in Streams
               PROVE  /\ exitCode = status
                      /\ \E n \in LastOfChild(s)..Len(written[s]) :
                           answer[s] = [buf |-> Firsts(written[s], IF n < OutputCap THEN n ELSE OutputCap),
                                        total |-> n, truncated |-> n > OutputCap]
    BY DEF NothingMissed, Streams
  <2>1. exitCode = status /\ Reported(s)
    BY DEF CaptureInv, AnswerKnows
  <2>2. PICK n \in 0 .. Len(written[s]) : answer[s] = Summary(written[s], n) /\ ByChild(s, n)
    BY <2>1 DEF Reported
  <2>3. PICK w : w = written[s]
    OBVIOUS
  <2>4. w \in Seq(Chunk) /\ Len(w) \in Nat
    BY <2>3 DEF CaptureInv, Pours, Flows
  <2>5. PICK T : T = {i \in DOMAIN w : w[i][1] = "child"}
    OBVIOUS
  <2>6. T \subseteq Nat /\ (\A x \in T : x <= n) /\ n \in Nat /\ n <= Len(w)
    BY <2>2, <2>3, <2>4, <2>5 DEF ByChild
  <2>7. PICK l : l = LastOfChild(s) /\ l \in Nat /\ l <= n
    <3>1. CASE T = {}
      <4>1. LastOfChild(s) = 0
        BY <2>3, <2>5, <3>1 DEF LastOfChild
      <4> QED BY <2>6, <4>1
    <3>2. CASE T # {}
      <4>1. PICK x \in T : \A y \in T : y <= x
        BY <2>6, <3>2, Greatest
      <4>2. LastOfChild(s) = CHOOSE i \in T : \A j \in T : j <= i
        BY <2>3, <2>5, <3>2 DEF LastOfChild
      <4>3. LastOfChild(s) \in T
        BY <4>1, <4>2
      <4> QED BY <2>6, <4>3
    <3> QED BY <3>1, <3>2
  <2>8. n \in LastOfChild(s)..Len(written[s])
    BY <2>3, <2>4, <2>6, <2>7
  <2> QED BY <2>1, <2>2, <2>8 DEF Summary, Capped
<1>2. NeverStuck
  <2> SUFFICES ASSUME NEW s \in Streams, hsp = "wait", child = "running" PROVE reader[s] = "reading"
    BY DEF NeverStuck
  <2>1. reader[s] # "none" /\ reader[s] # "done" /\ reader[s] \in {"none", "reading", "done"}
    BY DEF CaptureInv, MainKnows, CaptureTypes, Ended
  <2> QED BY <2>1
<1>3. NoOrphan
  BY DEF CaptureInv, MainKnows
<1> QED BY <1>1, <1>2, <1>3 DEF CaptureHonest

(* hsp reports the head of all a command wrote, at least to the last chunk  *)
(* of the command itself or to the cap, with what was dropped counted and   *)
(* the command's exit code; it never blocks the command, and a signal       *)
(* leaves no running command behind except before its pid is stored.        *)
THEOREM CaptureKept == CaptureInit /\ [][CaptureNext]_captureVars => []CaptureHonest
<1>1. CaptureInit => CaptureInv
  BY CaptureStarts
<1>2. CaptureInv /\ [CaptureNext]_captureVars => CaptureInv'
  BY CaptureSteps
<1>3. CaptureInv => CaptureHonest
  BY CaptureImplies
<1> QED BY <1>1, <1>2, <1>3, PTL

-----------------------------------------------------------------------------
(* The pages that patch the configuration                                   *)

(* What a layer, and what a page in hand, may be.                           *)
LayersOK ==
  /\ DOMAIN layer = Layers /\ clock \in Nat \ {0} /\ current \in Projects
  /\ \A l \in Layers : /\ layer[l].is \in {"absent", "torn", "whole"} /\ WellFormed(layer[l].content)
                       /\ layer[l].stamp \in Nat /\ layer[l].stamp < clock
                       /\ layer[l].is = "absent" <=> layer[l].stamp = 0
  /\ \A l, k \in Layers : layer[l].stamp = layer[k].stamp /\ layer[l].stamp # 0 => l = k

PageTypes ==
  /\ DOMAIN page = Pages
  /\ \A w \in Pages : /\ page[w].at \in {"idle", "stat", "shown", "apply"} /\ page[w].layer \in Layers
                      /\ page[w].at # "idle" => page[w].patch \in Patches
                      /\ page[w].token \in Nat /\ page[w].token < clock
                      /\ page[w] = [z \in DOMAIN NoPage |-> page[w][z]]

(* The token of a preview that has not read the file yet is nobody else's   *)
(* mtime; afterwards the file that bears it, if one does, is the one that   *)
(* was read.                                                                *)
TokenFits(w) ==
  page[w].token # 0 =>
    \A l \in Layers : layer[l].stamp = page[w].token =>
      /\ page[w].at = "stat" => page[w].layer = l
      /\ page[w].at \in {"shown", "apply"} => layer[l].is = "whole" /\ page[w].after = Apply(page[w].patch, layer[l].content)

(* One page at a time applies to a layer, and nothing has touched the layer *)
(* since the page took its mtime.                                           *)
OnePageEach ==
  /\ \A w \in Pages : page[w].at = "apply" => page[w].stamp = layer[page[w].layer].stamp
  /\ \A w, v \in Pages : page[w].at = "apply" /\ page[v].at = "apply" /\ page[w].layer = page[v].layer => w = v

LayerInv == LayersOK /\ PageTypes /\ (\A w \in Pages : TokenFits(w)) /\ OnePageEach /\ ~ broken

(* A patch leaves a layer well-formed.                                      *)
LEMMA NothingFormed == WellFormed(Nothing)
BY DEF WellFormed

LEMMA ObjFormed ==
  ASSUME NEW f, DOMAIN f \subseteq Names
  PROVE  WellFormed(Obj(f))
<1>1. Obj(f).is = "object" /\ Obj(f).of = f
  BY DEF Obj
<1> QED BY <1>1 DEF WellFormed

LEMMA MadeFormed ==
  ASSUME NEW p \in Patches, NEW c, WellFormed(c)
  PROVE  Apply(p, c) = Failed \/ WellFormed(Apply(p, c))
<1>1. /\ p.op \in {"add", "replace", "remove"} /\ p.at \in Names \cup {"m"}
      /\ WellFormed(p.value) /\ p.op # "none"
  BY LayerAssumption
<1>2. c.is = "object" => DOMAIN c.of \subseteq Names
  <2>1. Nothing.is = "nothing"
    BY DEF Nothing
  <2> QED BY <2>1 DEF WellFormed
<1>3. CASE p.at = "m"
  <2>1. Apply(p, c) \in {p.value, Failed, Nothing}
    <3>1. CASE p.op = "add"
      BY <1>3, <3>1 DEF Apply
    <3>2. CASE p.op = "replace"
      BY <1>3, <3>2 DEF Apply
    <3>3. CASE p.op = "remove"
      BY <1>3, <3>3 DEF Apply
    <3> QED BY <1>1, <3>1, <3>2, <3>3
  <2> QED BY <1>1, <2>1, NothingFormed
<1>4. CASE p.at # "m"
  <2>0. p.at \in Names
    BY <1>1, <1>4
  <2>1. CASE p.op = "add"
    <3>1. Apply(p, c) = IF c.is # "object" THEN Failed ELSE Obj(OnTop([n \in {p.at} |-> p.value.value], c.of))
      BY <1>4, <2>1 DEF Apply
    <3>2. CASE c.is = "object"
      <4>1. PICK f : f = OnTop([n \in {p.at} |-> p.value.value], c.of)
        OBVIOUS
      <4>2. DOMAIN f = {p.at} \cup DOMAIN c.of
        BY <4>1 DEF OnTop
      <4>3. DOMAIN f \subseteq Names
        BY <1>2, <2>0, <3>2, <4>2
      <4> QED BY <3>1, <3>2, <4>1, <4>3, ObjFormed
    <3> QED BY <3>1, <3>2
  <2>2. CASE p.op = "replace"
    <3>1. Apply(p, c) = IF ~ Member(c, p.at) THEN Failed ELSE Obj([c.of EXCEPT ![p.at] = p.value.value])
      BY <1>4, <2>2 DEF Apply
    <3>2. CASE Member(c, p.at)
      <4>1. PICK f : f = [c.of EXCEPT ![p.at] = p.value.value]
        OBVIOUS
      <4>2. DOMAIN f = DOMAIN c.of
        BY <4>1
      <4>3. DOMAIN f \subseteq Names
        BY <1>2, <3>2, <4>2 DEF Member
      <4> QED BY <3>1, <3>2, <4>1, <4>3, ObjFormed
    <3> QED BY <3>1, <3>2
  <2>3. CASE p.op = "remove"
    <3>1. Apply(p, c) = IF ~ Member(c, p.at) THEN Failed ELSE Obj([n \in DOMAIN c.of \ {p.at} |-> c.of[n]])
      BY <1>4, <2>3 DEF Apply
    <3>2. CASE Member(c, p.at)
      <4>1. PICK f : f = [n \in DOMAIN c.of \ {p.at} |-> c.of[n]]
        OBVIOUS
      <4>2. DOMAIN f = DOMAIN c.of \ {p.at}
        BY <4>1
      <4>3. DOMAIN f \subseteq Names
        BY <1>2, <3>2, <4>2 DEF Member
      <4> QED BY <3>1, <3>2, <4>1, <4>3, ObjFormed
    <3> QED BY <3>1, <3>2
  <2> QED BY <1>1, <2>1, <2>2, <2>3
<1> QED BY <1>3, <1>4

LEMMA LayerStart == LayerInit => LayerInv
<1> SUFFICES ASSUME LayerInit PROVE LayerInv
  OBVIOUS
<1>1. Cardinality(Layers) \in Nat
  <2>1. IsFiniteSet(Projects) /\ IsFiniteSet({"global"})
    BY LayerAssumption, FS_Singleton
  <2>2. IsFiniteSet(Layers)
    BY <2>1, FS_Union DEF Layers
  <2> QED BY <2>2, FS_CardinalityType
<1>2. PICK n \in Nat : n = Cardinality(Layers)
  BY <1>1
<1>3. /\ layer \in LayerStarts /\ current \in Projects /\ clock = n + 1
      /\ page = [w \in Pages |-> NoPage] /\ broken = FALSE
  BY <1>2 DEF LayerInit
<1>4. LayersOK
  <2>1. DOMAIN layer = Layers /\ \A l, k \in Layers : layer[l].stamp = layer[k].stamp /\ layer[l].stamp # 0 => l = k
    BY <1>3, LayerAssumption
  <2>2. ASSUME NEW l \in Layers
        PROVE  /\ layer[l].is \in {"absent", "torn", "whole"} /\ WellFormed(layer[l].content)
               /\ layer[l].stamp \in Nat /\ layer[l].stamp < clock
               /\ layer[l].is = "absent" <=> layer[l].stamp = 0
    <3>1. \/ layer[l] = NoFile
          \/ /\ layer[l] = File(layer[l].content, layer[l].stamp) /\ WellFormed(layer[l].content)
             /\ layer[l].stamp \in 1 .. n
      BY <1>2, <1>3, LayerAssumption
    <3>2. CASE layer[l] = NoFile
      <4>1. layer[l].is = "absent" /\ layer[l].content = Nothing /\ layer[l].stamp = 0
        BY <3>2 DEF NoFile
      <4> QED BY <1>2, <1>3, <4>1, NothingFormed
    <3>3. CASE /\ layer[l] = File(layer[l].content, layer[l].stamp) /\ WellFormed(layer[l].content)
               /\ layer[l].stamp \in 1 .. n
      <4>1. layer[l].is = "whole"
        BY <3>3 DEF File
      <4>2. layer[l].stamp \in Nat /\ layer[l].stamp # 0 /\ layer[l].stamp < n + 1
        BY <1>2, <3>3
      <4> QED BY <1>3, <3>3, <4>1, <4>2
    <3> QED BY <3>1, <3>2, <3>3
  <2> QED BY <1>2, <1>3, <2>1, <2>2 DEF LayersOK
<1>5. ASSUME NEW w \in Pages PROVE page[w] = NoPage
  BY <1>3
<1>6. /\ NoPage.at = "idle" /\ NoPage.layer \in Layers /\ NoPage.token = 0
      /\ NoPage = [z \in DOMAIN NoPage |-> NoPage[z]]
  BY DEF NoPage, Layers
<1>7. PageTypes
  BY <1>2, <1>3, <1>5, <1>6 DEF PageTypes
<1>8. (\A w \in Pages : TokenFits(w)) /\ OnePageEach
  BY <1>5, <1>6 DEF TokenFits, OnePageEach
<1> QED BY <1>3, <1>4, <1>7, <1>8 DEF LayerInv

(* What every step keeps of a file that changes: l gets new content under   *)
(* the next mtime.                                                          *)
LEMMA LayersOn ==
  ASSUME LayersOK, NEW l \in Layers, NEW f, layer' = [layer EXCEPT ![l] = f], clock' = clock + 1, current' \in Projects,
         f.is \in {"torn", "whole"}, WellFormed(f.content), f.stamp = clock
  PROVE  LayersOK' /\ layer'[l] = f /\ \A k \in Layers : k # l => layer'[k] = layer[k]
<1>1. layer'[l] = f /\ \A k \in Layers : k # l => layer'[k] = layer[k]
  BY DEF LayersOK
<1>2. DOMAIN layer' = Layers /\ clock' \in Nat \ {0}
  BY DEF LayersOK
<1>3. ASSUME NEW k \in Layers
      PROVE  /\ layer'[k].is \in {"absent", "torn", "whole"} /\ WellFormed(layer'[k].content)
             /\ layer'[k].stamp \in Nat /\ layer'[k].stamp < clock'
             /\ layer'[k].is = "absent" <=> layer'[k].stamp = 0
  <2>1. CASE k = l
    BY <1>1, <2>1 DEF LayersOK
  <2>2. CASE k # l
    BY <1>1, <2>2 DEF LayersOK
  <2> QED BY <2>1, <2>2
<1>4. ASSUME NEW k \in Layers, NEW m \in Layers, layer'[k].stamp = layer'[m].stamp, layer'[k].stamp # 0 PROVE k = m
  <2>1. \A i \in Layers : i # l => layer'[i].stamp = layer[i].stamp /\ layer[i].stamp < clock /\ layer[i].stamp \in Nat
    BY <1>1 DEF LayersOK
  <2>2. layer'[l].stamp = clock /\ clock \in Nat
    BY <1>1 DEF LayersOK
  <2>3. CASE k = l \/ m = l
    BY <1>4, <2>1, <2>2, <2>3
  <2>4. CASE k # l /\ m # l
    BY <1>4, <2>1, <2>4 DEF LayersOK
  <2> QED BY <2>3, <2>4
<1> QED BY <1>1, <1>2, <1>3, <1>4 DEF LayersOK

(* and of the pages while it does.                                          *)
LEMMA PagesOn ==
  ASSUME LayerInv, NEW l \in Layers, NEW f, layer' = [layer EXCEPT ![l] = f], clock' = clock + 1, f.stamp = clock,
         NEW w \in Pages, page'[w] = page[w]
  PROVE  /\ TokenFits(w)' /\ page'[w].token < clock'
         /\ page[w].layer # l /\ page[w].at = "apply" => page'[w].stamp = layer'[page'[w].layer].stamp
<1>1. layer'[l] = f /\ \A k \in Layers : k # l => layer'[k] = layer[k]
  BY DEF LayersOK, LayerInv
<1>2. page[w].token \in Nat /\ page[w].token < clock /\ clock \in Nat /\ page[w].layer \in Layers
  BY DEF LayerInv, PageTypes, LayersOK
<1>3. TokenFits(w)'
  <2>1. ASSUME page[w].token # 0, NEW k \in Layers, layer'[k].stamp = page[w].token
        PROVE  /\ page[w].at = "stat" => page[w].layer = k
               /\ page[w].at \in {"shown", "apply"} =>
                    layer'[k].is = "whole" /\ page[w].after = Apply(page[w].patch, layer'[k].content)
    <3>1. k # l
      BY <1>1, <1>2, <2>1
    <3>2. layer'[k] = layer[k]
      BY <1>1, <3>1
    <3> QED BY <2>1, <3>2 DEF LayerInv, TokenFits
  <2> QED BY <2>1 DEF TokenFits
<1>4. page[w].layer # l /\ page[w].at = "apply" => page'[w].stamp = layer'[page'[w].layer].stamp
  BY <1>1, <1>2 DEF LayerInv, OnePageEach
<1> QED BY <1>2, <1>3, <1>4

(* The steps of the CLI and of the switch.                                  *)
LEMMA CliKeeps ==
  ASSUME LayerInv, ~ Racing, NEW l \in Layers, CliOpen(l) \/ CliWrite(l)
  PROVE  LayerInv'
<1>1. PICK f : /\ layer' = [layer EXCEPT ![l] = f] /\ f.is \in {"torn", "whole"} /\ WellFormed(f.content)
               /\ f.stamp = clock
  <2>1. CASE CliOpen(l)
    <3>1. PICK f : f = [is |-> "torn", content |-> Nothing, stamp |-> clock]
      OBVIOUS
    <3>2. layer' = [layer EXCEPT ![l] = f] /\ f.is = "torn" /\ f.content = Nothing /\ f.stamp = clock
      BY <2>1, <3>1 DEF CliOpen
    <3> QED BY <3>2, NothingFormed
  <2>2. CASE CliWrite(l)
    <3>1. PICK c \in CliWrites : layer' = [layer EXCEPT ![l] = File(c, clock)]
      BY <2>2 DEF CliWrite
    <3>2. PICK f : f = File(c, clock)
      OBVIOUS
    <3>3. f.is = "whole" /\ f.content = c /\ f.stamp = clock /\ WellFormed(c)
      BY <3>2, LayerAssumption DEF File
    <3> QED BY <3>1, <3>2, <3>3
  <2> QED BY <2>1, <2>2
<1>2. /\ clock' = clock + 1 /\ UNCHANGED <<current, page, broken>> /\ ~ Applying(l)
  BY DEF CliOpen, CliWrite
<1>3. LayersOK'
  <2>1. LayersOK /\ current' \in Projects
    BY <1>2 DEF LayerInv, LayersOK
  <2> QED BY <1>1, <1>2, <2>1, LayersOn
<1>4. ASSUME NEW w \in Pages
      PROVE  /\ TokenFits(w)' /\ page'[w].token < clock'
             /\ page[w].at = "apply" => page'[w].stamp = layer'[page'[w].layer].stamp
  <2>1. page[w].at = "apply" => page[w].layer # l
    BY <1>2 DEF Applying
  <2>2. page'[w] = page[w]
    BY <1>2
  <2> QED BY <1>1, <1>2, <2>1, <2>2, PagesOn
<1>5. PageTypes'
  BY <1>2, <1>4 DEF LayerInv, PageTypes
<1>6. OnePageEach'
  BY <1>2, <1>4 DEF LayerInv, OnePageEach
<1> QED BY <1>2, <1>3, <1>4, <1>5, <1>6 DEF LayerInv

LEMMA SwitchKeeps ==
  ASSUME LayerInv, NEW p \in Projects, Switch(p)
  PROVE  LayerInv'
BY DEF LayerInv, LayersOK, PageTypes, TokenFits, OnePageEach, Switch

(* A page that goes to another place in its request, the layers as they     *)
(* were.                                                                    *)
LEMMA PageMoves ==
  ASSUME LayerInv, UNCHANGED <<layer, current, clock, broken>>, NEW w \in Pages, NEW r, page' = [page EXCEPT ![w] = r],
         r.at \in {"idle", "stat", "shown", "apply"}, r.layer \in Layers, r.at # "idle" => r.patch \in Patches,
         r.token \in Nat, r.token < clock, r = [z \in DOMAIN NoPage |-> r[z]],
         \A l \in Layers : r.token # 0 /\ layer[l].stamp = r.token =>
           /\ r.at = "stat" => r.layer = l
           /\ r.at \in {"shown", "apply"} => layer[l].is = "whole" /\ r.after = Apply(r.patch, layer[l].content),
         r.at = "apply" => r.stamp = layer[r.layer].stamp /\ ~ Applying(r.layer)
  PROVE  LayerInv'
<1>1. page'[w] = r /\ \A v \in Pages : v # w => page'[v] = page[v]
  BY DEF LayerInv, PageTypes
<1>2. LayersOK'
  BY DEF LayerInv, LayersOK
<1>3. PageTypes'
  <2>1. DOMAIN page' = Pages
    BY DEF LayerInv, PageTypes
  <2>2. ASSUME NEW v \in Pages
        PROVE  /\ page'[v].at \in {"idle", "stat", "shown", "apply"} /\ page'[v].layer \in Layers
               /\ page'[v].at # "idle" => page'[v].patch \in Patches
               /\ page'[v].token \in Nat /\ page'[v].token < clock
               /\ page'[v] = [z \in DOMAIN NoPage |-> page'[v][z]]
    <3>1. CASE v = w
      BY <1>1, <3>1
    <3>2. CASE v # w
      BY <1>1, <3>2 DEF LayerInv, PageTypes
    <3> QED BY <3>1, <3>2
  <2> QED BY <2>1, <2>2 DEF PageTypes
<1>4. ASSUME NEW v \in Pages PROVE TokenFits(v)'
  <2>1. CASE v = w
    BY <1>1, <2>1 DEF TokenFits
  <2>2. CASE v # w
    BY <1>1, <2>2 DEF LayerInv, TokenFits
  <2> QED BY <2>1, <2>2
<1>5. OnePageEach'
  <2>1. \A v \in Pages : page'[v].at = "apply" => page'[v].stamp = layer[page'[v].layer].stamp
    BY <1>1 DEF LayerInv, OnePageEach
  <2>2. ASSUME NEW u \in Pages, NEW v \in Pages, page'[u].at = "apply", page'[v].at = "apply",
               page'[u].layer = page'[v].layer
        PROVE  u = v
    <3>1. CASE u # w /\ v # w
      BY <1>1, <2>2, <3>1 DEF LayerInv, OnePageEach
    <3>2. CASE u = w /\ v # w
      <4>1. page'[u] = r /\ page'[v] = page[v]
        BY <1>1, <3>2
      <4>2. r.at = "apply" /\ page[v].at = "apply" /\ page[v].layer = r.layer
        BY <2>2, <4>1
      <4> QED BY <4>2, <1>1 DEF Applying
    <3>3. CASE u # w /\ v = w
      <4>1. page'[v] = r /\ page'[u] = page[u]
        BY <1>1, <3>3
      <4>2. r.at = "apply" /\ page[u].at = "apply" /\ page[u].layer = r.layer
        BY <2>2, <4>1
      <4> QED BY <4>2, <1>1 DEF Applying
    <3> QED BY <3>1, <3>2, <3>3
  <2> QED BY <2>1, <2>2 DEF OnePageEach
<1> QED BY <1>2, <1>3, <1>4, <1>5 DEF LayerInv

LEMMA EmptyPage ==
  ASSUME LayerInv
  PROVE  /\ NoPage.at = "idle" /\ NoPage.layer \in Layers /\ NoPage.token = 0 /\ NoPage.token < clock
         /\ NoPage = [z \in DOMAIN NoPage |-> NoPage[z]]
BY DEF NoPage, Layers, LayerInv, LayersOK

LEMMA DropsKeep ==
  ASSUME LayerInv, UNCHANGED <<layer, current, clock, broken>>, NEW w \in Pages, page' = [page EXCEPT ![w] = NoPage]
  PROVE  LayerInv'
<1>1. /\ NoPage.at = "idle" /\ NoPage.layer \in Layers /\ NoPage.token = 0 /\ NoPage.token < clock
      /\ NoPage = [z \in DOMAIN NoPage |-> NoPage[z]]
  BY EmptyPage
<1>2. PICK r : r = NoPage
  OBVIOUS
<1>3. /\ page' = [page EXCEPT ![w] = r] /\ r.at \in {"idle", "stat", "shown", "apply"} /\ r.layer \in Layers
      /\ (r.at # "idle" => r.patch \in Patches) /\ r.token \in Nat /\ r.token < clock
      /\ r = [z \in DOMAIN NoPage |-> r[z]] /\ r.token = 0 /\ r.at # "apply"
  BY <1>1, <1>2
<1> QED BY <1>3, PageMoves

LEMMA StatKeeps ==
  ASSUME LayerInv, NEW w \in Pages, StatForPreview(w)
  PROVE  LayerInv'
<1>1. PICK which \in {"global", "project"}, p \in Patches :
        Go(w, [NoPage EXCEPT !.at = "stat", !.layer = ResolveConfigPath(which), !.patch = p,
                             !.token = layer[ResolveConfigPath(which)].stamp])
  BY DEF StatForPreview
<1>2. PICK l : l = ResolveConfigPath(which)
  OBVIOUS
<1>3. l \in Layers
  BY <1>2 DEF ResolveConfigPath, Layers, LayerInv, LayersOK
<1>4. PICK r : r = [NoPage EXCEPT !.at = "stat", !.layer = l, !.patch = p, !.token = layer[l].stamp]
  OBVIOUS
<1>5. r.at = "stat" /\ r.layer = l /\ r.patch = p /\ r.token = layer[l].stamp /\ r = [z \in DOMAIN NoPage |-> r[z]]
  BY <1>4 DEF NoPage
<1>6. page' = [page EXCEPT ![w] = r] /\ UNCHANGED <<layer, current, clock, broken>>
  BY <1>1, <1>2, <1>4 DEF Go, StatForPreview
<1>7. r.token \in Nat /\ r.token < clock
  BY <1>3, <1>5 DEF LayerInv, LayersOK
<1>8. ASSUME NEW k \in Layers, r.token # 0, layer[k].stamp = r.token PROVE r.layer = k
  BY <1>3, <1>5, <1>8 DEF LayerInv, LayersOK
<1> QED BY <1>3, <1>5, <1>6, <1>7, <1>8, PageMoves

LEMMA PreviewKeeps ==
  ASSUME LayerInv, NEW w \in Pages, Preview(w)
  PROVE  LayerInv'
<1>1. UNCHANGED <<layer, current, clock, broken>> /\ page[w].at = "stat"
  BY DEF Preview
<1>2. PICK pg, f, read : pg = page[w] /\ f = layer[pg.layer] /\ read = IF pg.token = 0 THEN Nothing ELSE f.content
  OBVIOUS
<1>3. IF (f.is = "torn" /\ pg.token # 0) \/ Apply(pg.patch, read) = Failed THEN Go(w, NoPage)
      ELSE Go(w, [pg EXCEPT !.at = "shown", !.before = read, !.after = Apply(pg.patch, read)])
  BY <1>2 DEF Preview
<1>4. CASE (f.is = "torn" /\ pg.token # 0) \/ Apply(pg.patch, read) = Failed
  <2>1. page' = [page EXCEPT ![w] = NoPage]
    BY <1>3, <1>4 DEF Go
  <2> QED BY <1>1, <2>1, DropsKeep
<1>5. CASE ~ ((f.is = "torn" /\ pg.token # 0) \/ Apply(pg.patch, read) = Failed)
  <2>1. PICK a : a = Apply(pg.patch, read)
    OBVIOUS
  <2>2. PICK r : r = [pg EXCEPT !.at = "shown", !.before = read, !.after = a]
    OBVIOUS
  <2>3. /\ pg.at = "stat" /\ pg.layer \in Layers /\ pg.patch \in Patches /\ pg.token \in Nat /\ pg.token < clock
        /\ pg = [z \in DOMAIN NoPage |-> pg[z]]
    BY <1>1, <1>2 DEF LayerInv, PageTypes
  <2>4. DOMAIN pg = {"at", "layer", "patch", "token", "stamp", "before", "after"}
    <3>1. DOMAIN NoPage = {"at", "layer", "patch", "token", "stamp", "before", "after"}
      BY DEF NoPage
    <3>2. DOMAIN [z \in DOMAIN NoPage |-> pg[z]] = DOMAIN NoPage
      OBVIOUS
    <3> QED BY <2>3, <3>1, <3>2
  <2>5. /\ r.at = "shown" /\ r.layer = pg.layer /\ r.patch = pg.patch /\ r.token = pg.token /\ r.after = a
        /\ r = [z \in DOMAIN NoPage |-> r[z]]
    BY <2>2, <2>4 DEF NoPage
  <2>6. page' = [page EXCEPT ![w] = r]
    BY <1>3, <1>5, <2>1, <2>2 DEF Go
  <2>7. ASSUME NEW k \in Layers, r.token # 0, layer[k].stamp = r.token
        PROVE  layer[k].is = "whole" /\ r.after = Apply(r.patch, layer[k].content)
    <3>1. pg.layer = k
      BY <1>1, <1>2, <2>5, <2>7 DEF LayerInv, TokenFits
    <3>2. f = layer[k] /\ read = f.content /\ f.is # "torn"
      BY <1>2, <1>5, <2>5, <2>7, <3>1
    <3>3. layer[k].is = "whole"
      BY <2>7, <3>2 DEF LayerInv, LayersOK
    <3> QED BY <2>1, <2>5, <3>2, <3>3
  <2>8. r.at \in {"idle", "stat", "shown", "apply"} /\ r.at # "stat" /\ r.at # "apply"
    BY <2>5
  <2> QED BY <1>1, <2>3, <2>5, <2>6, <2>7, <2>8, PageMoves
<1> QED BY <1>4, <1>5

LEMMA TakeKeeps ==
  ASSUME LayerInv, ~ Racing, NEW w \in Pages, StatForApply(w)
  PROVE  LayerInv'
<1>1. UNCHANGED <<layer, current, clock, broken>> /\ page[w].at = "shown" /\ ~ Applying(Target(w))
  BY DEF StatForApply
<1>2. PICK pg, l : pg = page[w] /\ l = Target(w)
  OBVIOUS
<1>3. PICK r : r = [pg EXCEPT !.at = "apply", !.layer = l, !.stamp = layer[l].stamp]
  OBVIOUS
<1>4. page' = [page EXCEPT ![w] = r]
  BY <1>2, <1>3 DEF StatForApply, Go
<1>5. /\ pg.at = "shown" /\ pg.patch \in Patches /\ pg.token \in Nat /\ pg.token < clock
      /\ pg = [z \in DOMAIN NoPage |-> pg[z]]
  BY <1>1, <1>2 DEF LayerInv, PageTypes
<1>6. l \in Layers
  BY <1>2 DEF Target, Layers, LayerInv, LayersOK
<1>7. DOMAIN pg = {"at", "layer", "patch", "token", "stamp", "before", "after"}
  <2>1. DOMAIN NoPage = {"at", "layer", "patch", "token", "stamp", "before", "after"}
    BY DEF NoPage
  <2>2. DOMAIN [z \in DOMAIN NoPage |-> pg[z]] = DOMAIN NoPage
    OBVIOUS
  <2> QED BY <1>5, <2>1, <2>2
<1>8. /\ r.at = "apply" /\ r.layer = l /\ r.patch = pg.patch /\ r.token = pg.token /\ r.after = pg.after
      /\ r.stamp = layer[l].stamp /\ r = [z \in DOMAIN NoPage |-> r[z]]
  BY <1>3, <1>7 DEF NoPage
<1>9. ASSUME NEW k \in Layers, r.token # 0, layer[k].stamp = r.token
      PROVE  layer[k].is = "whole" /\ r.after = Apply(r.patch, layer[k].content)
  BY <1>1, <1>2, <1>8, <1>9 DEF LayerInv, TokenFits
<1>10. r.at \in {"idle", "stat", "shown", "apply"} /\ r.at # "stat"
  BY <1>8
<1> QED BY <1>1, <1>2, <1>4, <1>5, <1>6, <1>8, <1>9, <1>10, PageMoves

LEMMA ApplyKeeps ==
  ASSUME LayerInv, ~ Racing, NEW w \in Pages, ApplyPatch(w)
  PROVE  LayerInv'
<1>1. page[w].at = "apply" /\ page' = [page EXCEPT ![w] = NoPage] /\ UNCHANGED current
  BY DEF ApplyPatch, Go
<1>2. PICK pg, f, read, made : /\ pg = page[w] /\ f = layer[pg.layer]
                               /\ read = IF pg.stamp = 0 THEN Nothing ELSE f.content
                               /\ made = Apply(pg.patch, read)
  OBVIOUS
<1>3. IF Conflict(w) \/ f.is = "torn" \/ made = Failed THEN UNCHANGED <<layer, clock, broken>>
      ELSE /\ layer' = [layer EXCEPT ![pg.layer] = File(made, clock)] /\ clock' = clock + 1
           /\ broken' = (broken \/ (pg.token # 0 /\ made # pg.after))
  BY <1>2 DEF ApplyPatch
<1>4. CASE Conflict(w) \/ f.is = "torn" \/ made = Failed
  BY <1>1, <1>3, <1>4, DropsKeep
<1>5. CASE ~ (Conflict(w) \/ f.is = "torn" \/ made = Failed)
  <2>1. /\ layer' = [layer EXCEPT ![pg.layer] = File(made, clock)] /\ clock' = clock + 1
        /\ broken' = (broken \/ (pg.token # 0 /\ made # pg.after))
    BY <1>3, <1>5
  <2>2. /\ pg.layer \in Layers /\ pg.patch \in Patches /\ pg.stamp = layer[pg.layer].stamp /\ pg.token \in Nat
    BY <1>1, <1>2 DEF LayerInv, PageTypes, OnePageEach
  <2>3. WellFormed(read)
    BY <1>2, <2>2, NothingFormed DEF LayerInv, LayersOK
  <2>4. WellFormed(made)
    BY <1>2, <1>5, <2>2, <2>3, MadeFormed
  <2>5. PICK g : g = File(made, clock)
    OBVIOUS
  <2>6. g.is = "whole" /\ g.content = made /\ g.stamp = clock
    BY <2>5 DEF File
  <2>7. layer' = [layer EXCEPT ![pg.layer] = g] /\ current' \in Projects /\ LayersOK
    BY <1>1, <2>1, <2>5 DEF LayerInv, LayersOK
  <2>8. LayersOK'
    BY <2>1, <2>2, <2>4, <2>6, <2>7, LayersOn
  <2>9. ~ broken'
    <3>1. ASSUME pg.token # 0 PROVE made = pg.after
      <4>1. layer[pg.layer].stamp = pg.token
        BY <1>2, <1>5, <2>2, <3>1 DEF Conflict
      <4>2. pg.after = Apply(pg.patch, layer[pg.layer].content)
        BY <1>1, <1>2, <2>2, <3>1, <4>1 DEF LayerInv, TokenFits
      <4>3. read = f.content
        BY <1>2, <2>2, <3>1, <4>1
      <4> QED BY <1>2, <4>2, <4>3
    <3> QED BY <2>1, <3>1 DEF LayerInv
  <2>10. page'[w] = NoPage /\ \A v \in Pages : v # w => page'[v] = page[v]
    BY <1>1 DEF LayerInv, PageTypes
  <2>11. /\ NoPage.at = "idle" /\ NoPage.layer \in Layers /\ NoPage.token = 0
         /\ NoPage = [z \in DOMAIN NoPage |-> NoPage[z]]
    BY EmptyPage
  <2>12. ASSUME NEW v \in Pages, v # w
         PROVE  /\ TokenFits(v)' /\ page'[v].token < clock'
                /\ page[v].at = "apply" => page'[v].stamp = layer'[page'[v].layer].stamp
    <3>1. page'[v] = page[v]
      BY <2>10, <2>12
    <3>2. page[v].at = "apply" => page[v].layer # pg.layer
      BY <1>1, <1>2, <2>12 DEF LayerInv, OnePageEach
    <3> QED BY <2>1, <2>2, <2>6, <2>7, <3>1, <3>2, PagesOn
  <2>13. clock' \in Nat /\ 0 < clock'
    BY <2>1 DEF LayerInv, LayersOK
  <2>14. PageTypes'
    <3>1. DOMAIN page' = Pages
      BY <1>1 DEF LayerInv, PageTypes
    <3>2. ASSUME NEW v \in Pages
          PROVE  /\ page'[v].at \in {"idle", "stat", "shown", "apply"} /\ page'[v].layer \in Layers
                 /\ page'[v].at # "idle" => page'[v].patch \in Patches
                 /\ page'[v].token \in Nat /\ page'[v].token < clock'
                 /\ page'[v] = [z \in DOMAIN NoPage |-> page'[v][z]]
      <4>1. CASE v = w
        BY <2>10, <2>11, <2>13, <4>1
      <4>2. CASE v # w
        BY <2>10, <2>12, <4>2 DEF LayerInv, PageTypes
      <4> QED BY <4>1, <4>2
    <3> QED BY <3>1, <3>2 DEF PageTypes
  <2>15. ASSUME NEW v \in Pages PROVE TokenFits(v)'
    <3>1. CASE v = w
      BY <2>10, <2>11, <3>1 DEF TokenFits
    <3>2. CASE v # w
      BY <2>12, <3>2
    <3> QED BY <3>1, <3>2
  <2>16. OnePageEach'
    <3>1. ASSUME NEW v \in Pages, page'[v].at = "apply"
          PROVE  v # w /\ page[v].at = "apply" /\ page'[v] = page[v] /\ page'[v].stamp = layer'[page'[v].layer].stamp
      <4>1. v # w
        BY <2>10, <2>11, <3>1
      <4>2. page'[v] = page[v]
        BY <2>10, <4>1
      <4> QED BY <2>12, <3>1, <4>1, <4>2
    <3>2. ASSUME NEW u \in Pages, NEW v \in Pages, page'[u].at = "apply", page'[v].at = "apply",
                 page'[u].layer = page'[v].layer
          PROVE  u = v
      BY <3>1, <3>2 DEF LayerInv, OnePageEach
    <3> QED BY <3>1, <3>2 DEF OnePageEach
  <2> QED BY <2>8, <2>9, <2>14, <2>15, <2>16 DEF LayerInv
<1> QED BY <1>4, <1>5

LEMMA LayerSteps ==
  ASSUME ~ Racing
  PROVE  LayerInv /\ [LayerNext]_layerVars => LayerInv'
<1> SUFFICES ASSUME LayerInv, [LayerNext]_layerVars PROVE LayerInv'
  OBVIOUS
<1>1. CASE UNCHANGED layerVars
  BY <1>1 DEF LayerInv, LayersOK, PageTypes, TokenFits, OnePageEach, layerVars
<1>2. CASE \E w \in Pages : StatForPreview(w) \/ Preview(w) \/ Discard(w) \/ StatForApply(w) \/ ApplyPatch(w)
  <2>1. PICK w \in Pages : StatForPreview(w) \/ Preview(w) \/ Discard(w) \/ StatForApply(w) \/ ApplyPatch(w)
    BY <1>2
  <2>2. CASE Discard(w)
    <3>1. page' = [page EXCEPT ![w] = NoPage] /\ UNCHANGED <<layer, current, clock, broken>>
      BY <2>2 DEF Discard, Go
    <3> QED BY <3>1, DropsKeep
  <2> QED BY <2>1, <2>2, StatKeeps, PreviewKeeps, TakeKeeps, ApplyKeeps
<1>3. CASE \E l \in Layers : CliOpen(l) \/ CliWrite(l)
  BY <1>3, CliKeeps
<1>4. CASE \E p \in Projects : Switch(p)
  BY <1>4, SwitchKeeps
<1> QED BY <1>1, <1>2, <1>3, <1>4 DEF LayerNext

(* What is in force. *)
LEMMA OnTopFacts ==
  ASSUME NEW f, NEW g
  PROVE  /\ DOMAIN OnTop(f, g) = DOMAIN f \cup DOMAIN g
         /\ \A n \in DOMAIN f : OnTop(f, g)[n] = f[n]
         /\ \A n \in DOMAIN g : n \notin DOMAIN f => OnTop(f, g)[n] = g[n]
BY DEF OnTop

LEMMA MarkFacts ==
  ASSUME NEW c, NEW source
  PROVE  DOMAIN MarkAll(c, source) = LeavesOf(c) /\ \A l \in LeavesOf(c) : MarkAll(c, source)[l] = source
BY DEF MarkAll

LEMMA LeavesFacts ==
  ASSUME NEW c, WellFormed(c)
  PROVE  /\ c.is \in {"nothing", "leaf", "object"}
         /\ c.is = "nothing" => LeavesOf(c) = {}
         /\ c.is = "leaf" => LeavesOf(c) = {"m"}
         /\ c.is = "object" => LeavesOf(c) = DOMAIN c.of /\ DOMAIN c.of \subseteq Names
<1>1. Nothing.is = "nothing"
  BY DEF Nothing
<1> QED BY <1>1 DEF WellFormed, LeavesOf

(* m is what comes of the layers g and q.                                   *)
Sound(m, g, q) ==
  LET From(s) == IF s = "project" THEN q ELSE g
  IN  /\ DOMAIN m.sources = LeavesOf(m.effective)
      /\ \A l \in LeavesOf(m.effective) :
           l \in LeavesOf(From(m.sources[l])) /\ ValueAt(m.effective, l) = ValueAt(From(m.sources[l]), l)
      /\ \A l \in LeavesOf(q) : m.sources[l] = "project"
      /\ q.is # "leaf" /\ (q.is = "object" => g.is = "object") => LeavesOf(g) \subseteq LeavesOf(m.effective)

LEMMA MergeSound ==
  ASSUME NEW g, NEW q, WellFormed(g), WellFormed(q)
  PROVE  Sound(Merge(g, q), g, q)
<1>1. PICK m : m = Merge(g, q)
  OBVIOUS
<1>2. q.is \in {"nothing", "leaf", "object"}
  BY LeavesFacts
<1>3. CASE q.is = "nothing"
  <2>1. m = [effective |-> g, sources |-> MarkAll(g, "global")]
    BY <1>1, <1>3 DEF Merge
  <2>2. m.effective = g /\ m.sources = MarkAll(g, "global")
    BY <2>1
  <2>3. LeavesOf(q) = {}
    BY <1>3, LeavesFacts
  <2> QED BY <1>1, <2>2, <2>3, MarkFacts DEF Sound
<1>4. CASE q.is = "object" /\ g.is = "object"
  <2>1. m = [effective |-> Obj(OnTop(q.of, g.of)), sources |-> OnTop(MarkAll(q, "project"), MarkAll(g, "global"))]
    BY <1>1, <1>4 DEF Merge
  <2>2. PICK e, s : e = OnTop(q.of, g.of) /\ s = OnTop(MarkAll(q, "project"), MarkAll(g, "global"))
    OBVIOUS
  <2>3. m.effective = Obj(e) /\ m.sources = s /\ Obj(e).is = "object" /\ Obj(e).of = e
    BY <2>1, <2>2 DEF Obj
  <2>4. LeavesOf(q) = DOMAIN q.of /\ LeavesOf(g) = DOMAIN g.of /\ DOMAIN q.of \subseteq Names /\ DOMAIN g.of \subseteq Names
    BY <1>4, LeavesFacts
  <2>5. LeavesOf(Obj(e)) = DOMAIN e
    BY <2>3 DEF LeavesOf
  <2>6. /\ DOMAIN e = DOMAIN q.of \cup DOMAIN g.of
        /\ \A n \in DOMAIN q.of : e[n] = q.of[n]
        /\ \A n \in DOMAIN g.of : n \notin DOMAIN q.of => e[n] = g.of[n]
    <3>1. PICK f, h : f = q.of /\ h = g.of
      OBVIOUS
    <3>2. /\ DOMAIN OnTop(f, h) = DOMAIN f \cup DOMAIN h
          /\ \A n \in DOMAIN f : OnTop(f, h)[n] = f[n]
          /\ \A n \in DOMAIN h : n \notin DOMAIN f => OnTop(f, h)[n] = h[n]
      BY OnTopFacts
    <3> QED BY <2>2, <3>1, <3>2
  <2>7. PICK a, b : a = MarkAll(q, "project") /\ b = MarkAll(g, "global")
    OBVIOUS
  <2>8. /\ DOMAIN a = DOMAIN q.of /\ (\A l \in DOMAIN q.of : a[l] = "project")
        /\ DOMAIN b = DOMAIN g.of /\ (\A l \in DOMAIN g.of : b[l] = "global")
    BY <2>4, <2>7, MarkFacts
  <2>9. /\ DOMAIN s = DOMAIN a \cup DOMAIN b
        /\ \A n \in DOMAIN a : s[n] = a[n]
        /\ \A n \in DOMAIN b : n \notin DOMAIN a => s[n] = b[n]
    <3>1. /\ DOMAIN OnTop(a, b) = DOMAIN a \cup DOMAIN b
          /\ \A n \in DOMAIN a : OnTop(a, b)[n] = a[n]
          /\ \A n \in DOMAIN b : n \notin DOMAIN a => OnTop(a, b)[n] = b[n]
      BY OnTopFacts
    <3> QED BY <2>2, <2>7, <3>1
  <2>10. ASSUME NEW l \in DOMAIN e
         PROVE  /\ l \in LeavesOf(IF s[l] = "project" THEN q ELSE g)
                /\ ValueAt(Obj(e), l) = ValueAt(IF s[l] = "project" THEN q ELSE g, l)
    <3>1. l # "m"
      BY <2>4, <2>6, <2>10 DEF Names
    <3>2. CASE l \in DOMAIN q.of
      <4>1. s[l] = "project" /\ e[l] = q.of[l]
        BY <2>6, <2>8, <2>9, <3>2
      <4> QED BY <2>3, <2>4, <3>1, <3>2, <4>1 DEF ValueAt
    <3>3. CASE l \notin DOMAIN q.of
      <4>1. l \in DOMAIN g.of /\ s[l] = "global" /\ e[l] = g.of[l]
        BY <2>6, <2>8, <2>9, <2>10, <3>3
      <4> QED BY <2>3, <2>4, <3>1, <4>1 DEF ValueAt
    <3> QED BY <3>2, <3>3
  <2>11. (\A l \in LeavesOf(q) : s[l] = "project") /\ DOMAIN s = DOMAIN e
    BY <2>4, <2>6, <2>8, <2>9
  <2>12. LeavesOf(g) \subseteq DOMAIN e
    BY <2>4, <2>6
  <2> QED BY <1>1, <2>3, <2>5, <2>10, <2>11, <2>12 DEF Sound
<1>5. CASE q.is # "nothing" /\ ~ (q.is = "object" /\ g.is = "object")
  <2>1. m = [effective |-> q, sources |-> MarkAll(q, "project")]
    BY <1>1, <1>5 DEF Merge
  <2>2. m.effective = q /\ m.sources = MarkAll(q, "project")
    BY <2>1
  <2>3. ~ (q.is # "leaf" /\ (q.is = "object" => g.is = "object"))
    BY <1>2, <1>5
  <2> QED BY <1>1, <2>2, <2>3, MarkFacts DEF Sound
<1> QED BY <1>3, <1>4, <1>5

LEMMA LayersSound == LayerInv => PatchHonest
<1> SUFFICES ASSUME LayerInv PROVE SavesWhatItShowed /\ EffectiveSound
  BY DEF PatchHonest
<1>1. SavesWhatItShowed
  BY DEF LayerInv, SavesWhatItShowed
<1>2. ASSUME NEW p \in Projects
      PROVE  Sound(Merge(layer["global"].content, layer[p].content), layer["global"].content, layer[p].content)
  <2>1. "global" \in Layers /\ p \in Layers
    BY DEF Layers
  <2>2. WellFormed(layer["global"].content) /\ WellFormed(layer[p].content)
    BY <2>1 DEF LayerInv, LayersOK
  <2> QED BY <2>2, MergeSound
<1>3. EffectiveSound
  BY <1>2 DEF EffectiveSound, Sound
<1> QED BY <1>1, <1>3

(* As long as no file changes while a patch is being applied to it, however *)
(* pages, the command line and the switch of projects alternate, a page     *)
(* with a token saves nothing its preview did not show; and each leaf in    *)
(* force comes from the layer that is named as its source.                  *)
THEOREM PatchKept ==
  ASSUME ~ Racing
  PROVE  LayerInit /\ [][LayerNext]_layerVars => []PatchHonest
<1>1. LayerInit => LayerInv
  BY LayerStart
<1>2. LayerInv /\ [LayerNext]_layerVars => LayerInv'
  BY LayerSteps
<1>3. LayerInv => PatchHonest
  BY LayersSound
<1> QED BY <1>1, <1>2, <1>3, PTL



-----------------------------------------------------------------------------
(* What is made of a command's output: sequences, one element at a time    *)

(* Induction over the numbers, for a set G: what the library's theorem     *)
(* says of a predicate.                                                    *)
LEMMA AllNumbers ==
  ASSUME NEW G, 0 \in G, \A n \in Nat : n \in G => n + 1 \in G
  PROVE  Nat \subseteq G
<1> SUFFICES ASSUME Nat \ G # {} PROVE FALSE
  OBVIOUS
<1>1. PICK n \in Nat \ G : \A m \in Nat \ G : n <= m
  <2>1. Nat \ G \subseteq Nat OBVIOUS
  <2> QED BY <2>1, Least
<1>2. n - 1 \in Nat /\ n - 1 \in G
  <2>1. n # 0 /\ n \in Nat
    BY <1>1
  <2>2. n - 1 \in Nat /\ ~(n <= n - 1)
    BY <2>1
  <2> QED BY <2>2, <1>1
<1>3. (n - 1) + 1 = n
  BY <1>2, <1>1
<1> QED BY <1>1, <1>2, <1>3

(* A sequence that is not empty is one with an element at its end. *)
LEMMA Grown ==
  ASSUME NEW S, NEW s \in Seq(S), s # <<>>
  PROVE  \E t \in Seq(S), x \in S : s = Append(t, x) /\ Len(t) + 1 = Len(s)
<1> DEFINE t == SubSeq(s, 1, Len(s) - 1)
           x == s[Len(s)]
<1>1. Len(s) \in Nat /\ Len(s) >= 1 /\ \A i \in 1 .. Len(s) : s[i] \in S
  BY EmptySeq
<1>2. t \in Seq(S) /\ Len(t) = Len(s) - 1 /\ \A i \in 1 .. Len(s) - 1 : t[i] = s[i]
  <2>1. \A i \in 1 .. Len(s) - 1 : s[i] \in S
    BY <1>1
  <2> DEFINE n == Len(s) - 1
  <2>2. n \in Int /\ 1 \in Int /\ n >= 0 /\ n - 1 + 1 = n
    BY <1>1
  <2> HIDE DEF n
  <2>3. \A i \in 1 .. n : s[i] \in S
    BY <2>1 DEF n
  <2>4. /\ SubSeq(s, 1, n) \in Seq(S) /\ Len(SubSeq(s, 1, n)) = IF 1 <= n THEN n - 1 + 1 ELSE 0
        /\ \A i \in 1 .. n - 1 + 1 : SubSeq(s, 1, n)[i] = s[1 + i - 1]
    BY <2>2, <2>3, SubSeqProperties
  <2>5. Len(SubSeq(s, 1, n)) = n /\ \A i \in 1 .. n : SubSeq(s, 1, n)[i] = s[i]
    BY <2>2, <2>4
  <2> QED BY <2>4, <2>5 DEF n
<1>3. x \in S
  BY <1>1
<1> HIDE DEF t, x
<1>4. Append(t, x) \in Seq(S) /\ Len(Append(t, x)) = Len(s)
  BY <1>1, <1>2, <1>3
<1>5. \A i \in 1 .. Len(s) : Append(t, x)[i] = s[i]
  BY <1>1, <1>2, <1>3 DEF x
<1>6. s = Append(t, x)
  BY <1>4, <1>5, SeqEqual
<1> QED BY <1>1, <1>2, <1>3, <1>6

(* Induction over the sequences of S, in the same form: G holds the empty  *)
(* one and is closed under appending.                                      *)
LEMMA AllSequences ==
  ASSUME NEW S, NEW G, <<>> \in G,
         \A s \in Seq(S), x \in S : s \in G => Append(s, x) \in G
  PROVE  Seq(S) \subseteq G
<1> DEFINE H == {n \in Nat : \A s \in Seq(S) : Len(s) = n => s \in G}
<1>1. 0 \in H
  BY EmptySeq
<1>2. ASSUME NEW n \in Nat, n \in H PROVE n + 1 \in H
  <2> SUFFICES ASSUME NEW s \in Seq(S), Len(s) = n + 1 PROVE s \in G
    OBVIOUS
  <2>1. s # <<>>
    OBVIOUS
  <2>2. PICK t \in Seq(S), x \in S : s = Append(t, x) /\ Len(t) + 1 = Len(s)
    BY <2>1, Grown
  <2>3. Len(t) = n
    BY <2>2
  <2> QED BY <1>2, <2>2, <2>3
<1>3. Nat \subseteq H
  <2> HIDE DEF H
  <2> QED BY <1>1, <1>2, AllNumbers
<1>4. \A s \in Seq(S) : Len(s) \in Nat
  OBVIOUS
<1> QED BY <1>3, <1>4

(* A loop of N turns over a domain D: what each turn makes of what it      *)
(* finds.                                                                  *)
TurnsOf(D, N) == [1 .. N -> [D -> D]]

(* A loop over N things, each turn of which makes one of D of one of D. *)
LEMMA Loops ==
  ASSUME NEW D, NEW first \in D, NEW N \in Nat, NEW turn \in TurnsOf(D, N)
  PROVE  \E f \in [0 .. N -> D] : f[0] = first /\ \A n \in 1 .. N : f[n] = turn[n][f[n - 1]]
<1> USE DEF TurnsOf
<1> DEFINE Upto(n) == {f \in [0 .. n -> D] : f[0] = first /\ \A k \in 1 .. n : f[k] = turn[k][f[k - 1]]}
           G == {n \in Nat : n <= N => Upto(n) # {}}
<1>1. 0 \in G
  <2>1. [k \in 0 .. 0 |-> first] \in Upto(0)
    OBVIOUS
  <2> QED BY <2>1
<1>2. ASSUME NEW n \in Nat, n \in G PROVE n + 1 \in G
  <2> SUFFICES ASSUME n + 1 <= N PROVE Upto(n + 1) # {}
    OBVIOUS
  <2>1. PICK f \in Upto(n) : TRUE
    BY <1>2
  <2>2. f \in [0 .. n -> D] /\ f[0] = first /\ \A k \in 1 .. n : f[k] = turn[k][f[k - 1]]
    BY <2>1
  <2> DEFINE e == turn[n + 1][f[n]]
             g == [k \in 0 .. n + 1 |-> IF k = n + 1 THEN e ELSE f[k]]
  <2>3. e \in D
    <3>1. n + 1 \in 1 .. N /\ f[n] \in D
      BY <2>2
    <3> QED BY <3>1
  <2> HIDE DEF e
  <2>4. g \in [0 .. n + 1 -> D] /\ g[0] = first
    BY <2>2, <2>3
  <2>5. ASSUME NEW k \in 1 .. n + 1 PROVE g[k] = turn[k][g[k - 1]]
    <3>1. CASE k = n + 1
      <4>1. g[k] = e /\ g[k - 1] = f[n]
        BY <3>1
      <4> QED BY <3>1, <4>1 DEF e
    <3>2. CASE k # n + 1
      <4>1. k \in 1 .. n /\ k - 1 \in 0 .. n /\ k - 1 # n + 1
        BY <3>2
      <4>2. g[k] = f[k] /\ g[k - 1] = f[k - 1]
        BY <4>1
      <4> QED BY <2>2, <4>1, <4>2
    <3> QED BY <3>1, <3>2
  <2>6. g \in Upto(n + 1)
    <3> HIDE DEF g
    <3> QED BY <2>4, <2>5
  <2> QED BY <2>6
<1>3. Nat \subseteq G
  <2> HIDE DEF G
  <2> QED BY <1>1, <1>2, AllNumbers
<1> QED BY <1>3

(* f is what such a loop computes, as far as it stays in D; Alike: two     *)
(* loops whose first N turns are the same.                                 *)
Turns(f, D, first, turn, N) ==
  f[0] = first /\ \A n \in 1 .. N : f[n - 1] \in D => f[n] = turn[n][f[n - 1]]

Alike(turn, more, N) == \A n \in 1 .. N : turn[n] = more[n]

(* Two loops that begin with the same N turns have made the same by then. *)
LEMMA LoopsAgree ==
  ASSUME NEW D, NEW first \in D, NEW N \in Nat, NEW M \in Nat, N <= M,
         NEW turn \in TurnsOf(D, N), NEW more \in TurnsOf(D, M),
         Alike(turn, more, N),
         NEW f, Turns(f, D, first, turn, N), NEW g, Turns(g, D, first, more, M)
  PROVE  f[N] \in D /\ g[N] = f[N]
<1> DEFINE H == {n \in Nat : n <= N => f[n] \in D /\ g[n] = f[n]}
<1>1. 0 \in H
  BY DEF Turns
<1>2. ASSUME NEW n \in Nat, n \in H PROVE n + 1 \in H
  <2> SUFFICES ASSUME n + 1 <= N PROVE f[n + 1] \in D /\ g[n + 1] = f[n + 1]
    OBVIOUS
  <2>1. n + 1 \in 1 .. N /\ n + 1 \in 1 .. M /\ (n + 1) - 1 = n /\ f[n] \in D /\ g[n] = f[n]
    BY <1>2
  <2>2. f[n + 1] = turn[n + 1][f[n]] /\ g[n + 1] = more[n + 1][g[n]]
    BY <2>1 DEF Turns
  <2>3. turn[n + 1] = more[n + 1] /\ turn[n + 1] \in [D -> D]
    BY <2>1 DEF Alike, TurnsOf
  <2> QED BY <2>1, <2>2, <2>3
<1>3. Nat \subseteq H
  <2> HIDE DEF H
  <2> QED BY <1>1, <1>2, AllNumbers
<1> QED BY <1>3

(* taken is the loop of Sift over the first N elements. *)
Sifts(taken, s, V, N) ==
  taken = [n \in 0 .. N |-> IF n = 0 THEN <<>>
                            ELSE IF s[n] \in V THEN Append(taken[n - 1], s[n]) ELSE taken[n - 1]]
SiftTurn(S, s, V) ==
  [n \in 1 .. Len(s) |-> [t \in Seq(S) |-> IF s[n] \in V THEN Append(t, s[n]) ELSE t]]

(* Sift is such a loop, and so is each of the recursive functions below.   *)
LEMMA SiftLoops ==
  ASSUME NEW S, NEW s \in Seq(S), NEW V
  PROVE  /\ SiftTurn(S, s, V) \in [1 .. Len(s) -> [Seq(S) -> Seq(S)]]
         /\ \E f : Sift(s, V) = f[Len(s)] /\ Turns(f, Seq(S), <<>>, SiftTurn(S, s, V), Len(s))
<1> DEFINE turn == SiftTurn(S, s, V)
<1>0. Len(s) \in Nat /\ <<>> \in Seq(S) /\ \A n \in 1 .. Len(s) : s[n] \in S
  OBVIOUS
<1>1. turn \in [1 .. Len(s) -> [Seq(S) -> Seq(S)]]
  BY <1>0 DEF SiftTurn
<1>2. \A n \in 1 .. Len(s), t \in Seq(S) : turn[n][t] = IF s[n] \in V THEN Append(t, s[n]) ELSE t
  BY DEF SiftTurn
<1> HIDE DEF turn
<1>3. PICK f \in [0 .. Len(s) -> Seq(S)] : f[0] = <<>> /\ \A n \in 1 .. Len(s) : f[n] = turn[n][f[n - 1]]
  <2> DEFINE D == Seq(S)
             N == Len(s)
             none == <<>>
  <2>1. none \in D /\ N \in Nat /\ turn \in [1 .. N -> [D -> D]]
    BY <1>0, <1>1
  <2>2. \E f \in [0 .. N -> D] : f[0] = none /\ \A n \in 1 .. N : f[n] = turn[n][f[n - 1]]
    <3> HIDE DEF D, N, none
    <3> QED BY <2>1, Loops DEF TurnsOf
  <2> QED BY <2>2
<1>4. Sifts(f, s, V, Len(s))
  <2> SUFFICES ASSUME NEW n \in 0 .. Len(s)
               PROVE  f[n] = IF n = 0 THEN <<>> ELSE IF s[n] \in V THEN Append(f[n - 1], s[n]) ELSE f[n - 1]
    BY <1>3 DEF Sifts
  <2>1. CASE n = 0
    BY <1>3, <2>1
  <2>2. CASE n # 0
    <3>1. n \in 1 .. Len(s) /\ n - 1 \in 0 .. Len(s)
      BY <1>0, <2>2
    <3>2. f[n] = turn[n][f[n - 1]] /\ f[n - 1] \in Seq(S)
      BY <1>3, <3>1
    <3> QED BY <1>2, <2>2, <3>1, <3>2
  <2> QED BY <2>1, <2>2
<1>5. Sifts(CHOOSE g : Sifts(g, s, V, Len(s)), s, V, Len(s))
  BY <1>4
<1>6. Sift(s, V) = (CHOOSE g : Sifts(g, s, V, Len(s)))[Len(s)]
  BY Zenon DEF Sift, Sifts
<1>7. PICK g : Sifts(g, s, V, Len(s)) /\ Sift(s, V) = g[Len(s)]
  BY <1>5, <1>6
<1>8. g[0] = <<>>
  BY <1>0, <1>7 DEF Sifts
<1>9. ASSUME NEW n \in 1 .. Len(s), g[n - 1] \in Seq(S) PROVE g[n] = turn[n][g[n - 1]]
  <2>1. n \in 0 .. Len(s) /\ n # 0
    OBVIOUS
  <2>2. g[n] = IF s[n] \in V THEN Append(g[n - 1], s[n]) ELSE g[n - 1]
    BY <1>7, <2>1 DEF Sifts
  <2> QED BY <1>2, <1>9, <2>2
<1> QED BY <1>1, <1>7, <1>8, <1>9 DEF Turns, turn

(* Sift, one element at a time. *)
Taken(t, V, x) == IF x \in V THEN Append(t, x) ELSE t

(* What Sift makes of one more element.                                    *)
LEMMA SiftStep ==
  ASSUME NEW S, NEW V
  PROVE  /\ Sift(<<>>, V) = <<>>
         /\ \A s \in Seq(S) : Sift(s, V) \in Seq(S)
         /\ \A s \in Seq(S), x \in S :
              Sift(Append(s, x), V) = Taken(Sift(s, V), V, x)
<1>1. Sift(<<>>, V) = <<>>
  <2>1. <<>> \in Seq(S) /\ Len(<<>>) = 0
    OBVIOUS
  <2>2. ASSUME NEW s \in Seq(S), Len(s) = 0 PROVE Sift(s, V) = <<>>
    <3>1. PICK f : Sift(s, V) = f[Len(s)] /\ Turns(f, Seq(S), <<>>, SiftTurn(S, s, V), Len(s))
      BY SiftLoops
    <3> QED BY <2>2, <3>1 DEF Turns
  <2> QED BY <2>1, <2>2
<1>2. ASSUME NEW s \in Seq(S)
      PROVE  /\ Sift(s, V) \in Seq(S)
             /\ \A x \in S : Sift(Append(s, x), V) = Taken(Sift(s, V), V, x)
  <2> DEFINE D == Seq(S)
             none == <<>>
             turn == SiftTurn(S, s, V)
  <2>1. turn \in [1 .. Len(s) -> [D -> D]] /\ none \in D /\ Len(s) \in Nat
    BY SiftLoops
  <2>2. PICK f : Sift(s, V) = f[Len(s)] /\ Turns(f, D, none, turn, Len(s))
    BY SiftLoops
  <2>3. Sift(s, V) \in D
    <3> DEFINE N == Len(s)
    <3>1. N \in Nat /\ N <= N /\ turn \in TurnsOf(D, N) /\ none \in D /\ Turns(f, D, none, turn, N)
      BY <2>1, <2>2 DEF TurnsOf
    <3>2. f[N] \in D
      <4> HIDE DEF D, none, turn, N
      <4>1. Alike(turn, turn, N)
        BY DEF Alike
      <4> QED BY <3>1, <4>1, LoopsAgree
    <3> QED BY <2>2, <3>2
  <2>4. ASSUME NEW x \in S
        PROVE  Sift(Append(s, x), V) = Taken(Sift(s, V), V, x)
    <3> DEFINE t == Append(s, x)
               more == SiftTurn(S, t, V)
    <3>1. /\ t \in Seq(S) /\ Len(t) = Len(s) + 1 /\ Len(s) \in Nat
          /\ t[Len(s) + 1] = x /\ \A n \in 1 .. Len(s) : t[n] = s[n]
      OBVIOUS
    <3> HIDE DEF t
    <3>2. more \in [1 .. Len(t) -> [D -> D]]
      BY <3>1, SiftLoops
    <3>3. PICK g : Sift(t, V) = g[Len(t)] /\ Turns(g, D, none, more, Len(t))
      BY <3>1, SiftLoops
    <3>4. \A n \in 1 .. Len(s) : turn[n] = more[n]
      <4> TAKE n \in 1 .. Len(s)
      <4>1. n \in 1 .. Len(t) /\ t[n] = s[n]
        BY <3>1
      <4>2. more[n] = [u \in Seq(S) |-> IF t[n] \in V THEN Append(u, t[n]) ELSE u]
        BY <4>1 DEF SiftTurn
      <4>3. turn[n] = [u \in Seq(S) |-> IF s[n] \in V THEN Append(u, s[n]) ELSE u]
        BY DEF SiftTurn
      <4> QED BY <4>1, <4>2, <4>3, Zenon
    <3>5. g[Len(s)] = f[Len(s)]
      <4> DEFINE N == Len(s)
                 M == Len(t)
      <4>1. /\ N \in Nat /\ M \in Nat /\ N <= M /\ none \in D
            /\ turn \in TurnsOf(D, N) /\ more \in TurnsOf(D, M)
            /\ Alike(turn, more, N)
            /\ Turns(f, D, none, turn, N) /\ Turns(g, D, none, more, M)
        BY <2>1, <2>2, <3>1, <3>2, <3>3, <3>4 DEF Alike, TurnsOf
      <4> HIDE DEF D, none, turn, more, N, M
      <4>2. g[N] = f[N]
        BY <4>1, LoopsAgree
      <4> QED BY <4>2 DEF N
    <3>6. g[Len(t)] = more[Len(t)][g[Len(s)]]
      <4>1. Len(t) \in 1 .. Len(t) /\ Len(t) - 1 = Len(s) /\ g[Len(s)] \in D
        BY <3>1, <2>2, <2>3, <3>5
      <4> QED BY <3>3, <4>1 DEF Turns
    <3>7. more[Len(t)][Sift(s, V)] = Taken(Sift(s, V), V, x)
      BY <2>3, <3>1 DEF SiftTurn, Taken
    <3> QED BY <2>2, <3>3, <3>5, <3>6, <3>7 DEF t
  <2> QED BY <2>3, <2>4
<1> QED BY <1>1, <1>2

(* The loop of Text. *)
Wide(S) == \A x \in S : x.width \in Nat
Texts(to, s, N) ==
  to = [i \in 0 .. N |-> IF i = 0 THEN 0 ELSE to[i - 1] + s[i].width + 1]
TextTurn(s) ==
  [n \in 1 .. Len(s) |-> [t \in Nat |-> t + s[n].width + 1]]

(* Text, the bytes of some lines, is a loop over numbers.                  *)
LEMMA TextLoops ==
  ASSUME NEW S, Wide(S), NEW s \in Seq(S)
  PROVE  /\ TextTurn(s) \in TurnsOf(Nat, Len(s))
         /\ \E f : Text(s) = f[Len(s)] /\ Turns(f, Nat, 0, TextTurn(s), Len(s))
<1> DEFINE D == Nat
           N == Len(s)
           first == 0
           turn == TextTurn(s)
<1>0. N \in Nat /\ first \in D /\ \A n \in 1 .. N : s[n] \in S
  OBVIOUS
<1>1. \A n \in 1 .. N, t \in D : t + s[n].width + 1 \in D
  BY <1>0 DEF Wide
<1>2. turn \in [1 .. N -> [D -> D]] /\ \A n \in 1 .. N, t \in D : turn[n][t] = t + s[n].width + 1
  BY <1>1 DEF TextTurn
<1> HIDE DEF D, turn, first, N
<1>3. PICK f \in [0 .. N -> D] : f[0] = first /\ \A n \in 1 .. N : f[n] = turn[n][f[n - 1]]
  <2>1. turn \in TurnsOf(D, N)
    BY <1>2 DEF TurnsOf
  <2>2. N \in Nat /\ first \in D
    BY <1>0
  <2> QED BY <2>1, <2>2, Loops
<1>4. Texts(f, s, N)
  <2> SUFFICES ASSUME NEW n \in 0 .. N
               PROVE  f[n] = IF n = 0 THEN 0 ELSE f[n - 1] + s[n].width + 1
    BY <1>3, Zenon DEF Texts
  <2>1. CASE n = 0
    BY <1>3, <2>1 DEF first
  <2>2. CASE n # 0
    <3>1. n \in 1 .. N /\ n - 1 \in 0 .. N
      BY <1>0, <2>2
    <3>2. f[n] = turn[n][f[n - 1]] /\ f[n - 1] \in D
      BY <1>3, <3>1
    <3> QED BY <1>2, <2>2, <3>1, <3>2
  <2> QED BY <2>1, <2>2
<1>5. Texts(CHOOSE g : Texts(g, s, N), s, N)
  BY <1>4
<1>6. Text(s) = (CHOOSE g : Texts(g, s, N))[N]
  BY Zenon DEF Text, Texts, N
<1>7. PICK g : Texts(g, s, N) /\ Text(s) = g[N]
  BY <1>5, <1>6
<1>8. g[0] = first
  BY <1>0, <1>7 DEF Texts, first
<1>9. ASSUME NEW n \in 1 .. N, g[n - 1] \in D PROVE g[n] = turn[n][g[n - 1]]
  <2>1. n \in 0 .. N /\ n # 0
    OBVIOUS
  <2>2. g[n] = g[n - 1] + s[n].width + 1
    BY <1>7, <2>1 DEF Texts
  <2> QED BY <1>2, <1>9, <2>2
<1> QED BY <1>2, <1>7, <1>8, <1>9 DEF Turns, TurnsOf, turn, D, first, N

(* Text, one line at a time. *)
LEMMA TextStep ==
  ASSUME NEW S, Wide(S)
  PROVE  /\ Text(<<>>) = 0
         /\ \A s \in Seq(S) : Text(s) \in Nat
         /\ \A s \in Seq(S), x \in S : Text(Append(s, x)) = Text(s) + x.width + 1
<1>1. Text(<<>>) = 0
  <2>1. <<>> \in Seq(S) /\ Len(<<>>) = 0
    OBVIOUS
  <2>2. ASSUME NEW s \in Seq(S), Len(s) = 0 PROVE Text(s) = 0
    <3>1. PICK f : Text(s) = f[Len(s)] /\ Turns(f, Nat, 0, TextTurn(s), Len(s))
      BY TextLoops
    <3> QED BY <2>2, <3>1 DEF Turns
  <2> QED BY <2>1, <2>2
<1>2. ASSUME NEW s \in Seq(S)
      PROVE  /\ Text(s) \in Nat
             /\ \A x \in S : Text(Append(s, x)) = Text(s) + x.width + 1
  <2> DEFINE D == Nat
             none == 0
             turn == TextTurn(s)
             N == Len(s)
  <2>1. turn \in TurnsOf(D, N) /\ none \in D /\ N \in Nat /\ N <= N /\ Alike(turn, turn, N)
    BY TextLoops DEF Alike
  <2>2. PICK f : Text(s) = f[N] /\ Turns(f, D, none, turn, N)
    BY TextLoops
  <2>3. Text(s) \in D
    <3>1. f[N] \in D
      <4> HIDE DEF D, none, turn, N
      <4> QED BY <2>1, <2>2, LoopsAgree
    <3> QED BY <2>2, <3>1
  <2>4. ASSUME NEW x \in S PROVE Text(Append(s, x)) = Text(s) + x.width + 1
    <3> DEFINE t == Append(s, x)
               more == TextTurn(t)
               M == Len(t)
    <3>1. /\ t \in Seq(S) /\ Len(t) = Len(s) + 1 /\ Len(s) \in Nat
          /\ t[Len(s) + 1] = x /\ \A n \in 1 .. Len(s) : t[n] = s[n]
      OBVIOUS
    <3> HIDE DEF t
    <3>2. more \in TurnsOf(D, M)
      BY <3>1, TextLoops
    <3>3. PICK g : Text(t) = g[M] /\ Turns(g, D, none, more, M)
      BY <3>1, TextLoops
    <3>4. ASSUME NEW n \in 1 .. N PROVE turn[n] = more[n]
      <4>1. n \in 1 .. Len(t) /\ t[n] = s[n]
        BY <3>1
      <4>2. more[n] = [u \in D |-> u + t[n].width + 1]
        BY <4>1 DEF TextTurn
      <4>3. turn[n] = [u \in D |-> u + s[n].width + 1]
        BY DEF TextTurn
      <4> QED BY <4>1, <4>2, <4>3, Zenon
    <3>5. g[N] = f[N]
      <4>1. M \in Nat /\ N <= M /\ Alike(turn, more, N)
        BY <3>1, <3>4 DEF Alike
      <4> HIDE DEF D, none, turn, more, N, M
      <4> QED BY <2>1, <2>2, <3>2, <3>3, <4>1, LoopsAgree
    <3>6. g[M] = more[M][g[N]]
      <4>1. M \in 1 .. M /\ M - 1 = N /\ g[N] \in D
        BY <3>1, <2>2, <2>3, <3>5
      <4> QED BY <3>3, <4>1 DEF Turns
    <3>7. more[M][Text(s)] = Text(s) + x.width + 1
      <4>1. M \in 1 .. M /\ t[M] = x
        BY <3>1
      <4> QED BY <2>3, <4>1 DEF TextTurn
    <3> QED BY <2>2, <3>3, <3>5, <3>6, <3>7 DEF t
  <2> QED BY <2>3, <2>4
<1> QED BY <1>1, <1>2

(* A line added to the runs of equal lines gives runs.                     *)
LEMMA TalliedType ==
  ASSUME NEW S, NEW x \in S, NEW runs \in Seq([line : S, n : Nat])
  PROVE  Tallied(runs, x) \in Seq([line : S, n : Nat])
<1>1. CASE runs # <<>> /\ Last(runs).line = x
  <2>0. Len(runs) \in Nat /\ Len(runs) # 0
    BY <1>1
  <2>1. Len(runs) \in 1 .. Len(runs) /\ runs[Len(runs)] \in [line : S, n : Nat]
    <3> DEFINE R == [line : S, n : Nat]
    <3>1. runs \in Seq(R) /\ Len(runs) \in 1 .. Len(runs)
      BY <2>0
    <3>2. runs[Len(runs)] \in R
      <4> HIDE DEF R
      <4> QED BY <3>1
    <3> QED BY <3>1, <3>2
  <2> DEFINE e == [runs[Len(runs)] EXCEPT !.n = @ + 1]
  <2>2. e \in [line : S, n : Nat]
    BY <2>1
  <2>3. Tallied(runs, x) = [runs EXCEPT ![Len(runs)] = e]
    BY <1>1, <2>1 DEF Tallied
  <2> QED BY <2>1, <2>2, <2>3, ExceptSeq
<1>2. CASE ~ (runs # <<>> /\ Last(runs).line = x)
  <2>1. [line |-> x, n |-> 1] \in [line : S, n : Nat]
    OBVIOUS
  <2>2. Tallied(runs, x) = Append(runs, [line |-> x, n |-> 1])
    BY <1>2 DEF Tallied
  <2> QED BY <2>1, <2>2
<1> QED BY <1>1, <1>2

(* The loop of Runs. *)
RunsUpto(runs, s, N) ==
  runs = [n \in 0 .. N |-> IF n = 0 THEN <<>> ELSE Tallied(runs[n - 1], s[n])]
RunTurn(S, s) ==
  [n \in 1 .. Len(s) |-> [t \in Seq([line : S, n : Nat]) |-> Tallied(t, s[n])]]

(* Runs is a loop over runs.                                               *)
LEMMA RunLoops ==
  ASSUME NEW S, NEW s \in Seq(S)
  PROVE  /\ RunTurn(S, s) \in TurnsOf(Seq([line : S, n : Nat]), Len(s))
         /\ \E f : Runs(s) = f[Len(s)] /\ Turns(f, Seq([line : S, n : Nat]), <<>>, RunTurn(S, s), Len(s))
<1> DEFINE D == Seq([line : S, n : Nat])
           N == Len(s)
           first == <<>>
           turn == RunTurn(S, s)
<1>0. N \in Nat /\ first \in D /\ \A n \in 1 .. N : s[n] \in S
  OBVIOUS
<1>1. \A n \in 1 .. N, t \in D : Tallied(t, s[n]) \in D
  BY <1>0, TalliedType
<1>2. turn \in [1 .. N -> [D -> D]] /\ \A n \in 1 .. N, t \in D : turn[n][t] = Tallied(t, s[n])
  BY <1>1 DEF RunTurn
<1> HIDE DEF D, turn, first, N
<1>3. PICK f \in [0 .. N -> D] : f[0] = first /\ \A n \in 1 .. N : f[n] = turn[n][f[n - 1]]
  <2>1. turn \in TurnsOf(D, N)
    BY <1>2 DEF TurnsOf
  <2>2. N \in Nat /\ first \in D
    BY <1>0
  <2> QED BY <2>1, <2>2, Loops
<1>4. RunsUpto(f, s, N)
  <2> SUFFICES ASSUME NEW n \in 0 .. N
               PROVE  f[n] = IF n = 0 THEN <<>> ELSE Tallied(f[n - 1], s[n])
    BY <1>3, Zenon DEF RunsUpto
  <2>1. CASE n = 0
    BY <1>3, <2>1 DEF first
  <2>2. CASE n # 0
    <3>1. n \in 1 .. N /\ n - 1 \in 0 .. N
      BY <1>0, <2>2
    <3>2. f[n] = turn[n][f[n - 1]] /\ f[n - 1] \in D
      BY <1>3, <3>1
    <3> QED BY <1>2, <2>2, <3>1, <3>2
  <2> QED BY <2>1, <2>2
<1>5. RunsUpto(CHOOSE g : RunsUpto(g, s, N), s, N)
  BY <1>4
<1>6. Runs(s) = (CHOOSE g : RunsUpto(g, s, N))[N]
  BY Zenon DEF Runs, RunsUpto, N
<1>7. PICK g : RunsUpto(g, s, N) /\ Runs(s) = g[N]
  BY <1>5, <1>6
<1>8. g[0] = first
  BY <1>0, <1>7 DEF RunsUpto, first
<1>9. ASSUME NEW n \in 1 .. N, g[n - 1] \in D PROVE g[n] = turn[n][g[n - 1]]
  <2>1. n \in 0 .. N /\ n # 0
    OBVIOUS
  <2>2. g[n] = Tallied(g[n - 1], s[n])
    BY <1>7, <2>1 DEF RunsUpto
  <2> QED BY <1>2, <1>9, <2>2
<1> QED BY <1>2, <1>7, <1>8, <1>9 DEF Turns, TurnsOf, turn, D, first, N

(* Runs, one line at a time. *)
LEMMA RunStep ==
  ASSUME NEW S
  PROVE  /\ Runs(<<>>) = <<>>
         /\ \A s \in Seq(S) : Runs(s) \in Seq([line : S, n : Nat])
         /\ \A s \in Seq(S), x \in S : Runs(Append(s, x)) = Tallied(Runs(s), x)
<1>1. Runs(<<>>) = <<>>
  <2>1. <<>> \in Seq(S) /\ Len(<<>>) = 0
    OBVIOUS
  <2>2. ASSUME NEW s \in Seq(S), Len(s) = 0 PROVE Runs(s) = <<>>
    <3>1. PICK f : Runs(s) = f[Len(s)] /\ Turns(f, Seq([line : S, n : Nat]), <<>>, RunTurn(S, s), Len(s))
      BY RunLoops
    <3> QED BY <2>2, <3>1 DEF Turns
  <2> QED BY <2>1, <2>2
<1>2. ASSUME NEW s \in Seq(S)
      PROVE  /\ Runs(s) \in Seq([line : S, n : Nat])
             /\ \A x \in S : Runs(Append(s, x)) = Tallied(Runs(s), x)
  <2> DEFINE D == Seq([line : S, n : Nat])
             none == <<>>
             turn == RunTurn(S, s)
             N == Len(s)
  <2>1. turn \in TurnsOf(D, N) /\ none \in D /\ N \in Nat /\ N <= N /\ Alike(turn, turn, N)
    BY RunLoops DEF Alike
  <2>2. PICK f : Runs(s) = f[N] /\ Turns(f, D, none, turn, N)
    BY RunLoops
  <2>3. Runs(s) \in D
    <3>1. f[N] \in D
      <4> HIDE DEF D, none, turn, N
      <4> QED BY <2>1, <2>2, LoopsAgree
    <3> QED BY <2>2, <3>1
  <2>4. ASSUME NEW x \in S PROVE Runs(Append(s, x)) = Tallied(Runs(s), x)
    <3> DEFINE t == Append(s, x)
               more == RunTurn(S, t)
               M == Len(t)
    <3>1. /\ t \in Seq(S) /\ Len(t) = Len(s) + 1 /\ Len(s) \in Nat
          /\ t[Len(s) + 1] = x /\ \A n \in 1 .. Len(s) : t[n] = s[n]
      OBVIOUS
    <3> HIDE DEF t
    <3>2. more \in TurnsOf(D, M)
      BY <3>1, RunLoops
    <3>3. PICK g : Runs(t) = g[M] /\ Turns(g, D, none, more, M)
      BY <3>1, RunLoops
    <3>4. ASSUME NEW n \in 1 .. N PROVE turn[n] = more[n]
      <4>1. n \in 1 .. Len(t) /\ t[n] = s[n]
        BY <3>1
      <4>2. more[n] = [u \in D |-> Tallied(u, t[n])]
        BY <4>1 DEF RunTurn
      <4>3. turn[n] = [u \in D |-> Tallied(u, s[n])]
        BY DEF RunTurn
      <4> QED BY <4>1, <4>2, <4>3, Zenon
    <3>5. g[N] = f[N]
      <4>1. M \in Nat /\ N <= M /\ Alike(turn, more, N)
        BY <3>1, <3>4 DEF Alike
      <4> HIDE DEF D, none, turn, more, N, M
      <4> QED BY <2>1, <2>2, <3>2, <3>3, <4>1, LoopsAgree
    <3>6. g[M] = more[M][g[N]]
      <4>1. M \in 1 .. M /\ M - 1 = N /\ g[N] \in D
        BY <3>1, <2>2, <2>3, <3>5
      <4> QED BY <3>3, <4>1 DEF Turns
    <3>7. more[M][Runs(s)] = Tallied(Runs(s), x)
      <4>1. M \in 1 .. M /\ t[M] = x
        BY <3>1
      <4> QED BY <2>3, <4>1 DEF RunTurn
    <3> QED BY <2>2, <3>3, <3>5, <3>6, <3>7 DEF t
  <2> QED BY <2>3, <2>4
<1> QED BY <1>1, <1>2

(* The loop of Pick. *)
Chosen(S) == {<<>>} \cup {<<h>> : h \in S}
Picks(best, s, cmd, sub, N) ==
  best = [n \in 0 .. N |-> IF n = 0 THEN <<>> ELSE Challenge(best[n - 1], s[n], cmd, sub)]
PickTurn(S, s, cmd, sub) ==
  [n \in 1 .. Len(s) |-> [t \in Chosen(S) |-> Challenge(t, s[n], cmd, sub)]]

(* Pick is a loop over no handler or one.                                  *)
LEMMA PickLoops ==
  ASSUME NEW S, NEW cmd, NEW sub, NEW s \in Seq(S)
  PROVE  /\ PickTurn(S, s, cmd, sub) \in TurnsOf(Chosen(S), Len(s))
         /\ \E f : Pick(s, cmd, sub) = f[Len(s)] /\ Turns(f, Chosen(S), <<>>, PickTurn(S, s, cmd, sub), Len(s))
<1> DEFINE D == Chosen(S)
           N == Len(s)
           first == <<>>
           turn == PickTurn(S, s, cmd, sub)
<1>0. N \in Nat /\ first \in D /\ \A n \in 1 .. N : s[n] \in S
  BY DEF Chosen
<1>1. \A n \in 1 .. N, t \in D : Challenge(t, s[n], cmd, sub) \in D
  BY <1>0 DEF Challenge, Chosen
<1>2. turn \in [1 .. N -> [D -> D]] /\ \A n \in 1 .. N, t \in D : turn[n][t] = Challenge(t, s[n], cmd, sub)
  BY <1>1 DEF PickTurn
<1> HIDE DEF D, turn, first, N
<1>3. PICK f \in [0 .. N -> D] : f[0] = first /\ \A n \in 1 .. N : f[n] = turn[n][f[n - 1]]
  <2>1. turn \in TurnsOf(D, N)
    BY <1>2 DEF TurnsOf
  <2>2. N \in Nat /\ first \in D
    BY <1>0
  <2> QED BY <2>1, <2>2, Loops
<1>4. Picks(f, s, cmd, sub, N)
  <2> SUFFICES ASSUME NEW n \in 0 .. N
               PROVE  f[n] = IF n = 0 THEN <<>> ELSE Challenge(f[n - 1], s[n], cmd, sub)
    BY <1>3, Zenon DEF Picks
  <2>1. CASE n = 0
    BY <1>3, <2>1 DEF first
  <2>2. CASE n # 0
    <3>1. n \in 1 .. N /\ n - 1 \in 0 .. N
      BY <1>0, <2>2
    <3>2. f[n] = turn[n][f[n - 1]] /\ f[n - 1] \in D
      BY <1>3, <3>1
    <3> QED BY <1>2, <2>2, <3>1, <3>2
  <2> QED BY <2>1, <2>2
<1>5. Picks(CHOOSE g : Picks(g, s, cmd, sub, N), s, cmd, sub, N)
  BY <1>4
<1>6. Pick(s, cmd, sub) = (CHOOSE g : Picks(g, s, cmd, sub, N))[N]
  BY Zenon DEF Pick, Picks, N
<1>7. PICK g : Picks(g, s, cmd, sub, N) /\ Pick(s, cmd, sub) = g[N]
  BY <1>5, <1>6
<1>8. g[0] = first
  BY <1>0, <1>7 DEF Picks, first
<1>9. ASSUME NEW n \in 1 .. N, g[n - 1] \in D PROVE g[n] = turn[n][g[n - 1]]
  <2>1. n \in 0 .. N /\ n # 0
    OBVIOUS
  <2>2. g[n] = Challenge(g[n - 1], s[n], cmd, sub)
    BY <1>7, <2>1 DEF Picks
  <2> QED BY <1>2, <1>9, <2>2
<1> QED BY <1>2, <1>7, <1>8, <1>9 DEF Turns, TurnsOf, turn, D, first, N

(* Without handlers none is picked.                                        *)
LEMMA PickEmpty == \A cmd, sub : Pick(<<>>, cmd, sub) = <<>>
<1> TAKE cmd, sub
<1>1. <<>> \in Seq({}) /\ Len(<<>>) = 0
  OBVIOUS
<1>2. ASSUME NEW s \in Seq({}), Len(s) = 0 PROVE Pick(s, cmd, sub) = <<>>
  <2>1. PICK f : Pick(s, cmd, sub) = f[Len(s)] /\ Turns(f, Chosen({}), <<>>, PickTurn({}, s, cmd, sub), Len(s))
    BY PickLoops
  <2> QED BY <1>2, <2>1 DEF Turns
<1> QED BY <1>1, <1>2

(* Pick, one handler at a time. *)
PickSteps(S, cmd, sub) ==
  \A s \in Seq(S) :
    /\ Pick(s, cmd, sub) \in Chosen(S)
    /\ \A x \in S : Pick(Append(s, x), cmd, sub) = Challenge(Pick(s, cmd, sub), x, cmd, sub)

(* One more handler challenges the one picked so far.                      *)
LEMMA PickStep == \A S, cmd, sub : PickSteps(S, cmd, sub)
<1> TAKE S, cmd, sub
<1> SUFFICES ASSUME NEW s \in Seq(S)
             PROVE  /\ Pick(s, cmd, sub) \in Chosen(S)
                    /\ \A x \in S : Pick(Append(s, x), cmd, sub) = Challenge(Pick(s, cmd, sub), x, cmd, sub)
  BY DEF PickSteps
<1> DEFINE D == Chosen(S)
           none == <<>>
           turn == PickTurn(S, s, cmd, sub)
           N == Len(s)
<1>1. turn \in TurnsOf(D, N) /\ none \in D /\ N \in Nat /\ N <= N /\ Alike(turn, turn, N)
  BY PickLoops DEF Alike, Chosen
<1>2. PICK f : Pick(s, cmd, sub) = f[N] /\ Turns(f, D, none, turn, N)
  BY PickLoops
<1>3. Pick(s, cmd, sub) \in D
  <2>1. f[N] \in D
    <3> HIDE DEF D, none, turn, N
    <3> QED BY <1>1, <1>2, LoopsAgree
  <2> QED BY <1>2, <2>1
<1>4. ASSUME NEW x \in S PROVE Pick(Append(s, x), cmd, sub) = Challenge(Pick(s, cmd, sub), x, cmd, sub)
  <2> DEFINE t == Append(s, x)
             more == PickTurn(S, t, cmd, sub)
             M == Len(t)
  <2>1. /\ t \in Seq(S) /\ Len(t) = Len(s) + 1 /\ Len(s) \in Nat
        /\ t[Len(s) + 1] = x /\ \A n \in 1 .. Len(s) : t[n] = s[n]
    OBVIOUS
  <2> HIDE DEF t
  <2>2. more \in TurnsOf(D, M)
    BY <2>1, PickLoops
  <2>3. PICK g : Pick(t, cmd, sub) = g[M] /\ Turns(g, D, none, more, M)
    BY <2>1, PickLoops
  <2>4. ASSUME NEW n \in 1 .. N PROVE turn[n] = more[n]
    <3>1. n \in 1 .. Len(t) /\ t[n] = s[n]
      BY <2>1
    <3>2. more[n] = [u \in D |-> Challenge(u, t[n], cmd, sub)]
      BY <3>1 DEF PickTurn
    <3>3. turn[n] = [u \in D |-> Challenge(u, s[n], cmd, sub)]
      BY DEF PickTurn
    <3> QED BY <3>1, <3>2, <3>3, Zenon
  <2>5. g[N] = f[N]
    <3>1. M \in Nat /\ N <= M /\ Alike(turn, more, N)
      BY <2>1, <2>4 DEF Alike
    <3> HIDE DEF D, none, turn, more, N, M
    <3> QED BY <1>1, <1>2, <2>2, <2>3, <3>1, LoopsAgree
  <2>6. g[M] = more[M][g[N]]
    <3>1. M \in 1 .. M /\ M - 1 = N /\ g[N] \in D
      BY <2>1, <1>2, <1>3, <2>5
    <3> QED BY <2>3, <3>1 DEF Turns
  <2>7. more[M][Pick(s, cmd, sub)] = Challenge(Pick(s, cmd, sub), x, cmd, sub)
    <3>1. M \in 1 .. M /\ t[M] = x
      BY <2>1
    <3> QED BY <1>3, <3>1 DEF PickTurn
  <2> QED BY <1>2, <2>3, <2>5, <2>6, <2>7 DEF t
<1> QED BY <1>3, <1>4

-----------------------------------------------------------------------------
(* What Sift takes.                                                         *)
LEMMA SiftTyped ==
  ASSUME NEW S, NEW V, NEW s \in Seq(S)
  PROVE  Sift(s, V) \in Seq(S)
BY SiftStep

(* Nothing is sifted from nothing.                                         *)
LEMMA SiftEmpty == \A V : Sift(<<>>, V) = <<>>
BY SiftStep

(* SiftStep for an element that is in V, and for one that is not.          *)
LEMMA SiftAppend ==
  ASSUME NEW S, NEW V, NEW s \in Seq(S), NEW x \in S
  PROVE  /\ x \in V => Sift(Append(s, x), V) = Append(Sift(s, V), x)
         /\ x \notin V => Sift(Append(s, x), V) = Sift(s, V)
<1>1. Sift(Append(s, x), V) = Taken(Sift(s, V), V, x)
  <2>1. \A t \in Seq(S), y \in S : Sift(Append(t, y), V) = Taken(Sift(t, V), V, y)
    BY SiftStep, Zenon
  <2> QED BY <2>1
<1> QED BY <1>1 DEF Taken

(* The elements of a sequence, one at a time.                              *)
LEMMA RangeStep ==
  ASSUME NEW S
  PROVE  /\ Range(<<>>) = {}
         /\ \A s \in Seq(S), x \in S : Range(Append(s, x)) = Range(s) \cup {x}
         /\ \A s \in Seq(S) : Range(s) \subseteq S /\ \A i \in 1 .. Len(s) : s[i] \in Range(s)
<1>1. ASSUME NEW s \in Seq(S), NEW x \in S PROVE Range(Append(s, x)) = Range(s) \cup {x}
  <2>1. /\ Len(s) \in Nat /\ DOMAIN Append(s, x) = 1 .. Len(s) + 1 /\ DOMAIN s = 1 .. Len(s)
        /\ \A i \in 1 .. Len(s) : Append(s, x)[i] = s[i]
        /\ Append(s, x)[Len(s) + 1] = x
    OBVIOUS
  <2>2. \A i \in 1 .. Len(s) + 1 : i \in 1 .. Len(s) \/ i = Len(s) + 1
    BY <2>1
  <2>3. Len(s) + 1 \in 1 .. Len(s) + 1 /\ 1 .. Len(s) \subseteq 1 .. Len(s) + 1
    BY <2>1
  <2> QED BY <2>1, <2>2, <2>3 DEF Range
<1>2. Range(<<>>) = {}
  BY DEF Range
<1>3. ASSUME NEW s \in Seq(S) PROVE Range(s) \subseteq S /\ \A i \in 1 .. Len(s) : s[i] \in Range(s)
  <2>1. DOMAIN s = 1 .. Len(s) /\ \A i \in 1 .. Len(s) : s[i] \in S
    OBVIOUS
  <2> QED BY <2>1 DEF Range
<1> QED BY <1>1, <1>2, <1>3

(* What is sifted are the elements in V.                                   *)
LEMMA SiftRange ==
  ASSUME NEW S, NEW V, NEW s \in Seq(S)
  PROVE  Range(Sift(s, V)) = Range(s) \cap V
<1> DEFINE G == {t \in Seq(S) : Range(Sift(t, V)) = Range(t) \cap V}
<1>1. <<>> \in G
  BY SiftEmpty, RangeStep
<1>2. ASSUME NEW t \in Seq(S), NEW x \in S, t \in G PROVE Append(t, x) \in G
  <2>1. Append(t, x) \in Seq(S) /\ Range(Append(t, x)) = Range(t) \cup {x}
    BY RangeStep
  <2>2. /\ Sift(t, V) \in Seq(S) /\ Range(Sift(t, V)) = Range(t) \cap V
        /\ x \in V => Sift(Append(t, x), V) = Append(Sift(t, V), x)
        /\ x \notin V => Sift(Append(t, x), V) = Sift(t, V)
    BY <1>2, SiftTyped, SiftAppend
  <2>3. Range(Append(Sift(t, V), x)) = Range(Sift(t, V)) \cup {x}
    BY <2>2, RangeStep
  <2> QED BY <2>1, <2>2, <2>3
<1>3. Seq(S) \subseteq G
  <2> HIDE DEF G
  <2> QED BY <1>1, <1>2, AllSequences
<1> QED BY <1>3

(* Two sets that hold the same of a sequence. *)
LEMMA SiftSame ==
  ASSUME NEW S, NEW V, NEW W, NEW s \in Seq(S), \A i \in 1 .. Len(s) : s[i] \in V <=> s[i] \in W
  PROVE  Sift(s, V) = Sift(s, W)
<1> DEFINE Same(t) == \A i \in 1 .. Len(t) : t[i] \in V <=> t[i] \in W
           G == {t \in Seq(S) : Same(t) => Sift(t, V) = Sift(t, W)}
<1>1. <<>> \in G
  BY SiftEmpty
<1>2. ASSUME NEW t \in Seq(S), NEW x \in S, t \in G PROVE Append(t, x) \in G
  <2>0. Append(t, x) \in Seq(S)
    OBVIOUS
  <2> HIDE DEF Same
  <2> SUFFICES ASSUME Same(Append(t, x)) PROVE Sift(Append(t, x), V) = Sift(Append(t, x), W)
    BY <2>0
  <2> USE DEF Same
  <2>1. /\ Len(t) \in Nat /\ Len(Append(t, x)) = Len(t) + 1 /\ Append(t, x)[Len(t) + 1] = x
        /\ \A i \in 1 .. Len(t) : Append(t, x)[i] = t[i]
    OBVIOUS
  <2>2. Same(t)
    <3> TAKE i \in 1 .. Len(t)
    <3>1. i \in 1 .. Len(Append(t, x))
      BY <2>1
    <3> QED BY <2>1, <3>1
  <2>3. x \in V <=> x \in W
    <3>1. Len(t) + 1 \in 1 .. Len(Append(t, x))
      BY <2>1
    <3> QED BY <2>1, <3>1
  <2>4. Sift(t, V) = Sift(t, W)
    BY <1>2, <2>2
  <2> HIDE DEF Same
  <2>5. CASE x \in V
    <3>1. Sift(Append(t, x), V) = Append(Sift(t, V), x) /\ Sift(Append(t, x), W) = Append(Sift(t, W), x)
      BY <2>3, <2>5, SiftAppend
    <3> QED BY <2>4, <3>1
  <2>6. CASE x \notin V
    <3>1. Sift(Append(t, x), V) = Sift(t, V) /\ Sift(Append(t, x), W) = Sift(t, W)
      BY <2>3, <2>6, SiftAppend
    <3> QED BY <2>4, <3>1
  <2> QED BY <2>5, <2>6
<1>3. Seq(S) \subseteq G
  <2> HIDE DEF G
  <2> QED BY <1>1, <1>2, AllSequences
<1> QED BY <1>3

(* To sift by V, then by W, is to sift by both.                            *)
LEMMA SiftTwice ==
  ASSUME NEW S, NEW V, NEW W, NEW s \in Seq(S)
  PROVE  Sift(Sift(s, V), W) = Sift(s, V \cap W)
<1> DEFINE G == {t \in Seq(S) : Sift(Sift(t, V), W) = Sift(t, V \cap W)}
<1>1. <<>> \in G
  BY SiftEmpty
<1>2. ASSUME NEW t \in Seq(S), NEW x \in S, t \in G PROVE Append(t, x) \in G
  <2>1. Sift(t, V) \in Seq(S) /\ Sift(Sift(t, V), W) = Sift(t, V \cap W)
    BY <1>2, SiftTyped
  <2>2. /\ x \in V => Sift(Append(t, x), V) = Append(Sift(t, V), x)
        /\ x \notin V => Sift(Append(t, x), V) = Sift(t, V)
    BY SiftAppend
  <2>3. /\ x \in W => Sift(Append(Sift(t, V), x), W) = Append(Sift(Sift(t, V), W), x)
        /\ x \notin W => Sift(Append(Sift(t, V), x), W) = Sift(Sift(t, V), W)
    <3> DEFINE u == Sift(t, V)
    <3>1. u \in Seq(S)
      BY <2>1
    <3> HIDE DEF u
    <3>2. /\ x \in W => Sift(Append(u, x), W) = Append(Sift(u, W), x)
          /\ x \notin W => Sift(Append(u, x), W) = Sift(u, W)
      BY <3>1, SiftAppend
    <3> QED BY <3>2 DEF u
  <2>4. /\ x \in V \cap W => Sift(Append(t, x), V \cap W) = Append(Sift(t, V \cap W), x)
        /\ x \notin V \cap W => Sift(Append(t, x), V \cap W) = Sift(t, V \cap W)
    BY SiftAppend
  <2>5. Sift(Sift(Append(t, x), V), W) = Sift(Append(t, x), V \cap W)
    <3>1. CASE x \in V /\ x \in W
      BY <2>1, <2>2, <2>3, <2>4, <3>1
    <3>2. CASE x \in V /\ x \notin W
      BY <2>1, <2>2, <2>3, <2>4, <3>2
    <3>3. CASE x \notin V
      BY <2>1, <2>2, <2>4, <3>3
    <3> QED BY <3>1, <3>2, <3>3
  <2>6. Append(t, x) \in Seq(S)
    OBVIOUS
  <2> QED BY <2>5, <2>6
<1>3. Seq(S) \subseteq G
  <2> HIDE DEF G
  <2> QED BY <1>1, <1>2, AllSequences
<1> QED BY <1>3

(* Concatenation, one element at a time.                                   *)
LEMMA ConcatAppend ==
  ASSUME NEW S, NEW s \in Seq(S), NEW t \in Seq(S), NEW x \in S
  PROVE  s \o t \in Seq(S) /\ s \o Append(t, x) = Append(s \o t, x)
<1>1. /\ s \o t \in Seq(S) /\ Append(t, x) \in Seq(S) /\ Len(s) \in Nat /\ Len(t) \in Nat
      /\ Len(s \o t) = Len(s) + Len(t) /\ Len(Append(t, x)) = Len(t) + 1
  OBVIOUS
<1> DEFINE u == s \o Append(t, x)
           v == Append(s \o t, x)
<1>2. u \in Seq(S) /\ v \in Seq(S) /\ Len(u) = Len(s) + Len(t) + 1 /\ Len(v) = Len(u)
  BY <1>1
<1>3. ASSUME NEW i \in 1 .. Len(u) PROVE u[i] = v[i]
  <2>1. CASE i <= Len(s)
    <3>1. i \in 1 .. Len(s) /\ i \in 1 .. Len(s \o t)
      BY <1>1, <2>1
    <3> QED BY <1>1, <3>1
  <2>2. CASE ~ (i <= Len(s)) /\ i <= Len(s) + Len(t)
    <3>1. i - Len(s) \in 1 .. Len(t) /\ i \in 1 .. Len(s \o t) /\ i \in 1 .. Len(s) + Len(Append(t, x)) /\ i > Len(s)
      BY <1>1, <2>2
    <3>2. u[i] = Append(t, x)[i - Len(s)] /\ v[i] = (s \o t)[i] /\ (s \o t)[i] = t[i - Len(s)]
      BY <1>1, <3>1
    <3>3. Append(t, x)[i - Len(s)] = t[i - Len(s)]
      BY <1>1, <3>1
    <3> QED BY <3>2, <3>3
  <2>3. CASE i = Len(s) + Len(t) + 1
    <3>1. i - Len(s) = Len(t) + 1 /\ i \in 1 .. Len(s) + Len(Append(t, x)) /\ i > Len(s)
      BY <1>1, <2>3
    <3>2. u[i] = Append(t, x)[i - Len(s)]
      BY <1>1, <3>1
    <3> QED BY <1>1, <2>3, <3>1, <3>2
  <2> QED BY <1>1, <1>2, <2>1, <2>2, <2>3
<1> HIDE DEF u, v
<1>4. u = v
  BY <1>2, <1>3, SeqEqual
<1> QED BY <1>1, <1>4 DEF u, v

(* Sifting and concatenation commute.                                      *)
LEMMA SiftConcat ==
  ASSUME NEW S, NEW V, NEW s \in Seq(S), NEW t \in Seq(S)
  PROVE  Sift(s \o t, V) = Sift(s, V) \o Sift(t, V)
<1> DEFINE G == {u \in Seq(S) : Sift(s \o u, V) = Sift(s, V) \o Sift(u, V)}
<1>0. Sift(s, V) \in Seq(S)
  BY SiftTyped
<1>1. <<>> \in G
  <2>1. s \o <<>> = s /\ Sift(s, V) \o <<>> = Sift(s, V) /\ <<>> \in Seq(S)
    BY <1>0, ConcatEmptySeq
  <2>2. Sift(<<>>, V) = <<>>
    BY SiftEmpty
  <2> QED BY <2>1, <2>2
<1>2. ASSUME NEW u \in Seq(S), NEW x \in S, u \in G PROVE Append(u, x) \in G
  <2>1. s \o u \in Seq(S) /\ s \o Append(u, x) = Append(s \o u, x)
    BY ConcatAppend
  <2>2. Sift(u, V) \in Seq(S) /\ Sift(s \o u, V) = Sift(s, V) \o Sift(u, V)
    BY <1>2, SiftTyped
  <2>3. /\ x \in V => Sift(Append(s \o u, x), V) = Append(Sift(s \o u, V), x)
        /\ x \notin V => Sift(Append(s \o u, x), V) = Sift(s \o u, V)
    BY <2>1, SiftAppend
  <2>4. /\ x \in V => Sift(Append(u, x), V) = Append(Sift(u, V), x)
        /\ x \notin V => Sift(Append(u, x), V) = Sift(u, V)
    BY SiftAppend
  <2>5. Sift(s, V) \o Append(Sift(u, V), x) = Append(Sift(s, V) \o Sift(u, V), x)
    BY <1>0, <2>2, ConcatAppend
  <2>6. Append(u, x) \in Seq(S)
    OBVIOUS
  <2> QED BY <2>1, <2>2, <2>3, <2>4, <2>5, <2>6
<1>3. Seq(S) \subseteq G
  <2> HIDE DEF G
  <2> QED BY <1>1, <1>2, AllSequences
<1> QED BY <1>3

-----------------------------------------------------------------------------
(* The hook.                                                                *)
Leads(t, n) == (\A i \in 1 .. n : t[i].kind = "env") /\ (n = Len(t) \/ t[n + 1].kind # "env")

(* EnvPrefix chooses the one number there is: that of the assignments a    *)
(* command begins with.                                                    *)
LEMMA EnvPrefixIs ==
  ASSUME NEW S, NEW t \in Seq(S)
  PROVE  /\ EnvPrefix(t) \in 0 .. Len(t) /\ Leads(t, EnvPrefix(t))
         /\ \A n \in 0 .. Len(t) : Leads(t, n) => EnvPrefix(t) = n
<1>1. Len(t) \in Nat
  OBVIOUS
<1>2. \E n \in 0 .. Len(t) : Leads(t, n)
  <2> DEFINE ends == {n \in 0 .. Len(t) : n = Len(t) \/ t[n + 1].kind # "env"}
  <2>1. ends \subseteq Nat /\ Len(t) \in ends
    BY <1>1
  <2>2. PICK n \in ends : \A m \in ends : n <= m
    <3> HIDE DEF ends
    <3> QED BY <2>1, Least
  <2>3. ASSUME NEW i \in 1 .. n PROVE t[i].kind = "env"
    <3>1. i - 1 \in 0 .. Len(t) /\ ~ (n <= i - 1) /\ (i - 1) + 1 = i /\ i - 1 # Len(t)
      BY <1>1
    <3>2. i - 1 \notin ends
      BY <2>2, <3>1
    <3> QED BY <3>1, <3>2
  <2> QED BY <2>2, <2>3 DEF Leads
<1>3. EnvPrefix(t) = CHOOSE n \in 0 .. Len(t) : Leads(t, n)
  BY DEF EnvPrefix, Leads
<1>4. EnvPrefix(t) \in 0 .. Len(t) /\ Leads(t, EnvPrefix(t))
  BY <1>2, <1>3
<1>5. ASSUME NEW n \in 0 .. Len(t), NEW m \in 0 .. Len(t), Leads(t, n), Leads(t, m), n < m PROVE FALSE
  <2>1. n + 1 \in 1 .. m /\ n # Len(t)
    BY <1>1, <1>5
  <2> QED BY <1>5, <2>1 DEF Leads
<1>6. ASSUME NEW n \in 0 .. Len(t), Leads(t, n) PROVE EnvPrefix(t) = n
  <2>1. ~ (n < EnvPrefix(t)) /\ ~ (EnvPrefix(t) < n)
    BY <1>4, <1>5, <1>6
  <2>2. n \in Nat /\ EnvPrefix(t) \in Nat
    BY <1>1, <1>4
  <2> QED BY <2>1, <2>2
<1> QED BY <1>4, <1>6

(* A command that was rewritten begins with hsp behind its variables, and  *)
(* is otherwise as it was.                                                 *)
LEMMA Rewritten ==
  ASSUME NEW S, NEW t \in Seq(S), Hsp \in S, HookRewrite(t) # t
  PROVE  LET r == HookRewrite(t)
         IN  /\ r \in Seq(S) /\ FirstCommandToken(r) = "hsp" /\ ~ HasShellComposition(t)
             /\ \A V : Hsp \notin V => Sift(r, V) = Sift(t, V)
<1> DEFINE n == EnvPrefix(t)
           pre == SubSeq(t, 1, n)
           post == SubSeq(t, n + 1, Len(t))
           r == (pre \o <<Hsp>>) \o post
<1>0. Len(t) \in Nat /\ n \in 0 .. Len(t) /\ Leads(t, n) /\ \A i \in 1 .. Len(t) : t[i] \in S
  BY EnvPrefixIs
<1>1. HookRewrite(t) = r /\ ~ HasShellComposition(t)
  BY DEF HookRewrite, SplitEnvPrefix
<1>2. pre \in Seq(S) /\ Len(pre) = n /\ \A i \in 1 .. n : pre[i] = t[i]
  <2>1. n \in Int /\ 1 \in Int /\ (\A i \in 1 .. n : t[i] \in S) /\ n - 1 + 1 = n /\ (1 <= n \/ n = 0)
    BY <1>0
  <2> HIDE DEF n
  <2>2. /\ pre \in Seq(S) /\ Len(pre) = IF 1 <= n THEN n - 1 + 1 ELSE 0
        /\ \A i \in 1 .. n - 1 + 1 : pre[i] = t[1 + i - 1]
    BY <2>1, SubSeqProperties
  <2>3. \A i \in 1 .. n : 1 + i - 1 = i
    BY <2>1
  <2> QED BY <2>1, <2>2, <2>3
<1>3. post \in Seq(S)
  <2>1. n + 1 \in Int /\ Len(t) \in Int /\ \A i \in n + 1 .. Len(t) : t[i] \in S
    BY <1>0
  <2> QED BY <2>1, SubSeqProperties
<1>4. t = pre \o post
  <2>1. /\ 1 \in 1 .. Len(t) + 1 /\ n \in 1 - 1 .. Len(t) /\ Len(t) \in n .. Len(t)
    BY <1>0
  <2>2. SubSeq(t, 1, n) \o SubSeq(t, n + 1, Len(t)) = SubSeq(t, 1, Len(t))
    <3> HIDE DEF n
    <3> QED BY <2>1, ConcatAdjacentSubSeq
  <2>3. SubSeq(t, 1, Len(t)) = t
    BY SubSeqFull
  <2> QED BY <2>2, <2>3
<1> HIDE DEF pre, post
<1>5. /\ <<Hsp>> \in Seq(S) /\ pre \o <<Hsp>> \in Seq(S) /\ r \in Seq(S) /\ n \in Nat
      /\ Len(pre \o <<Hsp>>) = n + 1 /\ Len(r) = n + 1 + Len(post) /\ Len(post) \in Nat
  BY <1>0, <1>2, <1>3
<1>6. (\A i \in 1 .. n : r[i] = t[i]) /\ r[n + 1] = Hsp
  <2>1. ASSUME NEW i \in 1 .. n PROVE r[i] = t[i]
    <3>1. i \in 1 .. Len(pre \o <<Hsp>>) /\ i \in 1 .. Len(pre)
      BY <1>2, <1>5
    <3> QED BY <1>2, <1>3, <1>5, <3>1
  <2>2. r[n + 1] = Hsp
    <3>1. n + 1 \in 1 .. Len(pre \o <<Hsp>>)
      BY <1>5
    <3>2. (pre \o <<Hsp>>)[n + 1] = Hsp
      BY <1>2, <1>5
    <3> QED BY <1>3, <1>5, <3>1, <3>2
  <2> QED BY <2>1, <2>2
<1> HIDE DEF r
<1>7. EnvPrefix(r) = n
  <2>1. Leads(r, n)
    BY <1>0, <1>6 DEF Leads, Hsp
  <2>2. n \in 0 .. Len(r)
    BY <1>5
  <2> QED BY <1>5, <2>1, <2>2, EnvPrefixIs
<1>8. FirstCommandToken(r) = "hsp"
  <2> DEFINE s == SubSeq(r, n + 1, Len(r))
  <2>1. SplitEnvPrefix(r)[2] = s
    BY <1>7 DEF SplitEnvPrefix
  <2>2. Head(s) = r[n + 1] /\ s # <<>> /\ s[1] = r[n + 1]
    <3>1. n + 1 \in Int /\ Len(r) \in Int /\ n + 1 <= Len(r) /\ \A i \in n + 1 .. Len(r) : r[i] \in S
      BY <1>5
    <3>2. /\ s \in Seq(S) /\ Len(s) = IF n + 1 <= Len(r) THEN Len(r) - (n + 1) + 1 ELSE 0
          /\ \A i \in 1 .. Len(r) - (n + 1) + 1 : s[i] = r[(n + 1) + i - 1]
      BY <3>1, SubSeqProperties
    <3>3. 1 \in 1 .. Len(r) - (n + 1) + 1 /\ (n + 1) + 1 - 1 = n + 1 /\ Len(s) > 0
      BY <3>1, <3>2, <1>5
    <3>4. s[1] = r[n + 1]
      BY <3>2, <3>3
    <3>5. s # <<>>
      <4>1. Len(s) \in Nat /\ Len(s) > 0
        BY <3>1, <3>2, <3>3
      <4>2. ASSUME NEW u, Len(u) \in Nat, Len(u) > 0 PROVE u # <<>>
        <5>1. Len(<<>>) = 0
          OBVIOUS
        <5>2. ~ (0 > 0)
          OBVIOUS
        <5> QED BY <4>2, <5>1, <5>2
      <4> HIDE DEF s
      <4> QED BY <4>1, <4>2
    <3> QED BY <3>2, <3>4, <3>5
  <2> HIDE DEF s
  <2> QED BY <1>6, <2>1, <2>2 DEF FirstCommandToken, Hsp
<1>9. ASSUME NEW V, Hsp \notin V PROVE Sift(r, V) = Sift(t, V)
  <2>1. Sift(<<Hsp>>, V) = <<>>
    <3>1. <<Hsp>> = Append(<<>>, Hsp) /\ <<>> \in Seq(S)
      OBVIOUS
    <3>2. Sift(Append(<<>>, Hsp), V) = Sift(<<>>, V)
      BY <1>9, <3>1, SiftAppend
    <3> QED BY <3>1, <3>2, SiftEmpty
  <2>2. Sift(pre \o <<Hsp>>, V) = Sift(pre, V) \o Sift(<<Hsp>>, V)
    BY <1>2, <1>5, SiftConcat
  <2>3. Sift(pre, V) \in Seq(S)
    BY <1>2, SiftTyped
  <2>4. Sift(pre \o <<Hsp>>, V) = Sift(pre, V)
    BY <2>1, <2>2, <2>3, ConcatEmptySeq
  <2>5. Sift(r, V) = Sift(pre \o <<Hsp>>, V) \o Sift(post, V)
    BY <1>3, <1>5, SiftConcat DEF r
  <2>6. Sift(pre \o post, V) = Sift(pre, V) \o Sift(post, V)
    BY <1>2, <1>3, SiftConcat
  <2> QED BY <1>4, <2>4, <2>5, <2>6
<1> QED BY <1>1, <1>5, <1>8, <1>9

(* The rewriting is sound for any command: rewritten once more it stays,   *)
(* since its first word is hsp, which is not a known command.              *)
LEMMA RewriteIsSound == ASSUME NEW S, command \in Seq(S) PROVE RewriteSound
<1> DEFINE T == S \cup {Hsp}
           r == HookRewrite(command)
<1>0. command \in Seq(T) /\ Hsp \in T
  BY SeqMonotonic
<1>1. CASE r = command
  BY <1>1 DEF RewriteSound
<1>2. CASE r # command
  <2>1. /\ r \in Seq(T) /\ FirstCommandToken(r) = "hsp" /\ ~ HasShellComposition(command)
        /\ \A V : Hsp \notin V => Sift(r, V) = Sift(command, V)
    <3> HIDE DEF T
    <3> QED BY <1>0, <1>2, Rewritten
  <2>2. HookRewrite(r) = r
    BY <2>1, FilterAssumption DEF HookRewrite
  <2>3. ASSUME NEW u \in Seq(T) PROVE Sift(u, Range(u) \ {Hsp}) = Sift(u, T \ {Hsp})
    <3>1. \A i \in 1 .. Len(u) : u[i] \in Range(u) /\ u[i] \in T
      BY RangeStep
    <3>2. \A i \in 1 .. Len(u) : u[i] \in Range(u) \ {Hsp} <=> u[i] \in T \ {Hsp}
      BY <3>1
    <3> HIDE DEF T
    <3> QED BY <3>2, SiftSame
  <2>4. Sift(r, T \ {Hsp}) = Sift(command, T \ {Hsp})
    BY <2>1
  <2> HIDE DEF r
  <2>5. Sift(r, Range(r) \ {Hsp}) = Sift(command, Range(command) \ {Hsp})
    BY <1>0, <2>1, <2>3, <2>4
  <2> QED BY <2>1, <2>2, <2>5 DEF RewriteSound, r
<1> QED BY <1>1, <1>2


-----------------------------------------------------------------------------
(* The hook file.                                                           *)
Entry == Foreign \cup {{"hsp"}}
(* The hook file holds entries of the user's and at most one of the        *)
(* proxy's.                                                                *)
EntriesOK == entries \in Seq(Entry) /\ Len(Sift(entries, {{"hsp"}})) <= 1

(* The user's entries, by a set that does not depend on the file.          *)
LEMMA UsersOwnIs ==
  ASSUME NEW S, NEW es \in Seq(S)
  PROVE  UsersOwn(es) = Sift(es, {e \in S : "hsp" \notin e})
<1>1. \A i \in 1 .. Len(es) : es[i] \in Range(es) /\ es[i] \in S
  BY RangeStep
<1>2. \A i \in 1 .. Len(es) : es[i] \in {e \in Range(es) : "hsp" \notin e} <=> es[i] \in {e \in S : "hsp" \notin e}
  BY <1>1
<1> QED BY <1>2, SiftSame DEF UsersOwn

(* An uninstallation leaves the user's entries, all of them and nothing    *)
(* else.                                                                   *)
LEMMA UninstallIs ==
  ASSUME NEW es \in Seq(Entry)
  PROVE  /\ UninstallFor(es) = UsersOwn(es) /\ UninstallFor(es) \in Seq(Entry)
         /\ UsersOwn(UninstallFor(es)) = UsersOwn(es)
         /\ Sift(UninstallFor(es), {{"hsp"}}) = <<>>
<1> DEFINE V == {e \in Entry : "hsp" \notin e}
           u == UninstallFor(es)
<1>1. UninstallFor(es) = UsersOwn(es)
  BY DEF UninstallFor, UsersOwn, IsHspEntry
<1>2. u = Sift(es, V) /\ u \in Seq(Entry)
  BY <1>1, UsersOwnIs, SiftTyped
<1>3. UsersOwn(u) = Sift(u, V)
  BY <1>2, UsersOwnIs
<1>4. Sift(Sift(es, V), V) = Sift(es, V \cap V)
  BY SiftTwice
<1>5. Sift(Sift(es, V), {{"hsp"}}) = Sift(es, {})
  <2>1. V \cap {{"hsp"}} = {}
    OBVIOUS
  <2> QED BY <2>1, SiftTwice
<1>6. Sift(es, {}) = <<>>
  <2> DEFINE T == Sift(es, {})
  <2>1. T \in Seq(Entry) /\ Range(T) = {}
    BY SiftTyped, SiftRange
  <2> HIDE DEF T
  <2>2. Len(T) \in Nat /\ \A i \in 1 .. Len(T) : T[i] \in Range(T)
    BY <2>1, RangeStep
  <2>3. Len(T) = 0
    <3>1. Len(T) # 0 => 1 \in 1 .. Len(T)
      BY <2>2
    <3> QED BY <2>1, <2>2, <3>1
  <2>4. T = <<>>
    BY <2>1, <2>3, EmptySeq
  <2> QED BY <2>4 DEF T
<1>7. V \cap V = V
  OBVIOUS
<1> QED BY <1>1, <1>2, <1>3, <1>4, <1>5, <1>6, <1>7

(* An installation leaves them too, and one entry of the proxy's.          *)
LEMMA InstallIs ==
  ASSUME NEW es \in Seq(Entry)
  PROVE  /\ InstallFor(es) \in Seq(Entry) /\ UsersOwn(InstallFor(es)) = UsersOwn(es)
         /\ Sift(InstallFor(es), {{"hsp"}}) = << {"hsp"} >>
<1> DEFINE V == {e \in Entry : "hsp" \notin e}
           u == UninstallFor(es)
           ours == {"hsp"}
<1>1. u \in Seq(Entry) /\ UsersOwn(u) = UsersOwn(es) /\ Sift(u, {ours}) = <<>> /\ UsersOwn(u) = Sift(u, V)
  BY UninstallIs, UsersOwnIs
<1>2. ours \in Entry /\ ours \notin V /\ ours \in {ours}
  <2>1. "hsp" \in ours
    OBVIOUS
  <2>2. ours \in Entry
    BY DEF Entry
  <2> HIDE DEF ours
  <2> QED BY <2>1, <2>2
<1>3. InstallFor(es) = Append(u, ours)
  BY DEF InstallFor
<1> HIDE DEF u, V, ours
<1>4. Append(u, ours) \in Seq(Entry)
  BY <1>1, <1>2
<1>5. UsersOwn(Append(u, ours)) = Sift(Append(u, ours), V)
  <2> DEFINE w == Append(u, ours)
  <2>1. w \in Seq(Entry)
    BY <1>4
  <2> HIDE DEF w
  <2>2. UsersOwn(w) = Sift(w, V)
    BY <2>1, UsersOwnIs DEF V
  <2> QED BY <2>2 DEF w
<1>6. Sift(Append(u, ours), V) = Sift(u, V) /\ Sift(Append(u, ours), {ours}) = Append(<<>>, ours)
  <2>1. Sift(Append(u, ours), V) = Sift(u, V)
    BY <1>1, <1>2, SiftAppend
  <2> DEFINE W == {ours}
  <2>2. ours \in W /\ Sift(u, W) = <<>>
    BY <1>1, Zenon
  <2>4. u \in Seq(Entry) /\ ours \in Entry /\ ours \in W
    BY <1>1, <1>2, <2>2
  <2> HIDE DEF W
  <2>3. Sift(Append(u, ours), W) = Append(Sift(u, W), ours)
    BY <2>4, SiftAppend
  <2> QED BY <2>1, <2>2, <2>3 DEF W
<1>7. Append(<<>>, ours) = <<ours>>
  OBVIOUS
<1> QED BY <1>1, <1>3, <1>4, <1>5, <1>6, <1>7 DEF ours

(* The hook file starts empty.                                             *)
LEMMA EntriesStart == FilterInit => EntriesOK
<1> SUFFICES ASSUME FilterInit PROVE EntriesOK
  OBVIOUS
<1>1. entries = <<>> /\ <<>> \in Seq(Entry) /\ Len(<<>>) = 0
  BY DEF FilterInit
<1>2. Sift(<<>>, {{"hsp"}}) = <<>>
  BY SiftEmpty
<1> QED BY <1>1, <1>2 DEF EntriesOK

(* What installs, uninstalls or adds an entry keeps EntriesOK.             *)
LEMMA EntriesStep ==
  ASSUME EntriesOK, InitHook \/ UninitHook \/ UserAdds
  PROVE  EntriesOK'
<1>0. entries \in Seq(Entry) /\ Len(Sift(entries, {{"hsp"}})) <= 1
  BY DEF EntriesOK
<1>1. CASE InitHook
  <2>1. entries' = InstallFor(entries)
    BY <1>1 DEF InitHook
  <2>2. entries' \in Seq(Entry) /\ Len(Sift(entries', {{"hsp"}})) <= 1
    <3>1. entries' \in Seq(Entry) /\ Sift(entries', {{"hsp"}}) = << {"hsp"} >>
      BY <1>0, <2>1, InstallIs
    <3>2. Len(<< {"hsp"} >>) <= 1
      OBVIOUS
    <3> QED BY <3>1, <3>2, Zenon
  <2> QED BY <2>2 DEF EntriesOK, Entry
<1>2. CASE UninitHook
  <2>1. entries' = UninstallFor(entries)
    BY <1>2 DEF UninitHook
  <2>2. entries' \in Seq(Entry) /\ Sift(entries', {{"hsp"}}) = <<>>
    BY <1>0, <2>1, UninstallIs
  <2>3. Len(Sift(entries', {{"hsp"}})) = 0
    BY <2>2
  <2> QED BY <2>2, <2>3 DEF EntriesOK, Entry
<1>3. CASE UserAdds
  <2>1. PICK e \in Foreign : entries' = Append(entries, e)
    BY <1>3 DEF UserAdds
  <2>2. e \notin {{"hsp"}} /\ e \in Entry
    BY FilterAssumption DEF Entry
  <2>3. Sift(entries', {{"hsp"}}) = Sift(entries, {{"hsp"}}) /\ entries' \in Seq(Entry)
    BY <1>0, <2>1, <2>2, SiftAppend
  <2> QED BY <1>0, <2>3 DEF EntriesOK, Entry
<1> QED BY <1>1, <1>2, <1>3

(* Hence an installation or an uninstallation at any moment keeps what is  *)
(* the user's.                                                             *)
LEMMA EntriesAreKept == EntriesOK => EntriesKept
<1> SUFFICES ASSUME EntriesOK PROVE EntriesKept
  OBVIOUS
<1>1. entries \in Seq(Entry) /\ Len(Sift(entries, {{"hsp"}})) <= 1
  BY DEF EntriesOK
<1>2. UsersOwn(InstallFor(entries)) = UsersOwn(entries) /\ UsersOwn(UninstallFor(entries)) = UsersOwn(entries)
  BY <1>1, InstallIs, UninstallIs
<1> QED BY <1>1, <1>2 DEF EntriesKept


-----------------------------------------------------------------------------
(* Which handler runs.                                                      *)
Tiers == {"project", "global"}
Handler(h) == h.priority \in Int /\ h.tier \in Tiers \cup {"builtin"}
Handlers(S) == \A h \in S : Handler(h)

(* What handlers are compared by are numbers.                              *)
LEMMA KeyTypes ==
  ASSUME NEW h, Handler(h)
  PROVE  TierRank(h) \in Int /\ Specific(h) \in Int /\ h.priority \in Int
BY DEF Handler, Tiers, TierRank, Specific

(* What beats y beats all that does not beat y. *)
LEMMA BetterOrder ==
  ASSUME NEW x, NEW y, NEW z, Handler(x), Handler(y), Handler(z), Better(x, y), ~ Better(z, y)
  PROVE  Better(x, z) /\ ~ Better(z, x)
<1> DEFINE a == TierRank(x)
           b == TierRank(y)
           c == TierRank(z)
           sa == Specific(x)
           sb == Specific(y)
           sc == Specific(z)
           pa == x.priority
           pb == y.priority
           pc == z.priority
           After2(t, s, p, u, v, w) == t > u \/ (t = u /\ s > v) \/ (t = u /\ s = v /\ p > w)
<1>1. /\ a \in Int /\ b \in Int /\ c \in Int /\ sa \in Int /\ sb \in Int /\ sc \in Int
      /\ pa \in Int /\ pb \in Int /\ pc \in Int
  BY KeyTypes
<1>2. /\ Better(x, y) <=> After2(a, sa, pa, b, sb, pb)
      /\ Better(z, y) <=> After2(c, sc, pc, b, sb, pb)
      /\ Better(x, z) <=> After2(a, sa, pa, c, sc, pc)
      /\ Better(z, x) <=> After2(c, sc, pc, a, sa, pa)
  BY DEF Better
<1> HIDE DEF a, b, c, sa, sb, sc, pa, pb, pc
<1> QED BY <1>1, <1>2

(* No handler is better than itself.                                       *)
LEMMA BetterSelf ==
  ASSUME NEW x, Handler(x)
  PROVE  ~ Better(x, x)
BY KeyTypes DEF Better

(* The comparison of the code, one key after the other, is the             *)
(* lexicographic order.                                                    *)
LEMMA BeatsIs ==
  ASSUME NEW h, NEW g
  PROVE  Beats(h, g) <=> Better(h, g)
<1> DEFINE Key(x) == <<TierRank(x), Specific(x), x.priority>>
           Wins(n) == Key(h)[n] > Key(g)[n] /\ \A m \in 1 .. n - 1 : Key(h)[m] = Key(g)[m]
<1>1. Beats(h, g) <=> \E n \in 1 .. 3 : Wins(n)
  BY DEF Beats
<1>2. 1 .. 3 = {1, 2, 3} /\ 1 .. 1 - 1 = {} /\ 1 .. 2 - 1 = {1} /\ 1 .. 3 - 1 = {1, 2}
  OBVIOUS
<1>3. \A x : Key(x)[1] = TierRank(x) /\ Key(x)[2] = Specific(x) /\ Key(x)[3] = x.priority
  OBVIOUS
<1> HIDE DEF Key
<1>4. Wins(1) <=> TierRank(h) > TierRank(g)
  BY <1>2, <1>3
<1>5. Wins(2) <=> TierRank(h) = TierRank(g) /\ Specific(h) > Specific(g)
  BY <1>2, <1>3
<1>6. Wins(3) <=> TierRank(h) = TierRank(g) /\ Specific(h) = Specific(g) /\ h.priority > g.priority
  BY <1>2, <1>3
<1> HIDE DEF Wins
<1>7. Beats(h, g) <=> Wins(1) \/ Wins(2) \/ Wins(3)
  BY <1>1, <1>2
<1> QED BY <1>4, <1>5, <1>6, <1>7 DEF Better

(* i is where the best of the matching handlers stands. *)
BestAt(s, cmd, sub, i) ==
  /\ i \in 1 .. Len(s) /\ Matches(s[i], cmd, sub)
  /\ \A j \in 1 .. Len(s) : Matches(s[j], cmd, sub) => ~ Better(s[j], s[i]) /\ (j < i => Better(s[i], s[j]))
NoneMatches(s, cmd, sub) == \A i \in 1 .. Len(s) : ~ Matches(s[i], cmd, sub)
PicksBest(s, cmd, sub) ==
  \/ Pick(s, cmd, sub) = <<>> /\ NoneMatches(s, cmd, sub)
  \/ \E i \in 1 .. Len(s) : Pick(s, cmd, sub) = <<s[i]>> /\ BestAt(s, cmd, sub, i)

(* One more handler wins, or the one that was the best still is.           *)
LEMMA PickGrows ==
  ASSUME NEW S, Handlers(S), NEW cmd, NEW sub, NEW s \in Seq(S), NEW x \in S, PicksBest(s, cmd, sub)
  PROVE  PicksBest(Append(s, x), cmd, sub)
<1> DEFINE t == Append(s, x)
           N == Len(s)
<1>1. /\ t \in Seq(S) /\ N \in Nat /\ Len(t) = N + 1 /\ t[N + 1] = x /\ Handler(x)
      /\ \A i \in 1 .. N : t[i] = s[i] /\ s[i] \in S /\ Handler(s[i])
      /\ \A i \in 1 .. N + 1 : i \in 1 .. N \/ i = N + 1
      /\ N + 1 \in 1 .. N + 1 /\ \A i \in 1 .. N : i \in 1 .. N + 1 /\ i < N + 1 /\ ~ (N + 1 < i)
  BY DEF Handlers
<1>2. Pick(t, cmd, sub) = Challenge(Pick(s, cmd, sub), x, cmd, sub)
  <2>1. PickSteps(S, cmd, sub)
    BY PickStep
  <2> QED BY <2>1 DEF PickSteps
<1> HIDE DEF t, N
<1>3. CASE Pick(s, cmd, sub) = <<>> /\ NoneMatches(s, cmd, sub)
  <2>1. CASE Matches(x, cmd, sub)
    <3>1. Pick(t, cmd, sub) = <<t[N + 1]>>
      BY <1>1, <1>2, <1>3, <2>1 DEF Challenge
    <3>2. BestAt(t, cmd, sub, N + 1)
      <4>1. \A j \in 1 .. N : ~ Matches(t[j], cmd, sub)
        BY <1>1, <1>3 DEF NoneMatches, N
      <4>2. ~ Better(t[N + 1], t[N + 1]) /\ ~ (N + 1 < N + 1)
        BY <1>1, BetterSelf
      <4> QED BY <1>1, <2>1, <4>1, <4>2 DEF BestAt
    <3> QED BY <1>1, <3>1, <3>2 DEF PicksBest, t
  <2>2. CASE ~ Matches(x, cmd, sub)
    <3>1. Pick(t, cmd, sub) = <<>>
      BY <1>2, <1>3, <2>2 DEF Challenge
    <3>2. NoneMatches(t, cmd, sub)
      BY <1>1, <1>3, <2>2 DEF NoneMatches, N
    <3> QED BY <3>1, <3>2 DEF PicksBest, t
  <2> QED BY <2>1, <2>2
<1>4. ASSUME NEW i \in 1 .. N, Pick(s, cmd, sub) = <<s[i]>>, BestAt(s, cmd, sub, i)
      PROVE  PicksBest(t, cmd, sub)
  <2>0. Pick(s, cmd, sub) # <<>> /\ Pick(s, cmd, sub)[1] = s[i]
    BY <1>4
  <2>1. CASE Matches(x, cmd, sub) /\ Better(x, s[i])
    <3>1. Pick(t, cmd, sub) = <<t[N + 1]>>
      BY <1>1, <1>2, <2>0, <2>1 DEF Challenge
    <3>2. ASSUME NEW j \in 1 .. N, Matches(t[j], cmd, sub)
          PROVE  ~ Better(t[j], t[N + 1]) /\ Better(t[N + 1], t[j])
      <4>1. Handler(x) /\ Handler(s[i]) /\ Handler(s[j]) /\ ~ Better(s[j], s[i])
        BY <1>1, <1>4, <3>2 DEF BestAt, N
      <4> QED BY <1>1, <2>1, <4>1, BetterOrder
    <3>3. ~ Better(t[N + 1], t[N + 1]) /\ ~ (N + 1 < N + 1)
      BY <1>1, BetterSelf
    <3>4. BestAt(t, cmd, sub, N + 1)
      BY <1>1, <2>1, <3>2, <3>3 DEF BestAt
    <3> QED BY <1>1, <3>1, <3>4 DEF PicksBest
  <2>2. CASE ~ (Matches(x, cmd, sub) /\ Better(x, s[i]))
    <3>1. Pick(t, cmd, sub) = <<t[i]>>
      BY <1>1, <1>2, <1>4, <2>0, <2>2 DEF Challenge
    <3>2. ASSUME NEW j \in 1 .. N + 1, Matches(t[j], cmd, sub)
          PROVE  ~ Better(t[j], t[i]) /\ (j < i => Better(t[i], t[j]))
      <4>1. CASE j \in 1 .. N
        BY <1>1, <1>4, <3>2, <4>1 DEF BestAt, N
      <4>2. CASE j = N + 1
        BY <1>1, <1>4, <2>2, <3>2, <4>2
      <4> QED BY <1>1, <4>1, <4>2
    <3>3. BestAt(t, cmd, sub, i)
      BY <1>1, <1>4, <3>2 DEF BestAt
    <3> QED BY <1>1, <3>1, <3>3 DEF PicksBest
  <2> QED BY <2>1, <2>2
<1> QED BY <1>3, <1>4 DEF PicksBest, t, N

(* The handler picked is the best that matches, the first registered of    *)
(* equals.                                                                 *)
LEMMA PickBest ==
  ASSUME NEW S, Handlers(S), NEW cmd, NEW sub, NEW s \in Seq(S)
  PROVE  PicksBest(s, cmd, sub)
<1> DEFINE G == {t \in Seq(S) : PicksBest(t, cmd, sub)}
<1>1. <<>> \in G
  <2>1. Pick(<<>>, cmd, sub) = <<>>
    BY PickEmpty
  <2>2. NoneMatches(<<>>, cmd, sub)
    BY DEF NoneMatches
  <2> QED BY <2>1, <2>2 DEF PicksBest
<1>2. ASSUME NEW t \in Seq(S), NEW x \in S, t \in G PROVE Append(t, x) \in G
  <2>1. Append(t, x) \in Seq(S) /\ PicksBest(t, cmd, sub)
    BY <1>2
  <2> QED BY <2>1, PickGrows
<1>3. Seq(S) \subseteq G
  <2> HIDE DEF G
  <2> QED BY <1>1, <1>2, AllSequences
<1> QED BY <1>3


-----------------------------------------------------------------------------
(* The handlers that the scripts register.                                  *)
Answers == [out : Said, err : Said]
(* A handler a script registers, and a script with the directory it was    *)
(* found in.                                                               *)
Registered ==
  [cmd : STRING, subcmd : STRING, priority : Int, filter : STRING, fails : BOOLEAN,
   answer : Answers, exit : Int, tier : Tiers]
OneScript == [specs : Seq(Specs), tier : Tiers]

(* What a specification becomes is a handler.                              *)
LEMMA StampedType ==
  ASSUME NEW spec \in Specs, NEW tier \in Tiers
  PROVE  Stamped(spec, tier) \in Registered
<1> DEFINE A == [out : Said, err : Said]
<1>1. spec \in [cmd : STRING, subcmd : STRING, priority : Int, filter : STRING, fails : BOOLEAN,
                answer : A, exit : Int]
  BY DEF Specs
<1> HIDE DEF A
<1>2. /\ spec.cmd \in STRING /\ spec.subcmd \in STRING /\ spec.priority \in Int /\ spec.filter \in STRING
      /\ spec.fails \in BOOLEAN /\ spec.answer \in A /\ spec.exit \in Int
  BY <1>1
<1>3. Stamped(spec, tier) \in
        [cmd : STRING, subcmd : STRING, priority : Int, filter : STRING, fails : BOOLEAN,
         answer : A, exit : Int, tier : Tiers]
  BY <1>2 DEF Stamped
<1> QED BY <1>3 DEF A, Registered, Answers

(* Loading a script adds handlers to handlers.                             *)
LEMMA LoadSingleType ==
  ASSUME NEW script \in OneScript, NEW hs \in Seq(Registered)
  PROVE  LoadSingle(script, hs) \in Seq(Registered)
<1> DEFINE offered == [i \in DOMAIN script.specs |-> Stamped(script.specs[i], script.tier)]
           V == {h \in Range(offered) : h.cmd # "" /\ h.filter # "none"}
<1>1. script.specs \in Seq(Specs) /\ script.tier \in Tiers
  <2> DEFINE Q == Seq(Specs)
  <2>1. script \in [specs : Q, tier : Tiers]
    BY DEF OneScript
  <2> HIDE DEF Q
  <2>2. script.specs \in Q /\ script.tier \in Tiers
    BY <2>1
  <2> QED BY <2>2 DEF Q
<1>2. offered \in Seq(Registered)
  <2> DEFINE q == script.specs
  <2>1. q \in Seq(Specs) /\ DOMAIN q = 1 .. Len(q) /\ Len(q) \in Nat
    BY <1>1
  <2> HIDE DEF q
  <2>2. \A i \in 1 .. Len(q) : q[i] \in Specs
    BY <2>1
  <2>3. \A i \in 1 .. Len(q) : Stamped(q[i], script.tier) \in Registered
    BY <1>1, <2>2, StampedType
  <2> DEFINE o == [i \in 1 .. Len(q) |-> Stamped(q[i], script.tier)]
  <2>4. o \in [1 .. Len(q) -> Registered]
    BY <2>3
  <2>5. o \in Seq(Registered)
    <3> HIDE DEF o
    <3> QED BY <2>1, <2>4, SeqDef
  <2>6. offered = o
    BY <2>1 DEF q
  <2> QED BY <2>5, <2>6
<1>3. LoadSingle(script, hs) = hs \o Sift(offered, V)
  BY DEF LoadSingle
<1> HIDE DEF offered, V
<1>4. Sift(offered, V) \in Seq(Registered)
  BY <1>2, SiftTyped
<1> QED BY <1>3, <1>4, ConcatProperties

(* Loading scripts, one after the other, is a loop over handlers.          *)
Loads(f, scripts, N) ==
  f = [n \in 0 .. N |-> IF n = 0 THEN <<>> ELSE LoadSingle(scripts[n], f[n - 1])]
LoadTurn(scripts) ==
  [n \in 1 .. Len(scripts) |-> [hs \in Seq(Registered) |-> LoadSingle(scripts[n], hs)]]
LoadAll(scripts) ==
  LET loaded[n \in 0 .. Len(scripts)] == IF n = 0 THEN <<>> ELSE LoadSingle(scripts[n], loaded[n - 1])
  IN  loaded[Len(scripts)]

(* Whatever is loaded are handlers.                                        *)
LEMMA LoadAllType ==
  ASSUME NEW s \in Seq(OneScript)
  PROVE  LoadAll(s) \in Seq(Registered)
<1> DEFINE D == Seq(Registered)
           N == Len(s)
           first == <<>>
           turn == LoadTurn(s)
<1>0. N \in Nat /\ first \in D /\ \A n \in 1 .. N : s[n] \in OneScript
  OBVIOUS
<1>1. \A n \in 1 .. N, t \in D : LoadSingle(s[n], t) \in D
  BY <1>0, LoadSingleType
<1>2. turn \in [1 .. N -> [D -> D]] /\ \A n \in 1 .. N, t \in D : turn[n][t] = LoadSingle(s[n], t)
  BY <1>1 DEF LoadTurn
<1> HIDE DEF D, turn, first, N
<1>3. turn \in TurnsOf(D, N) /\ N \in Nat /\ first \in D /\ N <= N /\ Alike(turn, turn, N)
  BY <1>0, <1>2 DEF TurnsOf, Alike
<1>4. PICK f \in [0 .. N -> D] : f[0] = first /\ \A n \in 1 .. N : f[n] = turn[n][f[n - 1]]
  BY <1>3, Loops
<1>5. Loads(f, s, N)
  <2> SUFFICES ASSUME NEW n \in 0 .. N
               PROVE  f[n] = IF n = 0 THEN <<>> ELSE LoadSingle(s[n], f[n - 1])
    BY <1>4, Zenon DEF Loads
  <2>1. CASE n = 0
    BY <1>4, <2>1 DEF first
  <2>2. CASE n # 0
    <3>1. n \in 1 .. N /\ n - 1 \in 0 .. N
      BY <1>0, <2>2
    <3>2. f[n] = turn[n][f[n - 1]] /\ f[n - 1] \in D
      BY <1>4, <3>1
    <3> QED BY <1>2, <2>2, <3>1, <3>2
  <2> QED BY <2>1, <2>2
<1>6. Loads(CHOOSE g : Loads(g, s, N), s, N)
  BY <1>5
<1>7. LoadAll(s) = (CHOOSE g : Loads(g, s, N))[N]
  BY Zenon DEF LoadAll, Loads, N
<1>8. PICK g : Loads(g, s, N) /\ LoadAll(s) = g[N]
  BY <1>6, <1>7
<1>9. g[0] = first
  BY <1>0, <1>8 DEF Loads, first
<1>10. ASSUME NEW n \in 1 .. N, g[n - 1] \in D PROVE g[n] = turn[n][g[n - 1]]
  <2>1. n \in 0 .. N /\ n # 0
    OBVIOUS
  <2>2. g[n] = LoadSingle(s[n], g[n - 1])
    BY <1>8, <2>1 DEF Loads
  <2> QED BY <1>2, <1>10, <2>2
<1>11. g[N] \in D
  <2>1. Turns(g, D, first, turn, N)
    BY <1>9, <1>10 DEF Turns
  <2> QED BY <1>3, <2>1, LoopsAgree
<1> QED BY <1>8, <1>11 DEF D

(* So are those of both directories.                                       *)
LEMMA LoadDirsType ==
  ASSUME NEW p \in Seq(OneScript), NEW g \in Seq(OneScript)
  PROVE  LoadDirs(p, g) \in Seq(Registered)
<1>1. p \o g \in Seq(OneScript)
  BY ConcatProperties
<1>2. LoadDirs(p, g) = LoadAll(p \o g)
  BY Zenon DEF LoadDirs, LoadAll
<1> QED BY <1>1, <1>2, LoadAllType

(* The scripts of a directory, each with the tier of the directory.        *)
Tagged(seq, tier) == [i \in DOMAIN seq |-> [specs |-> seq[i], tier |-> tier]]

(* They are scripts.                                                       *)
LEMMA TagType ==
  ASSUME NEW q \in Seq(Seq(Specs)), NEW tier \in Tiers
  PROVE  Tagged(q, tier) \in Seq(OneScript)
<1> DEFINE Q == Seq(Specs)
<1>1. q \in Seq(Q) /\ DOMAIN q = 1 .. Len(q) /\ Len(q) \in Nat
  OBVIOUS
<1>2. OneScript = [specs : Q, tier : Tiers]
  BY DEF OneScript
<1> HIDE DEF Q
<1>3. \A i \in 1 .. Len(q) : q[i] \in Q
  BY <1>1
<1>4. \A i \in 1 .. Len(q) : [specs |-> q[i], tier |-> tier] \in OneScript
  BY <1>2, <1>3
<1>5. Tagged(q, tier) \in [1 .. Len(q) -> OneScript]
  BY <1>1, <1>4 DEF Tagged
<1> HIDE DEF OneScript
<1>6. ASSUME NEW S, NEW n \in Nat, NEW f \in [1 .. n -> S] PROVE f \in Seq(S)
  BY SeqDef
<1> QED BY <1>1, <1>5, <1>6

(* The handlers, when all of them fail or none does.                       *)
Tried(hs, fail) == [i \in DOMAIN hs |-> [hs[i] EXCEPT !.fails = fail]]

(* They are handlers still, and fail as said.                              *)
LEMMA TriedType ==
  ASSUME NEW hs \in Seq(Registered), NEW fail \in BOOLEAN
  PROVE  /\ Tried(hs, fail) \in Seq(Registered)
         /\ \A i \in 1 .. Len(Tried(hs, fail)) : Tried(hs, fail)[i].fails = fail
<1>1. ASSUME NEW h \in Registered
      PROVE  [h EXCEPT !.fails = fail] \in Registered /\ [h EXCEPT !.fails = fail].fails = fail
  <2> HIDE DEF Answers, Tiers
  <2> QED BY DEF Registered
<1>2. hs \in Seq(Registered) /\ DOMAIN hs = 1 .. Len(hs) /\ Len(hs) \in Nat
  OBVIOUS
<1> DEFINE r == Tried(hs, fail)
<1>3. \A i \in 1 .. Len(hs) : hs[i] \in Registered
  BY <1>2
<1>4. /\ DOMAIN r = 1 .. Len(hs) /\ \A i \in 1 .. Len(hs) : r[i] \in Registered /\ r[i].fails = fail
      /\ r \in [1 .. Len(hs) -> Registered]
  BY <1>1, <1>2, <1>3 DEF Tried
<1> HIDE DEF r
<1>5. ASSUME NEW S, NEW n \in Nat, NEW f \in [1 .. n -> S] PROVE f \in Seq(S) /\ Len(f) = n
  BY SeqDef
<1>6. r \in Seq(Registered) /\ Len(r) = Len(hs)
  BY <1>2, <1>4, <1>5
<1> QED BY <1>4, <1>6 DEF r

(* A script that does not fail answers; otherwise the built-in that was    *)
(* picked, or nobody.                                                      *)
FallsBack(hs, cmd, sub, c) ==
  LET script == Pick(hs, cmd, sub) builtin == PickBuiltin(cmd, sub)
      by == InvokeWithFallback(hs, {}, cmd, sub, c).by
  IN  /\ script # <<>> /\ ~ script[1].fails => by = script
      /\ ~ (script # <<>> /\ ~ script[1].fails) => by = <<>> \/ (builtin # <<>> /\ by = <<builtin[1]>>)

(* InvokeWithFallback falls back like this.                                *)
LEMMA FallbackBy ==
  ASSUME NEW hs, NEW cmd, NEW sub, NEW c
  PROVE  FallsBack(hs, cmd, sub, c)
<1>1. ASSUME NEW b PROVE InvokeBuiltin(b, c).by = <<>> \/ InvokeBuiltin(b, c).by = <<b>>
  BY DEF InvokeBuiltin
<1> QED BY <1>1 DEF InvokeWithFallback, FallsBack

(* What PickSound says of a command b, for handlers that all fail or do    *)
(* not.                                                                    *)
SoundFor(runs, b, fail, c) ==
  LET match == {i \in DOMAIN runs : Matches(runs[i], b.cmd, b.subcmd)}
      by == InvokeWithFallback(runs, {}, b.cmd, b.subcmd, c).by
  IN  IF match = {} \/ fail
      THEN by # <<>> => by[1] \in Range(Builtins) /\ by[1].cmd = b.cmd
      ELSE \E i \in match : /\ by = <<runs[i]>>
                            /\ \A j \in match : ~ Beats(runs[j], runs[i])
                            /\ \A j \in match : j < i => Beats(runs[i], runs[j])

BuiltinRec == [cmd : STRING, subcmd : STRING, priority : Int, filter : Filters, tier : {"builtin"}]

(* The built-ins are handlers.                                             *)
LEMMA BuiltinsType == Builtins \in Seq(BuiltinRec) /\ Handlers(BuiltinRec) /\ Handlers(Registered)
<1>1. Builtins \in Seq(BuiltinRec)
  BY FilterAssumption DEF BuiltinRec
<1>2. Handlers(BuiltinRec)
  BY DEF BuiltinRec, Handlers, Handler
<1>3. Handlers(Registered)
  BY DEF Registered, Handlers, Handler
<1> QED BY <1>1, <1>2, <1>3

(* From PickBest, for the scripts and for the built-ins, and FallbackBy.   *)
LEMMA PicksSoundly ==
  ASSUME NEW runs \in Seq(Registered), NEW fail \in BOOLEAN, NEW b, NEW c,
         \A i \in 1 .. Len(runs) : runs[i].fails = fail
  PROVE  SoundFor(runs, b, fail, c)
<1> DEFINE cmd == b.cmd
           sub == b.subcmd
           script == Pick(runs, cmd, sub)
           builtin == PickBuiltin(cmd, sub)
           by == InvokeWithFallback(runs, {}, cmd, sub, c).by
           match == {i \in DOMAIN runs : Matches(runs[i], cmd, sub)}
<1>1. PicksBest(runs, cmd, sub) /\ PicksBest(Builtins, cmd, sub)
  BY BuiltinsType, PickBest
<1>2. /\ script # <<>> /\ ~ script[1].fails => by = script
      /\ ~ (script # <<>> /\ ~ script[1].fails) => by = <<>> \/ (builtin # <<>> /\ by = <<builtin[1]>>)
  <2>1. FallsBack(runs, cmd, sub, c)
    BY FallbackBy
  <2> QED BY <2>1, Zenon DEF FallsBack
<1>3. builtin # <<>> => builtin[1] \in Range(Builtins) /\ builtin[1].cmd = cmd
  <2> SUFFICES ASSUME builtin # <<>> PROVE builtin[1] \in Range(Builtins) /\ builtin[1].cmd = cmd
    OBVIOUS
  <2>1. PICK i \in 1 .. Len(Builtins) : builtin = <<Builtins[i]>> /\ BestAt(Builtins, cmd, sub, i)
    BY <1>1 DEF PicksBest, PickBuiltin
  <2>2. builtin[1] = Builtins[i] /\ Matches(Builtins[i], cmd, sub) /\ Builtins[i] \in Range(Builtins)
    BY <2>1, BuiltinsType, RangeStep DEF BestAt
  <2> QED BY <2>2 DEF Matches
<1>4. DOMAIN runs = 1 .. Len(runs)
  OBVIOUS
<1> HIDE DEF builtin, by, cmd, sub
<1>5. CASE match = {} \/ fail
  <2>1. ~ (script # <<>> /\ ~ script[1].fails)
    <3>1. CASE script = <<>>
      BY <3>1
    <3>2. ASSUME NEW i \in 1 .. Len(runs), script = <<runs[i]>>, BestAt(runs, cmd, sub, i)
          PROVE  script[1].fails
      <4>1. script[1] = runs[i] /\ i \in match
        BY <1>4, <3>2 DEF BestAt
      <4> QED BY <1>5, <4>1
    <3> QED BY <1>1, <3>1, <3>2 DEF PicksBest
  <2>2. by = <<>> \/ (builtin # <<>> /\ by = <<builtin[1]>>)
    BY <1>2, <2>1
  <2>3. by # <<>> => by[1] \in Range(Builtins) /\ by[1].cmd = cmd
    BY <1>3, <2>2
  <2> QED BY <1>5, <2>3 DEF SoundFor, by, cmd, sub
<1>6. CASE ~ (match = {} \/ fail)
  <2>1. ~ NoneMatches(runs, cmd, sub)
    BY <1>4, <1>6 DEF NoneMatches
  <2>2. PICK i \in 1 .. Len(runs) : script = <<runs[i]>> /\ BestAt(runs, cmd, sub, i)
    BY <1>1, <2>1 DEF PicksBest
  <2>3. script # <<>> /\ script[1] = runs[i] /\ ~ runs[i].fails /\ i \in match
    BY <1>4, <1>6, <2>2 DEF BestAt
  <2>4. by = <<runs[i]>>
    BY <1>2, <2>2, <2>3
  <2>5. \A j \in match : ~ Beats(runs[j], runs[i]) /\ (j < i => Beats(runs[i], runs[j]))
    BY <1>4, <2>2, BeatsIs DEF BestAt
  <2> QED BY <1>6, <2>3, <2>4, <2>5 DEF SoundFor, by, cmd, sub
<1> QED BY <1>5, <1>6

(* For any scripts of the project and any global ones.                     *)
LEMMA PickIsSound == PickSound
<1>1. ASSUME NEW project \in Scripts, NEW global \in Scripts, NEW fail \in BOOLEAN, NEW b \in Range(Builtins)
      PROVE  SoundFor(Tried(LoadDirs(Tagged(project, "project"), Tagged(global, "global")), fail), b, fail,
                      CHOOSE c \in Cases : TRUE)
  <2> DEFINE hs == LoadDirs(Tagged(project, "project"), Tagged(global, "global"))
  <2>1. project \in Seq(Seq(Specs)) /\ global \in Seq(Seq(Specs))
    BY FilterAssumption
  <2>2. hs \in Seq(Registered)
    <3>1. Tagged(project, "project") \in Seq(OneScript) /\ Tagged(global, "global") \in Seq(OneScript)
      BY <2>1, TagType DEF Tiers
    <3> QED BY <3>1, LoadDirsType
  <2> HIDE DEF hs
  <2> DEFINE runs == Tried(hs, fail)
             any == CHOOSE c \in Cases : TRUE
  <2>3. runs \in Seq(Registered) /\ \A i \in 1 .. Len(runs) : runs[i].fails = fail
    BY <2>2, TriedType
  <2> HIDE DEF runs, any
  <2>4. SoundFor(runs, b, fail, any)
    BY <2>3, PicksSoundly
  <2> QED BY <2>4 DEF runs, hs, any
<1> QED BY <1>1, Zenon DEF PickSound, SoundFor, Tried, Tagged


-----------------------------------------------------------------------------
(* What a built-in keeps of the lines.                                      *)
IsText(S) == {l \in S : l.kind = "text"}

(* The content of lines of S, by a set that does not depend on the lines.  *)
LEMMA ContentIs ==
  ASSUME NEW S, NEW u \in Seq(S)
  PROVE  Content(u) = Sift(u, IsText(S))
<1> DEFINE V == {l \in Range(u) : l.kind = "text"}
           W == IsText(S)
<1>1. \A i \in 1 .. Len(u) : u[i] \in Range(u) /\ u[i] \in S
  BY RangeStep
<1>2. \A i \in 1 .. Len(u) : u[i] \in V <=> u[i] \in W
  BY <1>1 DEF IsText
<1>3. Content(u) = Sift(u, V)
  BY DEF Content
<1> HIDE DEF V, W
<1>4. Sift(u, V) = Sift(u, W)
  BY <1>2, SiftSame
<1> QED BY <1>3, <1>4 DEF W

(* The same for GrepOut.                                                   *)
LEMMA GrepOutIs ==
  ASSUME NEW S, NEW u \in Seq(S), NEW kinds
  PROVE  GrepOut(u, kinds) = Sift(u, {l \in S : l.kind \notin kinds})
<1> DEFINE V == {l \in Range(u) : l.kind \notin kinds}
           W == {l \in S : l.kind \notin kinds}
<1>1. \A i \in 1 .. Len(u) : u[i] \in Range(u) /\ u[i] \in S
  BY RangeStep
<1>2. \A i \in 1 .. Len(u) : u[i] \in V <=> u[i] \in W
  BY <1>1
<1>3. GrepOut(u, kinds) = Sift(u, V)
  BY DEF GrepOut
<1> HIDE DEF V, W
<1>4. Sift(u, V) = Sift(u, W)
  BY <1>2, SiftSame
<1> QED BY <1>3, <1>4 DEF W

(* What is dropped for its kind is no content. *)
LEMMA GrepOutKeeps ==
  ASSUME NEW S, NEW u \in Seq(S), NEW kinds, "text" \notin kinds
  PROVE  GrepOut(u, kinds) \in Seq(S) /\ Content(GrepOut(u, kinds)) = Content(u)
<1> DEFINE W == {l \in S : l.kind \notin kinds}
           V == IsText(S)
           g == GrepOut(u, kinds)
<1>1. g = Sift(u, W) /\ g \in Seq(S) /\ Content(u) = Sift(u, V)
  <2>1. g = Sift(u, W)
    BY GrepOutIs
  <2>2. Content(u) = Sift(u, V)
    BY ContentIs
  <2> HIDE DEF W
  <2>3. Sift(u, W) \in Seq(S)
    BY SiftTyped
  <2> QED BY <2>1, <2>2, <2>3
<1>2. Content(g) = Sift(g, V)
  <2> HIDE DEF g
  <2> QED BY <1>1, ContentIs
<1>3. Sift(Sift(u, W), V) = Sift(u, W \cap V)
  BY SiftTwice
<1>4. W \cap V = V
  BY DEF IsText
<1> QED BY <1>1, <1>2, <1>3, <1>4

(* Content, of two outputs in a row.                                       *)
LEMMA ContentStep ==
  ASSUME NEW S, NEW u \in Seq(S), NEW v \in Seq(S)
  PROVE  /\ Content(u) \in Seq(S) /\ Content(u \o v) = Content(u) \o Content(v)
         /\ Range(Content(u)) = {l \in Range(u) : l.kind = "text"}
<1>1. u \o v \in Seq(S)
  BY ConcatProperties
<1>2. Content(u) = Sift(u, IsText(S)) /\ Content(v) = Sift(v, IsText(S))
  BY ContentIs
<1>3. Content(u \o v) = Sift(u \o v, IsText(S))
  <2> DEFINE w == u \o v
  <2> HIDE DEF w
  <2>1. w \in Seq(S)
    BY <1>1 DEF w
  <2>2. Content(w) = Sift(w, IsText(S))
    BY <2>1, ContentIs
  <2> QED BY <2>2 DEF w
<1>4. Sift(u \o v, IsText(S)) = Sift(u, IsText(S)) \o Sift(v, IsText(S))
  BY SiftConcat
<1>5. Range(Content(u)) = Range(u) \cap {l \in Range(u) : l.kind = "text"}
  BY SiftRange DEF Content
<1> QED BY <1>2, <1>3, <1>4, <1>5, SiftTyped

(* The lines of content are those of Content.                              *)
LEMMA TextIdsIs ==
  ASSUME NEW S, NEW u \in Seq(S)
  PROVE  TextIds(u) = {l.id : l \in Range(Content(u))}
<1>1. Range(Content(u)) = {l \in Range(u) : l.kind = "text"}
  BY ContentStep
<1>2. Range(u) = {u[i] : i \in DOMAIN u}
  BY DEF Range
<1> QED BY <1>1, <1>2 DEF TextIds

(* A line that is not a gap. *)
Plain == LineMenu \cup [kind : {"times"}, id : Nat, width : Nat, n : Nat]
GapLine == [kind : {"gap"}, id : {0}, width : Nat, n : Int]

(* What FilterAssumption says of the lines a command prints, and of a gap. *)
LEMMA LinesAre ==
  /\ \A l \in LineMenu : /\ l \in Plain /\ l.kind \in {"text", "noise", "prose", "blank"} /\ l.id \in Nat /\ l.width \in Nat
                         /\ l.kind = "text" => l.width > 0
  /\ \A l \in Plain : l.kind # "gap" /\ l.width \in Nat /\ l.id \in Nat
  /\ Wide(LineMenu) /\ Wide(Plain)
  /\ \A n \in Int : Gap(n).kind = "gap" /\ Gap(n).n = n
<1>1. \A l \in LineMenu : /\ l.kind \in {"text", "noise", "prose", "blank"} /\ l.id \in Nat /\ l.width \in Nat
                          /\ l.kind = "text" => l.width > 0
  BY FilterAssumption DEF PrintedLine
<1>2. ASSUME NEW l \in Plain PROVE l.kind # "gap" /\ l.width \in Nat /\ l.id \in Nat
  <2>1. CASE l \in LineMenu
    BY <1>1, <2>1
  <2>2. CASE l \in [kind : {"times"}, id : Nat, width : Nat, n : Nat]
    BY <2>2
  <2> QED BY <2>1, <2>2 DEF Plain
<1>3. \A l \in LineMenu : l \in Plain
  BY DEF Plain
<1>4. \A n \in Int : Gap(n).kind = "gap" /\ Gap(n).n = n
  BY DEF Gap
<1>5. Wide(LineMenu) /\ Wide(Plain)
  BY <1>1, <1>2 DEF Wide
<1> QED BY <1>1, <1>2, <1>3, <1>4, <1>5, Zenon

(* Content that is in an output is shown, and shown in front of or behind  *)
(* another output.                                                         *)
LEMMA IdsShownOf ==
  ASSUME NEW S, NEW u \in Seq(S), NEW v \in Seq(S)
  PROVE  TextIds(u) \subseteq IdsShown(u) /\ IdsShown(u) \cup IdsShown(v) \subseteq IdsShown(u \o v)
<1>1. TextIds(u) \subseteq IdsShown(u)
  BY DEF TextIds, IdsShown
<1> DEFINE w == u \o v
<1>2. /\ Len(u) \in Nat /\ Len(v) \in Nat /\ DOMAIN u = 1 .. Len(u) /\ DOMAIN v = 1 .. Len(v)
      /\ DOMAIN w = 1 .. Len(u) + Len(v)
      /\ \A i \in 1 .. Len(u) : w[i] = u[i]
      /\ \A i \in 1 .. Len(v) : w[Len(u) + i] = v[i]
  <2>1. w \in Seq(S) /\ Len(w) = Len(u) + Len(v)
    BY ConcatProperties
  <2>2. ASSUME NEW i \in 1 .. Len(v) PROVE w[Len(u) + i] = v[i]
    <3>1. Len(u) + i \in 1 .. Len(u) + Len(v) /\ Len(u) + i > Len(u) /\ (Len(u) + i) - Len(u) = i
      BY LenProperties
    <3> QED BY <3>1, ConcatProperties
  <2>3. ASSUME NEW i \in 1 .. Len(u) PROVE w[i] = u[i]
    <3>1. i \in 1 .. Len(u) + Len(v) /\ i <= Len(u)
      BY LenProperties
    <3> QED BY <3>1, ConcatProperties
  <2> HIDE DEF w
  <2> QED BY <2>1, <2>2, <2>3, LenProperties
<1> HIDE DEF w
<1>3. \A i \in 1 .. Len(u) : i \in DOMAIN w /\ w[i] = u[i]
  BY <1>2
<1>4. \A i \in 1 .. Len(v) : Len(u) + i \in DOMAIN w /\ w[Len(u) + i] = v[i]
  BY <1>2
<1>5. IdsShown(u) \subseteq IdsShown(w)
  BY <1>2, <1>3 DEF IdsShown
<1>6. IdsShown(v) \subseteq IdsShown(w)
  BY <1>2, <1>4 DEF IdsShown
<1> QED BY <1>1, <1>5, <1>6 DEF w

Gaps(u) == Sift(u, {l \in Range(u) : l.kind = "gap"})

(* Lines that are no gaps hold none.                                       *)
LEMMA NoGaps ==
  ASSUME NEW u \in Seq(Plain)
  PROVE  Gaps(u) = <<>>
<1> DEFINE V == {l \in Range(u) : l.kind = "gap"}
           g == Sift(u, V)
<1>1. g \in Seq(Plain) /\ Range(g) = Range(u) \cap V /\ Range(u) \subseteq Plain
  BY SiftTyped, SiftRange, RangeStep
<1>2. Range(g) = {}
  BY <1>1, LinesAre
<1> HIDE DEF g
<1>3. Len(g) \in Nat /\ \A i \in 1 .. Len(g) : g[i] \in Range(g)
  BY <1>1, RangeStep
<1>4. Len(g) = 0
  <2>1. Len(g) # 0 => 1 \in 1 .. Len(g)
    BY <1>3
  <2> QED BY <1>2, <1>3, <2>1
<1>5. g = <<>>
  BY <1>1, <1>4, EmptySeq
<1> QED BY <1>5 DEF g, Gaps

(* Two pieces of output around a gap hold that gap and no other.           *)
LEMMA OneGap ==
  ASSUME NEW u \in Seq(Plain), NEW v \in Seq(Plain), NEW n \in Int
  PROVE  LET w == (u \o <<Gap(n)>>) \o v
         IN  /\ Gaps(w) = <<Gap(n)>> /\ Len(w) = Len(u) + Len(v) + 1
             /\ \E i \in DOMAIN w : w[i].kind = "gap"
<1> DEFINE g == Gap(n)
           S == Plain \cup {g}
           w == (u \o <<g>>) \o v
           V == {l \in S : l.kind = "gap"}
<1>1. u \in Seq(S) /\ v \in Seq(S) /\ <<g>> \in Seq(S) /\ g \in S /\ g.kind = "gap"
  BY SeqMonotonic, LinesAre
<1> HIDE DEF g
<1>2. u \o <<g>> \in Seq(S) /\ Len(u \o <<g>>) = Len(u) + 1 /\ Len(u) \in Nat /\ Len(v) \in Nat
  BY <1>1
<1>3. w \in Seq(S) /\ Len(w) = Len(u) + Len(v) + 1
  BY <1>1, <1>2
<1>4. w[Len(u) + 1] = g /\ Len(u) + 1 \in DOMAIN w
  <2>1. Len(u) + 1 \in 1 .. Len(w) /\ Len(u) + 1 \in 1 .. Len(u \o <<g>>) /\ DOMAIN w = 1 .. Len(w)
    BY <1>2, <1>3
  <2>2. (u \o <<g>>)[Len(u) + 1] = g
    BY <1>1, <1>2
  <2>3. w[Len(u) + 1] = (u \o <<g>>)[Len(u) + 1]
    BY <1>1, <1>2, <2>1
  <2> QED BY <2>1, <2>2, <2>3
<1>5. ASSUME NEW t \in Seq(S) PROVE Gaps(t) = Sift(t, V)
  <2> DEFINE W == {l \in Range(t) : l.kind = "gap"}
  <2>1. \A i \in 1 .. Len(t) : t[i] \in Range(t) /\ t[i] \in S
    BY RangeStep
  <2>2. \A i \in 1 .. Len(t) : t[i] \in W <=> t[i] \in V
    BY <2>1
  <2>3. Gaps(t) = Sift(t, W)
    BY DEF Gaps
  <2> HIDE DEF V, W, S
  <2> QED BY <2>2, <2>3, SiftSame
<1>6. Sift(u, V) = <<>> /\ Sift(v, V) = <<>>
  BY <1>1, <1>5, NoGaps
<1>7. Sift(<<g>>, V) = <<g>>
  <2>1. <<g>> = Append(<<>>, g) /\ <<>> \in Seq(S) /\ g \in V
    BY <1>1
  <2> HIDE DEF V, S
  <2>2. Sift(Append(<<>>, g), V) = Append(Sift(<<>>, V), g)
    BY <1>1, <2>1, SiftAppend
  <2> QED BY <2>1, <2>2, SiftEmpty
<1>8. Sift(w, V) = (Sift(u, V) \o Sift(<<g>>, V)) \o Sift(v, V)
  <2> HIDE DEF V, S
  <2>1. Sift(u \o <<g>>, V) = Sift(u, V) \o Sift(<<g>>, V)
    BY <1>1, SiftConcat
  <2> DEFINE x == u \o <<g>>
  <2>2. x \in Seq(S)
    BY <1>2
  <2> HIDE DEF x
  <2>3. Sift(x \o v, V) = Sift(x, V) \o Sift(v, V)
    BY <1>1, <2>2, SiftConcat
  <2> QED BY <2>1, <2>3 DEF x
<1>9. (<<>> \o <<g>>) \o <<>> = <<g>>
  BY <1>1, ConcatEmptySeq
<1> HIDE DEF w, V
<1>10. Gaps(w) = <<g>>
  BY <1>3, <1>5, <1>6, <1>7, <1>8, <1>9
<1>11. \E i \in DOMAIN w : w[i].kind = "gap"
  BY <1>1, <1>4
<1> QED BY <1>3, <1>10, <1>11 DEF w, g


(* A sequence cut in two. *)
LEMMA CutAt ==
  ASSUME NEW S, NEW s \in Seq(S), NEW n \in 0 .. Len(s)
  PROVE  /\ SubSeq(s, 1, n) \in Seq(S) /\ Len(SubSeq(s, 1, n)) = n
         /\ SubSeq(s, n + 1, Len(s)) \in Seq(S) /\ Len(SubSeq(s, n + 1, Len(s))) = Len(s) - n
         /\ s = SubSeq(s, 1, n) \o SubSeq(s, n + 1, Len(s))
<1>1. Len(s) \in Nat /\ n \in Nat /\ n <= Len(s) /\ \A i \in 1 .. Len(s) : s[i] \in S
  OBVIOUS
<1>2. SubSeq(s, 1, n) \in Seq(S) /\ Len(SubSeq(s, 1, n)) = n
  <2>1. n \in Int /\ 1 \in Int /\ (\A i \in 1 .. n : s[i] \in S) /\ n - 1 + 1 = n /\ (1 <= n \/ n = 0)
    BY <1>1
  <2>2. /\ SubSeq(s, 1, n) \in Seq(S) /\ Len(SubSeq(s, 1, n)) = IF 1 <= n THEN n - 1 + 1 ELSE 0
    BY <2>1, SubSeqProperties
  <2> QED BY <2>1, <2>2
<1>3. SubSeq(s, n + 1, Len(s)) \in Seq(S) /\ Len(SubSeq(s, n + 1, Len(s))) = Len(s) - n
  <2> DEFINE a == n + 1
             z == Len(s)
  <2>1. a \in Int /\ z \in Int /\ (\A i \in a .. z : s[i] \in S) /\ z - a + 1 = z - n /\ (a <= z \/ z = n)
    BY <1>1
  <2>4. a <= z => z - a + 1 = z - n
    BY <2>1
  <2>5. ~ (a <= z) => z - n = 0
    BY <1>1
  <2> HIDE DEF a, z
  <2>2. /\ SubSeq(s, a, z) \in Seq(S) /\ Len(SubSeq(s, a, z)) = IF a <= z THEN z - a + 1 ELSE 0
    BY <2>1, SubSeqProperties
  <2>3. Len(SubSeq(s, a, z)) = z - n
    BY <2>2, <2>4, <2>5
  <2> QED BY <2>2, <2>3 DEF a, z
<1>4. s = SubSeq(s, 1, n) \o SubSeq(s, n + 1, Len(s))
  <2>1. /\ 1 \in 1 .. Len(s) + 1 /\ n \in 1 - 1 .. Len(s) /\ Len(s) \in n .. Len(s)
    BY <1>1
  <2>2. SubSeq(s, 1, n) \o SubSeq(s, n + 1, Len(s)) = SubSeq(s, 1, Len(s))
    BY <2>1, ConcatAdjacentSubSeq
  <2>3. SubSeq(s, 1, Len(s)) = s
    BY SubSeqFull
  <2> QED BY <2>2, <2>3
<1> QED BY <1>2, <1>3, <1>4

(* The first n lines, and what they leave. *)
Begins(k, s, S) == \E rest \in Seq(S) : s = k \o rest
(* The head of an output is how it begins, of the length asked for where   *)
(* there is more.                                                          *)
LEMMA KeptIs ==
  ASSUME NEW S, NEW s \in Seq(S), NEW n \in Nat
  PROVE  /\ Kept(s, n) \in Seq(S)
         /\ n < Len(s) => Len(Kept(s, n)) = n
         /\ n >= Len(s) => Kept(s, n) = s
         /\ Begins(Kept(s, n), s, S)
<1>1. Len(s) \in Nat
  OBVIOUS
<1>2. CASE n < Len(s)
  <2>1. Kept(s, n) = SubSeq(s, 1, n) /\ n \in 0 .. Len(s) /\ ~ (n >= Len(s))
    BY <1>1, <1>2 DEF Kept
  <2> DEFINE k == SubSeq(s, 1, n)
             rest == SubSeq(s, n + 1, Len(s))
  <2>2. k \in Seq(S) /\ Len(k) = n /\ rest \in Seq(S) /\ s = k \o rest
    BY <2>1, CutAt
  <2>3. Kept(s, n) = k
    BY <2>1
  <2> HIDE DEF k, rest
  <2>4. Begins(k, s, S)
    BY <2>2 DEF Begins
  <2> QED BY <2>1, <2>2, <2>3, <2>4
<1>3. CASE ~ (n < Len(s))
  <2>1. Kept(s, n) = SubSeq(s, 1, Len(s))
    BY <1>3 DEF Kept
  <2>2. Kept(s, n) = s /\ s \o <<>> = s /\ <<>> \in Seq(S)
    BY <2>1, SubSeqFull, ConcatEmptySeq
  <2>3. Begins(s, s, S)
    BY <2>2 DEF Begins
  <2> QED BY <1>3, <2>2, <2>3
<1> QED BY <1>2, <1>3

(* The tail of an output has the length asked for.                         *)
LEMMA LastOnesIs ==
  ASSUME NEW S, NEW s \in Seq(S), NEW n \in Nat, n < Len(s)
  PROVE  LastOnes(s, n) \in Seq(S) /\ Len(LastOnes(s, n)) = n
<1> DEFINE m == Len(s) - n
<1>1. Len(s) \in Nat /\ m \in 0 .. Len(s) /\ ~ (n >= Len(s)) /\ Len(s) - m = n /\ m + 1 = Len(s) - n + 1
  OBVIOUS
<1>2. LastOnes(s, n) = SubSeq(s, m + 1, Len(s))
  BY <1>1 DEF LastOnes
<1> HIDE DEF m
<1>3. SubSeq(s, m + 1, Len(s)) \in Seq(S) /\ Len(SubSeq(s, m + 1, Len(s))) = Len(s) - m
  BY <1>1, CutAt
<1> QED BY <1>1, <1>2, <1>3

(* u, a gap of n lines, and v, which together make N. *)
Gapped(w, S, N) ==
  \E u \in Seq(S), v \in Seq(S), n \in Int : w = (u \o <<Gap(n)>>) \o v /\ Len(u) + Len(v) + n = N

(* Sandwich leaves an output alone, or replaces some lines by a gap with   *)
(* their number.                                                           *)
LEMMA SandwichIs ==
  ASSUME NEW S, NEW s \in Seq(S), NEW first \in Nat, NEW last \in Nat
  PROVE  Sandwich(s, first, last) = s \/ Gapped(Sandwich(s, first, last), S, Len(s))
<1>1. Len(s) \in Nat
  OBVIOUS
<1>2. CASE Len(s) <= first + last
  BY <1>2 DEF Sandwich
<1>3. CASE ~ (Len(s) <= first + last)
  <2> DEFINE u == Kept(s, first)
             v == LastOnes(s, last)
             n == Len(s) - first - last
  <2>1. first < Len(s) /\ last < Len(s) /\ n \in Int
    BY <1>1, <1>3
  <2>2. u \in Seq(S) /\ Len(u) = first /\ v \in Seq(S) /\ Len(v) = last
    BY <2>1, KeptIs, LastOnesIs
  <2>3. Len(u) + Len(v) + n = Len(s)
    BY <1>1, <2>2
  <2>4. Sandwich(s, first, last) = (u \o <<Gap(n)>>) \o v
    BY <1>3 DEF Sandwich
  <2> HIDE DEF u, v, n
  <2> QED BY <2>1, <2>2, <2>3, <2>4 DEF Gapped
<1> QED BY <1>2, <1>3

(* More in front of a gap. *)
LEMMA GappedAfter ==
  ASSUME NEW S, NEW t \in Seq(S), NEW w, NEW N \in Int, Gapped(w, S, N)
  PROVE  Gapped(t \o w, S, Len(t) + N)
<1>1. PICK u \in Seq(S), v \in Seq(S), n \in Int : w = (u \o <<Gap(n)>>) \o v /\ Len(u) + Len(v) + n = N
  BY DEF Gapped
<1> DEFINE g == Gap(n)
           T == S \cup {g}
<1>2. t \in Seq(T) /\ u \in Seq(T) /\ v \in Seq(T) /\ <<g>> \in Seq(T)
  BY SeqMonotonic
<1> HIDE DEF T
<1>3. u \o <<g>> \in Seq(T) /\ t \o u \in Seq(T) /\ t \o u \in Seq(S) /\ Len(t \o u) = Len(t) + Len(u)
  BY <1>2, ConcatProperties
<1>4. t \o ((u \o <<g>>) \o v) = (t \o (u \o <<g>>)) \o v
  BY <1>2, <1>3, ConcatAssociative
<1>5. t \o (u \o <<g>>) = (t \o u) \o <<g>>
  BY <1>2, ConcatAssociative
<1>6. Len(t \o u) + Len(v) + n = Len(t) + N
  <2>1. Len(t) \in Nat /\ Len(u) \in Nat /\ Len(v) \in Nat /\ n \in Int /\ Len(u) + Len(v) + n = N
    BY <1>1
  <2> DEFINE a == Len(t)
             b == Len(u)
             d == Len(v)
  <2>2. Len(t \o u) = a + b
    BY <1>3
  <2>3. a \in Nat /\ b \in Nat /\ d \in Nat /\ b + d + n = N
    BY <2>1
  <2> HIDE DEF a, b, d
  <2>4. (a + b) + d + n = a + N
    BY <2>3
  <2> QED BY <2>2, <2>4 DEF a, d
<1>7. t \o w = ((t \o u) \o <<g>>) \o v
  BY <1>1, <1>4, <1>5
<1> DEFINE x == t \o u
<1> HIDE DEF x
<1>8. x \in Seq(S) /\ t \o w = (x \o <<Gap(n)>>) \o v /\ Len(x) + Len(v) + n = Len(t) + N
  BY <1>3, <1>6, <1>7 DEF x, g
<1> QED BY <1>8 DEF Gapped

(* Bytes of lines. *)
LEMMA TextAppend ==
  ASSUME NEW S, Wide(S), NEW s \in Seq(S), NEW x \in S
  PROVE  Text(s) \in Nat /\ Text(Append(s, x)) = Text(s) + x.width + 1 /\ x.width \in Nat
<1>1. /\ Text(<<>>) = 0
      /\ \A t \in Seq(S) : Text(t) \in Nat
      /\ \A t \in Seq(S), y \in S : Text(Append(t, y)) = Text(t) + y.width + 1
  BY TextStep, Zenon
<1> QED BY <1>1 DEF Wide

(* The bytes of two outputs in a row.                                      *)
LEMMA TextConcat ==
  ASSUME NEW S, Wide(S), NEW s \in Seq(S), NEW t \in Seq(S)
  PROVE  Text(s \o t) = Text(s) + Text(t) /\ Text(s) \in Nat /\ Text(t) \in Nat
<1>0. /\ Text(<<>>) = 0
      /\ \A w \in Seq(S) : Text(w) \in Nat
      /\ \A w \in Seq(S), y \in S : Text(Append(w, y)) = Text(w) + y.width + 1
  BY TextStep, Zenon
<1> DEFINE G == {u \in Seq(S) : Text(s \o u) = Text(s) + Text(u)}
<1>1. <<>> \in G
  <2>1. s \o <<>> = s /\ <<>> \in Seq(S) /\ Text(s) \in Nat
    BY <1>0, ConcatEmptySeq
  <2> QED BY <1>0, <2>1
<1>2. ASSUME NEW u \in Seq(S), NEW x \in S, u \in G PROVE Append(u, x) \in G
  <2>1. s \o u \in Seq(S) /\ s \o Append(u, x) = Append(s \o u, x) /\ Append(u, x) \in Seq(S)
    BY ConcatAppend
  <2>2. Text(s \o u) = Text(s) + Text(u) /\ Text(s) \in Nat /\ Text(u) \in Nat /\ x.width \in Nat
    BY <1>0, <1>2 DEF Wide
  <2>3. Text(Append(s \o u, x)) = Text(s \o u) + x.width + 1 /\ Text(Append(u, x)) = Text(u) + x.width + 1
    BY <1>0, <2>1
  <2>4. Text(s \o Append(u, x)) = Text(s) + Text(Append(u, x))
    BY <2>1, <2>2, <2>3
  <2> QED BY <2>1, <2>4
<1>3. Seq(S) \subseteq G
  <2> HIDE DEF G
  <2> QED BY <1>1, <1>2, AllSequences
<1> QED BY <1>0, <1>3

(* What is sifted from an output has no more bytes.                        *)
LEMMA TextSift ==
  ASSUME NEW S, Wide(S), NEW V, NEW s \in Seq(S)
  PROVE  Text(Sift(s, V)) <= Text(s) /\ Text(Sift(s, V)) \in Nat /\ Text(s) \in Nat
<1>0. /\ Text(<<>>) = 0
      /\ \A w \in Seq(S) : Text(w) \in Nat
      /\ \A w \in Seq(S), y \in S : Text(Append(w, y)) = Text(w) + y.width + 1
  BY TextStep, Zenon
<1> DEFINE G == {u \in Seq(S) : Text(Sift(u, V)) <= Text(u)}
<1>1. <<>> \in G
  <2>1. Sift(<<>>, V) = <<>> /\ <<>> \in Seq(S)
    BY SiftEmpty
  <2> QED BY <1>0, <2>1
<1>2. ASSUME NEW u \in Seq(S), NEW x \in S, u \in G PROVE Append(u, x) \in G
  <2>1. Append(u, x) \in Seq(S) /\ Sift(u, V) \in Seq(S)
    BY SiftTyped
  <2>2. /\ Text(Sift(u, V)) <= Text(u) /\ Text(Sift(u, V)) \in Nat /\ Text(u) \in Nat /\ x.width \in Nat
        /\ Text(Append(u, x)) = Text(u) + x.width + 1
        /\ Text(Append(Sift(u, V), x)) = Text(Sift(u, V)) + x.width + 1
    BY <1>0, <1>2, <2>1 DEF Wide
  <2>3. Sift(Append(u, x), V) = Append(Sift(u, V), x) \/ Sift(Append(u, x), V) = Sift(u, V)
    BY SiftAppend
  <2>4. Text(Sift(Append(u, x), V)) <= Text(Append(u, x))
    <3>1. CASE Sift(Append(u, x), V) = Append(Sift(u, V), x)
      BY <2>2, <3>1
    <3>2. CASE Sift(Append(u, x), V) = Sift(u, V)
      BY <2>2, <3>2
    <3> QED BY <2>3, <3>1, <3>2
  <2> QED BY <2>1, <2>4
<1>3. Seq(S) \subseteq G
  <2> HIDE DEF G
  <2> QED BY <1>1, <1>2, AllSequences
<1> QED BY <1>0, <1>3, SiftTyped

(* Lines with content take two bytes at least. *)
LEMMA ContentWeighs ==
  ASSUME NEW s \in Seq(LineMenu), Content(s) # <<>>
  PROVE  Text(s) >= 2
<1> DEFINE S == LineMenu
           V == IsText(S)
<1>0. /\ Text(<<>>) = 0
      /\ \A w \in Seq(S) : Text(w) \in Nat
      /\ \A w \in Seq(S), y \in S : Text(Append(w, y)) = Text(w) + y.width + 1
  BY LinesAre, TextStep, Zenon
<1>1. Content(s) = Sift(s, V)
  BY ContentIs
<1> DEFINE c == Sift(s, V)
<1>2. c \in Seq(S) /\ c # <<>> /\ Range(c) = Range(s) \cap V
  BY <1>1, SiftTyped, SiftRange
<1> HIDE DEF c
<1>3. PICK t \in Seq(S), x \in S : c = Append(t, x)
  BY <1>2, Grown
<1>4. x \in V
  <2>1. x \in Range(c)
    BY <1>3, RangeStep
  <2> QED BY <1>2, <2>1
<1>5. x.width \in Nat /\ x.width > 0
  BY <1>4, LinesAre DEF IsText
<1>6. Text(c) = Text(t) + x.width + 1 /\ Text(t) \in Nat
  BY <1>0, <1>3
<1>7. Text(c) <= Text(s) /\ Text(c) \in Nat /\ Text(s) \in Nat
  <2> HIDE DEF V
  <2>1. Wide(S)
    BY LinesAre
  <2> HIDE DEF S
  <2>2. Text(Sift(s, V)) <= Text(s) /\ Text(Sift(s, V)) \in Nat /\ Text(s) \in Nat
    BY <2>1, TextSift DEF S
  <2> QED BY <2>2 DEF c
<1> QED BY <1>5, <1>6, <1>7


(* The lines of runs, and what another line makes of them. *)
LinesOf(R) == [i \in DOMAIN R |-> R[i].line]
Once(d, x) == IF d # <<>> /\ Last(d) = x THEN d ELSE Append(d, x)
RunOf(S) == [line : S, n : Nat]

(* Runs have lines, and as many.                                           *)
LEMMA LinesOfIs ==
  ASSUME NEW S, NEW R \in Seq(RunOf(S))
  PROVE  /\ LinesOf(R) \in Seq(S) /\ Len(LinesOf(R)) = Len(R)
         /\ \A i \in 1 .. Len(R) : R[i] \in RunOf(S) /\ R[i].line \in S /\ LinesOf(R)[i] = R[i].line
<1>1. DOMAIN R = 1 .. Len(R) /\ Len(R) \in Nat /\ \A i \in 1 .. Len(R) : R[i] \in RunOf(S)
  <2> DEFINE T == RunOf(S)
  <2>1. R \in Seq(T)
    OBVIOUS
  <2> HIDE DEF T
  <2>2. DOMAIN R = 1 .. Len(R) /\ Len(R) \in Nat /\ \A i \in 1 .. Len(R) : R[i] \in T
    BY <2>1
  <2> QED BY <2>2 DEF T
<1>2. \A i \in 1 .. Len(R) : R[i].line \in S /\ LinesOf(R)[i] = R[i].line
  BY <1>1 DEF LinesOf, RunOf
<1> DEFINE l == LinesOf(R)
<1>3. l \in [1 .. Len(R) -> S]
  BY <1>1, <1>2 DEF LinesOf
<1> HIDE DEF l
<1>4. ASSUME NEW n \in Nat, NEW f \in [1 .. n -> S] PROVE f \in Seq(S) /\ Len(f) = n
  BY SeqDef
<1>5. l \in Seq(S) /\ Len(l) = Len(R)
  BY <1>1, <1>3, <1>4
<1> QED BY <1>1, <1>2, <1>5 DEF l

(* A line added to runs is added to their lines unless it is the last of   *)
(* them.                                                                   *)
LEMMA TalliedLines ==
  ASSUME NEW S, NEW R \in Seq(RunOf(S)), NEW x \in S, Tallied(R, x) \in Seq(RunOf(S))
  PROVE  LinesOf(Tallied(R, x)) = Once(LinesOf(R), x)
<1> DEFINE T == Tallied(R, x)
           l == LinesOf(R)
           m == LinesOf(T)
<1>1. /\ l \in Seq(S) /\ Len(l) = Len(R) /\ Len(R) \in Nat
      /\ \A i \in 1 .. Len(R) : R[i] \in RunOf(S) /\ R[i].line \in S /\ l[i] = R[i].line
  BY LinesOfIs
<1>2. /\ m \in Seq(S) /\ Len(m) = Len(T) /\ Len(T) \in Nat
      /\ \A i \in 1 .. Len(T) : m[i] = T[i].line
  <2> HIDE DEF T
  <2> QED BY LinesOfIs DEF T
<1>3. CASE R # <<>> /\ Last(R).line = x
  <2>0. Len(R) # 0
    BY <1>3
  <2> DEFINE z == Len(R)
             e == [R[z] EXCEPT !.n = @ + 1]
  <2>1. T = [R EXCEPT ![z] = e] /\ z \in 1 .. z
    BY <1>1, <1>3, <2>0 DEF Tallied
  <2>2. e.line = R[z].line
    BY <1>1, <2>1 DEF RunOf
  <2>3. Len(T) = z /\ \A i \in 1 .. z : T[i] = IF i = z THEN e ELSE R[i]
    <3>1. DOMAIN R = 1 .. Len(R)
      OBVIOUS
    <3>2. Len(T) = z
      <4> HIDE DEF e
      <4> QED BY <2>1, <3>1
    <3> HIDE DEF e
    <3>3. ASSUME NEW i \in 1 .. z PROVE T[i] = IF i = z THEN e ELSE R[i]
      BY <2>1, <3>1
    <3> QED BY <3>2, <3>3
  <2>4. \A i \in 1 .. z : m[i] = l[i]
    <3> TAKE i \in 1 .. z
    <3>1. m[i] = T[i].line /\ l[i] = R[i].line
      BY <1>1, <1>2, <2>3
    <3>2. CASE i = z
      BY <2>2, <2>3, <3>1, <3>2
    <3>3. CASE i # z
      BY <2>3, <3>1, <3>3
    <3> QED BY <3>2, <3>3
  <2>5. m = l
    <3> HIDE DEF m, l, T, e
    <3> QED BY <1>1, <1>2, <2>3, <2>4, SeqEqual
  <2>6. l # <<>> /\ Last(l) = x
    <3>1. l[Len(l)] = R[Len(R)].line /\ R[Len(R)].line = x
      BY <1>1, <1>3, <2>1 DEF Last
    <3>2. Len(l) # 0
      BY <1>1, <2>0
    <3> HIDE DEF l
    <3>3. l # <<>>
      BY <3>2
    <3> QED BY <3>1, <3>3 DEF Last
  <2> QED BY <2>5, <2>6 DEF Once
<1>4. CASE ~ (R # <<>> /\ Last(R).line = x)
  <2> DEFINE e == [line |-> x, n |-> 1]
             z == Len(R)
  <2>1. T = Append(R, e) /\ e \in RunOf(S) /\ e.line = x
    BY <1>4 DEF Tallied, RunOf
  <2> HIDE DEF e
  <2>2. Len(T) = z + 1 /\ T[z + 1] = e /\ (\A i \in 1 .. z : T[i] = R[i]) /\ z \in Nat
    <3> DEFINE Q == RunOf(S)
    <3>1. R \in Seq(Q) /\ e \in Q
      BY <2>1
    <3> HIDE DEF Q
    <3>2. Len(Append(R, e)) = z + 1 /\ Append(R, e)[z + 1] = e /\ (\A i \in 1 .. z : Append(R, e)[i] = R[i]) /\ z \in Nat
      BY <3>1
    <3> QED BY <2>1, <3>2
  <2> DEFINE a == Append(l, x)
  <2>3. a \in Seq(S) /\ Len(a) = z + 1 /\ a[z + 1] = x /\ (\A i \in 1 .. z : a[i] = l[i])
    <3> HIDE DEF l
    <3> QED BY <1>1
  <2>4. \A i \in 1 .. z + 1 : m[i] = a[i]
    <3> TAKE i \in 1 .. z + 1
    <3>1. m[i] = T[i].line
      BY <1>2, <2>2
    <3>2. CASE i = z + 1
      BY <2>1, <2>2, <2>3, <3>1, <3>2
    <3>3. CASE i # z + 1
      <4>1. i \in 1 .. z
        BY <2>2, <3>3
      <4> QED BY <1>1, <2>2, <2>3, <3>1, <4>1
    <3> QED BY <3>2, <3>3
  <2>5. m = a
    <3> HIDE DEF m, a, T, e
    <3> QED BY <1>2, <2>2, <2>3, <2>4, SeqEqual
  <2>6. ~ (l # <<>> /\ Last(l) = x)
    <3> SUFFICES ASSUME l # <<>>, Last(l) = x PROVE FALSE
      OBVIOUS
    <3> HIDE DEF l
    <3>1. Len(l) # 0
      BY <1>1, EmptySeq
    <3>2. Len(R) # 0 /\ Len(R) \in 1 .. Len(R) /\ l[Len(R)] = x
      BY <1>1, <3>1 DEF Last
    <3>3. R # <<>> /\ Last(R).line = x
      BY <1>1, <3>2 DEF Last
    <3> QED BY <1>4, <3>3
  <2> QED BY <2>5, <2>6 DEF Once
<1> QED BY <1>3, <1>4

OnceSteps(S) ==
  /\ DropConsecutiveDupes(<<>>) = <<>>
  /\ \A s \in Seq(S) : DropConsecutiveDupes(s) \in Seq(S)
  /\ \A s \in Seq(S), x \in S : DropConsecutiveDupes(Append(s, x)) = Once(DropConsecutiveDupes(s), x)

(* Dropping the repeats, one line at a time.                               *)
LEMMA OnceStep == \A S : OnceSteps(S)
<1> TAKE S
<1>1. \A s : DropConsecutiveDupes(s) = LinesOf(Runs(s))
  BY DEF DropConsecutiveDupes, LinesOf
<1>2. /\ Runs(<<>>) = <<>>
      /\ \A s \in Seq(S) : Runs(s) \in Seq(RunOf(S))
      /\ \A s \in Seq(S), x \in S : Runs(Append(s, x)) = Tallied(Runs(s), x)
  BY RunStep, Zenon DEF RunOf
<1>3. LinesOf(<<>>) = <<>>
  <2>1. <<>> \in Seq(RunOf(S)) /\ Len(<<>>) = 0
    OBVIOUS
  <2> DEFINE l == LinesOf(<<>>)
  <2>2. l \in Seq(S) /\ Len(l) = 0
    <3>1. ASSUME NEW R \in Seq(RunOf(S)), Len(R) = 0 PROVE LinesOf(R) \in Seq(S) /\ Len(LinesOf(R)) = 0
      BY <3>1, LinesOfIs
    <3> QED BY <2>1, <3>1
  <2> HIDE DEF l
  <2>3. l = <<>>
    BY <2>2, EmptySeq
  <2> QED BY <2>3 DEF l
<1>4. ASSUME NEW s \in Seq(S) PROVE DropConsecutiveDupes(s) \in Seq(S)
  BY <1>1, <1>2, LinesOfIs
<1>5. ASSUME NEW s \in Seq(S), NEW x \in S
      PROVE  DropConsecutiveDupes(Append(s, x)) = Once(DropConsecutiveDupes(s), x)
  <2> DEFINE R == Runs(s)
  <2>1. R \in Seq(RunOf(S)) /\ Runs(Append(s, x)) = Tallied(R, x)
    BY <1>2
  <2>2. Tallied(R, x) \in Seq(RunOf(S))
    <3>1. Append(s, x) \in Seq(S)
      OBVIOUS
    <3> QED BY <1>2, <2>1, <3>1
  <2> HIDE DEF R
  <2>3. LinesOf(Tallied(R, x)) = Once(LinesOf(R), x)
    BY <2>1, <2>2, TalliedLines
  <2> QED BY <1>1, <2>1, <2>3 DEF R
<1> QED BY <1>1, <1>2, <1>3, <1>4, <1>5 DEF OnceSteps


DCD(s) == DropConsecutiveDupes(s)

(* Dropping repeats loses no line and keeps the last. *)
LEMMA OnceRange ==
  ASSUME NEW S, NEW s \in Seq(S)
  PROVE  Range(DCD(s)) = Range(s)
<1>0. OnceSteps(S)
  BY OnceStep
<1> DEFINE G == {t \in Seq(S) : Range(DCD(t)) = Range(t)}
<1>1. <<>> \in G
  BY <1>0 DEF OnceSteps, DCD
<1>2. ASSUME NEW t \in Seq(S), NEW x \in S, t \in G PROVE Append(t, x) \in G
  <2> DEFINE d == DCD(t)
  <2>1. d \in Seq(S) /\ Range(d) = Range(t) /\ DCD(Append(t, x)) = Once(d, x)
    BY <1>0, <1>2 DEF OnceSteps, DCD
  <2>2. Append(t, x) \in Seq(S) /\ Range(Append(t, x)) = Range(t) \cup {x}
    BY RangeStep
  <2> HIDE DEF d
  <2>3. CASE d # <<>> /\ Last(d) = x
    <3>1. Len(d) \in Nat /\ Len(d) # 0 /\ Len(d) \in 1 .. Len(d)
      BY <2>1, <2>3, EmptySeq
    <3>2. x \in Range(d)
      BY <2>1, <2>3, <3>1, RangeStep DEF Last
    <3>3. Once(d, x) = d
      BY <2>3 DEF Once
    <3> QED BY <2>1, <2>2, <3>2, <3>3
  <2>4. CASE ~ (d # <<>> /\ Last(d) = x)
    <3>1. Once(d, x) = Append(d, x)
      BY <2>4 DEF Once
    <3>2. Range(Append(d, x)) = Range(d) \cup {x}
      BY <2>1, RangeStep
    <3> QED BY <2>1, <2>2, <3>1, <3>2
  <2> QED BY <2>3, <2>4
<1>3. Seq(S) \subseteq G
  <2> HIDE DEF G
  <2> QED BY <1>1, <1>2, AllSequences
<1> QED BY <1>3

EndsWith(s, x) == s # <<>> /\ Last(s) = x

(* A sequence that grew ends with what was appended.                       *)
LEMMA EndsAppend ==
  ASSUME NEW S, NEW s \in Seq(S), NEW x \in S
  PROVE  EndsWith(Append(s, x), x) /\ \A y : EndsWith(Append(s, x), y) => y = x
<1> DEFINE t == Append(s, x)
<1>1. Len(t) = Len(s) + 1 /\ Len(s) \in Nat /\ t[Len(s) + 1] = x /\ t # <<>>
  OBVIOUS
<1> HIDE DEF t
<1> QED BY <1>1 DEF EndsWith, Last, t

(* Without its repeats a sequence ends with the same line.                 *)
LEMMA OnceEnds ==
  ASSUME NEW S, NEW s \in Seq(S), NEW y, EndsWith(DCD(s), y)
  PROVE  EndsWith(s, y)
<1>0. OnceSteps(S)
  BY OnceStep
<1>1. s # <<>>
  BY <1>0 DEF OnceSteps, DCD, EndsWith
<1>2. PICK t \in Seq(S), x \in S : s = Append(t, x)
  BY <1>1, Grown
<1> DEFINE d == DCD(t)
<1>3. d \in Seq(S) /\ DCD(s) = Once(d, x)
  BY <1>0, <1>2 DEF OnceSteps, DCD
<1> HIDE DEF d
<1>4. EndsWith(DCD(s), x)
  <2>1. CASE d # <<>> /\ Last(d) = x
    BY <1>3, <2>1 DEF Once, EndsWith
  <2>2. CASE ~ (d # <<>> /\ Last(d) = x)
    <3>1. DCD(s) = Append(d, x)
      BY <1>3, <2>2 DEF Once
    <3> QED BY <1>3, <3>1, EndsAppend
  <2> QED BY <2>1, <2>2
<1>5. x = y
  BY <1>4 DEF EndsWith
<1> QED BY <1>2, <1>5, EndsAppend

(* A line of V at the end stays at the end.                                *)
LEMMA SiftEnds ==
  ASSUME NEW S, NEW V, NEW s \in Seq(S), NEW y \in V, EndsWith(s, y)
  PROVE  EndsWith(Sift(s, V), y)
<1>1. PICK t \in Seq(S), x \in S : s = Append(t, x)
  BY Grown DEF EndsWith
<1>2. x = y
  BY <1>1, EndsAppend
<1>3. Sift(s, V) = Append(Sift(t, V), x) /\ Sift(t, V) \in Seq(S)
  BY <1>1, <1>2, SiftAppend, SiftTyped
<1> QED BY <1>2, <1>3, EndsAppend

(* To drop the repeats before the sifting changes nothing after it. *)
LEMMA OnceSift ==
  ASSUME NEW S, NEW V, NEW s \in Seq(S)
  PROVE  DCD(Sift(DCD(s), V)) = DCD(Sift(s, V))
<1>0. OnceSteps(S)
  BY OnceStep
<1> DEFINE G == {t \in Seq(S) : DCD(Sift(DCD(t), V)) = DCD(Sift(t, V))}
<1>1. <<>> \in G
  BY <1>0 DEF OnceSteps, DCD
<1>2. ASSUME NEW t \in Seq(S), NEW x \in S, t \in G PROVE Append(t, x) \in G
  <2> DEFINE d == DCD(t)
             ct == Sift(t, V)
             cd == Sift(d, V)
             a == Append(t, x)
  <2>1. d \in Seq(S) /\ DCD(a) = Once(d, x) /\ a \in Seq(S)
    BY <1>0 DEF OnceSteps, DCD
  <2>2. DCD(cd) = DCD(ct)
    BY <1>2
  <2>3. ct \in Seq(S) /\ cd \in Seq(S)
    <3> HIDE DEF d
    <3> QED BY <2>1, SiftTyped
  <2>4. (x \in V => Sift(a, V) = Append(ct, x)) /\ (x \notin V => Sift(a, V) = ct)
    BY SiftAppend
  <2>5. (x \in V => Sift(Append(d, x), V) = Append(cd, x)) /\ (x \notin V => Sift(Append(d, x), V) = cd)
    <3> HIDE DEF d
    <3> QED BY <2>1, SiftAppend
  <2>6. DCD(Append(ct, x)) = Once(DCD(ct), x) /\ DCD(Append(cd, x)) = Once(DCD(cd), x)
    <3> HIDE DEF ct, cd
    <3> QED BY <1>0, <2>3 DEF OnceSteps, DCD
  <2>7. EndsWith(d, x) /\ x \in V => EndsWith(DCD(ct), x)
    <3> SUFFICES ASSUME EndsWith(d, x), x \in V PROVE EndsWith(DCD(ct), x)
      OBVIOUS
    <3>1. EndsWith(cd, x)
      <4> HIDE DEF d
      <4> QED BY <2>1, SiftEnds
    <3>2. DCD(cd) \in Seq(S) /\ cd # <<>>
      <4> HIDE DEF cd
      <4> QED BY <1>0, <2>3, <3>1 DEF OnceSteps, DCD, EndsWith
    <3>3. PICK w \in Seq(S), z \in S : cd = Append(w, z)
      <4> HIDE DEF cd
      <4> QED BY <2>3, <3>2, Grown
    <3>4. z = x
      <4> HIDE DEF cd
      <4> QED BY <3>1, <3>3, EndsAppend
    <3>5. DCD(cd) = Once(DCD(w), x) /\ DCD(w) \in Seq(S)
      BY <1>0, <3>3, <3>4 DEF OnceSteps, DCD
    <3> DEFINE e == DCD(w)
    <3>6. EndsWith(Once(e, x), x)
      <4>1. e \in Seq(S)
        BY <3>5
      <4> HIDE DEF e
      <4>2. CASE e # <<>> /\ Last(e) = x
        BY <4>2 DEF Once, EndsWith
      <4>3. CASE ~ (e # <<>> /\ Last(e) = x)
        <5>1. Once(e, x) = Append(e, x)
          BY <4>3 DEF Once
        <5> QED BY <4>1, <5>1, EndsAppend
      <4> QED BY <4>2, <4>3
    <3> QED BY <2>2, <3>5, <3>6
  <2>8. CASE EndsWith(d, x)
    <3>1. DCD(a) = d
      BY <2>1, <2>8 DEF Once, EndsWith
    <3>2. DCD(Sift(DCD(a), V)) = DCD(ct)
      BY <2>2, <3>1
    <3>3. CASE x \in V
      <4>1. EndsWith(DCD(ct), x)
        BY <2>7, <2>8, <3>3
      <4>2. Once(DCD(ct), x) = DCD(ct)
        BY <4>1 DEF Once, EndsWith
      <4>3. DCD(Sift(a, V)) = DCD(ct)
        BY <2>4, <2>6, <3>3, <4>2
      <4> QED BY <2>1, <3>2, <4>3
    <3>4. CASE x \notin V
      BY <2>1, <2>4, <3>2, <3>4
    <3> QED BY <3>3, <3>4
  <2>9. CASE ~ EndsWith(d, x)
    <3>1. DCD(a) = Append(d, x)
      BY <2>1, <2>9 DEF Once, EndsWith
    <3>2. CASE x \in V
      <4>1. DCD(Sift(DCD(a), V)) = Once(DCD(cd), x) /\ DCD(Sift(a, V)) = Once(DCD(ct), x)
        BY <2>4, <2>5, <2>6, <3>1, <3>2
      <4> QED BY <2>1, <2>2, <4>1
    <3>3. CASE x \notin V
      <4>1. DCD(Sift(DCD(a), V)) = DCD(cd) /\ DCD(Sift(a, V)) = DCD(ct)
        BY <2>4, <2>5, <3>1, <3>3
      <4> QED BY <2>1, <2>2, <4>1
    <3> QED BY <3>2, <3>3
  <2> QED BY <2>8, <2>9
<1>3. Seq(S) \subseteq G
  <2> HIDE DEF G
  <2> QED BY <1>1, <1>2, AllSequences
<1> QED BY <1>3

(* Dropping repeats keeps the content but for its repeats, and every line  *)
(* of it.                                                                  *)
LEMMA OnceContent ==
  ASSUME NEW S, NEW s \in Seq(S)
  PROVE  /\ DCD(s) \in Seq(S) /\ DCD(Content(DCD(s))) = DCD(Content(s))
         /\ TextIds(s) = TextIds(DCD(s))
<1>1. OnceSteps(S)
  BY OnceStep
<1>2. DCD(s) \in Seq(S)
  BY <1>1 DEF OnceSteps, DCD
<1> DEFINE d == DCD(s)
<1> HIDE DEF d
<1>3. Content(d) = Sift(d, IsText(S)) /\ Content(s) = Sift(s, IsText(S))
  BY <1>2, ContentIs DEF d
<1>4. DCD(Sift(d, IsText(S))) = DCD(Sift(s, IsText(S)))
  BY OnceSift DEF d
<1>5. Range(d) = Range(s)
  BY OnceRange DEF d
<1>6. Range(Content(d)) = {l \in Range(d) : l.kind = "text"} /\ Range(Content(s)) = {l \in Range(s) : l.kind = "text"}
  BY <1>2, ContentStep DEF d
<1>7. TextIds(s) = {l.id : l \in Range(Content(s))} /\ TextIds(d) = {l.id : l \in Range(Content(d))}
  BY <1>2, TextIdsIs DEF d
<1> QED BY <1>2, <1>3, <1>4, <1>5, <1>6, <1>7 DEF d

(* Collapsing repeats hides no line: the first of a run is shown, with its *)
(* count.                                                                  *)
LEMMA CollapseIs ==
  ASSUME NEW s \in Seq(LineMenu)
  PROVE  CollapseRepeats(s) \in Seq(Plain) /\ TextIds(s) \subseteq IdsShown(CollapseRepeats(s))
<1> DEFINE R == Runs(s)
           w == CollapseRepeats(s)
           S == LineMenu
<1>1. R \in Seq(RunOf(S))
  <2>1. /\ Runs(<<>>) = <<>>
        /\ \A t \in Seq(S) : Runs(t) \in Seq(RunOf(S))
        /\ \A t \in Seq(S), x \in S : Runs(Append(t, x)) = Tallied(Runs(t), x)
    BY RunStep, Zenon DEF RunOf
  <2> QED BY <2>1
<1>2. w = [i \in DOMAIN R |-> Times(R[i])] /\ DCD(s) = LinesOf(R)
  BY DEF CollapseRepeats, DCD, DropConsecutiveDupes, LinesOf
<1> HIDE DEF R
<1>3. /\ DOMAIN R = 1 .. Len(R) /\ Len(R) \in Nat /\ LinesOf(R) \in Seq(S) /\ Len(LinesOf(R)) = Len(R)
      /\ \A i \in 1 .. Len(R) : R[i] \in RunOf(S) /\ R[i].line \in S /\ LinesOf(R)[i] = R[i].line
  <2>1. DOMAIN R = 1 .. Len(R) /\ Len(R) \in Nat
    BY <1>1
  <2> HIDE DEF S
  <2> QED BY <1>1, <2>1, LinesOfIs
<1>4. ASSUME NEW r \in RunOf(S)
      PROVE  Times(r) \in Plain /\ Times(r).id = r.line.id /\ (r.line.kind = "text" => Times(r).kind \in {"text", "times"})
  <2>1. r.line \in S /\ r.n \in Nat
    BY DEF RunOf
  <2>2. r.line.id \in Nat /\ r.line.width \in Nat /\ r.line \in Plain /\ TimesWidth \in Nat
    BY <2>1, LinesAre, FilterAssumption
  <2>3. CASE r.n = 1
    BY <2>2, <2>3 DEF Times
  <2>4. CASE r.n # 1
    <3> DEFINE e == [kind |-> "times", id |-> r.line.id, width |-> r.line.width + TimesWidth, n |-> r.n]
    <3>1. Times(r) = e
      BY <2>4 DEF Times
    <3>2. e \in [kind : {"times"}, id : Nat, width : Nat, n : Nat] /\ e.id = r.line.id /\ e.kind = "times"
      BY <2>1, <2>2
    <3> HIDE DEF e
    <3> QED BY <3>1, <3>2 DEF Plain
  <2> QED BY <2>3, <2>4
<1>5. w \in [1 .. Len(R) -> Plain] /\ \A i \in 1 .. Len(R) : w[i] = Times(R[i])
  BY <1>2, <1>3, <1>4
<1> HIDE DEF w
<1>6. w \in Seq(Plain) /\ DOMAIN w = 1 .. Len(R)
  <2>1. ASSUME NEW T, NEW n \in Nat, NEW f \in [1 .. n -> T] PROVE f \in Seq(T) /\ DOMAIN f = 1 .. n
    BY SeqDef
  <2> QED BY <1>3, <1>5, <2>1
<1>7. ASSUME NEW k \in TextIds(s) PROVE k \in IdsShown(w)
  <2>1. k \in TextIds(DCD(s))
    BY OnceContent
  <2>2. PICK j \in DOMAIN LinesOf(R) : LinesOf(R)[j].kind = "text" /\ LinesOf(R)[j].id = k
    BY <1>2, <2>1 DEF TextIds
  <2>3. j \in 1 .. Len(R)
    BY <1>3, <2>2
  <2>4. w[j].id = k /\ w[j].kind \in {"text", "times"} /\ j \in DOMAIN w
    <3>1. R[j] \in RunOf(S) /\ LinesOf(R)[j] = R[j].line /\ w[j] = Times(R[j])
      BY <1>3, <1>5, <2>3
    <3> QED BY <1>4, <1>6, <2>2, <2>3, <3>1
  <2> QED BY <2>4 DEF IdsShown
<1> QED BY <1>6, <1>7 DEF w


(* What an answer may do to an output: keep its content, put one gap in     *)
(* place of lines, be so much shorter that the report tells it, or show     *)
(* repeated lines once.                                                     *)
CaseOK(c) ==
  /\ c.out \in Seq(LineMenu) /\ c.err \in Seq(LineMenu) /\ c.strict \in BOOLEAN /\ c.scoped \in BOOLEAN
Bounded(f, c) == c.scoped /\ f # "ls"
Whole(f, c) == IF f = "grep" THEN CollapseRepeats(c.out) ELSE c.out

KeepsOf(said, ls) == said = Pass \/ \E u \in Seq(LineMenu) : said = Says(u) /\ Content(u) = Content(ls)
OutCut(f, c, a) == ~ c.strict /\ \E w : a.out = Says(w) /\ Gapped(w, Plain, Len(Whole(f, c)))
OutShort(c, a) == ~ c.strict /\ \E u \in Seq(LineMenu) : a.out = Says(u) /\ Text(u) + 2 <= Text(c.out)
OutOnce(c, a) ==
  \E u \in Seq(Plain) : /\ a.out = Says(u) /\ TextIds(c.out) \subseteq IdsShown(u)
                        /\ c.strict => DCD(Content(u)) = DCD(Content(c.out))

Fits(f, c, a) ==
  /\ Bounded(f, c) => a = Passthrough
  /\ \/ KeepsOf(a.out, c.out) /\ KeepsOf(a.err, c.err)
     \/ a.err = Pass /\ (OutCut(f, c, a) \/ OutShort(c, a) \/ OutOnce(c, a))

(* The thresholds are numbers.                                             *)
LEMMA KeepIs ==
  /\ Keep.log.limit \in Nat /\ Keep.blame.limit \in Nat /\ Keep.show.limit \in Nat /\ Keep.show.head \in Nat
  /\ Keep.diff.first \in Nat /\ Keep.diff.last \in Nat /\ Keep.show.first \in Nat /\ Keep.show.last \in Nat
  /\ Keep.ls.first \in Nat /\ Keep.ls.last \in Nat /\ Keep.ls.limit \in Nat
  /\ Keep.find.first \in Nat /\ Keep.find.last \in Nat /\ Keep.find.limit \in Nat
  /\ Keep.grep.first \in Nat /\ Keep.grep.last \in Nat /\ Keep.cat.limit \in Nat
<1> DEFINE K == [limit : Nat, first : Nat, last : Nat]
           H == [limit : Nat, first : Nat, last : Nat, head : Nat]
<1>1. Keep \in [log : K, diff : K, blame : K, ls : K, cat : K, find : K, grep : K, show : H]
  BY FilterAssumption DEF Cuts
<1>2. \A k \in K : k.limit \in Nat /\ k.first \in Nat /\ k.last \in Nat
  OBVIOUS
<1>3. \A k \in H : k.limit \in Nat /\ k.first \in Nat /\ k.last \in Nat /\ k.head \in Nat
  OBVIOUS
<1> HIDE DEF K, H
<1>4. /\ Keep.log \in K /\ Keep.diff \in K /\ Keep.blame \in K /\ Keep.ls \in K /\ Keep.cat \in K
      /\ Keep.find \in K /\ Keep.grep \in K /\ Keep.show \in H
  BY <1>1
<1> QED BY <1>2, <1>3, <1>4

(* What changes nothing fits.                                              *)
LEMMA FitsPass ==
  ASSUME NEW f, NEW c
  PROVE  Fits(f, c, Passthrough)
BY DEF Fits, KeepsOf, Passthrough

(* So does what keeps the content,                                         *)
LEMMA FitsKept ==
  ASSUME NEW f, NEW c, ~ Bounded(f, c), NEW u \in Seq(LineMenu), Content(u) = Content(c.out)
  PROVE  Fits(f, c, Out(u))
<1>1. Out(u).out = Says(u) /\ Out(u).err = Pass
  BY DEF Out
<1> QED BY <1>1 DEF Fits, KeepsOf

(* and, unless in strict mode, what puts one gap for the lines it leaves   *)
(* out.                                                                    *)
LEMMA FitsCut ==
  ASSUME NEW f, NEW c, ~ Bounded(f, c), ~ c.strict, NEW w, Gapped(w, Plain, Len(Whole(f, c)))
  PROVE  Fits(f, c, Out(w))
<1>1. Out(w).out = Says(w) /\ Out(w).err = Pass
  BY DEF Out
<1> QED BY <1>1 DEF Fits, OutCut

(* A gap among printed lines is a gap among lines.                         *)
LEMMA GappedPlain ==
  ASSUME NEW w, NEW N, Gapped(w, LineMenu, N)
  PROVE  Gapped(w, Plain, N)
<1>1. PICK u \in Seq(LineMenu), v \in Seq(LineMenu), n \in Int : w = (u \o <<Gap(n)>>) \o v /\ Len(u) + Len(v) + n = N
  BY DEF Gapped
<1>2. u \in Seq(Plain) /\ v \in Seq(Plain)
  BY LinesAre, SeqMonotonic
<1> QED BY <1>1, <1>2 DEF Gapped

(* Hence Sandwich fits, wherever it is used.                               *)
LEMMA FitsSandwich ==
  ASSUME NEW f, f # "grep", NEW c, CaseOK(c), ~ Bounded(f, c), ~ c.strict, NEW first \in Nat, NEW last \in Nat
  PROVE  Fits(f, c, Out(Sandwich(c.out, first, last)))
<1> DEFINE s == c.out
           w == Sandwich(s, first, last)
<1>1. s \in Seq(LineMenu) /\ Whole(f, c) = s
  BY DEF CaseOK, Whole
<1>2. w = s \/ Gapped(w, LineMenu, Len(s))
  <2> HIDE DEF s
  <2> QED BY <1>1, SandwichIs
<1> HIDE DEF w
<1>3. CASE w = s
  <2>1. Fits(f, c, Out(s))
    BY <1>1, FitsKept
  <2> QED BY <1>3, <2>1 DEF w
<1>4. CASE Gapped(w, LineMenu, Len(s))
  <2>1. Gapped(w, Plain, Len(Whole(f, c)))
    BY <1>1, <1>4, GappedPlain
  <2>2. Fits(f, c, Out(w))
    BY <2>1, FitsCut
  <2> QED BY <2>2 DEF w
<1> QED BY <1>2, <1>3, <1>4

(* An output whose end is left out. *)
LEMMA FitsTruncated ==
  ASSUME NEW f, NEW c, CaseOK(c), ~ Bounded(f, c), ~ c.strict, NEW n \in Nat, NEW u \in Seq(LineMenu),
         Content(u) = Content(Kept(c.out, n)), Text(u) <= Text(Kept(c.out, n))
  PROVE  Fits(f, c, Out(u))
<1> DEFINE k == Kept(c.out, n)
           S == LineMenu
<1>1. c.out \in Seq(S)
  BY DEF CaseOK
<1>2. k \in Seq(S) /\ Begins(k, c.out, S)
  BY <1>1, KeptIs
<1> HIDE DEF k
<1>3. PICK rest \in Seq(S) : c.out = k \o rest
  BY <1>2 DEF Begins
<1>4. Content(c.out) = Content(k) \o Content(rest) /\ Content(k) \in Seq(S)
  BY <1>2, <1>3, ContentStep
<1>5. Text(c.out) = Text(k) + Text(rest) /\ Text(k) \in Nat /\ Text(rest) \in Nat
  BY <1>2, <1>3, LinesAre, TextConcat
<1>6. CASE Content(rest) = <<>>
  <2>1. Content(k) \o <<>> = Content(k)
    BY <1>4, ConcatEmptySeq
  <2>2. Content(u) = Content(c.out)
    BY <1>4, <1>6, <2>1 DEF k
  <2> QED BY <2>2, FitsKept
<1>7. CASE Content(rest) # <<>>
  <2>1. Text(rest) >= 2
    BY <1>3, <1>7, ContentWeighs
  <2>2. Text(u) \in Nat /\ Text(u) <= Text(k)
    <3>1. \A t \in Seq(S) : Text(t) \in Nat
      <4>1. /\ Text(<<>>) = 0
            /\ \A w \in Seq(S) : Text(w) \in Nat
            /\ \A w \in Seq(S), y \in S : Text(Append(w, y)) = Text(w) + y.width + 1
        BY LinesAre, TextStep, Zenon
      <4> QED BY <4>1
    <3> QED BY <3>1 DEF k
  <2>3. Text(u) + 2 <= Text(c.out)
    BY <1>5, <2>1, <2>2
  <2>4. Out(u).out = Says(u) /\ Out(u).err = Pass
    BY DEF Out
  <2>5. OutShort(c, Out(u))
    BY <2>3, <2>4 DEF OutShort
  <2> QED BY <2>4, <2>5 DEF Fits
<1> QED BY <1>6, <1>7

(* Each of the built-ins, from these: git log, whose merges are noise,     *)
LEMMA LogFits ==
  ASSUME NEW c, CaseOK(c)
  PROVE  Fits("log", c, Log(c))
<1>0. c.out \in Seq(LineMenu) /\ c.strict \in BOOLEAN /\ c.scoped \in BOOLEAN
  BY DEF CaseOK
<1>1. CASE c.scoped
  BY <1>1, FitsPass DEF Log
<1>2. CASE ~ c.scoped /\ c.strict
  <2>1. Log(c) = Out(GrepOut(c.out, {"blank"})) /\ ~ Bounded("log", c)
    BY <1>2 DEF Log, Bounded
  <2>2. GrepOut(c.out, {"blank"}) \in Seq(LineMenu) /\ Content(GrepOut(c.out, {"blank"})) = Content(c.out)
    BY <1>0, GrepOutKeeps
  <2> QED BY <2>1, <2>2, FitsKept
<1>3. CASE ~ c.scoped /\ ~ c.strict
  <2> DEFINE n == Keep.log.limit
             k == Kept(c.out, n)
             g == GrepOut(k, {"blank"})
  <2>1. Log(c) = Out(g) /\ ~ Bounded("log", c) /\ n \in Nat
    BY <1>3, KeepIs DEF Log, Bounded
  <2> HIDE DEF n
  <2>2. k \in Seq(LineMenu)
    BY <1>0, <2>1, KeptIs
  <2> HIDE DEF k
  <2>3. g \in Seq(LineMenu) /\ Content(g) = Content(k)
    BY <2>2, GrepOutKeeps
  <2>4. Text(g) <= Text(k)
    <3> DEFINE V == {l \in LineMenu : l.kind \notin {"blank"}}
    <3>1. g = Sift(k, V)
      BY <2>2, GrepOutIs
    <3> HIDE DEF V, g
    <3>2. Text(Sift(k, V)) <= Text(k)
      BY <2>2, LinesAre, TextSift
    <3> QED BY <3>1, <3>2
  <2> HIDE DEF g
  <2>5. Fits("log", c, Out(g))
    BY <1>3, <2>1, <2>3, <2>4, FitsTruncated DEF k
  <2> QED BY <2>1, <2>5
<1> QED BY <1>0, <1>1, <1>2, <1>3

(* git blame,                                                              *)
LEMMA BlameFits ==
  ASSUME NEW c, CaseOK(c)
  PROVE  Fits("blame", c, Blame(c))
<1>0. c.out \in Seq(LineMenu) /\ c.strict \in BOOLEAN /\ c.scoped \in BOOLEAN
  BY DEF CaseOK
<1>1. CASE c.scoped \/ c.strict
  BY <1>1, FitsPass DEF Blame
<1>2. CASE ~ (c.scoped \/ c.strict)
  <2> DEFINE n == Keep.blame.limit
             k == Kept(c.out, n)
  <2>1. Blame(c) = Out(k) /\ ~ Bounded("blame", c) /\ n \in Nat
    BY <1>2, KeepIs DEF Blame, Bounded
  <2> HIDE DEF n
  <2>2. k \in Seq(LineMenu)
    BY <1>0, <2>1, KeptIs
  <2>3. Text(k) <= Text(k)
    <3>1. Text(k) \in Nat
      <4> HIDE DEF k
      <4>1. /\ Text(<<>>) = 0
            /\ \A w \in Seq(LineMenu) : Text(w) \in Nat
            /\ \A w \in Seq(LineMenu), y \in LineMenu : Text(Append(w, y)) = Text(w) + y.width + 1
        BY LinesAre, TextStep, Zenon
      <4> QED BY <2>2, <4>1
    <3> QED BY <3>1
  <2>4. Fits("blame", c, Out(k))
    BY <1>2, <2>1, <2>2, <2>3, FitsTruncated
  <2> QED BY <2>1, <2>4
<1> QED BY <1>1, <1>2


(* git diff,                                                               *)
LEMMA DiffFits ==
  ASSUME NEW c, CaseOK(c)
  PROVE  Fits("diff", c, Diff(c))
<1>1. CASE c.scoped \/ c.strict
  BY <1>1, FitsPass DEF Diff
<1>2. CASE ~ (c.scoped \/ c.strict)
  <2>1. Diff(c) = Out(Sandwich(c.out, Keep.diff.first, Keep.diff.last)) /\ ~ Bounded("diff", c) /\ ~ c.strict
    BY <1>2 DEF Diff, Bounded
  <2> QED BY <2>1, KeepIs, FitsSandwich
<1> QED BY <1>1, <1>2

(* find,                                                                   *)
LEMMA FindFits ==
  ASSUME NEW c, CaseOK(c)
  PROVE  Fits("find", c, Find(c))
<1>1. CASE c.scoped \/ c.strict \/ Len(c.out) <= Keep.find.limit
  BY <1>1, FitsPass DEF Find
<1>2. CASE ~ (c.scoped \/ c.strict \/ Len(c.out) <= Keep.find.limit)
  <2>1. Find(c) = Out(Sandwich(c.out, Keep.find.first, Keep.find.last)) /\ ~ Bounded("find", c) /\ ~ c.strict
    BY <1>2 DEF Find, Bounded
  <2> QED BY <2>1, KeepIs, FitsSandwich
<1> QED BY <1>1, <1>2

(* ls, which is shortened even where the user bounded it,                  *)
LEMMA LsFits ==
  ASSUME NEW c, CaseOK(c)
  PROVE  Fits("ls", c, Ls(c))
<1>1. CASE c.strict \/ Len(c.out) <= Keep.ls.limit
  BY <1>1, FitsPass DEF Ls
<1>2. CASE ~ (c.strict \/ Len(c.out) <= Keep.ls.limit)
  <2>1. Ls(c) = Out(Sandwich(c.out, Keep.ls.first, Keep.ls.last)) /\ ~ Bounded("ls", c) /\ ~ c.strict
    BY <1>2 DEF Ls, Bounded
  <2> QED BY <2>1, KeepIs, FitsSandwich
<1> QED BY <1>1, <1>2

(* git status,                                                             *)
LEMMA StatusFits ==
  ASSUME NEW c, CaseOK(c)
  PROVE  Fits("status", c, Status(c))
<1>0. c.out \in Seq(LineMenu)
  BY DEF CaseOK
<1>1. CASE c.scoped
  BY <1>1, FitsPass DEF Status
<1>2. CASE ~ c.scoped
  <2>1. Status(c) = Out(GrepOut(c.out, {"prose"})) /\ ~ Bounded("status", c)
    BY <1>2 DEF Status, Bounded
  <2>2. GrepOut(c.out, {"prose"}) \in Seq(LineMenu) /\ Content(GrepOut(c.out, {"prose"})) = Content(c.out)
    BY <1>0, GrepOutKeeps
  <2> QED BY <2>1, <2>2, FitsKept
<1> QED BY <1>1, <1>2

(* curl,                                                                   *)
LEMMA CurlFits ==
  ASSUME NEW c, CaseOK(c)
  PROVE  Fits("curl", c, Curl(c))
<1>0. c.out \in Seq(LineMenu)
  BY DEF CaseOK
<1> DEFINE none == c.scoped \/ ~ c.json \/ GrepOut(c.out, {"blank"}) = c.out
<1>1. CASE none
  BY <1>1, FitsPass DEF Curl
<1>2. CASE ~ none
  <2>1. Curl(c) = Out(GrepOut(c.out, {"blank"})) /\ ~ Bounded("curl", c)
    BY <1>2 DEF Curl, Bounded
  <2>2. GrepOut(c.out, {"blank"}) \in Seq(LineMenu) /\ Content(GrepOut(c.out, {"blank"})) = Content(c.out)
    BY <1>0, GrepOutKeeps
  <2> QED BY <2>1, <2>2, FitsKept
<1> QED BY <1>1, <1>2

(* what filters both streams,                                              *)
LEMMA BothFits ==
  ASSUME NEW f, NEW c, CaseOK(c), ~ Bounded(f, c)
  PROVE  Fits(f, c, Both(c, {"noise", "blank"}))
<1> DEFINE kinds == {"noise", "blank"}
<1>0. c.out \in Seq(LineMenu) /\ c.err \in Seq(LineMenu) /\ "text" \notin kinds
  BY DEF CaseOK
<1> HIDE DEF kinds
<1>1. GrepOut(c.out, kinds) \in Seq(LineMenu) /\ Content(GrepOut(c.out, kinds)) = Content(c.out)
  BY <1>0, GrepOutKeeps
<1>2. GrepOut(c.err, kinds) \in Seq(LineMenu) /\ Content(GrepOut(c.err, kinds)) = Content(c.err)
  BY <1>0, GrepOutKeeps
<1> DEFINE a == Both(c, kinds)
<1>3. a.out = Says(GrepOut(c.out, kinds)) /\ a.err = Says(GrepOut(c.err, kinds))
  BY DEF Both
<1> HIDE DEF a
<1>4. KeepsOf(a.out, c.out) /\ KeepsOf(a.err, c.err)
  BY <1>1, <1>2, <1>3 DEF KeepsOf
<1>5. Fits(f, c, a)
  BY <1>4 DEF Fits
<1> QED BY <1>5 DEF a, kinds

(* as the compilers do,                                                    *)
LEMMA CompileFits ==
  ASSUME NEW c, CaseOK(c)
  PROVE  Fits("compile", c, Compile(c))
<1>1. CASE c.scoped \/ c.strict
  BY <1>1, FitsPass DEF Compile
<1>2. CASE ~ (c.scoped \/ c.strict)
  <2>1. Compile(c) = Both(c, {"noise", "blank"}) /\ ~ Bounded("compile", c)
    BY <1>2 DEF Compile, Bounded
  <2> QED BY <2>1, BothFits
<1> QED BY <1>1, <1>2

(* and the package managers,                                               *)
LEMMA PackagesFits ==
  ASSUME NEW c, CaseOK(c)
  PROVE  Fits("packages", c, Packages(c))
<1>1. CASE c.scoped \/ c.strict
  BY <1>1, FitsPass DEF Packages
<1>2. CASE ~ (c.scoped \/ c.strict)
  <2>1. Packages(c) = Both(c, {"noise", "blank"}) /\ ~ Bounded("packages", c)
    BY <1>2 DEF Packages, Bounded
  <2> QED BY <2>1, BothFits
<1> QED BY <1>1, <1>2

(* cat,                                                                    *)
LEMMA CatFits ==
  ASSUME NEW c, CaseOK(c)
  PROVE  Fits("cat", c, Cat(c))
<1>0. c.out \in Seq(LineMenu) /\ Len(c.out) \in Nat
  BY DEF CaseOK
<1>1. CASE c.scoped \/ c.strict \/ Len(c.out) <= Keep.cat.limit
  BY <1>1, FitsPass DEF Cat
<1>2. CASE ~ (c.scoped \/ c.strict \/ Len(c.out) <= Keep.cat.limit)
  <2> DEFINE m == Keep.cat.limit
             u == Kept(c.out, m)
             n == Len(c.out) - m
  <2>1. Cat(c) = Out(Append(u, Gap(n))) /\ ~ Bounded("cat", c) /\ ~ c.strict /\ Whole("cat", c) = c.out
    BY <1>2 DEF Cat, Bounded, Whole
  <2>2. m \in Nat /\ m < Len(c.out) /\ n \in Int /\ m + 0 + n = Len(c.out)
    <3> DEFINE z == Len(c.out)
    <3>1. z \in Nat /\ m \in Nat /\ ~ (z <= m) /\ n = z - m
      BY <1>0, <1>2, KeepIs
    <3> HIDE DEF z, m, n
    <3>2. m \in Nat /\ m < z /\ n \in Int /\ m + 0 + n = z
      BY <3>1
    <3> QED BY <3>2 DEF z
  <2>3. u \in Seq(LineMenu) /\ Len(u) = m
    BY <1>0, <2>2, KeptIs
  <2> HIDE DEF u, n, m
  <2>4. u \in Seq(Plain) /\ <<>> \in Seq(Plain) /\ Len(<<>>) = 0
    BY <2>3, LinesAre, SeqMonotonic
  <2> DEFINE g == Gap(n)
             T == Plain \cup {g}
  <2>5. Append(u, g) = (u \o <<g>>) \o <<>>
    <3>1. u \in Seq(T) /\ g \in T /\ <<>> \in Seq(T) /\ <<g>> \in Seq(T)
      BY <2>4, SeqMonotonic
    <3> HIDE DEF g, T
    <3>2. u \o Append(<<>>, g) = Append(u \o <<>>, g)
      BY <3>1, ConcatAppend
    <3>3. u \o <<>> = u /\ Append(<<>>, g) = <<g>>
      BY <3>1, ConcatEmptySeq
    <3>4. u \o <<g>> \in Seq(T)
      BY <3>1, ConcatProperties
    <3>5. (u \o <<g>>) \o <<>> = u \o <<g>>
      BY <3>4, ConcatEmptySeq
    <3> QED BY <3>2, <3>3, <3>5
  <2> DEFINE w == Append(u, g)
             e == <<>>
  <2>6. w = (u \o <<Gap(n)>>) \o e /\ e \in Seq(Plain) /\ Len(u) + Len(e) + n = Len(c.out)
    BY <2>2, <2>3, <2>4, <2>5
  <2> HIDE DEF w, e
  <2>7. Gapped(w, Plain, Len(c.out))
    BY <2>2, <2>4, <2>6 DEF Gapped
  <2>8. Fits("cat", c, Out(w))
    BY <2>1, <2>7, FitsCut
  <2> QED BY <2>1, <2>8 DEF w
<1> QED BY <1>1, <1>2

(* git show, which keeps its head whole,                                   *)
LEMMA ShowFits ==
  ASSUME NEW c, CaseOK(c)
  PROVE  Fits("show", c, Show(c))
<1>0. c.out \in Seq(LineMenu) /\ Len(c.out) \in Nat
  BY DEF CaseOK
<1>1. CASE c.scoped \/ c.strict
  BY <1>1, FitsPass DEF Show
<1>2. CASE ~ (c.scoped \/ c.strict) /\ Len(c.out) <= Keep.show.limit
  <2>1. Show(c) = Out(c.out) /\ ~ Bounded("show", c)
    BY <1>2 DEF Show, Bounded
  <2> QED BY <1>0, <2>1, FitsKept
<1>3. CASE ~ (c.scoped \/ c.strict) /\ ~ (Len(c.out) <= Keep.show.limit)
  <2> DEFINE s == c.out
             h == Keep.show.head
             k == Kept(s, h)
             body == SubSeq(s, h + 1, Len(s))
             cut == Sandwich(body, Keep.show.first, Keep.show.last)
  <2>1. Show(c) = Out(k \o cut) /\ ~ Bounded("show", c) /\ ~ c.strict /\ Whole("show", c) = s
    BY <1>3 DEF Show, Bounded, Whole
  <2>2. s \in Seq(LineMenu) /\ h \in Nat /\ Len(s) \in Nat
    BY <1>0, KeepIs
  <2> HIDE DEF s, h
  <2>3. k \in Seq(LineMenu) /\ body \in Seq(LineMenu) /\ s = k \o body
    <3>1. CASE h < Len(s)
      <4>1. k = SubSeq(s, 1, h) /\ h \in 0 .. Len(s)
        BY <2>2, <3>1 DEF Kept
      <4> QED BY <2>2, <4>1, CutAt
    <3>2. CASE ~ (h < Len(s))
      <4>1. k = s
        BY <2>2, <3>2, KeptIs
      <4>2. body = <<>>
        <5>1. h + 1 \in Int /\ Len(s) \in Int /\ Len(s) < h + 1
          BY <2>2, <3>2
        <5> QED BY <5>1, SubSeqEmpty
      <4>3. s \o <<>> = s /\ <<>> \in Seq(LineMenu)
        BY <2>2, ConcatEmptySeq
      <4> QED BY <2>2, <4>1, <4>2, <4>3
    <3> QED BY <3>1, <3>2
  <2>4. Len(s) = Len(k) + Len(body)
    BY <2>3, ConcatProperties
  <2> HIDE DEF k, body
  <2>5. cut = body \/ Gapped(cut, LineMenu, Len(body))
    BY <2>3, KeepIs, SandwichIs
  <2> HIDE DEF cut
  <2>6. CASE cut = body
    <3>1. k \o cut \in Seq(LineMenu) /\ k \o cut = s
      BY <2>2, <2>3, <2>6
    <3>2. Fits("show", c, Out(s))
      BY <2>1, <2>2, FitsKept DEF s
    <3> QED BY <2>1, <3>1, <3>2
  <2>7. CASE Gapped(cut, LineMenu, Len(body))
    <3> DEFINE w == k \o cut
    <3>1. Len(body) \in Int
      BY <2>3
    <3>2. Gapped(w, LineMenu, Len(k) + Len(body))
      BY <2>3, <2>7, <3>1, GappedAfter
    <3> HIDE DEF w
    <3>3. Gapped(w, LineMenu, Len(s))
      BY <2>4, <3>2
    <3>4. Gapped(w, Plain, Len(Whole("show", c)))
      BY <2>1, <3>3, GappedPlain
    <3>5. Fits("show", c, Out(w))
      BY <2>1, <3>4, FitsCut
    <3> QED BY <2>1, <3>5 DEF w
  <2> QED BY <2>5, <2>6, <2>7
<1> QED BY <1>1, <1>2, <1>3

(* and grep, whose repeats are collapsed before it is cut.                 *)
LEMMA GrepFits ==
  ASSUME NEW c, CaseOK(c)
  PROVE  Fits("grep", c, Grep(c))
<1> DEFINE once == DropConsecutiveDupes(c.out)
           runs == CollapseRepeats(c.out)
<1>0. c.out \in Seq(LineMenu)
  BY DEF CaseOK
<1>1. once \in Seq(LineMenu) /\ DCD(Content(once)) = DCD(Content(c.out)) /\ TextIds(c.out) = TextIds(once)
  BY <1>0, OnceContent DEF DCD
<1>2. runs \in Seq(Plain) /\ TextIds(c.out) \subseteq IdsShown(runs)
  BY <1>0, CollapseIs
<1>3. Whole("grep", c) = runs
  BY DEF Whole
<1>4. /\ c.scoped => Grep(c) = Passthrough
      /\ ~ c.scoped /\ c.strict => Grep(c) \in {Passthrough, Out(once)}
      /\ ~ c.scoped /\ ~ c.strict =>
           Grep(c) \in {Passthrough, Out(runs), Out(Sandwich(runs, Keep.grep.first, Keep.grep.last))}
  BY DEF Grep
<1> HIDE DEF once, runs
<1>5. CASE Grep(c) = Passthrough
  BY <1>5, FitsPass
<1>6. ASSUME ~ c.scoped, Grep(c) = Out(once) PROVE Fits("grep", c, Grep(c))
  <2>1. once \in Seq(Plain) /\ TextIds(once) \subseteq IdsShown(once)
    <3>1. once \in Seq(Plain)
      BY <1>1, LinesAre, SeqMonotonic
    <3> QED BY <3>1, IdsShownOf
  <2>2. Out(once).out = Says(once) /\ Out(once).err = Pass
    BY DEF Out
  <2>3. OutOnce(c, Out(once))
    BY <1>1, <2>1, <2>2 DEF OutOnce
  <2> QED BY <1>6, <2>2, <2>3 DEF Fits, Bounded
<1>7. ASSUME ~ c.scoped, ~ c.strict, Grep(c) = Out(runs) PROVE Fits("grep", c, Grep(c))
  <2>1. Out(runs).out = Says(runs) /\ Out(runs).err = Pass
    BY DEF Out
  <2>2. OutOnce(c, Out(runs))
    BY <1>2, <1>7, <2>1 DEF OutOnce
  <2> QED BY <1>7, <2>1, <2>2 DEF Fits, Bounded
<1>8. ASSUME ~ c.scoped, ~ c.strict, Grep(c) = Out(Sandwich(runs, Keep.grep.first, Keep.grep.last))
      PROVE  Fits("grep", c, Grep(c))
  <2> DEFINE w == Sandwich(runs, Keep.grep.first, Keep.grep.last)
  <2>1. w = runs \/ Gapped(w, Plain, Len(runs))
    BY <1>2, KeepIs, SandwichIs
  <2> HIDE DEF w
  <2>2. CASE w = runs
    BY <1>7, <1>8, <2>2 DEF w
  <2>3. CASE Gapped(w, Plain, Len(runs))
    <3>1. Gapped(w, Plain, Len(Whole("grep", c))) /\ ~ Bounded("grep", c)
      BY <1>3, <1>8, <2>3 DEF Bounded
    <3> QED BY <1>8, <3>1, FitsCut DEF w
  <2> QED BY <2>1, <2>2, <2>3
<1>9. c.scoped \in BOOLEAN /\ c.strict \in BOOLEAN
  BY DEF CaseOK
<1> QED BY <1>4, <1>5, <1>6, <1>7, <1>8, <1>9

(* Whatever built-in runs, its answer fits.                                *)
LEMMA RunFits ==
  ASSUME NEW f \in Filters, NEW c, CaseOK(c)
  PROVE  Fits(f, c, Run(f, c))
<1>1. CASE f = "log" BY <1>1, LogFits DEF Run
<1>2. CASE f = "diff" BY <1>2, DiffFits DEF Run
<1>3. CASE f = "status" BY <1>3, StatusFits DEF Run
<1>4. CASE f = "blame" BY <1>4, BlameFits DEF Run
<1>5. CASE f = "show" BY <1>5, ShowFits DEF Run
<1>6. CASE f = "compile" BY <1>6, CompileFits DEF Run
<1>7. CASE f = "packages" BY <1>7, PackagesFits DEF Run
<1>8. CASE f = "ls" BY <1>8, LsFits DEF Run
<1>9. CASE f = "cat" BY <1>9, CatFits DEF Run
<1>10. CASE f = "grep" BY <1>10, GrepFits DEF Run
<1>11. CASE f = "find" BY <1>11, FindFits DEF Run
<1>12. CASE f = "curl" BY <1>12, CurlFits DEF Run
<1>13. CASE f = "pass" BY <1>13, FitsPass DEF Run
<1> QED BY <1>1, <1>2, <1>3, <1>4, <1>5, <1>6, <1>7, <1>8, <1>9, <1>10, <1>11, <1>12, <1>13 DEF Filters


(* An answer with lines is not the one that passes them on.                *)
LEMMA SaysIs ==
  ASSUME NEW u
  PROVE  Says(u) # Pass /\ Says(u).lines = u
<1>1. Says(u).kind = "lines" /\ Pass.kind = "pass" /\ Says(u).lines = u
  BY DEF Says, Pass
<1>2. "lines" # "pass"
  OBVIOUS
<1> QED BY <1>1, <1>2

(* What is shown of an answer.                                             *)
LEMMA ShownIs ==
  ASSUME NEW ls, NEW u
  PROVE  Shown(Pass, ls) = ls /\ Shown(Says(u), ls) = u
BY SaysIs DEF Shown

(* What is kept of a stream, as it is shown. *)
LEMMA KeptShown ==
  ASSUME NEW said, NEW ls \in Seq(LineMenu), KeepsOf(said, ls)
  PROVE  /\ Shown(said, ls) \in Seq(LineMenu) /\ Content(Shown(said, ls)) = Content(ls)
         /\ TextIds(ls) \subseteq IdsShown(Shown(said, ls))
<1>1. ASSUME NEW u \in Seq(LineMenu), Shown(said, ls) = u, Content(u) = Content(ls)
      PROVE  TextIds(ls) \subseteq IdsShown(u)
  <2>1. TextIds(ls) = {l.id : l \in Range(Content(ls))} /\ TextIds(u) = {l.id : l \in Range(Content(u))}
    BY TextIdsIs
  <2>2. TextIds(u) \subseteq IdsShown(u)
    BY IdsShownOf
  <2> QED BY <1>1, <2>1, <2>2
<1>2. CASE said = Pass
  <2>1. Shown(said, ls) = ls
    BY <1>2, ShownIs
  <2> QED BY <1>1, <2>1
<1>3. CASE said # Pass
  <2>1. PICK u \in Seq(LineMenu) : said = Says(u) /\ Content(u) = Content(ls)
    BY <1>3 DEF KeepsOf
  <2>2. Shown(said, ls) = u
    BY <2>1, ShownIs
  <2> QED BY <1>1, <2>1, <2>2
<1> QED BY <1>2, <1>3

(* Where the user bounded the output an answer that fits shows all of it.  *)
LEMMA Unbounded ==
  ASSUME NEW b, NEW c, NEW a, Fits(b.filter, c, a), c.scoped, b.filter # "ls"
  PROVE  Shown(a.out, c.out) = c.out /\ Shown(a.err, c.err) = c.err
<1>1. a = Passthrough
  BY DEF Fits, Bounded
<1> QED BY <1>1, ShownIs DEF Passthrough

(* An answer two bytes shorter than the output is reported. *)
LEMMA ShortReported ==
  ASSUME NEW c, CaseOK(c), c.newline \in BOOLEAN, NEW inv, inv.answer.err = Pass, OutShort(c, inv.answer)
  PROVE  {"hsp", "hint"} \subseteq RenderLines(inv, c, FALSE, FALSE)
<1> DEFINE a == inv.answer
           e == Bytes(Pass, c.err, c.newline)
<1>1. PICK u \in Seq(LineMenu) : a.out = Says(u) /\ Text(u) + 2 <= Text(c.out)
  BY DEF OutShort
<1>2. \A w \in Seq(LineMenu) : Text(w) \in Nat
  <2>1. /\ Text(<<>>) = 0
        /\ \A w \in Seq(LineMenu) : Text(w) \in Nat
        /\ \A w \in Seq(LineMenu), y \in LineMenu : Text(Append(w, y)) = Text(w) + y.width + 1
    BY LinesAre, TextStep, Zenon
  <2> QED BY <2>1
<1>3. Text(u) \in Nat /\ Text(c.out) \in Nat /\ Text(c.err) \in Nat
  BY <1>2 DEF CaseOK
<1>4. e \in Int
  BY <1>3 DEF Bytes
<1>5. Bytes(Pass, c.out, c.newline) \in {Text(c.out), Text(c.out) - 1}
  BY <1>3 DEF Bytes
<1>6. Bytes(a.out, c.out, c.newline) = Text(u)
  BY <1>1, SaysIs DEF Bytes
<1>7. Before(c) = Bytes(Pass, c.out, c.newline) + e /\ After(a, c) = Text(u) + e
  BY <1>6 DEF Before, After
<1> HIDE DEF e, a
<1>8. After(a, c) < Before(c)
  BY <1>1, <1>3, <1>4, <1>5, <1>7
<1>9. WasTrimmed(a, c)
  BY <1>8 DEF WasTrimmed
<1> QED BY <1>9 DEF RenderLines, a

(* What is presented of an answer that fits is honest: a gap counts, a     *)
(* shorter output is reported, and an answer that is abandoned shows the   *)
(* output as it was.                                                       *)
LEMMA PresentHonest ==
  ASSUME NEW b, NEW c, CaseOK(c), c.newline \in BOOLEAN, NEW inv, Fits(b.filter, c, inv.answer)
  PROVE  LET r == Present(inv, c) IN NothingSilent(c, r) /\ StrictKeeps(b, c, r) /\ GapsCount(b, c, r)
<1> DEFINE a == inv.answer
           r == Present(inv, c)
           o == Shown(a.out, c.out)
           e == Shown(a.err, c.err)
<1>1. r.out = o /\ r.err = e /\ r.report = RenderLines(inv, c, FALSE, FALSE)
  BY DEF Present
<1>2. c.out \in Seq(LineMenu) /\ c.err \in Seq(LineMenu) /\ c.strict \in BOOLEAN
  BY DEF CaseOK
<1>3. c.scoped /\ b.filter # "ls" => r.out = c.out /\ r.err = c.err
  BY <1>1, Unbounded
<1>4. LineMenu \subseteq Plain
  BY LinesAre
<1> HIDE DEF r, o, e
<1>5. CASE KeepsOf(a.out, c.out) /\ KeepsOf(a.err, c.err)
  <2>1. o \in Seq(LineMenu) /\ Content(o) = Content(c.out) /\ TextIds(c.out) \subseteq IdsShown(o)
    BY <1>2, <1>5, KeptShown DEF o
  <2>2. e \in Seq(LineMenu) /\ Content(e) = Content(c.err) /\ TextIds(c.err) \subseteq IdsShown(e)
    BY <1>2, <1>5, KeptShown DEF e
  <2>3. IdsShown(o) \cup IdsShown(e) \subseteq IdsShown(o \o e)
    BY <2>1, <2>2, IdsShownOf
  <2>4. NothingSilent(c, r)
    BY <1>1, <2>1, <2>2, <2>3 DEF NothingSilent
  <2>5. StrictKeeps(b, c, r)
    BY <1>1, <1>3, <2>1, <2>2 DEF StrictKeeps
  <2>6. Gaps(o) = <<>>
    <3>1. o \in Seq(Plain)
      BY <1>4, <2>1, SeqMonotonic
    <3> QED BY <3>1, NoGaps
  <2>7. GapsCount(b, c, r)
    BY <1>1, <2>6 DEF GapsCount, Gaps
  <2> QED BY <2>4, <2>5, <2>7 DEF r
<1>6. ASSUME a.err = Pass PROVE e = c.err
  BY <1>6, ShownIs DEF e
<1>7. CASE a.err = Pass /\ OutCut(b.filter, c, a)
  <2>1. PICK w : a.out = Says(w) /\ Gapped(w, Plain, Len(Whole(b.filter, c)))
    BY <1>7 DEF OutCut
  <2>2. ~ c.strict
    BY <1>7 DEF OutCut
  <2>3. o = w
    BY <2>1, ShownIs DEF o
  <2>4. PICK u \in Seq(Plain), v \in Seq(Plain), n \in Int :
          w = (u \o <<Gap(n)>>) \o v /\ Len(u) + Len(v) + n = Len(Whole(b.filter, c))
    BY <2>1 DEF Gapped
  <2>5. Gaps(o) = <<Gap(n)>> /\ Len(o) = Len(u) + Len(v) + 1 /\ \E i \in DOMAIN o : o[i].kind = "gap"
    BY <2>3, <2>4, OneGap
  <2>6. o \in Seq(Plain \cup {Gap(n)})
    <3> DEFINE T == Plain \cup {Gap(n)}
               g == <<Gap(n)>>
    <3>1. u \in Seq(T) /\ v \in Seq(T) /\ g \in Seq(T)
      BY SeqMonotonic
    <3> HIDE DEF T, g
    <3>2. u \o g \in Seq(T)
      BY <3>1, ConcatProperties
    <3>3. (u \o g) \o v \in Seq(T)
      BY <3>1, <3>2, ConcatProperties
    <3> QED BY <2>3, <2>4, <3>3 DEF T, g
  <2>7. NothingSilent(c, r)
    <3> DEFINE T == (Plain \cup {Gap(n)}) \cup LineMenu
               shown == o \o e
    <3>1. o \in Seq(T) /\ e \in Seq(T)
      BY <1>2, <1>6, <1>7, <2>6, SeqMonotonic
    <3> HIDE DEF T
    <3>2. PICK i \in DOMAIN o : o[i].kind = "gap"
      BY <2>5
    <3>3. i \in DOMAIN shown /\ shown[i] = o[i]
      <4>1. DOMAIN o = 1 .. Len(o) /\ Len(o) \in Nat /\ Len(e) \in Nat
        BY <3>1
      <4>2. shown \in Seq(T) /\ Len(shown) = Len(o) + Len(e)
        BY <3>1, ConcatProperties
      <4>3. DOMAIN shown = 1 .. Len(shown)
        <5> HIDE DEF shown
        <5> QED BY <4>2
      <4>4. i \in 1 .. Len(o) + Len(e) /\ i <= Len(o)
        BY <3>2, <4>1
      <4> QED BY <3>1, <4>1, <4>2, <4>3, <4>4, ConcatProperties
    <3>4. \E j \in DOMAIN shown : shown[j].kind = "gap"
      BY <3>2, <3>3
    <3> QED BY <1>1, <3>4 DEF NothingSilent
  <2>8. StrictKeeps(b, c, r)
    BY <1>3, <2>2 DEF StrictKeeps
  <2>9. GapsCount(b, c, r)
    <3>1. Len(Gaps(o)) = 1 /\ Gaps(o)[1].n = n
      BY <2>5, LinesAre
    <3>2. Len(o) - 1 + n = Len(Whole(b.filter, c))
      <4> DEFINE x == Len(u)
                 y == Len(v)
      <4>1. x \in Nat /\ y \in Nat /\ n \in Int /\ x + y + n = Len(Whole(b.filter, c)) /\ Len(o) = x + y + 1
        BY <2>4, <2>5
      <4> HIDE DEF x, y
      <4> QED BY <4>1
    <3>3. Sift(r.out, {l \in Range(r.out) : l.kind = "gap"}) = Gaps(o) /\ r.out = o
      BY <1>1 DEF Gaps
    <3> QED BY <3>1, <3>2, <3>3 DEF GapsCount, Whole
  <2> QED BY <2>7, <2>8, <2>9 DEF r
<1>8. CASE a.err = Pass /\ OutShort(c, a)
  <2>1. PICK u \in Seq(LineMenu) : a.out = Says(u)
    BY <1>8 DEF OutShort
  <2>2. o = u /\ ~ c.strict
    BY <1>8, <2>1, ShownIs DEF o, OutShort
  <2>3. {"hsp", "hint"} \subseteq r.report
    BY <1>1, <1>8, ShortReported
  <2>4. u \in Seq(Plain)
    BY <1>4, <2>1, SeqMonotonic
  <2>5. Gaps(o) = <<>>
    BY <2>2, <2>4, NoGaps
  <2>6. NothingSilent(c, r)
    BY <2>3 DEF NothingSilent
  <2>7. StrictKeeps(b, c, r)
    BY <1>3, <2>2 DEF StrictKeeps
  <2>8. GapsCount(b, c, r)
    BY <1>1, <2>5 DEF GapsCount, Gaps
  <2> QED BY <2>6, <2>7, <2>8 DEF r
<1>9. CASE a.err = Pass /\ OutOnce(c, a)
  <2>1. PICK u \in Seq(Plain) : /\ a.out = Says(u) /\ TextIds(c.out) \subseteq IdsShown(u)
                                /\ c.strict => DCD(Content(u)) = DCD(Content(c.out))
    BY <1>9 DEF OutOnce
  <2>2. o = u /\ e = c.err
    BY <1>6, <1>9, <2>1, ShownIs DEF o
  <2>3. e \in Seq(Plain)
    BY <1>2, <1>4, <2>2, SeqMonotonic
  <2>4. IdsShown(o) \cup IdsShown(e) \subseteq IdsShown(o \o e) /\ TextIds(e) \subseteq IdsShown(e)
    BY <2>2, <2>3, IdsShownOf
  <2>5. NothingSilent(c, r)
    BY <1>1, <2>1, <2>2, <2>4 DEF NothingSilent
  <2>6. StrictKeeps(b, c, r)
    BY <1>1, <1>3, <2>1, <2>2 DEF StrictKeeps, DCD
  <2>7. Gaps(o) = <<>>
    BY <2>2, NoGaps
  <2>8. GapsCount(b, c, r)
    BY <1>1, <2>7 DEF GapsCount, Gaps
  <2> QED BY <2>5, <2>6, <2>8 DEF r
<1> QED BY <1>5, <1>7, <1>8, <1>9 DEF Fits

(* The lines printed are lines of the menu.                                *)
PrintedOK == printed \in [out : Seq(LineMenu), err : Seq(LineMenu)]

(* From RunFits and PresentHonest, for every built-in, mode and exit.      *)
LEMMA OutputIsHonest == PrintedOK => OutputHonest
<1> SUFFICES ASSUME PrintedOK, NEW c \in Cases, NEW b \in Range(Builtins)
             PROVE  LET r == Present(InvokeBuiltin(b, c), c)
                    IN  NothingSilent(c, r) /\ StrictKeeps(b, c, r) /\ GapsCount(b, c, r)
  BY Zenon DEF OutputHonest
<1>1. printed.out \in Seq(LineMenu) /\ printed.err \in Seq(LineMenu)
  <2> DEFINE Q == Seq(LineMenu)
  <2>1. printed \in [out : Q, err : Q]
    BY DEF PrintedOK
  <2> HIDE DEF Q
  <2>2. printed.out \in Q /\ printed.err \in Q
    BY <2>1
  <2> QED BY <2>2 DEF Q
<1>2. CaseOK(c) /\ c.newline \in BOOLEAN
  BY <1>1 DEF Cases, CaseOK
<1>3. b.filter \in Filters
  <2>1. b \in BuiltinRec
    BY BuiltinsType, RangeStep
  <2> HIDE DEF Filters
  <2> QED BY <2>1 DEF BuiltinRec
<1> DEFINE inv == InvokeBuiltin(b, c)
<1>4. inv.answer \in {Passthrough, Run(b.filter, c)}
  BY DEF InvokeBuiltin
<1>5. Fits(b.filter, c, inv.answer)
  BY <1>2, <1>3, <1>4, FitsPass, RunFits
<1> HIDE DEF inv
<1>6. LET r == Present(inv, c) IN NothingSilent(c, r) /\ StrictKeeps(b, c, r) /\ GapsCount(b, c, r)
  BY <1>2, <1>5, PresentHonest
<1> QED BY <1>6 DEF inv

(* The proxy's inductive invariant. *)
FilterOK == PrintedOK /\ command \in Seq(Tokens) /\ EntriesOK

(* FilterOK holds at the start,                                            *)
LEMMA FilterStart == FilterInit => FilterOK
<1> SUFFICES ASSUME FilterInit PROVE FilterOK
  OBVIOUS
<1>1. printed = [out |-> <<>>, err |-> <<>>] /\ command = <<>>
  BY DEF FilterInit
<1>2. PrintedOK
  BY <1>1 DEF PrintedOK
<1> QED BY <1>1, <1>2, EntriesStart DEF FilterOK

(* whatever is printed, typed or installed,                                *)
LEMMA FilterStep == FilterOK /\ [FilterNext]_filterVars => FilterOK'
<1> SUFFICES ASSUME FilterOK, [FilterNext]_filterVars PROVE FilterOK'
  OBVIOUS
<1>0. PrintedOK /\ command \in Seq(Tokens) /\ EntriesOK
  BY DEF FilterOK
<1>1. CASE PrintLine
  <2>1. PICK l \in LineMenu, s \in {"out", "err"} : printed' = [printed EXCEPT ![s] = Append(@, l)]
    BY <1>1 DEF PrintLine
  <2>2. UNCHANGED <<command, entries>>
    BY <1>1 DEF PrintLine
  <2>3. printed' \in [out : Seq(LineMenu), err : Seq(LineMenu)]
    <3> DEFINE Q == Seq(LineMenu)
    <3>1. printed \in [out : Q, err : Q] /\ \A q \in Q : Append(q, l) \in Q
      BY <1>0 DEF PrintedOK
    <3> HIDE DEF Q
    <3>2. printed' \in [out : Q, err : Q]
      BY <2>1, <3>1
    <3> QED BY <3>2 DEF Q
  <2> QED BY <1>0, <2>2, <2>3 DEF FilterOK, PrintedOK, EntriesOK
<1>2. CASE TypeToken
  <2>1. PICK t \in Tokens : command' = Append(command, t)
    BY <1>2 DEF TypeToken
  <2>2. UNCHANGED <<printed, entries>>
    BY <1>2 DEF TypeToken
  <2> QED BY <1>0, <2>1, <2>2 DEF FilterOK, PrintedOK, EntriesOK
<1>3. CASE InitHook \/ UninitHook \/ UserAdds
  <2>1. UNCHANGED <<printed, command>>
    BY <1>3 DEF InitHook, UninitHook, UserAdds
  <2>2. EntriesOK'
    BY <1>0, <1>3, EntriesStep
  <2> QED BY <1>0, <2>1, <2>2 DEF FilterOK, PrintedOK
<1>4. CASE UNCHANGED filterVars
  BY <1>0, <1>4 DEF filterVars, FilterOK, PrintedOK, EntriesOK
<1> QED BY <1>1, <1>2, <1>3, <1>4 DEF FilterNext

(* and is enough.                                                          *)
LEMMA FilterSound == FilterOK => FilterHonest
<1> SUFFICES ASSUME FilterOK PROVE FilterHonest
  OBVIOUS
<1>1. PrintedOK /\ command \in Seq(Tokens) /\ EntriesOK
  BY DEF FilterOK
<1>2. RewriteSound /\ EntriesKept /\ OutputHonest /\ PickSound
  BY <1>1, RewriteIsSound, EntriesAreKept, OutputIsHonest, PickIsSound
<1> QED BY <1>2 DEF FilterHonest

(* FilterKept: the handler that runs is the best of those that match, what *)
(* it leaves out shows, a rewritten command means what it meant and the    *)
(* user's hooks stay (proxy main.rs, registry.rs, rhai_engine.rs,          *)
(* filters.rs, init.rs), for any output, command, scripts and hooks.       *)
THEOREM FilterKept == FilterInit /\ [][FilterNext]_filterVars => []FilterHonest
<1>1. FilterInit => FilterOK
  BY FilterStart
<1>2. FilterOK /\ [FilterNext]_filterVars => FilterOK'
  BY FilterStep
<1>3. FilterOK => FilterHonest
  BY FilterSound
<1> QED BY <1>1, <1>2, <1>3, PTL

-----------------------------------------------------------------------------
(* What stands in front                                                    *)

(* One step of what stands in front is a step of one of its parts, or none *)
(* of it, and the part at work never changes.                              *)
LEMMA FrontStep ==
  ASSUME [UNCHANGED system /\ FrontsNext]_<<system, frontsVars>>
  PROVE  [CaptureNext]_captureVars /\ [FilterNext]_filterVars /\ [LayerNext]_layerVars
<1>1. CASE UNCHANGED <<system, frontsVars>>
  BY <1>1 DEF frontsVars
<1>2. CASE system = "capture" /\ CaptureNext /\ UNCHANGED <<filterVars, layerVars>>
  BY <1>2
<1>3. CASE system = "layers" /\ LayerNext /\ UNCHANGED <<captureVars, filterVars>>
  BY <1>3
<1>4. CASE /\ UNCHANGED <<captureVars, layerVars>>
           /\ \/ system = "lines" /\ PrintLine
              \/ system = "words" /\ TypeToken
              \/ system = "hooks" /\ (InitHook \/ UninitHook \/ UserAdds)
  BY <1>4 DEF FilterNext
<1> QED BY <1>1, <1>2, <1>3, <1>4 DEF FrontsNext

(* FrontsKept: what stands in front of a command or of the configuration    *)
(* hides nothing: the proxy reports all the command wrote (hsp/exec.rs),    *)
(* its answers announce what they leave out and its hook runs the command   *)
(* asked for (proxy.rs, hsp/), and, while no file changes under a patch, a  *)
(* page saves what it showed (the UI's layers).                             *)
THEOREM FrontsKept ==
  ASSUME ~ Racing
  PROVE  FrontsSpec => []FrontsHonest
<1>1. FrontsInit => CaptureInit /\ FilterInit /\ LayerInit
  BY DEF FrontsInit
<1>2. [UNCHANGED system /\ FrontsNext]_<<system, frontsVars>>
        => [CaptureNext]_captureVars /\ [FilterNext]_filterVars /\ [LayerNext]_layerVars
  BY FrontStep
<1>3. CaptureHonest /\ FilterHonest /\ PatchHonest => FrontsHonest
  BY DEF FrontsHonest
<1>4. CaptureInit /\ [][CaptureNext]_captureVars => []CaptureHonest
  BY CaptureKept
<1>5. FilterInit /\ [][FilterNext]_filterVars => []FilterHonest
  BY FilterKept
<1>6. LayerInit /\ [][LayerNext]_layerVars => []PatchHonest
  BY PatchKept
<1> QED BY <1>1, <1>2, <1>3, <1>4, <1>5, <1>6, PTL DEF FrontsSpec
=============================================================================
