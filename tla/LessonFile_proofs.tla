-------------------------- MODULE LessonFile_proofs --------------------------
(***************************************************************************)
(* Proofs about LessonFile, for every set of processes, triggers, advices, *)
(* every cap and every threshold.                                          *)
(*                                                                         *)
(*   TypeCorrect    the type invariant;                                    *)
(*   NoOvercount    NeverOvercounted, by strengthening it to the snapshots *)
(*                  the callers hold (Covered);                            *)
(*   LockedExact    ExactUnderLock: the feedback is exact until someone    *)
(*                  rewrites the file without the surface lock (Locked);   *)
(*   CountsHold     CountsHonest, of the two;                              *)
(*   LedgerImplemented                                                     *)
(*                  LedgerKept: the callers implement FeedbackLedger, from *)
(*                  what a caller between its read and its publish has     *)
(*                  seen (Backed).                                         *)
(*   QuarantineCopiesFirst, OnlyStaleLose                                  *)
(*                  what a step may do to a lesson (QuarCopied).           *)
(***************************************************************************)
EXTENDS LessonFile, TLAPS

(* What Covers every copy of a lesson: on disk and in a caller's hands. *)
Covered ==
  /\ NeverOvercounted
  /\ \A p \in Procs : \A l \in snap[p] : CoveredBy(l)

(* A key no copy of the file has ever held. *)
Fresh(k) ==
  /\ k \notin Keys(file)
  /\ \A q \in Procs : k \notin Keys(snap[q])
  /\ pub[k] = [succ |-> 0, fail |-> 0]

Appending(p) == pc[p] \in {"checkCap", "open", "append"}

(* Whoever is between its read and its publish holds the lock, so its      *)
(* snapshot is as exact as the file; a lesson still to be appended has no  *)
(* history.                                                                *)
Locked ==
  /\ FeedbackExact
  /\ \A p \in Procs : /\ pc[p] \in {"bumping", "bumpWrite"} => lock = p
                      /\ pc[p] = "bumpWrite" => \A l \in snap[p] : ExactFor(l)
                      /\ pc[p] # "fill"
  /\ \A k \in Key : k.advice \notin used => Fresh(k)
  /\ \A p \in Procs : Appending(p) => \A k \in target[p] : k.advice \in used /\ Fresh(k)
  /\ \A p, q \in Procs : p # q /\ Appending(p) /\ Appending(q)
                           => target[p] \cap target[q] = {}

-----------------------------------------------------------------------------
(* Bumping keeps a lesson's identity and counts one more outcome. *)
LEMMA BumpedLesson ==
  ASSUME NEW l \in Lesson, NEW g \in BOOLEAN
  PROVE  /\ Bumped(l, g) \in Lesson
         /\ KeyOf(Bumped(l, g)) = KeyOf(l)
         /\ KeyOf(l) \in Key
         /\ Bumped(l, g).succ = IF g THEN l.succ + 1 ELSE l.succ
         /\ Bumped(l, g).fail = IF g THEN l.fail ELSE l.fail + 1
BY DEF Lesson, Key, KeyOf, Bumped

(* The same for the tally kept per lesson. *)
LEMMA BumpedTally ==
  ASSUME NEW t \in Tally, NEW g \in BOOLEAN
  PROVE  /\ Bumped(t, g) \in Tally
         /\ Bumped(t, g).succ = IF g THEN t.succ + 1 ELSE t.succ
         /\ Bumped(t, g).fail = IF g THEN t.fail ELSE t.fail + 1
BY DEF Tally, Bumped

(* A newly appended lesson starts with no history. *)
LEMMA NewLessonFacts ==
  ASSUME NEW k \in Key
  PROVE  /\ NewLesson(k) \in Lesson
         /\ KeyOf(NewLesson(k)) = k
         /\ NewLesson(k).succ = 0 /\ NewLesson(k).fail = 0
BY DEF NewLesson, Lesson, Key, KeyOf

(* What a feedback call publishes: bumped lessons and untouched ones. *)
LEMMA BumpAllFacts ==
  ASSUME NEW S \in SUBSET Lesson, NEW W \in SUBSET Triggers, NEW g \in BOOLEAN
  PROVE  /\ BumpAll(S, W, g) \subseteq Lesson
         /\ Keys(Matching(S, W)) \subseteq Key
         /\ Keys(BumpAll(S, W, g)) = Keys(S)
         /\ \A l \in BumpAll(S, W, g) :
              \/ l \in S /\ KeyOf(l) \notin Keys(Matching(S, W))
              \/ \E m \in Matching(S, W) : m \in S /\ l = Bumped(m, g)
<1>1. Matching(S, W) \subseteq S
  BY DEF Matching
<1>2. \A m \in S : Bumped(m, g) \in Lesson /\ KeyOf(Bumped(m, g)) = KeyOf(m) /\ KeyOf(m) \in Key
  BY BumpedLesson
<1>3. ASSUME NEW l \in S, KeyOf(l) \in Keys(Matching(S, W))
      PROVE  l \in Matching(S, W)
  <2>1. PICK m \in Matching(S, W) : KeyOf(l) = KeyOf(m)
    BY <1>3 DEF Keys
  <2>2. l.trig = m.trig
    BY <2>1 DEF KeyOf
  <2> QED BY <2>2 DEF Matching
<1>4. \A l \in BumpAll(S, W, g) :
         \/ l \in S /\ KeyOf(l) \notin Keys(Matching(S, W))
         \/ \E m \in Matching(S, W) : m \in S /\ l = Bumped(m, g)
  BY <1>1, <1>3 DEF BumpAll
<1>5. Keys(BumpAll(S, W, g)) = Keys(S)
  BY <1>1, <1>2 DEF BumpAll, Keys
<1> QED BY <1>1, <1>2, <1>4, <1>5 DEF BumpAll, Keys

-----------------------------------------------------------------------------
(* The model's variables stay in their types, under every interleaving of  *)
(* the callers that Next allows.                                           *)
THEOREM TypeCorrect == Spec => []TypeOK
<1>1. Init => TypeOK
  <2> SUFFICES ASSUME Init PROVE TypeOK
    OBVIOUS
  <2>1. file \subseteq Lesson
    BY LessonAssumption, NewLessonFacts DEF Init
  <2>2. pub \in [Key -> Tally]
    BY DEF Init, Tally
  <2>3. used \subseteq Advices
    BY LessonAssumption DEF Init, Key
  <2> QED BY <2>1, <2>2, <2>3, LessonAssumption DEF Init, TypeOK, PCs
<1>2. TypeOK /\ [Next]_vars => TypeOK'
  <2> SUFFICES ASSUME TypeOK, [Next]_vars PROVE TypeOK'
    OBVIOUS
  <2> USE DEF TypeOK, PCs, Goto, shared, ghosts
  <2>1. ASSUME NEW p \in Procs, Feedback(p) PROVE TypeOK'
    <3>1. ASSUME NEW W \in SUBSET Triggers, NEW g \in BOOLEAN, StartFeedback(p, W, g)
          PROVE  TypeOK'
      BY <3>1 DEF StartFeedback
    <3>2. CASE AcquireLock(p)      BY <3>2 DEF AcquireLock
    <3>3. CASE ProceedUnlocked(p)  BY <3>3 DEF ProceedUnlocked
    <3>4. CASE BumpRead(p)         BY <3>4 DEF BumpRead
    <3>5. CASE BumpWrite(p)
      <4>1. file' \subseteq Lesson
        BY <3>5, BumpAllFacts DEF BumpWrite, Publish
      <4>2. pub' \in [Key -> Tally]
        BY <3>5, BumpedTally DEF BumpWrite
      <4> QED BY <3>5, <4>1, <4>2 DEF BumpWrite, Publish
    <3>6. CASE Unlock(p)           BY <3>6 DEF Unlock, Return
    <3> QED BY <2>1, <3>1, <3>2, <3>3, <3>4, <3>5, <3>6, LessonAssumption, ZenonT(30)
            DEF Feedback
  <2>2. ASSUME NEW p \in Procs, Remember(p) PROVE TypeOK'
    <3>1. ASSUME NEW k \in Key, NEW next \in PCs, BeginAppend(p, k, next)
          PROVE  TypeOK'
      BY <3>1 DEF BeginAppend, Key
    <3>2. CASE CheckCap(p)    BY <3>2 DEF CheckCap, Return
    <3>3. CASE OpenAppend(p)  BY <3>3 DEF OpenAppend
    <3>4. CASE Append(p)
      <4>1. \A k \in target[p] : NewLesson(k) \in Lesson
        BY NewLessonFacts
      <4> QED BY <3>4, <4>1 DEF Append, Return, Close
    <3> QED BY <2>2, <3>1, <3>2, <3>3, <3>4 DEF Remember, StartRemember, StartCliLesson
  <2>3. ASSUME NEW p \in Procs, Forget(p) PROVE TypeOK'
    <3>1. CASE StartForget(p)  BY <3>1 DEF StartForget
    <3>2. CASE DropWrite(p)
      BY <3>2, BumpedLesson DEF DropWrite, Publish, Keys
    <3>3. CASE Judge(p)
      <4>1. {l.trig : l \in {m \in file : Failing(m)}} \subseteq Triggers
        BY DEF Lesson
      <4> QED BY <3>3, <4>1 DEF Judge, Return
    <3>4. CASE QuarRead(p)     BY <3>4 DEF QuarRead, Return
    <3>5. CASE QuarAppend(p)   BY <3>5 DEF QuarAppend, Matching
    <3>6. CASE QuarWrite(p)    BY <3>6 DEF QuarWrite, Return, Publish
    <3> QED BY <2>3, <3>1, <3>2, <3>3, <3>4, <3>5, <3>6 DEF Forget
  <2>4. ASSUME NEW p \in Procs, Edit(p) PROVE TypeOK'
    <3>1. ASSUME NEW l \in file, NEW new \in SUBSET Key, StartEdit(p, l, new)
          PROVE  TypeOK'
      <4>1. \A k \in new : NewLesson(k) \in Lesson /\ k.advice \in Advices
        BY NewLessonFacts DEF Key
      <4>2. KeyOf(l) \in Key
        BY BumpedLesson
      <4> QED BY <3>1, <4>1, <4>2 DEF StartEdit
    <3>2. CASE Truncate(p)  BY <3>2 DEF Truncate
    <3>3. CASE Fill(p)      BY <3>3 DEF Fill, Return, Close
    <3> QED BY <2>4, <3>1, <3>2, <3>3 DEF Edit
  <2>5. ASSUME NEW p \in Procs, Crash(p) PROVE TypeOK'
    BY <2>5 DEF Crash, Return, Close
  <2>6. CASE UNCHANGED vars
    BY <2>6 DEF vars
  <2> QED BY <2>1, <2>2, <2>3, <2>4, <2>5, <2>6 DEF Next
<1> QED BY <1>1, <1>2, PTL DEF Spec

-----------------------------------------------------------------------------
(* pub only grows, so what was covered stays covered. *)
LEMMA PublishCovers ==
  ASSUME TypeOK, Covered, NEW p \in Procs, BumpWrite(p)
  PROVE  /\ \A l \in file' : CoveredBy(l)'
         /\ \A l \in Lesson : CoveredBy(l) => CoveredBy(l)'
<1> DEFINE W == want[p]
           g == good[p]
<1>1. snap[p] \in SUBSET Lesson /\ W \in SUBSET Triggers /\ g \in BOOLEAN
  BY DEF TypeOK
<1>2. Keys(Matching(snap[p], W)) \subseteq Key
  BY <1>1, BumpAllFacts
<1>3. \A k \in Key : /\ pub[k] \in Tally
                     /\ pub'[k] = IF k \in Keys(Matching(snap[p], W))
                                  THEN Bumped(pub[k], g) ELSE pub[k]
  BY DEF BumpWrite, TypeOK
<1>4. \A k \in Key : pub[k].succ <= pub'[k].succ /\ pub[k].fail <= pub'[k].fail
  <2> SUFFICES ASSUME NEW k \in Key
               PROVE  pub[k].succ <= pub'[k].succ /\ pub[k].fail <= pub'[k].fail
    OBVIOUS
  <2>1. pub[k].succ \in Nat /\ pub[k].fail \in Nat
    BY <1>3 DEF Tally
  <2> QED BY <1>1, <1>3, <2>1, BumpedTally
<1>5. \A l \in Lesson : CoveredBy(l) => CoveredBy(l)'
  <2> SUFFICES ASSUME NEW l \in Lesson, CoveredBy(l)
               PROVE  l.succ <= pub'[KeyOf(l)].succ /\ l.fail <= pub'[KeyOf(l)].fail
    BY DEF CoveredBy
  <2>1. KeyOf(l) \in Key
    BY DEF KeyOf, Key, Lesson
  <2>2. /\ pub[KeyOf(l)] \in Tally
        /\ pub'[KeyOf(l)] \in Tally
    BY <1>1, <1>3, <2>1, BumpedTally
  <2>3. /\ l.succ \in Nat /\ l.fail \in Nat
        /\ pub[KeyOf(l)].succ \in Nat /\ pub[KeyOf(l)].fail \in Nat
        /\ pub'[KeyOf(l)].succ \in Nat /\ pub'[KeyOf(l)].fail \in Nat
    BY <2>2 DEF Lesson, Tally
  <2> QED BY <1>4, <2>1, <2>3 DEF CoveredBy
<1>6. ASSUME NEW l \in file'
      PROVE  CoveredBy(l)'
  <2>1. file' = BumpAll(snap[p], W, g)
    BY DEF BumpWrite, Publish
  <2>2. CASE l \in snap[p]
    BY <2>2, <1>1, <1>5 DEF Covered
  <2>3. CASE \E m \in Matching(snap[p], W) : m \in snap[p] /\ l = Bumped(m, g)
    <3>1. PICK m \in Matching(snap[p], W) : m \in snap[p] /\ l = Bumped(m, g)
      BY <2>3
    <3>2. /\ m \in Lesson /\ KeyOf(m) \in Key /\ KeyOf(l) = KeyOf(m)
          /\ KeyOf(m) \in Keys(Matching(snap[p], W))
      BY <3>1, <1>1, BumpedLesson DEF Keys
    <3>3. /\ pub[KeyOf(m)] \in Tally
          /\ pub'[KeyOf(l)] = Bumped(pub[KeyOf(m)], g)
      BY <3>2, <1>3
    <3>4. m.succ <= pub[KeyOf(m)].succ /\ m.fail <= pub[KeyOf(m)].fail
      BY <3>1 DEF Covered, CoveredBy
    <3>5. /\ m.succ \in Nat /\ m.fail \in Nat
          /\ pub[KeyOf(m)].succ \in Nat /\ pub[KeyOf(m)].fail \in Nat
      BY <3>2, <3>3 DEF Lesson, Tally
    <3>6. /\ l.succ = IF g THEN m.succ + 1 ELSE m.succ
          /\ l.fail = IF g THEN m.fail ELSE m.fail + 1
      BY <3>1, <3>2, <1>1, BumpedLesson
    <3>7. /\ pub'[KeyOf(l)].succ = IF g THEN pub[KeyOf(m)].succ + 1 ELSE pub[KeyOf(m)].succ
          /\ pub'[KeyOf(l)].fail = IF g THEN pub[KeyOf(m)].fail ELSE pub[KeyOf(m)].fail + 1
      BY <3>3, <1>1, BumpedTally
    <3>8. l.succ <= pub'[KeyOf(l)].succ /\ l.fail <= pub'[KeyOf(l)].fail
      BY <1>1, <3>4, <3>5, <3>6, <3>7
    <3> QED BY <3>8 DEF CoveredBy
  <2> QED BY <1>1, <2>1, <2>2, <2>3, BumpAllFacts
<1> QED BY <1>5, <1>6

(* A new lesson is covered: it claims nothing. *)
LEMMA NewLessonCovered ==
  ASSUME TypeOK, NEW k \in Key
  PROVE  CoveredBy(NewLesson(k))
<1>1. pub[k].succ \in Nat /\ pub[k].fail \in Nat
  BY DEF TypeOK, Tally
<1> QED BY <1>1, NewLessonFacts DEF CoveredBy

(* No interleaving of the callers, with or without the lock, with crashes  *)
(* or without, credits a lesson with feedback that was never published:    *)
(* the invariant is the same statement about the snapshots too, because a  *)
(* stale snapshot becomes the file when its holder publishes.              *)
THEOREM NoOvercount == Spec => []NeverOvercounted
<1>1. Init => Covered
  <2> SUFFICES ASSUME Init PROVE Covered
    OBVIOUS
  <2>1. \A k \in Seed : CoveredBy(NewLesson(k))
    BY LessonAssumption, NewLessonFacts DEF Init, CoveredBy
  <2> QED BY <2>1 DEF Init, Covered, NeverOvercounted
<1>2. TypeOK /\ Covered /\ [Next]_vars => Covered'
  <2> SUFFICES ASSUME TypeOK, Covered, [Next]_vars PROVE Covered'
    OBVIOUS
  <2> USE DEF Goto, shared, ghosts
  <2>1. ASSUME NEW p \in Procs, BumpWrite(p) PROVE Covered'
    <3>1. /\ \A l \in quarantined : CoveredBy(l)'
          /\ \A q \in Procs : \A l \in snap[q] : CoveredBy(l)'
      BY <2>1, PublishCovers DEF TypeOK, Covered, NeverOvercounted
    <3>2. quarantined' = quarantined /\ snap' = snap
      BY <2>1 DEF BumpWrite
    <3> QED BY <2>1, <3>1, <3>2, PublishCovers DEF Covered, NeverOvercounted
  <2> USE DEF TypeOK
  <2>3. ASSUME NEW p \in Procs, Feedback(p) PROVE Covered'
    <3>1. ASSUME NEW W \in SUBSET Triggers, NEW g \in BOOLEAN, StartFeedback(p, W, g)
          PROVE  Covered'
      BY <3>1 DEF StartFeedback, Covered, NeverOvercounted, CoveredBy
    <3>2. CASE AcquireLock(p)
      BY <3>2 DEF AcquireLock, Covered, NeverOvercounted, CoveredBy
    <3>3. CASE ProceedUnlocked(p)
      BY <3>3 DEF ProceedUnlocked, Covered, NeverOvercounted, CoveredBy
    <3>4. CASE BumpRead(p)
      BY <3>4 DEF BumpRead, Covered, NeverOvercounted, CoveredBy
    <3>5. CASE Unlock(p)
      BY <3>5 DEF Unlock, Return, Covered, NeverOvercounted, CoveredBy
    <3> QED BY <2>1, <2>3, <3>1, <3>2, <3>3, <3>4, <3>5, LessonAssumption
            DEF Feedback
  <2>4. ASSUME NEW p \in Procs, Remember(p) PROVE Covered'
    <3>1. ASSUME NEW k \in Key, NEW next \in PCs, BeginAppend(p, k, next)
          PROVE  Covered'
      BY <3>1 DEF BeginAppend, Covered, NeverOvercounted, CoveredBy
    <3>2. CASE CheckCap(p)
      BY <3>2 DEF CheckCap, Return, Covered, NeverOvercounted, CoveredBy
    <3>3. CASE OpenAppend(p)
      BY <3>3 DEF OpenAppend, Covered, NeverOvercounted, CoveredBy
    <3>4. CASE Append(p)
      <4>1. \A k \in target[p] : CoveredBy(NewLesson(k))
        BY NewLessonCovered
      <4>2. pub' = pub /\ quarantined' = quarantined
        BY <3>4 DEF Append
      <4>3. \A l \in file' : CoveredBy(l)
        BY <3>4, <4>1 DEF Append, Covered, NeverOvercounted
      <4>4. \A q \in Procs : \A l \in snap'[q] : CoveredBy(l)
        BY <3>4 DEF Append, Return, Covered
      <4> QED BY <4>2, <4>3, <4>4 DEF Covered, NeverOvercounted, CoveredBy
    <3> QED BY <2>4, <3>1, <3>2, <3>3, <3>4
            DEF Remember, StartRemember, StartCliLesson, PCs
  <2>5. ASSUME NEW p \in Procs, Forget(p) PROVE Covered'
    <3>1. CASE StartForget(p)
      BY <3>1 DEF StartForget, Covered, NeverOvercounted, CoveredBy
    <3>2. CASE DropWrite(p)
      BY <3>2 DEF DropWrite, Publish, Covered, NeverOvercounted, CoveredBy
    <3>3. CASE Judge(p)
      BY <3>3, ZenonT(30) DEF Judge, Return, Covered, NeverOvercounted, CoveredBy
    <3>4. CASE QuarRead(p)
      BY <3>4 DEF QuarRead, Return, Covered, NeverOvercounted, CoveredBy
    <3>5. CASE QuarAppend(p)
      BY <3>5 DEF QuarAppend, Matching, Covered, NeverOvercounted, CoveredBy
    <3>6. CASE QuarWrite(p)
      BY <3>6 DEF QuarWrite, Return, Publish, Covered, NeverOvercounted, CoveredBy
    <3> QED BY <2>5, <3>1, <3>2, <3>3, <3>4, <3>5, <3>6 DEF Forget
  <2>6. ASSUME NEW p \in Procs, Edit(p) PROVE Covered'
    <3>1. ASSUME NEW l \in file, NEW new \in SUBSET Key, StartEdit(p, l, new)
          PROVE  Covered'
      <4>1. \A k \in new : CoveredBy(NewLesson(k))
        BY NewLessonCovered
      <4>2. \A q \in Procs : \A m \in snap'[q] : CoveredBy(m)
        BY <3>1, <4>1 DEF StartEdit, Covered, NeverOvercounted
      <4>3. pub' = pub /\ quarantined' = quarantined /\ file' = file
        BY <3>1 DEF StartEdit
      <4> QED BY <4>2, <4>3 DEF Covered, NeverOvercounted, CoveredBy
    <3>2. CASE Truncate(p)
      BY <3>2 DEF Truncate, Covered, NeverOvercounted, CoveredBy
    <3>3. CASE Fill(p)
      BY <3>3 DEF Fill, Return, Close, Covered, NeverOvercounted, CoveredBy
    <3> QED BY <2>6, <3>1, <3>2, <3>3 DEF Edit
  <2>7. ASSUME NEW p \in Procs, Crash(p) PROVE Covered'
    BY <2>7 DEF Crash, Return, Close, Covered, NeverOvercounted, CoveredBy
  <2>8. CASE UNCHANGED vars
    BY <2>8 DEF vars, Covered, NeverOvercounted, CoveredBy
  <2> QED BY <2>3, <2>4, <2>5, <2>6, <2>7, <2>8 DEF Next
<1>3. Covered => NeverOvercounted
  BY DEF Covered
<1> QED BY <1>1, <1>2, <1>3, TypeCorrect, PTL DEF Spec

-----------------------------------------------------------------------------
(* The publish of the one caller that holds the lock keeps file and tally  *)
(* in step.                                                                *)
LEMMA PublishExact ==
  ASSUME TypeOK, Locked, NEW p \in Procs, BumpWrite(p)
  PROVE  FeedbackExact'
<1> DEFINE W == want[p]
           g == good[p]
<1>1. snap[p] \in SUBSET Lesson /\ W \in SUBSET Triggers /\ g \in BOOLEAN
  BY DEF TypeOK
<1>2. \A k \in Key : /\ pub[k] \in Tally
                     /\ pub'[k] = IF k \in Keys(Matching(snap[p], W))
                                  THEN Bumped(pub[k], g) ELSE pub[k]
  BY DEF BumpWrite, TypeOK
<1>3. \A l \in snap[p] : l \in Lesson /\ KeyOf(l) \in Key /\ ExactFor(l)
  BY <1>1, BumpedLesson DEF Locked, BumpWrite
<1>4. file' = BumpAll(snap[p], W, g)
  BY DEF BumpWrite, Publish
<1> SUFFICES ASSUME NEW l \in file'
             PROVE  l.succ = pub'[KeyOf(l)].succ /\ l.fail = pub'[KeyOf(l)].fail
  BY DEF FeedbackExact, ExactFor
<1>5. CASE l \in snap[p] /\ KeyOf(l) \notin Keys(Matching(snap[p], W))
  BY <1>2, <1>3, <1>5 DEF ExactFor
<1>6. CASE \E m \in Matching(snap[p], W) : m \in snap[p] /\ l = Bumped(m, g)
  <2>1. PICK m \in Matching(snap[p], W) : m \in snap[p] /\ l = Bumped(m, g)
    BY <1>6
  <2>2. /\ m \in Lesson /\ KeyOf(m) \in Key /\ KeyOf(l) = KeyOf(m)
        /\ KeyOf(m) \in Keys(Matching(snap[p], W))
    BY <2>1, <1>1, BumpedLesson DEF Keys
  <2>3. /\ pub[KeyOf(m)] \in Tally
        /\ pub'[KeyOf(l)] = Bumped(pub[KeyOf(m)], g)
    BY <2>2, <1>2
  <2>4. m.succ = pub[KeyOf(m)].succ /\ m.fail = pub[KeyOf(m)].fail
    BY <2>1, <1>3 DEF ExactFor
  <2>5. /\ l.succ = IF g THEN m.succ + 1 ELSE m.succ
        /\ l.fail = IF g THEN m.fail ELSE m.fail + 1
    BY <2>1, <2>2, <1>1, BumpedLesson
  <2>6. /\ pub'[KeyOf(l)].succ = IF g THEN pub[KeyOf(m)].succ + 1 ELSE pub[KeyOf(m)].succ
        /\ pub'[KeyOf(l)].fail = IF g THEN pub[KeyOf(m)].fail ELSE pub[KeyOf(m)].fail + 1
    BY <2>3, <1>1, BumpedTally
  <2> QED BY <2>4, <2>5, <2>6
<1> QED BY <1>1, <1>4, <1>5, <1>6, BumpAllFacts

(* A key that is fresh before a publish is fresh after it. *)
LEMMA PublishFresh ==
  ASSUME TypeOK, NEW p \in Procs, BumpWrite(p), NEW k \in Key, Fresh(k)
  PROVE  Fresh(k)'
<1>1. snap[p] \in SUBSET Lesson /\ want[p] \in SUBSET Triggers /\ good[p] \in BOOLEAN
  BY DEF TypeOK
<1>2. Keys(file') = Keys(snap[p])
  BY <1>1, BumpAllFacts DEF BumpWrite, Publish
<1>3. k \notin Keys(Matching(snap[p], want[p]))
  BY DEF Fresh, Keys, Matching
<1>4. pub'[k] = pub[k] /\ snap' = snap
  BY <1>3 DEF BumpWrite, TypeOK
<1> QED BY <1>2, <1>4 DEF Fresh, Keys

(* Nobody forgets that the lock was passed by. *)
LEMMA UnlockedStays ==
  ASSUME TypeOK, [Next]_vars, unlocked PROVE unlocked'
<1> USE DEF shared, ghosts
<1>1. ASSUME NEW p \in Procs, Feedback(p) PROVE unlocked'
  BY <1>1 DEF Feedback, StartFeedback, AcquireLock, ProceedUnlocked, BumpRead, BumpWrite, Unlock
<1>2. ASSUME NEW p \in Procs, Remember(p) PROVE unlocked'
  BY <1>2 DEF Remember, StartRemember, StartCliLesson, BeginAppend, CheckCap, OpenAppend, Append
<1>3. ASSUME NEW p \in Procs, Forget(p) PROVE unlocked'
  BY <1>3 DEF Forget, StartForget, DropWrite, Judge, QuarRead, QuarAppend, QuarWrite
<1>4. ASSUME NEW p \in Procs, Edit(p) PROVE unlocked'
  BY <1>4 DEF Edit, StartEdit, Truncate, Fill
<1>5. ASSUME NEW p \in Procs, Crash(p) PROVE unlocked'
  BY <1>5 DEF Crash
<1>6. CASE UNCHANGED vars
  BY <1>6 DEF vars
<1> QED BY <1>1, <1>2, <1>3, <1>4, <1>5, <1>6 DEF Next

(* What is left to check of a step that writes neither the file nor the    *)
(* ghosts it is measured by, and makes nobody an appender.                 *)
LEMMA KeepsLocked ==
  ASSUME TypeOK, Locked,
         file' = file, used' = used, pub' = pub,
         \A k \in Key : Fresh(k) => Fresh(k)',
         \A q \in Procs : Appending(q)' => Appending(q) /\ target'[q] = target[q],
         \A q \in Procs : /\ pc'[q] \in {"bumping", "bumpWrite"} => lock' = q
                          /\ pc'[q] = "bumpWrite" => \A l \in snap'[q] : ExactFor(l)
                          /\ pc'[q] # "fill"
  PROVE  Locked'
<1>1. \A l : ExactFor(l) => ExactFor(l)'
  BY DEF ExactFor
<1>2. FeedbackExact'
  BY <1>1 DEF Locked, FeedbackExact
<1>3. \A q \in Procs : /\ pc'[q] \in {"bumping", "bumpWrite"} => lock' = q
                       /\ pc'[q] = "bumpWrite" => \A l \in snap'[q] : ExactFor(l)'
                       /\ pc'[q] # "fill"
  BY <1>1
<1>4. \A k \in Key : k.advice \notin used' => Fresh(k)'
  BY DEF Locked
<1>5. \A q \in Procs : Appending(q)' => \A k \in target'[q] : k.advice \in used' /\ Fresh(k)'
  BY DEF Locked, TypeOK
<1>6. \A q, r \in Procs : q # r /\ Appending(q)' /\ Appending(r)'
                           => target'[q] \cap target'[r] = {}
  BY DEF Locked
<1> QED BY <1>2, <1>3, <1>4, <1>5, <1>6 DEF Locked

(* A caller that neither writes the file nor appends keeps Locked, when    *)
(* what it holds afterwards it found in the file.                          *)
LEMMA ReadingKeepsLocked ==
  ASSUME TypeOK, Locked, NEW p \in Procs,
         UNCHANGED <<file, used, pub>>,
         \A q \in Procs \ {p} : lock = q => lock' = q,
         \A q \in Procs \ {p} : pc'[q] = pc[q] /\ snap'[q] = snap[q] /\ target'[q] = target[q],
         snap'[p] \in {snap[p], file, {}},
         pc'[p] \notin {"bumping", "bumpWrite", "checkCap", "open", "append", "fill"}
  PROVE  Locked'
<1>1. \A k \in Key : Fresh(k) => Fresh(k)'
  <2> SUFFICES ASSUME NEW k \in Key, Fresh(k), NEW q \in Procs PROVE k \notin Keys(snap'[q])
    BY DEF Fresh
  <2>1. CASE q = p
    BY <2>1 DEF Fresh, Keys
  <2> QED BY <2>1 DEF Fresh
<1>2. \A q \in Procs : Appending(q)' => q # p
  BY DEF Appending
<1>3. \A q \in Procs : Appending(q)' => Appending(q) /\ target'[q] = target[q]
  BY <1>2 DEF Appending
<1>4. \A q \in Procs : /\ pc'[q] \in {"bumping", "bumpWrite"} => lock' = q
                       /\ pc'[q] = "bumpWrite" => \A l \in snap'[q] : ExactFor(l)
                       /\ pc'[q] # "fill"
  BY DEF Locked
<1> QED BY <1>1, <1>3, <1>4, KeepsLocked

(* Locked holds until someone rewrites the file without the surface lock,  *)
(* however many callers feed back, append, read and crash, in any order.   *)
LEMMA AlwaysLocked == Spec => [](unlocked \/ Locked)
<1>1. Init => unlocked \/ Locked
  <2> SUFFICES ASSUME Init PROVE Locked
    OBVIOUS
  <2>1. \A k \in Seed : /\ k \in Key
                        /\ KeyOf(NewLesson(k)) = k
                        /\ NewLesson(k).succ = 0 /\ NewLesson(k).fail = 0
    BY LessonAssumption, NewLessonFacts
  <2>2. FeedbackExact
    BY <2>1 DEF Init, FeedbackExact, ExactFor
  <2>3. \A k \in Key : k.advice \notin used => Fresh(k)
    BY <2>1 DEF Init, Fresh, Keys
  <2> QED BY <2>2, <2>3 DEF Init, Locked, Appending
<1>2. TypeOK /\ (unlocked \/ Locked) /\ [Next]_vars => (unlocked \/ Locked)'
  <2> SUFFICES ASSUME TypeOK, unlocked \/ Locked, [Next]_vars, ~unlocked' PROVE Locked'
    OBVIOUS
  <2>0. Locked
    BY UnlockedStays
  <2> USE DEF Goto, shared, ghosts
  <2>1. ASSUME NEW p \in Procs, Feedback(p) PROVE Locked'
    <3>1. ASSUME NEW W \in SUBSET Triggers, NEW g \in BOOLEAN, StartFeedback(p, W, g)
          PROVE  Locked'
      BY <2>0, <3>1, ReadingKeepsLocked DEF StartFeedback, TypeOK
    <3>2. CASE AcquireLock(p)
      <4>1. /\ pc' = [pc EXCEPT ![p] = "bumping"] /\ lock = NoProc /\ lock' = p
            /\ UNCHANGED <<file, snap, target, used, pub>>
        BY <3>2 DEF AcquireLock
      <4>2. \A q \in Procs : ~(pc[q] \in {"bumping", "bumpWrite"})
        BY <2>0, <4>1, LessonAssumption DEF Locked
      <4>3. \A k \in Key : Fresh(k) => Fresh(k)'
        BY <4>1 DEF Fresh
      <4>4. \A q \in Procs : Appending(q)' => Appending(q) /\ target'[q] = target[q]
        BY <4>1 DEF Appending, TypeOK
      <4>5. \A q \in Procs : /\ pc'[q] \in {"bumping", "bumpWrite"} => lock' = q
                             /\ pc'[q] # "bumpWrite" /\ pc'[q] # "fill"
        BY <2>0, <4>1, <4>2 DEF TypeOK, Locked
      <4> QED BY <2>0, <4>1, <4>3, <4>4, <4>5, KeepsLocked
    <3>3. CASE ProceedUnlocked(p)
      BY <3>3 DEF ProceedUnlocked
    <3>4. CASE BumpRead(p)
      <4>1. /\ pc[p] = "bumping" /\ pc' = [pc EXCEPT ![p] = pc'[p]]
            /\ pc'[p] \in {"unlock", "bumpWrite"}
            /\ snap' = [snap EXCEPT ![p] = file]
            /\ UNCHANGED <<file, lock, target, used, pub>>
        BY <3>4 DEF BumpRead, TypeOK
      <4>2. \A k \in Key : Fresh(k) => Fresh(k)'
        BY <4>1 DEF Fresh, TypeOK
      <4>3. \A q \in Procs : Appending(q)' => Appending(q) /\ target'[q] = target[q]
        BY <4>1 DEF Appending, TypeOK
      <4>4. \A q \in Procs : /\ pc'[q] \in {"bumping", "bumpWrite"} => lock' = q
                             /\ pc'[q] = "bumpWrite" => \A l \in snap'[q] : ExactFor(l)
                             /\ pc'[q] # "fill"
        BY <2>0, <4>1 DEF Locked, FeedbackExact, TypeOK
      <4> QED BY <2>0, <4>1, <4>2, <4>3, <4>4, KeepsLocked
    <3>5. CASE BumpWrite(p)
      <4>1. \A k \in Key : k.advice \notin used' => Fresh(k)'
        BY <2>0, <3>5, PublishFresh DEF Locked, BumpWrite
      <4>2. \A q \in Procs : Appending(q)' => Appending(q)
        BY <3>5 DEF BumpWrite, Appending, TypeOK
      <4>3. target' = target /\ used' = used
        BY <3>5 DEF BumpWrite
      <4>4. \A q \in Procs : Appending(q)' =>
              \A k \in target'[q] : k.advice \in used' /\ Fresh(k)'
        BY <2>0, <3>5, <4>2, <4>3, PublishFresh DEF Locked, TypeOK
      <4>5. \A q \in Procs : /\ pc'[q] \in {"bumping", "bumpWrite"} => lock' = q
                             /\ pc'[q] # "bumpWrite" /\ pc'[q] # "fill"
        BY <2>0, <3>5 DEF Locked, BumpWrite, TypeOK
      <4> QED BY <2>0, <3>5, <4>1, <4>2, <4>3, <4>4, <4>5, PublishExact DEF Locked
    <3>6. CASE Unlock(p)
      BY <2>0, <3>6, ReadingKeepsLocked DEF Unlock, Return, TypeOK
    <3> QED BY <2>1, <3>1, <3>2, <3>3, <3>4, <3>5, <3>6, LessonAssumption DEF Feedback
  <2>2. ASSUME NEW p \in Procs, Remember(p) PROVE Locked'
    <3>1. ASSUME NEW k \in Key, NEW next \in {"checkCap", "open"}, BeginAppend(p, k, next)
          PROVE  Locked'
      <4>1. Fresh(k)
        BY <2>0, <3>1 DEF BeginAppend, Locked
      <4>2. /\ target' = [target EXCEPT ![p] = {k}]
            /\ used' = used \cup {k.advice}
            /\ pc' = [pc EXCEPT ![p] = next] /\ pc[p] = "idle"
            /\ k.advice \notin used
            /\ file' = file /\ snap' = snap /\ pub' = pub /\ lock' = lock
        BY <3>1 DEF BeginAppend
      <4>3. \A q \in Procs : Appending(q) => k \notin target[q]
        BY <2>0, <4>2 DEF Locked
      <4>4. \A j \in Key : Fresh(j) => Fresh(j)'
        BY <4>2 DEF Fresh
      <4>5. \A q \in Procs : q # p /\ Appending(q)' => Appending(q) /\ target'[q] = target[q]
        BY <4>2 DEF Appending, TypeOK
      <4>6. \A q, r \in Procs : q # r /\ Appending(q)' /\ Appending(r)'
                               => target'[q] \cap target'[r] = {}
        BY <2>0, <4>2, <4>3, <4>5 DEF Locked, TypeOK
      <4>7. \A q \in Procs : Appending(q)' =>
              \A j \in target'[q] : j.advice \in used' /\ Fresh(j)'
        BY <2>0, <4>1, <4>2, <4>4, <4>5 DEF Locked, TypeOK
      <4>8. \A q \in Procs : /\ pc'[q] \in {"bumping", "bumpWrite"} => lock' = q
                             /\ pc'[q] = "bumpWrite" => pc[q] = "bumpWrite"
                             /\ pc'[q] # "fill"
        BY <2>0, <4>2 DEF Locked, TypeOK
      <4> QED BY <2>0, <4>2, <4>4, <4>6, <4>7, <4>8 DEF Locked, FeedbackExact, ExactFor
    <3>2. ASSUME pc[p] \in {"checkCap", "open"}, pc' \in {[pc EXCEPT ![p] = "open"], [pc EXCEPT ![p] = "append"]},
                 UNCHANGED <<file, lock, snap, target, used, pub>>
          PROVE  Locked'
      <4>1. \A k \in Key : Fresh(k) => Fresh(k)'
        BY <3>2 DEF Fresh
      <4>2. \A q \in Procs : Appending(q)' => Appending(q)
        BY <3>2 DEF Appending, TypeOK
      <4>3. \A q \in Procs : /\ pc'[q] \in {"bumping", "bumpWrite"} => lock = q
                             /\ pc'[q] = "bumpWrite" => pc[q] = "bumpWrite"
                             /\ pc'[q] # "fill"
        BY <2>0, <3>2 DEF Locked, TypeOK
      <4>4. \A q \in Procs : Appending(q)' =>
              \A j \in target'[q] : j.advice \in used' /\ Fresh(j)'
        BY <2>0, <3>2, <4>1, <4>2 DEF Locked, TypeOK
      <4> QED BY <2>0, <3>2, <4>1, <4>2, <4>3, <4>4 DEF Locked, FeedbackExact, ExactFor
    <3>3. CASE CheckCap(p)
      <4>1. CASE Return(p)
        BY <2>0, <3>3, <4>1, ReadingKeepsLocked DEF CheckCap, Return, TypeOK
      <4>2. CASE Goto(p, "open") /\ UNCHANGED <<snap, want, good, target>>
        BY <3>2, <3>3, <4>2 DEF CheckCap
      <4> QED BY <3>3, <4>1, <4>2 DEF CheckCap
    <3>4. CASE OpenAppend(p)
      BY <3>2, <3>4 DEF OpenAppend
    <3>5. CASE Append(p)
      <4> DEFINE new == {NewLesson(k) : k \in target[p]}
      <4>1. /\ file' = file \/ file' = file \cup new
            /\ pub' = pub /\ used' = used /\ lock' = lock
            /\ pc[p] = "append" /\ pc' = [pc EXCEPT ![p] = "idle"]
            /\ snap' = [snap EXCEPT ![p] = {}]
            /\ target' = [target EXCEPT ![p] = {}]
        BY <3>5 DEF Append, Return
      <4>2. \A k \in target[p] : /\ k \in Key /\ k.advice \in used /\ Fresh(k)
                                 /\ KeyOf(NewLesson(k)) = k
                                 /\ NewLesson(k).succ = 0 /\ NewLesson(k).fail = 0
        BY <2>0, <4>1, NewLessonFacts DEF Locked, Appending, TypeOK
      <4>3. FeedbackExact'
        BY <2>0, <4>1, <4>2 DEF Locked, FeedbackExact, ExactFor, Fresh
      <4>4. Keys(file') \subseteq Keys(file) \cup target[p]
        BY <4>1, <4>2 DEF Keys
      <4>5. \A j \in Key : Fresh(j) /\ j \notin target[p] => Fresh(j)'
        <5> SUFFICES ASSUME NEW j \in Key, Fresh(j), j \notin target[p] PROVE Fresh(j)'
          OBVIOUS
        <5>1. \A q \in Procs : Keys(snap'[q]) \subseteq Keys(snap[q])
          BY <4>1 DEF Keys, TypeOK
        <5> QED BY <4>1, <4>4, <5>1 DEF Fresh
      <4>6. \A j \in Key : j.advice \notin used' => Fresh(j)'
        BY <2>0, <4>1, <4>2, <4>5 DEF Locked
      <4>7. \A q \in Procs : Appending(q)' => /\ Appending(q) /\ q # p
                                              /\ target'[q] = target[q]
        BY <4>1 DEF Appending, TypeOK
      <4>8. \A q \in Procs : Appending(q)' => target[q] \cap target[p] = {}
        BY <2>0, <4>1, <4>7 DEF Locked, Appending
      <4>9. \A q \in Procs : Appending(q)' =>
              \A j \in target'[q] : j.advice \in used' /\ Fresh(j)'
        BY <2>0, <4>1, <4>5, <4>7, <4>8 DEF Locked, TypeOK
      <4>10. \A q \in Procs : /\ pc'[q] \in {"bumping", "bumpWrite"} => lock' = q
                              /\ pc'[q] = "bumpWrite" =>
                                    \A l \in snap'[q] : ExactFor(l)'
                              /\ pc'[q] # "fill"
        BY <2>0, <4>1 DEF Locked, ExactFor, TypeOK
      <4> QED BY <2>0, <4>3, <4>6, <4>7, <4>9, <4>10 DEF Locked
    <3> QED BY <2>2, <3>1, <3>3, <3>4, <3>5 DEF Remember, StartRemember, StartCliLesson
  <2>3. ASSUME NEW p \in Procs, Forget(p) PROVE Locked'
    <3>1. CASE StartForget(p)
      BY <2>0, <3>1, ReadingKeepsLocked DEF StartForget, TypeOK
    <3>2. CASE Judge(p)
      BY <2>0, <3>2, ReadingKeepsLocked, SMTT(30) DEF Judge, Return, TypeOK
    <3>3. CASE QuarRead(p)
      BY <2>0, <3>3, ReadingKeepsLocked DEF QuarRead, Return, TypeOK
    <3>4. CASE QuarAppend(p)
      BY <2>0, <3>4, ReadingKeepsLocked DEF QuarAppend, TypeOK
    <3> QED BY <2>3, <3>1, <3>2, <3>3, <3>4 DEF Forget, DropWrite, QuarWrite
  <2>4. ASSUME NEW p \in Procs, Edit(p) PROVE Locked'
    <3>1. ASSUME NEW l \in file, NEW new \in SUBSET Key, StartEdit(p, l, new)
          PROVE  Locked'
      <4>1. /\ pc[p] = "idle" /\ pc' = [pc EXCEPT ![p] = "truncate"]
            /\ snap' = [snap EXCEPT ![p] = (file \ {l}) \cup {NewLesson(k) : k \in new}]
            /\ target' = [target EXCEPT ![p] = {KeyOf(l)}]
            /\ used' = used \cup {k.advice : k \in new}
            /\ \A k \in new : k.advice \notin used
            /\ UNCHANGED <<file, lock, pub>>
        BY <3>1 DEF StartEdit
      <4>2. \A k \in new : KeyOf(NewLesson(k)) = k
        BY NewLessonFacts
      <4>3. Keys(snap'[p]) \subseteq Keys(file) \cup new
        BY <4>1, <4>2 DEF Keys, TypeOK
      <4>4. \A j \in Key : Fresh(j) /\ j \notin new => Fresh(j)'
        BY <4>1, <4>3 DEF Fresh, TypeOK
      <4>5. \A q \in Procs : Appending(q)' => /\ Appending(q) /\ q # p
                                              /\ target'[q] = target[q]
        BY <4>1 DEF Appending, TypeOK
      <4>6. \A q \in Procs : Appending(q)' =>
              \A j \in target'[q] : j.advice \in used' /\ Fresh(j)'
        BY <2>0, <4>1, <4>4, <4>5 DEF Locked, TypeOK
      <4>7. \A j \in Key : j.advice \notin used' => Fresh(j)'
        BY <2>0, <4>1, <4>4 DEF Locked
      <4>8. \A q \in Procs : /\ pc'[q] \in {"bumping", "bumpWrite"} => lock' = q
                             /\ pc'[q] = "bumpWrite" => \A m \in snap'[q] : ExactFor(m)'
                             /\ pc'[q] # "fill"
        BY <2>0, <4>1 DEF Locked, ExactFor, TypeOK
      <4> QED BY <2>0, <4>1, <4>5, <4>6, <4>7, <4>8 DEF Locked, FeedbackExact, ExactFor
    <3>2. CASE Fill(p)
      BY <2>0, <3>2 DEF Fill, Locked
    <3> QED BY <2>4, <3>1, <3>2 DEF Edit, Truncate
  <2>5. ASSUME NEW p \in Procs, Crash(p) PROVE Locked'
    BY <2>0, <2>5, ReadingKeepsLocked DEF Crash, Return, TypeOK
  <2>6. CASE UNCHANGED vars
    BY <2>0, <2>6 DEF vars, Locked, FeedbackExact, ExactFor, Fresh, Appending
  <2> QED BY <2>1, <2>2, <2>3, <2>4, <2>5, <2>6 DEF Next
<1> QED BY <1>1, <1>2, TypeCorrect, PTL DEF Spec

(* As long as whoever rewrites the file holds the surface lock, each       *)
(* lesson in it carries exactly the feedback published for it.             *)
THEOREM LockedExact == Spec => []ExactUnderLock
<1>1. unlocked \/ Locked => ExactUnderLock
  BY DEF Locked, ExactUnderLock
<1> QED BY <1>1, AlwaysLocked, PTL

(* What a lesson carries was published for it, always, and all of what was *)
(* published while the surface lock is kept.                               *)
THEOREM CountsHold == Spec => []CountsHonest
<1>1. NeverOvercounted /\ ExactUnderLock => CountsHonest
  BY DEF CountsHonest
<1> QED BY <1>1, NoOvercount, LockedExact, PTL

-----------------------------------------------------------------------------
(* The ledger.  Under the lock the caller between its read and its publish *)
(* has seen every lesson with a history: what was added since has none.    *)
Seen ==
  \A p \in Procs : pc[p] = "bumpWrite" =>
    /\ snap[p] \subseteq file /\ Matching(snap[p], want[p]) # {}
    /\ \A l \in file \ snap[p] : l.succ = 0 /\ l.fail = 0

(* A feedback call works on the triggers of a report, an append on one key. *)
Asked == \A p \in Procs : pc[p] \in {"locking", "bumping", "bumpWrite"} => want[p] \in Reports
OneTarget == \A p \in Procs : Appending(p) => \E k \in Key : target[p] = {k}

Backed == Asked /\ OneTarget /\ (unlocked \/ Seen)

(* A caller that does not write the file and is not between its read and   *)
(* its publish afterwards disturbs nobody's report.                        *)
LEMMA BystanderKeepsSeen ==
  ASSUME Seen, file' = file, NEW p \in Procs, pc'[p] # "bumpWrite",
         \A q \in Procs \ {p} : pc'[q] = pc[q] /\ snap'[q] = snap[q] /\ want'[q] = want[q]
  PROVE  Seen'
<1> SUFFICES ASSUME NEW q \in Procs, pc'[q] = "bumpWrite"
             PROVE  /\ snap'[q] \subseteq file' /\ Matching(snap'[q], want'[q]) # {}
                    /\ \A l \in file' \ snap'[q] : l.succ = 0 /\ l.fail = 0
  BY DEF Seen
<1>1. pc[q] = "bumpWrite" /\ snap'[q] = snap[q] /\ want'[q] = want[q]
  OBVIOUS
<1> QED BY <1>1 DEF Seen

LEMMA AlwaysBacked == Spec => []Backed
<1>1. Init => Backed
  BY DEF Init, Backed, Asked, OneTarget, Seen, Appending
<1>2. TypeOK /\ (unlocked \/ Locked) /\ Backed /\ [Next]_vars => Backed'
  <2> SUFFICES ASSUME TypeOK, unlocked \/ Locked, Backed, [Next]_vars PROVE Backed'
    OBVIOUS
  <2>0. Asked /\ OneTarget /\ (unlocked => unlocked')
    BY UnlockedStays DEF Backed
  <2> SUFFICES /\ Asked' /\ OneTarget'
               /\ ~unlocked' /\ Locked /\ Seen => Seen'
    BY <2>0 DEF Backed
  <2> USE DEF Goto, shared, ghosts
  <2>1. ASSUME NEW p \in Procs, Feedback(p)
        PROVE  Asked' /\ OneTarget' /\ (~unlocked' /\ Locked /\ Seen => Seen')
    <3>1. ASSUME NEW W \in Reports, NEW g \in BOOLEAN, StartFeedback(p, W, g)
          PROVE  Asked' /\ OneTarget' /\ (Seen => Seen')
      <4>1. Asked' /\ OneTarget'
        BY <2>0, <3>1 DEF StartFeedback, Asked, OneTarget, Appending, TypeOK
      <4> QED BY <3>1, <4>1, BystanderKeepsSeen DEF StartFeedback, TypeOK
    <3>2. CASE AcquireLock(p)
      <4>1. Asked' /\ OneTarget'
        BY <2>0, <3>2 DEF AcquireLock, Asked, OneTarget, Appending, TypeOK
      <4> QED BY <3>2, <4>1, BystanderKeepsSeen DEF AcquireLock, TypeOK
    <3>3. CASE ProceedUnlocked(p)
      BY <2>0, <3>3 DEF ProceedUnlocked, Asked, OneTarget, Appending, TypeOK
    <3>4. CASE BumpRead(p)
      <4>1. Asked' /\ OneTarget'
        BY <2>0, <3>4 DEF BumpRead, Asked, OneTarget, Appending, TypeOK
      <4>2. ASSUME Seen PROVE Seen'
        BY <3>4, <4>2 DEF BumpRead, Seen, TypeOK
      <4> QED BY <4>1, <4>2
    <3>5. CASE BumpWrite(p)
      <4>1. Asked' /\ OneTarget'
        BY <2>0, <3>5 DEF BumpWrite, Asked, OneTarget, Appending, TypeOK
      <4>2. ASSUME Locked PROVE \A q \in Procs : pc'[q] # "bumpWrite"
        BY <3>5, <4>2 DEF BumpWrite, Locked, TypeOK
      <4> QED BY <4>1, <4>2 DEF Seen
    <3>6. CASE Unlock(p)
      <4>1. Asked' /\ OneTarget'
        BY <2>0, <3>6 DEF Unlock, Return, Asked, OneTarget, Appending, TypeOK
      <4> QED BY <3>6, <4>1, BystanderKeepsSeen DEF Unlock, Return, TypeOK
    <3> QED BY <2>1, <3>1, <3>2, <3>3, <3>4, <3>5, <3>6 DEF Feedback
  <2>2. ASSUME NEW p \in Procs, Remember(p)
        PROVE  Asked' /\ OneTarget' /\ (~unlocked' /\ Locked /\ Seen => Seen')
    <3>1. ASSUME NEW k \in Key, NEW next \in {"checkCap", "open"}, BeginAppend(p, k, next)
          PROVE  Asked' /\ OneTarget' /\ (Seen => Seen')
      <4>1. Asked' /\ OneTarget'
        BY <2>0, <3>1 DEF BeginAppend, Asked, OneTarget, Appending, TypeOK
      <4> QED BY <3>1, <4>1, BystanderKeepsSeen DEF BeginAppend, TypeOK
    <3>2. CASE CheckCap(p)
      <4>1. Asked' /\ OneTarget'
        BY <2>0, <3>2 DEF CheckCap, Return, Asked, OneTarget, Appending, TypeOK
      <4> QED BY <3>2, <4>1, BystanderKeepsSeen DEF CheckCap, Return, TypeOK
    <3>3. CASE OpenAppend(p)
      <4>1. Asked' /\ OneTarget'
        BY <2>0, <3>3 DEF OpenAppend, Asked, OneTarget, Appending, TypeOK
      <4> QED BY <3>3, <4>1, BystanderKeepsSeen DEF OpenAppend, TypeOK
    <3>4. CASE Append(p)
      <4>1. Asked' /\ OneTarget'
        BY <2>0, <3>4 DEF Append, Return, Asked, OneTarget, Appending, TypeOK
      <4>2. ASSUME Seen PROVE Seen'
        <5>1. \A l \in file' : l \in file \/ (l.succ = 0 /\ l.fail = 0)
          BY <3>4, NewLessonFacts DEF Append, TypeOK
        <5>2. \A q \in Procs : pc'[q] = "bumpWrite" =>
                pc[q] = "bumpWrite" /\ snap'[q] = snap[q] /\ want'[q] = want[q]
          BY <3>4 DEF Append, Return, TypeOK
        <5>3. file \subseteq file'
          BY <3>4 DEF Append
        <5> QED BY <4>2, <5>1, <5>2, <5>3 DEF Seen
      <4> QED BY <4>1, <4>2
    <3> QED BY <2>2, <3>1, <3>2, <3>3, <3>4 DEF Remember, StartRemember, StartCliLesson
  <2>3. ASSUME NEW p \in Procs, Forget(p)
        PROVE  Asked' /\ OneTarget' /\ (~unlocked' /\ Locked /\ Seen => Seen')
    <3>1. CASE StartForget(p)
      <4>1. Asked' /\ OneTarget'
        BY <2>0, <3>1 DEF StartForget, Asked, OneTarget, Appending, TypeOK
      <4> QED BY <3>1, <4>1, BystanderKeepsSeen DEF StartForget, TypeOK
    <3>2. CASE DropWrite(p)
      BY <2>0, <3>2 DEF DropWrite, Asked, OneTarget, Appending, TypeOK
    <3>3. CASE Judge(p)
      <4>1. Asked' /\ OneTarget'
        BY <2>0, <3>3 DEF Judge, Return, Asked, OneTarget, Appending, TypeOK
      <4> QED BY <3>3, <4>1, BystanderKeepsSeen DEF Judge, Return, TypeOK
    <3>4. CASE QuarRead(p)
      <4>1. Asked' /\ OneTarget'
        BY <2>0, <3>4 DEF QuarRead, Return, Asked, OneTarget, Appending, TypeOK
      <4> QED BY <3>4, <4>1, BystanderKeepsSeen DEF QuarRead, Return, TypeOK
    <3>5. CASE QuarAppend(p)
      <4>1. Asked' /\ OneTarget'
        BY <2>0, <3>5 DEF QuarAppend, Asked, OneTarget, Appending, TypeOK
      <4> QED BY <3>5, <4>1, BystanderKeepsSeen DEF QuarAppend, TypeOK
    <3>6. CASE QuarWrite(p)
      BY <2>0, <3>6 DEF QuarWrite, Return, Asked, OneTarget, Appending, TypeOK
    <3> QED BY <2>3, <3>1, <3>2, <3>3, <3>4, <3>5, <3>6 DEF Forget
  <2>4. ASSUME NEW p \in Procs, Edit(p)
        PROVE  Asked' /\ OneTarget' /\ (~unlocked' /\ Locked /\ Seen => Seen')
    <3>1. ASSUME NEW l \in file, NEW new \in SUBSET Key, StartEdit(p, l, new)
          PROVE  Asked' /\ OneTarget' /\ (Seen => Seen')
      <4>1. Asked' /\ OneTarget'
        BY <2>0, <3>1 DEF StartEdit, Asked, OneTarget, Appending, TypeOK
      <4> QED BY <3>1, <4>1, BystanderKeepsSeen DEF StartEdit, TypeOK
    <3>2. CASE Truncate(p)
      BY <2>0, <3>2 DEF Truncate, Asked, OneTarget, Appending, TypeOK
    <3>3. CASE Fill(p)
      <4>1. Asked' /\ OneTarget'
        BY <2>0, <3>3 DEF Fill, Return, Asked, OneTarget, Appending, TypeOK
      <4>2. ~Locked
        BY <3>3 DEF Fill, Locked
      <4> QED BY <4>1, <4>2
    <3> QED BY <2>4, <3>1, <3>2, <3>3 DEF Edit
  <2>5. ASSUME NEW p \in Procs, Crash(p)
        PROVE  Asked' /\ OneTarget' /\ (~unlocked' /\ Locked /\ Seen => Seen')
    <3>1. Asked' /\ OneTarget'
      BY <2>0, <2>5 DEF Crash, Return, Asked, OneTarget, Appending, TypeOK
    <3> QED BY <2>5, <3>1, BystanderKeepsSeen DEF Crash, Return, TypeOK
  <2>6. CASE UNCHANGED vars
    BY <2>0, <2>6 DEF vars, Asked, OneTarget, Appending, Seen
  <2> QED BY <2>1, <2>2, <2>3, <2>4, <2>5, <2>6 DEF Next
<1> QED BY <1>1, <1>2, TypeCorrect, AlwaysLocked, PTL DEF Spec

(* Where nobody enters or leaves the interval between a read and a publish, *)
(* and the file stays, so does the ledger.                                 *)
LEMMA LedgerSame ==
  ASSUME file' = file, unlocked' = unlocked,
         \A q \in Procs : pc'[q] = "bumpWrite" <=> pc[q] = "bumpWrite",
         \A q \in Procs : pc[q] = "bumpWrite" => snap'[q] = snap[q]
  PROVE  UNCHANGED Ledger!ledgerVars
<1>1. \A l : (\E q \in Procs : pc'[q] = "bumpWrite" /\ l \notin snap'[q])
             <=> (\E q \in Procs : pc[q] = "bumpWrite" /\ l \notin snap[q])
  OBVIOUS
<1>2. Ledgered' = Ledgered
  BY DEF Ledgered
<1>3. AddedSince' = AddedSince
  BY <1>1 DEF AddedSince
<1> QED BY <1>2, <1>3 DEF Ledger!ledgerVars

(* The publish is the report it was asked for: the ledger without what was *)
(* added since the read is what was read.                                  *)
LEMMA PublishReports ==
  ASSUME TypeOK, Locked, Asked, Seen, ~unlocked, NEW p \in Procs, BumpWrite(p)
  PROVE  Ledger!Report(want[p], good[p])
<1>1. pc[p] = "bumpWrite" /\ unlocked' = unlocked
  BY DEF BumpWrite
<1>2. \A q \in Procs : pc[q] = "bumpWrite" <=> q = p
  BY <1>1 DEF Locked
<1>3. \A q \in Procs : pc'[q] # "bumpWrite"
  BY <1>1, <1>2 DEF BumpWrite, Goto, TypeOK
<1>4. Ledgered = file /\ Ledgered' = file' /\ AddedSince = file \ snap[p] /\ AddedSince' = {}
  BY <1>1, <1>2, <1>3 DEF Ledgered, AddedSince
<1>5. snap[p] \subseteq file /\ Matching(snap[p], want[p]) # {}
  BY <1>1 DEF Seen
<1>6. Ledgered \ AddedSince = snap[p]
  BY <1>4, <1>5
<1>7. file' = {IF l.trig \in want[p] THEN Ledger!Counted(l, good[p]) ELSE l : l \in snap[p]}
  BY DEF BumpWrite, Publish, BumpAll, Matching, Bumped, Ledger!Counted
<1>8. \E l \in Ledgered \ AddedSince : l.trig \in want[p]
  BY <1>5, <1>6 DEF Matching
<1> QED BY <1>1, <1>4, <1>6, <1>7, <1>8 DEF Ledger!Report

(* An append that reaches the file adds one lesson the ledger does not     *)
(* have; one whose inode a publish has unlinked adds none.                 *)
LEMMA AppendAdds ==
  ASSUME TypeOK, Locked, OneTarget, ~unlocked, NEW p \in Procs, Append(p)
  PROVE  Ledger!LedgerNext \/ UNCHANGED Ledger!ledgerVars
<1>1. /\ pc[p] = "append" /\ ~unlocked' /\ unlocked' = unlocked
      /\ \A q \in Procs : q # p => pc'[q] = pc[q] /\ snap'[q] = snap[q]
      /\ pc'[p] = "idle"
  BY DEF Append, Return, Goto, TypeOK
<1>2. PICK k \in Key : target[p] = {k}
  BY <1>1 DEF OneTarget, Appending
<1>3. Fresh(k)
  BY <1>1, <1>2 DEF Locked, Appending
<1>4. CASE ~live[p]
  <2>1. file' = file
    BY <1>4 DEF Append
  <2> QED BY <1>1, <2>1, LedgerSame
<1>5. CASE live[p]
  <2> DEFINE new == NewLesson(k)
  <2>1. file' = file \cup {new} /\ new = Ledger!Entry(k)
    BY <1>2, <1>5 DEF Append, NewLesson, Ledger!Entry
  <2>2. KeyOf(new) = k
    BY NewLessonFacts
  <2>3. new \notin file /\ \A q \in Procs : new \notin snap[q]
    BY <1>3, <2>2 DEF Fresh, Keys
  <2>4. AddedSince' = AddedSince \/ AddedSince' = AddedSince \cup {new}
    <3>1. \A q \in Procs : (pc'[q] = "bumpWrite" <=> pc[q] = "bumpWrite")
                           /\ (pc[q] = "bumpWrite" => snap'[q] = snap[q])
      BY <1>1
    <3>2. AddedSince = {l \in file : \E q \in Procs : pc[q] = "bumpWrite" /\ l \notin snap[q]}
      BY DEF AddedSince
    <3>3. AddedSince' = {l \in file \cup {new} : \E q \in Procs : pc[q] = "bumpWrite" /\ l \notin snap[q]}
      BY <1>1, <2>1, <3>1 DEF AddedSince
    <3>4. CASE \E q \in Procs : pc[q] = "bumpWrite"
      BY <2>3, <3>2, <3>3, <3>4
    <3>5. CASE ~ \E q \in Procs : pc[q] = "bumpWrite"
      BY <3>2, <3>3, <3>5
    <3> QED BY <3>4, <3>5
  <2>5. \A l \in file : ~ Ledger!SameLesson(l, k)
    <3> SUFFICES ASSUME NEW l \in file, l.trig = k.trig, l.advice = k.advice PROVE FALSE
      BY DEF Ledger!SameLesson
    <3>1. KeyOf(l) = k
      BY DEF KeyOf, Key
    <3> QED BY <1>3, <3>1 DEF Fresh, Keys
  <2>6. Ledgered = file /\ Ledgered' = file'
    BY <1>1 DEF Ledgered
  <2>7. Ledger!Add(k)
    BY <1>1, <2>1, <2>4, <2>5, <2>6 DEF Ledger!Add
  <2>8. k = [trig |-> k.trig, advice |-> k.advice] /\ k.trig \in Triggers /\ k.advice \in Advices
    BY DEF Key
  <2> QED BY <2>7, <2>8 DEF Ledger!LedgerNext
<1> QED BY <1>4, <1>5

(* Whoever sets out to rewrite the file without the lock spoils the ledger. *)
LEMMA UnlockingSpoils ==
  ASSUME ~unlocked, unlocked' = TRUE
  PROVE  Ledger!LedgerNext
BY DEF Ledger!LedgerNext, Ledger!Spoil, Ledgered, AddedSince

(* Every step of the callers is one of the ledger, or none.                *)
LEMMA StepImplements ==
  ASSUME TypeOK, unlocked \/ Locked, Backed, [Next]_vars
  PROVE  [Ledger!LedgerNext]_(Ledger!ledgerVars)
<1>1. CASE unlocked
  <2>1. unlocked'
    BY <1>1, UnlockedStays
  <2>2. unlocked' = unlocked
    BY <1>1, <2>1, UnlockedStays DEF TypeOK
  <2> QED BY <1>1, <2>1, <2>2 DEF Ledger!ledgerVars, Ledgered, AddedSince
<1>2. CASE ~unlocked
  <2>0. Locked /\ Asked /\ OneTarget /\ Seen
    BY <1>2 DEF Backed
  <2> USE DEF Goto, shared, ghosts
  <2>1. ASSUME NEW p \in Procs, Feedback(p) PROVE Ledger!LedgerNext \/ UNCHANGED Ledger!ledgerVars
    <3>1. ASSUME NEW W \in Reports, NEW g \in BOOLEAN, StartFeedback(p, W, g)
          PROVE  UNCHANGED Ledger!ledgerVars
      BY <3>1, LedgerSame DEF StartFeedback, TypeOK
    <3>2. CASE AcquireLock(p)
      BY <3>2, LedgerSame DEF AcquireLock, TypeOK
    <3>3. CASE ProceedUnlocked(p)
      BY <1>2, <3>3, UnlockingSpoils DEF ProceedUnlocked
    <3>4. CASE BumpRead(p)
      <4>1. \A q \in Procs : pc[q] # "bumpWrite"
        BY <2>0, <3>4 DEF BumpRead, Locked
      <4>2. \A q \in Procs : pc'[q] = "bumpWrite" => snap'[q] = file'
        BY <3>4, <4>1 DEF BumpRead, TypeOK
      <4>3. file' = file /\ unlocked' = unlocked
        BY <3>4 DEF BumpRead
      <4>4. AddedSince = {} /\ AddedSince' = {}
        BY <4>1, <4>2 DEF AddedSince
      <4> QED BY <4>3, <4>4 DEF Ledger!ledgerVars, Ledgered
    <3>5. CASE BumpWrite(p)
      <4>1. want[p] \in Reports /\ good[p] \in BOOLEAN
        BY <2>0, <3>5 DEF BumpWrite, Asked, TypeOK
      <4>2. Ledger!Report(want[p], good[p])
        BY <1>2, <2>0, <3>5, PublishReports
      <4> QED BY <4>1, <4>2 DEF Ledger!LedgerNext
    <3>6. CASE Unlock(p)
      BY <3>6, LedgerSame DEF Unlock, Return, TypeOK
    <3> QED BY <2>1, <3>1, <3>2, <3>3, <3>4, <3>5, <3>6 DEF Feedback
  <2>2. ASSUME NEW p \in Procs, Remember(p) PROVE Ledger!LedgerNext \/ UNCHANGED Ledger!ledgerVars
    <3>1. ASSUME NEW k \in Key, NEW next \in {"checkCap", "open"}, BeginAppend(p, k, next)
          PROVE  UNCHANGED Ledger!ledgerVars
      BY <3>1, LedgerSame DEF BeginAppend, TypeOK
    <3>2. CASE CheckCap(p)
      BY <3>2, LedgerSame DEF CheckCap, Return, TypeOK
    <3>3. CASE OpenAppend(p)
      BY <3>3, LedgerSame DEF OpenAppend, TypeOK
    <3>4. CASE Append(p)
      BY <1>2, <2>0, <3>4, AppendAdds
    <3> QED BY <2>2, <3>1, <3>2, <3>3, <3>4 DEF Remember, StartRemember, StartCliLesson
  <2>3. ASSUME NEW p \in Procs, Forget(p) PROVE Ledger!LedgerNext \/ UNCHANGED Ledger!ledgerVars
    <3>1. CASE StartForget(p)  BY <3>1, LedgerSame DEF StartForget, TypeOK
    <3>2. CASE DropWrite(p)    BY <1>2, <3>2, UnlockingSpoils DEF DropWrite
    <3>3. CASE Judge(p)        BY <3>3, LedgerSame DEF Judge, Return, TypeOK
    <3>4. CASE QuarRead(p)     BY <3>4, LedgerSame DEF QuarRead, Return, TypeOK
    <3>5. CASE QuarAppend(p)   BY <3>5, LedgerSame DEF QuarAppend, TypeOK
    <3>6. CASE QuarWrite(p)    BY <1>2, <3>6, UnlockingSpoils DEF QuarWrite
    <3> QED BY <2>3, <3>1, <3>2, <3>3, <3>4, <3>5, <3>6 DEF Forget
  <2>4. ASSUME NEW p \in Procs, Edit(p) PROVE Ledger!LedgerNext \/ UNCHANGED Ledger!ledgerVars
    <3>1. ASSUME NEW l \in file, NEW new \in SUBSET Key, StartEdit(p, l, new)
          PROVE  UNCHANGED Ledger!ledgerVars
      BY <3>1, LedgerSame DEF StartEdit, TypeOK
    <3>2. CASE Truncate(p)     BY <1>2, <3>2, UnlockingSpoils DEF Truncate
    <3>3. CASE Fill(p)         BY <2>0, <3>3 DEF Fill, Locked
    <3> QED BY <2>4, <3>1, <3>2, <3>3 DEF Edit
  <2>5. ASSUME NEW p \in Procs, Crash(p) PROVE Ledger!LedgerNext \/ UNCHANGED Ledger!ledgerVars
    <3>1. /\ file' = file /\ unlocked' = unlocked /\ pc'[p] = "idle"
          /\ \A q \in Procs : q # p => pc'[q] = pc[q] /\ snap'[q] = snap[q]
      BY <2>5 DEF Crash, Return, TypeOK
    <3>2. CASE pc[p] = "bumpWrite"
      <4>1. \A q \in Procs : pc'[q] # "bumpWrite"
        BY <2>0, <3>1, <3>2 DEF Locked
      <4>2. Ledger!ReportLost
        BY <1>2, <3>1, <4>1 DEF Ledger!ReportLost, Ledgered, AddedSince
      <4> QED BY <4>2 DEF Ledger!LedgerNext
    <3>3. CASE pc[p] # "bumpWrite"
      BY <3>1, <3>3, LedgerSame
    <3> QED BY <3>2, <3>3
  <2>6. CASE UNCHANGED vars
    BY <2>6, LedgerSame DEF vars
  <2> QED BY <2>1, <2>2, <2>3, <2>4, <2>5, <2>6 DEF Next
<1> QED BY <1>1, <1>2

(* A lesson with a history is in no danger: it is not among those a report  *)
(* in progress has not seen, and a report only adds to what it carries.     *)
LEMMA HistoryStays ==
  ASSUME TypeOK, Backed, [Ledger!LedgerNext]_(Ledger!ledgerVars), ~unlocked',
         NEW l \in Ledgered, l.succ + l.fail > 0
  PROVE  \E m \in Ledgered' : Ledger!SameLesson(l, m) /\ l.succ <= m.succ /\ l.fail <= m.fail
<1>1. l \in Lesson /\ l \in file /\ ~unlocked
  BY DEF Ledgered, TypeOK
<1>2. l.succ \in Nat /\ l.fail \in Nat
  BY <1>1 DEF Lesson
<1>3. l \notin AddedSince
  BY <1>1, <1>2 DEF AddedSince, Backed, Seen
<1>4. Ledger!SameLesson(l, l) /\ l.succ <= l.succ /\ l.fail <= l.fail
  BY <1>2 DEF Ledger!SameLesson
<1>5. ASSUME NEW k, Ledger!Add(k) PROVE l \in Ledgered'
  BY <1>5 DEF Ledger!Add
<1>6. ASSUME NEW W, NEW g \in BOOLEAN, Ledger!Report(W, g)
      PROVE  \E m \in Ledgered' : Ledger!SameLesson(l, m) /\ l.succ <= m.succ /\ l.fail <= m.fail
  <2> DEFINE m == IF l.trig \in W THEN Ledger!Counted(l, g) ELSE l
  <2>1. m \in Ledgered'
    BY <1>3, <1>6 DEF Ledger!Report
  <2>2. Ledger!SameLesson(l, m) /\ l.succ <= m.succ /\ l.fail <= m.fail
    BY <1>1, <1>2 DEF Ledger!SameLesson, Ledger!Counted, Lesson
  <2> QED BY <2>1, <2>2
<1>7. CASE Ledger!ReportLost
  BY <1>4, <1>7 DEF Ledger!ReportLost
<1>8. CASE Ledger!Spoil
  BY <1>8 DEF Ledger!Spoil
<1>9. CASE UNCHANGED Ledger!ledgerVars
  BY <1>4, <1>9 DEF Ledger!ledgerVars
<1> QED BY <1>4, <1>5, <1>6, <1>7, <1>8, <1>9 DEF Ledger!LedgerNext

(* Under the surface lock the callers implement the ledger, whoever         *)
(* appends, hangs or dies meanwhile: each publish counts one whole report   *)
(* on every lesson it was asked for, what is lost has no history, and no    *)
(* outcome is ever taken back.                                              *)
THEOREM LedgerImplemented == Spec => LedgerKept
<1>1. Init => Ledger!LedgerInit
  BY DEF Init, Ledger!LedgerInit, Ledger!Entry, NewLesson, Ledgered, AddedSince
<1>2. TypeOK /\ (unlocked \/ Locked) /\ Backed /\ [Next]_vars
        => [Ledger!LedgerNext]_(Ledger!ledgerVars)
  BY StepImplements
<1>3. TypeOK /\ (unlocked \/ Locked) /\ Backed /\ [Next]_vars
        => [\A l \in Ledgered : l.succ + l.fail > 0 /\ ~unlocked' =>
              \E m \in Ledgered' : Ledger!SameLesson(l, m) /\ l.succ <= m.succ /\ l.fail <= m.fail]_(Ledger!ledgerVars)
  BY StepImplements, HistoryStays
<1> QED BY <1>1, <1>2, <1>3, TypeCorrect, AlwaysLocked, AlwaysBacked, PTL
        DEF Spec, LedgerKept, Ledger!LedgerSpec, Ledger!OutcomesStay

-----------------------------------------------------------------------------
(* What the quarantine is about to take out of the file has been copied:   *)
(* no caller ever takes a lesson out of LESSONS.quarantined.md again.      *)
Copied(p) == pc[p] = "quarWrite" => Matching(snap[p], want[p]) \subseteq quarantined

QuarCopied == \A p \in Procs : Copied(p)

(* A step of another process leaves p where it was, and the quarantine     *)
(* file only grows.                                                        *)
LEMMA CopiedBystander ==
  ASSUME TypeOK, NEW p \in Procs, Copied(p),
         pc'[p] = pc[p], snap'[p] = snap[p], want'[p] = want[p],
         quarantined \subseteq quarantined'
  PROVE  Copied(p)'
BY DEF Copied, Matching

(* Every step of q leaves the others alone and only adds to the quarantine. *)
LEMMA OthersKeep ==
  ASSUME TypeOK, NEW q \in Procs,
         Feedback(q) \/ Remember(q) \/ Forget(q) \/ Edit(q) \/ Crash(q)
  PROVE  /\ quarantined \subseteq quarantined'
         /\ \A p \in Procs \ {q} :
              pc'[p] = pc[p] /\ snap'[p] = snap[p] /\ want'[p] = want[p]
<1> USE DEF TypeOK, Goto, Return, shared, ghosts
<1>1. CASE Feedback(q)
  <2>1. ASSUME NEW W \in SUBSET Triggers, NEW g \in BOOLEAN, StartFeedback(q, W, g)
        PROVE  /\ quarantined \subseteq quarantined'
               /\ \A p \in Procs \ {q} :
                    pc'[p] = pc[p] /\ snap'[p] = snap[p] /\ want'[p] = want[p]
    BY <2>1 DEF StartFeedback
  <2> QED BY <1>1, <2>1, LessonAssumption
          DEF Feedback, AcquireLock, ProceedUnlocked, BumpRead, BumpWrite, Unlock
<1>2. CASE Remember(q)
  BY <1>2 DEF Remember, StartRemember, StartCliLesson, BeginAppend, CheckCap, OpenAppend, Append
<1>3. CASE Forget(q)
  BY <1>3 DEF Forget, StartForget, DropWrite, Judge, QuarRead, QuarAppend, QuarWrite
<1>4. CASE Edit(q)
  BY <1>4 DEF Edit, StartEdit, Truncate, Fill
<1>5. CASE Crash(q)
  BY <1>5 DEF Crash
<1> QED BY <1>1, <1>2, <1>3, <1>4, <1>5

(* The copy is made in the step before, from the read the publish uses;    *)
(* no other step arrives at the publish.                                   *)
LEMMA OwnStepCopies ==
  ASSUME TypeOK, NEW q \in Procs, Copied(q),
         Feedback(q) \/ Remember(q) \/ Forget(q) \/ Edit(q) \/ Crash(q)
  PROVE  Copied(q)'
<1> USE DEF TypeOK, Goto, Return
<1>1. CASE QuarAppend(q)
  BY <1>1 DEF QuarAppend, Copied, Matching
<1>2. CASE ~ QuarAppend(q)
  <2>1. CASE Feedback(q)
    <3>1. ASSUME NEW W \in SUBSET Triggers, NEW g \in BOOLEAN, StartFeedback(q, W, g)
          PROVE  pc'[q] # "quarWrite"
      BY <3>1 DEF StartFeedback
    <3>2. pc'[q] # "quarWrite"
      BY <2>1, <3>1, LessonAssumption
         DEF Feedback, AcquireLock, ProceedUnlocked, BumpRead, BumpWrite, Unlock
    <3> QED BY <3>2 DEF Copied
  <2>2. CASE Remember(q)
    BY <2>2 DEF Copied, Remember, StartRemember, StartCliLesson, BeginAppend, CheckCap,
                OpenAppend, Append
  <2>3. CASE Forget(q)
    BY <1>2, <2>3 DEF Copied, Forget, StartForget, DropWrite, Judge, QuarRead, QuarWrite
  <2>4. CASE Edit(q)
    BY <2>4 DEF Copied, Edit, StartEdit, Truncate, Fill
  <2>5. CASE Crash(q)
    BY <2>5 DEF Copied, Crash
  <2> QED BY <2>1, <2>2, <2>3, <2>4, <2>5
<1> QED BY <1>1, <1>2

(* QuarCopied holds in every reachable state.                              *)
LEMMA AlwaysCopied == Spec => []QuarCopied
<1>1. Init => QuarCopied
  BY DEF Init, QuarCopied, Copied
<1>2. TypeOK /\ QuarCopied /\ [Next]_vars => QuarCopied'
  <2> SUFFICES ASSUME TypeOK, QuarCopied, [Next]_vars PROVE QuarCopied'
    OBVIOUS
  <2>1. CASE UNCHANGED vars
    BY <2>1 DEF vars, QuarCopied, Copied
  <2>2. ASSUME NEW q \in Procs,
               Feedback(q) \/ Remember(q) \/ Forget(q) \/ Edit(q) \/ Crash(q)
        PROVE  QuarCopied'
    <3>1. ASSUME NEW p \in Procs, p # q PROVE Copied(p)'
      BY <2>2, <3>1, OthersKeep, CopiedBystander DEF QuarCopied
    <3>2. Copied(q)'
      BY <2>2, OwnStepCopies DEF QuarCopied
    <3> QED BY <3>1, <3>2 DEF QuarCopied
  <2> QED BY <2>1, <2>2 DEF Next
<1> QED BY <1>1, <1>2, TypeCorrect, PTL DEF Spec

(* Whatever the interleaving, and wherever the forget pass is killed: a    *)
(* lesson the quarantine takes out of the file it read is in the           *)
(* quarantine file already, with the counters it was judged on.            *)
THEOREM QuarantineCopiesFirst == Spec => QuarantineKeepsCopy
<1> DEFINE Kept == \A p \in Procs :
                     pc[p] = "quarWrite" /\ pc'[p] = "idle" /\ file' # file
                       => (snap[p] \ file') \subseteq quarantined
<1>1. TypeOK /\ QuarCopied /\ [Next]_vars => [Kept]_vars
  <2> SUFFICES ASSUME TypeOK, QuarCopied, [Next]_vars,
                      NEW p \in Procs, pc[p] = "quarWrite", pc'[p] = "idle", file' # file
               PROVE  (snap[p] \ file') \subseteq quarantined
    OBVIOUS
  <2>1. PICK q \in Procs : Feedback(q) \/ Remember(q) \/ Forget(q) \/ Edit(q) \/ Crash(q)
    BY DEF Next, vars
  <2>2. q = p
    BY <2>1, OthersKeep
  <2>3. QuarWrite(p) \/ Crash(p)
    BY <2>1, <2>2 DEF Feedback, StartFeedback, AcquireLock, ProceedUnlocked, BumpRead,
       BumpWrite, Unlock, Remember, StartRemember, StartCliLesson, BeginAppend, CheckCap,
       OpenAppend, Append, Forget, StartForget, DropWrite, Judge, QuarRead, QuarAppend,
       Edit, StartEdit, Truncate, Fill
  <2>4. file' = snap[p] \ Matching(snap[p], want[p])
    BY <2>3 DEF QuarWrite, Publish, Crash
  <2> QED BY <2>4 DEF QuarCopied, Copied
<1>2. QuarantineKeepsCopy <=> [][Kept]_vars
  BY DEF QuarantineKeepsCopy
<1> QED BY <1>1, <1>2, TypeCorrect, AlwaysCopied, PTL DEF Spec

-----------------------------------------------------------------------------
(* A lesson that carries the key has not gone yet. *)
LEMMA StillThere ==
  ASSUME NEW k, NEW l \in file \cup quarantined, KeyOf(l) = k
  PROVE  OnDisk(k)
BY DEF OnDisk, Keys

(* What makes a step lose a key: it takes the last lesson that carries it  *)
(* out of the file, and the quarantine has no copy.                        *)
LEMMA LosingStep ==
  ASSUME NEW k, OnDisk(k), ~ OnDisk(k)', quarantined \subseteq quarantined'
  PROVE  /\ k \in Keys(file) /\ k \notin Keys(file')
         /\ k \notin Keys(quarantined')
         /\ file' # file
BY DEF OnDisk, Keys

(* Does p's step at this point publish from a read without k, or rewrite   *)
(* the file in place?                                                      *)
Stale(p, k) ==
  /\ pc'[p] # pc[p]
  /\ \/ pc[p] \in {"bumpWrite", "dropWrite", "quarWrite"} /\ k \notin Keys(snap[p])
     \/ pc[p] \in {"truncate", "fill"}

(* The three publishes and the append keep every lesson they have read,    *)
(* move it to the quarantine, or drop it on purpose.                       *)
LEMMA OnlyStaleSteps ==
  ASSUME TypeOK, QuarCopied, NEW q \in Procs, NEW k \in Key, k \notin removed',
         Feedback(q) \/ Remember(q) \/ Forget(q) \/ Edit(q) \/ Crash(q),
         OnDisk(k), ~ OnDisk(k)'
  PROVE  Stale(q, k)
<1> USE DEF TypeOK, Goto, Return
<1>1. quarantined \subseteq quarantined'
  BY OthersKeep
<1>2. /\ k \in Keys(file) /\ k \notin Keys(file')
      /\ k \notin Keys(quarantined') /\ file' # file
  BY <1>1, LosingStep
<1>3. CASE BumpWrite(q)
  <2>1. Keys(file') = Keys(snap[q])
    BY <1>3, BumpAllFacts DEF BumpWrite, Publish
  <2> QED BY <1>2, <1>3, <2>1 DEF Stale, BumpWrite
<1>4. CASE DropWrite(q)
  <2>1. ASSUME NEW l \in snap[q], KeyOf(l) = k PROVE FALSE
    <3>1. CASE LowConfidence(l)
      BY <1>4, <2>1, <3>1 DEF DropWrite, Keys
    <3>2. CASE ~ LowConfidence(l)
      <4>1. l \in file'
        BY <1>4, <2>1, <3>2 DEF DropWrite, Publish
      <4> QED BY <1>2, <2>1, <4>1 DEF Keys
    <3> QED BY <3>1, <3>2
  <2>2. k \notin Keys(snap[q])
    BY <2>1 DEF Keys
  <2> QED BY <1>4, <2>2 DEF Stale, DropWrite
<1>5. CASE QuarWrite(q)
  <2>1. ASSUME NEW l \in snap[q], KeyOf(l) = k PROVE FALSE
    <3>1. CASE l \in Matching(snap[q], want[q])
      <4>1. l \in quarantined'
        BY <1>1, <1>5, <3>1 DEF QuarCopied, Copied, QuarWrite
      <4> QED BY <1>2, <2>1, <4>1 DEF Keys
    <3>2. CASE l \notin Matching(snap[q], want[q])
      <4>1. l \in file'
        BY <1>5, <2>1, <3>2 DEF QuarWrite, Publish
      <4> QED BY <1>2, <2>1, <4>1 DEF Keys
    <3> QED BY <3>1, <3>2
  <2>2. k \notin Keys(snap[q])
    BY <2>1 DEF Keys
  <2> QED BY <1>5, <2>2 DEF Stale, QuarWrite
<1>6. CASE Append(q)
  BY <1>2, <1>6 DEF Append, Keys
<1>7. CASE Truncate(q)
  BY <1>7 DEF Stale, Truncate
<1>8. CASE Fill(q)
  BY <1>8 DEF Stale, Fill
<1>9. CASE ~ (BumpWrite(q) \/ DropWrite(q) \/ QuarWrite(q) \/ Append(q) \/ Truncate(q) \/ Fill(q))
  <2>1. file' = file
    BY <1>9 DEF Feedback, StartFeedback, AcquireLock, ProceedUnlocked, BumpRead,
       Unlock, Remember, StartRemember, StartCliLesson, BeginAppend, CheckCap,
       OpenAppend, Forget, StartForget, Judge, QuarRead, QuarAppend,
       Edit, StartEdit, Crash, shared
  <2> QED BY <1>2, <2>1
<1> QED BY <1>3, <1>4, <1>5, <1>6, <1>7, <1>8, <1>9

(* Under every interleaving, with the lock or without it, and with callers *)
(* killed anywhere: a lesson whose remember call returned leaves the disk  *)
(* only on purpose, under a publish from a read that did not see it, or    *)
(* under a rewrite in place.                                               *)
THEOREM OnlyStaleLose == Spec => OnlyStaleRewritesLose
<1> DEFINE Justified ==
      \A k \in remembered \ removed' :
        OnDisk(k) /\ ~ OnDisk(k)' => \E p \in Procs : Stale(p, k)
<1>1. TypeOK /\ QuarCopied /\ [Next]_vars => [Justified]_vars
  <2> SUFFICES ASSUME TypeOK, QuarCopied, [Next]_vars, vars' # vars,
                      NEW k \in remembered \ removed', OnDisk(k), ~ OnDisk(k)'
               PROVE  \E p \in Procs : Stale(p, k)
    OBVIOUS
  <2>1. PICK q \in Procs : Feedback(q) \/ Remember(q) \/ Forget(q) \/ Edit(q) \/ Crash(q)
    BY DEF Next
  <2>2. k \in Key
    BY DEF TypeOK
  <2> QED BY <2>1, <2>2, OnlyStaleSteps
<1>2. OnlyStaleRewritesLose <=> [][Justified]_vars
  BY DEF OnlyStaleRewritesLose, Stale
<1> QED BY <1>1, <1>2, TypeCorrect, AlwaysCopied, PTL DEF Spec
=============================================================================
