----------------------------- MODULE LessonFile -----------------------------
(***************************************************************************)
(* LESSONS.md as its concurrent callers change it.                         *)
(*                                                                         *)
(* The file is one shared object.  Four kinds of callers work on it, each  *)
(* in its own OS process (or daemon task):                                 *)
(*   "feedback"  a hook-fired lesson-feedback, the only caller that takes  *)
(*               the surface lock: lock, read, publish, unlock;            *)
(*   "remember"  memory_remember_lesson: conflict check, cap check, append *)
(*   "append"    hoangsa-memory memory lesson with no daemon to route to:  *)
(*               the append alone;                                         *)
(*   "forget"    the forget pass: drop low-confidence lessons, then move   *)
(*               failing lessons to LESSONS.quarantined.md;                *)
(*   "edit"      memory_replace / memory_remove: read, then rewrite the    *)
(*               file in place (truncate, write).                          *)
(* Every await point between a read and the write that depends on it is a  *)
(* step boundary here.  A publish (temp file + rename) is one step; an     *)
(* append and an in-place write go to the inode their process opened,      *)
(* which a publish may have unlinked in the meantime (live[p] = FALSE).    *)
(*                                                                         *)
(* The file is the set of its lessons.  The advice text stands for the     *)
(* identity of a lesson and is new for every remember call; order, layout  *)
(* and the best-effort audit log (memory-history.jsonl) are left out.      *)
(***************************************************************************)
EXTENDS Naturals, FiniteSets

CONSTANTS
  Procs,           \* processes and daemon tasks that call into the store
  NoProc,          \* nobody: the surface lock is free
  Hung,            \* processes that may stop for ever between two steps
  Triggers,        \* lesson triggers, already trimmed and lower-cased
  Advices,         \* advice texts: one per remember or replace call
  Seed,            \* lessons on disk at the start: a set of [trig, advice]
  Ops,             \* which kinds of callers are in play
  LockMayFail,     \* may a feedback call go on without the surface lock?
  Mortal,          \* processes that may die between two steps
  Cap,             \* cap_lessons_bytes, counted in lessons
  Reports,         \* the sets of triggers a feedback call may name
  MaxFeedback,     \* bound: number of feedback calls in a behaviour
  MinAttempts,     \* lesson_min_attempts
  FloorPct,        \* lesson_floor, in percent
  QuarMinAttempts, \* quarantine_min_attempts
  QuarPct          \* quarantine_failure_ratio, in percent

Key  == [trig : Triggers, advice : Advices]

ASSUME LessonAssumption ==
  /\ NoProc \notin Procs
  /\ Hung \subseteq Procs
  /\ Seed \subseteq Key
  /\ Ops \subseteq {"feedback", "remember", "append", "forget", "edit"}
  /\ LockMayFail \in BOOLEAN /\ Mortal \subseteq Procs
  /\ Reports \subseteq (SUBSET Triggers) \ {{}}
  /\ Cap \in Nat /\ MaxFeedback \in Nat
  /\ MinAttempts \in Nat /\ FloorPct \in Nat
  /\ QuarMinAttempts \in Nat /\ QuarPct \in Nat

VARIABLES
  file,         \* LESSONS.md: the set of lessons a reader parses
  quarantined,  \* LESSONS.quarantined.md: append-only
  lock,         \* holder of the flock on LESSONS.md.lock, or NoProc
  pc,           \* where each process stands
  snap,         \* what each process read last
  want,         \* triggers a feedback call or a quarantine works on
  good,         \* the outcome a feedback call reports
  target,       \* lesson a remember call appends, or an edit replaces
  live,         \* does the open descriptor still name LESSONS.md?
  (* Ghosts: what happened, for the properties only. *)
  used,         \* advice texts already taken
  fed,          \* feedback calls started
  pub,          \* feedback published so far, per lesson
  remembered,   \* lessons whose remember call returned Ok
  removed,      \* lessons a caller took out on purpose
  unlocked      \* has anyone set out to rewrite the file without the lock?

shared == <<file, quarantined, lock>>
ghosts == <<used, fed, pub, remembered, removed, unlocked>>
vars == <<file, quarantined, lock, pc, snap, want, good, target, live,
          used, fed, pub, remembered, removed, unlocked>>

Lesson == [trig : Triggers, advice : Advices, succ : Nat, fail : Nat]
Tally  == [succ : Nat, fail : Nat]

PCs == {"idle", "locking", "bumping", "bumpWrite", "unlock",
        "checkCap", "open", "append",
        "dropWrite", "judge", "quarRead", "quarAppend", "quarWrite",
        "truncate", "fill"}

KeyOf(l)  == [trig |-> l.trig, advice |-> l.advice]
Keys(S)   == {KeyOf(l) : l \in S}
NewLesson(k) == [trig |-> k.trig, advice |-> k.advice, succ |-> 0, fail |-> 0]
Matching(S, W) == {l \in S : l.trig \in W}

(* Variant: a failure takes a success back instead of counting a failure. *)
BumpedBack(l, g) == IF g THEN [l EXCEPT !.succ = @ + 1]
                         ELSE [l EXCEPT !.succ = @ - 1]

(* bump_lesson_counters on one lesson; u64 saturation is out of reach. *)
Bumped(l, g) == IF g THEN [l EXCEPT !.succ = @ + 1]
                     ELSE [l EXCEPT !.fail = @ + 1]

(* Variant: the trigger filter is gone. *)
BumpEvery(S, W, g) == {Bumped(l, g) : l \in S}

BumpAll(S, W, g) == (S \ Matching(S, W)) \cup {Bumped(l, g) : l \in Matching(S, W)}

Attempts(l) == l.succ + l.fail

(* drop_low_confidence_lessons: success / (attempts + 1) below the floor. *)
LowConfidence(l) ==
  /\ FloorPct > 0 /\ MinAttempts > 0
  /\ Attempts(l) >= MinAttempts
  /\ 100 * l.succ < FloorPct * (Attempts(l) + 1)

(* auto_quarantine_lessons: failure / attempts at or above the ratio. *)
Failing(l) ==
  /\ QuarPct > 0 /\ QuarMinAttempts > 0
  /\ Attempts(l) >= QuarMinAttempts
  /\ 100 * l.fail >= QuarPct * Attempts(l)

Init ==
  /\ file = {NewLesson(k) : k \in Seed}
  /\ quarantined = {}
  /\ lock = NoProc
  /\ pc = [p \in Procs |-> "idle"]
  /\ snap = [p \in Procs |-> {}]
  /\ want = [p \in Procs |-> {}]
  /\ good = [p \in Procs |-> FALSE]
  /\ target = [p \in Procs |-> {}]
  /\ live = [p \in Procs |-> FALSE]
  /\ used = {k.advice : k \in Seed}
  /\ fed = 0
  /\ pub = [k \in Key |-> [succ |-> 0, fail |-> 0]]
  /\ remembered = Seed
  /\ removed = {}
  /\ unlocked = FALSE

Goto(p, l) == pc' = [pc EXCEPT ![p] = l]

(* p's call is over and its locals with it. *)
Return(p) == /\ Goto(p, "idle")
             /\ snap' = [snap EXCEPT ![p] = {}]
             /\ want' = [want EXCEPT ![p] = {}]
             /\ good' = [good EXCEPT ![p] = FALSE]
             /\ target' = [target EXCEPT ![p] = {}]

Close(p) == live' = [live EXCEPT ![p] = FALSE]

(* write_atomic: the rename puts S in place and unlinks the inode others   *)
(* may hold open.                                                          *)
Publish(S) == /\ file' = S
              /\ live' = [q \in Procs |-> FALSE]

-----------------------------------------------------------------------------
(* lesson-feedback: with_surface_lock around bump_lesson_counters.         *)

StartFeedback(p, W, g) ==
  /\ "feedback" \in Ops /\ pc[p] = "idle" /\ fed < MaxFeedback
  /\ fed' = fed + 1
  /\ want' = [want EXCEPT ![p] = W]
  /\ good' = [good EXCEPT ![p] = g]
  /\ Goto(p, "locking")
  /\ UNCHANGED <<shared, snap, target, live, used, pub, remembered, removed, unlocked>>

(* Variant: the lock is taken without looking whether it is free. *)
AcquireAnyway(p) ==
  /\ pc[p] = "locking"
  /\ lock' = p
  /\ Goto(p, "bumping")
  /\ UNCHANGED <<file, quarantined, snap, want, good, target, live, ghosts>>

AcquireLock(p) ==
  /\ pc[p] = "locking" /\ lock = NoProc
  /\ lock' = p
  /\ Goto(p, "bumping")
  /\ UNCHANGED <<file, quarantined, snap, want, good, target, live, ghosts>>

(* Variant: no deadline on the wait for the lock. *)
WaitForEver(p) == FALSE

(* The lock file cannot be opened, or five seconds passed: go on unlocked. *)
ProceedUnlocked(p) ==
  /\ LockMayFail /\ pc[p] = "locking"
  /\ unlocked' = TRUE
  /\ Goto(p, "bumping")
  /\ UNCHANGED <<shared, snap, want, good, target, live,
                 used, fed, pub, remembered, removed>>

BumpRead(p) ==
  /\ pc[p] = "bumping"
  /\ snap' = [snap EXCEPT ![p] = file]
  /\ Goto(p, IF Matching(file, want[p]) = {} THEN "unlock" ELSE "bumpWrite")
  /\ UNCHANGED <<shared, want, good, target, live, ghosts>>

BumpWrite(p) ==
  /\ pc[p] = "bumpWrite"
  /\ Publish(BumpAll(snap[p], want[p], good[p]))
  /\ pub' = [k \in Key |->
               IF k \in Keys(Matching(snap[p], want[p]))
               THEN Bumped(pub[k], good[p]) ELSE pub[k]]
  /\ Goto(p, "unlock")
  /\ UNCHANGED <<quarantined, lock, snap, want, good, target,
                 used, fed, remembered, removed, unlocked>>

Unlock(p) ==
  /\ pc[p] = "unlock"
  /\ lock' = IF lock = p THEN NoProc ELSE lock
  /\ Return(p)
  /\ UNCHANGED <<file, quarantined, live, ghosts>>

-----------------------------------------------------------------------------
(* memory_remember_lesson: conflict check, cap check, O_APPEND.            *)

BeginAppend(p, k, next) ==
  /\ pc[p] = "idle" /\ k.advice \notin used
  /\ used' = used \cup {k.advice}
  /\ target' = [target EXCEPT ![p] = {k}]
  /\ Goto(p, next)
  /\ UNCHANGED <<shared, snap, want, good, live, fed, pub, remembered, removed, unlocked>>

StartRemember(p, k) ==
  /\ "remember" \in Ops
  /\ Matching(file, {k.trig}) = {}
  /\ BeginAppend(p, k, "checkCap")

StartCliLesson(p, k) ==
  /\ "append" \in Ops
  /\ BeginAppend(p, k, "open")

CheckCap(p) ==
  /\ pc[p] = "checkCap"
  /\ IF Cardinality(file) + 1 > Cap
     THEN Return(p)
     ELSE Goto(p, "open") /\ UNCHANGED <<snap, want, good, target>>
  /\ UNCHANGED <<shared, live, ghosts>>

OpenAppend(p) ==
  /\ pc[p] = "open"
  /\ live' = [live EXCEPT ![p] = TRUE]
  /\ Goto(p, "append")
  /\ UNCHANGED <<shared, snap, want, good, target, ghosts>>

Append(p) ==
  /\ pc[p] = "append"
  /\ file' = IF live[p] THEN file \cup {NewLesson(k) : k \in target[p]} ELSE file
  /\ remembered' = remembered \cup target[p]
  /\ Return(p) /\ Close(p)
  /\ UNCHANGED <<quarantined, lock, used, fed, pub, removed, unlocked>>

-----------------------------------------------------------------------------
(* forget_pass, lesson steps: drop_low_confidence_lessons, then            *)
(* auto_quarantine_lessons, which judges one read and moves from another.  *)

StartForget(p) ==
  /\ "forget" \in Ops /\ pc[p] = "idle"
  /\ snap' = [snap EXCEPT ![p] = file]
  /\ Goto(p, IF \E l \in file : LowConfidence(l) THEN "dropWrite" ELSE "judge")
  /\ UNCHANGED <<shared, want, good, target, live, ghosts>>

DropWrite(p) ==
  LET low == {l \in snap[p] : LowConfidence(l)} IN
  /\ pc[p] = "dropWrite"
  /\ Publish(snap[p] \ low)
  /\ removed' = removed \cup Keys(low)
  /\ unlocked' = TRUE
  /\ Goto(p, "judge")
  /\ UNCHANGED <<quarantined, lock, snap, want, good, target,
                 used, fed, pub, remembered>>

Judge(p) ==
  LET failing == {l.trig : l \in {m \in file : Failing(m)}} IN
  /\ pc[p] = "judge"
  /\ IF failing = {}
     THEN Return(p)
     ELSE /\ Goto(p, "quarRead")
          /\ want' = [want EXCEPT ![p] = failing]
          /\ UNCHANGED <<snap, good, target>>
  /\ UNCHANGED <<shared, live, ghosts>>

(* Variant: the copy to the quarantine file is skipped. *)
QuarReadNoCopy(p) ==
  /\ pc[p] = "quarRead"
  /\ IF Matching(file, want[p]) = {}
     THEN Return(p)
     ELSE /\ Goto(p, "quarWrite")
          /\ snap' = [snap EXCEPT ![p] = file]
          /\ UNCHANGED <<want, good, target>>
  /\ UNCHANGED <<shared, live, ghosts>>

QuarRead(p) ==
  /\ pc[p] = "quarRead"
  /\ IF Matching(file, want[p]) = {}
     THEN Return(p)
     ELSE /\ Goto(p, "quarAppend")
          /\ snap' = [snap EXCEPT ![p] = file]
          /\ UNCHANGED <<want, good, target>>
  /\ UNCHANGED <<shared, live, ghosts>>

(* Variant: the copy is taken from a second read. *)
QuarAppendReread(p) ==
  /\ pc[p] = "quarAppend"
  /\ quarantined' = quarantined \cup Matching(file, want[p])
  /\ Goto(p, "quarWrite")
  /\ UNCHANGED <<file, lock, snap, want, good, target, live, ghosts>>

QuarAppend(p) ==
  /\ pc[p] = "quarAppend"
  /\ quarantined' = quarantined \cup Matching(snap[p], want[p])
  /\ Goto(p, "quarWrite")
  /\ UNCHANGED <<file, lock, snap, want, good, target, live, ghosts>>

QuarWrite(p) ==
  /\ pc[p] = "quarWrite"
  /\ Publish(snap[p] \ Matching(snap[p], want[p]))
  /\ unlocked' = TRUE
  /\ Return(p)
  /\ UNCHANGED <<quarantined, lock, used, fed, pub, remembered, removed>>

-----------------------------------------------------------------------------
(* memory_replace / memory_remove: read, pick one entry, then              *)
(* tokio::fs::write over the live file (open with truncation, write).      *)
(* A replaced lesson comes back without its counters.                      *)

(* new is the replacement (a set of at most one key): {} for a removal.    *)
StartEdit(p, l, new) ==
  /\ "edit" \in Ops /\ pc[p] = "idle" /\ l \in file
  /\ \A k \in new : k.advice \notin used
  /\ used' = used \cup {k.advice : k \in new}
  /\ snap' = [snap EXCEPT ![p] = (file \ {l}) \cup {NewLesson(k) : k \in new}]
  /\ target' = [target EXCEPT ![p] = {KeyOf(l)}]
  /\ Goto(p, "truncate")
  /\ UNCHANGED <<shared, want, good, live, fed, pub, remembered, removed, unlocked>>

Truncate(p) ==
  /\ pc[p] = "truncate"
  /\ file' = {}
  /\ live' = [live EXCEPT ![p] = TRUE]
  /\ unlocked' = TRUE
  /\ Goto(p, "fill")
  /\ UNCHANGED <<quarantined, lock, snap, want, good, target,
                 used, fed, pub, remembered, removed>>

(* The body overwrites the file from offset 0.  What others wrote since    *)
(* the truncation survives only beyond the end of the body.                *)
Fill(p) ==
  /\ pc[p] = "fill"
  /\ IF live[p]
     THEN /\ \E tail \in SUBSET file : file' = snap[p] \cup tail
          /\ removed' = removed \cup target[p]
     ELSE UNCHANGED <<file, removed>>
  /\ Return(p) /\ Close(p)
  /\ UNCHANGED <<quarantined, lock, used, fed, pub, remembered, unlocked>>

-----------------------------------------------------------------------------
(* The process dies; the OS drops its lock.  The disk keeps what it wrote. *)
Crash(p) ==
  /\ p \in Mortal /\ pc[p] # "idle"
  /\ lock' = IF lock = p THEN NoProc ELSE lock
  /\ Return(p) /\ Close(p)
  /\ UNCHANGED <<file, quarantined, ghosts>>

Feedback(p) ==
  \/ \E W \in Reports, g \in BOOLEAN : StartFeedback(p, W, g)
  \/ AcquireLock(p) \/ ProceedUnlocked(p) \/ BumpRead(p) \/ BumpWrite(p) \/ Unlock(p)

Remember(p) ==
  \/ \E k \in Key : StartRemember(p, k) \/ StartCliLesson(p, k)
  \/ CheckCap(p) \/ OpenAppend(p) \/ Append(p)

Forget(p) ==
  StartForget(p) \/ DropWrite(p) \/ Judge(p) \/ QuarRead(p) \/ QuarAppend(p)
                 \/ QuarWrite(p)

Edit(p) ==
  \/ \E l \in file : \/ StartEdit(p, l, {})
                     \/ \E k \in Key : StartEdit(p, l, {k})
  \/ Truncate(p) \/ Fill(p)

Next == \E p \in Procs : Feedback(p) \/ Remember(p) \/ Forget(p) \/ Edit(p) \/ Crash(p)

Spec == Init /\ [][Next]_vars

(* The steps of a call that has started.  A process that does not hang     *)
(* takes them: nothing between two awaits blocks, and the wait for the     *)
(* lock has a deadline.                                                    *)
Step(p) ==
  \/ AcquireLock(p) \/ ProceedUnlocked(p) \/ BumpRead(p) \/ BumpWrite(p) \/ Unlock(p)
  \/ CheckCap(p) \/ OpenAppend(p) \/ Append(p)
  \/ DropWrite(p) \/ Judge(p) \/ QuarRead(p) \/ QuarAppend(p) \/ QuarWrite(p)
  \/ Truncate(p) \/ Fill(p)

FairSpec == Spec /\ \A p \in Procs \ Hung : WF_vars(Step(p))

-----------------------------------------------------------------------------
(* Type invariant. *)
TypeOK ==
  /\ file \subseteq Lesson
  /\ quarantined \subseteq Lesson
  /\ lock \in Procs \cup {NoProc}
  /\ pc \in [Procs -> PCs]
  /\ snap \in [Procs -> SUBSET Lesson]
  /\ want \in [Procs -> SUBSET Triggers]
  /\ good \in [Procs -> BOOLEAN]
  /\ target \in [Procs -> SUBSET Key]
  /\ live \in [Procs -> BOOLEAN]
  /\ used \subseteq Advices
  /\ fed \in Nat
  /\ pub \in [Key -> Tally]
  /\ remembered \subseteq Key
  /\ removed \subseteq Key
  /\ unlocked \in BOOLEAN

(* No lesson on disk, live or quarantined, ever carries more successes or  *)
(* failures than the feedback that was published for it: a stale rewrite   *)
(* may lose counts, but no interleaving of the callers invents evidence.   *)
CoveredBy(l) == /\ l.succ <= pub[KeyOf(l)].succ
                /\ l.fail <= pub[KeyOf(l)].fail

NeverOvercounted == \A l \in file \cup quarantined : CoveredBy(l)

(* "every bump must survive": each lesson in the file carries exactly the  *)
(* feedback published for it.                                              *)
ExactFor(l) == /\ l.succ = pub[KeyOf(l)].succ
               /\ l.fail = pub[KeyOf(l)].fail

\* The code does not keep it: README, disagreements.
FeedbackExact == \A l \in file : ExactFor(l)

(* It is so until someone rewrites the file without the surface lock:      *)
(* whoever crashes, hangs or appends meanwhile.                            *)
ExactUnderLock == unlocked \/ FeedbackExact

(* What a lesson carries was published for it, whoever races, and all of it *)
(* while the surface lock is kept.                                          *)
CountsHonest == NeverOvercounted /\ ExactUnderLock

(* Until then the file is a ledger: each publish counts one whole report   *)
(* on all it read, and loses what was appended since the read, no more.    *)
Ledgered == IF unlocked THEN {} ELSE file
AddedSince == IF unlocked THEN {} ELSE {l \in file : \E p \in Procs : pc[p] = "bumpWrite" /\ l \notin snap[p]}
Ledger == INSTANCE FeedbackLedger WITH ledger <- Ledgered, atRisk <- AddedSince, spoilt <- unlocked

(* Under the surface lock the callers implement the ledger, whoever         *)
(* appends, hangs or dies meanwhile, and no outcome is ever taken back.     *)
LedgerKept == Ledger!LedgerSpec /\ Ledger!OutcomesStay

(* A lesson whose remember call returned Ok leaves the disk without having *)
(* been taken out on purpose in two ways only: a process publishes from a  *)
(* read that did not see it, or rewrites the file in place.  The forget    *)
(* pass and the feedback calls themselves never lose what they have read,  *)
(* wherever they are interrupted.                                          *)
OnDisk(k) == k \in Keys(file) \cup Keys(quarantined)

OnlyStaleRewritesLose ==
  [][\A k \in remembered \ removed' :
       OnDisk(k) /\ ~OnDisk(k)' =>
         \E p \in Procs :
           /\ pc'[p] # pc[p]
           /\ \/ pc[p] \in {"bumpWrite", "dropWrite", "quarWrite"} /\ k \notin Keys(snap[p])
              \/ pc[p] \in {"truncate", "fill"}]_vars

(* A lesson the quarantine takes out of the file it read is already in     *)
(* LESSONS.quarantined.md, with the counters it was judged on, so that a   *)
(* crash between the two writes leaves a copy too many and never a hole.   *)
QuarantineKeepsCopy ==
  [][\A p \in Procs : pc[p] = "quarWrite" /\ pc'[p] = "idle" /\ file' # file
        => (snap[p] \ file') \subseteq quarantined]_vars

(* Every call of a process that keeps running returns, even when another   *)
(* process hangs while it holds the surface lock.                          *)
CallsReturn == \A p \in Procs \ Hung : pc[p] # "idle" ~> pc[p] = "idle"
=============================================================================
