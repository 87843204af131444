----------------------------- MODULE DreamPass -----------------------------
(***************************************************************************)
(* dream_pass: ask a model what to do with the entries of the three        *)
(* markdown surfaces, and apply its verdicts.                              *)
(*                                                                         *)
(* A pass reads a snapshot, shows it to the model, waits for minutes, then *)
(* takes each surface in turn: read it again, reconcile the plan with what *)
(* is there now, append what changes to <SURFACE>.dropped.md, rewrite the  *)
(* surface.  None of it is locked.  Next to it the agent appends and       *)
(* removes entries, another pass runs (the daemon's loop and               *)
(* "memory dream --force" of the command line), files fail to be written   *)
(* and the process dies.                                                   *)
(*                                                                         *)
(* A surface is a set of entries [id, text].  The id is the position of    *)
(* the entry: appended entries get higher ids, a rewrite in place keeps    *)
(* the id, so the order of ids is the order of entries in the file.  The   *)
(* code cannot see ids (they are not rendered into markdown): after a      *)
(* re-read it only compares texts.  A verdict's index is the id of the     *)
(* entry in the snapshot; an id outside the snapshot is an index out of    *)
(* range.                                                                  *)
(*                                                                         *)
(* The agent's own append and removal are single steps here: what goes     *)
(* wrong inside them is the subject of LessonFile.                         *)
(***************************************************************************)
EXTENDS Naturals, FiniteSets, Sequences

CONSTANTS
  Heads, Bodies,  \* headings and bodies of entries
  NoText,         \* a verdict without new_text
  Procs,       \* processes that run passes
  Daemons,     \* those that run the daemon's loop: never forced, never dry
  CliOpts,     \* the options a pass of the command line may be given
  Modes,       \* [dream].enabled and mode as config.toml may have them when
               \* a pass starts: "off", "review", "auto"
  MinEntries,  \* [dream].min_entries
  Seed,        \* the surfaces at the start
  Answers,     \* what the model may answer: sequences of verdicts
  Additions,   \* texts the agent may append, as <<surface, text>>
  MaxRemoved,  \* bound: texts the agent may take off a surface
  Failing,     \* what may fail to be written: "surface", "marker"
  MayCrash,    \* may a process die?
  MaxPasses,   \* bound: passes started
  MaxOmitted,  \* bound: entries the prompt may have no room for
  MaxTicks     \* bound: times the dream interval elapses

Surfaces == {"memory", "lessons", "user"}
After    == [memory |-> "lessons", lessons |-> "user", user |-> "done"]

-----------------------------------------------------------------------------
(* From the model's verdicts to what happens to each entry of a surface.   *)

Texts == [head : Heads, body : Bodies]

Keep          == [kind |-> "keep",    text |-> NoText, into |-> 0]
Drop          == [kind |-> "drop",    text |-> NoText, into |-> 0]
Rewrite(t)    == [kind |-> "rewrite", text |-> t,      into |-> 0]
MergedInto(i) == [kind |-> "merged",  text |-> NoText, into |-> i]

Verb == {"keep", "drop", "rewrite", "merge", "other"}

(* What the model answers about one entry; "other" is an unknown action. *)
Verdict == [surface : {"memory", "lessons", "user"}, index : Nat, action : Verb,
            with : SUBSET Nat, text : Texts \cup {NoText}]

Ids(S)      == {e.id : e \in S}
TextsOf(S)  == {e.text : e \in S}
At(S, i)    == CHOOSE e \in S : e.id = i

(* Variant: only the entry a verdict is about is looked at. *)
RetainIndex(vs, shown) ==
  [i \in DOMAIN vs |->
     IF <<vs[i].surface, vs[i].index>> \in shown THEN vs[i]
     ELSE [vs[i] EXCEPT !.action = "keep"]]

(* retain_shown: a verdict about an entry outside the prompt is dropped,   *)
(* which is what "keep" amounts to, and so are the merge_with indices the  *)
(* prompt did not show.                                                    *)
RetainShown(vs, shown) ==
  [i \in DOMAIN vs |->
     LET v == vs[i] IN
     IF <<v.surface, v.index>> \in shown
     THEN [v EXCEPT !.with = {j \in @ : <<v.surface, j>> \in shown}]
     ELSE [v EXCEPT !.action = "keep"]]

(* What a verdict that is heeded does to the plan. *)
Claim(plan, v) ==
  [i \in DOMAIN plan |->
     IF i = v.index
     THEN IF v.action = "drop" THEN Drop ELSE Rewrite(v.text)
     ELSE IF v.action # "drop" /\ i \in v.with /\ plan[i] = Keep
          THEN MergedInto(v.index) ELSE plan[i]]

Ignored(s, plan, v) ==
  \/ v.surface # s \/ v.index \notin DOMAIN plan \/ plan[v.index] # Keep
  \/ v.action \in {"keep", "other"}

(* Variant: a rewrite without new_text is taken at its word. *)
JudgeWithoutText(s, plan, v) == IF Ignored(s, plan, v) THEN plan ELSE Claim(plan, v)

(* One verdict of plan_for.  claimed[i] of the code is plan[i] # Keep.      *)
Judge(s, plan, v) ==
  IF Ignored(s, plan, v) \/ (v.action \in {"rewrite", "merge"} /\ v.text = NoText)
  THEN plan ELSE Claim(plan, v)

(* plan_for: the actions for one surface, by snapshot index. *)
PlanFor(s, snap, vs) ==
  LET after[n \in 0 .. Len(vs)] ==
        IF n = 0 THEN [i \in Ids(snap) |-> Keep] ELSE Judge(s, after[n - 1], vs[n])
  IN  after[Len(vs)]

(* The position of e among the entries of S with its text. *)
Rank(S, e) == Cardinality({f \in S : f.text = e.text /\ f.id <= e.id})

(* reconcile: the n-th entry on disk with some text takes the plan of the  *)
(* n-th entry of the snapshot with that text, when there is one.           *)
Slot(snap, current, e) ==
  {f \in snap : f.text = e.text /\ Rank(snap, f) = Rank(current, e)}

Reconcile(snap, current, plan) ==
  [i \in Ids(current) |->
     LET slot == Slot(snap, current, At(current, i)) IN
     IF slot = {} THEN Keep ELSE plan[(CHOOSE f \in slot : TRUE).id]]

(* apply_verdicts on one surface: what stays, and what is archived first.  *)
Kept(current, dec) ==
  {[id |-> e.id, text |-> IF dec[e.id].kind = "rewrite" THEN dec[e.id].text ELSE e.text] :
     e \in {f \in current : dec[f.id].kind \in {"keep", "rewrite"}}}

Archived(current, dec) == {e \in current : dec[e.id].kind # "keep"}
-----------------------------------------------------------------------------
VARIABLES
  file,     \* MEMORY.md, LESSONS.md, USER.md: sets of entries
  archive,  \* <SURFACE>.dropped.md: the texts archived there
  due,      \* has min_interval_hours elapsed since the stamp in .dream-last?
  pc, opts, \* where each pass stands; its force and dry_run options
  snap,     \* the snapshot a pass was started from
  shown,    \* the <<surface, id>> that fitted into the prompt
  plan,     \* plan_for, by surface
  at,       \* the surface being applied
  current,  \* the second read of that surface
  (* Ghosts: what happened, for the properties only. *)
  passes, ticks, \* how many, for the bounds
  asked,    \* model calls without --force or --dry-run since the
            \* interval last elapsed
  unstamped,\* how many of these passes died or failed to write, and so
            \* left the interval as they found it
  written,  \* per surface, the texts the user's side put there
  removed,  \* per surface, the texts the user's side took out
  late,     \* per surface, the texts appended while a pass stood between
            \* its second read and its rewrite
  rewritten \* per pass, the surfaces a pass rewrote since its snapshot

disk   == <<file, archive, due>>
locals == <<opts, snap, shown, plan, at, current, rewritten>>
ghosts == <<passes, ticks, asked, unstamped, written, removed, late>>
vars == <<file, archive, due, pc, opts, snap, shown, plan, at, current,
          passes, ticks, asked, unstamped, written, removed, late, rewritten>>

PCs == {"idle", "asking", "reread", "commit", "rewrite", "review", "stamp"}
PassOpts  == [force : BOOLEAN, dry : BOOLEAN, mode : {"off", "review", "auto"}]
NoOpts    == [force |-> FALSE, dry |-> FALSE, mode |-> "off"]
IsPlain(o) == ~o.force /\ ~o.dry
Entry  == [id : Nat \ {0}, text : Texts]
Numbered(S) == IsFiniteSet(S) /\ \A e, f \in S : e.id = f.id => e = f
Nothing == [s \in Surfaces |-> {}]
NoPlan  == [s \in Surfaces |-> << >>]

ASSUME DreamAssumption ==
  /\ NoText \notin Texts
  /\ IsFiniteSet(Procs) /\ Daemons \subseteq Procs
  /\ CliOpts \subseteq PassOpts
  /\ Modes \subseteq {"off", "review", "auto"}
  /\ MinEntries \in Nat /\ MaxPasses \in Nat /\ MaxTicks \in Nat
  /\ MaxOmitted \in Nat
  /\ Seed \in [Surfaces -> SUBSET Entry]
  /\ \A s \in Surfaces : Numbered(Seed[s])
  /\ Answers \subseteq Seq(Verdict)
  /\ Additions \subseteq Surfaces \X Texts
  /\ Failing \subseteq {"surface", "marker"}
  /\ MaxRemoved \in Nat /\ MayCrash \in BOOLEAN

Init ==
  /\ file = Seed
  /\ archive = Nothing
  /\ due = TRUE
  /\ pc = [p \in Procs |-> "idle"]
  /\ opts = [p \in Procs |-> NoOpts]
  /\ snap = [p \in Procs |-> Nothing]
  /\ shown = [p \in Procs |-> {}]
  /\ plan = [p \in Procs |-> NoPlan]
  /\ at = [p \in Procs |-> "done"]
  /\ current = [p \in Procs |-> {}]
  /\ passes = 0 /\ ticks = 0 /\ asked = 0 /\ unstamped = 0
  /\ written = [s \in Surfaces |-> TextsOf(Seed[s])]
  /\ removed = Nothing
  /\ late = Nothing
  /\ rewritten = [p \in Procs |-> {}]

Goto(p, l) == pc' = [pc EXCEPT ![p] = l]

Return(p) ==
  /\ Goto(p, "idle")
  /\ opts' = [opts EXCEPT ![p] = NoOpts]
  /\ snap' = [snap EXCEPT ![p] = Nothing]
  /\ shown' = [shown EXCEPT ![p] = {}]
  /\ plan' = [plan EXCEPT ![p] = NoPlan]
  /\ at' = [at EXCEPT ![p] = "done"]
  /\ current' = [current EXCEPT ![p] = {}]
  /\ rewritten' = [rewritten EXCEPT ![p] = {}]

(* p ends with due as it is afterwards. *)
NoteStamp(p) ==
  /\ unstamped' = IF IsPlain(opts[p]) /\ due' THEN unstamped + 1 ELSE unstamped
  /\ UNCHANGED <<passes, ticks, asked, written, removed, late>>

EntryCount == Cardinality(file["memory"]) + Cardinality(file["lessons"])
                + Cardinality(file["user"])

AllOf(f) == UNION {{s} \X Ids(f[s]) : s \in Surfaces}

-----------------------------------------------------------------------------
(* The gates, the snapshot and the prompt.  Which entries the prompt omits *)
(* depends on their sizes, which are left out: any subset may fit.         *)
Start(p, o, seen) ==
  /\ Cardinality(seen) + MaxOmitted >= EntryCount
  /\ pc[p] = "idle" /\ passes < MaxPasses
  /\ o.mode \in Modes
  /\ IF p \in Daemons THEN IsPlain(o) ELSE o \in CliOpts
  /\ o.force \/ (o.mode # "off" /\ due /\ EntryCount >= MinEntries)
  /\ EntryCount > 0
  /\ passes' = passes + 1
  /\ asked' = IF IsPlain(o) THEN asked + 1 ELSE asked
  /\ opts' = [opts EXCEPT ![p] = o]
  /\ snap' = [snap EXCEPT ![p] = file]
  /\ shown' = [shown EXCEPT ![p] = seen]
  /\ Goto(p, "asking")
  /\ UNCHANGED <<disk, plan, at, current, rewritten, ticks, unstamped, written, removed, late>>

(* No model, a timeout, a failed exit or an answer that is not an array.   *)
ModelFails(p) ==
  /\ pc[p] = "asking"
  /\ \/ due' = (due /\ opts[p].dry)
     \/ "marker" \in Failing /\ due' = due
  /\ Return(p) /\ NoteStamp(p)
  /\ UNCHANGED <<file, archive>>

Answer(p, vs) ==
  /\ pc[p] = "asking"
  /\ IF opts[p].dry
     THEN Return(p)
     ELSE /\ plan' = [plan EXCEPT ![p] =
                [s \in Surfaces |->
                   PlanFor(s, snap[p][s], RetainShown(vs, shown[p]))]]
          /\ at' = [at EXCEPT ![p] = "memory"]
          /\ Goto(p, IF opts[p].mode = "auto" THEN "reread" ELSE "review")
          /\ UNCHANGED <<opts, snap, shown, current, rewritten>>
  /\ UNCHANGED <<disk, ghosts>>

(* write_review: DREAM.md, no canonical surface. *)
WriteReview(p) ==
  /\ pc[p] = "review"
  /\ Goto(p, "stamp")
  /\ UNCHANGED <<disk, locals, ghosts>>

-----------------------------------------------------------------------------
(* apply_verdicts, one surface after the other.                            *)

Decisions(p) == Reconcile(snap[p][at[p]], current[p], plan[p][at[p]])

NextSurface(p) ==
  /\ at' = [at EXCEPT ![p] = After[@]]
  /\ Goto(p, IF After[at[p]] = "done" THEN "stamp" ELSE "reread")

Reread(p) ==
  /\ pc[p] = "reread"
  /\ current' = [current EXCEPT ![p] = file[at[p]]]
  /\ Goto(p, "commit")
  /\ UNCHANGED <<disk, opts, snap, shown, plan, at, rewritten, ghosts>>

(* Variant: only what is dropped outright is archived. *)
CommitDrops(p) ==
  LET changed == {e \in current[p] : Decisions(p)[e.id].kind = "drop"} IN
  /\ pc[p] = "commit"
  /\ archive' = [archive EXCEPT ![at[p]] = @ \cup TextsOf(changed)]
  /\ Goto(p, "rewrite")
  /\ UNCHANGED <<file, due, locals, ghosts>>

(* commit_surface, and nothing more when the plan changes nothing. *)
Commit(p) ==
  LET changed == Archived(current[p], Decisions(p)) IN
  /\ pc[p] = "commit"
  /\ IF changed = {}
     THEN NextSurface(p) /\ UNCHANGED archive
     ELSE /\ archive' = [archive EXCEPT ![at[p]] = @ \cup TextsOf(changed)]
          /\ Goto(p, "rewrite") /\ UNCHANGED at
  /\ UNCHANGED <<file, due, opts, snap, shown, plan, current, rewritten, ghosts>>

RewriteSurface(p) ==
  /\ pc[p] = "rewrite"
  /\ file' = [file EXCEPT ![at[p]] = Kept(current[p], Decisions(p))]
  /\ rewritten' = [q \in Procs |-> IF pc[q] = "idle" THEN {} ELSE rewritten[q] \cup {at[p]}]
  /\ NextSurface(p)
  /\ UNCHANGED <<archive, due, opts, snap, shown, plan, current, ghosts>>

(* A read or a write of apply_verdicts or write_review fails: the pass     *)
(* returns the error.                                                      *)
ApplyFails(p) ==
  /\ "surface" \in Failing /\ pc[p] \in {"reread", "commit", "rewrite", "review"}
  /\ UNCHANGED disk
  /\ Return(p) /\ NoteStamp(p)

(* stamp_last_dream swallows its own failure. *)
Stamp(p) ==
  /\ pc[p] = "stamp"
  /\ due' \in {FALSE} \cup (IF "marker" \in Failing THEN {due} ELSE {})
  /\ Return(p) /\ NoteStamp(p)
  /\ UNCHANGED <<file, archive>>

Crash(p) ==
  /\ MayCrash /\ pc[p] # "idle"
  /\ UNCHANGED disk
  /\ Return(p) /\ NoteStamp(p)

-----------------------------------------------------------------------------
(* The user's side and the clock.                                          *)

NewId(S) == IF S = {} THEN 1 ELSE 1 + (CHOOSE i \in Ids(S) : \A j \in Ids(S) : j <= i)

InWindow(s) == \E p \in Procs : pc[p] \in {"commit", "rewrite"} /\ at[p] = s

AppendEntry(s, t) ==
  /\ <<s, t>> \in Additions /\ t \notin written[s]
  /\ file' = [file EXCEPT ![s] = @ \cup {[id |-> NewId(@), text |-> t]}]
  /\ written' = [written EXCEPT ![s] = @ \cup {t}]
  /\ late' = IF InWindow(s) THEN [late EXCEPT ![s] = @ \cup {t}] ELSE late
  /\ UNCHANGED <<archive, due, pc, locals, passes, ticks, asked, unstamped, removed>>

RemoveEntry(s, e) ==
  /\ Cardinality(removed[s]) < MaxRemoved /\ e \in file[s]
  /\ file' = [file EXCEPT ![s] = @ \ {e}]
  /\ removed' = [removed EXCEPT ![s] = @ \cup {e.text}]
  /\ UNCHANGED <<archive, due, pc, locals, passes, ticks, asked, unstamped, written, late>>

Tick ==
  /\ ~due /\ ticks < MaxTicks
  /\ due' = TRUE
  /\ ticks' = ticks + 1
  /\ asked' = 0 /\ unstamped' = 0
  /\ UNCHANGED <<file, archive, pc, locals, passes, written, removed, late>>

Pass(p) ==
  \/ \E o \in PassOpts, seen \in SUBSET AllOf(file) : Start(p, o, seen)
  \/ ModelFails(p) \/ (\E vs \in Answers : Answer(p, vs)) \/ WriteReview(p)
  \/ Reread(p) \/ Commit(p) \/ RewriteSurface(p) \/ ApplyFails(p)
  \/ Stamp(p) \/ Crash(p)

Agent ==
  \/ \E s \in Surfaces, t \in Texts : AppendEntry(s, t)
  \/ \E s \in Surfaces : \E e \in file[s] : RemoveEntry(s, e)

Next == (\E p \in Procs : Pass(p)) \/ Agent \/ Tick

Spec == Init /\ [][Next]_vars

-----------------------------------------------------------------------------
IsAction(a) == \/ a \in {Keep, Drop}
               \/ a.text \in Texts /\ a = Rewrite(a.text)
               \/ a.into \in Nat /\ a = MergedInto(a.into)

(* Type invariant. *)
TypeOK ==
  /\ file \in [Surfaces -> SUBSET Entry]
  /\ archive \in [Surfaces -> SUBSET Texts]
  /\ due \in BOOLEAN
  /\ pc \in [Procs -> PCs]
  /\ opts \in [Procs -> PassOpts]
  /\ snap \in [Procs -> [Surfaces -> SUBSET Entry]]
  /\ shown \in [Procs -> SUBSET (Surfaces \X (Nat \ {0}))]
  /\ \A p \in Procs, s \in Surfaces :
       /\ DOMAIN plan[p][s] \subseteq Ids(snap[p][s])
       /\ \A i \in DOMAIN plan[p][s] : IsAction(plan[p][s][i])
  /\ at \in [Procs -> Surfaces \cup {"done"}]
  /\ current \in [Procs -> SUBSET Entry]
  /\ passes \in Nat /\ ticks \in Nat /\ asked \in Nat /\ unstamped \in Nat
  /\ written \in [Surfaces -> SUBSET Texts]
  /\ removed \in [Surfaces -> SUBSET Texts]
  /\ late \in [Surfaces -> SUBSET Texts]
  /\ rewritten \in [Procs -> SUBSET Surfaces]

(* Whatever the user's side put on a surface is still there, or in its     *)
(* archive, or was taken out by the user's side: passes may overlap, fail  *)
(* and die at any point.  The exception is an entry appended while a pass  *)
(* stood between its second read and its rewrite.                          *)
LostNow(s) == written[s] \ (TextsOf(file[s]) \cup archive[s] \cup removed[s])

NothingLost == \A s \in Surfaces : LostNow(s) \subseteq late[s]

(* "nothing is lost silently", without the exception. *)
\* The code does not keep it: README, disagreements.
NothingEverLost == \A s \in Surfaces : LostNow(s) = {}

(* A pass takes out or rewords no more copies of a text than there were    *)
(* verdicts against entries with that text that the model had been shown:  *)
(* an entry the model kept, or never saw, does not pay for another's.      *)
JudgedCopies(p, s, x) ==
  {f \in snap[p][s] : f.text = x /\ <<s, f.id>> \in shown[p] /\ plan[p][s][f.id] # Keep}

NoMoreThanJudged ==
  \A p \in Procs : pc[p] = "commit" =>
    \A x \in TextsOf(current[p]) :
      Cardinality({e \in Archived(current[p], Decisions(p)) : e.text = x})
        <= Cardinality(JudgedCopies(p, at[p], x))

(* When an entry is about to leave a surface because it was folded into    *)
(* another one, the combined entry is on the surface afterwards - unless   *)
(* the agent took the target, or a twin of it, out in the meantime, or     *)
(* another pass rewrote the surface: the folded entry then goes to the     *)
(* archive all the same.                                                   *)
MergedHasHome ==
  \A p \in Procs : pc[p] = "rewrite" =>
    \A e \in current[p] :
      LET d == Decisions(p)[e.id] IN
      d.kind = "merged" =>
        \/ plan[p][at[p]][d.into].text \in TextsOf(Kept(current[p], Decisions(p)))
        \/ At(snap[p][at[p]], d.into).text \in removed[at[p]]
        \/ at[p] \in rewritten[p]

(* A process consults the model at most once per interval, whether this    *)
(* succeeds or not; only a pass that died, or could not write a surface or *)
(* the stamp, leaves the next one free to ask again.                       *)
OncePerInterval == asked <= Cardinality(Procs) + unstamped

(* What leaves a surface was judged, what was folded has a home, and the   *)
(* model is not asked more often than the interval allows.                 *)
JudgedHonestly == NoMoreThanJudged /\ MergedHasHome /\ OncePerInterval
=============================================================================
