------------------------------ MODULE PlanGate ------------------------------
(***************************************************************************)
(* The gates a plan passes before workers run it and their commits after:  *)
(* "validate spec", "validate tests", "validate plan --tests", "plan       *)
(* resolve", "dag waves" and "validate scope" (cmd/validate.rs, cmd/dag.rs).*)
(* Documents are abstracted to what the gates tell apart, verdicts to the  *)
(* set of kinds of error; warnings never change a verdict and are left out.*)
(***************************************************************************)
EXTENDS Naturals, FiniteSets, SequencesExt

-----------------------------------------------------------------------------
(* "hoangsa-cli dag": the execution waves the orchestrator hands to its     *)
(* workers (cmd/dag.rs).  compute_waves is a loop over what remains of the  *)
(* plan; one step here is one turn of it.  Nothing in the command checks    *)
(* the plan: cycles, unknown dependencies, repeated and missing ids all     *)
(* reach the loop.                                                          *)

CONSTANTS
  NoId,      \* a task without an "id"
  MaxWaves   \* bound: the turns of the loop followed

ASSUME MaxWavesAssumption == MaxWaves \in Nat

VARIABLES
  dag,       \* "idle", "turning", or "printed" when cmd_waves has answered
  tasks,     \* the plan's tasks, in order: records with fields id and deps
  completed, \* the ids that are in a wave already
  remaining, \* positions of the tasks the loop still keeps
  waves,     \* the waves so far: sets of positions
  blocked    \* positions reported under "blocked"

waveVars == <<dag, tasks, completed, remaining, waves, blocked>>

IdsOf(S) == {tasks[n].id : n \in S} \ {NoId}

(* Variant: one met dependency is enough. *)
ReadyForOne(n) == tasks[n].deps = {} \/ tasks[n].deps \cap completed # {}

\* A dependency that is not a string counts as met, so only named ones are kept.
Ready(n) == tasks[n].deps \subseteq completed

Wave == {n \in remaining : Ready(n)}

WavesInit ==
  /\ dag = "idle" /\ tasks = <<>> /\ completed = {} /\ remaining = {}
  /\ waves = <<>> /\ blocked = {}

\* cmd_waves has read the plan.
StartWaves(plan) ==
  /\ dag = "idle"
  /\ dag' = "turning" /\ tasks' = plan
  /\ completed' = {} /\ remaining' = DOMAIN plan /\ waves' = <<>> /\ blocked' = {}

\* Every ready task goes, and with it every task that shares its id.
TurnWave ==
  /\ dag = "turning" /\ Wave # {} /\ Len(waves) < MaxWaves
  /\ completed' = completed \cup IdsOf(Wave)
  /\ remaining' = {n \in remaining : tasks[n].id \notin completed'}
  /\ waves' = Append(waves, Wave)
  /\ UNCHANGED <<dag, tasks, blocked>>

\* Nothing is ready: the rest is printed as blocked, without the nameless ones.
TurnBlocked ==
  /\ dag = "turning" /\ remaining # {} /\ Wave = {}
  /\ blocked' = {n \in remaining : tasks[n].id # NoId}
  /\ dag' = "printed"
  /\ UNCHANGED <<tasks, completed, remaining, waves>>

PrintWaves ==
  /\ dag = "turning" /\ remaining = {}
  /\ dag' = "printed"
  /\ UNCHANGED <<tasks, completed, remaining, waves, blocked>>

WavesNext == TurnWave \/ TurnBlocked \/ PrintWaves
-----------------------------------------------------------------------------
(* The loop implements TaskOrder: completed is what has been handed out.   *)
Order == INSTANCE TaskOrder WITH done <- completed

(* A wave never holds a task one of whose dependencies is not in an        *)
(* earlier wave.                                                           *)
WavesOrdered ==
  \A w \in 1 .. Len(waves) : \A n \in waves[w] :
    tasks[n].deps \subseteq {tasks[m].id : m \in UNION {waves[v] : v \in 1 .. w - 1}}
-----------------------------------------------------------------------------
(* The gates                                                                *)

CONSTANTS
  DesignSpecs, TestSpecs,  \* documents the gates are asked about
  Plans(_),    \* plans, by the TEST-SPEC checked before
  Files,       \* files of the workspace, as paths below it
  SkippedDirs, \* directories the index does not enter (hidden, target, dist, ...)
  TailOf,      \* TailOf[m]: the names of which the text of m is a tail, m itself not among them
  Unread,      \* no document checked yet
  Refs,        \* file references a plan may carry
  Commits      \* commits a worker may have made

\* What is wrong with a plan's graph: "plan" reports these itself.
DagFlaws == {"cycle", "dangling", "missing"}

ASSUME GateAssumption ==
  /\ \A d \in TestSpecs \cup {Unread} : \A p \in Plans(d) :
       /\ p # Unread /\ p.flaws \cap DagFlaws = {}
       /\ p.tasks \in Seq(ToSet(p.tasks))
       /\ \A t \in ToSet(p.tasks) : IsFiniteSet(t.deps) /\ t.flaws \cap DagFlaws = {}
  /\ \A r \in Refs : r = [abs |-> r.abs, path |-> r.path]
  /\ \A c \in Commits : c # Unread /\ c.parents \in Nat

VARIABLES
  line,                \* which chain of gates this behaviour follows
  spec, tests, plan,   \* the documents last checked, Unread before
  errors,              \* per gate, the kinds of error of its last verdict
  ref,                 \* a reference of the plan as "plan resolve" leaves it
  commit               \* the commit whose scope was checked

gateVars == <<line, spec, tests, plan, errors, ref, commit>>
gateAll == <<gateVars, waveVars>>
-----------------------------------------------------------------------------
(* validate spec, validate tests                                           *)

RiskClasses == {"boundary", "invalid", "concurrency", "idempotency",
                "partial", "auth", "limits", "compat"}

\* Only ops and content opt out; a missing or unknown category is code.
IsCode(d) == d.category \notin {"ops", "content"}

\* The words are looked for inside the row, whatever surrounds them.
Answered(q) == q \in {"RESOLVED", "DEFERRED", "UNRESOLVED", "none"}

SpecErrors(d) ==
  {e \in {"frontmatter", "acceptance", "implementations", "behavior", "risk", "questions"} :
     \/ e = "frontmatter" /\ ~ d.keys
     \/ e = "acceptance" /\ "Acceptance" \notin d.headings
     \/ /\ IsCode(d)
        /\ \/ e = "implementations" /\ "Implementations" \notin d.headings
           \/ e = "behavior" /\ ~ d.behavior
           \/ e = "risk" /\ ~ RiskClasses \subseteq d.risk
           \/ e = "questions" /\ \E q \in d.questions : ~ Answered(q)}

\* section_has_entries: a table row, a bullet or a sub-block, of any wording.
HasEntries(d, section) == d.entries[section] # {}

TestsErrors(d) ==
  {e \in {"frontmatter", "sections", "edges", "e2e", "visual"} :
     \/ e = "frontmatter" /\ ~ d.keys
     \/ /\ e = "sections"
        /\ \/ d.category = "ops" /\ "Smoke Tests" \notin d.headings
           \/ d.category = "content" /\ "Deliverable Checklist" \notin d.headings
           \/ IsCode(d) /\ {"Unit Tests", "Integration Tests"} \cap d.headings = {}
     \/ /\ IsCode(d)
        /\ \/ e = "edges" /\ ~ HasEntries(d, "Edge Cases")
           \/ /\ e = "e2e" /\ d.surface \in {"ui", "api", "cli", "user-facing"}
              /\ ~ HasEntries(d, "E2E Tests")
           \/ e = "visual" /\ d.surface = "ui" /\ ~ HasEntries(d, "Visual Verification")}
-----------------------------------------------------------------------------
(* validate plan                                                           *)

NodeOf(t) == IF t.id = NoId THEN "?" ELSE t.id

\* The adjacency map is keyed by id: of two tasks with one id the last counts.
DepsOf(ts, i) ==
  LET same == {n \in DOMAIN ts : NodeOf(ts[n]) = i}
  IN  IF same = {} THEN {} ELSE ts[CHOOSE n \in same : \A m \in same : m <= n].deps

\* dfs step by step: the ids it is called for, innermost last, the dependencies
\* these calls have looked at, the back edges, and the next task of the plan.
DfsStart == [stack |-> <<>>, visited |-> {}, looked |-> {}, cycles |-> {}, next |-> 1]

Call(s, i) == [s EXCEPT !.visited = @ \cup {i}, !.stack = Append(@, i)]
Return(s) == [s EXCEPT !.stack = Front(@)]

LookAt(s, i, d) ==
  LET looking == [s EXCEPT !.looked = @ \cup {<<i, d>>}]
  IN  IF d \notin s.visited THEN Call(looking, d)
      ELSE IF d \in ToSet(s.stack) THEN [looking EXCEPT !.cycles = @ \cup {<<i, d>>}]
      ELSE looking

NextTask(ts, s) ==
  LET i == NodeOf(ts[s.next])
      on == [s EXCEPT !.next = @ + 1]
  IN  IF i \in s.visited THEN on ELSE Call(on, i)

\* What the call for i has still to look at.
Unlooked(ts, s, i) == {d \in DepsOf(ts, i) : <<i, d>> \notin s.looked}

DfsStep(ts, s) ==
  IF s.stack = <<>> THEN IF s.next > Len(ts) THEN s ELSE NextTask(ts, s)
  ELSE LET i == Last(s.stack)
       IN  IF Unlooked(ts, s, i) = {} THEN Return(s)
           ELSE LookAt(s, i, CHOOSE d \in Unlooked(ts, s, i) : TRUE)

\* Steps it takes at most: to look at a dependency, to return, to go to a task.
DfsSteps(ts) ==
  LET nodes == {NodeOf(t) : t \in ToSet(ts)} \cup UNION {t.deps : t \in ToSet(ts)}
  IN  Cardinality(nodes \X nodes) + Cardinality(nodes) + Len(ts)

(* Variant: a back edge is only looked for from a task to itself. *)
SelfCycles(ts) == {<<NodeOf(t), NodeOf(t)>> : t \in {u \in ToSet(ts) : NodeOf(u) \in u.deps}}

DetectCycles(ts) ==
  LET run[n \in 0 .. DfsSteps(ts)] == IF n = 0 THEN DfsStart ELSE DfsStep(ts, run[n - 1])
  IN  run[DfsSteps(ts)].cycles

DetectDangling(ts) ==
  (UNION {t.deps : t \in ToSet(ts)}) \ {t.id : t \in ToSet(ts)}

\* check_task_spec_fields and the shape checks of one task.
TaskErrors(t) ==
  t.flaws \cup (IF t.id = NoId THEN {"missing"} ELSE {})
  \cup (IF t.kind = "impl" /\ t.behavior \in {"absent", "empty"} THEN {"behavior"} ELSE {})

TestKind(t) == t.kind \in {"test", "e2e"}

\* A row reading "none..." waives, and only table rows and "### Test:" blocks are seen.
SpecRows(d) == {e.text : e \in {x \in d.entries["Edge Cases"] : x.form = "row" /\ ~ x.none}}
SpecTests(d, section) == {e.text : e \in {x \in d.entries[section] : x.form = "test"}}
TestSections == {"Unit Tests", "Integration Tests", "E2E Tests"}

CrossCheck(ts, d) ==
  LET T == ToSet(ts)
      typed == \E t \in T : t.kind # "none"
      carriers(row) == {t \in T : row \in t.edge}
      lacking(row) == \/ carriers(row) = {}
                      \/ typed /\ ~ \E t \in carriers(row) : TestKind(t)
                      \/ typed /\ ~ \E t \in carriers(row) : ~ TestKind(t)
  IN  {e \in {"edge", "tests", "e2e", "ui"} :
         \/ e = "edge" /\ \E row \in SpecRows(d) : lacking(row)
         \/ e = "tests" /\ \E s \in TestSections :
                             ~ SpecTests(d, s) \subseteq UNION {t.tests : t \in T}
         \/ /\ e = "e2e" /\ SpecTests(d, "E2E Tests") # {}
            /\ ~ \E t \in T : IF typed THEN t.kind = "e2e" ELSE t.e2eName
         \/ e = "ui" /\ d.surface = "ui" /\ ~ \E t \in T : t.ui}

PlanErrors(p, d) ==
  p.flaws
  \cup (IF p.tasks = <<>> THEN {"tasks"} ELSE {})
  \cup (UNION {TaskErrors(t) : t \in ToSet(p.tasks)})
  \cup (IF DetectCycles(p.tasks) = {} THEN {} ELSE {"cycle"})
  \cup (IF DetectDangling(p.tasks) = {} THEN {} ELSE {"dangling"})
  \cup (IF d = Unread THEN {} ELSE CrossCheck(p.tasks, d))
-----------------------------------------------------------------------------
(* plan resolve: a path is its sequence of names below the workspace.      *)

\* build_file_index
Tree == {p \in Files : ToSet(p) \cap SkippedDirs = {}}

EndsWith(p, q) ==
  LET k == Len(p) - Len(q) + 1
  IN  /\ k >= 1
      /\ p[k] = q[1] \/ p[k] \in TailOf[q[1]]
      /\ \A j \in 2 .. Len(q) : p[k + j - 1] = q[j]

\* The only file a fragment can mean, {} when it names a file or is ambiguous.
FuzzyMatch(q) ==
  LET suffix == {p \in Tree : EndsWith(p, q)}
      named == {p \in Tree : Last(p) = Last(q)}
  IN  IF q \in Tree THEN {}
      ELSE IF Cardinality(suffix) = 1 THEN suffix
      ELSE IF Cardinality(named) = 1 THEN named ELSE {}

Exists(p) == p \in Files

\* resolve_path: the reference a reference becomes.
ResolvePath(r) ==
  LET found == IF FuzzyMatch(r.path) # {} \/ ~ r.abs THEN FuzzyMatch(r.path)
               ELSE FuzzyMatch(<<Last(r.path)>>)
  IN  IF Exists(r.path) \/ found = {} THEN [r EXCEPT !.abs = TRUE]
      ELSE [r EXCEPT !.abs = TRUE, !.path = CHOOSE p \in found : TRUE]
-----------------------------------------------------------------------------
(* validate scope: the plan's files carry the workspace as written, git    *)
(* prints its canonical root; canonicalize falls back to the text given.   *)

(* Variant: no path is canonicalized. *)
AsWritten(base, p, c) == <<base, p>>

Against(base, p, c) == IF p \in c.deleted THEN <<base, p>> ELSE <<"root", p>>

ScopeErrors(c) ==
  IF c.parents > 1 THEN {"merge"}
  ELSE LET declared == {Against(c.workspace, p, c) : p \in c.files}
           touched == {p \in c.changed : Against("root", p, c) \notin declared}
       IN  IF touched = {} THEN {} ELSE {"scope"}
-----------------------------------------------------------------------------
GateInit ==
  /\ line = "none"
  /\ spec = Unread /\ tests = Unread /\ plan = Unread /\ ref = Unread /\ commit = Unread
  /\ errors = [g \in {"spec", "tests", "plan", "scope"} |-> {}]
  /\ WavesInit

\* The chains share no state: a behaviour follows one of them.
On(chain) == line \in {"none", chain} /\ line' = chain

CmdSpec ==
  /\ On("spec") /\ spec = Unread
  /\ \E d \in DesignSpecs : spec' = d /\ errors' = [errors EXCEPT !["spec"] = SpecErrors(d)]
  /\ UNCHANGED <<tests, plan, ref, commit>> /\ UNCHANGED waveVars

CmdTests ==
  /\ On("plan") /\ tests = Unread /\ plan = Unread
  /\ \E d \in TestSpecs : tests' = d /\ errors' = [errors EXCEPT !["tests"] = TestsErrors(d)]
  /\ UNCHANGED <<spec, plan, ref, commit>> /\ UNCHANGED waveVars

\* With --tests when a TEST-SPEC was checked before.
CmdPlan ==
  /\ On("plan") /\ plan = Unread
  /\ \E p \in Plans(tests) :
       plan' = p /\ errors' = [errors EXCEPT !["plan"] = PlanErrors(p, tests)]
  /\ UNCHANGED <<spec, tests, ref, commit>> /\ UNCHANGED waveVars

\* "dag waves" takes any plan, accepted or not.
CmdWaves ==
  /\ plan # Unread
  /\ StartWaves([n \in DOMAIN plan.tasks |->
                  [id |-> plan.tasks[n].id, deps |-> plan.tasks[n].deps]])
  /\ UNCHANGED gateVars

TurnWaves == WavesNext /\ UNCHANGED gateVars

\* The first run reads the reference from the plan, a later one what the last wrote.
CmdResolve ==
  /\ On("resolve")
  /\ IF ref = Unread THEN \E r \in Refs : ref' = [was |-> r, now |-> ResolvePath(r), runs |-> 1]
     ELSE ref.runs < 3 /\ ref' = [ref EXCEPT !.now = ResolvePath(ref.now), !.runs = @ + 1]
  /\ UNCHANGED <<spec, tests, plan, errors, commit>> /\ UNCHANGED waveVars

CmdScope ==
  /\ On("scope") /\ commit = Unread
  /\ \E c \in Commits : commit' = c /\ errors' = [errors EXCEPT !["scope"] = ScopeErrors(c)]
  /\ UNCHANGED <<spec, tests, plan, ref>> /\ UNCHANGED waveVars

GateNext ==
  CmdSpec \/ CmdTests \/ CmdPlan \/ CmdWaves \/ TurnWaves \/ CmdResolve \/ CmdScope

GateSpec == GateInit /\ [][GateNext]_gateAll
-----------------------------------------------------------------------------
(* A plan the gate accepts runs to its end: the waves loop never reports a *)
(* blocked task and needs no more turns than the plan has tasks.  And of a *)
(* plan with distinct ids that runs to its end, no cycle and no unknown    *)
(* dependency is reported.                                                 *)
AcceptedPlanRuns ==
  LET dagErrors == errors["plan"] \cap DagFlaws
      distinct == Cardinality({t.id : t \in ToSet(tasks)}) = Len(tasks)
  IN  dag # "idle" =>
        /\ dagErrors = {} => blocked = {} /\ Len(waves) <= Len(tasks)
        /\ dag = "printed" /\ remaining = {} /\ distinct => dagErrors = {}

(* "plan resolve" may be run again on what it wrote: a file that exists is *)
(* never renamed by it, and from the second run on nothing moves.          *)
ReferencesSettle ==
  ref # Unread =>
    /\ Exists(ref.was.path) => ref.now.path = ref.was.path
    /\ ref.runs > 1 => ResolvePath(ref.now) = ref.now

(* The scope gate passes the commits whose changed files the plan gave to  *)
(* the task, and no other: a workspace reached through a link included,    *)
(* but for the files the commit deletes there.                             *)
ScopeExact ==
  commit # Unread /\ (commit.workspace = "root" \/ commit.deleted = {}) =>
    (errors["scope"] = {} <=> commit.parents <= 1 /\ commit.changed \subseteq commit.files)

(* What the two gates over paths answer is exact, run after run.           *)
GatesExact == ReferencesSettle /\ ScopeExact

(* A TEST-SPEC and a plan that both pass their gate: where the surface     *)
(* demands E2E tests, the plan has an e2e task (of a plan that types its   *)
(* tasks).  The comment of cross_check_plan_tests says so.                 *)
\* The code does not keep it: README, disagreements.
E2EHasTask ==
  tests # Unread /\ plan # Unread =>
    ( /\ errors["tests"] = {} /\ errors["plan"] = {} /\ IsCode(tests)
      /\ HasEntries(tests, "E2E Tests") /\ \E t \in ToSet(plan.tasks) : t.kind # "none"
      => \E t \in ToSet(plan.tasks) : t.kind = "e2e" )
=============================================================================
