----------------------------- MODULE MCWorkflow -----------------------------
(* The workflow commands together: the plan gates, config.json, the rules  *)
(* and the session files share no state, so a behaviour works on one of    *)
(* them while the others rest.                                             *)
EXTENDS PlanGate, ConfigFile, RuleGate, WorkFiles

CONSTANTS taskA, taskB, outside, edge1, test1, e2e1, proc1, ad1, ad2, memory, golang, old, lost

Task(id, deps, kind, edge, tests_, ui) ==
  [id |-> id, deps |-> deps, kind |-> kind, edge |-> edge, tests |-> tests_, ui |-> ui,
   behavior |-> "steps", flaws |-> {}, e2eName |-> FALSE]

(* Shapes of the graph: every id and every dependency a task may have.     *)
DagTasks == {Task(i, d, "impl", {}, {}, FALSE) : i \in {taskA, taskB, NoId}, d \in SUBSET {taskA, taskB, outside}}
Small == {Task(i, d, "impl", {}, {}, FALSE) : i \in {taskA, taskB, outside}, d \in {{}, {taskA}, {taskB}, {outside}}}
Plan(ts) == [tasks |-> ts, flaws |-> {}]
DagPlans == {Plan(ts) : ts \in (UNION {[1 .. n -> DagTasks] : n \in 0 .. 2}) \cup [1 .. 3 -> Small]}
FlawedPlans ==
  {[Plan(<<Task(taskA, {}, k, {}, {}, FALSE)>>) EXCEPT !.tasks[1].behavior = bh,
                                                  !.tasks[1].flaws = f] :
     k \in {"impl", "test", "none"}, bh \in {"absent", "empty", "steps"},
     f \in {{}, {"files"}}}

(* Embeddings: two tasks against the TEST-SPECs of CrossSpecs.             *)
Entry(text, form, none) == [text |-> text, form |-> form, none |-> none]
Tests(category, surface, headings, edges, units, e2e, visual) ==
  [keys |-> TRUE, category |-> category, surface |-> surface, headings |-> headings,
   entries |-> [s \in {"Edge Cases", "Unit Tests", "Integration Tests", "E2E Tests",
                       "Visual Verification"} |->
                  CASE s = "Edge Cases" -> edges [] s = "Unit Tests" -> units
                    [] s = "E2E Tests" -> e2e [] s = "Visual Verification" -> visual
                    [] OTHER -> {}]]
EdgeSets == {{}, {Entry(edge1, "row", FALSE)}, {Entry(edge1, "row", TRUE)}}
E2ESets == {{}, {Entry(e2e1, "test", FALSE)}, {Entry(e2e1, "bullet", FALSE)}}
CrossSpecs == {Tests("code", s, {"Unit Tests"}, g, {Entry(test1, "test", FALSE)}, e, v) :
                 s \in {"cli", "ui"}, g \in EdgeSets \ {{}}, e \in E2ESets,
                 v \in {{Entry(edge1, "row", FALSE)}}}
MCTestSpecs ==
  CrossSpecs \cup {Tests(c, s, h, g, {}, e, v) :
     c \in {"code", "ops", "content", "none"}, s \in {"ui", "cli", "internal", "none"},
     h \in {{}, {"Unit Tests"}, {"Smoke Tests"}, {"Deliverable Checklist"}},
     g \in EdgeSets, e \in E2ESets, v \in {{}, {Entry(edge1, "row", FALSE)}}}
Embeds == {Task(taskA, {}, k, g, n, u) : k \in {"none", "impl", "test", "e2e"},
             g \in {{}, {edge1}}, n \in {{}, {test1, e2e1}}, u \in BOOLEAN}
EmbedPlans == {Plan(<<t, [u EXCEPT !.id = taskB]>>) : t \in Embeds, u \in {v \in Embeds : ~ v.ui}}

MCPlans(d) == IF d = Unread THEN DagPlans \cup FlawedPlans
              ELSE IF d \in CrossSpecs THEN EmbedPlans ELSE {}

MCDesignSpecs ==
  {[keys |-> TRUE, category |-> c, headings |-> h, behavior |-> bh, risk |-> k, questions |-> q] :
     c \in {"code", "ops", "none"}, h \in {{}, {"Acceptance"}, {"Acceptance", "Implementations"}},
     bh \in BOOLEAN, k \in {{}, RiskClasses, RiskClasses \ {"auth"}},
     q \in {{}, {"RESOLVED"}, {"UNRESOLVED"}, {"none"}, {"blank", "RESOLVED"}}}

(* mod.rs in two places, libmod.rs whose text ends with mod.rs.            *)
Dirs == {"src", "lib", "tools", "target"}
MCFiles == {<<"target", "mod.rs">>, <<"src", "mod.rs">>, <<"lib", "mod.rs">>, <<"lib", "libmod.rs">>,
           <<"src", "lib", "only.rs">>, <<"top.rs">>}
MCTailOf == [n \in {"mod.rs", "libmod.rs", "only.rs", "top.rs", "src", "lib", "tools", "target", "stop.rs"}
               |-> CASE n = "mod.rs" -> {"libmod.rs"} [] n = "top.rs" -> {"stop.rs"} [] OTHER -> {}]
Names == {"mod.rs", "libmod.rs", "only.rs", "top.rs"}
MCRefs == [abs : BOOLEAN, path : {<<n>> : n \in Names} \cup {<<d, n>> : d \in Dirs, n \in Names}
                                 \cup {<<"src", "lib", n>> : n \in Names}]

MCCommits == [parents : {1, 2}, workspace : {"root", "link"}, files : SUBSET {taskA, taskB, outside},
              changed : SUBSET {taskA, taskB, outside}, deleted : SUBSET {taskA, taskB}]

(* config.json as projects have it, one preset of 0.5.0 among them.         *)
Cfg(profile, runs, addons) ==
  [profile |-> profile, wf |-> "unset", runs |-> runs, strict |-> profile = "full", harness |-> "claude",
   stack |-> {"go"}, addons |-> addons]
MCCommands ==
  {[op |-> "config", profile |-> "minimal"], [op |-> "pref", key |-> "runs", runs |-> 0],
   [op |-> "pref", key |-> "wf", wf |-> "full"], [op |-> "pref", key |-> "wf", wf |-> "minimal"],
   [op |-> "harness", harness |-> "codex"], [op |-> "legacy"], [op |-> "get"]}
  \cup {[op |-> "addon", add |-> p, remove |-> r] : p \in {{}, {ad1}}, r \in {{}, {ad2}}}
MCStarts ==
  {[file |-> f, copies |-> c] : c \in {{}, {ad1, ad2}},
     f \in {Absent, Cfg("full", 3, {}), Cfg("balanced", 1, {ad1})}}

(* Addons by stack, by name only, for some tasks, the memory addon, one     *)
(* with the field that was removed and one whose place is misspelt.         *)
PlainSheet ==
  [for |-> {}, notFor |-> {}, onlyFor |-> {}, notRoles |-> {}, onlyRoles |-> {}, stale |-> FALSE,
   strict |-> FALSE, position |-> "after_base", priority |-> 50, tools |-> {}]
MCSheets ==
  (ad1 :> [PlainSheet EXCEPT !.notFor = {"research"}, !.tools = {"Bash"}])
  @@ (ad2 :> [PlainSheet EXCEPT !.position = "tail", !.onlyRoles = {"impl"}])
  @@ (memory :> [PlainSheet EXCEPT !.for = {"*"}, !.strict = TRUE, !.priority = 70])
  @@ (golang :> [PlainSheet EXCEPT !.for = {"go"}, !.position = "before_base"])
  @@ (old :> [PlainSheet EXCEPT !.for = {"*"}, !.stale = TRUE])
  @@ (lost :> [PlainSheet EXCEPT !.for = {"*"}, !.position = "middle", !.tools = {"Write"}])
MCSpelling == (ad1 :> 1) @@ (ad2 :> 2) @@ (golang :> 3) @@ (memory :> 4) @@ (old :> 5) @@ (lost :> 6)
MCOwnSheets == golang :> [PlainSheet EXCEPT !.for = {"go"}, !.position = "tail", !.priority = 10, !.tools = {"Read"}]

(* Rule files of the layers and what edits them.                           *)
Cond(field, op, value, valid) == [field |-> field, op |-> op, value |-> value, valid |-> valid]
Rule(id, enabled, action, enforcement, stateful, conditions) ==
  [id |-> id, enabled |-> enabled, action |-> action, enforcement |-> enforcement,
   stateful |-> stateful, conditions |-> conditions,
   matcher |-> IF stateful = "none" THEN {"Bash", "Edit"} ELSE {}]

ForcedPush == {Cond("command", "contains", "force", TRUE)}
Bar(id, on, conditions) == Rule(id, on, "block", "hook", "none", conditions)
R1 == Bar("r1", TRUE, ForcedPush)
R1Off == Bar("r1", FALSE, ForcedPush)
R1Bad == Bar("r1", TRUE, {Cond("command", "regex", "force", FALSE)})
R2 == Bar("r2", TRUE, {Cond("command", "not_contains", "safe", TRUE)})
Warn == Rule("r2", TRUE, "warn", "prompt", "none", ForcedPush)
Pre == Rule("r2", TRUE, "block", "preflight", "none", {})
Impact == Rule("r3", TRUE, "warn", "hook", "require-memory-impact", {})
ImpactOff == [Impact EXCEPT !.enabled = FALSE]

MCLayerStarts(l) ==
  IF l = "global" THEN {NoLayer, TornLayer, <<R2, Impact>>, <<R1Off, R1>>}
  ELSE {NoLayer, TornLayer, <<R1Off, R1>>, <<Pre, R1Bad>>, <<ImpactOff, Warn, R1>>}
MCDefaultRules == <<R1, Impact>>
MCRuleSet == {[r EXCEPT !.enabled = on] : r \in {R1, R1Bad, R2, Warn, Pre, Impact}, on \in BOOLEAN}

Cli(op, layer_, id, rule, to) ==
  [by |-> "cli", op |-> op, layer |-> layer_, id |-> id, rule |-> rule, to |-> to]
Ui(op, id, rule, to) == [by |-> "ui", op |-> op, layer |-> "project", id |-> id, rule |-> rule, to |-> to]
MCEdits ==
  {Cli("init", "project", "r1", R1, TRUE), Cli("add", "global", "r2", R2, TRUE),
   Cli("remove", "project", "r1", R1, TRUE),
   Cli("set", "project", "r1", R1, TRUE),
   Ui("add", "r2", R2, TRUE), Ui("remove", "r1", R1, TRUE), Ui("set", "r1", R1, FALSE),
   Ui("replace", "r1", R1Bad, TRUE), Ui("sync", "r1", R1, TRUE)}

MCCalls ==
  [hook : {"gate", "enforce"}, readable : {TRUE}, tool : {"Bash"},
   input : {[command |-> {"force"}], [command |-> {"safe"}], [file |-> {}]}]
  \cup [hook : {"enforce"}, readable : {TRUE}, tool : {"Edit"}, input : {[command |-> {"force"}]}]
  \cup [hook : {"gate", "enforce"}, readable : {FALSE}, tool : {""}, input : {[none |-> {}]}]

(* Sessions, state files and documents.                                    *)
MCSessionNames == {<<"a">>, <<"-", "a", "-">>, <<"a", "-", "2">>, <<"-">>}
MCFirstState == [top |-> [status |-> "design"], prefs |-> [lang |-> "en"]]
MCPatches == {[top |-> [status |-> "cooking"], prefs |-> <<>>],
              [top |-> [tasks |-> "t1"], prefs |-> [lang |-> "vi"]]}
MCDocs == {<<>>, <<"u1", "u2">>, <<"u1", StartMark, "old", EndMark, "u2">>, <<StartMark, "u1">>}
MCBlocks == {<<"r1">>, <<>>}
-----------------------------------------------------------------------------
VARIABLE system   \* which of the four this behaviour works on

workflowAll == <<system, gateAll, cfgVars, ruleVars, workVars>>

WorkflowInit ==
  /\ system \in {"gate", "config", "rules", "files"}
  /\ GateInit /\ CfgInit /\ RuleInit /\ WorkInit
  /\ system # "config" => file = Absent /\ copies = {}
  /\ system # "rules" => layer = [l \in Layers |-> NoLayer]
  /\ system # "files" => docs = [f \in {"claude", "agents"} |-> <<>>]

WorkflowNext ==
  /\ UNCHANGED system
  /\ \/ system = "gate" /\ GateNext /\ UNCHANGED <<cfgVars, ruleVars, workVars>>
     \/ system = "config" /\ CfgNext /\ UNCHANGED <<gateAll, ruleVars, workVars>>
     \/ system = "rules" /\ RuleNext /\ UNCHANGED <<gateAll, cfgVars, workVars>>
     \/ system = "files" /\ WorkNext /\ UNCHANGED <<gateAll, cfgVars, ruleVars>>

WorkflowSpec ==
  /\ WorkflowInit /\ [][WorkflowNext]_workflowAll
  /\ WF_gateAll(TurnWaves /\ UNCHANGED <<system, cfgVars, ruleVars, workVars>>)

(* The waves hand the tasks out as the abstract order does, and go on.     *)
TaskOrderKept == Order!OrderSpec

(* The project's files, through finished and killed commands: no addon is  *)
(* dropped, workers are told what was asked for, no edit of the rules page *)
(* goes over rules it did not show, no session shares a directory, no      *)
(* approval is invented, no line is lost.                                  *)
FilesHonest == AddonsKept /\ (system = "config" => WorkersAsAsked) /\ EditsSeen /\ WorkSafe
=============================================================================
