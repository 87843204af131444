----------------------------- MODULE ConfigFile -----------------------------
(***************************************************************************)
(* .hoangsa/config.json and the commands that rewrite it: config get|set,  *)
(* pref get|set, the harness and the legacy profile that "install" records,*)
(* and the addon commands with the retirement of the project's addon       *)
(* copies.  Every command reads the file, changes its copy and writes it   *)
(* back, under no lock.  All but the addon commands write in place: the    *)
(* file is empty between the open and the last write.  What workers are    *)
(* told ("rules compose", cmd/envelope.rs) is read from it at any moment.  *)
(***************************************************************************)
EXTENDS Integers, FiniteSets, SequencesExt

CONSTANTS
  Procs,        \* processes that run commands
  Addons,       \* addons of the root tier
  Commands,     \* the commands that may be given
  Words,        \* values of the settings that are names
  MaxCommands,  \* bound: commands of one behaviour
  MaxKills,     \* bound: processes killed
  Overlap,      \* may a command start while another one runs
  Sheets,       \* addon files of the root tier: [name -> record], see Sheet
  OwnSheets,    \* addon files of the project tier that are no copies
  Spelling,     \* the place of each addon's name in the alphabet
  TaskTypes, Roles,  \* of the workers
  Absent, Torn, \* config.json does not exist, or cannot be parsed
  Starts        \* what the project may look like: records with fields file, copies

\* What config.json holds when it can be read.
Config == [profile : Words, wf : Words, runs : Nat, strict : BOOLEAN, harness : Words,
           stack : SUBSET Words, addons : SUBSET Addons]

Command ==
  [op : {"config"}, profile : Words] \cup [op : {"harness"}, harness : Words]
  \cup [op : {"pref"}, key : {"runs"}, runs : Nat]
  \cup [op : {"pref"}, key : {"strict"}, strict : BOOLEAN]
  \cup [op : {"pref"}, key : {"wf"}, wf : {"full", "balanced", "minimal"}]
  \cup [op : {"legacy", "get"}] \cup [op : {"addon"}, add : SUBSET Addons, remove : SUBSET Addons]

ASSUME ConfigAssumption ==
  /\ Absent # Torn /\ Absent \notin Config
  /\ {"full", "balanced", "minimal", "unset", "claude"} \subseteq Words
  /\ Starts \subseteq [file : Config \cup {Absent}, copies : SUBSET Addons]
  /\ Commands \subseteq Command
  /\ \A c \in Commands : c.op = "addon" => c.add \cap c.remove = {}

\* A file of the project replaces the root's of its name.
Sheet(n) == IF n \in DOMAIN OwnSheets THEN OwnSheets[n] ELSE Sheets[n]
SheetNames == DOMAIN Sheets \cup DOMAIN OwnSheets

\* "base" and "own" stand for the base rules and the project's own.
ASSUME SheetAssumption ==
  /\ IsFiniteSet(SheetNames) /\ Addons \subseteq SheetNames
  /\ "base" \notin SheetNames /\ "own" \notin SheetNames
  /\ \A n \in SheetNames : Sheet(n).priority \in Int /\ Spelling[n] \in Int
  /\ \A m, n \in SheetNames : Spelling[m] = Spelling[n] => m = n

Idle == [op |-> "none"]

VARIABLES
  file,     \* Absent, Torn, or the content: [profile, wf, runs, strict,
            \* harness, stack, addons]
  copies,   \* addons with a project copy (.md) identical to the root tier's
  cmd, at, snap, cand, names,   \* per process: command, next step, content read,
                                \* copies to retire, active_addons to write
  given, kills,
  asked,    \* ghost: the content the finished commands asked for
  dropped,  \* ghost: addons the user removed
  had,      \* ghost: addons active or copied at the start
  chosen    \* ghost: the routing profile last asked for, "none" before

cfgVars == <<file, copies, cmd, at, snap, cand, names, given, kills,
             asked, dropped, had, chosen>>

Whole == file \notin {Absent, Torn}
Goto(p, l) == at' = [at EXCEPT ![p] = l]
End(p) == Goto(p, "idle")
Keep == UNCHANGED <<given, kills>>
Ghosts == UNCHANGED <<asked, dropped, chosen, had>>

\* config.rs names the harness in its defaults, pref.rs does not.
Defaults(c) == [profile |-> "balanced", wf |-> "unset", runs |-> 1, addons |-> {},
                strict |-> FALSE, stack |-> {},
                harness |-> IF c.op = "pref" THEN "unset" ELSE "claude"]

PresetRuns == [full |-> 3, balanced |-> 1, minimal |-> 0]

\* A preset left by 0.5.0 in the routing key, told by the test_runs beside it.
LooksLikePreset(f) ==
  f.wf = "unset" /\ (f.profile = "full" \/ (f.profile = "minimal" /\ f.runs = 0))

\* What a command makes of the content it read.
Applied(c, f) ==
  CASE c.op = "config"  -> [f EXCEPT !.profile = c.profile]
    [] c.op = "pref" /\ c.key = "runs" -> [f EXCEPT !.runs = c.runs]
    [] c.op = "pref" /\ c.key = "strict" -> [f EXCEPT !.strict = c.strict]
    [] c.op = "pref" /\ c.key = "wf" ->
         [f EXCEPT !.wf = c.wf, !.runs = PresetRuns[c.wf], !.strict = c.wf = "full"]
    [] c.op = "harness" -> [f EXCEPT !.harness = c.harness]
    [] c.op = "legacy"  -> [f EXCEPT !.profile = "balanced", !.wf = f.profile]
-----------------------------------------------------------------------------
CfgInit ==
  /\ \E s \in Starts :
       /\ file = s.file /\ copies = s.copies /\ asked = s.file
       /\ had = s.copies \cup (IF s.file = Absent THEN {} ELSE s.file.addons)
  /\ cmd = [p \in Procs |-> Idle] /\ at = [p \in Procs |-> "idle"]
  /\ snap = [p \in Procs |-> Absent] /\ cand = [p \in Procs |-> {}]
  /\ names = [p \in Procs |-> {}]
  /\ given = 0 /\ kills = 0 /\ dropped = {} /\ chosen = "none"

Begin(p) ==
  /\ at[p] = "idle" /\ given < MaxCommands
  /\ Overlap \/ \A q \in Procs : at[q] = "idle"
  /\ \E c \in Commands :
       /\ cmd' = [cmd EXCEPT ![p] = c]
       /\ Goto(p, IF c.op = "addon" THEN "classify" ELSE IF c.op = "legacy" THEN "load" ELSE "ensure")
  /\ given' = given + 1
  /\ UNCHANGED <<file, copies, snap, cand, names, kills>> /\ Ghosts

AskedBefore(p) == IF asked = Absent THEN Defaults(cmd[p]) ELSE asked

\* ensure_config: a missing file is created with the defaults, in place.
Ensure(p) ==
  /\ at[p] = "ensure" /\ Goto(p, IF file = Absent THEN "create" ELSE "load")
  /\ UNCHANGED <<file, copies, cmd, snap, cand, names>> /\ Ghosts /\ Keep

CreateOpen(p) ==
  /\ at[p] = "create" /\ file' = Torn /\ Goto(p, "fill")
  /\ UNCHANGED <<copies, cmd, snap, cand, names>> /\ Ghosts /\ Keep

CreateFill(p) ==
  /\ at[p] = "fill" /\ file' = Defaults(cmd[p]) /\ Goto(p, "load")
  /\ asked' = AskedBefore(p)
  /\ UNCHANGED <<copies, cmd, snap, cand, names, dropped, had, chosen>> /\ Keep

(* Variant: what cannot be parsed is taken for a fresh config. *)
LoadDefaults(p) ==
  /\ at[p] = "load"
  /\ snap' = [snap EXCEPT ![p] = IF Whole THEN file ELSE Defaults(cmd[p])]
  /\ Goto(p, IF cmd[p].op \in {"get", "legacy"} THEN "idle" ELSE "open")
  /\ UNCHANGED <<file, copies, cmd, cand, names>> /\ Ghosts /\ Keep

\* An unreadable file ends the command; so does one with nothing to change.
Load(p) ==
  /\ at[p] = "load"
  /\ LET nothing == \/ ~ Whole
                    \/ cmd[p].op = "get"
                    \/ cmd[p].op = "harness" /\ file.harness = cmd[p].harness
                    \/ cmd[p].op = "legacy" /\ ~ LooksLikePreset(file)
     IN  /\ snap' = [snap EXCEPT ![p] = file]
         /\ Goto(p, IF nothing THEN "idle" ELSE "open")
  /\ UNCHANGED <<file, copies, cmd, cand, names>> /\ Ghosts /\ Keep

WriteOpen(p) ==
  /\ at[p] = "open" /\ file' = Torn /\ Goto(p, "write")
  /\ UNCHANGED <<copies, cmd, snap, cand, names>> /\ Ghosts /\ Keep

Write(p) ==
  /\ at[p] = "write" /\ End(p)
  /\ file' = Applied(cmd[p], snap[p])
  /\ asked' = Applied(cmd[p], AskedBefore(p))
  /\ chosen' = IF cmd[p].op = "config" THEN cmd[p].profile ELSE chosen
  /\ UNCHANGED <<copies, cmd, snap, cand, names, dropped, had>> /\ Keep
-----------------------------------------------------------------------------
(* addon list|add|remove: the copies are retired first.                    *)

Classify(p) ==
  /\ at[p] = "classify"
  /\ cand' = [cand EXCEPT ![p] = copies]
  /\ Goto(p, IF copies = {} THEN "active" ELSE "missing")
  /\ UNCHANGED <<file, copies, cmd, snap, names>> /\ Ghosts /\ Keep

\* get_active_addons takes an unreadable file for one that names no addon.
Active == IF Whole THEN file.addons ELSE {}

Missing(p) ==
  /\ at[p] = "missing"
  /\ names' = [names EXCEPT ![p] = Active \cup cand[p]]
  /\ Goto(p, IF cand[p] \subseteq Active THEN "retire" ELSE "record")
  /\ UNCHANGED <<file, copies, cmd, snap, cand>> /\ Ghosts /\ Keep

\* set_active_addons reads the file again, replaces the list and renames a
\* finished temporary over it; what it cannot read it leaves alone.  A copy that
\* could not be retired brings its addon back, even one removed since.
SetRead(p) ==
  /\ at[p] \in {"record", "edit"}
  /\ snap' = [snap EXCEPT ![p] = file]
  /\ Goto(p, IF ~ Whole THEN "idle" ELSE IF at[p] = "record" THEN "recording" ELSE "editing")
  /\ UNCHANGED <<file, copies, cmd, cand, names>> /\ Ghosts /\ Keep

SetRename(p) ==
  /\ at[p] \in {"recording", "editing"}
  /\ file' = [snap[p] EXCEPT !.addons = names[p]]
  /\ IF at[p] = "recording"
     THEN /\ asked' = [asked EXCEPT !.addons = @ \cup cand[p]]
          /\ dropped' = dropped \ cand[p] /\ UNCHANGED had /\ Goto(p, "retire")
     ELSE /\ asked' = [asked EXCEPT !.addons = (@ \cup cmd[p].add) \ cmd[p].remove]
          /\ dropped' = (dropped \cup cmd[p].remove) \ cmd[p].add
          /\ had' = had \cup cmd[p].add /\ End(p)
  /\ UNCHANGED <<copies, cmd, snap, cand, names, chosen>> /\ Keep

\* One rename to .bak; a failed one is skipped.
Retire(p) ==
  /\ at[p] = "retire"
  /\ IF cand[p] = {} THEN Goto(p, "active") /\ UNCHANGED <<copies, cand>>
     ELSE \E n \in cand[p] :
            /\ cand' = [cand EXCEPT ![p] = @ \ {n}]
            /\ copies' \in {copies \ {n}, copies}
            /\ UNCHANGED at
  /\ UNCHANGED <<file, cmd, snap, names>> /\ Ghosts /\ Keep

\* "addon list" only looks.
ReadActive(p) ==
  /\ at[p] = "active"
  /\ names' = [names EXCEPT ![p] = (Active \cup cmd[p].add) \ cmd[p].remove]
  /\ Goto(p, IF cmd[p].add \cup cmd[p].remove = {} THEN "idle" ELSE "edit")
  /\ UNCHANGED <<file, copies, cmd, snap, cand>> /\ Ghosts /\ Keep

Kill(p) ==
  /\ at[p] # "idle" /\ kills < MaxKills
  /\ kills' = kills + 1 /\ End(p)
  /\ UNCHANGED <<file, copies, cmd, snap, cand, names, given>> /\ Ghosts

CfgNext ==
  \E p \in Procs :
    \/ Begin(p) \/ Ensure(p) \/ CreateOpen(p) \/ CreateFill(p) \/ Load(p)
    \/ WriteOpen(p) \/ Write(p)
    \/ Classify(p) \/ Missing(p) \/ SetRead(p) \/ SetRename(p) \/ Retire(p) \/ ReadActive(p)
    \/ Kill(p)

CfgSpec == CfgInit /\ [][CfgNext]_cfgVars
-----------------------------------------------------------------------------
(* rules compose: what a worker of a task type and role is told.  A sheet  *)
(* is [for, notFor, onlyFor, notRoles, onlyRoles, stale, strict, position, *)
(* priority, tools].                                                       *)

\* project_terms: an unreadable config declares nothing.
ProjectTerms == IF Whole THEN file.stack \cup file.addons ELSE {}
Matched(n) == "*" \in Sheet(n).for \/ Sheet(n).for \cap ProjectTerms # {} \/ n \in ProjectTerms

Admits(not, only, x) == x \notin not /\ (only = {} \/ x \in only)
Suits(n, type, role) ==
  /\ Admits(Sheet(n).notFor, Sheet(n).onlyFor, type)
  /\ Admits(Sheet(n).notRoles, Sheet(n).onlyRoles, role)
  /\ ~ Sheet(n).stale

PrefIsTrue == Whole /\ file.strict
AppliedAddons(type, role) ==
  {n \in SheetNames : Matched(n) /\ Suits(n, type, role) /\ (Sheet(n).strict => PrefIsTrue)}

SortsBefore(m, n) ==
  \/ Sheet(m).priority < Sheet(n).priority
  \/ Sheet(m).priority = Sheet(n).priority /\ Spelling[m] < Spelling[n]
Rank(G, n) == Cardinality({m \in G : SortsBefore(m, n)})
Sorted(G) == [i \in 1 .. Cardinality(G) |-> CHOOSE n \in G : Rank(G, n) = i - 1]
AddonGroup(S, position) == Sorted({n \in S : Sheet(n).position = position})
ComposedRules(S) ==
  AddonGroup(S, "before_base") \o <<"base">> \o AddonGroup(S, "after_base")
    \o <<"own">> \o AddonGroup(S, "tail")
AllowedTools(S) == UNION {Sheet(n).tools : n \in S}
-----------------------------------------------------------------------------
(* Commands given one after another, any of them killed anywhere: a file   *)
(* that can be read holds all the finished commands asked for.  A torn one *)
(* is refused by every later command, never merged over or replaced by the *)
(* defaults.                                                               *)
ConfigAsAsked == Whole => file = asked

(* "No reachable interruption drops an addon": one that was active or had  *)
(* a project copy is still in one of the two places, unless it was         *)
(* removed by name.                                                        *)
AddonsKept == Whole => had \ dropped \subseteq file.addons \cup copies

(* Workers are told what the finished commands asked for, whatever was     *)
(* killed: an addon the user took out speaks only for what else the        *)
(* project declares, one that is active says what it has to say to those   *)
(* it is for, and one that needs a preference is silent unless it was      *)
(* asked for ("a conditional addon fails closed").  Whoever may speak and  *)
(* names a place is heard there, once, after the smaller priorities, and   *)
(* the tools they allow are allowed.                                       *)
Places == [before_base |-> 1, after_base |-> 3, tail |-> 5]
Heard(S) == {n \in S : Sheet(n).position \in DOMAIN Places}
Place(n) == IF n = "base" THEN 2 ELSE IF n = "own" THEN 4 ELSE Places[Sheet(n).position]
Precedes(m, n) == Place(m) < Place(n) \/ (Place(m) = Place(n) /\ SortsBefore(m, n))
InOrderOnce(rules) == \A i, j \in DOMAIN rules : i < j => Precedes(rules[i], rules[j])
WorkersAsAsked ==
  \A type \in TaskTypes : \A role \in Roles :
    LET S == AppliedAddons(type, role) rules == ComposedRules(S)
    IN  /\ \A n \in S : Sheet(n).strict => asked # Absent /\ asked.strict
        /\ \A n \in S \cap dropped :
             "*" \in Sheet(n).for \/ Sheet(n).for \cap (asked.stack \cup asked.addons) # {} \/ n \in asked.stack
        /\ Whole => \A n \in had \ (dropped \cup copies) :
                     Suits(n, type, role) /\ (Sheet(n).strict => asked.strict) => n \in S
        /\ ToSet(rules) = Heard(S) \cup {"base", "own"} /\ InOrderOnce(rules)
        /\ \A n \in S : Sheet(n).tools \subseteq AllowedTools(S)

(* The fixup of "install" takes a preset out of the routing key; a routing *)
(* profile the user asked for is no preset ("test_runs == 0, which only    *)
(* the workflow preset ever writes").                                      *)
\* The code does not keep it: README, disagreements.
RoutingKept == Whole /\ chosen # "none" => file.profile = chosen
=============================================================================
