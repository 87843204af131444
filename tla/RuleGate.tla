------------------------------ MODULE RuleGate ------------------------------
(***************************************************************************)
(* rules.json: the two layers the enforcement hooks read before every tool *)
(* call ("rule gate", "hook enforce"), and the two editors that rewrite    *)
(* them: the "rule" commands in place, the UI server by renaming over.     *)
(* What the stateful checks answer is HookLog's; here is only whether one  *)
(* of them is asked.                                                       *)
(***************************************************************************)
EXTENDS Naturals, SequencesExt

CONSTANTS
  NoLayer, TornLayer,   \* a layer without a file, or with one that cannot be parsed
  NoStamp,        \* no file, no modification time
  LayerStarts(_), \* what a layer may hold at the start
  RuleSet,        \* the rules that may occur in a layer
  DefaultRules,   \* the rules "rule init" seeds
  Edits,          \* what an editor may be asked for: records [by, layer, op, ...]
  Calls,          \* tool calls and the hook asked about them: [hook, readable, tool, input]
  MaxEdits, MaxEditKills,  \* bounds
  Meanwhile         \* may an editor act while a hook is deciding

Layers == {"global", "project"}

ASSUME RuleAssumption ==
  /\ NoStamp \notin Nat
  /\ \A l \in Layers : LayerStarts(l) \subseteq {NoLayer, TornLayer} \cup Seq(RuleSet)
  /\ DefaultRules \in Seq(RuleSet)
  /\ \A r \in RuleSet, b \in BOOLEAN : [r EXCEPT !.enabled = b] \in RuleSet
  /\ \A e \in Edits : /\ e.op \in {"init", "sync", "add", "remove", "set", "replace"}
                     /\ e.layer \in Layers /\ e.rule \in RuleSet /\ e.to \in BOOLEAN

VARIABLES
  layer,    \* per layer: NoLayer, TornLayer, or its sequence of rules
  stamp,    \* per layer: the modification time of its file
  editor,   \* the editor at work: [at, edit, snap]
  page,     \* the rules page: [at, token], its stamp NoStamp without a file
  shown,    \* ghost: the content the page shows
  hook,     \* the hook at work: [at, call, read, verdict]
  edits, editKills,
  moved,    \* ghost: an editor wrote since the hook started
  blind,    \* ghost: an edit went over content the UI had not shown
  inForce,  \* ghost: per layer, the last content some editor finished
  barred    \* ghost: since the hook started, the rules in force bar the call

ruleVars == <<layer, stamp, editor, page, shown, hook, edits, editKills, moved, blind,
              inForce, barred>>
onDisk == <<layer, stamp, inForce, moved, barred>>

NoEdit == [at |-> "idle"]
NoHook == [at |-> "idle"]
-----------------------------------------------------------------------------
(* Matching                                                                *)

\* A value is the set of patterns that match it; a pattern that is not valid
\* matches nothing, and a field the call does not carry fails any condition.
CondHolds(c, input) ==
  /\ c.field \in DOMAIN input
  /\ IF c.op = "not_contains" THEN c.value \notin input[c.field]
     ELSE c.valid /\ c.value \in input[c.field]

Applies(r, call) ==
  /\ r.enabled /\ r.stateful = "none"
  /\ call.tool \in r.matcher
  /\ \A c \in r.conditions : CondHolds(c, call.input)

Skips(r, call) == call.hook = "enforce" /\ r.enforcement = "preflight"

(* Variant: later copies of an overridden id stay. *)
MergeFirst(global, project) ==
  LET Over(acc, r) ==
        LET same == {n \in DOMAIN acc : acc[n].id = r.id}
        IN  IF same = {} THEN Append(acc, r)
            ELSE [acc EXCEPT ![CHOOSE n \in same : \A k \in same : n <= k] = r]
  IN  FoldLeft(Over, global, project)

\* The rules of other ids, in order.
Others(s, ids) ==
  LET kept[n \in 0 .. Len(s)] ==
        IF n = 0 THEN <<>>
        ELSE IF s[n].id \in ids THEN kept[n - 1] ELSE Append(kept[n - 1], s[n])
  IN  kept[Len(s)]

Named(s, id) == {n \in DOMAIN s : s[n].id = id}
First(s, id) == CHOOSE n \in Named(s, id) : \A k \in Named(s, id) : n <= k

\* A project rule overrides in place, and later copies of its id go.
Overridden(acc, r) ==
  IF Named(acc, r.id) = {} THEN Append(acc, r)
  ELSE SubSeq(acc, 1, First(acc, r.id) - 1) \o <<r>>
       \o Others(SubSeq(acc, First(acc, r.id) + 1, Len(acc)), {r.id})

\* merge_rule_layers
Merge(global, project) ==
  LET merged[n \in 0 .. Len(project)] ==
        IF n = 0 THEN global ELSE Overridden(merged[n - 1], project[n])
  IN  merged[Len(project)]

\* stateful_rule_enabled: the first rule that names the check decides.
Asked(rules, check) ==
  LET named == {n \in DOMAIN rules : rules[n].stateful = check}
  IN  named # {} /\ rules[CHOOSE n \in named : \A k \in named : n <= k].enabled

ChecksOf(tool) == CASE tool = "Edit" -> {"require-memory-impact"}
                    [] tool = "Bash" -> {"require-detect-changes", "no-git-add-ignored"}
                    [] OTHER -> {}

\* The answer of a hook that has the effective rules before it.
Decide(call, rules) ==
  LET hits == {r \in ToSet(rules) : Applies(r, call) /\ ~ Skips(r, call)}
  IN  IF \E r \in hits : r.action = "block" THEN "block"
      ELSE IF call.hook = "enforce" /\ \E k \in ChecksOf(call.tool) : Asked(rules, k)
           THEN "stateful"
      ELSE IF hits # {} THEN "warn" ELSE "approve"
-----------------------------------------------------------------------------
RulesOf(content) == IF content \in {NoLayer, TornLayer} THEN <<>> ELSE content
Ids(rules) == {r.id : r \in ToSet(rules)}

(* Which rules count, said without the merge: the project's last rule of   *)
(* an id, and every global rule whose id the project does not have.        *)
Counting(global, project) ==
  {r \in ToSet(global) : r.id \notin Ids(project)}
  \cup {project[n] : n \in {k \in DOMAIN project :
                              \A m \in k + 1 .. Len(project) : project[m].id # project[k].id}}

\* A rule of these layers denies the call.
Bars(f, call) ==
  \E r \in Counting(RulesOf(f["global"]), RulesOf(f["project"])) :
    Applies(r, call) /\ r.action = "block" /\ ~ Skips(r, call)

RuleInit ==
  /\ layer \in [Layers -> UNION {LayerStarts(l) : l \in Layers}]
  /\ \A l \in Layers : layer[l] \in LayerStarts(l)
  /\ stamp = [l \in Layers |-> 0] /\ inForce = layer
  /\ editor = NoEdit /\ hook = NoHook
  /\ page = [at |-> "none", token |-> NoStamp] /\ shown = NoLayer
  /\ edits = 0 /\ editKills = 0 /\ moved = FALSE /\ blind = FALSE /\ barred = FALSE

Free == Meanwhile \/ hook.at \in {"idle", "done"}

Put(l, content) ==
  /\ layer' = [layer EXCEPT ![l] = content]
  /\ stamp' = [stamp EXCEPT ![l] = @ + 1]
  /\ moved' = TRUE

\* The editor is done with the file: what it wrote is in force.
Finish(l, content) ==
  /\ Put(l, content)
  /\ inForce' = layer'
  /\ barred' = (barred /\ Bars(inForce', hook.call))
  /\ editor' = NoEdit

\* What an edit makes of the rules it read; TornLayer stands for a refusal.
Edited(e, content) ==
  LET had == RulesOf(content)
      absent == Named(had, e.id) = {}
  IN  CASE e.op = "init" -> DefaultRules
        [] e.op = "sync" -> DefaultRules \o Others(had, Ids(DefaultRules))
        [] e.op = "add" -> IF absent THEN Append(had, e.rule) ELSE TornLayer
        [] e.op = "remove" -> IF absent THEN TornLayer ELSE Others(had, {e.id})
        [] e.op = "set" -> IF absent THEN TornLayer
                           ELSE [had EXCEPT ![First(had, e.id)].enabled = e.to]
        [] e.op = "replace" -> IF absent THEN TornLayer ELSE [had EXCEPT ![First(had, e.id)] = e.rule]

\* An edit of the page is sent with the stamp of the page.
Give ==
  /\ editor = NoEdit /\ edits < MaxEdits /\ Free /\ (Meanwhile \/ page.at # "rules")
  /\ edits' = edits + 1
  /\ \E e \in Edits :
       /\ e.by = "ui" => page.at = "shown"
       /\ editor' = [at |-> IF e.by = "ui" THEN "compare" ELSE "read", edit |-> e, snap |-> NoLayer]
  /\ UNCHANGED <<onDisk, page, shown, hook, editKills, blind>>

\* cmd_rule_init|add|remove|enable|disable up to the write.
CliRead ==
  /\ editor.at = "read" /\ Free
  /\ LET e == editor.edit
         was == layer[e.layer]
         refused == CASE e.op = "init" -> was # NoLayer
                      [] e.op = "add" -> was = TornLayer
                      [] OTHER -> was \in {NoLayer, TornLayer}
     IN  editor' = IF refused \/ Edited(e, was) = TornLayer THEN NoEdit
                   ELSE [editor EXCEPT !.at = "open", !.snap = was]
  /\ UNCHANGED <<onDisk, page, shown, hook, edits, editKills, blind>>

\* write_rules_config truncates the file, then fills it.
CliOpen ==
  /\ editor.at = "open" /\ Free
  /\ Put(editor.edit.layer, TornLayer) /\ editor' = [editor EXCEPT !.at = "fill"]
  /\ UNCHANGED <<page, shown, hook, edits, editKills, blind, inForce, barred>>

CliFill ==
  /\ editor.at = "fill" /\ Free
  /\ Finish(editor.edit.layer, Edited(editor.edit, editor.snap))
  /\ UNCHANGED <<page, shown, hook, edits, editKills, blind>>

\* The page reads the rules first, and their stamp for the answer after it.
PageRules ==
  /\ page.at # "rules" /\ (Meanwhile \/ editor = NoEdit) /\ layer["project"] # TornLayer
  /\ page' = [page EXCEPT !.at = "rules"] /\ shown' = layer["project"]
  /\ UNCHANGED <<onDisk, editor, hook, edits, editKills, blind>>

PageStamp ==
  /\ page.at = "rules"
  /\ page' = [at |-> "shown",
              token |-> IF layer["project"] = NoLayer THEN NoStamp ELSE stamp["project"]]
  /\ UNCHANGED <<onDisk, editor, shown, hook, edits, editKills, blind>>

\* check_mtime: without a stamp there is nothing to compare.
UiCompare ==
  /\ editor.at = "compare" /\ Free
  /\ editor' = IF page.token \notin {NoStamp, stamp["project"]} THEN NoEdit
               ELSE [editor EXCEPT !.at = "load"]
  /\ UNCHANGED <<onDisk, page, shown, hook, edits, editKills, blind>>

UiLoad ==
  /\ editor.at = "load" /\ Free
  /\ LET was == layer["project"]
     IN  editor' = IF was \in {NoLayer, TornLayer} \/ Edited(editor.edit, was) = TornLayer THEN NoEdit
                   ELSE [editor EXCEPT !.at = "rename", !.snap = was]
  /\ UNCHANGED <<onDisk, page, shown, hook, edits, editKills, blind>>

UiRename ==
  /\ editor.at = "rename" /\ Free
  /\ Finish("project", Edited(editor.edit, editor.snap))
  /\ blind' = (blind \/ shown \notin {NoLayer, editor.snap})
  /\ UNCHANGED <<page, shown, hook, edits, editKills>>

EditorKilled ==
  /\ editor # NoEdit /\ editKills < MaxEditKills /\ Free
  /\ editKills' = editKills + 1 /\ editor' = NoEdit
  /\ UNCHANGED <<onDisk, page, shown, hook, edits, blind>>
-----------------------------------------------------------------------------
(* The hooks                                                               *)

editing == <<layer, stamp, inForce, editor, page, shown, edits, editKills, blind>>
Answer(v) == hook' = [hook EXCEPT !.at = "done", !.verdict = v]

\* enforce denies a payload it cannot parse, rule gate takes it for an empty one.
HookStart ==
  /\ hook.at \in {"idle", "done"} /\ (Meanwhile \/ editor = NoEdit)
  /\ \E c \in Calls :
       /\ hook' = [at |-> IF c.hook = "enforce" /\ ~ c.readable THEN "done" ELSE "project",
                   call |-> c, read |-> <<>>,
                   verdict |-> IF c.readable THEN "none" ELSE "block"]
       /\ barred' = Bars(inForce, c)
  /\ moved' = FALSE
  /\ UNCHANGED editing

\* A layer that is there and cannot be read: enforce denies, rule gate fails.
CheckLayer(l, next) ==
  /\ hook.at = l
  /\ IF layer[l] = TornLayer THEN Answer(IF hook.call.hook = "enforce" THEN "block" ELSE "error")
     ELSE hook' = [hook EXCEPT !.at = next]
  /\ UNCHANGED <<editing, moved, barred>>

\* read_layer_lenient: what cannot be read contributes no rules.
Lenient(l) == RulesOf(layer[l])

ReadGlobal ==
  /\ hook.at = "readGlobal"
  /\ hook' = [hook EXCEPT !.at = "readProject", !.read = Lenient("global")]
  /\ UNCHANGED <<editing, moved, barred>>

ReadProject ==
  /\ hook.at = "readProject"
  /\ Answer(Decide(hook.call, Merge(hook.read, Lenient("project"))))
  /\ UNCHANGED <<editing, moved, barred>>

RuleNext ==
  \/ Give \/ CliRead \/ CliOpen \/ CliFill
  \/ PageRules \/ PageStamp \/ UiCompare \/ UiLoad \/ UiRename \/ EditorKilled
  \/ HookStart \/ CheckLayer("project", "global") \/ CheckLayer("global", "readGlobal")
  \/ ReadGlobal \/ ReadProject

RuleSpec == RuleInit /\ [][RuleNext]_ruleVars
-----------------------------------------------------------------------------
(* A call is never approved past a layer that cannot be read, and over     *)
(* readable layers it is denied exactly when a blocking rule that counts   *)
(* applies to it, whichever layer holds the rule and whatever it overrides *)
(* (no editor wrote since the hook started).                               *)
VerdictExact ==
  hook.at = "done" /\ ~ moved /\ hook.call.readable =>
    (hook.verdict \in {"block", "error"}
       <=> TornLayer \in {layer[l] : l \in Layers} \/ Bars(layer, hook.call))

(* "A gate that cannot read the rules it is meant to enforce would approve *)
(* every call": no call is approved that the rules in force barred from    *)
(* the hook's start to its answer.                                         *)
\* The code does not keep it: README, disagreements.
NeverBlind ==
  hook.at = "done" /\ hook.verdict \in {"approve", "warn", "stateful"} => ~ barred

(* An edit sent from the page goes over the rules the page shows or goes   *)
(* nowhere: "concurrent edits from the CLI are detected via mtime".        *)
EditsSeen == ~ blind
=============================================================================
