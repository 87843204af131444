----------------------------- MODULE LayerPatch -----------------------------
(***************************************************************************)
(* The pages of hoangsa-ui that edit a layer of the configuration: a patch *)
(* is previewed against the file, with the file's mtime as a token, and    *)
(* applied later, while the CLI rewrites the same files and the server may *)
(* be switched to another project.  patch.rs, config.rs and the routes.    *)
(* A layer's content gives one member, "m", as no member, a leaf or an     *)
(* object of leaves; nothing deeper is told apart.                         *)
(***************************************************************************)
EXTENDS Naturals, FiniteSets

CONSTANTS
  Projects,   \* projects the server may be switched between
  Pages,      \* open pages
  Patches,    \* patches a page may ask for [op, at, value], at "m" or a member of m
  CliWrites,  \* contents the CLI may write
  LayerStarts,\* what the layers may be at first, with stamps of their own
  Racing,     \* may a file change while a patch is being applied to it
  MaxEdits,   \* bound: writes of the CLI
  MaxPatches  \* bound: previews

Names == {"a", "b"}
Nothing == [is |-> "nothing"]
Leaf(v) == [is |-> "leaf", value |-> v]
Obj(f) == [is |-> "object", of |-> f]
Layers == Projects \cup {"global"}
WellFormed(c) == \/ c = Nothing
                 \/ c.is = "leaf" /\ c = Leaf(c.value)
                 \/ c.is = "object" /\ c = Obj(c.of) /\ DOMAIN c.of \subseteq Names

VARIABLES
  layer,    \* per layer [is |-> "absent" | "torn" | "whole", content, stamp]
  current,  \* the project the server works on
  clock,    \* the next mtime
  page,     \* per page where its request is: [at, layer, patch, token, stamp, before, after]
  edits, previews,
  broken    \* ghost: an apply with a token saved something its preview had not shown

layerVars == <<layer, current, clock, page, edits, previews, broken>>

NoPage == [at |-> "idle", layer |-> "global", patch |-> [op |-> "none"], token |-> 0, stamp |-> 0,
           before |-> Nothing, after |-> Nothing]
File(content, stamp) == [is |-> "whole", content |-> content, stamp |-> stamp]
NoFile == [is |-> "absent", content |-> Nothing, stamp |-> 0]

ASSUME LayerAssumption ==
  /\ IsFiniteSet(Projects) /\ "global" \notin Projects
  /\ \A c \in CliWrites : WellFormed(c)
  /\ \A p \in Patches : /\ p.op \in {"add", "replace", "remove"} /\ p.at \in Names \cup {"m"}
                        /\ WellFormed(p.value) /\ (p.at # "m" => p.value.is = "leaf")
  /\ \A s \in LayerStarts :
       /\ DOMAIN s = Layers
       /\ \A l \in Layers : \/ s[l] = NoFile
                            \/ /\ s[l] = File(s[l].content, s[l].stamp) /\ WellFormed(s[l].content)
                               /\ s[l].stamp \in 1..Cardinality(Layers)
       /\ \A l, k \in Layers : s[l].stamp = s[k].stamp /\ s[l].stamp # 0 => l = k
-----------------------------------------------------------------------------
(* apply_to_value: a JSON patch, or Failed.                                 *)
Failed == [is |-> "failed"]
OnTop(f, g) == [n \in DOMAIN f \cup DOMAIN g |-> IF n \in DOMAIN f THEN f[n] ELSE g[n]]
Member(c, n) == c.is = "object" /\ n \in DOMAIN c.of
Apply(p, c) ==
  CASE p.op = "none" -> c
    [] p.at = "m" /\ p.op = "add" -> p.value
    [] p.at = "m" /\ p.op = "replace" -> IF c.is = "nothing" THEN Failed ELSE p.value
    [] p.at = "m" /\ p.op = "remove" -> IF c.is = "nothing" THEN Failed ELSE Nothing
    [] p.at # "m" /\ p.op = "add" -> IF c.is # "object" THEN Failed ELSE Obj(OnTop([n \in {p.at} |-> p.value.value], c.of))
    [] p.at # "m" /\ p.op = "replace" ->
         IF ~ Member(c, p.at) THEN Failed ELSE Obj([c.of EXCEPT ![p.at] = p.value.value])
    [] p.at # "m" /\ p.op = "remove" ->
         IF ~ Member(c, p.at) THEN Failed ELSE Obj([n \in DOMAIN c.of \ {p.at} |-> c.of[n]])

\* build_layered: the members of both layers, the project's where both have
\* one, and the source of every leaf.
LeavesOf(c) ==
  CASE c.is = "nothing" -> {} [] c.is = "leaf" -> {"m"} [] c.is = "object" -> DOMAIN c.of
MarkAll(c, source) == [l \in LeavesOf(c) |-> source]
Merge(g, p) ==
  CASE p.is = "nothing" -> [effective |-> g, sources |-> MarkAll(g, "global")]
    [] p.is = "object" /\ g.is = "object" ->
         [effective |-> Obj(OnTop(p.of, g.of)), sources |-> OnTop(MarkAll(p, "project"), MarkAll(g, "global"))]
    [] OTHER -> [effective |-> p, sources |-> MarkAll(p, "project")]
-----------------------------------------------------------------------------
LayerInit ==
  /\ layer \in LayerStarts
  /\ current \in Projects /\ clock = Cardinality(Layers) + 1
  /\ page = [w \in Pages |-> NoPage] /\ edits = 0 /\ previews = 0 /\ broken = FALSE

ResolveConfigPath(which) == IF which = "global" THEN "global" ELSE current
Go(w, p) == page' = [page EXCEPT ![w] = p]

\* read_target takes the mtime first and the text after it.
StatForPreview(w) ==
  /\ page[w].at = "idle" /\ previews < MaxPatches
  /\ \E which \in {"global", "project"}, p \in Patches :
       LET l == ResolveConfigPath(which)
       IN  Go(w, [NoPage EXCEPT !.at = "stat", !.layer = l, !.patch = p, !.token = layer[l].stamp])
  /\ previews' = previews + 1
  /\ UNCHANGED <<layer, current, clock, edits, broken>>

\* preview: nothing is written; a torn file or a failing patch is an error.
\* A file that appears between the two reads is not seen by the first.
Preview(w) ==
  /\ page[w].at = "stat"
  /\ LET pg == page[w] f == layer[pg.layer]
         read == IF pg.token = 0 THEN Nothing ELSE f.content
     IN  IF (f.is = "torn" /\ pg.token # 0) \/ Apply(pg.patch, read) = Failed THEN Go(w, NoPage)
         ELSE Go(w, [pg EXCEPT !.at = "shown", !.before = read, !.after = Apply(pg.patch, read)])
  /\ UNCHANGED <<layer, current, clock, edits, previews, broken>>

Discard(w) ==
  /\ page[w].at = "shown" /\ Go(w, NoPage)
  /\ UNCHANGED <<layer, current, clock, edits, previews, broken>>

\* apply: the path is resolved again, for the project of the moment.
Applying(l) == \E w \in Pages : page[w].at = "apply" /\ page[w].layer = l
Target(w) == IF page[w].layer = "global" THEN "global" ELSE current
StatForApply(w) ==
  /\ page[w].at = "shown" /\ (Racing \/ ~ Applying(Target(w)))
  /\ Go(w, [page[w] EXCEPT !.at = "apply", !.layer = Target(w), !.stamp = layer[Target(w)].stamp])
  /\ UNCHANGED <<layer, current, clock, edits, previews, broken>>

\* A token of an absent file (null, or 0) is not compared.
Conflict(w) == page[w].token # 0 /\ page[w].token # page[w].stamp

ApplyPatch(w) ==
  /\ page[w].at = "apply" /\ Go(w, NoPage)
  /\ LET pg == page[w] f == layer[pg.layer]
         read == IF pg.stamp = 0 THEN Nothing ELSE f.content
         made == Apply(pg.patch, read)
     IN  IF Conflict(w) \/ f.is = "torn" \/ made = Failed THEN UNCHANGED <<layer, clock, broken>>
         ELSE /\ layer' = [layer EXCEPT ![pg.layer] = File(made, clock)] /\ clock' = clock + 1
              /\ broken' = (broken \/ (pg.token # 0 /\ made # pg.after))
  /\ UNCHANGED <<current, edits, previews>>
-----------------------------------------------------------------------------
\* The CLI writes in place: the file is torn between the open and the write.
CliOpen(l) ==
  /\ edits < MaxEdits /\ edits' = edits + 1 /\ (Racing \/ ~ Applying(l))
  /\ layer' = [layer EXCEPT ![l] = [is |-> "torn", content |-> Nothing, stamp |-> clock]] /\ clock' = clock + 1
  /\ UNCHANGED <<current, page, previews, broken>>

CliWrite(l) ==
  /\ layer[l].is = "torn" /\ (Racing \/ ~ Applying(l))
  /\ \E c \in CliWrites : layer' = [layer EXCEPT ![l] = File(c, clock)]
  /\ clock' = clock + 1
  /\ UNCHANGED <<current, page, edits, previews, broken>>

\* projects_switch: the pages stay open.
Switch(p) ==
  /\ p # current /\ current' = p
  /\ UNCHANGED <<layer, clock, page, edits, previews, broken>>

LayerNext ==
  \/ \E w \in Pages : StatForPreview(w) \/ Preview(w) \/ Discard(w) \/ StatForApply(w) \/ ApplyPatch(w)
  \/ \E l \in Layers : CliOpen(l) \/ CliWrite(l)
  \/ \E p \in Projects : Switch(p)
-----------------------------------------------------------------------------
(* Pages, the CLI and the switch never make a page with a token save what   *)
(* its preview did not show.                                                *)
SavesWhatItShowed == ~ broken

(* Every leaf that is in force comes from the layer its source names, which *)
(* is the project's wherever the project says something about it.           *)
ValueAt(c, l) == IF l = "m" THEN c.value ELSE c.of[l]
EffectiveSound ==
  \A p \in Projects :
    LET g == layer["global"].content q == layer[p].content m == Merge(g, q)
        From(s) == IF s = "project" THEN q ELSE g
    IN  /\ DOMAIN m.sources = LeavesOf(m.effective)
        /\ \A l \in LeavesOf(m.effective) :
             l \in LeavesOf(From(m.sources[l])) /\ ValueAt(m.effective, l) = ValueAt(From(m.sources[l]), l)
        /\ \A l \in LeavesOf(q) : m.sources[l] = "project"
        /\ q.is # "leaf" /\ (q.is = "object" => g.is = "object") => LeavesOf(g) \subseteq LeavesOf(m.effective)

(* What a page saves is what it showed, and the configuration in force has  *)
(* each leaf of the layer that is said to give it.                          *)
PatchHonest == SavesWhatItShowed /\ EffectiveSound

(* patch.rs says of apply that it "returns 409 if the file was edited        *)
(* externally between preview and apply".                                   *)
\* The code does not keep it: README, disagreements.
EditsConflict ==
  [][\A w \in Pages : page[w].at = "apply" /\ layer'[page[w].layer] # layer[page[w].layer] /\ page'[w].at = "idle"
       => page[w].token = page[w].stamp]_layerVars
=============================================================================
