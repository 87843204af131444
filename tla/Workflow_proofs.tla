-------------------------- MODULE Workflow_proofs --------------------------
(***************************************************************************)
(* Proofs about the workflow: its files, its gates, its waves.             *)
(*                                                                         *)
(*   ConfigKept     ConfigAsAsked, for commands that do not overlap.       *)
(*   AddonsStay     AddonsKept, for commands that do not overlap.          *)
(*   MergeCounts    what the merge of two rule layers holds, by induction  *)
(*                  over the project's rules.                              *)
(*   VerdictsExact  VerdictExact, with editors at work at any time.        *)
(*   WavesRefineOrder  the loop of dag waves implements TaskOrder (its     *)
(*                  safety), for every plan.                               *)
(*   WavesInOrder   WavesOrdered, for every plan.                          *)
(*   DetectCyclesExact  the search for cycles, for every plan.             *)
(*   PlansRun       AcceptedPlanRuns, for every plan the gate is given.    *)
(*   GatesAnswerExact   GatesExact, for every workspace and commit.        *)
(*   WorkersTold    WorkersAsAsked, for any addons and their places.       *)
(*   PageSeen       EditsSeen, for any edits of the rules.                 *)
(*   WorkKept       WorkSafe, for any sessions, servers and documents.     *)
(*   FilesKept      FilesHonest, from these three and AddonsStay.          *)
(***************************************************************************)
EXTENDS MCWorkflow, FiniteSetTheorems, WellFoundedInduction, SequenceTheorems, TLAPS

-----------------------------------------------------------------------------
(* config.json                                                             *)

(* The steps of a command between its reads and its last write. *)
CfgSteps == {"idle", "ensure", "create", "fill", "load", "open", "write", "classify",
             "missing", "record", "recording", "retire", "active", "edit", "editing"}

CfgTypes ==
  /\ at \in [Procs -> CfgSteps]
  /\ DOMAIN cmd = Procs /\ DOMAIN snap = Procs /\ DOMAIN cand = Procs /\ DOMAIN names = Procs

OneAtATime == \A p, q \in Procs : at[p] # "idle" /\ at[q] # "idle" => p = q

(* What the command at work has in hand agrees with what was asked for.    *)
InHand(p) ==
  /\ at[p] = "create" => file = Absent
  /\ at[p] = "fill" => asked = Absent
  /\ at[p] \in {"open", "write", "recording", "editing"} => asked # Absent /\ snap[p] = asked
  /\ at[p] \in {"recording", "editing"} => file # Torn
  /\ at[p] \in {"record", "recording"} /\ asked # Absent /\ file # Torn
       => names[p] = asked.addons \cup cand[p]
  /\ at[p] \in {"edit", "editing"} /\ asked # Absent /\ file # Torn
       => names[p] = (asked.addons \cup cmd[p].add) \ cmd[p].remove

CfgInv ==
  /\ CfgTypes /\ OneAtATime
  /\ file # Torn => file = asked
  /\ \A p \in Procs : InHand(p)

(* The step of p is p's affair: the others are idle. *)
LEMMA OnlyOne ==
  ASSUME CfgInv, NEW p \in Procs, NEW l \in CfgSteps,
         \A q \in Procs \ {p} : at[q] = "idle",
         at' = [at EXCEPT ![p] = l],
         DOMAIN cmd' = Procs, DOMAIN snap' = Procs, DOMAIN cand' = Procs, DOMAIN names' = Procs,
         file' # Torn => file' = asked',
         InHand(p)'
  PROVE  CfgInv'
<1>1. CfgTypes'
  BY DEF CfgInv, CfgTypes
<1>2. \A q \in Procs \ {p} : at'[q] = "idle"
  BY DEF CfgInv, CfgTypes
<1>3. OneAtATime'
  BY <1>2 DEF OneAtATime
<1>4. \A q \in Procs \ {p} : InHand(q)'
  BY <1>2 DEF InHand
<1> QED BY <1>1, <1>3, <1>4 DEF CfgInv

(* Every command that does not overlap another one leaves config.json as   *)
(* the finished commands asked for, or torn.                               *)
LEMMA CfgStep ==
  ASSUME ~ Overlap, CfgInv, [CfgNext]_cfgVars
  PROVE  CfgInv'
<1>1. CASE UNCHANGED cfgVars
  BY <1>1 DEF cfgVars, CfgInv, CfgTypes, OneAtATime, InHand
<1>2. ASSUME NEW p \in Procs, Begin(p) PROVE CfgInv'
  <2>1. PICK c \in Commands : cmd' = [cmd EXCEPT ![p] = c] /\ Goto(p, IF c.op = "addon" THEN "classify" ELSE IF c.op = "legacy" THEN "load" ELSE "ensure")
    BY <1>2 DEF Begin
  <2>2. PICK l \in {"classify", "load", "ensure"} : at' = [at EXCEPT ![p] = l]
    BY <2>1 DEF Goto
  <2>3. \A q \in Procs : at[q] = "idle"
    BY <1>2 DEF Begin
  <2>4. at'[p] = l
    BY <2>2 DEF CfgInv, CfgTypes
  <2>5. InHand(p)'
    BY <2>4 DEF InHand
  <2> QED BY <1>2, <2>1, <2>2, <2>3, <2>5, OnlyOne DEF Begin, Ghosts, CfgInv, CfgTypes, CfgSteps
<1> DEFINE Busy(p) == \/ Ensure(p) \/ CreateOpen(p) \/ CreateFill(p) \/ Load(p)
                      \/ WriteOpen(p) \/ Write(p) \/ Classify(p) \/ Missing(p) \/ SetRead(p)
                      \/ SetRename(p) \/ Retire(p) \/ ReadActive(p) \/ Kill(p)
<1>3. ASSUME NEW p \in Procs, Busy(p) PROVE CfgInv'
  <2> USE DEF Goto, End, Keep, Ghosts
  <2>1. at[p] # "idle"
    BY <1>3 DEF Ensure, CreateOpen, CreateFill, Load, WriteOpen, Write, Classify, Missing,
                SetRead, SetRename, Retire, ReadActive, Kill
  <2>2. \A q \in Procs \ {p} : at[q] = "idle"
    BY <2>1 DEF CfgInv, OneAtATime
  <2>3. /\ InHand(p) /\ (file # Torn => file = asked)
        /\ at \in [Procs -> CfgSteps]
        /\ DOMAIN cmd = Procs /\ DOMAIN snap = Procs /\ DOMAIN cand = Procs /\ DOMAIN names = Procs
    BY DEF CfgInv, CfgTypes
  <2>4. CASE Ensure(p)
    <3>1. PICK l \in {"create", "load"} : at' = [at EXCEPT ![p] = l] /\ (l = "create" => file = Absent)
      BY <2>4 DEF Ensure
    <3>2. InHand(p)'
      BY <2>3, <2>4, <3>1 DEF Ensure, InHand
    <3> QED BY <2>2, <2>3, <2>4, <3>1, <3>2, OnlyOne DEF Ensure, CfgSteps
  <2>5. CASE CreateOpen(p)
    <3>1. InHand(p)'
      BY <2>3, <2>5, ConfigAssumption DEF CreateOpen, InHand
    <3> QED BY <2>2, <2>3, <2>5, <3>1, OnlyOne DEF CreateOpen, CfgSteps
  <2>6. CASE CreateFill(p)
    <3>1. file' = asked'
      BY <2>3, <2>6 DEF CreateFill, InHand, AskedBefore
    <3>2. InHand(p)'
      BY <2>3, <2>6 DEF CreateFill, InHand
    <3> QED BY <2>2, <2>3, <2>6, <3>1, <3>2, OnlyOne DEF CreateFill, CfgSteps
  <2>7. CASE Load(p)
    <3>1. PICK l \in {"idle", "open"} : at' = [at EXCEPT ![p] = l] /\ (l = "open" => Whole)
      BY <2>7 DEF Load
    <3>2. InHand(p)'
      BY <2>3, <2>7, <3>1 DEF Load, InHand, Whole
    <3> QED BY <2>2, <2>3, <2>7, <3>1, <3>2, OnlyOne DEF Load, CfgSteps
  <2>8. CASE WriteOpen(p)
    <3>1. InHand(p)'
      BY <2>3, <2>8 DEF WriteOpen, InHand
    <3> QED BY <2>2, <2>3, <2>8, <3>1, OnlyOne DEF WriteOpen, CfgSteps
  <2>9. CASE Write(p)
    <3>1. snap[p] = asked /\ AskedBefore(p) = asked
      BY <2>3, <2>9 DEF Write, InHand, AskedBefore
    <3>2. file' = asked'
      BY <2>9, <3>1 DEF Write
    <3>3. InHand(p)'
      BY <2>3, <2>9 DEF Write, InHand
    <3> QED BY <2>2, <2>3, <2>9, <3>2, <3>3, OnlyOne DEF Write, CfgSteps
  <2>10. CASE Classify(p)
    <3>1. PICK l \in {"active", "missing"} : at' = [at EXCEPT ![p] = l]
      BY <2>10 DEF Classify
    <3>2. InHand(p)'
      BY <2>3, <2>10, <3>1 DEF Classify, InHand
    <3> QED BY <2>2, <2>3, <2>10, <3>1, <3>2, OnlyOne DEF Classify, CfgSteps
  <2>11. CASE Missing(p)
    <3>1. PICK l \in {"retire", "record"} : at' = [at EXCEPT ![p] = l]
      BY <2>11 DEF Missing
    <3>2. names'[p] = Active \cup cand[p]
      BY <2>3, <2>11 DEF Missing
    <3>3. asked # Absent /\ file # Torn => Active = asked.addons
      BY <2>3 DEF Active, Whole
    <3>4. InHand(p)'
      BY <2>3, <2>11, <3>1, <3>2, <3>3 DEF Missing, InHand
    <3> QED BY <2>2, <2>3, <2>11, <3>1, <3>4, OnlyOne DEF Missing, CfgSteps
  <2>12. CASE ReadActive(p)
    <3>1. PICK l \in {"idle", "edit"} : at' = [at EXCEPT ![p] = l]
      BY <2>12 DEF ReadActive
    <3>2. names'[p] = (Active \cup cmd[p].add) \ cmd[p].remove
      BY <2>3, <2>12 DEF ReadActive
    <3>3. asked # Absent /\ file # Torn => Active = asked.addons
      BY <2>3 DEF Active, Whole
    <3>4. InHand(p)'
      BY <2>3, <2>12, <3>1, <3>2, <3>3 DEF ReadActive, InHand
    <3> QED BY <2>2, <2>3, <2>12, <3>1, <3>4, OnlyOne DEF ReadActive, CfgSteps
  <2>13. CASE SetRead(p)
    <3>1. PICK l \in {"idle", "recording", "editing"} :
             /\ at' = [at EXCEPT ![p] = l] /\ (l # "idle" => Whole)
             /\ (l = "recording" => at[p] = "record") /\ (l = "editing" => at[p] = "edit")
      BY <2>13 DEF SetRead
    <3>2. InHand(p)'
      BY <2>3, <2>13, <3>1 DEF SetRead, InHand, Whole
    <3> QED BY <2>2, <2>3, <2>13, <3>1, <3>2, OnlyOne DEF SetRead, CfgSteps
  <2>14. CASE SetRename(p)
    <3>1. asked # Absent /\ snap[p] = asked /\ file' = [asked EXCEPT !.addons = names[p]]
      BY <2>3, <2>14 DEF SetRename, InHand
    <3>2. file' = asked'
      <4>1. CASE at[p] = "recording"
        BY <2>3, <2>14, <3>1, <4>1 DEF SetRename, InHand
      <4>2. CASE at[p] = "editing"
        BY <2>3, <2>14, <3>1, <4>2 DEF SetRename, InHand
      <4> QED BY <2>14, <4>1, <4>2 DEF SetRename
    <3>3. PICK l \in {"idle", "retire"} : at' = [at EXCEPT ![p] = l]
      BY <2>14 DEF SetRename
    <3>4. InHand(p)'
      BY <2>3, <3>3 DEF InHand
    <3> QED BY <2>2, <2>3, <2>14, <3>2, <3>3, <3>4, OnlyOne DEF SetRename, CfgSteps
  <2>15. CASE Retire(p)
    <3>1. PICK l \in {"active", "retire"} : at' = [at EXCEPT ![p] = l]
      <4>1. CASE cand[p] = {}
        BY <2>15, <4>1 DEF Retire
      <4>2. CASE cand[p] # {}
        <5>1. at' = at /\ at[p] = "retire"
          BY <2>15, <4>2 DEF Retire
        <5> QED BY <2>3, <5>1
      <4> QED BY <4>1, <4>2
    <3>2. InHand(p)'
      BY <2>3, <3>1 DEF InHand
    <3>3. DOMAIN cand' = Procs
      BY <2>3, <2>15 DEF Retire
    <3> QED BY <2>2, <2>3, <2>15, <3>1, <3>2, <3>3, OnlyOne DEF Retire, CfgSteps
  <2>16. CASE Kill(p)
    <3>1. InHand(p)'
      BY <2>3, <2>16 DEF Kill, InHand
    <3> QED BY <2>2, <2>3, <2>16, <3>1, OnlyOne DEF Kill, CfgSteps
  <2> QED
    BY <1>3, <2>4, <2>5, <2>6, <2>7, <2>8, <2>9, <2>10, <2>11, <2>12, <2>13, <2>14,
             <2>15, <2>16
<1> QED BY <1>1, <1>2, <1>3 DEF CfgNext

(* Commands given one after another, for any number of processes and any   *)
(* commands, each of them killed anywhere: config.json holds what the      *)
(* finished ones asked for, or it is torn and every later command refuses  *)
(* it.                                                                     *)
THEOREM ConfigKept == ~ Overlap /\ CfgSpec => []ConfigAsAsked
<1>1. CfgInit => CfgInv
  BY DEF CfgInit, CfgInv, CfgTypes, CfgSteps, OneAtATime, InHand
<1>2. CfgInv => ConfigAsAsked
  BY DEF CfgInv, ConfigAsAsked, Whole
<1>3. ~ Overlap /\ CfgInv /\ [CfgNext]_cfgVars => CfgInv'
  BY CfgStep
<1>4. CASE ~ Overlap
  <2>1. CfgInv /\ [CfgNext]_cfgVars => CfgInv'
    BY <1>3, <1>4
  <2> QED BY <1>1, <1>2, <2>1, PTL DEF CfgSpec
<1> QED BY <1>4

(* A change keeps the shape of the content; no change of another setting   *)
(* touches the list of addons.                                             *)
LEMMA AppliedFacts ==
  ASSUME NEW c \in Commands, c.op \in {"config", "pref", "harness", "legacy"},
         NEW f \in Config
  PROVE  Applied(c, f) \in Config /\ Applied(c, f).addons = f.addons
<1>1. c \in Command
  BY ConfigAssumption
<1>2. CASE c.op = "pref" /\ c.key = "runs"
  BY <1>1, <1>2 DEF Applied, Config, Command
<1>3. CASE c.op = "pref" /\ c.key = "strict"
  BY <1>1, <1>3 DEF Applied, Config, Command
<1>4. CASE c.op = "pref" /\ c.key = "wf"
  <2>1. c.wf \in {"full", "balanced", "minimal"}
    BY <1>1, <1>4 DEF Command
  <2>2. PresetRuns[c.wf] \in Nat /\ (c.wf = "full") \in BOOLEAN
    BY <2>1 DEF PresetRuns
  <2>3. Applied(c, f) = [f EXCEPT !.wf = c.wf, !.runs = PresetRuns[c.wf], !.strict = c.wf = "full"]
    BY <1>4 DEF Applied
  <2>4. c.wf \in Words
    BY <2>1, ConfigAssumption
  <2>5. PICK b \in BOOLEAN : Applied(c, f) = [f EXCEPT !.wf = c.wf, !.runs = PresetRuns[c.wf], !.strict = b]
    BY <2>2, <2>3, Zenon
  <2>6. PICK r \in Nat : r = PresetRuns[c.wf]
    BY <2>2
  <2>7. PICK w \in Words : w = c.wf
    BY <2>4
  <2>8. Applied(c, f) = [f EXCEPT !.wf = w, !.runs = r, !.strict = b]
    BY <2>5, <2>6, <2>7
  <2> QED BY <2>8 DEF Config
<1>5. CASE c.op = "config"
  BY <1>1, <1>5 DEF Applied, Config, Command
<1>6. CASE c.op = "harness"
  BY <1>1, <1>6 DEF Applied, Config, Command
<1>7. CASE c.op = "legacy"
  <2>1. "balanced" \in Words /\ f.profile \in Words
    BY ConfigAssumption DEF Config
  <2>2. Applied(c, f) = [f EXCEPT !.profile = "balanced", !.wf = f.profile]
    BY <1>7 DEF Applied
  <2> QED BY <2>1, <2>2 DEF Config
<1>8. c.op = "pref" => c.key \in {"runs", "strict", "wf"}
  BY <1>1 DEF Command
<1> QED BY <1>2, <1>3, <1>4, <1>5, <1>6, <1>7, <1>8

(* A new config.json names no addon. *)
LEMMA DefaultsFacts ==
  ASSUME NEW c
  PROVE  Defaults(c) \in Config /\ Defaults(c).addons = {}
<1>1. PICK h \in Words : Defaults(c) = [profile |-> "balanced", wf |-> "unset", runs |-> 1,
                                      addons |-> {}, strict |-> FALSE, stack |-> {}, harness |-> h]
  BY ConfigAssumption DEF Defaults
<1>2. {"balanced", "unset"} \subseteq Words
  BY ConfigAssumption
<1> QED BY <1>1, <1>2 DEF Config

AskedAddons == IF asked = Absent THEN {} ELSE asked.addons

(* An addon is where its user left it: in the list, or as a copy that has  *)
(* not been taken into the list yet.  Copies go when they are in the list. *)
Steady(p) ==
  /\ at[p] # "idle" => cmd[p] \in Commands
  /\ at[p] \in {"load", "open", "write", "ensure", "create", "fill"} => cmd[p].op # "addon"
  /\ at[p] \in {"open", "write"} => cmd[p].op # "get"
  /\ at[p] \in {"classify", "missing", "record", "recording", "retire", "active", "edit", "editing"}
       => cmd[p].op = "addon"
  /\ cand[p] \subseteq Addons
  /\ at[p] = "retire" => cand[p] \subseteq AskedAddons

AddonInv ==
  /\ asked \in Config \cup {Absent} /\ copies \subseteq Addons
  /\ had \ dropped \subseteq AskedAddons \cup copies
  /\ \A p \in Procs : Steady(p)

(* Whatever command takes a step, or is killed before it. *)
LEMMA AddonStep ==
  ASSUME ~ Overlap, CfgInv, AddonInv, [CfgNext]_cfgVars
  PROVE  AddonInv'
<1>1. CASE UNCHANGED cfgVars
  BY <1>1 DEF cfgVars, AddonInv, Steady, AskedAddons
<1>2. ASSUME NEW p \in Procs, Begin(p) PROVE AddonInv'
  <2>1. PICK c \in Commands : cmd' = [cmd EXCEPT ![p] = c] /\ Goto(p, IF c.op = "addon" THEN "classify" ELSE IF c.op = "legacy" THEN "load" ELSE "ensure")
    BY <1>2 DEF Begin
  <2>2. PICK l \in {"classify", "load", "ensure"} :
           at' = [at EXCEPT ![p] = l] /\ (l = "classify" <=> c.op = "addon")
    BY <2>1 DEF Goto
  <2>3. at'[p] = l /\ cmd'[p] = c /\ \A q \in Procs \ {p} : at'[q] = "idle"
    BY <1>2, <2>1, <2>2 DEF Begin, CfgInv, CfgTypes
  <2>4. \A q \in Procs : Steady(q)'
    BY <1>2, <2>2, <2>3 DEF Steady, AddonInv, Begin
  <2> QED BY <1>2, <2>4 DEF Begin, Ghosts, AddonInv, AskedAddons
<1> DEFINE Busy(p) == \/ Ensure(p) \/ CreateOpen(p) \/ CreateFill(p) \/ Load(p)
                      \/ WriteOpen(p) \/ Write(p) \/ Classify(p) \/ Missing(p) \/ SetRead(p)
                      \/ SetRename(p) \/ Retire(p) \/ ReadActive(p) \/ Kill(p)
<1>3. ASSUME NEW p \in Procs, Busy(p) PROVE AddonInv'
  <2> USE DEF Goto, End, Keep, Ghosts
  <2>1. at[p] # "idle"
    BY <1>3 DEF Ensure, CreateOpen, CreateFill, Load, WriteOpen, Write, Classify, Missing,
                SetRead, SetRename, Retire, ReadActive, Kill
  <2>2. PICK l \in CfgSteps : at' = [at EXCEPT ![p] = l]
    <3>1. CASE Retire(p)
      <4>1. CASE cand[p] = {}
        BY <3>1, <4>1 DEF Retire, CfgSteps
      <4>2. CASE cand[p] # {}
        <5>1. at' = at
          BY <3>1, <4>2 DEF Retire
        <5> QED BY <5>1 DEF CfgInv, CfgTypes
      <4> QED BY <4>1, <4>2
    <3>2. CASE ~ Retire(p)
      BY <1>3, <3>2 DEF CfgSteps, Ensure, CreateOpen, CreateFill, Load, WriteOpen, Write, Classify,
                  Missing, SetRead, SetRename, ReadActive, Kill
    <3> QED BY <3>1, <3>2
  <2>3. /\ at'[p] = l /\ \A q \in Procs \ {p} : at'[q] = "idle"
        /\ (\A q \in Procs \ {p} : cand'[q] = cand[q]) => \A q \in Procs \ {p} : Steady(q)'
    <3>1. at'[p] = l /\ \A q \in Procs \ {p} : at'[q] = "idle"
      BY <2>1, <2>2 DEF CfgInv, CfgTypes, OneAtATime
    <3> QED BY <3>1 DEF Steady, AddonInv
  <2>4. cmd' = cmd
    BY <1>3 DEF Ensure, CreateOpen, CreateFill, Load, WriteOpen, Write, Classify, Missing,
                SetRead, SetRename, Retire, ReadActive, Kill
  <2>5. /\ cmd[p] \in Commands /\ Steady(p) /\ InHand(p) /\ DOMAIN cand = Procs
        /\ asked \in Config \cup {Absent} /\ copies \subseteq Addons
        /\ had \ dropped \subseteq AskedAddons \cup copies
        /\ file # Torn => file = asked
    BY <2>1 DEF AddonInv, Steady, CfgInv, CfgTypes
  <2>7. CASE Missing(p)
    <3>1. l = "retire" => cand[p] \subseteq Active
      BY <2>2, <2>3, <2>7 DEF Missing, CfgInv, CfgTypes
    <3>2. Active \subseteq AskedAddons
      BY <2>5 DEF Active, Whole, AskedAddons
    <3>3. Steady(p)'
      BY <2>2, <2>3, <2>4, <2>5, <2>7, <3>1, <3>2 DEF Steady, Missing, AskedAddons
    <3> QED BY <2>3, <2>5, <2>7, <3>3 DEF AddonInv, AskedAddons, Missing
  <2>8. CASE Classify(p)
    <3>1. Steady(p)'
      BY <2>2, <2>3, <2>4, <2>5, <2>8 DEF Steady, Classify
    <3> QED BY <2>3, <2>5, <2>8, <3>1 DEF AddonInv, AskedAddons, Classify
  <2>9. CASE CreateFill(p)
    <3>1. asked = Absent /\ asked' = Defaults(cmd[p])
      BY <2>5, <2>9 DEF CreateFill, InHand, AskedBefore
    <3>2. Defaults(cmd[p]) \in Config /\ Defaults(cmd[p]).addons = {}
      BY DefaultsFacts
    <3>3. Steady(p)'
      BY <2>2, <2>3, <2>4, <2>5, <2>9 DEF Steady, CreateFill
    <3> QED BY <2>3, <2>5, <2>9, <3>1, <3>2, <3>3 DEF AddonInv, AskedAddons, CreateFill
  <2>10. CASE Write(p)
    <3>1. asked # Absent /\ asked' = Applied(cmd[p], asked)
      BY <2>5, <2>10 DEF Write, InHand, AskedBefore
    <3>2. cmd[p].op \in {"config", "pref", "harness", "legacy"}
      BY <2>5, <2>10, ConfigAssumption DEF Write, Steady, Command
    <3>3. asked' \in Config /\ asked'.addons = asked.addons
      BY <2>5, <3>1, <3>2, AppliedFacts
    <3>4. asked' # Absent
      BY <3>3, ConfigAssumption
    <3>5. Steady(p)'
      BY <2>2, <2>3, <2>4, <2>5, <2>10 DEF Steady, Write
    <3> QED BY <2>3, <2>5, <2>10, <3>1, <3>3, <3>4, <3>5 DEF AddonInv, AskedAddons, Write
  <2>11. CASE SetRename(p)
    <3>1. asked \in Config /\ cmd[p] \in Command /\ cmd[p].op = "addon"
      BY <2>5, <2>11, ConfigAssumption DEF SetRename, InHand, Steady
    <3>2. asked # Absent
      BY <3>1, ConfigAssumption
    <3>3. cand'[p] = cand[p] /\ cand[p] \subseteq Addons
      BY <2>5, <2>11 DEF SetRename, Steady
    <3>4. CASE at[p] = "recording"
      <4>1. asked' = [asked EXCEPT !.addons = asked.addons \cup cand[p]]
        BY <2>11, <3>4 DEF SetRename
      <4>2. asked' \in Config /\ asked'.addons = asked.addons \cup cand[p]
        BY <3>1, <3>3, <4>1 DEF Config
      <4>3. AskedAddons' = AskedAddons \cup cand[p]
        BY <3>2, <4>2, ConfigAssumption DEF AskedAddons
      <4>4. had' = had /\ dropped' = dropped \ cand[p] /\ copies' = copies
        BY <2>11, <3>4 DEF SetRename
      <4>5. Steady(p)'
        BY <2>2, <2>3, <2>4, <2>5, <2>11, <3>1, <3>3, <3>4, <4>3 DEF Steady, SetRename
      <4> QED BY <2>3, <2>5, <2>11, <4>2, <4>3, <4>4, <4>5 DEF AddonInv, SetRename
    <3>5. CASE at[p] = "editing"
      <4>0. cmd[p].add \subseteq Addons /\ cmd[p].add \cap cmd[p].remove = {}
        BY <2>5, <3>1, ConfigAssumption DEF Command
      <4>1. asked' = [asked EXCEPT !.addons = (asked.addons \cup cmd[p].add) \ cmd[p].remove]
        BY <2>11, <3>5 DEF SetRename
      <4>2. asked' \in Config /\ asked'.addons = (asked.addons \cup cmd[p].add) \ cmd[p].remove
        BY <3>1, <4>0, <4>1 DEF Config
      <4>3. AskedAddons' = (AskedAddons \cup cmd[p].add) \ cmd[p].remove
        BY <3>2, <4>2, ConfigAssumption DEF AskedAddons
      <4>4. /\ had' = had \cup cmd[p].add /\ copies' = copies
            /\ dropped' = (dropped \cup cmd[p].remove) \ cmd[p].add
        BY <2>11, <3>5 DEF SetRename
      <4>5. Steady(p)'
        BY <2>2, <2>3, <2>4, <2>5, <2>11, <3>1, <3>3, <3>5 DEF Steady, SetRename, CfgInv, CfgTypes
      <4>6. had' \ dropped' \subseteq AskedAddons' \cup copies'
        BY <2>5, <4>0, <4>3, <4>4
      <4> QED BY <2>3, <2>5, <2>11, <4>2, <4>5, <4>6 DEF AddonInv, SetRename
    <3> QED BY <2>11, <3>4, <3>5 DEF SetRename
  <2>12. CASE Retire(p)
    <3>1. cand'[p] \subseteq cand[p] /\ \A q \in Procs \ {p} : cand'[q] = cand[q]
      BY <2>5, <2>12 DEF Retire
    <3>2. copies' \subseteq copies /\ copies \ copies' \subseteq cand[p]
      BY <2>12 DEF Retire
    <3>3. cand[p] \subseteq AskedAddons /\ AskedAddons' = AskedAddons
      BY <2>5, <2>12 DEF Retire, Steady, AskedAddons
    <3>4. l \in {"retire", "active"}
      BY <2>2, <2>3, <2>12 DEF Retire, CfgInv, CfgTypes
    <3>5. Steady(p)'
      BY <2>3, <2>4, <2>5, <2>12, <3>1, <3>3, <3>4 DEF Steady, Retire
    <3> QED BY <2>3, <2>5, <2>12, <3>1, <3>2, <3>3, <3>5 DEF AddonInv, Retire
  <2>13. CASE \/ Ensure(p) \/ CreateOpen(p) \/ Load(p) \/ WriteOpen(p) \/ SetRead(p)
             \/ ReadActive(p) \/ Kill(p)
    <3>1. UNCHANGED <<asked, had, dropped, copies, cand>> /\ l # "retire"
      BY <2>2, <2>3, <2>13 DEF Ensure, CreateOpen, Load, WriteOpen, SetRead, ReadActive, Kill,
         CfgInv, CfgTypes
    <3>2. Steady(p)'
      BY <2>2, <2>3, <2>4, <2>5, <2>13, <3>1
         DEF Steady, Ensure, CreateOpen, Load, WriteOpen, SetRead, ReadActive, Kill, AskedAddons
    <3> QED BY <2>3, <2>5, <3>1, <3>2 DEF AddonInv, AskedAddons
  <2> QED
    BY <1>3, <2>7, <2>8, <2>9, <2>10, <2>11, <2>12, <2>13
<1> QED BY <1>1, <1>2, <1>3 DEF CfgNext

(* The start. *)
LEMMA CfgStarts == CfgInit => CfgInv /\ AddonInv
<1> SUFFICES ASSUME CfgInit PROVE CfgInv /\ AddonInv
  OBVIOUS
<1>1. CfgInv
  BY DEF CfgInit, CfgInv, CfgTypes, CfgSteps, OneAtATime, InHand
<1>2. PICK s \in Starts :
         /\ file = s.file /\ copies = s.copies /\ asked = s.file
         /\ had = s.copies \cup (IF s.file = Absent THEN {} ELSE s.file.addons)
  BY DEF CfgInit
<1>3. had \subseteq AskedAddons \cup copies
  BY <1>2 DEF AskedAddons
<1>4. asked \in Config \cup {Absent} /\ copies \subseteq Addons
  BY <1>2, ConfigAssumption
<1>5. \A p \in Procs : Steady(p)
  BY DEF CfgInit, Steady
<1> QED BY <1>1, <1>3, <1>4, <1>5 DEF AddonInv

(* Commands given one after another, whatever of them is killed and        *)
(* wherever, and whatever copy cannot be retired: an addon that was active *)
(* or had a project copy is still in one of the two places, unless it was  *)
(* removed by name.                                                        *)
THEOREM AddonsStay == ~ Overlap /\ CfgSpec => []AddonsKept
<1>1. CfgInit => CfgInv /\ AddonInv
  BY CfgStarts
<1>2. CfgInv /\ AddonInv => AddonsKept
  BY DEF CfgInv, AddonInv, AddonsKept, Whole, AskedAddons
<1>3. CASE ~ Overlap
  <2>1. CfgInv /\ [CfgNext]_cfgVars => CfgInv'
    BY <1>3, CfgStep
  <2>2. CfgInv /\ AddonInv /\ [CfgNext]_cfgVars => AddonInv'
    BY <1>3, AddonStep
  <2> QED BY <1>1, <1>2, <2>1, <2>2, PTL DEF CfgSpec
<1> QED BY <1>3

-----------------------------------------------------------------------------
(* What workers are told                                                   *)

(* Any two names sort, one before the other.                               *)
LEMMA SortsFacts ==
  ASSUME NEW m \in SheetNames, NEW n \in SheetNames
  PROVE  /\ ~ SortsBefore(m, m)
         /\ m # n => SortsBefore(m, n) \/ SortsBefore(n, m)
         /\ \A k \in SheetNames : SortsBefore(m, n) /\ SortsBefore(n, k) => SortsBefore(m, k)
<1>1. \A k \in SheetNames : Sheet(k).priority \in Int /\ Spelling[k] \in Int
  BY SheetAssumption
<1>2. ~ SortsBefore(m, m)
  BY <1>1 DEF SortsBefore
<1>3. m # n => SortsBefore(m, n) \/ SortsBefore(n, m)
  BY <1>1, SheetAssumption DEF SortsBefore
<1>4. ASSUME NEW k \in SheetNames, SortsBefore(m, n), SortsBefore(n, k) PROVE SortsBefore(m, k)
  BY <1>1, <1>4 DEF SortsBefore
<1> QED BY <1>2, <1>3, <1>4

(* A smaller name has a smaller rank, and ranks start at 0.                *)
LEMMA RankFacts ==
  ASSUME NEW G \in SUBSET SheetNames, IsFiniteSet(G)
  PROVE  /\ Cardinality(G) \in Nat
         /\ \A n \in G : Rank(G, n) \in Nat /\ Rank(G, n) < Cardinality(G)
         /\ \A m, n \in G : SortsBefore(m, n) => Rank(G, m) < Rank(G, n)
<1>1. PICK c \in Nat : c = Cardinality(G)
  BY FS_CardinalityType
<1>2. ASSUME NEW n \in G PROVE Rank(G, n) \in Nat /\ Rank(G, n) < c
  <2>1. PICK B \in SUBSET G : B = {m \in G : SortsBefore(m, n)}
    OBVIOUS
  <2>2. n \in G \ B
    BY <2>1, SortsFacts
  <2>3. IsFiniteSet(B) /\ Cardinality(B) <= Cardinality(G) /\ (Cardinality(G) = Cardinality(B) => G = B)
    BY FS_Subset
  <2>4. Cardinality(B) \in Nat
    BY <2>3, FS_CardinalityType
  <2>5. Rank(G, n) = Cardinality(B)
    BY <2>1 DEF Rank
  <2> QED BY <1>1, <2>2, <2>3, <2>4, <2>5
<1>3. ASSUME NEW m \in G, NEW n \in G, SortsBefore(m, n) PROVE Rank(G, m) < Rank(G, n)
  <2>1. PICK A \in SUBSET G : A = {k \in G : SortsBefore(k, m)}
    OBVIOUS
  <2>2. PICK B \in SUBSET G : B = {k \in G : SortsBefore(k, n)}
    OBVIOUS
  <2>3. m \in B \ A /\ A \subseteq B
    BY <1>3, <2>1, <2>2, SortsFacts
  <2>4. IsFiniteSet(B)
    BY FS_Subset
  <2>5. A \in SUBSET B
    BY <2>3
  <2>6. Cardinality(A) <= Cardinality(B) /\ (Cardinality(B) = Cardinality(A) => B = A) /\ IsFiniteSet(A)
    BY <2>4, <2>5, FS_Subset
  <2>7. Cardinality(A) \in Nat /\ Cardinality(B) \in Nat
    BY <2>4, <2>6, FS_CardinalityType
  <2>8. Rank(G, m) = Cardinality(A) /\ Rank(G, n) = Cardinality(B)
    BY <2>1, <2>2 DEF Rank
  <2> QED BY <2>3, <2>6, <2>7, <2>8
<1> QED BY <1>1, <1>2, <1>3

(* Sorted puts every name of a set into its place, once.                   *)
LEMMA SortedFacts ==
  ASSUME NEW G \in SUBSET SheetNames, IsFiniteSet(G)
  PROVE  /\ Sorted(G) \in Seq(G) /\ ToSet(Sorted(G)) = G
         /\ \A i, j \in DOMAIN Sorted(G) : i < j => SortsBefore(Sorted(G)[i], Sorted(G)[j])
<1>1. PICK c \in Nat : c = Cardinality(G)
  BY RankFacts
<1>2. \A n \in G : Rank(G, n) \in 0 .. c - 1
  BY <1>1, RankFacts
<1>3. \A m, n \in G : SortsBefore(m, n) => Rank(G, m) < Rank(G, n)
  BY RankFacts
<1>4. \A m, n \in G : m # n => SortsBefore(m, n) \/ SortsBefore(n, m)
  BY SortsFacts
<1>5. \A m, n \in G : Rank(G, m) = Rank(G, n) => m = n
  BY <1>2, <1>3, <1>4
<1>6. \A i \in 0 .. c - 1 : \E n \in G : Rank(G, n) = i
  <2>1. PICK f : f = [n \in G |-> Rank(G, n)]
    OBVIOUS
  <2>2. f \in Injection(G, 0 .. c - 1)
    BY <1>2, <1>5, <2>1 DEF Injection, IsInjective
  <2>3. IsFiniteSet(0 .. c - 1) /\ Cardinality(0 .. c - 1) = c
    BY FS_Interval
  <2>4. f \in Surjection(G, 0 .. c - 1)
    BY <1>1, <2>2, <2>3, FS_Injection
  <2> QED BY <2>1, <2>4 DEF Surjection
<1>7. PICK s : s = Sorted(G)
  OBVIOUS
<1>8. s = [i \in 1 .. c |-> CHOOSE n \in G : Rank(G, n) = i - 1]
  BY <1>1, <1>7 DEF Sorted
<1>9. \A i \in 1 .. c : s[i] \in G /\ Rank(G, s[i]) = i - 1
  <2>1. \A i \in 1 .. c : \E n \in G : Rank(G, n) = i - 1
    BY <1>6
  <2> QED BY <1>8, <2>1
<1>10. s \in Seq(G) /\ DOMAIN s = 1 .. c
  BY <1>8, <1>9
<1>11. \A n \in G : n \in ToSet(s)
  <2>1. TAKE n \in G
  <2>2. PICK r \in 0 .. c - 1 : r = Rank(G, n)
    BY <1>2
  <2>3. r + 1 \in 1 .. c /\ (r + 1) - 1 = r
    BY <2>2
  <2>4. s[r + 1] \in G /\ Rank(G, s[r + 1]) = r
    BY <1>9, <2>3
  <2>5. s[r + 1] = n
    BY <1>5, <2>2, <2>4
  <2> QED BY <1>10, <2>3, <2>5 DEF ToSet
<1>12. ToSet(s) = G
  BY <1>9, <1>10, <1>11 DEF ToSet
<1>13. ASSUME NEW i \in DOMAIN s, NEW j \in DOMAIN s, i < j PROVE SortsBefore(s[i], s[j])
  <2>1. i \in 1 .. c /\ j \in 1 .. c
    BY <1>10
  <2>2. s[i] \in G /\ s[j] \in G /\ Rank(G, s[i]) = i - 1 /\ Rank(G, s[j]) = j - 1
    BY <1>9, <2>1
  <2>3. Rank(G, s[i]) < Rank(G, s[j])
    BY <1>13, <2>1, <2>2
  <2>4. s[i] # s[j] /\ ~ SortsBefore(s[j], s[i])
    <3>1. SortsBefore(s[j], s[i]) => Rank(G, s[j]) < Rank(G, s[i])
      BY <1>3, <2>2
    <3> QED BY <1>13, <2>1, <2>2, <2>3, <3>1
  <2> QED BY <1>4, <2>2, <2>4
<1> QED BY <1>7, <1>10, <1>12, <1>13

(* A stretch of what a worker is told: these parts, in order, each once.   *)
Told == SheetNames \cup {"base", "own"}
Stretch(s, P) == s \in Seq(Told) /\ ToSet(s) = P /\ InOrderOnce(s)

(* One stretch after another. *)
LEMMA StretchOn ==
  ASSUME NEW s, NEW P, NEW t, NEW Q, Stretch(s, P), Stretch(t, Q),
         \A m \in P : \A n \in Q : Place(m) < Place(n)
  PROVE  Stretch(s \o t, P \cup Q)
<1>1. s \in Seq(Told) /\ t \in Seq(Told) /\ ToSet(s) = P /\ ToSet(t) = Q
  BY DEF Stretch
<1>2. PICK k \in Nat, l \in Nat : k = Len(s) /\ l = Len(t)
  BY <1>1
<1>3. PICK u : u = s \o t
  OBVIOUS
<1>4. /\ u \in Seq(Told) /\ DOMAIN u = 1 .. k + l /\ DOMAIN s = 1 .. k /\ DOMAIN t = 1 .. l
      /\ \A i \in 1 .. k : u[i] = s[i]
      /\ \A i \in 1 .. l : u[k + i] = t[i]
  BY <1>1, <1>2, <1>3
<1>5. ASSUME NEW i \in 1 .. k + l, ~ (i <= k) PROVE \E x \in 1 .. l : i = k + x /\ u[i] = t[x]
  <2>1. i - k \in 1 .. l /\ i = k + (i - k)
    BY <1>5
  <2> QED BY <1>4, <2>1
<1>6. (\A i \in 1 .. k : s[i] \in P) /\ (\A i \in 1 .. l : t[i] \in Q)
  BY <1>1, <1>4 DEF ToSet
<1>7. ToSet(u) = P \cup Q
  <2>1. ASSUME NEW e \in ToSet(u) PROVE e \in P \cup Q
    <3>1. PICK i \in 1 .. k + l : u[i] = e
      BY <1>4, <2>1 DEF ToSet
    <3>2. CASE i <= k
      BY <1>4, <1>6, <3>1, <3>2
    <3>3. CASE ~ (i <= k)
      BY <1>5, <1>6, <3>1, <3>3
    <3> QED BY <3>2, <3>3
  <2>2. ASSUME NEW e \in P PROVE e \in ToSet(u)
    <3>1. PICK i \in 1 .. k : s[i] = e
      BY <1>1, <1>4, <2>2 DEF ToSet
    <3> QED BY <1>4, <3>1 DEF ToSet
  <2>3. ASSUME NEW e \in Q PROVE e \in ToSet(u)
    <3>1. PICK i \in 1 .. l : t[i] = e
      BY <1>1, <1>4, <2>3 DEF ToSet
    <3>2. k + i \in 1 .. k + l
      OBVIOUS
    <3> QED BY <1>4, <3>1, <3>2 DEF ToSet
  <2> QED BY <2>1, <2>2, <2>3
<1>8. ASSUME NEW i \in 1 .. k + l, NEW j \in 1 .. k + l, i < j PROVE Precedes(u[i], u[j])
  <2>1. CASE j <= k
    <3>1. i \in 1 .. k /\ j \in 1 .. k
      BY <1>8, <2>1
    <3>2. Precedes(s[i], s[j])
      BY <1>4, <1>8, <3>1 DEF Stretch, InOrderOnce
    <3> QED BY <1>4, <3>1, <3>2
  <2>2. CASE i <= k /\ ~ (j <= k)
    <3>1. i \in 1 .. k
      BY <2>2
    <3>2. u[i] \in P /\ u[j] \in Q
      BY <1>4, <1>5, <1>6, <2>2, <3>1
    <3> QED BY <3>2 DEF Precedes
  <2>3. CASE ~ (i <= k) /\ ~ (j <= k)
    <3>1. PICK x \in 1 .. l : i = k + x /\ u[i] = t[x]
      BY <1>5, <2>3
    <3>2. PICK y \in 1 .. l : j = k + y /\ u[j] = t[y]
      BY <1>5, <2>3
    <3>3. x < y
      BY <1>8, <3>1, <3>2
    <3>4. Precedes(t[x], t[y])
      BY <1>4, <3>3 DEF Stretch, InOrderOnce
    <3> QED BY <3>1, <3>2, <3>4
  <2>4. ~ (i <= k) => ~ (j <= k)
    BY <1>8
  <2> QED BY <2>1, <2>2, <2>3, <2>4
<1> QED BY <1>3, <1>4, <1>7, <1>8 DEF Stretch, InOrderOnce

(* The addons of a place. *)
LEMMA GroupFacts ==
  ASSUME NEW S \in SUBSET SheetNames, NEW position \in DOMAIN Places
  PROVE  /\ Stretch(AddonGroup(S, position), {n \in S : Sheet(n).position = position})
         /\ \A n \in {k \in S : Sheet(k).position = position} : Place(n) = Places[position]
<1>1. PICK G \in SUBSET SheetNames : G = {n \in S : Sheet(n).position = position}
  OBVIOUS
<1>2. IsFiniteSet(G)
  BY SheetAssumption, FS_Subset
<1>3. PICK s : s = Sorted(G)
  OBVIOUS
<1>4. /\ s \in Seq(G) /\ ToSet(s) = G
      /\ \A i, j \in DOMAIN s : i < j => SortsBefore(s[i], s[j])
  BY <1>2, <1>3, SortedFacts
<1>5. \A n \in G : Place(n) = Places[position]
  BY <1>1, SheetAssumption DEF Place
<1>6. \A i \in DOMAIN s : s[i] \in G
  BY <1>4
<1>7. s \in Seq(Told)
  <2>1. G \subseteq Told
    BY DEF Told
  <2> QED BY <1>4, <2>1
<1>8. InOrderOnce(s)
  BY <1>4, <1>5, <1>6 DEF InOrderOnce, Precedes
<1>9. AddonGroup(S, position) = s
  BY <1>1, <1>3 DEF AddonGroup
<1> QED BY <1>1, <1>4, <1>5, <1>7, <1>8, <1>9 DEF Stretch

(* What a worker is told. *)
LEMMA ComposedFacts ==
  ASSUME NEW S \in SUBSET SheetNames
  PROVE  ToSet(ComposedRules(S)) = Heard(S) \cup {"base", "own"} /\ InOrderOnce(ComposedRules(S))
<1> DEFINE At(position) == {n \in S : Sheet(n).position = position}
           G(position) == AddonGroup(S, position)
<1>1. DOMAIN Places = {"before_base", "after_base", "tail"} /\ Places["before_base"] = 1
      /\ Places["after_base"] = 3 /\ Places["tail"] = 5
  BY DEF Places
<1>2. /\ Stretch(G("before_base"), At("before_base")) /\ \A n \in At("before_base") : Place(n) = 1
      /\ Stretch(G("after_base"), At("after_base")) /\ \A n \in At("after_base") : Place(n) = 3
      /\ Stretch(G("tail"), At("tail")) /\ \A n \in At("tail") : Place(n) = 5
  BY <1>1, GroupFacts
<1>3. Place("base") = 2 /\ Place("own") = 4
  BY DEF Place
<1>4. Stretch(<<"base">>, {"base"}) /\ Stretch(<<"own">>, {"own"})
  BY DEF Stretch, Told, InOrderOnce, ToSet
<1> HIDE DEF At, G
<1>5. Stretch(G("before_base") \o <<"base">>, At("before_base") \cup {"base"})
  BY <1>2, <1>3, <1>4, StretchOn
<1>6. Stretch(G("before_base") \o <<"base">> \o G("after_base"),
              At("before_base") \cup {"base"} \cup At("after_base"))
  BY <1>2, <1>3, <1>5, StretchOn
<1>7. Stretch(G("before_base") \o <<"base">> \o G("after_base") \o <<"own">>,
              At("before_base") \cup {"base"} \cup At("after_base") \cup {"own"})
  BY <1>2, <1>3, <1>4, <1>6, StretchOn
<1>8. Stretch(G("before_base") \o <<"base">> \o G("after_base") \o <<"own">> \o G("tail"),
              At("before_base") \cup {"base"} \cup At("after_base") \cup {"own"} \cup At("tail"))
  BY <1>2, <1>3, <1>7, StretchOn
<1>9. Heard(S) = At("before_base") \cup At("after_base") \cup At("tail")
  BY <1>1 DEF Heard, At
<1> QED BY <1>8, <1>9 DEF Stretch, ComposedRules, G

(* What was taken out is not in the list.                                  *)
TakenOut == dropped \cap AskedAddons = {} /\ had \subseteq Addons

(* An addon leaves the list when it is removed and is back when it is      *)
(* added, or when its copy is recorded.                                    *)
LEMMA TakenStep ==
  ASSUME ~ Overlap, CfgInv, AddonInv, TakenOut, [CfgNext]_cfgVars
  PROVE  TakenOut'
<1> USE DEF Ghosts
<1>1. ASSUME UNCHANGED <<asked, dropped, had>> PROVE TakenOut'
  BY <1>1 DEF TakenOut, AskedAddons
<1>2. ASSUME NEW p \in Procs, CreateFill(p) PROVE TakenOut'
  <2>1. asked = Absent /\ asked' = Defaults(cmd[p])
    BY <1>2 DEF CreateFill, AskedBefore, CfgInv, InHand
  <2>2. Defaults(cmd[p]).addons = {}
    BY DefaultsFacts
  <2> QED BY <1>2, <2>1, <2>2 DEF CreateFill, TakenOut, AskedAddons
<1>3. ASSUME NEW p \in Procs, Write(p) PROVE TakenOut'
  <2>1. asked # Absent /\ asked' = Applied(cmd[p], asked)
    BY <1>3 DEF Write, CfgInv, InHand, AskedBefore
  <2>2. cmd[p] \in Commands /\ cmd[p].op \notin {"addon", "get"}
    BY <1>3 DEF Write, AddonInv, Steady
  <2>3. cmd[p].op \in {"config", "pref", "harness", "legacy"}
    BY <2>2, ConfigAssumption DEF Command
  <2>4. asked' \in Config /\ asked'.addons = asked.addons
    BY <2>1, <2>2, <2>3, AppliedFacts DEF AddonInv
  <2>5. asked' # Absent
    BY <2>4, ConfigAssumption
  <2> QED BY <1>3, <2>1, <2>4, <2>5 DEF Write, TakenOut, AskedAddons
<1>4. ASSUME NEW p \in Procs, SetRename(p) PROVE TakenOut'
  <2>1. asked \in Config /\ asked # Absent
    BY <1>4 DEF SetRename, CfgInv, InHand, AddonInv
  <2>2. CASE at[p] = "recording"
    <3>1. asked' = [asked EXCEPT !.addons = asked.addons \cup cand[p]]
      BY <1>4, <2>2 DEF SetRename
    <3>2. asked'.addons = asked.addons \cup cand[p] /\ had' = had /\ dropped' = dropped \ cand[p]
      BY <1>4, <2>1, <2>2, <3>1 DEF SetRename, Config
    <3> QED BY <2>1, <3>2 DEF TakenOut, AskedAddons
  <2>3. CASE at[p] = "editing"
    <3>1. asked' = [asked EXCEPT !.addons = (asked.addons \cup cmd[p].add) \ cmd[p].remove]
      BY <1>4, <2>3 DEF SetRename
    <3>2. /\ asked'.addons = (asked.addons \cup cmd[p].add) \ cmd[p].remove
          /\ had' = had \cup cmd[p].add
          /\ dropped' = (dropped \cup cmd[p].remove) \ cmd[p].add
      BY <1>4, <2>1, <2>3, <3>1 DEF SetRename, Config
    <3>3. cmd[p] \in Commands /\ cmd[p].op = "addon"
      BY <2>3 DEF AddonInv, Steady
    <3>4. cmd[p].add \subseteq Addons
      BY <3>3, ConfigAssumption DEF Command
    <3> QED BY <2>1, <3>2, <3>4 DEF TakenOut, AskedAddons
  <2> QED BY <1>4, <2>2, <2>3 DEF SetRename
<1>5. ASSUME NEW p \in Procs,
             \/ Begin(p) \/ Ensure(p) \/ CreateOpen(p) \/ Load(p) \/ WriteOpen(p) \/ Classify(p)
             \/ Missing(p) \/ SetRead(p) \/ Retire(p) \/ ReadActive(p) \/ Kill(p)
      PROVE  TakenOut'
  BY <1>1, <1>5 DEF Begin, Ensure, CreateOpen, Load, WriteOpen, Classify, Missing, SetRead, Retire,
                    ReadActive, Kill
<1>6. CASE UNCHANGED cfgVars
  BY <1>1, <1>6 DEF cfgVars
<1> QED BY <1>2, <1>3, <1>4, <1>5, <1>6 DEF CfgNext

(* What workers are told, from what the file holds. *)
LEMMA WorkersHold == CfgInv /\ AddonInv /\ TakenOut => WorkersAsAsked
<1> SUFFICES ASSUME CfgInv, AddonInv, TakenOut, NEW type \in TaskTypes, NEW role \in Roles,
                    NEW S, S = AppliedAddons(type, role)
             PROVE  /\ \A n \in S : Sheet(n).strict => asked # Absent /\ asked.strict
                    /\ \A n \in S \cap dropped :
                         "*" \in Sheet(n).for \/ Sheet(n).for \cap (asked.stack \cup asked.addons) # {}
                         \/ n \in asked.stack
                    /\ Whole => \A n \in had \ (dropped \cup copies) :
                                 Suits(n, type, role) /\ (Sheet(n).strict => asked.strict) => n \in S
                    /\ ToSet(ComposedRules(S)) = Heard(S) \cup {"base", "own"}
                    /\ InOrderOnce(ComposedRules(S))
                    /\ \A n \in S : Sheet(n).tools \subseteq AllowedTools(S)
  BY DEF WorkersAsAsked
<1>1. S \in SUBSET SheetNames
  BY DEF AppliedAddons
<1>2. ToSet(ComposedRules(S)) = Heard(S) \cup {"base", "own"} /\ InOrderOnce(ComposedRules(S))
  BY <1>1, ComposedFacts
<1>3. Whole => file = asked /\ asked # Absent /\ AskedAddons = asked.addons
  BY DEF Whole, CfgInv, AskedAddons
<1>4. ASSUME NEW n \in S, Sheet(n).strict PROVE asked # Absent /\ asked.strict
  BY <1>3, <1>4 DEF AppliedAddons, PrefIsTrue
<1>5. ASSUME NEW n \in S \cap dropped
      PROVE  "*" \in Sheet(n).for \/ Sheet(n).for \cap (asked.stack \cup asked.addons) # {} \/ n \in asked.stack
  <2>1. Matched(n) /\ n \notin AskedAddons
    BY DEF AppliedAddons, TakenOut
  <2>2. CASE Whole
    BY <1>3, <2>1, <2>2 DEF Matched, ProjectTerms
  <2>3. CASE ~ Whole
    BY <2>1, <2>3 DEF Matched, ProjectTerms
  <2> QED BY <2>2, <2>3
<1>6. ASSUME Whole, NEW n \in had \ (dropped \cup copies), Suits(n, type, role),
             Sheet(n).strict => asked.strict
      PROVE  n \in S
  <2>1. n \in file.addons /\ n \in SheetNames
    BY <1>3, <1>6, SheetAssumption DEF AddonInv, TakenOut
  <2>2. Matched(n) /\ (Sheet(n).strict => PrefIsTrue)
    BY <1>3, <1>6, <2>1 DEF Matched, ProjectTerms, PrefIsTrue
  <2> QED BY <1>6, <2>1, <2>2 DEF AppliedAddons
<1>7. \A n \in S : Sheet(n).tools \subseteq AllowedTools(S)
  BY DEF AllowedTools
<1> QED BY <1>2, <1>4, <1>5, <1>6, <1>7

(* For any addons, commands given one after another and killed anywhere:   *)
(* a worker is told what the finished commands asked for, each addon that  *)
(* may speak once, in the order of places, priorities and names.           *)
THEOREM WorkersTold == ~ Overlap /\ CfgSpec => []WorkersAsAsked
<1>1. CfgInit => CfgInv /\ AddonInv /\ TakenOut
  <2> SUFFICES ASSUME CfgInit PROVE CfgInv /\ AddonInv /\ TakenOut
    OBVIOUS
  <2>1. CfgInv /\ AddonInv
    BY CfgStarts
  <2>2. PICK s \in Starts :
           had = s.copies \cup (IF s.file = Absent THEN {} ELSE s.file.addons)
    BY DEF CfgInit
  <2>3. s.copies \subseteq Addons /\ (s.file # Absent => s.file.addons \subseteq Addons)
    BY ConfigAssumption DEF Config
  <2> QED BY <2>1, <2>2, <2>3 DEF TakenOut, CfgInit
<1>2. CASE ~ Overlap
  <2>1. CfgInv /\ [CfgNext]_cfgVars => CfgInv'
    BY <1>2, CfgStep
  <2>2. CfgInv /\ AddonInv /\ [CfgNext]_cfgVars => AddonInv'
    BY <1>2, AddonStep
  <2>3. CfgInv /\ AddonInv /\ TakenOut /\ [CfgNext]_cfgVars => TakenOut'
    BY <1>2, TakenStep
  <2> QED BY <1>1, <2>1, <2>2, <2>3, WorkersHold, PTL DEF CfgSpec
<1> QED BY <1>2

-----------------------------------------------------------------------------
(* Numbers and sequences, for the two loops of RuleGate's merge            *)

(* A set of numbers has a least one. *)
LEMMA Least ==
  ASSUME NEW T, T \subseteq Nat, T # {}
  PROVE  \E x \in T : \A y \in T : x <= y
<1> DEFINE Less == {ss \in Nat \X Nat : ss[1] < ss[2]}
<1>1. IsWellFoundedOn(Less, Nat)
  <2>1. Less = OpToRel(<, Nat)
    BY DEF OpToRel
  <2> QED BY <2>1, NatLessThanWellFounded
<1>2. \E x \in T : \A y \in T : ~ (<<y, x>> \in Less)
  <2> HIDE DEF Less
  <2> QED BY <1>1, WFMin
<1>3. PICK x \in T : \A y \in T : ~ (<<y, x>> \in Less)
  BY <1>2
<1>4. ASSUME NEW y \in T PROVE x <= y
  <2>1. ~(<<y, x>> \in Less) /\ y \in Nat /\ x \in Nat
    BY <1>3
  <2>2. ~ (y < x)
    BY <2>1
  <2> QED BY <2>1, <2>2
<1> QED BY <1>4

(* Induction, over a set. *)
LEMMA AllNumbers ==
  ASSUME NEW G, 0 \in G, \A n \in Nat : n \in G => n + 1 \in G
  PROVE  Nat \subseteq G
<1> SUFFICES ASSUME Nat \ G # {} PROVE FALSE
  OBVIOUS
<1>1. PICK n \in Nat \ G : \A m \in Nat \ G : n <= m
  <2>1. Nat \ G \subseteq Nat OBVIOUS
  <2> QED BY <2>1, Least
<1>2. n - 1 \in Nat /\ n - 1 \in G
  <2>1. n # 0 /\ n \in Nat
    BY <1>1
  <2>2. n - 1 \in Nat /\ ~(n <= n - 1)
    BY <2>1
  <2> QED BY <2>2, <1>1
<1>3. (n - 1) + 1 = n
  BY <1>2, <1>1
<1> QED BY <1>1, <1>2, <1>3

(* ToSet of what sequences are made of. *)
LEMMA ToSetFacts ==
  ASSUME NEW S
  PROVE  /\ ToSet(<<>>) = {} /\ <<>> \in Seq(S)
         /\ \A s \in Seq(S), e \in S : ToSet(Append(s, e)) = ToSet(s) \cup {e} /\ Append(s, e) \in Seq(S)
         /\ \A s, t \in Seq(S) : ToSet(s \o t) = ToSet(s) \cup ToSet(t) /\ s \o t \in Seq(S)
         /\ \A s \in Seq(S) : ToSet(s) \subseteq S
<1>1. ASSUME NEW s \in Seq(S), NEW e \in S
      PROVE  ToSet(Append(s, e)) = ToSet(s) \cup {e} /\ Append(s, e) \in Seq(S)
  <2>1. /\ Append(s, e) \in Seq(S) /\ Len(Append(s, e)) = Len(s) + 1 /\ Len(s) \in Nat
        /\ DOMAIN Append(s, e) = 1 .. Len(s) + 1 /\ DOMAIN s = 1 .. Len(s)
        /\ \A i \in 1 .. Len(s) : Append(s, e)[i] = s[i]
        /\ Append(s, e)[Len(s) + 1] = e
    OBVIOUS
  <2>2. \A i \in 1 .. Len(s) + 1 : i \in 1 .. Len(s) \/ i = Len(s) + 1
    BY <2>1
  <2>3. Len(s) + 1 \in 1 .. Len(s) + 1 /\ 1 .. Len(s) \subseteq 1 .. Len(s) + 1
    BY <2>1
  <2> QED BY <2>1, <2>2, <2>3 DEF ToSet
<1>2. ASSUME NEW s \in Seq(S), NEW t \in Seq(S)
      PROVE  ToSet(s \o t) = ToSet(s) \cup ToSet(t) /\ s \o t \in Seq(S)
  <2>1. /\ s \o t \in Seq(S) /\ Len(s) \in Nat /\ Len(t) \in Nat
        /\ DOMAIN (s \o t) = 1 .. Len(s) + Len(t) /\ DOMAIN s = 1 .. Len(s) /\ DOMAIN t = 1 .. Len(t)
        /\ \A i \in 1 .. Len(s) : (s \o t)[i] = s[i]
        /\ \A i \in 1 .. Len(s) + Len(t) : i > Len(s) => (s \o t)[i] = t[i - Len(s)]
    OBVIOUS
  <2>2. \A i \in 1 .. Len(t) : Len(s) + i \in 1 .. Len(s) + Len(t) /\ (s \o t)[Len(s) + i] = t[i]
    <3> TAKE i \in 1 .. Len(t)
    <3>1. Len(s) + i \in 1 .. Len(s) + Len(t) /\ Len(s) + i > Len(s) /\ (Len(s) + i) - Len(s) = i
      BY <2>1
    <3> QED BY <2>1, <3>1
  <2>3. \A i \in 1 .. Len(s) + Len(t) : i \in 1 .. Len(s) \/ (i > Len(s) /\ i - Len(s) \in 1 .. Len(t))
    BY <2>1
  <2>4. 1 .. Len(s) \subseteq 1 .. Len(s) + Len(t)
    BY <2>1
  <2>5. ToSet(s \o t) \subseteq ToSet(s) \cup ToSet(t)
    BY <2>1, <2>3 DEF ToSet
  <2>6. ToSet(s) \cup ToSet(t) \subseteq ToSet(s \o t)
    BY <2>1, <2>2, <2>4, SMTT(30) DEF ToSet
  <2> QED BY <2>1, <2>5, <2>6
<1>3. \A s \in Seq(S) : ToSet(s) \subseteq S
  BY DEF ToSet
<1>4. ToSet(<<>>) = {} /\ <<>> \in Seq(S)
  BY DEF ToSet
<1> QED BY <1>1, <1>2, <1>3, <1>4

(* A part of a sequence. *)
LEMMA SubSeqFacts ==
  ASSUME NEW S, NEW s \in Seq(S), NEW m \in 1 .. Len(s) + 1, NEW n \in 0 .. Len(s)
  PROVE  SubSeq(s, m, n) \in Seq(S) /\ ToSet(SubSeq(s, m, n)) = {s[i] : i \in m .. n}
<1>1. Len(s) \in Nat /\ m \in Nat /\ n \in Nat
  OBVIOUS
<1>2. CASE m <= n
  <2>1. /\ SubSeq(s, m, n) \in Seq(S) /\ Len(SubSeq(s, m, n)) = n - m + 1
        /\ \A i \in 1 .. n - m + 1 : SubSeq(s, m, n)[i] = s[m + i - 1]
    BY <1>1, <1>2, SubSeqProperties
  <2>2. DOMAIN SubSeq(s, m, n) = 1 .. n - m + 1
    BY <2>1
  <2>3. \A i \in 1 .. n - m + 1 : m + i - 1 \in m .. n
    BY <1>1, <1>2
  <2>4. \A i \in m .. n : i - m + 1 \in 1 .. n - m + 1 /\ m + (i - m + 1) - 1 = i
    BY <1>1, <1>2
  <2>5. ToSet(SubSeq(s, m, n)) \subseteq {s[i] : i \in m .. n}
    BY <2>1, <2>2, <2>3 DEF ToSet
  <2>6. ASSUME NEW i \in m .. n PROVE s[i] \in ToSet(SubSeq(s, m, n))
    <3>1. i - m + 1 \in 1 .. n - m + 1 /\ SubSeq(s, m, n)[i - m + 1] = s[i]
      BY <2>1, <2>4
    <3> QED BY <2>2, <3>1 DEF ToSet
  <2> QED BY <2>1, <2>5, <2>6
<1>3. CASE ~ (m <= n)
  <2>1. SubSeq(s, m, n) = <<>>
    BY <1>1, <1>3, SubSeqEmpty
  <2>2. m .. n = {}
    BY <1>1, <1>3
  <2> QED BY <2>1, <2>2, ToSetFacts
<1> QED BY <1>2, <1>3

-----------------------------------------------------------------------------
(* kept is the loop of Others over the first N rules. *)
Keeps(kept, s, ids, N) ==
  kept = [n \in 0 .. N |->
            IF n = 0 THEN <<>>
            ELSE IF s[n].id \in ids THEN kept[n - 1] ELSE Append(kept[n - 1], s[n])]

(* One more rule. *)
LEMMA KeepsOn ==
  ASSUME NEW s, NEW ids, NEW n \in Nat, NEW f, Keeps(f, s, ids, n)
  PROVE  \E g : Keeps(g, s, ids, n + 1)
<1> DEFINE e == IF s[n + 1].id \in ids THEN f[n] ELSE Append(f[n], s[n + 1])
           g == [k \in 0 .. n + 1 |-> IF k = n + 1 THEN e ELSE f[k]]
<1> HIDE DEF e
<1>1. \A k \in 0 .. n : g[k] = f[k]
  OBVIOUS
<1>2. g[n + 1] = e
  OBVIOUS
<1>3. g = [k \in 0 .. n + 1 |-> g[k]]
  OBVIOUS
<1> HIDE DEF g
<1>4. ASSUME NEW k \in 0 .. n + 1
      PROVE g[k] = IF k = 0 THEN <<>>
                   ELSE IF s[k].id \in ids THEN g[k - 1] ELSE Append(g[k - 1], s[k])
  <2>1. CASE k = n + 1
    <3>1. n \in 0 .. n /\ k - 1 = n /\ k # 0
      BY <2>1
    <3> QED BY <2>1, <3>1, <1>1, <1>2 DEF e
  <2>2. CASE k # n + 1
    <3>1. k \in 0 .. n /\ (k # 0 => k - 1 \in 0 .. n)
      BY <2>2
    <3>2. f[k] = IF k = 0 THEN <<>>
                 ELSE IF s[k].id \in ids THEN f[k - 1] ELSE Append(f[k - 1], s[k])
      BY <3>1 DEF Keeps
    <3> QED BY <3>1, <3>2, <1>1
  <2> QED BY <2>1, <2>2
<1>5. Keeps(g, s, ids, n + 1)
  BY <1>3, <1>4 DEF Keeps
<1> QED BY <1>5

(* Others leaves the rules of other ids, and no more. *)
LEMMA OthersFacts ==
  ASSUME NEW S, NEW s \in Seq(S), NEW ids
  PROVE  /\ Others(s, ids) \in Seq(S)
         /\ ToSet(Others(s, ids)) = {r \in ToSet(s) : r.id \notin ids}
<1> DEFINE G == {n \in Nat : \E g : Keeps(g, s, ids, n)}
<1>1. Nat \subseteq G
  <2>1. 0 \in G
    <3>1. Keeps([k \in 0 .. 0 |-> <<>>], s, ids, 0)
      BY DEF Keeps
    <3> QED BY <3>1
  <2>2. \A n \in Nat : n \in G => n + 1 \in G
    BY KeepsOn
  <2> HIDE DEF G
  <2> QED BY <2>1, <2>2, AllNumbers
<1>2. Keeps(CHOOSE g : Keeps(g, s, ids, Len(s)), s, ids, Len(s))
  BY <1>1
<1>3. Others(s, ids) = (CHOOSE g : Keeps(g, s, ids, Len(s)))[Len(s)]
  BY Zenon DEF Others, Keeps
<1>4. PICK g : Keeps(g, s, ids, Len(s)) /\ Others(s, ids) = g[Len(s)]
  BY <1>2, <1>3
<1> DEFINE Left(n) == {s[i] : i \in {k \in 1 .. n : s[k].id \notin ids}}
           H == {n \in Nat : n <= Len(s) => g[n] \in Seq(S) /\ ToSet(g[n]) = Left(n)}
<1>5. 0 \in H
  <2>1. g[0] = <<>>
    BY <1>4 DEF Keeps
  <2>2. Left(0) = {}
    OBVIOUS
  <2> QED BY <2>1, <2>2, ToSetFacts
<1>6. ASSUME NEW n \in Nat, n \in H PROVE n + 1 \in H
  <2> SUFFICES ASSUME n + 1 <= Len(s)
               PROVE  g[n + 1] \in Seq(S) /\ ToSet(g[n + 1]) = Left(n + 1)
    OBVIOUS
  <2>1. n + 1 \in 1 .. Len(s) /\ n <= Len(s) /\ n + 1 \in 0 .. Len(s) /\ (n + 1) - 1 = n /\ n + 1 # 0
    OBVIOUS
  <2>2. g[n] \in Seq(S) /\ ToSet(g[n]) = Left(n) /\ s[n + 1] \in S
    BY <1>6, <2>1
  <2>3. g[n + 1] = IF s[n + 1].id \in ids THEN g[n] ELSE Append(g[n], s[n + 1])
    BY <1>4, <2>1 DEF Keeps
  <2>4. \A k \in 1 .. n + 1 : k \in 1 .. n \/ k = n + 1
    OBVIOUS
  <2>5. CASE s[n + 1].id \in ids
    <3>1. Left(n + 1) = Left(n)
      BY <2>4, <2>5
    <3> QED BY <2>2, <2>3, <2>5, <3>1
  <2>6. CASE s[n + 1].id \notin ids
    <3>1. Left(n + 1) = Left(n) \cup {s[n + 1]}
      BY <2>4, <2>6
    <3> HIDE DEF Left
    <3>2. /\ ToSet(Append(g[n], s[n + 1])) = ToSet(g[n]) \cup {s[n + 1]}
          /\ Append(g[n], s[n + 1]) \in Seq(S)
      BY <2>2, ToSetFacts
    <3> QED BY <2>2, <2>3, <2>6, <3>1, <3>2
  <2> QED BY <2>5, <2>6
<1>7. Len(s) \in H
  <2>1. Nat \subseteq H
    <3> HIDE DEF H
    <3> QED BY <1>5, <1>6, AllNumbers
  <2>2. Len(s) \in Nat
    OBVIOUS
  <2> HIDE DEF H
  <2> QED BY <2>1, <2>2
<1>8. Left(Len(s)) = {r \in ToSet(s) : r.id \notin ids}
  BY DEF ToSet
<1> QED BY <1>4, <1>7, <1>8

-----------------------------------------------------------------------------
(* The first rule of an id. *)
LEMMA FirstFacts ==
  ASSUME NEW S, NEW s \in Seq(S), NEW id, Named(s, id) # {}
  PROVE  /\ First(s, id) \in 1 .. Len(s) /\ s[First(s, id)].id = id
         /\ \A i \in 1 .. First(s, id) - 1 : s[i].id # id
<1>1. Named(s, id) \subseteq 1 .. Len(s) /\ Len(s) \in Nat
  BY DEF Named
<1>2. \E n \in Named(s, id) : \A k \in Named(s, id) : n <= k
  BY <1>1, Least
<1>3. First(s, id) \in Named(s, id) /\ \A k \in Named(s, id) : First(s, id) <= k
  BY <1>2 DEF First
<1>4. ASSUME NEW i \in 1 .. First(s, id) - 1 PROVE s[i].id # id
  <2>1. i \in 1 .. Len(s) /\ ~ (First(s, id) <= i)
    BY <1>1, <1>3
  <2> QED BY <1>3, <2>1 DEF Named
<1> QED BY <1>1, <1>3, <1>4 DEF Named

(* One rule of the project takes the place of all rules of its id. *)
LEMMA OverriddenFacts ==
  ASSUME NEW S, NEW acc \in Seq(S), NEW r \in S
  PROVE  /\ Overridden(acc, r) \in Seq(S)
         /\ ToSet(Overridden(acc, r)) = {q \in ToSet(acc) : q.id # r.id} \cup {r}
<1>1. DOMAIN acc = 1 .. Len(acc) /\ Len(acc) \in Nat
  OBVIOUS
<1>2. CASE Named(acc, r.id) = {}
  <2>1. \A q \in ToSet(acc) : q.id # r.id
    BY <1>2 DEF Named, ToSet
  <2>2. Append(acc, r) \in Seq(S) /\ ToSet(Append(acc, r)) = ToSet(acc) \cup {r}
    BY ToSetFacts
  <2>3. Overridden(acc, r) = Append(acc, r)
    BY <1>2 DEF Overridden
  <2> QED BY <2>1, <2>2, <2>3
<1>3. CASE Named(acc, r.id) # {}
  <2> DEFINE f == First(acc, r.id)
             head == SubSeq(acc, 1, f - 1)
             tail == SubSeq(acc, f + 1, Len(acc))
  <2>1. f \in 1 .. Len(acc) /\ acc[f].id = r.id /\ \A i \in 1 .. f - 1 : acc[i].id # r.id
    BY <1>3, FirstFacts
  <2>2. /\ 1 \in 1 .. Len(acc) + 1 /\ f - 1 \in 0 .. Len(acc)
        /\ f + 1 \in 1 .. Len(acc) + 1 /\ Len(acc) \in 0 .. Len(acc)
    BY <1>1, <2>1
  <2> HIDE DEF f
  <2>3. head \in Seq(S) /\ ToSet(head) = {acc[i] : i \in 1 .. f - 1}
    BY <2>2, SubSeqFacts
  <2>4. tail \in Seq(S) /\ ToSet(tail) = {acc[i] : i \in f + 1 .. Len(acc)}
    BY <2>2, SubSeqFacts
  <2>5. /\ Others(tail, {r.id}) \in Seq(S)
        /\ ToSet(Others(tail, {r.id})) = {q \in ToSet(tail) : q.id # r.id}
    <3>1. /\ Others(tail, {r.id}) \in Seq(S)
          /\ ToSet(Others(tail, {r.id})) = {q \in ToSet(tail) : q.id \notin {r.id}}
      <4> HIDE DEF tail
      <4> QED BY <2>4, OthersFacts
    <3> QED BY <3>1
  <2>6. Overridden(acc, r) = head \o <<r>> \o Others(tail, {r.id})
    BY <1>3 DEF Overridden, f
  <2> HIDE DEF head, tail
  <2>7. <<r>> \in Seq(S) /\ ToSet(<<r>>) = {r}
    BY DEF ToSet
  <2>8. head \o <<r>> \in Seq(S) /\ ToSet(head \o <<r>>) = ToSet(head) \cup {r}
    <3>1. \A s \in Seq(S) : ToSet(head \o s) = ToSet(head) \cup ToSet(s) /\ head \o s \in Seq(S)
      BY <2>3, ToSetFacts
    <3> QED BY ONLY <2>7, <3>1
  <2>9. /\ Overridden(acc, r) \in Seq(S)
        /\ ToSet(Overridden(acc, r)) = (ToSet(head) \cup {r}) \cup {q \in ToSet(tail) : q.id # r.id}
    <3>1. \A s \in Seq(S) : /\ ToSet((head \o <<r>>) \o s) = ToSet(head \o <<r>>) \cup ToSet(s)
                             /\ (head \o <<r>>) \o s \in Seq(S)
      BY <2>8, ToSetFacts
    <3> QED BY <2>5, <2>6, <2>8, <3>1, Zenon
  <2>10. {q \in ToSet(acc) : q.id # r.id} = ToSet(head) \cup {q \in ToSet(tail) : q.id # r.id}
    <3>1. \A i \in 1 .. Len(acc) : i \in 1 .. f - 1 \/ i = f \/ i \in f + 1 .. Len(acc)
      BY <1>1, <2>1
    <3>2. 1 .. f - 1 \subseteq 1 .. Len(acc) /\ f + 1 .. Len(acc) \subseteq 1 .. Len(acc)
      BY <1>1, <2>1
    <3>3. ASSUME NEW q \in ToSet(acc), q.id # r.id
          PROVE  q \in ToSet(head) \/ q \in ToSet(tail)
      <4>1. PICK i \in 1 .. Len(acc) : q = acc[i]
        BY <1>1 DEF ToSet
      <4> QED BY <2>1, <2>3, <2>4, <3>1, <3>3, <4>1
    <3>4. ASSUME NEW q \in ToSet(head) PROVE q \in ToSet(acc) /\ q.id # r.id
      BY <1>1, <2>1, <2>3, <3>2 DEF ToSet
    <3>5. ASSUME NEW q \in ToSet(tail) PROVE q \in ToSet(acc)
      BY <1>1, <2>4, <3>2 DEF ToSet
    <3> QED BY <3>3, <3>4, <3>5
  <2> QED BY <2>9, <2>10
<1> QED BY <1>2, <1>3

(* merged is the loop of Merge over the first N rules of the project. *)
Merges(merged, global, project, N) ==
  merged = [n \in 0 .. N |-> IF n = 0 THEN global ELSE Overridden(merged[n - 1], project[n])]

(* One more rule of the project. *)
LEMMA MergesOn ==
  ASSUME NEW global, NEW project, NEW n \in Nat, NEW f, Merges(f, global, project, n)
  PROVE  \E g : Merges(g, global, project, n + 1)
<1> DEFINE g == [k \in 0 .. n + 1 |-> IF k = n + 1 THEN Overridden(f[n], project[n + 1]) ELSE f[k]]
<1>1. \A k \in 0 .. n : g[k] = f[k]
  OBVIOUS
<1>2. g[n + 1] = Overridden(f[n], project[n + 1])
  OBVIOUS
<1>3. g = [k \in 0 .. n + 1 |-> g[k]]
  OBVIOUS
<1> HIDE DEF g
<1>4. ASSUME NEW k \in 0 .. n + 1
      PROVE g[k] = IF k = 0 THEN global ELSE Overridden(g[k - 1], project[k])
  <2>1. CASE k = n + 1
    <3>1. n \in 0 .. n /\ k - 1 = n /\ k # 0
      BY <2>1
    <3> QED BY <2>1, <3>1, <1>1, <1>2
  <2>2. CASE k # n + 1
    <3>1. k \in 0 .. n /\ (k # 0 => k - 1 \in 0 .. n)
      BY <2>2
    <3>2. f[k] = IF k = 0 THEN global ELSE Overridden(f[k - 1], project[k])
      BY <3>1 DEF Merges
    <3> QED BY <3>1, <3>2, <1>1
  <2> QED BY <2>1, <2>2
<1>5. Merges(g, global, project, n + 1)
  BY <1>3, <1>4 DEF Merges
<1> QED BY <1>5

(* The rules that count after the first n rules of the project. *)
CountingTo(global, project, n) ==
  {r \in ToSet(global) : \A k \in 1 .. n : r.id # project[k].id}
  \cup {project[k] : k \in {k \in 1 .. n : \A m \in k + 1 .. n : project[m].id # project[k].id}}

(* For any two layers: the merge keeps the project's last rule of an id    *)
(* and every global rule whose id the project does not have, and nothing   *)
(* else, whatever is overridden, repeated or appended on the way.          *)
THEOREM MergeCounts ==
  ASSUME NEW S, NEW global \in Seq(S), NEW project \in Seq(S)
  PROVE  /\ Merge(global, project) \in Seq(S)
         /\ ToSet(Merge(global, project)) = Counting(global, project)
<1> DEFINE G == {n \in Nat : \E g : Merges(g, global, project, n)}
<1>0. Len(project) \in Nat /\ DOMAIN project = 1 .. Len(project)
  OBVIOUS
<1>1. Nat \subseteq G
  <2>1. 0 \in G
    <3>1. Merges([k \in 0 .. 0 |-> global], global, project, 0)
      BY DEF Merges
    <3> QED BY <3>1
  <2>2. \A n \in Nat : n \in G => n + 1 \in G
    BY MergesOn
  <2> HIDE DEF G
  <2> QED BY <2>1, <2>2, AllNumbers
<1>2. Merges(CHOOSE g : Merges(g, global, project, Len(project)), global, project, Len(project))
  BY <1>1
<1>3. Merge(global, project)
        = (CHOOSE g : Merges(g, global, project, Len(project)))[Len(project)]
  BY Zenon DEF Merge, Merges
<1>4. PICK g : /\ Merges(g, global, project, Len(project))
               /\ Merge(global, project) = g[Len(project)]
  BY <1>2, <1>3
<1> DEFINE H == {n \in Nat : n <= Len(project) =>
                   g[n] \in Seq(S) /\ ToSet(g[n]) = CountingTo(global, project, n)}
<1>5. 0 \in H
  <2>1. g[0] = global
    BY <1>0, <1>4 DEF Merges
  <2>2. CountingTo(global, project, 0) = ToSet(global)
    BY DEF CountingTo
  <2> QED BY <2>1, <2>2
<1>6. ASSUME NEW n \in Nat, n \in H PROVE n + 1 \in H
  <2> SUFFICES ASSUME n + 1 <= Len(project)
               PROVE  /\ g[n + 1] \in Seq(S)
                      /\ ToSet(g[n + 1]) = CountingTo(global, project, n + 1)
    OBVIOUS
  <2>1. /\ n + 1 \in 1 .. Len(project) /\ n <= Len(project) /\ n + 1 \in 0 .. Len(project)
        /\ (n + 1) - 1 = n /\ n + 1 # 0
    BY <1>0
  <2>2. g[n] \in Seq(S) /\ ToSet(g[n]) = CountingTo(global, project, n) /\ project[n + 1] \in S
    BY <1>6, <2>1
  <2>3. g[n + 1] = Overridden(g[n], project[n + 1])
    BY <1>4, <2>1 DEF Merges
  <2>4. /\ g[n + 1] \in Seq(S)
        /\ ToSet(g[n + 1]) = {q \in ToSet(g[n]) : q.id # project[n + 1].id} \cup {project[n + 1]}
    <3>1. \A e \in S : /\ Overridden(g[n], e) \in Seq(S)
                       /\ ToSet(Overridden(g[n], e)) = {q \in ToSet(g[n]) : q.id # e.id} \cup {e}
      BY <2>2, OverriddenFacts
    <3> QED BY <2>2, <2>3, <3>1, Zenon
  <2>5. CountingTo(global, project, n + 1)
          = {q \in CountingTo(global, project, n) : q.id # project[n + 1].id} \cup {project[n + 1]}
    <3>1. \A k \in 1 .. n + 1 : k \in 1 .. n \/ k = n + 1
      OBVIOUS
    <3>2. 1 .. n \subseteq 1 .. n + 1 /\ n + 1 \in 1 .. n + 1
      OBVIOUS
    <3>3. \A k \in 1 .. n : \A m \in k + 1 .. n + 1 : m \in k + 1 .. n \/ m = n + 1
      OBVIOUS
    <3>4. \A k \in 1 .. n : k + 1 .. n \subseteq k + 1 .. n + 1 /\ n + 1 \in k + 1 .. n + 1
      OBVIOUS
    <3>5. (n + 1) + 1 .. n + 1 = {}
      OBVIOUS
    <3> QED BY <3>1, <3>2, <3>3, <3>4, <3>5 DEF CountingTo
  <2> QED BY <2>2, <2>4, <2>5
<1>7. Len(project) \in H
  <2>1. Nat \subseteq H
    <3> HIDE DEF H
    <3> QED BY <1>5, <1>6, AllNumbers
  <2> HIDE DEF H
  <2> QED BY <1>0, <2>1
<1>8. CountingTo(global, project, Len(project)) = Counting(global, project)
  <2>1. \A r : (r.id \notin Ids(project)) <=> \A k \in 1 .. Len(project) : r.id # project[k].id
    BY <1>0 DEF Ids, ToSet
  <2> QED BY <1>0, <2>1 DEF CountingTo, Counting
<1> QED BY <1>0, <1>4, <1>7, <1>8

-----------------------------------------------------------------------------
(* rules.json                                                              *)

Content == {NoLayer, TornLayer} \cup Seq(RuleSet)

LayersTyped == layer \in [Layers -> Content]

EditorTyped ==
  \/ editor = NoEdit
  \/ editor \in [at : {"read", "open", "fill", "compare", "load", "rename"},
                 edit : Edits, snap : Content]

HookTyped ==
  \/ hook = NoHook
  \/ hook \in [at : {"project", "global", "readGlobal", "readProject", "done"},
               call : Calls, read : Seq(RuleSet),
               verdict : {"none", "block", "error", "stateful", "warn", "approve"}]

(* What the hook at work has found out still holds as long as no editor    *)
(* has written.                                                            *)
HookKnows ==
  /\ hook.at \in {"global", "readGlobal", "readProject"} => layer["project"] # TornLayer
  /\ hook.at \in {"readGlobal", "readProject"} => layer["global"] # TornLayer
  /\ hook.at = "readProject" => hook.read = RulesOf(layer["global"])

RuleInv ==
  /\ LayersTyped /\ EditorTyped /\ HookTyped
  /\ ~ moved => HookKnows
  /\ VerdictExact

(* The rules of a layer. *)
LEMMA RulesTyped == \A c \in Content : RulesOf(c) \in Seq(RuleSet)
<1>1. <<>> \in Seq(RuleSet)
  OBVIOUS
<1> QED BY <1>1 DEF Content, RulesOf

(* Changing a rule where it stands leaves a sequence of rules. *)
LEMMA InPlace ==
  ASSUME NEW s \in Seq(RuleSet), NEW i \in 1 .. Len(s), NEW r \in RuleSet
  PROVE  [s EXCEPT ![i] = r] \in Seq(RuleSet)
BY ExceptSeq

(* Whatever an edit makes of a layer is content of a layer. *)
LEMMA EditedTyped ==
  ASSUME NEW e \in Edits, NEW c \in Content
  PROVE  Edited(e, c) \in Content
<1> DEFINE was == RulesOf(c)
<1>1. was \in Seq(RuleSet)
  BY RulesTyped
<1>2. /\ e.op \in {"init", "sync", "add", "remove", "set", "replace"}
      /\ e.rule \in RuleSet /\ e.to \in BOOLEAN
      /\ DefaultRules \in Seq(RuleSet)
  BY RuleAssumption
<1>3. TornLayer \in Content /\ Seq(RuleSet) \subseteq Content
  BY DEF Content
<1> HIDE DEF was
<1>4. DefaultRules \o Others(was, Ids(DefaultRules)) \in Seq(RuleSet)
  <2>1. Others(was, Ids(DefaultRules)) \in Seq(RuleSet)
    BY <1>1, OthersFacts
  <2> QED BY <1>2, <2>1
<1>5. Append(was, e.rule) \in Seq(RuleSet)
  BY <1>1, <1>2
<1>6. Others(was, {e.id}) \in Seq(RuleSet)
  BY <1>1, OthersFacts
<1>7. ASSUME Named(was, e.id) # {}
      PROVE  /\ [was EXCEPT ![First(was, e.id)].enabled = e.to] \in Seq(RuleSet)
             /\ [was EXCEPT ![First(was, e.id)] = e.rule] \in Seq(RuleSet)
  <2>1. PICK i \in 1 .. Len(was) : i = First(was, e.id)
    BY <1>1, <1>7, FirstFacts
  <2>2. was[i] \in RuleSet
    BY <1>1
  <2>3. PICK r \in RuleSet : r = [was[i] EXCEPT !.enabled = e.to]
    BY <1>2, <2>2, RuleAssumption
  <2>4. [was EXCEPT ![i] = r] \in Seq(RuleSet) /\ [was EXCEPT ![i] = e.rule] \in Seq(RuleSet)
    BY <1>1, <1>2, InPlace
  <2>5. [was EXCEPT ![i].enabled = e.to] = [was EXCEPT ![i] = r]
    BY <2>3
  <2> QED BY <2>1, <2>4, <2>5
<1>8. CASE e.op = "init"
  BY <1>2, <1>3, <1>8 DEF Edited
<1>9. CASE e.op = "sync"
  BY <1>3, <1>4, <1>9 DEF Edited, was
<1>10. CASE e.op = "add"
  BY <1>3, <1>5, <1>10 DEF Edited, was
<1>11. CASE e.op = "remove"
  BY <1>3, <1>6, <1>11 DEF Edited, was
<1>12. CASE e.op = "set"
  BY <1>3, <1>7, <1>12 DEF Edited, was
<1>13. CASE e.op = "replace"
  BY <1>3, <1>7, <1>13 DEF Edited, was
<1> QED BY <1>2, <1>8, <1>9, <1>10, <1>11, <1>12, <1>13

(* Over readable layers the answer denies exactly when a rule that counts  *)
(* bars the call.                                                          *)
LEMMA DecideExact ==
  ASSUME LayersTyped, NEW c
  PROVE  LET v == Decide(c, Merge(RulesOf(layer["global"]), RulesOf(layer["project"])))
         IN  v \in {"block", "error"} <=> Bars(layer, c)
<1> DEFINE g == RulesOf(layer["global"])
           p == RulesOf(layer["project"])
<1>1. g \in Seq(RuleSet) /\ p \in Seq(RuleSet)
  BY RulesTyped DEF LayersTyped, Layers
<1>2. ToSet(Merge(g, p)) = Counting(g, p)
  <2> HIDE DEF g, p
  <2> QED BY <1>1, MergeCounts
<1>3. Bars(layer, c) <=> \E r \in ToSet(Merge(g, p)) : Applies(r, c) /\ r.action = "block" /\ ~ Skips(r, c)
  BY <1>2 DEF Bars
<1> HIDE DEF g, p
<1>4. Decide(c, Merge(g, p)) \in {"block", "error"}
        <=> \E r \in ToSet(Merge(g, p)) : Applies(r, c) /\ r.action = "block" /\ ~ Skips(r, c)
  BY DEF Decide
<1> QED BY <1>3, <1>4 DEF g, p

(* What a hook answers is an answer. *)
LEMMA DecideTyped ==
  ASSUME NEW c, NEW rules
  PROVE  Decide(c, rules) \in {"block", "stateful", "warn", "approve"}
BY DEF Decide

(* An editor's step that writes a layer: from here on the hook's answer is *)
(* not compared with the layers.                                           *)
LEMMA WriteKeeps ==
  ASSUME RuleInv, NEW l, NEW c \in Content, Put(l, c), EditorTyped', UNCHANGED hook
  PROVE  RuleInv'
<1>1. LayersTyped'
  BY DEF RuleInv, LayersTyped, Put
<1>2. moved' /\ HookTyped'
  BY DEF RuleInv, HookTyped, Put
<1> QED BY <1>1, <1>2 DEF RuleInv, VerdictExact

(* A step that writes no layer and is no hook's. *)
LEMMA BystandsKeeps ==
  ASSUME RuleInv, UNCHANGED <<layer, moved, hook>>, EditorTyped'
  PROVE  RuleInv'
BY DEF RuleInv, LayersTyped, HookTyped, HookKnows, VerdictExact, Bars

(* The editors. *)
LEMMA EditorStep ==
  ASSUME RuleInv,
         Give \/ CliRead \/ CliOpen \/ CliFill \/ PageRules \/ PageStamp
         \/ UiCompare \/ UiLoad \/ UiRename \/ EditorKilled
  PROVE  RuleInv'
<1> USE DEF onDisk
<1>1. EditorTyped /\ LayersTyped
  BY DEF RuleInv
<1>2. \A e \in Edits : e.layer \in Layers
  BY RuleAssumption
<1>3. CASE Give
  <2>1. EditorTyped'
    <3>1. PICK e \in Edits : editor' = [at |-> IF e.by = "ui" THEN "compare" ELSE "read",
                                        edit |-> e, snap |-> NoLayer]
      BY <1>3 DEF Give
    <3>2. NoLayer \in Content
      BY DEF Content
    <3>3. CASE e.by = "ui"
      BY <3>1, <3>2, <3>3 DEF EditorTyped
    <3>4. CASE e.by # "ui"
      BY <3>1, <3>2, <3>4 DEF EditorTyped
    <3> QED BY <3>3, <3>4
  <2> QED BY <1>3, <2>1, BystandsKeeps DEF Give
<1>4. CASE CliRead
  <2>1. EditorTyped'
    <3>1. editor # NoEdit
      BY <1>4 DEF CliRead, NoEdit
    <3>2. editor.edit.layer \in Layers
      BY <1>1, <1>2, <3>1 DEF EditorTyped
    <3>3. PICK was \in Content : was = layer[editor.edit.layer]
      BY <1>1, <3>2 DEF LayersTyped
    <3>4. editor' = NoEdit \/ editor' = [editor EXCEPT !.at = "open", !.snap = was]
      BY <1>4, <3>3 DEF CliRead
    <3> QED BY <1>1, <3>1, <3>4 DEF EditorTyped
  <2> QED BY <1>4, <2>1, BystandsKeeps DEF CliRead
<1>5. CASE CliOpen
  <2>1. EditorTyped'
    BY <1>1, <1>5 DEF EditorTyped, CliOpen, NoEdit
  <2>2. TornLayer \in Content
    BY DEF Content
  <2> QED BY <1>5, <2>1, <2>2, WriteKeeps DEF CliOpen
<1>6. CASE CliFill
  <2>1. Edited(editor.edit, editor.snap) \in Content
    BY <1>1, <1>6, EditedTyped DEF EditorTyped, CliFill, NoEdit
  <2>2. EditorTyped'
    BY <1>6 DEF EditorTyped, CliFill, Finish
  <2> QED BY <1>6, <2>1, <2>2, WriteKeeps DEF CliFill, Finish
<1>7. CASE PageRules
  BY <1>1, <1>7, BystandsKeeps DEF PageRules, EditorTyped
<1>8. CASE PageStamp
  BY <1>1, <1>8, BystandsKeeps DEF PageStamp, EditorTyped
<1>9. CASE UiCompare
  <2>1. EditorTyped'
    BY <1>1, <1>9 DEF EditorTyped, UiCompare, NoEdit
  <2> QED BY <1>9, <2>1, BystandsKeeps DEF UiCompare
<1>10. CASE UiLoad
  <2>1. EditorTyped'
    <3>1. PICK was \in Content : was = layer["project"]
      BY <1>1 DEF LayersTyped, Layers
    <3>2. editor' = NoEdit \/ editor' = [editor EXCEPT !.at = "rename", !.snap = was]
      BY <1>10, <3>1 DEF UiLoad
    <3>3. editor # NoEdit
      BY <1>10 DEF UiLoad, NoEdit
    <3> QED BY <1>1, <3>2, <3>3 DEF EditorTyped
  <2> QED BY <1>10, <2>1, BystandsKeeps DEF UiLoad
<1>11. CASE UiRename
  <2>1. Edited(editor.edit, editor.snap) \in Content
    BY <1>1, <1>11, EditedTyped DEF EditorTyped, UiRename, NoEdit
  <2>2. EditorTyped'
    BY <1>11 DEF EditorTyped, UiRename, Finish
  <2> QED BY <1>11, <2>1, <2>2, WriteKeeps DEF UiRename, Finish
<1>12. CASE EditorKilled
  <2>1. EditorTyped'
    BY <1>12 DEF EditorTyped, EditorKilled
  <2> QED BY <1>12, <2>1, BystandsKeeps DEF EditorKilled
<1> QED BY <1>3, <1>4, <1>5, <1>6, <1>7, <1>8, <1>9, <1>10, <1>11, <1>12

(* A hook starts: it has found out nothing yet, and a payload it denies    *)
(* unread is not readable.                                                 *)
LEMMA StartStep ==
  ASSUME RuleInv, HookStart
  PROVE  RuleInv'
<1>1. LayersTyped' /\ EditorTyped'
  BY DEF RuleInv, LayersTyped, EditorTyped, HookStart, editing
<1>2. PICK c \in Calls :
        hook' = [at |-> IF c.hook = "enforce" /\ ~ c.readable THEN "done" ELSE "project",
                 call |-> c, read |-> <<>>,
                 verdict |-> IF c.readable THEN "none" ELSE "block"]
  BY DEF HookStart
<1>3. <<>> \in Seq(RuleSet)
  OBVIOUS
<1>4. CASE c.hook = "enforce" /\ ~ c.readable
  BY <1>1, <1>2, <1>3, <1>4 DEF RuleInv, HookTyped, HookKnows, VerdictExact
<1>5. CASE ~ (c.hook = "enforce" /\ ~ c.readable)
  <2>1. hook'.at = "project"
    BY <1>2, <1>5
  <2>2. HookTyped'
    <3>1. CASE c.readable
      BY <1>2, <1>3, <1>5, <3>1 DEF HookTyped
    <3>2. CASE ~ c.readable
      BY <1>2, <1>3, <1>5, <3>2 DEF HookTyped
    <3> QED BY <3>1, <3>2
  <2> QED BY <1>1, <2>1, <2>2 DEF RuleInv, HookKnows, VerdictExact
<1> QED BY <1>4, <1>5

(* A hook goes on or answers. *)
LEMMA HookStep ==
  ASSUME RuleInv,
         CheckLayer("project", "global") \/ CheckLayer("global", "readGlobal")
         \/ ReadGlobal \/ ReadProject
  PROVE  RuleInv'
<1>1. LayersTyped' /\ EditorTyped'
  BY DEF RuleInv, LayersTyped, EditorTyped, CheckLayer, ReadGlobal, ReadProject, editing
<1>2. UNCHANGED <<layer, moved>>
  BY DEF CheckLayer, ReadGlobal, ReadProject, editing
<1>3. hook # NoHook /\ HookTyped /\ LayersTyped
  BY DEF RuleInv, CheckLayer, ReadGlobal, ReadProject, NoHook
<1>4. ASSUME NEW l \in Layers, hook.at = l, layer[l] = TornLayer,
             Answer(IF hook.call.hook = "enforce" THEN "block" ELSE "error")
      PROVE  RuleInv'
  <2>1. PICK v \in {"block", "error"} : hook' = [hook EXCEPT !.at = "done", !.verdict = v]
    BY <1>4 DEF Answer
  <2>2. HookTyped' /\ hook'.at = "done" /\ hook'.verdict = v
    BY <1>3, <2>1 DEF HookTyped
  <2>3. TornLayer \in {layer'[m] : m \in Layers}
    BY <1>2, <1>4
  <2>4. VerdictExact'
    BY <2>2, <2>3 DEF VerdictExact
  <2> QED BY <1>1, <2>2, <2>4 DEF RuleInv, HookKnows
<1>5. CASE CheckLayer("project", "global")
  <2>1. CASE layer["project"] = TornLayer
    BY <1>4, <1>5, <2>1 DEF CheckLayer, Layers
  <2>2. CASE layer["project"] # TornLayer
    <3>1. hook' = [hook EXCEPT !.at = "global"]
      BY <1>5, <2>2 DEF CheckLayer
    <3>2. HookTyped' /\ hook'.at = "global"
      BY <1>3, <3>1 DEF HookTyped
    <3> QED BY <1>1, <1>2, <2>2, <3>2 DEF RuleInv, HookKnows, VerdictExact
  <2> QED BY <2>1, <2>2
<1>6. CASE CheckLayer("global", "readGlobal")
  <2>1. CASE layer["global"] = TornLayer
    BY <1>4, <1>6, <2>1 DEF CheckLayer, Layers
  <2>2. CASE layer["global"] # TornLayer
    <3>1. hook' = [hook EXCEPT !.at = "readGlobal"] /\ hook.at = "global"
      BY <1>6, <2>2 DEF CheckLayer
    <3>2. HookTyped' /\ hook'.at = "readGlobal"
      BY <1>3, <3>1 DEF HookTyped
    <3> QED BY <1>1, <1>2, <2>2, <3>1, <3>2 DEF RuleInv, HookKnows, VerdictExact
  <2> QED BY <2>1, <2>2
<1>7. CASE ReadGlobal
  <2>1. PICK g \in Seq(RuleSet) : g = RulesOf(layer["global"])
    BY <1>3, RulesTyped DEF LayersTyped, Layers
  <2>2. hook' = [hook EXCEPT !.at = "readProject", !.read = g] /\ hook.at = "readGlobal"
    BY <1>7, <2>1 DEF ReadGlobal, Lenient
  <2>3. HookTyped' /\ hook'.at = "readProject" /\ hook'.read = g
    BY <1>3, <2>2 DEF HookTyped
  <2> QED BY <1>1, <1>2, <2>1, <2>2, <2>3 DEF RuleInv, HookKnows, VerdictExact
<1>8. CASE ReadProject
  <2> DEFINE d == Decide(hook.call, Merge(hook.read, RulesOf(layer["project"])))
  <2>1. PICK v \in {"block", "stateful", "warn", "approve"} : v = d
    BY DecideTyped
  <2>2. hook' = [hook EXCEPT !.at = "done", !.verdict = v] /\ hook.at = "readProject"
    BY <1>8, <2>1 DEF ReadProject, Answer, Lenient
  <2>3. HookTyped' /\ hook'.at = "done" /\ hook'.verdict = v /\ hook'.call = hook.call
    BY <1>3, <2>2 DEF HookTyped
  <2>4. ASSUME ~ moved PROVE v \in {"block", "error"} <=> Bars(layer, hook.call)
    <3>1. hook.read = RulesOf(layer["global"])
      BY <2>2, <2>4 DEF RuleInv, HookKnows
    <3> QED BY <1>3, <2>1, <3>1, DecideExact
  <2>5. ASSUME ~ moved PROVE TornLayer \notin {layer[l] : l \in Layers}
    BY <2>2, <2>5 DEF RuleInv, HookKnows, Layers
  <2>6. Bars(layer, hook.call)' <=> Bars(layer, hook.call)
    BY <1>2, <2>3 DEF Bars
  <2>7. VerdictExact'
    BY <1>2, <2>3, <2>4, <2>5, <2>6 DEF VerdictExact
  <2> QED BY <1>1, <2>3, <2>7 DEF RuleInv, HookKnows
<1> QED BY <1>5, <1>6, <1>7, <1>8

(* The start, and every step. *)
LEMMA RulesStart == RuleInit => RuleInv
<1> SUFFICES ASSUME RuleInit PROVE RuleInv
  OBVIOUS
<1>1. layer \in [Layers -> Content]
  BY RuleAssumption DEF RuleInit, Content
<1> QED BY <1>1 DEF RuleInit, RuleInv, LayersTyped, EditorTyped, HookTyped, HookKnows,
                    VerdictExact, NoHook

LEMMA RulesStep == RuleInv /\ [RuleNext]_ruleVars => RuleInv'
<1> SUFFICES ASSUME RuleInv, [RuleNext]_ruleVars PROVE RuleInv'
  OBVIOUS
<1>1. CASE UNCHANGED ruleVars
  BY <1>1, BystandsKeeps DEF ruleVars, RuleInv, EditorTyped
<1>2. CASE RuleNext
  BY <1>2, EditorStep, StartStep, HookStep DEF RuleNext
<1> QED BY <1>1, <1>2

(* For any rules, edits and calls, an editor at work at any time or not: a *)
(* hook whose layers nobody wrote while it was deciding denies exactly     *)
(* when a layer cannot be read or a rule that counts bars the call.        *)
THEOREM VerdictsExact == RuleSpec => []VerdictExact
<1>1. RuleInv => VerdictExact
  BY DEF RuleInv
<1> QED BY <1>1, RulesStart, RulesStep, PTL DEF RuleSpec

(* What the page shows is what its stamp is of: the content of the file    *)
(* for as long as the stamp is the file's, and none where there was none.  *)
PageTyped ==
  /\ stamp \in [Layers -> Nat]
  /\ page \in [at : {"none", "rules", "shown"}, token : Nat \cup {NoStamp}]

PageKnows ==
  /\ page.at = "rules" => shown = layer["project"] /\ editor = NoEdit
  /\ page.at = "shown" =>
       IF page.token = NoStamp THEN shown = NoLayer
       ELSE /\ page.token <= stamp["project"]
            /\ page.token = stamp["project"] => shown = layer["project"]

\* How far an edit of the page is.
EditKnows ==
  /\ editor.at \in {"compare", "load", "rename"} => page.at = "shown"
  /\ editor.at = "load" => page.token \in {NoStamp, stamp["project"]}
  /\ editor.at = "rename" => shown \in {NoLayer, editor.snap}

PageInv == LayersTyped /\ EditorTyped /\ PageTyped /\ PageKnows /\ EditKnows /\ EditsSeen

(* A layer is written, by a command or by the page's own edit: its stamp   *)
(* goes up, and the page's stamp is none or an older one from then on.     *)
LEMMA PageWritten ==
  ASSUME PageInv, LayersTyped', EditorTyped', NEW l \in Layers, NEW c, Put(l, c),
         UNCHANGED <<page, shown>>, page.at # "rules",
         editor'.at \notin {"compare", "load", "rename"}, ~ blind'
  PROVE  PageInv'
<1>1. stamp \in [Layers -> Nat] /\ layer \in [Layers -> Content] /\ "project" \in Layers
  BY DEF PageInv, PageTyped, LayersTyped, Layers
<1>2. stamp' = [stamp EXCEPT ![l] = stamp[l] + 1] /\ layer' = [layer EXCEPT ![l] = c]
  BY DEF Put
<1>3. PageTyped'
  <2>1. stamp' \in [Layers -> Nat]
    BY <1>1, <1>2
  <2> QED BY <2>1 DEF PageInv, PageTyped
<1>4. \/ stamp'["project"] = stamp["project"] /\ layer'["project"] = layer["project"]
      \/ stamp'["project"] = stamp["project"] + 1
  BY <1>1, <1>2
<1>5. PageKnows'
  <2>1. PICK n \in Nat : n = stamp["project"]
    BY <1>1
  <2>2. PICK m \in Nat : m = stamp'["project"]
    BY <1>3 DEF PageTyped, Layers
  <2>3. page.token = NoStamp \/ page.token \in Nat
    BY DEF PageInv, PageTyped
  <2> QED BY <1>4, <2>1, <2>2, <2>3 DEF PageInv, PageKnows
<1> QED BY <1>3, <1>5 DEF PageInv, EditKnows, EditsSeen

(* One step of an editor or of the page.                                   *)
LEMMA PageStep ==
  ASSUME ~ Meanwhile, PageInv, LayersTyped', EditorTyped', RuleNext
  PROVE  PageInv'
<1> USE DEF onDisk
<1>1. "project" \in Layers /\ \A e \in Edits : e.layer \in Layers
  BY RuleAssumption DEF Layers
<1>2. EditorTyped /\ LayersTyped /\ stamp \in [Layers -> Nat] /\ ~ blind
  BY DEF PageInv, PageTyped, EditsSeen
<1>3. ASSUME UNCHANGED <<layer, stamp, page, shown, blind>>,
             editor' = editor \/ editor' = NoEdit \/ (page.at # "rules" /\ EditKnows')
      PROVE  PageInv'
  <2>1. PageTyped' /\ EditsSeen'
    BY <1>3 DEF PageInv, PageTyped, EditsSeen
  <2>2. PageKnows'
    BY <1>3 DEF PageInv, PageKnows
  <2>3. EditKnows'
    BY <1>3 DEF PageInv, EditKnows, NoEdit
  <2> QED BY <2>1, <2>2, <2>3 DEF PageInv
<1>4. CASE Give
  <2>1. PICK e \in Edits :
          /\ e.by = "ui" => page.at = "shown"
          /\ editor' = [at |-> IF e.by = "ui" THEN "compare" ELSE "read", edit |-> e, snap |-> NoLayer]
    BY <1>4 DEF Give
  <2>2. EditKnows'
    <3>1. CASE e.by = "ui"
      BY <1>4, <2>1, <3>1 DEF Give, EditKnows
    <3>2. CASE e.by # "ui"
      BY <2>1, <3>2 DEF EditKnows
    <3> QED BY <3>1, <3>2
  <2> QED BY <1>3, <1>4, <2>2 DEF Give
<1>5. ASSUME editor # NoEdit PROVE page.at # "rules"
  BY <1>5 DEF PageInv, PageKnows
<1>6. CASE CliRead
  <2>1. editor # NoEdit
    BY <1>6 DEF CliRead, NoEdit
  <2>2. PICK was : was = layer[editor.edit.layer]
    OBVIOUS
  <2>3. editor' = NoEdit \/ editor' = [editor EXCEPT !.at = "open", !.snap = was]
    BY <1>6, <2>2 DEF CliRead
  <2>4. editor'.at \in {"idle", "open"}
    <3>1. CASE editor' = NoEdit
      BY <3>1 DEF NoEdit
    <3>2. CASE editor' = [editor EXCEPT !.at = "open", !.snap = was]
      BY <1>2, <2>1, <3>2 DEF EditorTyped
    <3> QED BY <2>3, <3>1, <3>2
  <2>5. EditKnows'
    BY <2>4 DEF EditKnows
  <2> QED BY <1>3, <1>5, <1>6, <2>1, <2>5 DEF CliRead
<1>7. CASE CliOpen
  <2>1. editor # NoEdit /\ editor' = [editor EXCEPT !.at = "fill"]
    BY <1>7 DEF CliOpen, NoEdit
  <2>2. editor'.at = "fill" /\ editor.edit.layer \in Layers
    BY <1>1, <1>2, <2>1 DEF EditorTyped
  <2>3. Put(editor.edit.layer, TornLayer) /\ UNCHANGED <<page, shown, blind>>
    BY <1>7 DEF CliOpen
  <2> QED BY <1>2, <1>5, <2>1, <2>2, <2>3, PageWritten
<1>8. CASE CliFill
  <2>1. editor # NoEdit
    BY <1>8 DEF CliFill, NoEdit
  <2>2. editor'.at = "idle" /\ editor.edit.layer \in Layers
    BY <1>1, <1>2, <1>8, <2>1 DEF EditorTyped, CliFill, Finish, NoEdit
  <2>3. PICK c : Put(editor.edit.layer, c)
    BY <1>8 DEF CliFill, Finish
  <2>4. UNCHANGED <<page, shown, blind>>
    BY <1>8 DEF CliFill
  <2> QED BY <1>2, <1>5, <2>1, <2>2, <2>3, <2>4, PageWritten
<1>9. CASE PageRules
  <2>1. editor = NoEdit /\ shown' = layer["project"] /\ page' = [page EXCEPT !.at = "rules"]
        /\ UNCHANGED <<layer, stamp, editor, blind>>
    BY <1>9 DEF PageRules
  <2>2. PageTyped' /\ page'.at = "rules"
    BY <2>1 DEF PageInv, PageTyped
  <2> QED BY <2>1, <2>2 DEF PageInv, PageKnows, EditKnows, EditsSeen, NoEdit
<1>10. CASE PageStamp
  <2>1. PICK n \in Nat : n = stamp["project"]
    BY <1>1, <1>2
  <2>2. /\ page.at = "rules" /\ UNCHANGED <<layer, stamp, editor, shown, blind>>
        /\ page' = [at |-> "shown", token |-> IF layer["project"] = NoLayer THEN NoStamp ELSE n]
    BY <1>10, <2>1 DEF PageStamp
  <2>3. shown = layer["project"] /\ editor = NoEdit
    BY <2>2 DEF PageInv, PageKnows
  <2>4. EditKnows' /\ EditsSeen'
    BY <2>2, <2>3 DEF PageInv, EditKnows, EditsSeen, NoEdit
  <2>5. n # NoStamp
    BY RuleAssumption
  <2>6. PageTyped' /\ PageKnows'
    <3>1. CASE layer["project"] = NoLayer
      BY <2>2, <2>3, <3>1 DEF PageInv, PageTyped, PageKnows
    <3>2. CASE layer["project"] # NoLayer
      BY <2>1, <2>2, <2>3, <2>5, <3>2 DEF PageInv, PageTyped, PageKnows
    <3> QED BY <3>1, <3>2
  <2> QED BY <2>4, <2>6 DEF PageInv
<1>11. CASE UiCompare
  <2>1. editor.at = "compare" /\ editor # NoEdit
    BY <1>11 DEF UiCompare, NoEdit
  <2>2. EditKnows'
    <3>1. CASE page.token \notin {NoStamp, stamp["project"]}
      BY <1>11, <3>1 DEF UiCompare, EditKnows, NoEdit
    <3>2. CASE page.token \in {NoStamp, stamp["project"]}
      <4>1. editor' = [editor EXCEPT !.at = "load"] /\ UNCHANGED <<page, stamp, shown>>
        BY <1>11, <3>2 DEF UiCompare
      <4>2. editor'.at = "load" /\ page.at = "shown"
        BY <1>2, <2>1, <4>1 DEF EditorTyped, PageInv, EditKnows
      <4> QED BY <3>2, <4>1, <4>2 DEF EditKnows
    <3> QED BY <3>1, <3>2
  <2> QED BY <1>3, <1>5, <1>11, <2>1, <2>2 DEF UiCompare
<1>12. CASE UiLoad
  <2>1. editor.at = "load" /\ editor # NoEdit
    BY <1>12 DEF UiLoad, NoEdit
  <2>2. PICK was : was = layer["project"]
    OBVIOUS
  <2>3. page.at = "shown" /\ shown \in {NoLayer, was}
    BY <2>1, <2>2 DEF PageInv, PageKnows, EditKnows
  <2>4. editor' = NoEdit \/ editor' = [editor EXCEPT !.at = "rename", !.snap = was]
    BY <1>12, <2>2 DEF UiLoad
  <2>5. UNCHANGED <<page, stamp, shown>>
    BY <1>12 DEF UiLoad
  <2>6. EditKnows'
    <3>1. CASE editor' = NoEdit
      BY <3>1 DEF EditKnows, NoEdit
    <3>2. CASE editor' = [editor EXCEPT !.at = "rename", !.snap = was]
      <4>1. editor'.at = "rename" /\ editor'.snap = was
        BY <1>2, <2>1, <3>2 DEF EditorTyped
      <4> QED BY <2>3, <2>5, <4>1 DEF EditKnows
    <3> QED BY <2>4, <3>1, <3>2
  <2> QED BY <1>3, <1>5, <1>12, <2>1, <2>6 DEF UiLoad
<1>13. CASE UiRename
  <2>1. editor.at = "rename" /\ editor # NoEdit
    BY <1>13 DEF UiRename, NoEdit
  <2>2. shown \in {NoLayer, editor.snap}
    BY <2>1 DEF PageInv, EditKnows
  <2>3. ~ blind'
    BY <1>2, <1>13, <2>2 DEF UiRename
  <2>4. PICK c : Put("project", c)
    BY <1>13 DEF UiRename, Finish
  <2>5. editor'.at = "idle" /\ UNCHANGED <<page, shown>>
    BY <1>13 DEF UiRename, Finish, NoEdit
  <2> QED BY <1>1, <1>5, <2>1, <2>3, <2>4, <2>5, PageWritten
<1>14. CASE EditorKilled
  BY <1>3, <1>14 DEF EditorKilled
<1>15. CASE \/ HookStart \/ CheckLayer("project", "global") \/ CheckLayer("global", "readGlobal")
            \/ ReadGlobal \/ ReadProject
  BY <1>3, <1>15 DEF HookStart, CheckLayer, ReadGlobal, ReadProject, editing
<1> QED BY <1>4, <1>6, <1>7, <1>8, <1>9, <1>10, <1>11, <1>12, <1>13, <1>14, <1>15 DEF RuleNext

(* For any edits, the page's and the commands', while no hook is deciding: *)
(* what the page sends goes over the rules it shows, or nowhere.           *)
THEOREM PageSeen == ~ Meanwhile /\ RuleSpec => []EditsSeen
<1>1. RuleInit => PageInv
  <2> SUFFICES ASSUME RuleInit PROVE PageInv
    OBVIOUS
  <2>1. LayersTyped /\ EditorTyped
    BY RulesStart DEF RuleInv
  <2>2. stamp \in [Layers -> Nat] /\ page = [at |-> "none", token |-> NoStamp]
    BY DEF RuleInit
  <2> QED BY <2>1, <2>2 DEF RuleInit, PageInv, PageTyped, PageKnows, EditKnows, EditsSeen, NoEdit
<1>2. CASE ~ Meanwhile
  <2>1. RuleInv /\ [RuleNext]_ruleVars => RuleInv'
    BY RulesStep
  <2>2. RuleInv /\ PageInv /\ [RuleNext]_ruleVars => PageInv'
    <3> SUFFICES ASSUME RuleInv, PageInv, [RuleNext]_ruleVars PROVE PageInv'
      OBVIOUS
    <3>1. LayersTyped' /\ EditorTyped'
      BY RulesStep DEF RuleInv
    <3>2. CASE UNCHANGED ruleVars
      BY <3>1, <3>2 DEF ruleVars, PageInv, PageTyped, PageKnows, EditKnows, EditsSeen
    <3> QED BY <1>2, <3>1, <3>2, PageStep
  <2>3. PageInv => EditsSeen
    BY DEF PageInv
  <2> QED BY <1>1, <2>1, <2>2, <2>3, RulesStart, PTL DEF RuleSpec
<1> QED BY <1>2
-----------------------------------------------------------------------------
(* The waves, for every plan: dependencies on themselves, on nobody,       *)
(* identifiers repeated or missing.                                        *)
WavesSpec == WavesInit /\ [][WavesNext \/ (\E p : StartWaves(p))]_waveVars

(* Before the plan is read nothing is handed out, what is handed out has a  *)
(* name, and what the loop keeps is what has not been handed out: the loop  *)
(* tests only readiness, so this is why it never hands a task out twice.    *)
WavesInv ==
  /\ dag = "idle" => tasks = <<>> /\ completed = {}
  /\ NoId \notin completed
  /\ \A n \in remaining : n \in DOMAIN tasks /\ tasks[n].id \notin completed

(* The three conditions of WavesInv hold from the start and after each turn. *)
LEMMA WavesInvHolds == WavesSpec => []WavesInv
<1>1. WavesInit => WavesInv
  BY DEF WavesInit, WavesInv
<1>2. ASSUME WavesInv, [WavesNext \/ (\E p : StartWaves(p))]_waveVars
      PROVE  WavesInv'
  <2>1. CASE \E p : StartWaves(p)
    BY <2>1 DEF StartWaves, WavesInv
  <2>2. CASE TurnWave
    BY <1>2, <2>2 DEF TurnWave, WavesInv, IdsOf
  <2>3. CASE TurnBlocked
    BY <1>2, <2>3 DEF TurnBlocked, WavesInv
  <2>4. CASE PrintWaves
    BY <1>2, <2>4 DEF PrintWaves, WavesInv
  <2>5. CASE UNCHANGED waveVars
    BY <1>2, <2>5 DEF waveVars, WavesInv
  <2> QED  BY <1>2, <2>1, <2>2, <2>3, <2>4, <2>5 DEF WavesNext
<1> QED  BY <1>1, <1>2, PTL DEF WavesSpec

(* Each step of cmd_waves hands out tasks whose dependencies are all handed *)
(* out, adopts the plan, or is invisible in TaskOrder.                      *)
THEOREM WavesRefineOrder ==
  WavesSpec => Order!OrderInit /\ [][Order!Adopt \/ Order!HandOut]_Order!orderVars
<1>1. WavesInit => Order!OrderInit
  BY DEF WavesInit, Order!OrderInit
<1>2. ASSUME WavesInv, [WavesNext \/ (\E p : StartWaves(p))]_waveVars
      PROVE  [Order!Adopt \/ Order!HandOut]_Order!orderVars
  <2>1. CASE \E p : StartWaves(p)
    BY <1>2, <2>1 DEF StartWaves, WavesInv, Order!Adopt, Order!orderVars
  <2>2. CASE TurnWave
    <3>1. CASE IdsOf(Wave) = {}
      BY <2>2, <3>1 DEF TurnWave, Order!orderVars
    <3>2. CASE IdsOf(Wave) # {}
      <4>1. Wave \subseteq DOMAIN tasks
        BY <1>2 DEF Wave, WavesInv
      <4>2. IdsOf(Wave) \in SUBSET ({tasks[n].id : n \in DOMAIN tasks} \ {NoId})
        BY <4>1 DEF IdsOf
      <4>3. \A i \in IdsOf(Wave) : i \notin completed /\ Order!Startable(i)
        BY <1>2, <4>1 DEF IdsOf, Wave, Ready, WavesInv, Order!Startable
      <4>4. completed' = completed \cup IdsOf(Wave) /\ UNCHANGED tasks
        BY <2>2 DEF TurnWave
      <4> QED  BY <3>2, <4>2, <4>3, <4>4 DEF Order!HandOut
    <3> QED  BY <3>1, <3>2
  <2>3. CASE TurnBlocked \/ PrintWaves \/ UNCHANGED waveVars
    BY <2>3 DEF TurnBlocked, PrintWaves, waveVars, Order!orderVars
  <2> QED  BY <1>2, <2>1, <2>2, <2>3 DEF WavesNext
<1> QED  BY <1>1, <1>2, WavesInvHolds, PTL DEF WavesSpec

(* What is handed out is in a wave, the waves are sets of tasks of the plan, *)
(* and a turn only appends one.                                             *)
WavesHold ==
  /\ waves \in Seq(SUBSET DOMAIN tasks)
  /\ dag = "idle" => waves = <<>>
  /\ completed \subseteq {tasks[m].id : m \in UNION {waves[v] : v \in 1 .. Len(waves)}}

(* No task is in a wave before all it depends on is in earlier ones, however *)
(* the plan is made: a plan the loop cannot order ends as blocked, not as a *)
(* wave a worker may not start.                                             *)
THEOREM WavesInOrder == WavesSpec => []WavesOrdered
<1> DEFINE WInv == WavesInv /\ WavesHold /\ WavesOrdered
<1>1. WavesInit => WavesHold /\ WavesOrdered
  BY DEF WavesInit, WavesHold, WavesOrdered
<1>2. ASSUME WavesInv, WavesHold, WavesOrdered, [WavesNext \/ (\E p : StartWaves(p))]_waveVars
      PROVE  WavesHold' /\ WavesOrdered'
  <2>1. CASE \E p : StartWaves(p)
    BY <2>1 DEF StartWaves, WavesHold, WavesOrdered
  <2>2. CASE TurnWave
    <3> DEFINE n == Len(waves)
    <3>1. /\ waves \in Seq(SUBSET DOMAIN tasks) /\ n \in Nat /\ tasks' = tasks /\ waves' = Append(waves, Wave)
          /\ dag = "turning" /\ dag' = dag /\ completed' = completed \cup IdsOf(Wave)
      BY <1>2, <2>2 DEF TurnWave, WavesHold
    <3>2. Wave \subseteq DOMAIN tasks
      BY <1>2 DEF Wave, WavesInv
    <3>3. /\ waves' \in Seq(SUBSET DOMAIN tasks) /\ Len(waves') = n + 1 /\ waves'[n + 1] = Wave
          /\ \A v \in 1 .. n : waves'[v] = waves[v]
      BY <3>1, <3>2
    <3>4. completed' \subseteq {tasks[m].id : m \in UNION {waves'[v] : v \in 1 .. n + 1}}
      <4>1. ASSUME NEW i \in completed
            PROVE  \E m \in UNION {waves'[v] : v \in 1 .. n + 1} : i = tasks[m].id
        <5>1. PICK v \in 1 .. n : \E m \in waves[v] : i = tasks[m].id
          BY <1>2, <4>1 DEF WavesHold
        <5>2. v \in 1 .. n + 1 /\ waves'[v] = waves[v]
          BY <3>1, <3>3, <5>1
        <5> QED BY <5>1, <5>2
      <4>2. ASSUME NEW i \in IdsOf(Wave)
            PROVE  \E m \in UNION {waves'[v] : v \in 1 .. n + 1} : i = tasks[m].id
        <5>1. n + 1 \in 1 .. n + 1
          BY <3>1
        <5> QED BY <3>3, <4>2, <5>1 DEF IdsOf
      <4> QED BY <3>1, <4>1, <4>2
    <3>5. WavesHold'
      BY <3>1, <3>3, <3>4 DEF WavesHold
    <3>6. ASSUME NEW w \in 1 .. n + 1, NEW k \in waves'[w]
          PROVE  tasks[k].deps \subseteq {tasks[m].id : m \in UNION {waves'[v] : v \in 1 .. w - 1}}
      <4>1. \A v \in 1 .. w - 1 : v \in 1 .. n /\ waves'[v] = waves[v]
        BY <3>1, <3>3
      <4>2. {waves'[v] : v \in 1 .. w - 1} = {waves[v] : v \in 1 .. w - 1}
        BY <4>1
      <4>3. CASE w \in 1 .. n
        BY <1>2, <3>3, <3>6, <4>2, <4>3 DEF WavesOrdered
      <4>4. CASE w = n + 1
        <5>1. tasks[k].deps \subseteq completed
          BY <3>3, <3>6, <4>4 DEF Wave, Ready
        <5>2. w - 1 = n
          BY <3>1, <4>4
        <5> QED BY <1>2, <4>2, <5>1, <5>2 DEF WavesHold
      <4> QED BY <3>1, <4>3, <4>4
    <3> QED BY <3>1, <3>3, <3>5, <3>6 DEF WavesOrdered
  <2>3. CASE TurnBlocked \/ PrintWaves \/ UNCHANGED waveVars
    BY <1>2, <2>3 DEF TurnBlocked, PrintWaves, waveVars, WavesHold, WavesOrdered
  <2> QED BY <1>2, <2>1, <2>2, <2>3 DEF WavesNext
<1> QED BY <1>1, <1>2, WavesInvHolds, PTL DEF WavesSpec
-----------------------------------------------------------------------------
(* The search for cycles: dfs finds one exactly when there are ids none of  *)
(* which can be handed out before another of them.                         *)

(* Sets of ids each of which waits for another of the set.                 *)
Trapped(ts, T) == T # {} /\ \A i \in T : DepsOf(ts, i) \cap T # {}

(* The ids of V are all there are in the plan ts.                          *)
PlanOver(ts, V) ==
  /\ ts \in Seq(ToSet(ts)) /\ IsFiniteSet(V)
  /\ \A n \in 1 .. Len(ts) : NodeOf(ts[n]) \in V /\ ts[n].deps \subseteq V

(* The states of a search over the ids of V; the ids whose call is over.   *)
DfsStates(V) ==
  [stack : Seq(V), visited : SUBSET V, looked : SUBSET (V \X V), cycles : SUBSET (V \X V), next : Nat]

Gone(s) == s.visited \ ToSet(s.stack)

(* A search that met no cycle: below an id whose call is over every call is *)
(* over, so no such ids wait for each other; a call under way has looked at *)
(* such ids and at the one it is waiting for.                              *)
Settled(ts, s) ==
  /\ \A i \in Gone(s) : DepsOf(ts, i) \subseteq Gone(s)
  /\ \A T \in SUBSET Gone(s) : ~ Trapped(ts, T)
  /\ \A k \in 1 .. Len(s.stack), d \in s.visited :
       <<s.stack[k], d>> \in s.looked => d \in Gone(s) \/ (k < Len(s.stack) /\ d = s.stack[k + 1])

(* What holds of the search at each step: the calls under way form a path   *)
(* of dependencies, and a cycle was reported only when ids wait for each    *)
(* other.                                                                  *)
DfsInv(ts, V, s) ==
  /\ s \in DfsStates(V)
  /\ ToSet(s.stack) \subseteq s.visited
  /\ \A j, k \in 1 .. Len(s.stack) : s.stack[j] = s.stack[k] => j = k
  /\ \A k \in 1 .. Len(s.stack) - 1 : s.stack[k + 1] \in DepsOf(ts, s.stack[k])
  /\ s.looked \subseteq s.visited \X s.visited
  /\ s.next \in 1 .. Len(ts) + 1
  /\ \A n \in 1 .. s.next - 1 : NodeOf(ts[n]) \in s.visited
  /\ s.cycles = {} => Settled(ts, s)
  /\ s.cycles # {} => \E T \in SUBSET V : Trapped(ts, T)

(* What a call does to the search, field by field.                         *)
LEMMA CallFields ==
  ASSUME NEW V, NEW s \in DfsStates(V), NEW i \in V
  PROVE  /\ Call(s, i) \in DfsStates(V)
         /\ Call(s, i).stack = Append(s.stack, i) /\ Call(s, i).visited = s.visited \cup {i}
         /\ Call(s, i).looked = s.looked /\ Call(s, i).cycles = s.cycles /\ Call(s, i).next = s.next
<1>1. PICK q : q = Append(s.stack, i)
  OBVIOUS
<1>2. q \in Seq(V)
  BY <1>1 DEF DfsStates
<1>3. PICK v : v = s.visited \cup {i}
  OBVIOUS
<1>4. v \in SUBSET V
  BY <1>3 DEF DfsStates
<1>5. PICK t : t = [s EXCEPT !.visited = v, !.stack = q]
  OBVIOUS
<1>6. t = Call(s, i)
  BY <1>1, <1>3, <1>5 DEF Call
<1>7. /\ t \in DfsStates(V) /\ t.stack = q /\ t.visited = v
      /\ t.looked = s.looked /\ t.cycles = s.cycles /\ t.next = s.next
  BY <1>2, <1>4, <1>5 DEF DfsStates
<1> QED BY <1>1, <1>3, <1>6, <1>7

(* What a look at the dependency d of i does to it.                        *)
LEMMA LookAtFields ==
  ASSUME NEW V, NEW s \in DfsStates(V), NEW i \in V, NEW d \in V
  PROVE  /\ LookAt(s, i, d) \in DfsStates(V)
         /\ LookAt(s, i, d).looked = s.looked \cup {<<i, d>>} /\ LookAt(s, i, d).next = s.next
         /\ d \notin s.visited =>
              /\ LookAt(s, i, d).stack = Append(s.stack, d) /\ LookAt(s, i, d).cycles = s.cycles
              /\ LookAt(s, i, d).visited = s.visited \cup {d}
         /\ d \in s.visited =>
              /\ LookAt(s, i, d).stack = s.stack /\ LookAt(s, i, d).visited = s.visited
              /\ d \in ToSet(s.stack) => LookAt(s, i, d).cycles # {}
              /\ d \notin ToSet(s.stack) => LookAt(s, i, d).cycles = s.cycles
<1>1. PICK l : l = s.looked \cup {<<i, d>>}
  OBVIOUS
<1>2. l \in SUBSET (V \X V)
  BY <1>1 DEF DfsStates
<1>3. PICK t : t = [s EXCEPT !.looked = l]
  OBVIOUS
<1>4. /\ t \in DfsStates(V) /\ t.stack = s.stack /\ t.visited = s.visited
      /\ t.looked = l /\ t.cycles = s.cycles /\ t.next = s.next
  BY <1>2, <1>3 DEF DfsStates
<1>5. CASE d \notin s.visited
  <2>1. LookAt(s, i, d) = Call(t, d)
    BY <1>1, <1>3, <1>5 DEF LookAt
  <2> QED BY <1>1, <1>4, <1>5, <2>1, CallFields, SMTT(30)
<1>6. CASE d \in s.visited /\ d \in ToSet(s.stack)
  <2>1. PICK c : c = t.cycles \cup {<<i, d>>}
    OBVIOUS
  <2>2. c \in SUBSET (V \X V) /\ c # {}
    <3>1. t.cycles \in SUBSET (V \X V) /\ <<i, d>> \in V \X V
      BY <1>4 DEF DfsStates
    <3> QED BY <2>1, <3>1
  <2>3. PICK u : u = [t EXCEPT !.cycles = c]
    OBVIOUS
  <2>4. u = LookAt(s, i, d)
    BY <1>1, <1>3, <1>6, <2>1, <2>3 DEF LookAt
  <2>5. /\ u \in DfsStates(V) /\ u.stack = t.stack /\ u.visited = t.visited
        /\ u.looked = t.looked /\ u.cycles = c /\ u.next = t.next
    BY <1>4, <2>2, <2>3 DEF DfsStates
  <2>6. /\ u \in DfsStates(V) /\ u.stack = s.stack /\ u.visited = s.visited
        /\ u.looked = s.looked \cup {<<i, d>>} /\ u.cycles # {} /\ u.next = s.next
    BY <1>1, <1>4, <2>2, <2>5
  <2>7. LookAt(s, i, d) = u
    BY <2>4
  <2> QED BY <1>6, <2>6, <2>7, Zenon
<1>7. CASE d \in s.visited /\ d \notin ToSet(s.stack)
  <2>1. LookAt(s, i, d) = t
    BY <1>1, <1>3, <1>7 DEF LookAt
  <2> QED BY <1>1, <1>4, <1>7, <2>1
<1> QED BY <1>5, <1>6, <1>7

(* What the return of the innermost call does to it.                       *)
LEMMA ReturnFields ==
  ASSUME NEW V, NEW s \in DfsStates(V), s.stack # <<>>
  PROVE  /\ Return(s) \in DfsStates(V)
         /\ Len(Return(s).stack) = Len(s.stack) - 1
         /\ \A k \in 1 .. Len(s.stack) - 1 : Return(s).stack[k] = s.stack[k]
         /\ Return(s).visited = s.visited
         /\ Return(s).looked = s.looked /\ Return(s).cycles = s.cycles /\ Return(s).next = s.next
<1>1. PICK q : q = Front(s.stack)
  OBVIOUS
<1>2. s.stack \in Seq(V)
  BY DEF DfsStates
<1>3. q \in Seq(V) /\ Len(q) = Len(s.stack) - 1 /\ \A k \in 1 .. Len(s.stack) - 1 : q[k] = s.stack[k]
  <2>1. Len(s.stack) \in Nat \ {0}
    BY <1>2
  <2>2. q = SubSeq(s.stack, 1, Len(s.stack) - 1)
    BY <1>1 DEF Front
  <2>3. \A k \in 1 .. Len(s.stack) - 1 : s.stack[k] \in V
    BY <1>2
  <2>4. 1 \in Int /\ Len(s.stack) - 1 \in Int
    BY <2>1
  <2>5. /\ SubSeq(s.stack, 1, Len(s.stack) - 1) \in Seq(V)
        /\ Len(SubSeq(s.stack, 1, Len(s.stack) - 1)) =
             IF 1 <= Len(s.stack) - 1 THEN (Len(s.stack) - 1) - 1 + 1 ELSE 0
        /\ \A k \in 1 .. (Len(s.stack) - 1) - 1 + 1 :
             SubSeq(s.stack, 1, Len(s.stack) - 1)[k] = s.stack[1 + k - 1]
    BY <2>3, <2>4, SubSeqProperties
  <2> QED BY <2>1, <2>2, <2>5
<1>4. PICK t : t = [s EXCEPT !.stack = q]
  OBVIOUS
<1>5. t = Return(s)
  BY <1>1, <1>4 DEF Return
<1>6. /\ t \in DfsStates(V) /\ t.stack = q /\ t.visited = s.visited
      /\ t.looked = s.looked /\ t.cycles = s.cycles /\ t.next = s.next
  BY <1>3, <1>4 DEF DfsStates
<1> QED BY <1>3, <1>5, <1>6

(* A set of positions that is not empty has a last one.                    *)
LEMMA LastPlace ==
  ASSUME NEW n \in Nat, NEW T \in SUBSET (1 .. n), T # {}
  PROVE  \E x \in T : \A y \in T : y <= x
<1> DEFINE R == {ss \in Nat \X Nat : ss[1] < ss[2]}
           D == {k \in Nat : \E x \in T : k = n - x}
<1>1. IsWellFoundedOn(R, Nat)
  <2>1. R = OpToRel(<, Nat)
    BY DEF OpToRel
  <2> QED BY <2>1, NatLessThanWellFounded
<1>2. D \subseteq Nat /\ D # {}
  <2>1. PICK x \in T : TRUE
    OBVIOUS
  <2>2. n - x \in Nat
    BY <2>1
  <2> QED BY <2>1, <2>2
<1>3. \E k \in D : \A y \in D : ~ (<<y, k>> \in R)
  <2> HIDE DEF R, D
  <2> QED BY <1>1, <1>2, WFMin
<1>4. PICK k \in D : \A y \in D : ~ (<<y, k>> \in R)
  BY <1>3
<1>5. PICK x \in T : k = n - x
  BY <1>4
<1>6. ASSUME NEW y \in T PROVE y <= x
  <2>1. n - y \in D /\ n - y \in Nat /\ k \in Nat
    BY <1>4, <1>6
  <2>2. ~ (n - y < k)
    BY <1>4, <2>1
  <2> QED BY <1>5, <2>2
<1> QED BY <1>6

(* The dependencies of an id are those of one of the tasks with this id.   *)
LEMMA DepsOfOne ==
  ASSUME NEW V, NEW ts, PlanOver(ts, V), NEW i
  PROVE  /\ DepsOf(ts, i) \subseteq V
         /\ DepsOf(ts, i) # {} => i \in V
         /\ (\E n \in 1 .. Len(ts) : NodeOf(ts[n]) = i) =>
              \E n \in 1 .. Len(ts) : NodeOf(ts[n]) = i /\ DepsOf(ts, i) = ts[n].deps
         /\ ~ (\E n \in 1 .. Len(ts) : NodeOf(ts[n]) = i) => DepsOf(ts, i) = {}
<1> DEFINE same == {n \in DOMAIN ts : NodeOf(ts[n]) = i}
<1>1. Len(ts) \in Nat /\ DOMAIN ts = 1 .. Len(ts)
  BY DEF PlanOver
<1>2. CASE same = {}
  <2>1. DepsOf(ts, i) = {}
    BY <1>2 DEF DepsOf
  <2> QED BY <1>1, <1>2, <2>1
<1>3. CASE same # {}
  <2>1. \E x \in same : \A y \in same : y <= x
    <3>1. same \in SUBSET (1 .. Len(ts))
      BY <1>1
    <3> HIDE DEF same
    <3> QED BY <1>1, <1>3, <3>1, LastPlace
  <2>2. PICK n : n = CHOOSE x \in same : \A y \in same : y <= x
    OBVIOUS
  <2>3. n \in same
    <3> HIDE DEF same
    <3> QED BY <2>1, <2>2
  <2>4. DepsOf(ts, i) = ts[n].deps
    BY <1>3, <2>2 DEF DepsOf
  <2> QED BY <1>1, <2>3, <2>4 DEF PlanOver
<1> QED BY <1>2, <1>3

(* A call for an id that was not visited, from the call at the top.        *)
LEMMA Called ==
  ASSUME NEW V, NEW ts, PlanOver(ts, V), NEW s, DfsInv(ts, V, s), NEW i \in V, i \notin s.visited,
         NEW t \in DfsStates(V), t.stack = Append(s.stack, i), t.visited = s.visited \cup {i},
         t.cycles = s.cycles,
         s.stack # <<>> => i \in DepsOf(ts, Last(s.stack)),
         \A e \in t.looked : e \in s.looked \/ (s.stack # <<>> /\ e = <<Last(s.stack), i>>),
         t.next \in 1 .. Len(ts) + 1, \A n \in 1 .. t.next - 1 : NodeOf(ts[n]) \in t.visited
  PROVE  DfsInv(ts, V, t) /\ Gone(t) = Gone(s)
<1> DEFINE n == Len(s.stack)
<1>1. /\ s \in DfsStates(V) /\ s.stack \in Seq(V) /\ n \in Nat /\ DOMAIN s.stack = 1 .. n
      /\ (s.stack = <<>> <=> n = 0)
  BY DEF DfsInv, DfsStates
<1>2. /\ Len(t.stack) = n + 1 /\ DOMAIN t.stack = 1 .. n + 1 /\ t.stack[n + 1] = i
      /\ \A k \in 1 .. n : t.stack[k] = s.stack[k] /\ s.stack[k] \in ToSet(s.stack)
      /\ \A k \in 1 .. n + 1 : k \in 1 .. n \/ k = n + 1
  <2>1. /\ Len(t.stack) = n + 1 /\ t.stack \in Seq(V) /\ t.stack[n + 1] = i
        /\ \A k \in 1 .. n : t.stack[k] = s.stack[k]
    BY <1>1, AppendProperties
  <2> QED BY <1>1, <2>1, SMTT(30) DEF ToSet
<1>3. ToSet(t.stack) = ToSet(s.stack) \cup {i}
  <2>1. n + 1 \in 1 .. n + 1 /\ 1 .. n \subseteq 1 .. n + 1
    BY <1>1
  <2> QED BY <1>1, <1>2, <2>1 DEF ToSet
<1>4. i \notin ToSet(s.stack) /\ ToSet(t.stack) \subseteq t.visited
  BY <1>3 DEF DfsInv
<1>5. Gone(t) = Gone(s)
  BY <1>3, <1>4 DEF Gone
<1>6. \A j, k \in 1 .. n + 1 : t.stack[j] = t.stack[k] => j = k
  BY <1>2, <1>4 DEF DfsInv
<1>7. ASSUME NEW k \in 1 .. n PROVE t.stack[k + 1] \in DepsOf(ts, t.stack[k])
  <2>1. CASE k = n
    BY <1>1, <1>2, <2>1 DEF Last
  <2>2. CASE k # n
    <3>1. k \in 1 .. n - 1 /\ k + 1 \in 1 .. n
      BY <1>1, <2>2
    <3> QED BY <1>2, <3>1 DEF DfsInv
  <2> QED BY <2>1, <2>2
<1>8. t.looked \subseteq t.visited \X t.visited
  <2>1. ASSUME NEW e \in t.looked PROVE e \in t.visited \X t.visited
    <3>1. CASE e \in s.looked
      BY <3>1 DEF DfsInv
    <3>2. CASE s.stack # <<>> /\ e = <<Last(s.stack), i>>
      <4>1. Last(s.stack) \in ToSet(s.stack)
        BY <1>1, <3>2 DEF ToSet, Last
      <4> QED BY <3>2, <4>1 DEF DfsInv
    <3> QED BY <3>1, <3>2
  <2> QED BY <2>1
<1>9. t.cycles = {} => Settled(ts, t)
  <2> SUFFICES ASSUME t.cycles = {} PROVE Settled(ts, t)
    OBVIOUS
  <2>1. Settled(ts, s)
    BY DEF DfsInv
  <2>2. ASSUME NEW k \in 1 .. n + 1, NEW d \in t.visited, <<t.stack[k], d>> \in t.looked
        PROVE  d \in Gone(t) \/ (k < n + 1 /\ d = t.stack[k + 1])
    <3>1. CASE <<t.stack[k], d>> \in s.looked
      <4>1. t.stack[k] \in s.visited /\ d \in s.visited
        BY <3>1 DEF DfsInv
      <4>2. k \in 1 .. n
        BY <1>2, <4>1
      <4>3. d \in Gone(s) \/ (k < n /\ d = s.stack[k + 1])
        BY <1>2, <2>1, <3>1, <4>1, <4>2 DEF Settled
      <4>4. k < n => k + 1 \in 1 .. n
        BY <1>1, <4>2
      <4>5. k < n + 1
        BY <1>1, <4>2
      <4> QED BY <1>2, <1>5, <4>3, <4>4, <4>5
    <3>2. CASE s.stack # <<>> /\ <<t.stack[k], d>> = <<Last(s.stack), i>>
      <4>1. n \in 1 .. n /\ d = i /\ t.stack[k] = s.stack[n]
        BY <1>1, <3>2 DEF Last
      <4>2. n \in 1 .. n + 1 /\ t.stack[n] = s.stack[n] /\ k \in 1 .. n + 1
        BY <1>1, <1>2, <4>1
      <4>3. k = n
        BY <1>6, <4>1, <4>2
      <4> QED BY <1>1, <1>2, <4>1, <4>3
    <3> QED BY <2>2, <3>1, <3>2
  <2> QED BY <1>2, <1>5, <2>1, <2>2 DEF Settled
<1>10. (n + 1) - 1 = n
  BY <1>1
<1> QED BY <1>2, <1>4, <1>5, <1>6, <1>7, <1>8, <1>9, <1>10 DEF DfsInv

(* A look at a dependency whose call is over, or going to the next task.   *)
LEMMA Looks ==
  ASSUME NEW V, NEW ts, PlanOver(ts, V), NEW s, DfsInv(ts, V, s),
         NEW t \in DfsStates(V), t.stack = s.stack, t.visited = s.visited, t.cycles = s.cycles,
         \A e \in t.looked : e \in s.looked \/ (s.stack # <<>> /\ e[1] = Last(s.stack) /\ e[2] \in Gone(s)),
         t.next \in 1 .. Len(ts) + 1, \A n \in 1 .. t.next - 1 : NodeOf(ts[n]) \in t.visited
  PROVE  DfsInv(ts, V, t) /\ Gone(t) = Gone(s)
<1>1. Gone(t) = Gone(s)
  BY DEF Gone
<1>2. t.looked \subseteq t.visited \X t.visited
  <2>1. ASSUME NEW e \in t.looked PROVE e \in t.visited \X t.visited
    <3>1. CASE e \in s.looked
      BY <3>1 DEF DfsInv
    <3>2. CASE s.stack # <<>> /\ e[1] = Last(s.stack) /\ e[2] \in Gone(s)
      <4>1. s.stack \in Seq(V) /\ e \in V \X V
        BY DEF DfsInv, DfsStates
      <4>2. Last(s.stack) \in ToSet(s.stack)
        BY <3>2, <4>1 DEF ToSet, Last
      <4> QED BY <3>2, <4>1, <4>2 DEF DfsInv, Gone
    <3> QED BY <2>1, <3>1, <3>2
  <2> QED BY <2>1
<1>3. t.cycles = {} => Settled(ts, t)
  <2> SUFFICES ASSUME t.cycles = {} PROVE Settled(ts, t)
    OBVIOUS
  <2>1. Settled(ts, s)
    BY DEF DfsInv
  <2>2. ASSUME NEW k \in 1 .. Len(t.stack), NEW d \in t.visited, <<t.stack[k], d>> \in t.looked
        PROVE  d \in Gone(t) \/ (k < Len(t.stack) /\ d = t.stack[k + 1])
    BY <1>1, <2>1, <2>2 DEF Settled
  <2> QED BY <1>1, <2>1, <2>2 DEF Settled
<1> QED BY <1>1, <1>2, <1>3 DEF DfsInv

(* A dependency on the stack: the calls from it on wait for each other.     *)
LEMMA Closes ==
  ASSUME NEW V, NEW ts, PlanOver(ts, V), NEW s, DfsInv(ts, V, s), s.stack # <<>>,
         NEW d \in ToSet(s.stack), d \in DepsOf(ts, Last(s.stack)),
         NEW t \in DfsStates(V), t.stack = s.stack, t.visited = s.visited, t.cycles # {},
         t.looked = s.looked \cup {<<Last(s.stack), d>>}, t.next = s.next
  PROVE  DfsInv(ts, V, t) /\ Gone(t) = Gone(s)
<1> DEFINE n == Len(s.stack)
<1>1. s.stack \in Seq(V) /\ n \in Nat \ {0} /\ DOMAIN s.stack = 1 .. n /\ n \in 1 .. n
  BY DEF DfsInv, DfsStates
<1>2. Last(s.stack) = s.stack[n] /\ Last(s.stack) \in ToSet(s.stack)
  BY <1>1 DEF ToSet, Last
<1>3. PICK k \in 1 .. n : d = s.stack[k]
  BY <1>1 DEF ToSet
<1>4. {s.stack[j] : j \in k .. n} \in SUBSET V /\ k \in k .. n
  BY <1>1, <1>3
<1>5. ASSUME NEW j \in k .. n PROVE DepsOf(ts, s.stack[j]) \cap {s.stack[l] : l \in k .. n} # {}
  <2>1. CASE j = n
    BY <1>2, <1>3, <1>4, <2>1
  <2>2. CASE j # n
    <3>1. j \in 1 .. n - 1 /\ j + 1 \in k .. n
      BY <1>1, <2>2
    <3>2. s.stack[j + 1] \in DepsOf(ts, s.stack[j])
      BY <3>1 DEF DfsInv
    <3> QED BY <3>1, <3>2
  <2> QED BY <2>1, <2>2
<1>6. Trapped(ts, {s.stack[l] : l \in k .. n})
  BY <1>4, <1>5 DEF Trapped
<1>7. t.looked \subseteq t.visited \X t.visited
  BY <1>2 DEF DfsInv
<1> QED BY <1>4, <1>6, <1>7 DEF DfsInv, Gone

(* A call that has looked at all dependencies returns: what it was for is   *)
(* settled, and so is what is left.                                         *)
LEMMA Returns ==
  ASSUME NEW V, NEW ts, PlanOver(ts, V), NEW s, DfsInv(ts, V, s), s.stack # <<>>,
         Unlooked(ts, s, Last(s.stack)) = {}
  PROVE  /\ DfsInv(ts, V, Return(s))
         /\ Last(s.stack) \notin Gone(s) /\ Gone(Return(s)) = Gone(s) \cup {Last(s.stack)}
<1> DEFINE n == Len(s.stack)
<1>1. PICK t : t = Return(s)
  OBVIOUS
<1>2. PICK i : i = s.stack[n] /\ i = Last(s.stack)
  BY DEF Last
<1>3. s \in DfsStates(V) /\ s.stack \in Seq(V) /\ n \in Nat \ {0} /\ DOMAIN s.stack = 1 .. n /\ n \in 1 .. n
  BY DEF DfsInv, DfsStates
<1>4. /\ t \in DfsStates(V) /\ Len(t.stack) = n - 1 /\ \A k \in 1 .. n - 1 : t.stack[k] = s.stack[k]
      /\ t.visited = s.visited /\ t.looked = s.looked /\ t.cycles = s.cycles /\ t.next = s.next
  BY <1>1, <1>3, ReturnFields
<1>5. DOMAIN t.stack = 1 .. n - 1 /\ \A k \in 1 .. n : k \in 1 .. n - 1 \/ k = n
  <2>1. t.stack \in Seq(V)
    BY <1>4 DEF DfsStates
  <2> QED BY <1>3, <1>4, <2>1
<1>6. \A k \in 1 .. n - 1 : k \in 1 .. n /\ s.stack[k] # i
  <2>1. \A k \in 1 .. n - 1 : k \in 1 .. n /\ k # n
    BY <1>3
  <2> QED BY <1>2, <1>3, <2>1 DEF DfsInv
<1>7. ToSet(s.stack) = ToSet(t.stack) \cup {i} /\ i \notin ToSet(t.stack)
  <2>1. \A k \in 1 .. n - 1 : k \in 1 .. n /\ t.stack[k] = s.stack[k] /\ t.stack[k] # i
    BY <1>4, <1>6
  <2>2. ToSet(s.stack) = {s.stack[k] : k \in 1 .. n} /\ ToSet(t.stack) = {t.stack[k] : k \in 1 .. n - 1}
    BY <1>3, <1>5 DEF ToSet
  <2>3. {s.stack[k] : k \in 1 .. n} = {t.stack[k] : k \in 1 .. n - 1} \cup {i}
    <3>1. ASSUME NEW k \in 1 .. n PROVE s.stack[k] \in {t.stack[j] : j \in 1 .. n - 1} \cup {i}
      BY <1>2, <1>5, <2>1
    <3>2. ASSUME NEW k \in 1 .. n - 1 PROVE t.stack[k] \in {s.stack[j] : j \in 1 .. n}
      BY <2>1
    <3> QED BY <1>2, <1>3, <3>1, <3>2
  <2> QED BY <2>1, <2>2, <2>3
<1>8. i \in s.visited /\ i \notin Gone(s) /\ Gone(t) = Gone(s) \cup {i}
  BY <1>4, <1>7 DEF Gone, DfsInv
<1>9. \A k \in 1 .. (n - 1) - 1 : k \in 1 .. n - 1 /\ k + 1 \in 1 .. n - 1
  BY <1>3
<1>10. \A k \in 1 .. (n - 1) - 1 : t.stack[k + 1] \in DepsOf(ts, t.stack[k])
  BY <1>4, <1>9 DEF DfsInv
<1>11. s.cycles = {} => Settled(ts, t)
  <2> SUFFICES ASSUME s.cycles = {} PROVE Settled(ts, t)
    OBVIOUS
  <2>1. Settled(ts, s)
    BY DEF DfsInv
  <2>2. DepsOf(ts, i) \subseteq Gone(s)
    <3>1. ASSUME NEW d \in DepsOf(ts, i) PROVE d \in Gone(s)
      <4>1. <<i, d>> \in s.looked
        BY <1>2 DEF Unlooked
      <4>2. d \in s.visited
        BY <4>1 DEF DfsInv
      <4>3. d \in Gone(s) \/ (n < n /\ d = s.stack[n + 1])
        BY <1>2, <1>3, <2>1, <4>1, <4>2 DEF Settled
      <4> QED BY <1>3, <4>3
    <3> QED BY <3>1
  <2>3. \A j \in Gone(t) : DepsOf(ts, j) \subseteq Gone(s)
    BY <1>8, <2>1, <2>2 DEF Settled
  <2>4. ASSUME NEW T \in SUBSET Gone(t), Trapped(ts, T) PROVE FALSE
    <3>1. \A j \in T : DepsOf(ts, j) \cap (T \ {i}) # {}
      BY <1>8, <2>3, <2>4 DEF Trapped
    <3>2. Trapped(ts, T \ {i})
      BY <2>4, <3>1 DEF Trapped
    <3>3. T \ {i} \in SUBSET Gone(s)
      BY <1>8
    <3> QED BY <2>1, <3>2, <3>3 DEF Settled
  <2>5. ASSUME NEW k \in 1 .. n - 1, NEW d \in t.visited, <<t.stack[k], d>> \in t.looked
        PROVE  d \in Gone(t) \/ (k < n - 1 /\ d = t.stack[k + 1])
    <3>1. d \in Gone(s) \/ (k < n /\ d = s.stack[k + 1])
      BY <1>4, <1>6, <2>1, <2>5 DEF Settled
    <3>2. k = n - 1 => k + 1 = n
      BY <1>3
    <3>3. k # n - 1 => k < n - 1 /\ k + 1 \in 1 .. n - 1
      BY <1>3
    <3> QED BY <1>2, <1>4, <1>8, <3>1, <3>2, <3>3
  <2> QED BY <1>4, <1>8, <2>3, <2>4, <2>5 DEF Settled
<1>12. \A j, k \in 1 .. n - 1 : t.stack[j] = t.stack[k] => j = k
  BY <1>4, <1>6 DEF DfsInv
<1> QED BY <1>1, <1>2, <1>4, <1>7, <1>8, <1>10, <1>11, <1>12 DEF DfsInv

(* The search is over; the steps it took so far.                           *)
Done(ts, s) == s.stack = <<>> /\ s.next > Len(ts)

Spent(s) == Cardinality(s.looked) + Cardinality(Gone(s)) + s.next - 1

(* Every step keeps what has been found and spends one of DfsSteps, until   *)
(* all tasks are done.                                                      *)
LEMMA DfsStepKeeps ==
  ASSUME NEW V, NEW ts, PlanOver(ts, V), NEW s, DfsInv(ts, V, s)
  PROVE  /\ DfsInv(ts, V, DfsStep(ts, s))
         /\ Done(ts, s) => DfsStep(ts, s) = s
         /\ ~ Done(ts, s) => Spent(DfsStep(ts, s)) = Spent(s) + 1
<1>1. /\ s \in DfsStates(V) /\ s.stack \in Seq(V) /\ s.next \in Nat /\ Len(ts) \in Nat
      /\ (s.stack = <<>> <=> Len(s.stack) = 0) /\ s.looked \subseteq V \X V /\ s.visited \subseteq V
  BY DEF DfsInv, DfsStates, PlanOver
<1>2. /\ IsFiniteSet(s.looked) /\ Cardinality(s.looked) \in Nat
      /\ IsFiniteSet(Gone(s)) /\ Cardinality(Gone(s)) \in Nat
  <2>1. IsFiniteSet(V \X V) /\ IsFiniteSet(V)
    BY FS_Product DEF PlanOver
  <2>2. s.looked \in SUBSET (V \X V) /\ Gone(s) \in SUBSET V
    BY <1>1 DEF Gone
  <2>3. IsFiniteSet(s.looked) /\ IsFiniteSet(Gone(s))
    BY <2>1, <2>2, FS_Subset
  <2> QED BY <2>3, FS_CardinalityType
<1>3. CASE Done(ts, s)
  BY <1>3 DEF Done, DfsStep
<1>4. CASE s.stack = <<>> /\ ~ Done(ts, s)
  <2>1. s.next \in 1 .. Len(ts) /\ DfsStep(ts, s) = NextTask(ts, s)
    BY <1>1, <1>4 DEF Done, DfsStep, DfsInv
  <2>2. PICK i : i = NodeOf(ts[s.next])
    OBVIOUS
  <2>3. i \in V
    BY <2>1, <2>2 DEF PlanOver
  <2>4. PICK on : on = [s EXCEPT !.next = s.next + 1]
    OBVIOUS
  <2>5. /\ on \in DfsStates(V) /\ on.stack = s.stack /\ on.visited = s.visited /\ on.looked = s.looked
        /\ on.cycles = s.cycles /\ on.next = s.next + 1
    BY <1>1, <2>4 DEF DfsStates
  <2>6. /\ s.next + 1 \in 1 .. Len(ts) + 1
        /\ \A n \in 1 .. (s.next + 1) - 1 : NodeOf(ts[n]) \in s.visited \cup {i}
    <3>1. \A n \in 1 .. (s.next + 1) - 1 : n \in 1 .. s.next - 1 \/ n = s.next
      BY <2>1
    <3> QED BY <2>1, <2>2, <3>1 DEF DfsInv
  <2>7. CASE i \in s.visited
    <3>1. DfsStep(ts, s) = on
      BY <2>1, <2>2, <2>4, <2>7 DEF NextTask
    <3>2. DfsInv(ts, V, on) /\ Gone(on) = Gone(s)
      <4>1. \A n \in 1 .. on.next - 1 : NodeOf(ts[n]) \in on.visited
        BY <2>5, <2>6, <2>7
      <4> QED BY <2>5, <2>6, <4>1, Looks
    <3> QED BY <1>1, <1>2, <1>4, <2>5, <3>1, <3>2 DEF Spent
  <2>8. CASE i \notin s.visited
    <3>1. DfsStep(ts, s) = Call(on, i)
      BY <2>1, <2>2, <2>4, <2>8 DEF NextTask
    <3>2. PICK t : t = Call(on, i)
      OBVIOUS
    <3>3. /\ t \in DfsStates(V) /\ t.stack = Append(s.stack, i) /\ t.visited = s.visited \cup {i}
          /\ t.looked = s.looked /\ t.cycles = s.cycles /\ t.next = s.next + 1
      BY <2>3, <2>5, <3>2, CallFields
    <3>4. DfsInv(ts, V, t) /\ Gone(t) = Gone(s)
      <4>1. s.stack # <<>> => i \in DepsOf(ts, Last(s.stack))
        BY <1>4
      <4>2. \A e \in t.looked : e \in s.looked \/ (s.stack # <<>> /\ e = <<Last(s.stack), i>>)
        BY <3>3
      <4>3. t.next \in 1 .. Len(ts) + 1 /\ \A n \in 1 .. t.next - 1 : NodeOf(ts[n]) \in t.visited
        BY <2>6, <3>3
      <4> QED BY <2>3, <2>8, <3>3, <4>1, <4>2, <4>3, Called
    <3> QED BY <1>1, <1>2, <1>4, <3>1, <3>2, <3>3, <3>4 DEF Spent
  <2> QED BY <2>7, <2>8
<1>5. CASE s.stack # <<>>
  <2>1. PICK i : i = Last(s.stack)
    OBVIOUS
  <2>2. i \in V /\ i \in ToSet(s.stack) /\ ~ Done(ts, s)
    BY <1>1, <1>5, <2>1 DEF Last, ToSet, Done
  <2>3. CASE Unlooked(ts, s, i) = {}
    <3>1. DfsStep(ts, s) = Return(s)
      BY <1>5, <2>1, <2>3 DEF DfsStep
    <3>2. DfsInv(ts, V, Return(s)) /\ i \notin Gone(s) /\ Gone(Return(s)) = Gone(s) \cup {i}
      BY <1>5, <2>1, <2>3, Returns
    <3>3. Cardinality(Gone(Return(s))) = Cardinality(Gone(s)) + 1
      BY <1>2, <3>2, FS_AddElement
    <3>4. Return(s).looked = s.looked /\ Return(s).next = s.next
      BY <1>1, <1>5, ReturnFields
    <3> QED BY <1>1, <1>2, <2>2, <3>1, <3>2, <3>3, <3>4 DEF Spent
  <2>4. CASE Unlooked(ts, s, i) # {}
    <3>1. PICK dep : dep = CHOOSE e \in Unlooked(ts, s, i) : TRUE
      OBVIOUS
    <3>2. dep \in Unlooked(ts, s, i)
      BY <2>4, <3>1
    <3>3. dep \in V /\ dep \in DepsOf(ts, i) /\ <<i, dep>> \notin s.looked
      BY <3>2, DepsOfOne DEF Unlooked
    <3>4. DfsStep(ts, s) = LookAt(s, i, dep)
      BY <1>5, <2>1, <2>4, <3>1 DEF DfsStep
    <3>5. PICK t : t = LookAt(s, i, dep)
      OBVIOUS
    <3>6. /\ t \in DfsStates(V) /\ t.looked = s.looked \cup {<<i, dep>>} /\ t.next = s.next
          /\ dep \notin s.visited =>
               t.stack = Append(s.stack, dep) /\ t.cycles = s.cycles /\ t.visited = s.visited \cup {dep}
          /\ dep \in s.visited =>
               /\ t.stack = s.stack /\ t.visited = s.visited
               /\ dep \in ToSet(s.stack) => t.cycles # {}
               /\ dep \notin ToSet(s.stack) => t.cycles = s.cycles
      <4>1. s \in DfsStates(V) /\ i \in V /\ dep \in V
        BY <1>1, <2>2, <3>3
      <4>2. /\ LookAt(s, i, dep) \in DfsStates(V)
            /\ LookAt(s, i, dep).looked = s.looked \cup {<<i, dep>>} /\ LookAt(s, i, dep).next = s.next
            /\ dep \notin s.visited =>
                 /\ LookAt(s, i, dep).stack = Append(s.stack, dep) /\ LookAt(s, i, dep).cycles = s.cycles
                 /\ LookAt(s, i, dep).visited = s.visited \cup {dep}
            /\ dep \in s.visited =>
                 /\ LookAt(s, i, dep).stack = s.stack /\ LookAt(s, i, dep).visited = s.visited
                 /\ dep \in ToSet(s.stack) => LookAt(s, i, dep).cycles # {}
                 /\ dep \notin ToSet(s.stack) => LookAt(s, i, dep).cycles = s.cycles
        BY <4>1, LookAtFields
      <4> QED BY <3>5, <4>2
    <3>7. Cardinality(s.looked \cup {<<i, dep>>}) = Cardinality(s.looked) + 1
      BY <1>2, <3>3, FS_AddElement
    <3>8. s.next \in 1 .. Len(ts) + 1 /\ \A n \in 1 .. s.next - 1 : NodeOf(ts[n]) \in s.visited
      BY DEF DfsInv
    <3>9. DfsInv(ts, V, t) /\ Gone(t) = Gone(s)
      <4>1. t.next \in 1 .. Len(ts) + 1 /\ \A n \in 1 .. t.next - 1 : NodeOf(ts[n]) \in t.visited
        BY <3>6, <3>8
      <4>2. CASE dep \notin s.visited
        <5>1. \A e \in t.looked : e \in s.looked \/ (s.stack # <<>> /\ e = <<Last(s.stack), dep>>)
          BY <1>5, <2>1, <3>6
        <5>2. dep \in DepsOf(ts, Last(s.stack))
          BY <2>1, <3>3
        <5> QED BY <3>3, <3>6, <4>1, <4>2, <5>1, <5>2, Called
      <4>3. CASE dep \in ToSet(s.stack)
        <5>1. dep \in s.visited
          BY <4>3 DEF DfsInv
        <5>2. dep \in DepsOf(ts, Last(s.stack)) /\ t.looked = s.looked \cup {<<Last(s.stack), dep>>}
          BY <2>1, <3>3, <3>6
        <5>3. /\ t \in DfsStates(V) /\ t.stack = s.stack /\ t.visited = s.visited /\ t.cycles # {}
              /\ t.next = s.next
          BY <3>6, <4>3, <5>1
        <5> QED BY <1>5, <4>3, <5>2, <5>3, Closes, SMTT(30)
      <4>4. CASE dep \in s.visited /\ dep \notin ToSet(s.stack)
        <5>1. dep \in Gone(s)
          BY <4>4 DEF Gone
        <5>2. \A e \in t.looked :
                e \in s.looked \/ (s.stack # <<>> /\ e[1] = Last(s.stack) /\ e[2] \in Gone(s))
          BY <1>5, <2>1, <3>6, <5>1
        <5> QED BY <3>6, <4>1, <4>4, <5>2, Looks
      <4> QED BY <4>2, <4>3, <4>4
    <3> QED BY <1>1, <1>2, <2>2, <3>4, <3>5, <3>6, <3>7, <3>9 DEF Spent
  <2> QED BY <2>3, <2>4
<1> QED BY <1>3, <1>4, <1>5

(* What a function takes over a finite set is finite, and at most as many. *)
LEMMA ImageFinite ==
  ASSUME NEW S, IsFiniteSet(S), NEW f, DOMAIN f = S, f = [x \in S |-> f[x]]
  PROVE  /\ IsFiniteSet({f[x] : x \in S})
         /\ Cardinality({f[x] : x \in S}) = Cardinality(S) => \A x, y \in S : f[x] = f[y] => x = y
<1> DEFINE T == {f[x] : x \in S}
<1>1. f \in Surjection(S, T)
  BY DEF Surjection
<1>2. IsFiniteSet(T)
  BY <1>1, FS_Surjection
<1>3. CASE Cardinality(T) = Cardinality(S)
  <2>1. f \in Injection(S, T)
    BY <1>1, <1>3, FS_Surjection
  <2> QED BY <1>2, <2>1 DEF Injection, IsInjective
<1> QED BY <1>2, <1>3

(* All the ids of a plan.                                                  *)
NodesOf(ts) == {NodeOf(t) : t \in ToSet(ts)} \cup UNION {t.deps : t \in ToSet(ts)}

(* The tasks of a plan and what they depend on, of finitely many ids.       *)
LEMMA NodesFinite ==
  ASSUME NEW ts, ts \in Seq(ToSet(ts)), \A t \in ToSet(ts) : IsFiniteSet(t.deps)
  PROVE  PlanOver(ts, NodesOf(ts))
<1>1. Len(ts) \in Nat /\ DOMAIN ts = 1 .. Len(ts) /\ ToSet(ts) = {ts[n] : n \in 1 .. Len(ts)}
  BY DEF ToSet
<1>2. IsFiniteSet(1 .. Len(ts))
  BY <1>1, FS_Interval
<1>3. IsFiniteSet({NodeOf(t) : t \in ToSet(ts)})
  <2> DEFINE f == [n \in 1 .. Len(ts) |-> NodeOf(ts[n])]
  <2>1. IsFiniteSet({f[n] : n \in 1 .. Len(ts)})
    <3>1. DOMAIN f = 1 .. Len(ts) /\ f = [n \in 1 .. Len(ts) |-> f[n]]
      OBVIOUS
    <3> HIDE DEF f
    <3> QED BY <1>2, <3>1, ImageFinite
  <2>2. {f[n] : n \in 1 .. Len(ts)} = {NodeOf(t) : t \in ToSet(ts)}
    BY <1>1
  <2> QED BY <2>1, <2>2
<1>4. IsFiniteSet(UNION {t.deps : t \in ToSet(ts)})
  <2> DEFINE f == [n \in 1 .. Len(ts) |-> ts[n].deps]
  <2>1. IsFiniteSet({f[n] : n \in 1 .. Len(ts)})
    <3>1. DOMAIN f = 1 .. Len(ts) /\ f = [n \in 1 .. Len(ts) |-> f[n]]
      OBVIOUS
    <3> HIDE DEF f
    <3> QED BY <1>2, <3>1, ImageFinite
  <2>2. {f[n] : n \in 1 .. Len(ts)} = {t.deps : t \in ToSet(ts)}
    BY <1>1
  <2>3. \A S \in {t.deps : t \in ToSet(ts)} : IsFiniteSet(S)
    OBVIOUS
  <2> QED BY <2>1, <2>2, <2>3, FS_UNION
<1>5. IsFiniteSet(NodesOf(ts))
  BY <1>3, <1>4, FS_Union DEF NodesOf
<1>6. \A n \in 1 .. Len(ts) : NodeOf(ts[n]) \in NodesOf(ts) /\ ts[n].deps \subseteq NodesOf(ts)
  BY <1>1 DEF NodesOf
<1> QED BY <1>5, <1>6 DEF PlanOver

(* There are never more steps to take than DfsSteps.                       *)
LEMMA SpentBound ==
  ASSUME NEW ts, PlanOver(ts, NodesOf(ts)), NEW s, DfsInv(ts, NodesOf(ts), s)
  PROVE  Spent(s) \in Nat /\ DfsSteps(ts) \in Nat /\ Spent(s) <= DfsSteps(ts)
<1> DEFINE V == NodesOf(ts)
<1>1. IsFiniteSet(V) /\ IsFiniteSet(V \X V)
  BY FS_Product DEF PlanOver
<1>2. s.looked \in SUBSET (V \X V) /\ Gone(s) \in SUBSET V
  BY DEF DfsInv, DfsStates, Gone
<1>3. /\ Cardinality(s.looked) <= Cardinality(V \X V) /\ Cardinality(Gone(s)) <= Cardinality(V)
      /\ IsFiniteSet(s.looked) /\ IsFiniteSet(Gone(s))
  <2> HIDE DEF V
  <2> QED BY <1>1, <1>2, FS_Subset
<1>4. /\ Cardinality(s.looked) \in Nat /\ Cardinality(V \X V) \in Nat
      /\ Cardinality(Gone(s)) \in Nat /\ Cardinality(V) \in Nat
  <2> HIDE DEF V
  <2> QED BY <1>1, <1>3, FS_CardinalityType
<1>5. DfsSteps(ts) = Cardinality(V \X V) + Cardinality(V) + Len(ts)
  BY DEF DfsSteps, NodesOf
<1>6. Len(ts) \in Nat /\ s.next \in 1 .. Len(ts) + 1
  BY DEF PlanOver, DfsInv
<1> HIDE DEF V
<1> QED BY <1>3, <1>4, <1>5, <1>6, SMTT(30) DEF Spent

(* run is the search over its first N steps. *)
Searches(run, ts, N) ==
  run = [n \in 0 .. N |-> IF n = 0 THEN DfsStart ELSE DfsStep(ts, run[n - 1])]

(* One more step. *)
LEMMA SearchesOn ==
  ASSUME NEW ts, NEW n \in Nat, NEW f, Searches(f, ts, n)
  PROVE  \E g : Searches(g, ts, n + 1)
<1> DEFINE g == [k \in 0 .. n + 1 |-> IF k = n + 1 THEN DfsStep(ts, f[n]) ELSE f[k]]
<1>1. \A k \in 0 .. n : g[k] = f[k]
  OBVIOUS
<1>2. g[n + 1] = DfsStep(ts, f[n])
  OBVIOUS
<1>3. g = [k \in 0 .. n + 1 |-> g[k]]
  OBVIOUS
<1> HIDE DEF g
<1>4. ASSUME NEW k \in 0 .. n + 1
      PROVE g[k] = IF k = 0 THEN DfsStart ELSE DfsStep(ts, g[k - 1])
  <2>1. CASE k = n + 1
    <3>1. n \in 0 .. n /\ k - 1 = n /\ k # 0
      BY <2>1
    <3> QED BY <2>1, <3>1, <1>1, <1>2
  <2>2. CASE k # n + 1
    <3>1. k \in 0 .. n /\ (k # 0 => k - 1 \in 0 .. n)
      BY <2>2
    <3>2. f[k] = IF k = 0 THEN DfsStart ELSE DfsStep(ts, f[k - 1])
      BY <3>1 DEF Searches
    <3> QED BY <3>1, <3>2, <1>1
  <2> QED BY <2>1, <2>2
<1>5. Searches(g, ts, n + 1)
  BY <1>3, <1>4 DEF Searches
<1> QED BY <1>5

(* detect_cycles answers for any plan, repeated and missing ids and         *)
(* dependencies on nobody included: it reports a cycle exactly when some    *)
(* tasks wait for each other.                                              *)
THEOREM DetectCyclesExact ==
  ASSUME NEW ts, ts \in Seq(ToSet(ts)), \A t \in ToSet(ts) : IsFiniteSet(t.deps)
  PROVE  DetectCycles(ts) # {} <=> \E T : Trapped(ts, T)
<1> DEFINE V == NodesOf(ts)
           N == DfsSteps(ts)
           G == {n \in Nat : \E g : Searches(g, ts, n)}
<1>1. PlanOver(ts, V)
  BY NodesFinite
<1>2. DfsInv(ts, V, DfsStart) /\ Spent(DfsStart) = 0
  <2>1. /\ DfsStart.stack = <<>> /\ DfsStart.visited = {} /\ DfsStart.looked = {} /\ DfsStart.cycles = {}
        /\ DfsStart.next = 1 /\ DfsStart \in DfsStates(V)
    BY DEF DfsStart, DfsStates
  <2>2. Len(ts) \in Nat /\ Len(DfsStart.stack) = 0 /\ ToSet(DfsStart.stack) = {}
    BY <2>1 DEF ToSet
  <2>3. Gone(DfsStart) = {}
    BY <2>1 DEF Gone
  <2>4. Settled(ts, DfsStart)
    BY <2>1, <2>2, <2>3 DEF Settled, Trapped
  <2>5. DfsInv(ts, V, DfsStart)
    <3> HIDE DEF V
    <3> QED BY <2>1, <2>2, <2>4 DEF DfsInv
  <2> QED BY <2>1, <2>3, <2>5, FS_EmptySet DEF Spent
<1>3. N \in Nat
  BY <1>1, <1>2, SpentBound
<1>4. Nat \subseteq G
  <2>1. 0 \in G
    <3>1. Searches([k \in 0 .. 0 |-> DfsStart], ts, 0)
      BY DEF Searches
    <3> QED BY <3>1
  <2>2. \A n \in Nat : n \in G => n + 1 \in G
    BY SearchesOn
  <2> HIDE DEF G
  <2> QED BY <2>1, <2>2, AllNumbers
<1>5. Searches(CHOOSE g : Searches(g, ts, N), ts, N)
  <2> HIDE DEF N
  <2> QED BY <1>3, <1>4
<1>6. DetectCycles(ts) = (CHOOSE g : Searches(g, ts, N))[N].cycles
  BY Zenon DEF DetectCycles, Searches
<1>7. PICK run : Searches(run, ts, N) /\ DetectCycles(ts) = run[N].cycles
  BY <1>5, <1>6
<1> DEFINE H == {n \in Nat : n <= N => /\ DfsInv(ts, V, run[n])
                                       /\ Done(ts, run[n]) \/ Spent(run[n]) = n}
<1> HIDE DEF V, N
<1>8. 0 \in H
  <2>1. run[0] = DfsStart
    BY <1>3, <1>7 DEF Searches
  <2> QED BY <1>2, <2>1
<1>9. ASSUME NEW n \in Nat, n \in H PROVE n + 1 \in H
  <2> SUFFICES ASSUME n + 1 <= N
               PROVE  DfsInv(ts, V, run[n + 1]) /\ (Done(ts, run[n + 1]) \/ Spent(run[n + 1]) = n + 1)
    OBVIOUS
  <2>1. run[n + 1] = DfsStep(ts, run[n])
    <3>1. n + 1 \in 0 .. N /\ n + 1 # 0 /\ (n + 1) - 1 = n
      BY <1>3
    <3> QED BY <1>7, <3>1 DEF Searches
  <2>2. DfsInv(ts, V, run[n]) /\ (Done(ts, run[n]) \/ Spent(run[n]) = n)
    BY <1>3, <1>9
  <2> QED BY <1>1, <2>1, <2>2, DfsStepKeeps
<1>10. N \in H
  <2> HIDE DEF H
  <2> QED BY <1>3, <1>8, <1>9, AllNumbers
<1>11. DfsInv(ts, V, run[N]) /\ Done(ts, run[N])
  <2>1. DfsInv(ts, V, run[N]) /\ (Done(ts, run[N]) \/ Spent(run[N]) = N)
    BY <1>3, <1>10
  <2>2. CASE ~ Done(ts, run[N])
    <3>1. DfsInv(ts, V, DfsStep(ts, run[N])) /\ Spent(DfsStep(ts, run[N])) = N + 1
      BY <1>1, <2>1, <2>2, DfsStepKeeps
    <3>2. N + 1 <= N
      BY <1>1, <3>1, SpentBound DEF V, N
    <3> QED BY <1>3, <3>2
  <2> QED BY <2>1, <2>2
<1>12. DetectCycles(ts) # {} => \E T : Trapped(ts, T)
  BY <1>7, <1>11 DEF DfsInv
<1>13. ASSUME DetectCycles(ts) = {}, NEW T, Trapped(ts, T) PROVE FALSE
  <2>1. Settled(ts, run[N]) /\ Gone(run[N]) = run[N].visited
    <3>1. ToSet(run[N].stack) = {}
      BY <1>11 DEF Done, ToSet
    <3> QED BY <1>7, <1>11, <1>13, <3>1 DEF DfsInv, Gone
  <2>2. \A n \in 1 .. Len(ts) : NodeOf(ts[n]) \in run[N].visited
    <3>1. Len(ts) \in Nat /\ run[N].next \in 1 .. Len(ts) + 1 /\ run[N].next > Len(ts)
      BY <1>11 DEF DfsInv, Done
    <3>2. run[N].next - 1 = Len(ts)
      BY <3>1
    <3> QED BY <1>11, <3>2 DEF DfsInv
  <2>3. \A i \in T : \E n \in 1 .. Len(ts) : NodeOf(ts[n]) = i
    <3>1. ASSUME NEW i \in T PROVE \E n \in 1 .. Len(ts) : NodeOf(ts[n]) = i
      <4>1. DepsOf(ts, i) # {}
        BY <1>13 DEF Trapped
      <4>2. ~ (\E n \in 1 .. Len(ts) : NodeOf(ts[n]) = i) => DepsOf(ts, i) = {}
        BY <1>1, DepsOfOne
      <4> QED BY <4>1, <4>2
    <3> QED BY <3>1
  <2>4. T \in SUBSET Gone(run[N])
    BY <2>1, <2>2, <2>3
  <2> QED BY <1>13, <2>1, <2>4 DEF Settled
<1> QED BY <1>12, <1>13

(* A plan's list of errors names the graph exactly when one of its three    *)
(* checks of the graph objects.                                            *)
LEMMA DagErrors ==
  ASSUME NEW p, NEW d, p.flaws \cap DagFlaws = {}, \A t \in ToSet(p.tasks) : t.flaws \cap DagFlaws = {}
  PROVE  PlanErrors(p, d) \cap DagFlaws = {} <=>
           /\ \A t \in ToSet(p.tasks) : t.id # NoId
           /\ DetectCycles(p.tasks) = {} /\ DetectDangling(p.tasks) = {}
<1> DEFINE Nameless == \E t \in ToSet(p.tasks) : t.id = NoId
<1>1. \A t \in ToSet(p.tasks) : TaskErrors(t) \cap DagFlaws = IF t.id = NoId THEN {"missing"} ELSE {}
  BY DEF TaskErrors, DagFlaws
<1>2. (IF d = Unread THEN {} ELSE CrossCheck(p.tasks, d)) \cap DagFlaws = {}
  BY DEF CrossCheck, DagFlaws
<1>3. (IF p.tasks = <<>> THEN {"tasks"} ELSE {}) \cap DagFlaws = {}
  BY DEF DagFlaws
<1>4. \A e \in DagFlaws : (\E t \in ToSet(p.tasks) : e \in TaskErrors(t)) <=> e = "missing" /\ Nameless
  BY <1>1
<1>5. ASSUME NEW e \in DagFlaws
      PROVE  e \in PlanErrors(p, d) <=>
               \/ e = "missing" /\ Nameless
               \/ e = "cycle" /\ DetectCycles(p.tasks) # {}
               \/ e = "dangling" /\ DetectDangling(p.tasks) # {}
  <2>1. e \in UNION {TaskErrors(t) : t \in ToSet(p.tasks)} <=> e = "missing" /\ Nameless
    <3>1. e \in UNION {TaskErrors(t) : t \in ToSet(p.tasks)} <=> \E t \in ToSet(p.tasks) : e \in TaskErrors(t)
      BY Zenon
    <3> QED BY <1>4, <3>1
  <2>2. /\ e \notin p.flaws /\ e \notin (IF p.tasks = <<>> THEN {"tasks"} ELSE {})
        /\ e \notin (IF d = Unread THEN {} ELSE CrossCheck(p.tasks, d))
    BY <1>2, <1>3
  <2>3. (e \in IF DetectCycles(p.tasks) = {} THEN {} ELSE {"cycle"})
          <=> e = "cycle" /\ DetectCycles(p.tasks) # {}
    OBVIOUS
  <2>4. (e \in IF DetectDangling(p.tasks) = {} THEN {} ELSE {"dangling"})
          <=> e = "dangling" /\ DetectDangling(p.tasks) # {}
    OBVIOUS
  <2>5. e \in PlanErrors(p, d) <=>
          \/ e \in p.flaws \/ e \in (IF p.tasks = <<>> THEN {"tasks"} ELSE {})
          \/ e \in UNION {TaskErrors(t) : t \in ToSet(p.tasks)}
          \/ (e \in IF DetectCycles(p.tasks) = {} THEN {} ELSE {"cycle"})
          \/ (e \in IF DetectDangling(p.tasks) = {} THEN {} ELSE {"dangling"})
          \/ e \in (IF d = Unread THEN {} ELSE CrossCheck(p.tasks, d))
    <3> DEFINE A == p.flaws
               B == IF p.tasks = <<>> THEN {"tasks"} ELSE {}
               C == UNION {TaskErrors(t) : t \in ToSet(p.tasks)}
               D == IF DetectCycles(p.tasks) = {} THEN {} ELSE {"cycle"}
               E == IF DetectDangling(p.tasks) = {} THEN {} ELSE {"dangling"}
               F == IF d = Unread THEN {} ELSE CrossCheck(p.tasks, d)
    <3>1. PlanErrors(p, d) = A \cup B \cup C \cup D \cup E \cup F
      BY DEF PlanErrors
    <3> HIDE DEF A, B, C, D, E, F
    <3>2. e \in PlanErrors(p, d) <=> e \in A \/ e \in B \/ e \in C \/ e \in D \/ e \in E \/ e \in F
      BY <3>1
    <3> QED BY <3>2, Zenon DEF A, B, C, D, E, F
  <2> QED BY <2>1, <2>2, <2>3, <2>4, <2>5
<1>6. "missing" \in DagFlaws /\ "cycle" \in DagFlaws /\ "dangling" \in DagFlaws
  BY DEF DagFlaws
<1> QED BY <1>5, <1>6
-----------------------------------------------------------------------------
(* What "dag waves" is given of a plan.                                    *)
Handed(p) == [n \in DOMAIN p.tasks |-> [id |-> p.tasks[n].id, deps |-> p.tasks[n].deps]]

(* The plan whose waves are computed is the one that was judged.           *)
Judged ==
  /\ DOMAIN errors = {"spec", "tests", "plan", "scope"}
  /\ tests \in TestSpecs \cup {Unread}
  /\ plan # Unread => plan \in Plans(tests) /\ errors["plan"] = PlanErrors(plan, tests)
  /\ dag = "idle" => tasks = <<>> /\ completed = {} /\ remaining = {} /\ waves = <<>> /\ blocked = {}
  /\ dag # "idle" => plan # Unread /\ tasks = Handed(plan)

(* Every task has an id; no two tasks have the same.                       *)
AllNamed == \A n \in DOMAIN tasks : tasks[n].id # NoId
NoTwins == \A n, m \in DOMAIN tasks : tasks[n].id = tasks[m].id => n = m

(* What the loop keeps: it has still to hand out exactly the tasks whose id *)
(* is not out, each turn hands out at least one, and it blocks only when    *)
(* none is ready.  Of tasks with ids of their own it hands none out before  *)
(* what it waits for, so none of those that wait for each other.            *)
Turning ==
  /\ NoId \notin completed
  /\ completed \subseteq {tasks[n].id : n \in DOMAIN tasks}
  /\ remaining = {n \in DOMAIN tasks : tasks[n].id \notin completed}
  /\ waves \in Seq(SUBSET DOMAIN tasks)
  /\ blocked # {} => remaining # {} /\ Wave = {}
  /\ AllNamed => Len(waves) + Cardinality(remaining) <= Len(tasks)
  /\ AllNamed /\ NoTwins /\ dag # "idle" =>
       /\ \A n \in DOMAIN tasks : tasks[n].id \in completed => tasks[n].deps \subseteq completed
       /\ \A T : Trapped(plan.tasks, T) => T \cap completed = {}

(* The plan that was read is one of Plans. *)
LEMMA PlanFacts ==
  ASSUME Judged, plan # Unread
  PROVE  /\ plan.flaws \cap DagFlaws = {}
         /\ plan.tasks \in Seq(ToSet(plan.tasks))
         /\ \A t \in ToSet(plan.tasks) : IsFiniteSet(t.deps) /\ t.flaws \cap DagFlaws = {}
BY GateAssumption DEF Judged

(* What is handed to the loop has the plan's ids and dependencies.         *)
LEMMA HandedShape ==
  ASSUME NEW p, p.tasks \in Seq(ToSet(p.tasks))
  PROVE  LET h == Handed(p) IN
         /\ Len(h) \in Nat /\ Len(h) = Len(p.tasks) /\ DOMAIN h = 1 .. Len(h) /\ DOMAIN p.tasks = 1 .. Len(h)
         /\ \A n \in 1 .. Len(h) : h[n].id = p.tasks[n].id /\ h[n].deps = p.tasks[n].deps
         /\ IsFiniteSet(1 .. Len(h)) /\ Cardinality(1 .. Len(h)) = Len(h)
<1>1. PICK m \in Nat : m = Len(p.tasks) /\ DOMAIN p.tasks = 1 .. m
  OBVIOUS
<1>2. PICK h : h = Handed(p)
  OBVIOUS
<1>3. h = [n \in 1 .. m |-> [id |-> p.tasks[n].id, deps |-> p.tasks[n].deps]]
  BY <1>1, <1>2 DEF Handed
<1>4. Len(h) = m /\ DOMAIN h = 1 .. m
  <2>1. h \in Seq({h[n] : n \in 1 .. m})
    <3>1. \A S, f : f = [n \in 1 .. m |-> f[n]] /\ (\A n \in 1 .. m : f[n] \in S) => f \in Seq(S)
      BY <1>1
    <3> QED BY <1>3, <3>1
  <2>2. DOMAIN h = 1 .. m
    BY <1>3
  <2> QED BY <1>1, <2>1, <2>2
<1>5. IsFiniteSet(1 .. m) /\ Cardinality(1 .. m) = m
  <2>1. 1 \in Int /\ m \in Int
    OBVIOUS
  <2>2. IsFiniteSet(1 .. m) /\ Cardinality(1 .. m) = IF 1 > m THEN 0 ELSE m - 1 + 1
    BY <2>1, FS_Interval
  <2> QED BY <2>2
<1> QED BY <1>1, <1>2, <1>3, <1>4, <1>5

(* The tasks of the loop are those of the plan, place by place.            *)
LEMMA HandedFacts ==
  ASSUME Judged, dag # "idle"
  PROVE  /\ Len(tasks) \in Nat /\ Len(tasks) = Len(plan.tasks)
         /\ DOMAIN tasks = 1 .. Len(tasks) /\ DOMAIN plan.tasks = 1 .. Len(tasks)
         /\ \A n \in 1 .. Len(tasks) : tasks[n].id = plan.tasks[n].id /\ tasks[n].deps = plan.tasks[n].deps
         /\ IsFiniteSet(1 .. Len(tasks)) /\ Cardinality(1 .. Len(tasks)) = Len(tasks)
<1>1. tasks = Handed(plan) /\ plan.tasks \in Seq(ToSet(plan.tasks))
  BY PlanFacts DEF Judged
<1> QED BY <1>1, HandedShape

(* The dependencies dfs sees of an id are those of a task with this id; of  *)
(* the only one, when ids are not repeated.                                *)
LEMMA SeenDeps ==
  ASSUME Judged, dag # "idle", AllNamed, NEW i
  PROVE  /\ (\E n \in DOMAIN tasks : tasks[n].id = i) =>
              \E n \in DOMAIN tasks : tasks[n].id = i /\ DepsOf(plan.tasks, i) = tasks[n].deps
         /\ DepsOf(plan.tasks, i) # {} => \E n \in DOMAIN tasks : tasks[n].id = i
<1>1. PlanOver(plan.tasks, NodesOf(plan.tasks))
  BY PlanFacts, NodesFinite DEF Judged
<1>2. \A n \in 1 .. Len(tasks) : NodeOf(plan.tasks[n]) = tasks[n].id
  BY HandedFacts DEF AllNamed, NodeOf
<1>3. /\ (\E n \in 1 .. Len(plan.tasks) : NodeOf(plan.tasks[n]) = i) =>
           \E n \in 1 .. Len(plan.tasks) :
             NodeOf(plan.tasks[n]) = i /\ DepsOf(plan.tasks, i) = plan.tasks[n].deps
      /\ ~ (\E n \in 1 .. Len(plan.tasks) : NodeOf(plan.tasks[n]) = i) => DepsOf(plan.tasks, i) = {}
  BY <1>1, DepsOfOne
<1> QED BY <1>2, <1>3, HandedFacts

-----------------------------------------------------------------------------
(* What the loop keeps, from one turn to the next.                         *)
LEMMA TurnKeeps ==
  ASSUME Judged, dag # "idle", Turning, Judged', TurnWave, UNCHANGED gateVars
  PROVE  Turning'
<1>1. /\ tasks' = tasks /\ plan' = plan /\ dag' = dag /\ blocked' = blocked
      /\ completed' = completed \cup IdsOf(Wave)
      /\ remaining' = {n \in remaining : tasks[n].id \notin completed'}
      /\ waves' = Append(waves, Wave) /\ Wave # {} /\ dag = "turning"
  BY DEF TurnWave, gateVars
<1>2. Wave \subseteq remaining /\ remaining \subseteq DOMAIN tasks
  BY DEF Wave, Turning
<1>3. remaining' = {n \in DOMAIN tasks : tasks[n].id \notin completed'}
  BY <1>1 DEF Turning
<1>4. NoId \notin completed' /\ completed' \subseteq {tasks[n].id : n \in DOMAIN tasks}
  BY <1>1, <1>2 DEF Turning, IdsOf
<1>5. waves' \in Seq(SUBSET DOMAIN tasks) /\ Len(waves') = Len(waves) + 1 /\ Len(waves) \in Nat
  BY <1>1, <1>2 DEF Turning
<1>6. blocked' = {}
  BY <1>1 DEF Turning
<1>7. AllNamed => Len(waves') + Cardinality(remaining') <= Len(tasks)
  <2> SUFFICES ASSUME AllNamed PROVE Len(waves') + Cardinality(remaining') <= Len(tasks)
    OBVIOUS
  <2>1. PICK n \in Wave : TRUE
    BY <1>1
  <2>2. tasks[n].id \in completed'
    BY <1>1, <1>2, <2>1 DEF IdsOf, AllNamed
  <2>3. n \in remaining /\ n \notin remaining' /\ remaining' \in SUBSET remaining
    BY <1>1, <1>2, <2>2
  <2>4. IsFiniteSet(remaining)
    <3>1. IsFiniteSet(1 .. Len(tasks)) /\ remaining \in SUBSET (1 .. Len(tasks))
      BY <1>2, HandedFacts
    <3> QED BY <3>1, FS_Subset
  <2>5. /\ IsFiniteSet(remaining') /\ Cardinality(remaining') <= Cardinality(remaining)
        /\ Cardinality(remaining) = Cardinality(remaining') => remaining = remaining'
    BY <2>3, <2>4, FS_Subset
  <2>6. Cardinality(remaining) \in Nat /\ Cardinality(remaining') \in Nat /\ Len(tasks) \in Nat
    BY <2>4, <2>5, FS_CardinalityType, HandedFacts
  <2>7. Len(waves) + Cardinality(remaining) <= Len(tasks)
    BY DEF Turning
  <2> QED BY <1>5, <2>3, <2>5, <2>6, <2>7
<1>8. ASSUME AllNamed, NoTwins, NEW n \in DOMAIN tasks, tasks[n].id \in completed'
      PROVE  tasks[n].deps \subseteq completed
  <2>1. CASE tasks[n].id \in completed
    BY <1>1, <1>8, <2>1 DEF Turning
  <2>2. CASE tasks[n].id \in IdsOf(Wave)
    <3>1. PICK m \in Wave : tasks[m].id = tasks[n].id
      BY <2>2 DEF IdsOf
    <3>2. m = n
      BY <1>2, <1>8, <3>1 DEF NoTwins
    <3> QED BY <3>1, <3>2 DEF Wave, Ready
  <2> QED BY <1>1, <1>8, <2>1, <2>2
<1>9. ASSUME AllNamed, NoTwins, NEW T, Trapped(plan.tasks, T) PROVE T \cap completed' = {}
  <2>1. T \cap completed = {}
    BY <1>1, <1>9 DEF Turning
  <2>2. ASSUME NEW i \in T, i \in completed' PROVE FALSE
    <3>1. PICK e : e \in DepsOf(plan.tasks, i) \cap T
      BY <1>9 DEF Trapped
    <3>2. \E n \in DOMAIN tasks : tasks[n].id = i
      BY <1>1, <1>9, <3>1, SeenDeps
    <3>3. PICK n \in DOMAIN tasks : tasks[n].id = i /\ DepsOf(plan.tasks, i) = tasks[n].deps
      BY <1>1, <1>9, <3>2, SeenDeps
    <3>4. e \in completed
      BY <1>8, <1>9, <2>2, <3>1, <3>3
    <3> QED BY <2>1, <3>1, <3>4
  <2> QED BY <2>2
<1>10. \A n \in DOMAIN tasks :
         tasks[n].id \in completed' /\ AllNamed /\ NoTwins => tasks[n].deps \subseteq completed'
  BY <1>1, <1>8
<1>11. AllNamed' = AllNamed /\ NoTwins' = NoTwins
  BY <1>1 DEF AllNamed, NoTwins
<1> QED BY <1>1, <1>3, <1>4, <1>5, <1>6, <1>7, <1>9, <1>10, <1>11 DEF Turning

(* Handing the plan to the loop, and the end of the loop.                   *)
LEMMA StartKeeps ==
  ASSUME Judged, Judged', CmdWaves
  PROVE  Turning'
<1>1. /\ dag' # "idle" /\ completed' = {} /\ remaining' = DOMAIN tasks' /\ waves' = <<>> /\ blocked' = {}
  BY DEF CmdWaves, StartWaves
<1>2. Len(tasks') \in Nat /\ DOMAIN tasks' = 1 .. Len(tasks') /\ Cardinality(1 .. Len(tasks')) = Len(tasks')
  <2>1. tasks' = Handed(plan) /\ plan # Unread
    BY DEF CmdWaves, StartWaves, Handed
  <2>2. plan.tasks \in Seq(ToSet(plan.tasks))
    BY <2>1, PlanFacts
  <2> QED BY <2>1, <2>2, HandedShape
<1>3. Len(waves') = 0 /\ waves' \in Seq(SUBSET DOMAIN tasks')
  BY <1>1
<1> QED BY <1>1, <1>2, <1>3 DEF Turning

(* The plan whose waves are computed stays the one that was judged.        *)
LEMMA JudgedKept ==
  ASSUME Judged, [GateNext]_gateAll
  PROVE  Judged'
<1>1. \A g, r : LET e == [errors EXCEPT ![g] = r] IN
        DOMAIN e = DOMAIN errors /\ \A h \in DOMAIN errors : h # g => e[h] = errors[h]
  OBVIOUS
<1>2. "plan" \in DOMAIN errors /\ "plan" # "spec" /\ "plan" # "tests" /\ "plan" # "scope"
  BY DEF Judged
<1>3. CASE CmdSpec
  <2>1. /\ tests' = tests /\ plan' = plan /\ UNCHANGED waveVars
        /\ \E r : errors' = [errors EXCEPT !["spec"] = r]
    BY <1>3 DEF CmdSpec
  <2>2. DOMAIN errors' = DOMAIN errors /\ errors'["plan"] = errors["plan"]
    BY <1>1, <1>2, <2>1
  <2> QED BY <2>1, <2>2 DEF Judged, waveVars
<1>4. CASE CmdTests
  <2>1. /\ tests' \in TestSpecs /\ plan' = plan /\ plan = Unread /\ UNCHANGED waveVars
        /\ \E r : errors' = [errors EXCEPT !["tests"] = r]
    BY <1>4 DEF CmdTests
  <2>2. DOMAIN errors' = DOMAIN errors
    BY <1>1, <2>1
  <2> QED BY <2>1, <2>2 DEF Judged, waveVars
<1>5. CASE CmdPlan
  <2>1. /\ tests' = tests /\ plan = Unread /\ UNCHANGED waveVars /\ plan' \in Plans(tests)
        /\ errors' = [errors EXCEPT !["plan"] = PlanErrors(plan', tests)]
    BY <1>5 DEF CmdPlan
  <2>2. DOMAIN errors' = DOMAIN errors /\ errors'["plan"] = PlanErrors(plan', tests')
    BY <1>2, <2>1
  <2> QED BY <2>1, <2>2 DEF Judged, waveVars
<1>6. CASE CmdWaves
  BY <1>6 DEF CmdWaves, StartWaves, Handed, gateVars, Judged
<1>7. CASE TurnWaves
  BY <1>7 DEF TurnWaves, WavesNext, TurnWave, TurnBlocked, PrintWaves, gateVars, Judged
<1>8. CASE CmdResolve
  BY <1>8 DEF CmdResolve, waveVars, Judged
<1>9. CASE CmdScope
  <2>1. /\ tests' = tests /\ plan' = plan /\ UNCHANGED waveVars
        /\ \E r : errors' = [errors EXCEPT !["scope"] = r]
    BY <1>9 DEF CmdScope
  <2>2. DOMAIN errors' = DOMAIN errors /\ errors'["plan"] = errors["plan"]
    BY <1>1, <1>2, <2>1
  <2> QED BY <2>1, <2>2 DEF Judged, waveVars
<1>10. CASE UNCHANGED gateAll
  BY <1>10 DEF gateAll, gateVars, waveVars, Judged
<1> QED BY <1>3, <1>4, <1>5, <1>6, <1>7, <1>8, <1>9, <1>10 DEF GateNext

(* So does what the loop keeps.                                            *)
LEMMA TurningKept ==
  ASSUME Judged, Judged', Turning, [GateNext]_gateAll
  PROVE  Turning'
<1>1. CASE CmdWaves
  BY <1>1, StartKeeps
<1>2. ASSUME UNCHANGED waveVars, dag # "idle" => plan' = plan
      PROVE  Turning'
  BY <1>2 DEF waveVars, Turning, AllNamed, NoTwins, Wave, Ready
<1>3. CASE TurnWaves
  <2>1. plan' = plan /\ UNCHANGED gateVars
    BY <1>3 DEF TurnWaves, gateVars
  <2>2. CASE TurnWave
    <3>1. dag # "idle"
      BY <2>2 DEF TurnWave
    <3> QED BY <2>1, <2>2, <3>1, TurnKeeps
  <2>3. CASE TurnBlocked
    <3>1. /\ remaining # {} /\ Wave = {} /\ dag # "idle"
          /\ UNCHANGED <<tasks, completed, remaining, waves>>
      BY <2>3 DEF TurnBlocked
    <3>2. Wave' = Wave /\ AllNamed' = AllNamed /\ NoTwins' = NoTwins
      BY <3>1 DEF Wave, Ready, AllNamed, NoTwins
    <3> QED BY <2>1, <3>1, <3>2 DEF Turning
  <2>4. CASE PrintWaves
    <3>1. dag # "idle" /\ UNCHANGED <<tasks, completed, remaining, waves, blocked>>
      BY <2>4 DEF PrintWaves
    <3>2. Wave' = Wave /\ AllNamed' = AllNamed /\ NoTwins' = NoTwins
      BY <3>1 DEF Wave, Ready, AllNamed, NoTwins
    <3> QED BY <2>1, <3>1, <3>2 DEF Turning
  <2> QED BY <1>3, <2>2, <2>3, <2>4 DEF TurnWaves, WavesNext
<1>4. CASE CmdSpec \/ CmdTests \/ CmdPlan \/ CmdResolve \/ CmdScope \/ UNCHANGED gateAll
  <2>1. UNCHANGED waveVars /\ (dag # "idle" => plan' = plan)
    BY <1>4 DEF CmdSpec, CmdTests, CmdPlan, CmdResolve, CmdScope, gateAll, gateVars, Judged
  <2> QED BY <1>2, <2>1
<1> QED BY <1>1, <1>3, <1>4 DEF GateNext

(* A graph the plan gate does not object to never blocks the loop.         *)
LEMMA AcceptedRuns ==
  ASSUME Judged, Turning, dag # "idle", errors["plan"] \cap DagFlaws = {}
  PROVE  blocked = {} /\ Len(waves) <= Len(tasks)
<1>1. /\ \A t \in ToSet(plan.tasks) : t.id # NoId
      /\ DetectCycles(plan.tasks) = {} /\ DetectDangling(plan.tasks) = {}
  <2>1. plan.flaws \cap DagFlaws = {} /\ \A t \in ToSet(plan.tasks) : t.flaws \cap DagFlaws = {}
    BY PlanFacts DEF Judged
  <2>2. PlanErrors(plan, tests) \cap DagFlaws = {}
    BY DEF Judged
  <2> QED BY <2>1, <2>2, DagErrors
<1>2. \A n \in DOMAIN tasks : plan.tasks[n] \in ToSet(plan.tasks)
  BY HandedFacts DEF ToSet
<1>3. AllNamed
  BY <1>1, <1>2, HandedFacts DEF AllNamed
<1>4. ~ \E T : Trapped(plan.tasks, T)
  <2>1. plan.tasks \in Seq(ToSet(plan.tasks)) /\ \A t \in ToSet(plan.tasks) : IsFiniteSet(t.deps)
    BY PlanFacts DEF Judged
  <2> QED BY <1>1, <2>1, DetectCyclesExact
<1>5. \A n \in DOMAIN tasks : tasks[n].deps \subseteq {tasks[k].id : k \in DOMAIN tasks}
  <2> SUFFICES ASSUME NEW n \in DOMAIN tasks, NEW d \in tasks[n].deps
               PROVE  \E k \in DOMAIN tasks : d = tasks[k].id
    OBVIOUS
  <2>1. d \in UNION {t.deps : t \in ToSet(plan.tasks)}
    BY <1>2, HandedFacts
  <2>2. d \in {t.id : t \in ToSet(plan.tasks)}
    BY <1>1, <2>1 DEF DetectDangling
  <2>3. PICK k \in DOMAIN plan.tasks : d = plan.tasks[k].id
    BY <2>2 DEF ToSet
  <2> QED BY <2>3, HandedFacts
<1>6. ASSUME blocked # {} PROVE FALSE
  <2> DEFINE T == {tasks[n].id : n \in remaining}
  <2>1. remaining # {} /\ Wave = {} /\ remaining = {n \in DOMAIN tasks : tasks[n].id \notin completed}
    BY <1>6 DEF Turning
  <2>2. ASSUME NEW i \in T PROVE DepsOf(plan.tasks, i) \cap T # {}
    <3>1. i \notin completed /\ \E n \in DOMAIN tasks : tasks[n].id = i
      BY <2>1
    <3>2. PICK m \in DOMAIN tasks : tasks[m].id = i /\ DepsOf(plan.tasks, i) = tasks[m].deps
      BY <1>3, <3>1, SeenDeps
    <3>3. m \in remaining /\ ~ tasks[m].deps \subseteq completed
      BY <2>1, <3>1, <3>2 DEF Wave, Ready
    <3>4. PICK d \in tasks[m].deps : d \notin completed
      BY <3>3
    <3>5. PICK k \in DOMAIN tasks : d = tasks[k].id
      BY <1>5, <3>4
    <3> QED BY <2>1, <3>2, <3>4, <3>5
  <2>3. Trapped(plan.tasks, T)
    BY <2>1, <2>2 DEF Trapped
  <2> QED BY <1>4, <2>3
<1>7. Len(waves) <= Len(tasks)
  <2>1. remaining \in SUBSET (1 .. Len(tasks)) /\ IsFiniteSet(1 .. Len(tasks))
    BY HandedFacts DEF Turning
  <2>2. Cardinality(remaining) \in Nat
    BY <2>1, FS_Subset, FS_CardinalityType
  <2>3. Len(waves) \in Nat /\ Len(tasks) \in Nat /\ Len(waves) + Cardinality(remaining) <= Len(tasks)
    BY <1>3, HandedFacts DEF Turning
  <2> QED BY <2>2, <2>3
<1> QED BY <1>6, <1>7

(* Of a plan of distinct ids that the loop hands out to the end the gate    *)
(* has nothing to say about its graph.                                     *)
LEMMA RunsAccepted ==
  ASSUME Judged, Turning, dag # "idle", remaining = {},
         Cardinality({t.id : t \in ToSet(tasks)}) = Len(tasks)
  PROVE  errors["plan"] \cap DagFlaws = {}
<1>1. \A n \in DOMAIN tasks : tasks[n].id \in completed
  BY DEF Turning
<1>2. AllNamed
  BY <1>1 DEF AllNamed, Turning
<1>3. NoTwins
  <2> DEFINE f == [n \in 1 .. Len(tasks) |-> tasks[n].id]
             S == 1 .. Len(tasks)
  <2>1. {t.id : t \in ToSet(tasks)} = {f[n] : n \in S}
    BY HandedFacts DEF ToSet
  <2>2. IsFiniteSet(S) /\ Cardinality(S) = Len(tasks)
    BY HandedFacts
  <2>3. Cardinality({f[n] : n \in S}) = Cardinality(S)
    BY <2>1, <2>2
  <2>4. \A n, m \in S : f[n] = f[m] => n = m
    BY <2>2, <2>3, ImageFinite
  <2> QED BY <2>4, HandedFacts DEF NoTwins
<1>4. DetectDangling(plan.tasks) = {}
  <2> SUFFICES ASSUME NEW d, d \in DetectDangling(plan.tasks) PROVE FALSE
    OBVIOUS
  <2>1. PICK n \in DOMAIN plan.tasks : d \in plan.tasks[n].deps
    BY DEF DetectDangling, ToSet
  <2>2. d \in completed
    BY <1>1, <1>2, <1>3, <2>1, HandedFacts DEF Turning
  <2>3. PICK m \in DOMAIN tasks : d = tasks[m].id
    BY <2>2 DEF Turning
  <2>4. plan.tasks[m] \in ToSet(plan.tasks) /\ plan.tasks[m].id = d
    BY <2>3, HandedFacts DEF ToSet
  <2> QED BY <2>4 DEF DetectDangling
<1>5. ~ \E T : Trapped(plan.tasks, T)
  <2> SUFFICES ASSUME NEW T, Trapped(plan.tasks, T) PROVE FALSE
    OBVIOUS
  <2>1. T \cap completed = {}
    BY <1>2, <1>3 DEF Turning
  <2>2. PICK i \in T : DepsOf(plan.tasks, i) # {}
    BY DEF Trapped
  <2>3. \E n \in DOMAIN tasks : tasks[n].id = i
    BY <1>2, <2>2, SeenDeps
  <2> QED BY <1>1, <2>1, <2>2, <2>3
<1>6. DetectCycles(plan.tasks) = {}
  <2>1. plan.tasks \in Seq(ToSet(plan.tasks)) /\ \A t \in ToSet(plan.tasks) : IsFiniteSet(t.deps)
    BY PlanFacts DEF Judged
  <2> QED BY <1>5, <2>1, DetectCyclesExact
<1>7. \A t \in ToSet(plan.tasks) : t.id # NoId
  BY <1>2, HandedFacts DEF AllNamed, ToSet
<1>8. plan.flaws \cap DagFlaws = {} /\ \A t \in ToSet(plan.tasks) : t.flaws \cap DagFlaws = {}
  BY PlanFacts DEF Judged
<1>9. PlanErrors(plan, tests) \cap DagFlaws = {}
  BY <1>4, <1>6, <1>7, <1>8, DagErrors
<1> QED BY <1>9 DEF Judged

(* A plan whose graph the gate accepts runs to its end, one wave a turn,    *)
(* and one that runs to its end is not objected to: the gate and the loop   *)
(* agree on every plan, whatever its size and shape.                       *)
THEOREM PlansRun == GateSpec => []AcceptedPlanRuns
<1>1. GateInit => Judged /\ Turning
  <2> SUFFICES ASSUME GateInit PROVE Judged /\ Turning
    OBVIOUS
  <2>1. Judged
    BY DEF GateInit, WavesInit, Judged
  <2>2. Len(<<>>) = 0 /\ <<>> \in Seq(SUBSET DOMAIN <<>>) /\ DOMAIN <<>> = {}
    OBVIOUS
  <2>3. Turning
    BY <2>2, FS_EmptySet DEF GateInit, WavesInit, Turning
  <2> QED BY <2>1, <2>3
<1>2. Judged /\ Turning /\ [GateNext]_gateAll => Judged' /\ Turning'
  <2> SUFFICES ASSUME Judged, Turning, [GateNext]_gateAll PROVE Judged' /\ Turning'
    OBVIOUS
  <2>1. Judged'
    BY JudgedKept
  <2>2. Turning'
    BY <2>1, TurningKept
  <2> QED BY <2>1, <2>2
<1>3. Judged /\ Turning => AcceptedPlanRuns
  BY AcceptedRuns, RunsAccepted DEF AcceptedPlanRuns
<1> QED BY <1>1, <1>2, <1>3, PTL DEF GateSpec

-----------------------------------------------------------------------------
(* References and commits.                                                 *)

(* Whatever a fragment is taken for, it is a file of the workspace.        *)
LEMMA FuzzyFiles ==
  ASSUME NEW q
  PROVE  \A p \in FuzzyMatch(q) : Exists(p)
<1>1. Tree \subseteq Files
  BY DEF Tree
<1>2. FuzzyMatch(q) \subseteq Tree
  BY Zenon DEF FuzzyMatch
<1> QED BY <1>1, <1>2 DEF Exists

(* A reference is left alone or becomes that of a file, absolute in both    *)
(* cases.                                                                  *)
LEMMA ResolvedShape ==
  ASSUME NEW r, r = [abs |-> r.abs, path |-> r.path]
  PROVE  /\ ResolvePath(r) = [abs |-> TRUE, path |-> ResolvePath(r).path]
         /\ Exists(r.path) => ResolvePath(r).path = r.path
         /\ ResolvePath(r).path = r.path \/ Exists(ResolvePath(r).path)
<1> DEFINE found == IF FuzzyMatch(r.path) # {} \/ ~ r.abs THEN FuzzyMatch(r.path)
                    ELSE FuzzyMatch(<<Last(r.path)>>)
<1>1. \A p \in found : Exists(p)
  BY FuzzyFiles
<1>2. ResolvePath(r) = IF Exists(r.path) \/ found = {} THEN [r EXCEPT !.abs = TRUE]
                       ELSE [r EXCEPT !.abs = TRUE, !.path = CHOOSE p \in found : TRUE]
  BY Zenon DEF ResolvePath
<1> HIDE DEF found
<1>3. [r EXCEPT !.abs = TRUE] = [abs |-> TRUE, path |-> r.path]
  <2>1. PICK t : t = [r EXCEPT !.abs = TRUE]
    OBVIOUS
  <2>2. r \in [abs : {r.abs}, path : {r.path}]
    OBVIOUS
  <2>3. t.abs = TRUE /\ t.path = r.path /\ t \in [abs : {TRUE}, path : {r.path}]
    BY <2>1, <2>2
  <2> QED BY <2>1, <2>3
<1>4. ASSUME NEW q PROVE [r EXCEPT !.abs = TRUE, !.path = q] = [abs |-> TRUE, path |-> q]
  <2>1. PICK t : t = [r EXCEPT !.abs = TRUE, !.path = q]
    OBVIOUS
  <2>2. r \in [abs : {r.abs}, path : {r.path}]
    OBVIOUS
  <2>3. t.abs = TRUE /\ t.path = q /\ t \in [abs : {TRUE}, path : {q}]
    BY <2>1, <2>2
  <2> QED BY <2>1, <2>3
<1>6. CASE Exists(r.path) \/ found = {}
  BY <1>2, <1>3, <1>6
<1>7. CASE ~ (Exists(r.path) \/ found = {})
  <2>1. PICK q : q = CHOOSE p \in found : TRUE
    OBVIOUS
  <2>2. Exists(q) /\ ResolvePath(r) = [abs |-> TRUE, path |-> q]
    BY <1>1, <1>2, <1>4, <1>7, <2>1
  <2> QED BY <1>7, <2>2
<1> QED BY <1>6, <1>7

(* An absolute reference that was resolved once does not move again.       *)
LEMMA ResolvedStays ==
  ASSUME NEW r, r = [abs |-> TRUE, path |-> r.path]
  PROVE  ResolvePath(ResolvePath(r)) = ResolvePath(r)
<1>1. PICK q : q = ResolvePath(r)
  OBVIOUS
<1>2. /\ q = [abs |-> TRUE, path |-> q.path]
      /\ q.path = r.path \/ Exists(q.path)
  <2>1. r.abs = TRUE /\ r = [abs |-> r.abs, path |-> r.path]
    OBVIOUS
  <2> QED BY <1>1, <2>1, ResolvedShape
<1>3. CASE q.path = r.path
  <2>1. q = r
    BY <1>2, <1>3
  <2> QED BY <1>1, <2>1
<1>4. CASE Exists(q.path)
  <2>1. /\ ResolvePath(q) = [abs |-> TRUE, path |-> ResolvePath(q).path]
        /\ ResolvePath(q).path = q.path
    <3>1. q.abs = TRUE /\ q = [abs |-> q.abs, path |-> q.path]
      BY <1>2
    <3> QED BY <1>4, <3>1, ResolvedShape
  <2> QED BY <1>1, <1>2, <2>1
<1> QED BY <1>2, <1>3, <1>4

(* Where the workspace is the root itself, or the commit deletes nothing,   *)
(* two names of one file are compared as one.                              *)
LEMMA ScopeAnswer ==
  ASSUME NEW c \in Commits, c.workspace = "root" \/ c.deleted = {}
  PROVE  ScopeErrors(c) = {} <=> c.parents <= 1 /\ c.changed \subseteq c.files
<1> DEFINE declared == {Against(c.workspace, p, c) : p \in c.files}
           touched == {p \in c.changed : Against("root", p, c) \notin declared}
<1>1. \A p : Against(c.workspace, p, c) = <<"root", p>> /\ Against("root", p, c) = <<"root", p>>
  BY DEF Against
<1>2. \A p, q : <<"root", p>> = <<"root", q>> => p = q
  OBVIOUS
<1>3. touched = {} <=> c.changed \subseteq c.files
  BY <1>1, <1>2
<1>4. c.parents \in Nat
  BY GateAssumption
<1>5. ScopeErrors(c) = IF c.parents > 1 THEN {"merge"} ELSE IF touched = {} THEN {} ELSE {"scope"}
  BY Zenon DEF ScopeErrors
<1> HIDE DEF touched
<1> QED BY <1>3, <1>4, <1>5

(* A reference of the plan that "plan resolve" was run on is of this form,  *)
(* what it became absolute and, once it was resolved again, at rest.       *)
AtRest ==
  /\ DOMAIN errors = {"spec", "tests", "plan", "scope"}
  /\ commit # Unread => commit \in Commits /\ errors["scope"] = ScopeErrors(commit)
  /\ ref # Unread =>
       /\ ref = [was |-> ref.was, now |-> ref.now, runs |-> ref.runs]
       /\ ref.runs \in Nat \ {0}
       /\ ref.now = [abs |-> TRUE, path |-> ref.now.path]
       /\ Exists(ref.was.path) => ref.now.path = ref.was.path
       /\ ref.runs > 1 => ResolvePath(ref.now) = ref.now

(* "plan resolve", run for the first time and again, keeps this.           *)
LEMMA ResolveKeeps ==
  ASSUME AtRest, CmdResolve
  PROVE  AtRest'
<1>1. UNCHANGED <<errors, commit>>
  BY DEF CmdResolve
<1>2. CASE ref = Unread
  <2>1. PICK r \in Refs : ref' = [was |-> r, now |-> ResolvePath(r), runs |-> 1]
    BY <1>2 DEF CmdResolve
  <2>2. r = [abs |-> r.abs, path |-> r.path]
    BY GateAssumption
  <2>3. /\ ResolvePath(r) = [abs |-> TRUE, path |-> ResolvePath(r).path]
        /\ Exists(r.path) => ResolvePath(r).path = r.path
    BY <2>2, ResolvedShape
  <2>4. ref'.was = r /\ ref'.now = ResolvePath(r) /\ ref'.runs = 1
    BY <2>1
  <2> QED BY <1>1, <2>1, <2>3, <2>4 DEF AtRest
<1>3. CASE ref # Unread
  <2>1. ref' = [ref EXCEPT !.now = ResolvePath(ref.now), !.runs = ref.runs + 1]
    BY <1>3 DEF CmdResolve
  <2>2. PICK w, q, k : w = ref.was /\ q = ref.now /\ k = ref.runs
    OBVIOUS
  <2>3. /\ ref = [was |-> w, now |-> q, runs |-> k] /\ k \in Nat \ {0}
        /\ q = [abs |-> TRUE, path |-> q.path]
        /\ Exists(w.path) => q.path = w.path
    BY <1>3, <2>2 DEF AtRest
  <2>4. PICK e, l : e = ResolvePath(q) /\ l = k + 1
    OBVIOUS
  <2>5. ref' = [was |-> w, now |-> e, runs |-> l] /\ ref'.was = w /\ ref'.now = e /\ ref'.runs = l
    <3>1. ref \in [was : {w}, now : {q}, runs : {k}]
      BY <2>3
    <3>2. ref' = [ref EXCEPT !.now = e, !.runs = l]
      BY <2>1, <2>2, <2>4
    <3>3. ref' \in [was : {w}, now : {e}, runs : {l}]
      BY <3>1, <3>2
    <3> QED BY <3>3
  <2>6. /\ e = [abs |-> TRUE, path |-> e.path]
        /\ Exists(q.path) => e.path = q.path
    <3>1. q.abs = TRUE /\ q = [abs |-> q.abs, path |-> q.path]
      BY <2>3
    <3> QED BY <2>4, <3>1, ResolvedShape
  <2>7. ResolvePath(e) = e
    <3>1. ResolvePath(ResolvePath(q)) = ResolvePath(q)
      BY <2>3, ResolvedStays
    <3> QED BY <2>4, <3>1
  <2>8. l \in Nat \ {0}
    BY <2>3, <2>4
  <2>9. Exists(w.path) => e.path = w.path
    BY <2>3, <2>6
  <2> QED BY <1>1, <2>5, <2>6, <2>7, <2>8, <2>9 DEF AtRest
<1> QED BY <1>2, <1>3

(* Run after run, "plan resolve" and "validate scope" answer as they should *)
(* of every workspace, reference and commit.                               *)
THEOREM GatesAnswerExact == GateSpec => []GatesExact
<1>1. GateInit => AtRest
  BY DEF GateInit, AtRest
<1>2. AtRest /\ [GateNext]_gateAll => AtRest'
  <2> SUFFICES ASSUME AtRest, [GateNext]_gateAll PROVE AtRest'
    OBVIOUS
  <2>1. \A g, r : LET e == [errors EXCEPT ![g] = r] IN
          DOMAIN e = DOMAIN errors /\ \A h \in DOMAIN errors : h # g => e[h] = errors[h]
    OBVIOUS
  <2>2. "scope" \in DOMAIN errors /\ "scope" # "spec" /\ "scope" # "tests" /\ "scope" # "plan"
    BY DEF AtRest
  <2>3. CASE CmdSpec \/ CmdTests \/ CmdPlan
    <3>1. /\ UNCHANGED <<ref, commit>>
          /\ \E g \in {"spec", "tests", "plan"} : \E r : errors' = [errors EXCEPT ![g] = r]
      BY <2>3 DEF CmdSpec, CmdTests, CmdPlan
    <3>2. DOMAIN errors' = DOMAIN errors /\ errors'["scope"] = errors["scope"]
      BY <2>1, <2>2, <3>1
    <3> QED BY <3>1, <3>2 DEF AtRest
  <2>4. CASE CmdResolve
    BY <2>4, ResolveKeeps
  <2>5. CASE CmdScope
    <3>1. /\ ref' = ref /\ commit' \in Commits
          /\ errors' = [errors EXCEPT !["scope"] = ScopeErrors(commit')]
      BY <2>5 DEF CmdScope
    <3>2. DOMAIN errors' = DOMAIN errors /\ errors'["scope"] = ScopeErrors(commit')
      BY <2>2, <3>1
    <3> QED BY <3>1, <3>2 DEF AtRest
  <2>6. CASE CmdWaves \/ TurnWaves \/ UNCHANGED gateAll
    BY <2>6 DEF CmdWaves, TurnWaves, gateAll, gateVars, AtRest
  <2> QED BY <2>3, <2>4, <2>5, <2>6 DEF GateNext
<1>3. AtRest => GatesExact
  <2> SUFFICES ASSUME AtRest PROVE ReferencesSettle /\ ScopeExact
    BY DEF GatesExact
  <2>1. ReferencesSettle
    BY DEF AtRest, ReferencesSettle
  <2>2. ScopeExact
    BY ScopeAnswer DEF AtRest, ScopeExact
  <2> QED BY <2>1, <2>2
<1> QED BY <1>1, <1>2, <1>3, PTL DEF GateSpec
-----------------------------------------------------------------------------
(* The files of a session                                                  *)

DocLines == (UNION {ToSet(doc) : doc \in Docs}) \cup (UNION {ToSet(block) : block \in Blocks}) \cup {StartMark, EndMark}
Clean == {doc \in Seq(DocLines) : Lined(doc, StartMark) = {} /\ Lined(doc, EndMark) = {}}
Around(pre, block, post) == (pre \o Wrapped(block)) \o post
OpensAt(pre) == Len(pre) + 1
ClosesAt(pre, block) == Len(pre) + Len(block) + 2

(* A sequence put behind another one.                                      *)
LEMMA Joined ==
  ASSUME NEW S, NEW s \in Seq(S), NEW t \in Seq(S)
  PROVE  /\ s \o t \in Seq(S) /\ Len(s) \in Nat /\ Len(t) \in Nat /\ Len(s \o t) = Len(s) + Len(t)
         /\ DOMAIN (s \o t) = 1 .. Len(s) + Len(t)
         /\ \A i \in 1 .. Len(s) : (s \o t)[i] = s[i]
         /\ \A i \in 1 .. Len(t) : (s \o t)[Len(s) + i] = t[i]
<1>1. ASSUME NEW i \in 1 .. Len(s) PROVE (s \o t)[i] = s[i]
  OBVIOUS
<1>2. ASSUME NEW i \in 1 .. Len(t) PROVE (s \o t)[Len(s) + i] = t[i]
  OBVIOUS
<1> QED BY <1>1, <1>2

(* The block between the two markers.                                      *)
LEMMA BlockLines ==
  ASSUME NEW block \in Clean
  PROVE  /\ Wrapped(block) \in Seq(DocLines) /\ Len(block) \in Nat /\ Len(Wrapped(block)) = Len(block) + 2
         /\ Wrapped(block)[1] = StartMark /\ Wrapped(block)[Len(block) + 2] = EndMark
         /\ \A i \in 1 .. Len(block) : Wrapped(block)[i + 1] = block[i]
<1>1. block \in Seq(DocLines) /\ <<StartMark>> \in Seq(DocLines) /\ <<EndMark>> \in Seq(DocLines)
  BY DEF Clean, DocLines
<1>2. PICK h : h = <<StartMark>> \o block
  OBVIOUS
<1>3. /\ h \in Seq(DocLines) /\ Len(h) = Len(block) + 1 /\ Len(block) \in Nat /\ h[1] = StartMark
      /\ \A i \in 1 .. Len(block) : h[1 + i] = block[i]
  BY <1>1, <1>2
<1>4. PICK w : w = h \o <<EndMark>>
  OBVIOUS
<1>5. /\ w \in Seq(DocLines) /\ Len(w) = Len(h) + 1 /\ w[Len(h) + 1] = EndMark
      /\ \A i \in 1 .. Len(h) : w[i] = h[i]
  BY <1>1, <1>3, <1>4
<1>6. w = Wrapped(block)
  BY <1>2, <1>4 DEF Wrapped
<1>7. w[1] = StartMark
  BY <1>3, <1>5
<1>8. ASSUME NEW i \in 1 .. Len(block) PROVE w[i + 1] = block[i]
  <2>1. i + 1 \in 1 .. Len(h) /\ i + 1 = 1 + i
    BY <1>3
  <2> QED BY <1>3, <1>5, <2>1
<1> QED BY <1>3, <1>5, <1>6, <1>7, <1>8

(* A document with one block, taken apart.                                 *)
LEMMA AroundApart ==
  ASSUME NEW pre \in Clean, NEW block \in Clean, NEW post \in Clean
  PROVE  /\ OpensAt(pre) \in Nat /\ ClosesAt(pre, block) \in Nat /\ OpensAt(pre) < ClosesAt(pre, block)
         /\ Around(pre, block, post) \in Seq(DocLines)
         /\ OpensAt(pre) \in DOMAIN Around(pre, block, post) /\ ClosesAt(pre, block) \in DOMAIN Around(pre, block, post)
         /\ Lined(Around(pre, block, post), StartMark) = {OpensAt(pre)}
         /\ Lined(Around(pre, block, post), EndMark) = {ClosesAt(pre, block)}
         /\ SubSeq(Around(pre, block, post), 1, OpensAt(pre) - 1) = pre
         /\ SubSeq(Around(pre, block, post), ClosesAt(pre, block) + 1, Len(Around(pre, block, post))) = post
<1>1. pre \in Seq(DocLines) /\ block \in Seq(DocLines) /\ post \in Seq(DocLines)
  BY DEF Clean
<1>2. PICK w : w = Wrapped(block)
  OBVIOUS
<1>3. /\ w \in Seq(DocLines) /\ Len(block) \in Nat /\ Len(w) = Len(block) + 2
      /\ w[1] = StartMark /\ w[Len(block) + 2] = EndMark
      /\ \A i \in 1 .. Len(block) : w[i + 1] = block[i]
  BY <1>2, BlockLines
<1>4. PICK h : h = pre \o w
  OBVIOUS
<1>5. /\ h \in Seq(DocLines) /\ Len(pre) \in Nat /\ Len(h) = Len(pre) + Len(w)
      /\ \A i \in 1 .. Len(pre) : h[i] = pre[i]
      /\ \A i \in 1 .. Len(w) : h[Len(pre) + i] = w[i]
  <2>1. pre \in Seq(DocLines) /\ w \in Seq(DocLines)
    BY <1>1, <1>3
  <2>2. /\ pre \o w \in Seq(DocLines) /\ Len(pre) \in Nat /\ Len(w) \in Nat /\ Len(pre \o w) = Len(pre) + Len(w)
        /\ DOMAIN (pre \o w) = 1 .. Len(pre) + Len(w)
        /\ \A i \in 1 .. Len(pre) : (pre \o w)[i] = pre[i]
        /\ \A i \in 1 .. Len(w) : (pre \o w)[Len(pre) + i] = w[i]
    BY <2>1, Joined
  <2> QED BY <1>4, <2>2
<1>6. PICK doc : doc = h \o post
  OBVIOUS
<1>7. /\ doc \in Seq(DocLines) /\ Len(post) \in Nat /\ Len(doc) = Len(h) + Len(post)
      /\ DOMAIN doc = 1 .. Len(h) + Len(post)
      /\ \A i \in 1 .. Len(h) : doc[i] = h[i]
      /\ \A i \in 1 .. Len(post) : doc[Len(h) + i] = post[i]
  <2>1. h \in Seq(DocLines) /\ post \in Seq(DocLines)
    BY <1>1, <1>5
  <2>2. /\ h \o post \in Seq(DocLines) /\ Len(h) \in Nat /\ Len(post) \in Nat /\ Len(h \o post) = Len(h) + Len(post)
        /\ DOMAIN (h \o post) = 1 .. Len(h) + Len(post)
        /\ \A i \in 1 .. Len(h) : (h \o post)[i] = h[i]
        /\ \A i \in 1 .. Len(post) : (h \o post)[Len(h) + i] = post[i]
    BY <2>1, Joined
  <2> QED BY <1>6, <2>2
<1>8. doc = Around(pre, block, post)
  BY <1>2, <1>4, <1>6 DEF Around
<1>9. PICK n \in Nat, k \in Nat, m \in Nat : n = Len(pre) /\ k = Len(block) /\ m = Len(post)
  BY <1>3, <1>5, <1>7
<1>10. PICK s \in Nat, e \in Nat : s = n + 1 /\ e = n + k + 2
  BY <1>9
<1>11. Len(h) = e /\ Len(w) = k + 2 /\ Len(doc) = e + m /\ DOMAIN doc = 1 .. e + m
  BY <1>3, <1>5, <1>7, <1>9, <1>10
<1>12. \A i \in 1 .. n : doc[i] = pre[i]
  BY <1>5, <1>7, <1>9, <1>10, <1>11
<1>13. doc[s] = StartMark /\ doc[e] = EndMark
  <2>1. \A i \in 1 .. k + 2 : h[n + i] = w[i]
    BY <1>5, <1>9, <1>11
  <2>2. \A i \in 1 .. e : doc[i] = h[i]
    BY <1>7, <1>11
  <2>3. 1 \in 1 .. k + 2 /\ k + 2 \in 1 .. k + 2 /\ s \in 1 .. e /\ e \in 1 .. e /\ s = n + 1 /\ e = n + (k + 2)
    BY <1>10
  <2>4. h[s] = w[1] /\ h[e] = w[k + 2]
    BY <2>1, <2>3
  <2>5. doc[s] = h[s] /\ doc[e] = h[e]
    BY <2>2, <2>3
  <2> QED BY <1>3, <1>9, <2>4, <2>5
<1>14. ASSUME NEW i \in 1 .. k PROVE doc[s + i] = block[i]
  <2>1. i + 1 \in 1 .. Len(w) /\ s + i \in 1 .. Len(h) /\ s + i = n + (i + 1)
    BY <1>10, <1>11
  <2> QED BY <1>3, <1>5, <1>7, <1>9, <2>1
<1>15. \A i \in 1 .. m : doc[e + i] = post[i]
  BY <1>7, <1>9, <1>11
<1>16. ASSUME NEW i \in DOMAIN doc
       PROVE  (doc[i] = StartMark <=> i = s) /\ (doc[i] = EndMark <=> i = e)
  <2>0. StartMark # EndMark /\ s # e
    BY <1>10 DEF StartMark, EndMark
  <2>1. /\ \A j \in 1 .. n : pre[j] # StartMark /\ pre[j] # EndMark
        /\ \A j \in 1 .. k : block[j] # StartMark /\ block[j] # EndMark
        /\ \A j \in 1 .. m : post[j] # StartMark /\ post[j] # EndMark
    <3>1. DOMAIN pre = 1 .. n /\ DOMAIN block = 1 .. k /\ DOMAIN post = 1 .. m
      BY <1>1, <1>9
    <3>2. \A doc_ \in Clean : \A j \in DOMAIN doc_ : doc_[j] # StartMark /\ doc_[j] # EndMark
      BY DEF Clean, Lined
    <3> QED BY <3>1, <3>2
  <2>2. CASE i \in 1 .. n
    BY <1>10, <1>12, <2>1, <2>2
  <2>3. CASE i = s \/ i = e
    BY <1>13, <2>0, <2>3
  <2>4. CASE i > s /\ i < e
    <3>1. PICK j \in 1 .. k : i = s + j
      <4>1. i - s \in 1 .. k /\ i = s + (i - s)
        BY <1>10, <1>11, <2>4
      <4> QED BY <4>1
    <3> QED BY <1>14, <2>1, <2>4, <3>1
  <2>5. CASE i > e
    <3>1. PICK j \in 1 .. m : i = e + j
      <4>1. i - e \in 1 .. m /\ i = e + (i - e)
        BY <1>10, <1>11, <2>5
      <4> QED BY <4>1
    <3>2. doc[i] # StartMark /\ doc[i] # EndMark
      BY <1>15, <2>1, <3>1
    <3>3. i # s /\ i # e
      <4>1. i \in Nat
        BY <1>11
      <4> QED BY <1>10, <2>5, <4>1
    <3> QED BY <3>2, <3>3
  <2>6. i \in 1 .. n \/ i = s \/ i = e \/ (i > s /\ i < e) \/ i > e
    BY <1>10, <1>11
  <2> QED BY <2>2, <2>3, <2>4, <2>5, <2>6
<1>17. s \in DOMAIN doc /\ e \in DOMAIN doc
  BY <1>10, <1>11
<1>18. Lined(doc, StartMark) = {s} /\ Lined(doc, EndMark) = {e}
  BY <1>16, <1>17 DEF Lined
<1>19. SubSeq(doc, 1, s - 1) = pre
  <2>1. s - 1 = n /\ s - 1 <= Len(doc)
    BY <1>10, <1>11
  <2> QED BY <1>1, <1>7, <1>9, <1>12, <2>1
<1>20. SubSeq(doc, e + 1, Len(doc)) = post
  <2>1. PICK t : t = SubSeq(doc, e + 1, Len(doc))
    OBVIOUS
  <2>2. t \in Seq(DocLines) /\ Len(t) = m /\ \A i \in 1 .. m : t[i] = doc[e + i]
    BY <1>7, <1>10, <1>11, <2>1
  <2>3. post \in Seq(DocLines) /\ Len(post) = m /\ \A i \in 1 .. m : t[i] = post[i]
    BY <1>1, <1>9, <1>15, <2>2
  <2>4. t = post
    BY <2>2, <2>3
  <2> QED BY <2>1, <2>4
<1>21. OpensAt(pre) = s /\ ClosesAt(pre, block) = e /\ s < e
  BY <1>9, <1>10 DEF OpensAt, ClosesAt
<1>22. /\ s \in Nat /\ e \in Nat /\ s < e /\ doc \in Seq(DocLines) /\ s \in DOMAIN doc /\ e \in DOMAIN doc
       /\ Lined(doc, StartMark) = {s} /\ Lined(doc, EndMark) = {e}
       /\ SubSeq(doc, 1, s - 1) = pre /\ SubSeq(doc, e + 1, Len(doc)) = post
  BY <1>7, <1>17, <1>18, <1>19, <1>20, <1>21
<1> QED BY <1>8, <1>21, <1>22

(* The lines before and after the block of a document in order.            *)
LEMMA DocParts ==
  ASSUME NEW doc \in Seq(DocLines), InOrder(doc)
  PROVE  \E pre, post \in Clean :
           /\ Outside(doc) = pre \o post
           /\ \A block \in Clean : Synced(doc, block) = Around(pre, block, post)
<1>1. CASE Lined(doc, StartMark) = {} /\ Lined(doc, EndMark) = {}
  <2>1. doc \in Clean /\ <<>> \in Clean
    BY <1>1 DEF Clean, Lined
  <2>2. Outside(doc) = doc \o <<>>
    BY <1>1 DEF Outside
  <2>3. ASSUME NEW block \in Clean PROVE Synced(doc, block) = Around(doc, block, <<>>)
    <3>1. Synced(doc, block) = doc \o Wrapped(block)
      BY <1>1 DEF Synced
    <3>2. doc \o Wrapped(block) \in Seq(DocLines)
      <4>1. Wrapped(block) \in Seq(DocLines)
        BY BlockLines
      <4> QED BY <4>1
    <3>3. PICK d \in Seq(DocLines) : d = doc \o Wrapped(block)
      BY <3>2
    <3>4. d \o <<>> = d
      OBVIOUS
    <3> QED BY <3>1, <3>3, <3>4 DEF Around
  <2> QED BY <2>1, <2>2, <2>3
<1>2. ASSUME NEW s \in DOMAIN doc, NEW e \in DOMAIN doc, s < e, Lined(doc, StartMark) = {s}, Lined(doc, EndMark) = {e}
      PROVE  \E pre, post \in Clean :
               /\ Outside(doc) = pre \o post
               /\ \A block \in Clean : Synced(doc, block) = Around(pre, block, post)
  <2>0. s \in 1 .. Len(doc) /\ e \in 1 .. Len(doc) /\ Len(doc) \in Nat
    BY <1>2
  <2>1. Min({s}) = s /\ Min({e}) = e /\ Max({e}) = e
    BY <2>0 DEF Min, Max
  <2>2. PICK pre, post : pre = SubSeq(doc, 1, s - 1) /\ post = SubSeq(doc, e + 1, Len(doc))
    OBVIOUS
  <2>3. pre \in Seq(DocLines) /\ Len(pre) = s - 1 /\ \A i \in 1 .. s - 1 : pre[i] = doc[i]
    BY <2>0, <2>2
  <2>4. post \in Seq(DocLines) /\ Len(post) = Len(doc) - e /\ \A i \in 1 .. Len(doc) - e : post[i] = doc[e + i]
    BY <2>0, <2>2
  <2>5. \A i \in DOMAIN doc : (doc[i] = StartMark => i = s) /\ (doc[i] = EndMark => i = e)
    BY <1>2 DEF Lined
  <2>6. pre \in Clean
    <3>1. \A i \in 1 .. s - 1 : i \in DOMAIN doc /\ i # s /\ i # e
      BY <1>2, <2>0
    <3>2. \A i \in DOMAIN pre : pre[i] # StartMark /\ pre[i] # EndMark
      BY <2>0, <2>3, <2>5, <3>1
    <3> QED BY <2>3, <3>2 DEF Clean, Lined
  <2>7. post \in Clean
    <3>1. \A i \in 1 .. Len(doc) - e : e + i \in DOMAIN doc /\ e + i # s /\ e + i # e
      BY <1>2, <2>0
    <3>2. \A i \in DOMAIN post : post[i] # StartMark /\ post[i] # EndMark
      BY <2>0, <2>4, <2>5, <3>1
    <3> QED BY <2>4, <3>2 DEF Clean, Lined
  <2>8. Outside(doc) = pre \o post
    BY <1>2, <2>1, <2>2 DEF Outside
  <2>9. \A block \in Clean : Synced(doc, block) = Around(pre, block, post)
    BY <1>2, <2>1, <2>2 DEF Synced, Around
  <2> QED BY <2>6, <2>7, <2>8, <2>9
<1> QED BY <1>1, <1>2 DEF InOrder

(* What rule sync does to a document in order.                             *)
LEMMA SyncKeeps ==
  ASSUME NEW doc \in Seq(DocLines), InOrder(doc), NEW block \in Clean
  PROVE  /\ Synced(doc, block) \in Seq(DocLines)
         /\ InOrder(Synced(doc, block)) /\ Outside(Synced(doc, block)) = Outside(doc)
<1>1. PICK pre \in Clean, post \in Clean :
        Outside(doc) = pre \o post /\ Synced(doc, block) = Around(pre, block, post)
  BY DocParts
<1>2. PICK new, s, e : new = Around(pre, block, post) /\ s = OpensAt(pre) /\ e = ClosesAt(pre, block)
  OBVIOUS
<1>3. /\ OpensAt(pre) \in Nat /\ ClosesAt(pre, block) \in Nat /\ OpensAt(pre) < ClosesAt(pre, block)
      /\ Around(pre, block, post) \in Seq(DocLines)
      /\ OpensAt(pre) \in DOMAIN Around(pre, block, post) /\ ClosesAt(pre, block) \in DOMAIN Around(pre, block, post)
      /\ Lined(Around(pre, block, post), StartMark) = {OpensAt(pre)}
      /\ Lined(Around(pre, block, post), EndMark) = {ClosesAt(pre, block)}
      /\ SubSeq(Around(pre, block, post), 1, OpensAt(pre) - 1) = pre
      /\ SubSeq(Around(pre, block, post), ClosesAt(pre, block) + 1, Len(Around(pre, block, post))) = post
  BY AroundApart, ZenonT(60)
<1>4. /\ s \in Nat /\ e \in Nat /\ s < e
      /\ new \in Seq(DocLines) /\ s \in DOMAIN new /\ e \in DOMAIN new
      /\ Lined(new, StartMark) = {s} /\ Lined(new, EndMark) = {e}
      /\ SubSeq(new, 1, s - 1) = pre /\ SubSeq(new, e + 1, Len(new)) = post
  BY <1>2, <1>3
<1>5. InOrder(new)
  BY <1>4 DEF InOrder
<1>6. Min({s}) = s /\ Max({e}) = e
  BY <1>4 DEF Min, Max
<1>7. Outside(new) = pre \o post
  BY <1>4, <1>6 DEF Outside
<1> QED BY <1>1, <1>2, <1>4, <1>5, <1>7


(* What a command has in hand, and the two promises that need no more.      *)
AtWork ==
  \/ work = Rest
  \/ work.op = "state" /\ work.dir \in Taken
  \/ /\ work = [op |-> work.op, next |-> work.next, add |-> work.add, drop |-> work.drop]
     /\ work.op \in {"open", "fill"} /\ work.next \subseteq (approved \cup work.add) \ work.drop
  \/ /\ work = [op |-> work.op, block |-> work.block, doc |-> work.doc, open |-> work.open]
     /\ work.op \in {"claude", "agents"} /\ work.block \in Blocks /\ work.open \in BOOLEAN

(* Where the user's lines of a document are: in the command's hands while   *)
(* the file is open, in the file otherwise.                                *)
InHands(f) == work.op = f /\ work.open
TextNow(f) == IF InHands(f) THEN work.doc ELSE docs[f]
Texts ==
  /\ DOMAIN docs = {"claude", "agents"} /\ workKills \in Nat
  /\ work.op \in {"claude", "agents"} /\ ~ work.open => work.doc = docs[work.op]
  /\ workKills = 0 =>
       \A f \in {"claude", "agents"} :
         InOrder(texts[f]) =>
           /\ TextNow(f) \in Seq(DocLines) /\ InOrder(TextNow(f))
           /\ Outside(TextNow(f)) = Outside(texts[f])

(* Every directory that was handed out is there still, and only once.       *)
DirsApart ==
  /\ dirs \in Seq(Taken) /\ got \in Seq(Taken)
  /\ IsFiniteSet(ToSet(got)) /\ SessionsApart

WorkInv == AtWork /\ Texts /\ DirsApart /\ TrustHonest

(* A block of rules holds no marker.                                       *)
LEMMA BlocksClean == Blocks \subseteq Clean
<1>0. PICK S : S = (UNION {ToSet(block) : block \in Blocks}) \ {StartMark, EndMark}
  OBVIOUS
<1>1. Blocks \subseteq Seq(S)
  BY <1>0, WorkAssumption
<1> SUFFICES ASSUME NEW block \in Blocks PROVE block \in Clean
  OBVIOUS
<1>2. block \in Seq(S)
  BY <1>1
<1>3. S \subseteq DocLines /\ StartMark \notin S /\ EndMark \notin S
  BY <1>0 DEF DocLines
<1>4. block \in Seq(DocLines)
  BY <1>2, <1>3
<1>5. \A n \in DOMAIN block : block[n] \in S
  BY <1>2
<1> QED BY <1>3, <1>4, <1>5 DEF Clean, Lined

(* A new session gets a directory of its own.                              *)
LEMMA NewSession ==
  ASSUME DirsApart, NEW d, d \notin Taken, dirs' = Append(dirs, d), got' = Append(got, d)
  PROVE  DirsApart' /\ Taken \subseteq Taken'
<1>1. PICK T : T = Taken \cup {d}
  OBVIOUS
<1>2. dirs \in Seq(T) /\ got \in Seq(T) /\ d \in T
  BY <1>1 DEF DirsApart
<1>3. ToSet(Append(dirs, d)) = ToSet(dirs) \cup {d} /\ Append(dirs, d) \in Seq(T)
  BY <1>2, ToSetFacts
<1>4. ToSet(Append(got, d)) = ToSet(got) \cup {d} /\ Append(got, d) \in Seq(T)
  BY <1>2, ToSetFacts
<1>5. Taken' = T
  BY <1>1, <1>3 DEF Taken
<1>6. d \notin ToSet(got)
  <2>1. ToSet(got) \subseteq Taken
    BY ToSetFacts DEF DirsApart
  <2> QED BY <2>1
<1>7. IsFiniteSet(ToSet(got) \cup {d}) /\ Cardinality(ToSet(got) \cup {d}) = Cardinality(ToSet(got)) + 1
  BY <1>6, FS_AddElement DEF DirsApart
<1>8. Len(Append(got, d)) = Len(got) + 1
  BY <1>2
<1>9. SessionsApart'
  BY <1>4, <1>7, <1>8 DEF DirsApart, SessionsApart
<1> QED BY <1>1, <1>3, <1>4, <1>5, <1>7, <1>9 DEF DirsApart

(* A directory that is written to changes its place, nothing else.         *)
LEMMA TouchedTaken ==
  ASSUME dirs \in Seq(Taken), NEW d \in Taken
  PROVE  ToSet(Touched(d)) = Taken /\ Touched(d) \in Seq(Taken)
<1>1. PICK n : n = CHOOSE m \in DOMAIN dirs : dirs[m] = d
  OBVIOUS
<1>2. n \in DOMAIN dirs /\ dirs[n] = d
  BY <1>1 DEF Taken, ToSet
<1>3. n \in 1 .. Len(dirs) /\ Len(dirs) \in Nat
  BY <1>2
<1>4. n - 1 \in 0 .. Len(dirs) /\ n + 1 \in 1 .. Len(dirs) + 1 /\ 1 \in 1 .. Len(dirs) + 1 /\ Len(dirs) \in 0 .. Len(dirs)
  BY <1>3
<1>5. PICK pre, post : pre = SubSeq(dirs, 1, n - 1) /\ post = SubSeq(dirs, n + 1, Len(dirs))
  OBVIOUS
<1>6. /\ pre \in Seq(Taken) /\ ToSet(pre) = {dirs[i] : i \in 1 .. n - 1}
      /\ post \in Seq(Taken) /\ ToSet(post) = {dirs[i] : i \in n + 1 .. Len(dirs)}
  BY <1>4, <1>5, SubSeqFacts
<1>7. ToSet(pre \o post) = ToSet(pre) \cup ToSet(post) /\ pre \o post \in Seq(Taken)
  BY <1>6, ToSetFacts
<1>8. Touched(d) = Append(pre \o post, d)
  BY <1>1, <1>5 DEF Touched, RemoveAt
<1>9. ToSet(Touched(d)) = ToSet(pre) \cup ToSet(post) \cup {d} /\ Touched(d) \in Seq(Taken)
  <2>1. PICK t \in Seq(Taken) : t = pre \o post
    BY <1>7
  <2>2. ToSet(Append(t, d)) = ToSet(t) \cup {d} /\ Append(t, d) \in Seq(Taken)
    BY ToSetFacts
  <2> QED BY <1>7, <1>8, <2>1, <2>2
<1>10. \A i \in DOMAIN dirs : i \in 1 .. n - 1 \/ i = n \/ i \in n + 1 .. Len(dirs)
  BY <1>3
<1>11. Taken \subseteq ToSet(Touched(d))
  BY <1>2, <1>6, <1>9, <1>10 DEF Taken, ToSet
<1>12. ToSet(Touched(d)) \subseteq Taken
  BY <1>9, ToSetFacts
<1> QED BY <1>9, <1>11, <1>12

(* What the commands about sessions and state files do.                    *)
LEMMA SessionKeeps ==
  ASSUME WorkInv, SessionInit \/ StateRead \/ StateRename
  PROVE  WorkInv'
<1>1. ASSUME UNCHANGED <<docs, workKills, texts>>, work'.op \notin {"claude", "agents"}, work.op \notin {"claude", "agents"}
      PROVE  Texts'
  BY <1>1 DEF WorkInv, Texts, TextNow, InHands
<1>2. ASSUME UNCHANGED <<trust, approved>> PROVE TrustHonest'
  BY <1>2 DEF WorkInv, TrustHonest, Trusted
<1>3. CASE SessionInit
  <2>1. /\ work = Rest /\ UNCHANGED <<state, trust, docs, work, workKills, approved, texts>>
    BY <1>3 DEF SessionInit, Begun
  <2>2. AtWork'
    BY <2>1 DEF AtWork
  <2>3. Texts'
    BY <1>1, <2>1 DEF Rest
  <2>4. PICK name \in SessionNames :
          LET slug == Slugify(name)
              free == {n \in 1 .. MaxDup : Candidates(slug)[n] \notin Taken}
          IN  IF slug = <<>> \/ free = {} THEN UNCHANGED <<dirs, got>>
              ELSE LET d == Candidates(slug)[Min(free)]
                   IN  dirs' = Append(dirs, d) /\ got' = Append(got, d)
    BY <1>3 DEF SessionInit
  <2>5. PICK slug, free : slug = Slugify(name) /\ free = {n \in 1 .. MaxDup : Candidates(slug)[n] \notin Taken}
    OBVIOUS
  <2>6. CASE UNCHANGED <<dirs, got>>
    BY <1>2, <2>1, <2>2, <2>3, <2>6 DEF WorkInv, DirsApart, Taken, SessionsApart
  <2>7. CASE free # {} /\ dirs' = Append(dirs, Candidates(slug)[Min(free)])
                      /\ got' = Append(got, Candidates(slug)[Min(free)])
    <3>1. free \subseteq Nat
      BY <2>5
    <3>2. Min(free) \in free
      <4>1. PICK n \in free : \A m \in free : n <= m
        BY <2>7, <3>1, Least
      <4> QED BY <4>1 DEF Min
    <3>3. Candidates(slug)[Min(free)] \notin Taken
      BY <2>5, <3>2
    <3>4. DirsApart'
      BY <2>7, <3>3, NewSession DEF WorkInv
    <3> QED BY <1>2, <2>1, <2>2, <2>3, <3>4 DEF WorkInv
  <2> QED BY <2>4, <2>5, <2>6, <2>7
<1>4. CASE StateRead
  <2>1. /\ work = Rest /\ UNCHANGED <<dirs, state, trust, docs, workKills, got, approved, texts>>
        /\ work'.op = "state" /\ work'.dir \in Taken
    BY <1>4 DEF StateRead, Begun
  <2>2. Taken' = Taken
    BY <2>1 DEF Taken
  <2>3. AtWork'
    BY <2>1, <2>2 DEF AtWork
  <2>4. DirsApart'
    BY <2>1, <2>2 DEF WorkInv, DirsApart, SessionsApart
  <2> QED BY <1>1, <1>2, <2>1, <2>3, <2>4 DEF WorkInv, Rest
<1>5. CASE StateRename
  <2>1. /\ work.op = "state" /\ dirs' = Touched(work.dir) /\ work' = Rest
        /\ UNCHANGED <<trust, docs, got, approved, texts, workKills>>
    BY <1>5 DEF StateRename, Going
  <2>2. work.dir \in Taken
    BY <2>1 DEF WorkInv, AtWork, Rest
  <2>3. dirs \in Seq(Taken)
    BY DEF WorkInv, DirsApart
  <2>4. ToSet(dirs') = Taken /\ dirs' \in Seq(Taken)
    BY <2>1, <2>2, <2>3, TouchedTaken
  <2>5. DirsApart'
    BY <2>1, <2>4 DEF WorkInv, DirsApart, SessionsApart, Taken
  <2> QED BY <1>1, <1>2, <2>1, <2>5 DEF WorkInv, AtWork, Rest
<1> QED BY <1>3, <1>4, <1>5

(* The trust store is emptied before it is filled.                         *)
LEMMA TrustKeeps ==
  ASSUME WorkInv, TrustRead \/ TrustOpen \/ TrustFill
  PROVE  WorkInv'
<1>1. /\ UNCHANGED <<dirs, docs, got, texts, workKills>>
      /\ work = Rest \/ work.op \in {"open", "fill"}
      /\ work' = Rest \/ work'.op \in {"open", "fill"}
  <2>1. CASE TrustRead
    BY <2>1 DEF TrustRead, Begun, Given
  <2>2. CASE TrustOpen
    <3>1. work.op = "open" /\ work' = [work EXCEPT !.op = "fill"] /\ UNCHANGED <<dirs, docs, got, texts, workKills>>
      BY <2>2 DEF TrustOpen, Given, Going
    <3>2. work = [op |-> work.op, next |-> work.next, add |-> work.add, drop |-> work.drop]
      BY <3>1 DEF WorkInv, AtWork, Rest
    <3>3. work'.op = "fill"
      BY <3>1, <3>2
    <3> QED BY <3>1, <3>3
  <2>3. CASE TrustFill
    BY <2>3 DEF TrustFill, Given, Going
  <2> QED BY <2>1, <2>2, <2>3
<1>2. Texts'
  BY <1>1 DEF WorkInv, Texts, TextNow, InHands, Rest
<1>3. DirsApart'
  BY <1>1 DEF WorkInv, DirsApart, Taken, SessionsApart
<1>4. CASE TrustRead
  <2>1. PICK f \in Servers :
          \/ work' = [op |-> "open", next |-> Trusted \cup {f}, add |-> {f}, drop |-> {}]
          \/ /\ f \in Trusted
             /\ work' = [op |-> "open", next |-> Trusted \ {f}, add |-> {}, drop |-> {f}]
    BY <1>4 DEF TrustRead
  <2>2. UNCHANGED <<trust, approved>> /\ Trusted \subseteq approved
    BY <1>4 DEF TrustRead, WorkInv, TrustHonest
  <2>3. AtWork'
    <3>1. CASE work' = [op |-> "open", next |-> Trusted \cup {f}, add |-> {f}, drop |-> {}]
      <4>1. work'.op = "open" /\ work'.next = Trusted \cup {f} /\ work'.add = {f} /\ work'.drop = {}
        BY <3>1
      <4> QED BY <2>2, <3>1, <4>1 DEF AtWork
    <3>2. CASE work' = [op |-> "open", next |-> Trusted \ {f}, add |-> {}, drop |-> {f}]
      <4>1. work'.op = "open" /\ work'.next = Trusted \ {f} /\ work'.add = {} /\ work'.drop = {f}
        BY <3>2
      <4> QED BY <2>2, <3>2, <4>1 DEF AtWork
    <3> QED BY <2>1, <3>1, <3>2
  <2>4. TrustHonest'
    BY <2>2 DEF TrustHonest, Trusted
  <2> QED BY <1>2, <1>3, <2>3, <2>4 DEF WorkInv
<1>5. CASE TrustOpen
  <2>1. work.op = "open" /\ trust' = Broken /\ work' = [work EXCEPT !.op = "fill"] /\ approved' = approved
    BY <1>5 DEF TrustOpen
  <2>2. PICK n, p, q : work = [op |-> "open", next |-> n, add |-> p, drop |-> q] /\ n \subseteq (approved \cup p) \ q
    BY <2>1 DEF WorkInv, AtWork, Rest
  <2>3. work' = [op |-> "fill", next |-> n, add |-> p, drop |-> q]
    BY <2>1, <2>2
  <2>4. AtWork'
    BY <2>1, <2>2, <2>3 DEF AtWork
  <2>5. TrustHonest'
    BY <2>1 DEF TrustHonest, Trusted
  <2> QED BY <1>2, <1>3, <2>4, <2>5 DEF WorkInv
<1>6. CASE TrustFill
  <2>1. work.op = "fill" /\ trust' = work.next /\ work' = Rest /\ approved' = (approved \cup work.add) \ work.drop
    BY <1>6 DEF TrustFill
  <2>2. work.next \subseteq (approved \cup work.add) \ work.drop
    BY <2>1 DEF WorkInv, AtWork, Rest
  <2>3. AtWork' /\ TrustHonest'
    BY <2>1, <2>2 DEF AtWork, TrustHonest, Trusted
  <2> QED BY <1>2, <1>3, <2>3 DEF WorkInv
<1> QED BY <1>4, <1>5, <1>6

(* The documents, one after the other.                                     *)
LEMMA SyncStepKeeps ==
  ASSUME WorkInv, SyncRead \/ SyncOpen \/ SyncFill
  PROVE  WorkInv'
<1>1. UNCHANGED <<dirs, state, trust, got, approved, texts, workKills>>
  BY DEF SyncRead, SyncOpen, SyncFill, Going
<1>2. TrustHonest' /\ DirsApart'
  BY <1>1 DEF WorkInv, TrustHonest, Trusted, DirsApart, Taken, SessionsApart
<1>3. /\ DOMAIN docs = {"claude", "agents"} /\ workKills \in Nat
      /\ workKills = 0 =>
           \A f \in {"claude", "agents"} :
             InOrder(texts[f]) =>
               /\ TextNow(f) \in Seq(DocLines) /\ InOrder(TextNow(f))
               /\ Outside(TextNow(f)) = Outside(texts[f])
  BY DEF WorkInv, Texts
<1>4. CASE SyncRead
  <2>1. PICK b \in Blocks : work' = [op |-> "claude", block |-> b, doc |-> docs["claude"], open |-> FALSE]
    BY <1>4 DEF SyncRead
  <2>2. work = Rest /\ docs' = docs
    BY <1>4 DEF SyncRead, Begun
  <2>3. AtWork'
    BY <2>1 DEF AtWork
  <2>4. \A f \in {"claude", "agents"} : TextNow(f)' = docs[f] /\ TextNow(f) = docs[f]
    BY <2>1, <2>2 DEF TextNow, InHands, Rest
  <2>5. Texts'
    BY <1>1, <1>3, <2>1, <2>2, <2>4 DEF Texts
  <2> QED BY <1>2, <2>3, <2>5 DEF WorkInv
<1>5. CASE SyncOpen
  <2>1. /\ work.op \in {"claude", "agents"} /\ ~ work.open
        /\ docs' = [docs EXCEPT ![work.op] = <<>>]
        /\ work' = [work EXCEPT !.open = TRUE]
    BY <1>5 DEF SyncOpen
  <2>2. PICK o, b, d :
          /\ work = [op |-> o, block |-> b, doc |-> d, open |-> FALSE] /\ d = docs[o]
          /\ o \in {"claude", "agents"} /\ b \in Blocks
    <3>1. /\ work = [op |-> work.op, block |-> work.block, doc |-> work.doc, open |-> work.open]
          /\ work.block \in Blocks
      BY <2>1 DEF WorkInv, AtWork, Rest
    <3>2. work.open = FALSE /\ work.doc = docs[work.op]
      BY <2>1 DEF WorkInv, AtWork, Rest, Texts
    <3> QED BY <2>1, <3>1, <3>2
  <2>3. work' = [op |-> o, block |-> b, doc |-> d, open |-> TRUE]
    BY <2>1, <2>2
  <2>4. AtWork'
    <3>1. work'.op = o /\ work'.block = b /\ work'.doc = d /\ work'.open = TRUE
      BY <2>3
    <3> QED BY <2>2, <2>3, <3>1 DEF AtWork
  <2>5. \A f \in {"claude", "agents"} : TextNow(f)' = docs[f] /\ TextNow(f) = docs[f]
    BY <1>3, <2>1, <2>2, <2>3 DEF TextNow, InHands
  <2>6. Texts'
    BY <1>1, <1>3, <2>1, <2>3, <2>5 DEF Texts
  <2> QED BY <1>2, <2>4, <2>6 DEF WorkInv
<1>6. CASE SyncFill
  <2>1. /\ work.op \in {"claude", "agents"} /\ work.open
        /\ docs' = [docs EXCEPT ![work.op] = Synced(work.doc, work.block)]
        /\ work' = IF work.op = "agents" THEN Rest
                   ELSE [work EXCEPT !.op = "agents", !.doc = docs["agents"], !.open = FALSE]
    BY <1>6 DEF SyncFill
  <2>2. PICK o, b, d :
          /\ work = [op |-> o, block |-> b, doc |-> d, open |-> TRUE]
          /\ o \in {"claude", "agents"} /\ b \in Blocks
    <3>1. /\ work = [op |-> work.op, block |-> work.block, doc |-> work.doc, open |-> work.open]
          /\ work.block \in Blocks
      BY <2>1 DEF WorkInv, AtWork, Rest
    <3>2. work.open = TRUE
      BY <2>1 DEF WorkInv, AtWork, Rest
    <3> QED BY <2>1, <3>1, <3>2
  <2>3. docs' = [docs EXCEPT ![o] = Synced(d, b)]
    BY <2>1, <2>2
  <2>4. work' = IF o = "agents" THEN Rest
                ELSE [op |-> "agents", block |-> b, doc |-> docs["agents"], open |-> FALSE]
    <3>1. work.op = o
      BY <2>2
    <3>2. PICK t : t = docs["agents"]
      OBVIOUS
    <3>3. PICK u : u = [work EXCEPT !.op = "agents", !.doc = t, !.open = FALSE]
      OBVIOUS
    <3>4. DOMAIN work = {"op", "block", "doc", "open"} /\ work.block = b
      BY <2>2
    <3>5. /\ u = [z \in {"op", "block", "doc", "open"} |-> u[z]]
          /\ u.op = "agents" /\ u.block = b /\ u.doc = t /\ u.open = FALSE
      BY <3>3, <3>4
    <3>6. u = [op |-> "agents", block |-> b, doc |-> t, open |-> FALSE]
      BY <3>5
    <3> QED BY <2>1, <3>1, <3>2, <3>3, <3>6
  <2>5. AtWork'
    <3>1. CASE o = "agents"
      BY <2>4, <3>1 DEF AtWork
    <3>2. CASE o # "agents"
      <4>1. work' = [op |-> "agents", block |-> b, doc |-> docs["agents"], open |-> FALSE]
        BY <2>4, <3>2
      <4>2. work'.op = "agents" /\ work'.block = b /\ work'.doc = docs["agents"] /\ work'.open = FALSE
        BY <4>1
      <4> QED BY <2>2, <4>1, <4>2 DEF AtWork
    <3> QED BY <3>1, <3>2
  <2>6. /\ TextNow(o) = d /\ TextNow(o)' = Synced(d, b)
        /\ \A f \in {"claude", "agents"} : f # o => TextNow(f) = docs[f] /\ TextNow(f)' = docs[f]
    BY <1>3, <2>2, <2>3, <2>4 DEF TextNow, InHands, Rest
  <2>7. b \in Clean
    BY <2>2, BlocksClean
  <2>8. ASSUME workKills = 0, InOrder(texts[o])
        PROVE  /\ Synced(d, b) \in Seq(DocLines) /\ InOrder(Synced(d, b))
               /\ Outside(Synced(d, b)) = Outside(texts[o])
    <3>1. d \in Seq(DocLines) /\ InOrder(d) /\ Outside(d) = Outside(texts[o])
      BY <1>3, <2>2, <2>6, <2>8
    <3> QED BY <2>7, <3>1, SyncKeeps
  <2>9. Texts'
    <3>1. DOMAIN docs' = {"claude", "agents"} /\ workKills' \in Nat
      BY <1>1, <1>3, <2>3
    <3>2. work'.op \in {"claude", "agents"} /\ ~ work'.open => work'.doc = docs'[work'.op]
      BY <1>3, <2>3, <2>4 DEF Rest
    <3>3. ASSUME workKills' = 0, NEW f \in {"claude", "agents"}, InOrder(texts'[f])
          PROVE  /\ TextNow(f)' \in Seq(DocLines) /\ InOrder(TextNow(f)')
                 /\ Outside(TextNow(f)') = Outside(texts'[f])
      BY <1>1, <1>3, <2>6, <2>8, <3>3
    <3> QED BY <3>1, <3>2, <3>3 DEF Texts
  <2> QED BY <1>2, <2>5, <2>9 DEF WorkInv
<1> QED BY <1>4, <1>5, <1>6

(* Every step of the session's commands keeps what they promise.           *)
LEMMA WorkStepKeeps ==
  ASSUME WorkInv, [WorkNext]_workVars
  PROVE  WorkInv'
<1>1. CASE WorkKilled
  <2>1. work' = Rest /\ workKills' = workKills + 1 /\ UNCHANGED <<trust, approved, dirs, state, docs, got, texts>>
    BY <1>1 DEF WorkKilled, Given
  <2>2. workKills \in Nat /\ workKills' # 0 /\ workKills' \in Nat
    BY <2>1 DEF WorkInv, Texts
  <2>3. Texts'
    BY <2>1, <2>2 DEF WorkInv, Texts, Rest
  <2> QED BY <2>1, <2>3 DEF WorkInv, AtWork, TrustHonest, Trusted, DirsApart, Taken, SessionsApart, Rest
<1>2. CASE UNCHANGED workVars
  <2>1. UNCHANGED <<dirs, state, trust, docs, work, works, workKills, got, approved, texts>>
    BY <1>2 DEF workVars
  <2>2. Texts'
    BY <2>1 DEF WorkInv, Texts, TextNow, InHands
  <2> QED BY <2>1, <2>2 DEF WorkInv, AtWork, TrustHonest, Trusted, DirsApart, Taken, SessionsApart
<1> QED BY <1>1, <1>2, SessionKeeps, TrustKeeps, SyncStepKeeps DEF WorkNext

(* The start.                                                              *)
LEMMA WorkStarts == WorkInit => WorkInv
<1> SUFFICES ASSUME WorkInit PROVE WorkInv
  OBVIOUS
<1>1. Taken = {} /\ ToSet(got) = {}
  BY ToSetFacts DEF WorkInit, Taken
<1>2. DirsApart
  <2>1. IsFiniteSet(ToSet(got)) /\ Cardinality(ToSet(got)) = 0
    BY <1>1, FS_EmptySet
  <2> QED BY <1>1, <2>1 DEF WorkInit, DirsApart, SessionsApart
<1>3. TrustHonest
  BY DEF WorkInit, TrustHonest, Trusted
<1>4. Texts
  <2>1. \A f \in {"claude", "agents"} : TextNow(f) = docs[f] /\ docs[f] \in Docs /\ texts[f] = docs[f]
    BY DEF WorkInit, TextNow, InHands, Rest
  <2>2. \A doc \in Docs : doc \in Seq(DocLines)
    <3>1. PICK S : S = UNION {ToSet(doc) : doc \in Docs}
      OBVIOUS
    <3>2. Docs \subseteq Seq(S) /\ S \subseteq DocLines
      BY <3>1, WorkAssumption DEF DocLines
    <3> QED BY <3>2
  <2> QED BY <2>1, <2>2 DEF WorkInit, Texts, Rest
<1> QED BY <1>2, <1>3, <1>4 DEF WorkInit, WorkInv, AtWork

(* The promises, from the invariant.                                       *)
LEMMA WorkHolds == WorkInv => WorkSafe
<1> SUFFICES ASSUME WorkInv PROVE WorkSafe
  OBVIOUS
<1>1. TextKept
  <2> SUFFICES ASSUME workKills = 0, NEW f \in {"claude", "agents"}, InOrder(texts[f]), ~ InHands(f)
               PROVE  InOrder(docs[f]) /\ Outside(docs[f]) = Outside(texts[f])
    BY DEF TextKept, InHands
  <2>1. TextNow(f) = docs[f]
    BY DEF TextNow
  <2> QED BY <2>1 DEF WorkInv, Texts
<1> QED BY <1>1 DEF WorkInv, WorkSafe, DirsApart

(* For any documents, blocks, sessions and servers, any command killed     *)
(* anywhere: no two sessions share a directory, every server that is       *)
(* trusted was approved, and while none is killed no line of a document    *)
(* outside the markers is lost.                                            *)
THEOREM WorkKept == WorkInit /\ [][WorkNext]_workVars => []WorkSafe
BY WorkStarts, WorkStepKeeps, WorkHolds, PTL

-----------------------------------------------------------------------------
(* The four together                                                       *)

(* A behaviour works on one of the four and leaves the others alone, so it *)
(* is a behaviour of each of them.                                         *)
LEMMA EachAlone ==
  WorkflowSpec => /\ CfgSpec /\ RuleSpec
                  /\ WorkInit /\ [][WorkNext]_workVars
<1>1. WorkflowInit => CfgInit /\ RuleInit /\ WorkInit
  BY DEF WorkflowInit
<1>2. [WorkflowNext]_workflowAll
        => [CfgNext]_cfgVars /\ [RuleNext]_ruleVars /\ [WorkNext]_workVars
  BY DEF WorkflowNext, workflowAll
<1> QED BY <1>1, <1>2, PTL DEF WorkflowSpec, CfgSpec, RuleSpec

(* Through commands given one after another and edits between the hooks'   *)
(* decisions, finished or killed: FilesHonest.                             *)
THEOREM FilesKept == ~ Overlap /\ ~ Meanwhile /\ WorkflowSpec => []FilesHonest
<1>1. AddonsKept /\ WorkersAsAsked /\ EditsSeen /\ WorkSafe => FilesHonest
  BY DEF FilesHonest
<1>2. CASE ~ Overlap /\ ~ Meanwhile
  <2>1. CfgSpec => []AddonsKept /\ []WorkersAsAsked
    BY <1>2, AddonsStay, WorkersTold
  <2>2. RuleSpec => []EditsSeen
    BY <1>2, PageSeen
  <2> QED BY <1>1, <2>1, <2>2, EachAlone, WorkKept, PTL
<1> QED BY <1>2
=============================================================================
