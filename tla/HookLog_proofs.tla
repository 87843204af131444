--------------------------- MODULE HookLog_proofs ---------------------------
(***************************************************************************)
(* Proofs about HookLog, for any number of sessions, with and without an   *)
(* id, any files, any relation between their names, and any scope.         *)
(*                                                                         *)
(*   OwnWorkCounts    WorkCounts, from Exact: unless it was overrun, a     *)
(*                    session finds in the log, and in whatever another    *)
(*                    start is about to write back, just what it recorded; *)
(*   GatesAreBacked   GateBacked, from Exact and Attributed: a line of     *)
(*                    nobody is an override, or a session without id wrote *)
(*                    it.                                                  *)
(* Neither needs the type invariant, only that the functions of the state  *)
(* have the sessions as their domain.  The others do, for what they count  *)
(* is the size of a set of numbered triggers, finite as the log is:        *)
(*                                                                         *)
(*   TypeCorrect      TypeOK, from Typed: the lines of the log, and of     *)
(*                    every copy a start holds, are finitely many, and     *)
(*                    each is older than the clock;                        *)
(*   SignalsAreHeld   SignalsHeld, from Held: a frustration nobody has     *)
(*                    answered is the last word of the log; and Counted:   *)
(*                    what the log still shows is not credited as long as  *)
(*                    somebody may credit it.                              *)
(***************************************************************************)
EXTENDS HookLog, FiniteSetTheorems, TLAPS

Shaped ==
  /\ DOMAIN pc = Sessions /\ DOMAIN snap = Sessions /\ DOMAIN aim = Sessions
  /\ DOMAIN did = Sessions /\ DOMAIN hit = Sessions

(* A start that still has lines to write back.                             *)
Rewriting(t) == pc[t] = "clear" /\ snap[t] # {}

Exact ==
  /\ OwnLines
  /\ \A s \in Named : \A t \in Sessions \ {s} :
       Rewriting(t) => hit[s] \/ Own(snap[t], s) = did[s]
  /\ \A s \in Named :
       pc[s] = "clear" /\ snap[s] = {} => hit[s] \/ did[s] = {}

(* Every line has an owner, and what a gate takes from a line without one  *)
(* is an override or the work of a session without an id.                  *)
Gating(e) == e.kind \in {"impact", "detect_changes", "override"}
Unowned == overrides \cup UNION {did[s] : s \in Anonymous}

Attributed ==
  /\ \A e \in log : e.owner \in Named \cup {Nobody}
  /\ \A t \in Sessions : \A e \in snap[t] : e.owner \in Named \cup {Nobody}
  /\ \A e \in log : e.owner = Nobody /\ Gating(e) => e \in Unowned
  /\ \A t \in Sessions : pc[t] = "clear" => t \in Named

-----------------------------------------------------------------------------
(* What the actions do to the log and to what is recorded about it.        *)

(* Nothing: no start begins, and one that has begun is as it was.          *)
Quiet ==
  /\ UNCHANGED <<log, did, hit, overrides>>
  /\ DOMAIN pc' = Sessions /\ DOMAIN snap' = Sessions /\ DOMAIN aim' = Sessions
  /\ \A t \in Sessions : snap'[t] \in {snap[t], {}}
  /\ \A t \in Sessions : pc'[t] = "clear" => pc[t] = "clear" /\ snap'[t] = snap[t]

(* The same, and a line without an owner that no gate looks at, or that    *)
(* is recorded as an override.                                             *)
Aside ==
  /\ UNCHANGED <<did, hit, snap, aim>>
  /\ \E e : /\ log' = log \cup {e} /\ e.owner = Nobody
            /\ \/ ~Gating(e) /\ overrides' = overrides
               \/ overrides' = overrides \cup {e}
  /\ DOMAIN pc' = Sessions
  /\ \A t \in Sessions : pc'[t] = "clear" => pc[t] = "clear"

(* A line of a session.                                                    *)
Tagged(s) ==
  /\ UNCHANGED <<snap, overrides>>
  /\ \E e : /\ log' = log \cup {e} /\ e.owner = Tag(s)
            /\ did' = [did EXCEPT ![s] = @ \cup {e}]
  /\ hit' = [hit EXCEPT ![s] = @ \/ Overrun(s)]
  /\ DOMAIN pc' = Sessions /\ DOMAIN aim' = Sessions
  /\ pc'[s] # "clear"
  /\ \A t \in Sessions : pc'[t] = "clear" => pc[t] = "clear"

(* Most handlers append nothing and read nothing.                          *)
LEMMA QuietSteps ==
  ASSUME Shaped, NEW s \in Sessions,
         \/ \E f \in Files : Edit(s, f)
         \/ RemoveSentinel(s) \/ Die(s) \/ Turn(s)
         \/ StopWork(s) \/ StopRead(s) \/ StopMark(s)
         \/ UserPrompt(s, FALSE)
  PROVE  Quiet
<1> USE DEF Shaped, Quiet, Goto, Approve, Block
<1>1. CASE \E f \in Files : Edit(s, f)  BY <1>1 DEF Edit
<1>2. CASE RemoveSentinel(s)  BY <1>2 DEF RemoveSentinel
<1>3. CASE Die(s)             BY <1>3 DEF Die
<1>4. CASE Turn(s)            BY <1>4 DEF Turn, StopCheck
<1>5. CASE StopWork(s)        BY <1>5 DEF StopWork
<1>6. CASE StopRead(s)        BY <1>6 DEF StopRead
<1>7. CASE StopMark(s)        BY <1>7 DEF StopMark
<1>8. CASE UserPrompt(s, FALSE)  BY <1>8 DEF UserPrompt
<1> QED BY <1>1, <1>2, <1>3, <1>4, <1>5, <1>6, <1>7, <1>8

(* The prompts and credits of the log are lines of nobody.                 *)
LEMMA AsideSteps ==
  ASSUME Shaped, NEW s \in Sessions,
         \/ \E kind \in Kinds, F \in SUBSET Files : AppendUntagged(s, kind, F)
         \/ UserPrompt(s, TRUE) \/ StopCredit(s)
  PROVE  Aside
<1> USE DEF Shaped, Aside, Goto, AppendEvent, Gating
<1>1. ASSUME NEW kind \in Kinds, NEW F \in SUBSET Files, AppendUntagged(s, kind, F)
      PROVE  Aside
  <2> DEFINE n == IF kind = "lesson_surfaced" THEN 1 ELSE 0
             e == NewLine(kind, Nobody, F, n)
  <2>1. e.owner = Nobody /\ e.kind = kind
    BY DEF NewLine
  <2>2. log' = log \cup {e} /\ overrides' = IF kind = "override" THEN overrides \cup {e} ELSE overrides
    BY <1>1 DEF AppendUntagged
  <2>3. kind \in {"override", "code_search", "lesson_surfaced"}
    BY <1>1 DEF AppendUntagged
  <2>4. UNCHANGED <<did, hit, snap, aim, pc>>
    BY <1>1 DEF AppendUntagged
  <2> HIDE DEF e
  <2> QED BY <2>1, <2>2, <2>3, <2>4
<1>2. ASSUME NEW e, e.owner = Nobody, e.kind \in {"frustration", "lesson_surfaced"},
             log' = log \cup {e}, UNCHANGED <<did, hit, snap, aim, overrides>>,
             DOMAIN pc' = Sessions, \A t \in Sessions : pc'[t] = "clear" => pc[t] = "clear"
      PROVE  Aside
  BY <1>2
<1>3. CASE UserPrompt(s, TRUE)
  <2> DEFINE e == NewLine("frustration", Nobody, {}, 0)
  <2>1. e.owner = Nobody /\ e.kind = "frustration"
    BY DEF NewLine
  <2>2. log' = log \cup {e}
    BY <1>3 DEF UserPrompt
  <2> HIDE DEF e
  <2> QED BY <1>2, <1>3, <2>1, <2>2 DEF UserPrompt
<1>4. CASE StopCredit(s)
  <2> DEFINE e == NewLine("lesson_surfaced", Nobody, {}, owed[s])
  <2>1. e.owner = Nobody /\ e.kind = "lesson_surfaced"
    BY DEF NewLine
  <2>2. log' = log \cup {e}
    BY <1>4 DEF StopCredit
  <2> HIDE DEF e
  <2> QED BY <1>2, <1>4, <2>1, <2>2 DEF StopCredit
<1> QED BY <1>1, <1>3, <1>4

(* What a tool leaves is tagged with its session.                          *)
LEMMA TaggedSteps ==
  ASSUME Shaped, NEW s \in Sessions,
         \/ \E kind \in Kinds, F \in SUBSET Files : PostEnforce(s, kind, F)
         \/ PostEdit(s)
  PROVE  Tagged(s) \/ Quiet
<1> USE DEF Shaped, Goto
<1>1. ASSUME NEW kind \in Kinds, NEW F \in SUBSET Files, PostEnforce(s, kind, F)
      PROVE  Tagged(s)
  BY <1>1 DEF PostEnforce, AppendTagged, AppendEvent, NewLine, Tagged
<1>2. CASE PostEdit(s)
  <2>1. CASE AppendTagged(s, "drift_warn", aim[s])
    BY <1>2, <2>1 DEF PostEdit, AppendTagged, AppendEvent, NewLine, Tagged
  <2>2. CASE UNCHANGED <<log, clock, did, hit>>
    BY <1>2, <2>2 DEF PostEdit, Quiet
  <2> QED BY <1>2, <2>1, <2>2 DEF PostEdit
<1> QED BY <1>1, <1>2

(* Every step is one of these, or a step of a start.                       *)
LEMMA StepKinds ==
  ASSUME Shaped, Next
  PROVE  \/ Quiet \/ Aside
         \/ \E s \in Sessions :
              Tagged(s) \/ StartRead(s) \/ StartAnonymous(s) \/ ClearWrite(s)
BY QuietSteps, AsideSteps, TaggedSteps DEF Next, Tools, Hook

-----------------------------------------------------------------------------
(* The functions keep their domain.                                        *)
LEMMA ShapeHolds == Spec => []Shaped
<1>1. Init => Shaped
  BY DEF Init, Shaped
<1>2. Shaped /\ [Next]_vars => Shaped'
  <2> SUFFICES ASSUME Shaped, [Next]_vars PROVE Shaped'
    OBVIOUS
  <2>1. CASE Quiet  BY <2>1 DEF Quiet, Shaped
  <2>2. CASE Aside  BY <2>2 DEF Aside, Shaped
  <2>3. ASSUME NEW s \in Sessions, Tagged(s) PROVE Shaped'
    BY <2>3 DEF Tagged, Shaped
  <2>4. ASSUME NEW s \in Sessions, StartRead(s) \/ StartAnonymous(s) \/ ClearWrite(s)
        PROVE  Shaped'
    BY <2>4 DEF StartRead, StartAnonymous, ClearWrite, Wiped, Goto, Shaped
  <2>5. CASE UNCHANGED vars  BY <2>5 DEF vars, Shaped
  <2> QED BY <2>1, <2>2, <2>3, <2>4, <2>5, StepKinds
<1> QED BY <1>1, <1>2, PTL DEF Spec

(* A new line disturbs the session it belongs to only, and that one is     *)
(* overrun if another start will drop the line.                            *)
LEMMA TaggedKeepsExact ==
  ASSUME Shaped, Exact, NEW s \in Sessions, Tagged(s)
  PROVE  Exact'
<1> USE HookAssumption DEF Shaped, Exact, OwnLines, Own, Named, Rewriting
<1> PICK e : /\ log' = log \cup {e} /\ e.owner = Tag(s)
             /\ did' = [did EXCEPT ![s] = @ \cup {e}]
  BY DEF Tagged
<1>1. snap' = snap /\ hit' = [hit EXCEPT ![s] = @ \/ Overrun(s)]
      /\ \A t \in Sessions : pc'[t] = "clear" => pc[t] = "clear"
  BY DEF Tagged
<1>2. ASSUME NEW r \in Named, r # s PROVE did'[r] = did[r] /\ hit'[r] = hit[r] /\ e.owner # r
  BY <1>1, <1>2 DEF Tag
<1>3. ASSUME NEW r \in Named PROVE hit'[r] \/ Own(log', r) = did'[r]
  <2>1. CASE r = s
    <3>1. e.owner = s /\ did'[s] = did[s] \cup {e} /\ (hit[s] => hit'[s])
      BY <1>1, <2>1 DEF Tag
    <3>2. hit[s] \/ Own(log, s) = did[s]
      BY <2>1
    <3> QED BY <2>1, <3>1, <3>2
  <2>2. CASE r # s
    BY <1>2, <2>2
  <2> QED BY <2>1, <2>2
<1>4. ASSUME NEW r \in Named, NEW t \in Sessions \ {r}, Rewriting(t)'
      PROVE  hit'[r] \/ Own(snap'[t], r) = did'[r]
  <2>1. CASE r = s  BY <1>1, <1>4, <2>1 DEF Overrun
  <2>2. CASE r # s  BY <1>1, <1>2, <1>4, <2>2
  <2> QED BY <2>1, <2>2
<1>5. ASSUME NEW r \in Named, pc'[r] = "clear", snap'[r] = {}
      PROVE  hit'[r] \/ did'[r] = {}
  <2>1. r # s  BY <1>5 DEF Tagged
  <2> QED BY <1>1, <1>2, <1>5, <2>1
<1> QED BY <1>3, <1>4, <1>5

(* A start reads the log as it is.                                         *)
LEMMA StartReadKeepsExact ==
  ASSUME Shaped, Exact, NEW s \in Sessions, StartRead(s)
  PROVE  Exact'
<1> USE DEF Shaped, Exact, OwnLines, Own, Rewriting
<1>1. /\ snap' = [snap EXCEPT ![s] = log] /\ pc' = [pc EXCEPT ![s] = "clear"]
      /\ UNCHANGED <<log, did, hit>>
  BY DEF StartRead, Goto
<1>2. OwnLines'
  BY <1>1
<1>3. ASSUME NEW r \in Named, NEW t \in Sessions \ {r}, Rewriting(t)'
      PROVE  hit'[r] \/ Own(snap'[t], r) = did'[r]
  BY <1>1, <1>3
<1>4. ASSUME NEW r \in Named, pc'[r] = "clear", snap'[r] = {}
      PROVE  hit'[r] \/ did'[r] = {}
  <2>1. CASE r = s  BY <1>1, <1>4, <2>1 DEF Named
  <2>2. CASE r # s  BY <1>1, <1>4, <2>2 DEF Named
  <2> QED BY <2>1, <2>2
<1> QED BY <1>2, <1>3, <1>4

(* What a start writes back is, of every other session, all it recorded;   *)
(* the starting session begins with nothing, unless another start has its  *)
(* lines in hand, or it found no file and cannot tell what has come back.  *)
LEMMA ClearKeepsExact ==
  ASSUME Shaped, Exact, NEW s \in Sessions, ClearWrite(s)
  PROVE  Exact'
<1> USE HookAssumption DEF Shaped, Exact, OwnLines, Own, Rewriting
<1>1. /\ pc[s] = "clear"
      /\ log' = IF snap[s] = {} THEN log ELSE {e \in snap[s] : e.owner \notin {s, Nobody}}
      /\ did' = [did EXCEPT ![s] = {}]
      /\ Overrun(s) \/ (hit[s] /\ snap[s] = {}) => hit'[s]
      /\ \A t \in Sessions \ {s} : hit[t] => hit'[t]
      /\ snap' = [snap EXCEPT ![s] = {}] /\ pc' = [pc EXCEPT ![s] = "unlink"]
  BY DEF ClearWrite, Wiped, Goto
<1>2. ASSUME NEW r \in Named PROVE hit'[r] \/ Own(log', r) = did'[r]
  <2>1. CASE r = s /\ snap[s] = {}
    <3>1. log' = log /\ did'[s] = {} /\ (hit[s] => hit'[s])
      BY <1>1, <2>1
    <3>2. hit[s] \/ (Own(log, s) = did[s] /\ did[s] = {})
      BY <1>1, <2>1
    <3> QED BY <2>1, <3>1, <3>2
  <2>2. CASE r = s /\ snap[s] # {}
    BY <1>1, <2>2
  <2>3. CASE r # s /\ snap[s] = {}
    BY <1>1, <2>3 DEF Named
  <2>4. CASE r # s /\ snap[s] # {}
    <3>1. hit[r] \/ Own(snap[s], r) = did[r]
      BY <1>1, <2>4
    <3>2. Own(log', r) = Own(snap[s], r)
      BY <1>1, <2>4 DEF Named
    <3> QED BY <1>1, <2>4, <3>1, <3>2 DEF Named
  <2> QED BY <2>1, <2>2, <2>3, <2>4
<1>3. ASSUME NEW r \in Named, NEW t \in Sessions \ {r}, Rewriting(t)'
      PROVE  hit'[r] \/ Own(snap'[t], r) = did'[r]
  <2>1. t # s /\ Rewriting(t) /\ snap'[t] = snap[t]
    BY <1>1, <1>3
  <2>2. CASE r = s
    BY <1>1, <2>1, <2>2 DEF Overrun
  <2>3. CASE r # s
    BY <1>1, <2>1, <2>3 DEF Named
  <2> QED BY <2>2, <2>3
<1>4. ASSUME NEW r \in Named, pc'[r] = "clear", snap'[r] = {}
      PROVE  hit'[r] \/ did'[r] = {}
  BY <1>1, <1>4 DEF Named
<1> QED BY <1>2, <1>3, <1>4

(* A start without an id overruns every session that has recorded          *)
(* anything.                                                               *)
LEMMA AnonymousKeepsExact ==
  ASSUME Shaped, Exact, NEW s \in Sessions, StartAnonymous(s)
  PROVE  Exact'
<1> USE DEF Shaped, Exact, OwnLines, Own, Rewriting
<1>1. /\ s \in Anonymous /\ log' = {} /\ did' = [did EXCEPT ![s] = {}] /\ snap' = snap
      /\ \A r \in Named : /\ r # s /\ did'[r] = did[r]
                          /\ hit'[r] = (hit[r] \/ did[r] # {})
      /\ pc' = [pc EXCEPT ![s] = "unlink"]
  <2>1. s \in Anonymous  BY DEF StartAnonymous
  <2>2. \A r \in Named : r # s  BY <2>1 DEF Named
  <2> QED BY <2>1, <2>2 DEF StartAnonymous, Wiped, Goto, Named
<1>2. OwnLines'
  BY <1>1
<1>3. ASSUME NEW r \in Named, NEW t \in Sessions \ {r}, Rewriting(t)'
      PROVE  hit'[r] \/ Own(snap'[t], r) = did'[r]
  BY <1>1, <1>3
<1>4. ASSUME NEW r \in Named, pc'[r] = "clear", snap'[r] = {}
      PROVE  hit'[r] \/ did'[r] = {}
  BY <1>1, <1>4
<1> QED BY <1>2, <1>3, <1>4

(* Each session's own lines in the log are its own deeds, in every state.  *)
THEOREM Exactness == Spec => []Exact
<1>1. Init => Exact
  BY DEF Init, Exact, OwnLines, Own, Named
<1>2. Shaped /\ Exact /\ [Next]_vars => Exact'
  <2> SUFFICES ASSUME Shaped, Exact, [Next]_vars PROVE Exact'
    OBVIOUS
  <2>1. CASE Quiet
    BY <2>1 DEF Quiet, Exact, OwnLines, Own, Rewriting, Named
  <2>2. CASE Aside
    <3>1. \A r \in Named : Own(log', r) = Own(log, r)
      BY <2>2, HookAssumption DEF Aside, Own, Named
    <3> QED BY <2>2, <3>1 DEF Aside, Exact, OwnLines, Rewriting, Named
  <2>3. ASSUME NEW s \in Sessions,
               Tagged(s) \/ StartRead(s) \/ StartAnonymous(s) \/ ClearWrite(s)
        PROVE  Exact'
    BY <2>3, TaggedKeepsExact, StartReadKeepsExact, AnonymousKeepsExact, ClearKeepsExact
  <2>4. CASE UNCHANGED vars
    BY <2>4 DEF vars, Exact, OwnLines, Own, Rewriting
  <2> QED BY <2>1, <2>2, <2>3, <2>4, StepKinds
<1> QED BY <1>1, <1>2, ShapeHolds, PTL DEF Spec

(* Whatever the other sessions do, what a session has analysed since its   *)
(* start still opens its gates, unless a start was rewriting the log at    *)
(* the time, or one without an id removed it.                              *)
THEOREM OwnWorkCounts == Spec => []WorkCounts
<1>1. Exact => WorkCounts
  <2> SUFFICES ASSUME Exact, NEW s \in Named, ~hit[s], NEW e \in did[s]
               PROVE  /\ e.kind = "impact" =>
                           \A f \in Files : Covers(e, f) => EditAllowed(log, f)
                      /\ e.kind = "detect_changes" => CommitAllowed(log)
    BY DEF WorkCounts
  <2>1. e \in log
    BY DEF Exact, OwnLines, Own
  <2> QED BY <2>1 DEF EditAllowed, CommitAllowed
<1> QED BY <1>1, Exactness, PTL

-----------------------------------------------------------------------------
(* A start writes back no line without an owner, and forgets the overrides *)
(* and the work without an id together with their lines.                   *)
THEOREM Attribution == Spec => []Attributed
<1>1. Init => Attributed
  BY DEF Init, Attributed
<1>2. Shaped /\ Attributed /\ [Next]_vars => Attributed'
  <2> SUFFICES ASSUME Shaped, Attributed, [Next]_vars PROVE Attributed'
    OBVIOUS
  <2> USE DEF Shaped, Attributed, Unowned
  <2>1. CASE Quiet
    BY <2>1 DEF Quiet
  <2>2. CASE Aside
    <3> PICK e : /\ log' = log \cup {e} /\ e.owner = Nobody
                 /\ \/ ~Gating(e) /\ overrides' = overrides
                    \/ overrides' = overrides \cup {e}
      BY <2>2 DEF Aside
    <3>1. Unowned \subseteq Unowned' /\ (Gating(e) => e \in Unowned')
      BY <2>2 DEF Aside
    <3> QED BY <2>2, <3>1 DEF Aside, Gating
  <2>3. ASSUME NEW s \in Sessions, Tagged(s) PROVE Attributed'
    <3> PICK e : log' = log \cup {e} /\ e.owner = Tag(s) /\ did' = [did EXCEPT ![s] = @ \cup {e}]
      BY <2>3 DEF Tagged
    <3>1. overrides' = overrides /\ snap' = snap
          /\ \A t \in Sessions : pc'[t] = "clear" => pc[t] = "clear"
      BY <2>3 DEF Tagged
    <3>2. \A t \in Anonymous : did[t] \subseteq did'[t]
      BY HookAssumption
    <3>3. CASE s \in Anonymous
      <4>1. e \in did'[s]
        BY HookAssumption
      <4>2. Unowned \subseteq Unowned' /\ e \in Unowned'
        BY <3>1, <3>2, <3>3, <4>1
      <4>3. e.owner = Nobody
        BY <3>3 DEF Tag
      <4> QED BY <3>1, <4>2, <4>3 DEF Gating
    <3>4. CASE s \notin Anonymous
      <4>1. e.owner \in Named /\ e.owner # Nobody
        BY <3>4, HookAssumption DEF Tag, Named
      <4>2. Unowned \subseteq Unowned'
        BY <3>1, <3>2
      <4> QED BY <3>1, <4>1, <4>2 DEF Gating
    <3> QED BY <3>3, <3>4
  <2>4. ASSUME NEW s \in Sessions, StartRead(s) PROVE Attributed'
    BY <2>4 DEF StartRead, Goto
  <2>5. ASSUME NEW s \in Sessions, StartAnonymous(s) PROVE Attributed'
    BY <2>5 DEF StartAnonymous, Goto
  <2>6. ASSUME NEW s \in Sessions, ClearWrite(s) PROVE Attributed'
    <3>1. /\ s \in Named /\ did' = [did EXCEPT ![s] = {}]
          /\ snap' = [snap EXCEPT ![s] = {}] /\ pc' = [pc EXCEPT ![s] = "unlink"]
      BY <2>6 DEF ClearWrite, Wiped, Goto
    <3>2. CASE snap[s] = {}
      <4>1. UNCHANGED <<log, overrides>> /\ \A t \in Anonymous : did'[t] = did[t]
        BY <2>6, <3>1, <3>2 DEF ClearWrite, Named
      <4>2. Unowned' = Unowned
        BY <4>1
      <4> QED BY <3>1, <4>1, <4>2
    <3>3. CASE snap[s] # {}
      <4>1. log' = {e \in snap[s] : e.owner \notin {s, Nobody}}
        BY <2>6, <3>3 DEF ClearWrite
      <4> QED BY <3>1, <4>1
    <3> QED BY <3>2, <3>3
  <2>7. CASE UNCHANGED vars
    BY <2>7 DEF vars
  <2> QED BY <2>1, <2>2, <2>3, <2>4, <2>5, <2>6, <2>7, StepKinds
<1> QED BY <1>1, <1>2, ShapeHolds, PTL DEF Spec

(* No gate opens on the work of a run that is over, or on an override      *)
(* given before the last start, unless a start was overrun.                *)
THEOREM GatesAreBacked == Spec => []GateBacked
<1>1. Exact /\ Attributed => GateBacked
  <2> DEFINE backing == overrides \cup UNION {did[s] : s \in Sessions}
  <2> SUFFICES ASSUME Exact, Attributed, \A s \in Named : ~hit[s]
               PROVE  /\ \A f \in Files : EditAllowed(log, f) => EditAllowed(backing, f)
                      /\ CommitAllowed(log) => CommitAllowed(backing)
    BY DEF GateBacked
  <2>1. ASSUME NEW e \in log, Gating(e) PROVE e \in backing
    <3>1. CASE e.owner = Nobody
      BY <2>1, <3>1, HookAssumption DEF Attributed, Unowned
    <3>2. CASE e.owner \in Named
      BY <2>1, <3>2 DEF Exact, OwnLines, Own, Named
    <3> QED BY <3>1, <3>2 DEF Attributed
  <2> HIDE DEF backing
  <2>2. ASSUME NEW f \in Files, EditAllowed(log, f) PROVE EditAllowed(backing, f)
    BY <2>1, <2>2 DEF EditAllowed, Gating
  <2>3. ASSUME CommitAllowed(log) PROVE CommitAllowed(backing)
    BY <2>1, <2>3 DEF CommitAllowed, Gating
  <2> QED BY <2>2, <2>3
<1> QED BY <1>1, Exactness, Attribution, PTL

-----------------------------------------------------------------------------
(* The triggers of a set of lines.                                         *)
LEMMA CountUpTo ==
  ASSUME NEW n \in Nat
  PROVE  IsFiniteSet(1 .. n) /\ Cardinality(1 .. n) = n
BY FS_Interval

(* A union is no larger than its parts together.                           *)
LEMMA CountUnion ==
  ASSUME NEW S, IsFiniteSet(S), NEW T, IsFiniteSet(T)
  PROVE  /\ IsFiniteSet(S \cup T)
         /\ Cardinality(S) \in Nat /\ Cardinality(S \cup T) \in Nat
         /\ Cardinality(S \cup T) <= Cardinality(S) + Cardinality(T)
<1>1. /\ Cardinality(S) \in Nat /\ Cardinality(T) \in Nat
      /\ Cardinality(S \cap T) \in Nat /\ Cardinality(S \cup T) \in Nat
  BY FS_Union, FS_Intersection, FS_CardinalityType
<1>2. IsFiniteSet(S \cup T)
      /\ Cardinality(S \cup T) = Cardinality(S) + Cardinality(T) - Cardinality(S \cap T)
  BY FS_Union
<1> QED BY <1>1, <1>2

(* A line that shows n lessons adds at most n surfacings.                  *)
LEMMA TriggersAdd ==
  ASSUME NEW L, NEW e, NEW n \in Nat, e.lessons = n, IsFiniteSet(Triggers(L))
  PROVE  /\ IsFiniteSet(Triggers(L \cup {e}))
         /\ Surfacings(L) \in Nat /\ Surfacings(L \cup {e}) \in Nat
         /\ Surfacings(L \cup {e}) <= Surfacings(L) + n
<1> DEFINE T == {e.at} \X (1 .. n)
<1>1. Triggers(L \cup {e}) = Triggers(L) \cup T
  BY DEF Triggers
<1>2. IsFiniteSet({e.at}) /\ Cardinality({e.at}) = 1
  BY FS_Singleton
<1>3. IsFiniteSet(T) /\ Cardinality(T) = Cardinality({e.at}) * Cardinality(1 .. n)
  BY <1>2, CountUpTo, FS_Product
<1> HIDE DEF T
<1>4. /\ IsFiniteSet(Triggers(L) \cup T)
      /\ Cardinality(Triggers(L)) \in Nat /\ Cardinality(Triggers(L) \cup T) \in Nat
      /\ Cardinality(Triggers(L) \cup T) <= Cardinality(Triggers(L)) + Cardinality(T)
  BY <1>3, CountUnion
<1>5. Cardinality(T) = n
  BY <1>2, <1>3, CountUpTo
<1> QED BY <1>1, <1>4, <1>5 DEF Surfacings

(* Surfacings are a number.                                                *)
LEMMA SurfacingsNat ==
  ASSUME NEW L, IsFiniteSet(Triggers(L))
  PROVE  Surfacings(L) \in Nat
BY FS_CardinalityType DEF Surfacings

(* Fewer lines, fewer triggers to count.                                   *)
LEMMA TriggersLess ==
  ASSUME NEW L, NEW M, M \subseteq L, IsFiniteSet(Triggers(L))
  PROVE  IsFiniteSet(Triggers(M))
<1>1. Triggers(M) \in SUBSET Triggers(L)
  BY DEF Triggers
<1> QED BY <1>1, FS_Subset

(* Lines that show no lessons surface none.                                *)
LEMMA NoTriggers ==
  ASSUME NEW L, \A e \in L : e.lessons = 0
  PROVE  Surfacings(L) = 0 /\ IsFiniteSet(Triggers(L))
<1>1. Triggers(L) = {}
  BY DEF Triggers
<1> QED BY <1>1, FS_EmptySet DEF Surfacings

(* With the types: a line was written before now, only lines of nobody     *)
(* show lessons, and the triggers of what is there can be counted.         *)
LinesOK(L) ==
  /\ IsFiniteSet(Triggers(L))
  /\ \A e \in L : e.at < clock /\ (e.owner # Nobody => e.lessons = 0)

Typed == TypeOK /\ LinesOK(log) /\ \A s \in Sessions : LinesOK(snap[s])

(* Appending a line keeps the log one whose surfacings can be counted.     *)
LEMMA NewLineOK ==
  ASSUME Typed, NEW kind \in Kinds, NEW owner \in Sessions \cup {Nobody},
         NEW F \in SUBSET Files, NEW n \in Nat, owner = Nobody \/ n = 0,
         AppendEvent(NewLine(kind, owner, F, n))
  PROVE  /\ NewLine(kind, owner, F, n) \in Line
         /\ log' \subseteq Line /\ clock' \in Nat /\ clock' = clock + 1
         /\ LinesOK(log)'
         /\ Surfacings(log) \in Nat /\ Surfacings(log') \in Nat
         /\ Surfacings(log') <= Surfacings(log) + n
<1> DEFINE e == NewLine(kind, owner, F, n)
<1>1. e \in Line /\ e.lessons = n /\ e.at = clock /\ e.owner = owner
  BY DEF NewLine, Line, Typed, TypeOK
<1>2. log' = log \cup {e} /\ clock' = clock + 1
  BY DEF AppendEvent
<1>3. clock \in Nat /\ log \subseteq Line /\ IsFiniteSet(Triggers(log))
  BY DEF Typed, TypeOK, LinesOK
<1> HIDE DEF e
<1>4. /\ IsFiniteSet(Triggers(log')) /\ Surfacings(log) \in Nat /\ Surfacings(log') \in Nat
      /\ Surfacings(log') <= Surfacings(log) + n
  BY <1>1, <1>2, <1>3, TriggersAdd
<1>5. \A x \in log' : x.at < clock' /\ (x.owner # Nobody => x.lessons = 0)
  <2>1. \A x \in log : x.at \in Nat /\ x.at < clock /\ (x.owner # Nobody => x.lessons = 0)
    BY <1>3 DEF Typed, LinesOK, Line
  <2> QED BY <1>1, <1>2, <1>3, <2>1
<1> QED BY <1>1, <1>2, <1>3, <1>4, <1>5 DEF e, LinesOK

(* Lines that are still there are as good under a later clock.             *)
LEMMA LinesLater ==
  ASSUME NEW L, L \subseteq Line, LinesOK(L), clock \in Nat, clock' \in {clock, clock + 1}
  PROVE  LinesOK(L)'
BY DEF LinesOK, Line

(* What the steps that only look, and the tools, do to the lines.          *)
SameLines == UNCHANGED <<log, clock>> /\ \A t \in Sessions : snap'[t] \in {snap[t], {}}

(* An empty log is in order.                                               *)
LEMMA EmptyLines == LinesOK({}) /\ LinesOK({})'
BY NoTriggers DEF LinesOK

(* A step that appends nothing keeps the lines in order.                   *)
LEMMA SameLinesTyped ==
  ASSUME Typed, SameLines
  PROVE  LinesOK(log)' /\ \A t \in Sessions : LinesOK(snap[t])'
<1>1. ASSUME NEW t \in Sessions PROVE LinesOK(snap[t])'
  <2>1. CASE snap'[t] = snap[t]
    BY <2>1, LinesLater DEF SameLines, Typed, TypeOK
  <2>2. CASE snap'[t] = {}
    BY <2>2, EmptyLines DEF LinesOK
  <2> QED BY <2>1, <2>2 DEF SameLines
<1>2. LinesOK(log)'
  BY LinesLater DEF SameLines, Typed, TypeOK
<1> QED BY <1>1, <1>2

(* Spending some of the scope keeps it in its type.                        *)
LEMMA SpendTyped ==
  ASSUME left \in ScopeType,
         NEW what \in {"appends", "edits", "starts", "prompts", "deaths"}, Spend(what)
  PROVE  left' \in ScopeType
<1>1. left[what] \in Nat /\ left[what] > 0
  BY DEF ScopeType, Spend
<1>2. left[what] - 1 \in Nat
  BY <1>1
<1> QED BY <1>2 DEF Spend, ScopeType

(* A line is appended and nothing is read.                                 *)
LEMMA AppendTyped ==
  ASSUME Typed, UNCHANGED snap, clock' = clock + 1, LinesOK(log)'
  PROVE  \A t \in Sessions : LinesOK(snap[t])'
<1>1. ASSUME NEW t \in Sessions PROVE LinesOK(snap[t])'
  BY LinesLater DEF Typed, TypeOK
<1> QED BY <1>1

(* What a stop-check sets.                                                 *)
TurnOK ==
  /\ pc \in [Sessions -> PCs] /\ active \in [Sessions -> BOOLEAN]
  /\ verdict \in [Sessions -> Verdicts] /\ owed \in [Sessions -> Nat]

(* A stop-check that moves on, approves or blocks keeps the types of its   *)
(* session.                                                                *)
LEMMA TurnTyped ==
  ASSUME TurnOK, NEW s \in Sessions, NEW why \in Verdicts, NEW l \in PCs,
         \/ Approve(s, why) \/ Block(s, why)
         \/ Goto(s, l) /\ UNCHANGED <<active, verdict, owed>>
  PROVE  TurnOK'
<1>1. CASE Approve(s, why)  BY <1>1 DEF TurnOK, Approve, Goto, PCs
<1>2. CASE Block(s, why)    BY <1>2 DEF TurnOK, Block, Goto, PCs
<1>3. CASE Goto(s, l) /\ UNCHANGED <<active, verdict, owed>>
  BY <1>3 DEF TurnOK, Goto
<1> QED BY <1>1, <1>2, <1>3

(* The types and the order of the lines, in every state.                   *)
THEOREM Typing == Spec => []Typed
<1>1. Init => Typed
  <2> SUFFICES ASSUME Init PROVE Typed
    OBVIOUS
  <2>1. TypeOK
    BY HookAssumption DEF Init, TypeOK, PCs, Verdicts
  <2>2. LinesOK(log) /\ \A s \in Sessions : LinesOK(snap[s])
    BY EmptyLines DEF Init
  <2> QED BY <2>1, <2>2 DEF Typed
<1>2. Typed /\ [Next]_vars => Typed'
  <2> SUFFICES ASSUME Typed, [Next]_vars PROVE Typed'
    OBVIOUS
  <2> USE DEF TypeOK, PCs, Verdicts, Goto
  <2>0. TypeOK
    BY DEF Typed
  <2>1. ASSUME NEW s \in Sessions, StartRead(s) PROVE Typed'
    <3>1. snap' = [snap EXCEPT ![s] = log] /\ UNCHANGED <<log, clock>>
      BY <2>1 DEF StartRead
    <3>2. ASSUME NEW t \in Sessions PROVE LinesOK(snap[t])'
      BY <2>0, <3>1, LinesLater DEF Typed
    <3>3. LinesOK(log)'
      BY <2>0, <3>1, LinesLater DEF Typed
    <3>4. TypeOK'
      BY <2>0, <2>1, SpendTyped DEF StartRead
    <3> QED BY <3>2, <3>3, <3>4 DEF Typed
  <2>2. ASSUME NEW s \in Sessions, StartAnonymous(s) PROVE Typed'
    <3>1. snap' = snap /\ log' = {} /\ clock' = clock
      BY <2>2 DEF StartAnonymous
    <3>2. ASSUME NEW t \in Sessions PROVE LinesOK(snap[t])'
      BY <2>0, <3>1, LinesLater DEF Typed
    <3>3. LinesOK(log)'
      BY <3>1, EmptyLines DEF LinesOK
    <3>4. TypeOK'
      <4>1. hit' \in [Sessions -> BOOLEAN]
        BY <2>0, <2>2 DEF StartAnonymous, Wiped, Overrun
      <4> QED BY <2>0, <2>2, <4>1, SpendTyped DEF StartAnonymous, Wiped
    <3> QED BY <3>2, <3>3, <3>4 DEF Typed
  <2>3. ASSUME NEW s \in Sessions, ClearWrite(s) PROVE Typed'
    <3>1. clock' = clock /\ snap' = [snap EXCEPT ![s] = {}]
          /\ (log' = log \/ log' \subseteq snap[s])
      BY <2>3 DEF ClearWrite
    <3>2. ASSUME NEW t \in Sessions PROVE LinesOK(snap[t])'
      <4>1. CASE t = s  BY <2>0, <3>1, <4>1, EmptyLines DEF LinesOK
      <4>2. CASE t # s  BY <2>0, <3>1, <4>2, LinesLater DEF Typed
      <4> QED BY <4>1, <4>2
    <3>3. LinesOK(log)'
      <4>1. CASE log' = log
        BY <2>0, <3>1, <4>1, LinesLater DEF Typed
      <4>2. CASE log' \subseteq snap[s]
        BY <2>0, <3>1, <4>2, TriggersLess DEF Typed, LinesOK
      <4> QED BY <3>1, <4>1, <4>2
    <3>4. TypeOK'
      <4>1. hit' \in [Sessions -> BOOLEAN] /\ eased' \in [Sessions -> BOOLEAN]
        BY <2>0, <2>3 DEF ClearWrite, Wiped, Overrun
      <4> QED BY <2>0, <2>3, <4>1 DEF ClearWrite, Wiped
    <3> QED BY <3>2, <3>3, <3>4 DEF Typed
  <2>4. ASSUME NEW s \in Sessions, NEW kind \in Kinds, NEW F \in SUBSET Files,
               PostEnforce(s, kind, F)
        PROVE  Typed'
    <3> DEFINE e == NewLine(kind, Tag(s), F, 0)
    <3>1. Tag(s) \in Sessions \cup {Nobody}
      BY DEF Tag
    <3>2. AppendEvent(e) /\ did' = [did EXCEPT ![s] = @ \cup {e}]
          /\ hit' = [hit EXCEPT ![s] = @ \/ Overrun(s)]
      BY <2>4 DEF PostEnforce, AppendTagged
    <3>3. e \in Line /\ log' \subseteq Line /\ clock' \in Nat /\ clock' = clock + 1 /\ LinesOK(log)'
      BY <3>1, <3>2, NewLineOK
    <3> HIDE DEF e
    <3>4. hit' \in [Sessions -> BOOLEAN] /\ did' \in [Sessions -> SUBSET Line]
      BY <2>0, <3>2, <3>3 DEF Overrun
    <3>5. upset' \in [Sessions -> BOOLEAN] /\ eased' \in [Sessions -> BOOLEAN]
      BY <2>0, <2>4 DEF PostEnforce
    <3>6. TypeOK'
      BY <2>0, <2>4, <3>3, <3>4, <3>5, SpendTyped DEF PostEnforce
    <3> QED BY <2>4, <3>3, <3>6, AppendTyped DEF Typed, PostEnforce
  <2>5. ASSUME NEW s \in Sessions, NEW kind \in Kinds, NEW F \in SUBSET Files,
               AppendUntagged(s, kind, F)
        PROVE  Typed'
    <3> DEFINE n == IF kind = "lesson_surfaced" THEN 1 ELSE 0
               e == NewLine(kind, Nobody, F, n)
    <3>1. n \in Nat
      OBVIOUS
    <3>2. /\ AppendEvent(e) /\ surfaced' = surfaced + n
          /\ overrides' = IF kind = "override" THEN overrides \cup {e} ELSE overrides
      BY <2>5 DEF AppendUntagged
    <3> HIDE DEF n
    <3>3. e \in Line /\ log' \subseteq Line /\ clock' \in Nat /\ clock' = clock + 1 /\ LinesOK(log)'
      BY <3>1, <3>2, NewLineOK
    <3> HIDE DEF e
    <3>4. surfaced' \in Nat /\ overrides' \subseteq Line
      BY <2>0, <3>1, <3>2, <3>3
    <3>5. TypeOK'
      BY <2>0, <2>5, <3>3, <3>4, SpendTyped DEF AppendUntagged
    <3> QED BY <2>5, <3>3, <3>5, AppendTyped DEF Typed, AppendUntagged
  <2>6. ASSUME NEW s \in Sessions, UserPrompt(s, TRUE) PROVE Typed'
    <3>1. AppendEvent(NewLine("frustration", Nobody, {}, 0))
      BY <2>6 DEF UserPrompt
    <3>2. log' \subseteq Line /\ clock' \in Nat /\ clock' = clock + 1 /\ LinesOK(log)'
      BY <3>1, NewLineOK DEF Kinds, Work
    <3>3. TypeOK'
      BY <2>0, <2>6, <3>2, SpendTyped DEF UserPrompt
    <3> QED BY <2>6, <3>2, <3>3, AppendTyped DEF Typed, UserPrompt
  <2>7. ASSUME NEW s \in Sessions, UserPrompt(s, FALSE) PROVE Typed'
    <3>1. TypeOK'
      BY <2>0, <2>7, SpendTyped DEF UserPrompt
    <3>2. SameLines
      BY <2>7 DEF UserPrompt, SameLines
    <3> QED BY <3>1, <3>2, SameLinesTyped DEF Typed
  <2>8. ASSUME NEW s \in Sessions, NEW f \in Files, Edit(s, f) PROVE Typed'
    <3>1. TypeOK'
      BY <2>0, <2>8, SpendTyped DEF Edit
    <3>2. SameLines
      BY <2>8 DEF Edit, SameLines
    <3> QED BY <3>1, <3>2, SameLinesTyped DEF Typed
  <2>9. ASSUME NEW s \in Sessions, PostEdit(s) PROVE Typed'
    <3> DEFINE e == NewLine("drift_warn", Tag(s), aim[s], 0)
    <3>1. CASE AppendTagged(s, "drift_warn", aim[s])
      <4>1. Tag(s) \in Sessions \cup {Nobody} /\ aim[s] \in SUBSET Files
        BY <2>0 DEF Tag
      <4>2. AppendEvent(e) /\ did' = [did EXCEPT ![s] = @ \cup {e}]
            /\ hit' = [hit EXCEPT ![s] = @ \/ Overrun(s)]
        BY <3>1 DEF AppendTagged
      <4>3. e \in Line /\ log' \subseteq Line /\ clock' \in Nat /\ clock' = clock + 1 /\ LinesOK(log)'
        BY <4>1, <4>2, NewLineOK DEF Kinds, Work
      <4> HIDE DEF e
      <4>4. hit' \in [Sessions -> BOOLEAN] /\ did' \in [Sessions -> SUBSET Line]
        BY <2>0, <4>2, <4>3 DEF Overrun
      <4>5. TypeOK'
        BY <2>0, <2>9, <4>3, <4>4 DEF PostEdit
      <4> QED BY <2>9, <4>3, <4>5, AppendTyped DEF Typed, PostEdit
    <3>2. CASE UNCHANGED <<log, clock, did, hit>>
      <4>1. TypeOK'
        BY <2>0, <2>9, <3>2 DEF PostEdit
      <4>2. SameLines
        BY <2>9, <3>2 DEF PostEdit, SameLines
      <4> QED BY <4>1, <4>2, SameLinesTyped DEF Typed
    <3> QED BY <2>9, <3>1, <3>2 DEF PostEdit
  <2>10. ASSUME NEW s \in Sessions, Die(s) PROVE Typed'
    <3>1. TypeOK'
      BY <2>0, <2>10, SpendTyped DEF Die
    <3>2. SameLines
      BY <2>0, <2>10 DEF Die, SameLines
    <3> QED BY <3>1, <3>2, SameLinesTyped DEF Typed
  <2>11. ASSUME NEW s \in Sessions, RemoveSentinel(s) \/ Turn(s) \/ StopWork(s) \/ StopMark(s)
         PROVE  Typed'
    <3>1. TypeOK'
      <4>1. CASE RemoveSentinel(s)  BY <2>0, <4>1 DEF RemoveSentinel
      <4>2. CASE Turn(s) \/ StopWork(s)
        <5>1. \E why \in Verdicts, l \in PCs :
                Approve(s, why) \/ (Goto(s, l) /\ UNCHANGED <<active, verdict, owed>>)
          BY <4>2 DEF Turn, StopCheck, StopWork
        <5>2. TurnOK'
          BY <2>0, <5>1, TurnTyped DEF TurnOK
        <5> QED BY <2>0, <4>2, <5>2 DEF Turn, StopCheck, StopWork, TurnOK
      <4>4. CASE StopMark(s)
        <5>1. mixed' \in BOOLEAN
          BY <2>0, <4>4 DEF StopMark, Crowded
        <5> QED BY <2>0, <4>4, <5>1 DEF StopMark, Block
      <4> QED BY <2>11, <4>1, <4>2, <4>4
    <3>2. SameLines
      BY <2>11 DEF RemoveSentinel, Turn, StopCheck, StopWork, StopMark, SameLines
    <3> QED BY <3>1, <3>2, SameLinesTyped DEF Typed
  <2>12. ASSUME NEW s \in Sessions, StopRead(s) PROVE Typed'
    <3>0. IsFiniteSet(Triggers(log))
      BY DEF Typed, LinesOK
    <3>1. Surfacings(log) \in Nat
      BY <3>0, SurfacingsNat
    <3>2. TypeOK'
      <4>1. CASE Frustrated(log)
        <5>1. Block(s, "frustration") /\ "frustration" \in Verdicts
          BY <2>12, <4>1 DEF StopRead
        <5>2. TurnOK'
          BY <2>0, <5>1, TurnTyped DEF TurnOK
        <5> QED BY <2>0, <2>12, <5>2 DEF StopRead, TurnOK
      <4>2. CASE ~Frustrated(log)
        <5>1. /\ owed' = [owed EXCEPT ![s] = Surfacings(log)]
              /\ pc' \in {[pc EXCEPT ![s] = "stopCredit"], [pc EXCEPT ![s] = "stopMark"]}
              /\ UNCHANGED <<active, verdict>>
          BY <2>12, <4>2 DEF StopRead
        <5>2. owed' \in [Sessions -> Nat]
          <6>1. owed \in [Sessions -> Nat]
            BY <2>0
          <6> QED BY <3>1, <5>1, <6>1
        <5>3. pc' \in [Sessions -> PCs]
          BY <2>0, <5>1
        <5> QED BY <5>3, <2>0, <2>12, <5>1, <5>2 DEF StopRead
      <4> QED BY <4>1, <4>2
    <3>3. SameLines
      BY <2>12 DEF StopRead, SameLines
    <3> QED BY <3>2, <3>3, SameLinesTyped DEF Typed
  <2>13. ASSUME NEW s \in Sessions, StopCredit(s) PROVE Typed'
    <3>1. owed[s] \in Nat
      BY <2>0
    <3>2. AppendEvent(NewLine("lesson_surfaced", Nobody, {}, owed[s]))
      BY <2>13 DEF StopCredit
    <3>3. log' \subseteq Line /\ clock' \in Nat /\ clock' = clock + 1 /\ LinesOK(log)'
      BY <3>1, <3>2, NewLineOK DEF Kinds, Work
    <3>4. mixed' \in BOOLEAN /\ credited' \in Nat
      BY <2>0, <2>13, <3>1 DEF StopCredit, Crowded
    <3>5. TypeOK'
      BY <2>0, <2>13, <3>3, <3>4 DEF StopCredit
    <3> QED BY <2>13, <3>3, <3>5, AppendTyped DEF Typed, StopCredit
  <2>14. CASE UNCHANGED vars
    <3>1. TypeOK' /\ SameLines
      BY <2>0, <2>14 DEF vars, SameLines
    <3> QED BY <3>1, SameLinesTyped DEF Typed
  <2> QED BY <2>1, <2>2, <2>3, <2>4, <2>5, <2>6, <2>7, <2>8, <2>9, <2>10, <2>11, <2>12,
             <2>13, <2>14 DEF Next, Tools, Hook
<1> QED BY <1>1, <1>2, PTL DEF Spec

(* Every variable keeps its type, lesson counts included.                  *)
THEOREM TypeCorrect == Spec => []TypeOK
BY Typing, PTL DEF Typed

-----------------------------------------------------------------------------
(* A frustration nobody has answered stays the last word of the log, and   *)
(* who has passed it at a stop-check was answered for.                     *)
Held ==
  /\ \A s \in Sessions : upset[s] => eased[s] \/ Frustrated(log)
  /\ \A s \in Sessions : upset[s] /\ pc[s] \in {"stopCredit", "stopMark"} => eased[s]
  /\ FrustrationHeld

(* Without a stop-check between its credit and its sentinel, what the log  *)
(* still shows has not been credited, as long as someone may credit it:    *)
(* there is no sentinel, a stop-check has passed it, or a start is about   *)
(* to remove it (one that read an empty log leaves the lines there).       *)
Marking == \E t \in Sessions : pc[t] = "stopMark"
Removing == \E t \in Sessions : pc[t] = "unlink" \/ (pc[t] = "clear" /\ snap[t] = {})
Passed == ~reflected \/ \E t \in Sessions : pc[t] \in {"stopWork", "stopRead"}

Counted ==
  mixed \/
    /\ credited <= surfaced
    /\ Removing \/ (~Marking /\ Passed) => credited + Surfacings(log) <= surfaced
    /\ \A s \in Sessions :
         pc[s] = "stopCredit" /\ ~Marking => credited + owed[s] <= surfaced

(* A line that saves no lesson leaves the last word where it is.           *)
LEMMA StaysFrustrated ==
  ASSUME NEW L, NEW e, e.kind # "lesson_saved", Frustrated(L)
  PROVE  Frustrated(L \cup {e})
BY DEF Frustrated

(* A complaint just appended is the last word.                             *)
LEMMA LastWord ==
  ASSUME Typed, AppendEvent(NewLine("frustration", Nobody, {}, 0))
  PROVE  Frustrated(log')
<1> DEFINE e == NewLine("frustration", Nobody, {}, 0)
<1>1. e.kind = "frustration" /\ e.at = clock /\ log' = log \cup {e}
  BY DEF NewLine, AppendEvent
<1>2. \A l \in log : l.at < clock
  BY DEF Typed, LinesOK
<1> HIDE DEF e
<1> QED BY <1>1, <1>2 DEF Frustrated

(* A turn in which the user was frustrated is held, by a stop-check of any *)
(* session, until the session saved a lesson or another one answered.      *)
THEOREM FrustrationIsHeld == Spec => []FrustrationHeld
<1>1. Init => Held
  BY DEF Init, Held, FrustrationHeld
<1>2. Typed /\ Held /\ [Next]_vars => Held'
  <2> SUFFICES ASSUME Typed, Held, [Next]_vars PROVE Held'
    OBVIOUS
  <2>0. /\ pc \in [Sessions -> PCs] /\ upset \in [Sessions -> BOOLEAN]
        /\ eased \in [Sessions -> BOOLEAN] /\ verdict \in [Sessions -> Verdicts]
    BY DEF Typed, TypeOK
  <2> USE DEF Held, FrustrationHeld, Goto
  <2>1. ASSUME NEW s \in Sessions, StartRead(s) PROVE Held'
    BY <2>0, <2>1 DEF StartRead
  <2>2. ASSUME NEW s \in Sessions, StartAnonymous(s) PROVE Held'
    BY <2>0, <2>2 DEF StartAnonymous, Wiped
  <2>3. ASSUME NEW s \in Sessions, ClearWrite(s) PROVE Held'
    BY <2>0, <2>3 DEF ClearWrite, Wiped
  <2>4. ASSUME NEW s \in Sessions, NEW kind \in Kinds, NEW F \in SUBSET Files,
               PostEnforce(s, kind, F)
        PROVE  Held'
    <3>1. CASE kind = "lesson_saved"
      BY <2>0, <2>4, <3>1 DEF PostEnforce
    <3>2. CASE kind # "lesson_saved"
      <4> DEFINE e == NewLine(kind, Tag(s), F, 0)
      <4>1. e.kind # "lesson_saved"
        BY <3>2 DEF NewLine
      <4>2. log' = log \cup {e} /\ UNCHANGED <<pc, upset, eased, verdict>>
        BY <2>4, <3>2 DEF PostEnforce, AppendTagged, AppendEvent
      <4> HIDE DEF e
      <4> QED BY <4>1, <4>2, StaysFrustrated
    <3> QED BY <3>1, <3>2
  <2>5. ASSUME NEW s \in Sessions, NEW kind \in Kinds, NEW F \in SUBSET Files,
               AppendUntagged(s, kind, F)
        PROVE  Held'
    <3> DEFINE e == NewLine(kind, Nobody, F, IF kind = "lesson_surfaced" THEN 1 ELSE 0)
    <3>1. e.kind # "lesson_saved"
      BY <2>5 DEF AppendUntagged, NewLine
    <3>2. log' = log \cup {e} /\ UNCHANGED <<pc, upset, eased, verdict>>
      BY <2>5 DEF AppendUntagged, AppendEvent
    <3> HIDE DEF e
    <3> QED BY <3>1, <3>2, StaysFrustrated
  <2>6. ASSUME NEW s \in Sessions, UserPrompt(s, TRUE) PROVE Held'
    <3>1. Frustrated(log')
      BY <2>6, LastWord DEF UserPrompt
    <3> QED BY <2>0, <2>6, <3>1 DEF UserPrompt
  <2>7. ASSUME NEW s \in Sessions, UserPrompt(s, FALSE) PROVE Held'
    BY <2>0, <2>7 DEF UserPrompt
  <2>8. ASSUME NEW s \in Sessions, NEW f \in Files, Edit(s, f) PROVE Held'
    BY <2>0, <2>8 DEF Edit
  <2>9. ASSUME NEW s \in Sessions, PostEdit(s) PROVE Held'
    <3> DEFINE e == NewLine("drift_warn", Tag(s), aim[s], 0)
    <3>1. e.kind # "lesson_saved"
      BY DEF NewLine
    <3>2. log' = log \/ log' = log \cup {e}
      BY <2>9 DEF PostEdit, AppendTagged, AppendEvent
    <3> HIDE DEF e
    <3>3. Frustrated(log) => Frustrated(log')
      BY <3>1, <3>2, StaysFrustrated
    <3> QED BY <2>0, <2>9, <3>3 DEF PostEdit
  <2>10. ASSUME NEW s \in Sessions, Die(s) PROVE Held'
    BY <2>0, <2>10 DEF Die
  <2>11. ASSUME NEW s \in Sessions, RemoveSentinel(s) PROVE Held'
    BY <2>0, <2>11 DEF RemoveSentinel
  <2>12. ASSUME NEW s \in Sessions, Turn(s) PROVE Held'
    BY <2>0, <2>12 DEF Turn, StopCheck, Approve
  <2>13. ASSUME NEW s \in Sessions, StopWork(s) PROVE Held'
    <3>1. Frustrated(log) => \E e \in log : e.kind \in Work
      BY DEF Frustrated, Work
    <3> QED BY <2>0, <2>13, <3>1 DEF StopWork, Approve
  <2>14. ASSUME NEW s \in Sessions, StopRead(s) PROVE Held'
    BY <2>0, <2>14 DEF StopRead, Block
  <2>15. ASSUME NEW s \in Sessions, StopCredit(s) PROVE Held'
    <3> DEFINE e == NewLine("lesson_surfaced", Nobody, {}, owed[s])
    <3>1. e.kind # "lesson_saved"
      BY DEF NewLine
    <3>2. log' = log \cup {e}
      BY <2>15 DEF StopCredit, AppendEvent
    <3> HIDE DEF e
    <3>3. Frustrated(log) => Frustrated(log')
      BY <3>1, <3>2, StaysFrustrated
    <3> QED BY <2>0, <2>15, <3>3 DEF StopCredit
  <2>16. ASSUME NEW s \in Sessions, StopMark(s) PROVE Held'
    BY <2>0, <2>16 DEF StopMark, Block
  <2>17. CASE UNCHANGED vars
    BY <2>17 DEF vars
  <2> QED BY <2>1, <2>2, <2>3, <2>4, <2>5, <2>6, <2>7, <2>8, <2>9, <2>10, <2>11, <2>12,
             <2>13, <2>14, <2>15, <2>16, <2>17 DEF Next, Tools, Hook
<1>3. Held => FrustrationHeld
  BY DEF Held
<1> QED BY <1>1, <1>2, <1>3, Typing, PTL DEF Spec

(* Each lesson shown is credited once, unless a stop-check ran into        *)
(* another one, or into a start.                                           *)
THEOREM LessonsCreditedOnce == Spec => []CreditedOnce
<1>1. Init => Counted
  <2> SUFFICES ASSUME Init PROVE Counted
    OBVIOUS
  <2>1. Surfacings(log) = 0
    BY NoTriggers DEF Init
  <2> QED BY <2>1 DEF Init, Counted
<1>2. Typed /\ Counted /\ [Next]_vars => Counted'
  <2> SUFFICES ASSUME Typed, Counted, [Next]_vars PROVE Counted'
    OBVIOUS
  <2>0. /\ pc \in [Sessions -> PCs] /\ owed \in [Sessions -> Nat]
        /\ snap \in [Sessions -> SUBSET Line]
        /\ credited \in Nat /\ surfaced \in Nat /\ Surfacings(log) \in Nat
    BY SurfacingsNat DEF Typed, TypeOK, LinesOK
  <2>m. mixed => mixed'
    <3>1. ASSUME NEW s \in Sessions, Hook(s) PROVE mixed => mixed'
      BY <3>1 DEF Hook, ClearWrite, RemoveSentinel, PostEdit, StopWork, StopRead, StopCredit,
                  StopMark
    <3>2. ASSUME NEW s \in Sessions, Tools(s) \/ Turn(s) PROVE mixed' = mixed
      BY <3>2 DEF Tools, Turn, PostEnforce, AppendUntagged, Edit, StopCheck
    <3>3. ASSUME NEW s \in Sessions, StartRead(s) \/ StartAnonymous(s) \/ Die(s) PROVE mixed => mixed'
      BY <3>3 DEF StartRead, StartAnonymous, Die
    <3>4. ASSUME NEW s \in Sessions, NEW b \in BOOLEAN, UserPrompt(s, b) PROVE mixed' = mixed
      BY <3>4 DEF UserPrompt
    <3>5. UNCHANGED vars => mixed' = mixed
      BY DEF vars
    <3> QED BY <3>1, <3>2, <3>3, <3>4, <3>5 DEF Next
  <2>s. SUFFICES ASSUME ~mixed' PROVE Counted'
    BY DEF Counted
  <2>c. /\ ~mixed /\ credited <= surfaced
        /\ Removing \/ (~Marking /\ Passed) => credited + Surfacings(log) <= surfaced
        /\ \A t \in Sessions : pc[t] = "stopCredit" /\ ~Marking => credited + owed[t] <= surfaced
    BY <2>m, <2>s DEF Counted
  <2> USE DEF Goto, Marking, Removing, Passed
  <2>1. ASSUME NEW s \in Sessions, StartRead(s) PROVE Counted'
    <3>1. /\ snap' = [snap EXCEPT ![s] = log] /\ pc' = [pc EXCEPT ![s] = "clear"]
          /\ pc[s] \in {"off", "idle"}
          /\ UNCHANGED <<log, reflected, owed, surfaced, credited>>
      BY <2>1 DEF StartRead
    <3>2. log = {} => Surfacings(log) = 0
      BY NoTriggers
    <3>3. Removing' => Removing \/ log = {}
      BY <2>0, <3>1
    <3>4. Marking' = Marking /\ Passed' = Passed
      BY <2>0, <3>1
    <3>5. \A t \in Sessions : pc'[t] = "stopCredit" => pc[t] = "stopCredit"
      BY <2>0, <3>1
    <3> QED BY <2>0, <2>c, <3>1, <3>2, <3>3, <3>4, <3>5 DEF Counted
  <2>2. ASSUME NEW s \in Sessions, StartAnonymous(s) PROVE Counted'
    <3>1. /\ log' = {} /\ pc' = [pc EXCEPT ![s] = "unlink"] /\ pc[s] \in {"off", "idle"}
          /\ UNCHANGED <<owed, surfaced, credited>>
      BY <2>2 DEF StartAnonymous
    <3>2. Surfacings(log') = 0
      BY <3>1, NoTriggers
    <3>3. Marking' = Marking /\ \A t \in Sessions : pc'[t] = "stopCredit" => pc[t] = "stopCredit"
      BY <2>0, <3>1
    <3> QED BY <2>0, <2>c, <3>1, <3>2, <3>3 DEF Counted
  <2>3. ASSUME NEW s \in Sessions, ClearWrite(s) PROVE Counted'
    <3>1. /\ pc' = [pc EXCEPT ![s] = "unlink"] /\ pc[s] = "clear"
          /\ UNCHANGED <<owed, surfaced, credited>>
      BY <2>3 DEF ClearWrite
    <3>2. Marking' = Marking /\ \A t \in Sessions : pc'[t] = "stopCredit" => pc[t] = "stopCredit"
      BY <2>0, <3>1
    <3>3. CASE snap[s] = {}
      <4>1. log' = log /\ Removing
        BY <2>3, <3>3 DEF ClearWrite
      <4> QED BY <2>0, <2>c, <3>1, <3>2, <4>1 DEF Counted
    <3>4. CASE snap[s] # {}
      <4>1. \A e \in log' : e.lessons = 0
        BY <2>3, <3>4 DEF ClearWrite, Typed, LinesOK
      <4>2. Surfacings(log') = 0
        BY <4>1, NoTriggers
      <4> QED BY <2>0, <2>c, <3>1, <3>2, <4>2 DEF Counted
    <3> QED BY <3>3, <3>4
  <2>4. ASSUME NEW n \in Nat, Surfacings(log') \in Nat, Surfacings(log') <= Surfacings(log) + n,
               surfaced' = surfaced + n,
               UNCHANGED <<pc, snap, owed, reflected, credited>>
        PROVE  Counted'
    <3>1. Marking' = Marking /\ Removing' = Removing /\ Passed' = Passed
      BY <2>4
    <3> HIDE DEF Marking, Removing, Passed
    <3> QED BY <2>0, <2>c, <2>4, <3>1 DEF Counted
  <2>5. ASSUME NEW s \in Sessions, NEW kind \in Kinds, NEW F \in SUBSET Files,
               PostEnforce(s, kind, F)
        PROVE  Counted'
    <3>1. Tag(s) \in Sessions \cup {Nobody}
      BY DEF Tag
    <3>2. AppendEvent(NewLine(kind, Tag(s), F, 0))
      BY <2>5 DEF PostEnforce, AppendTagged
    <3>3. Surfacings(log') \in Nat /\ Surfacings(log') <= Surfacings(log) + 0
      BY <3>1, <3>2, NewLineOK
    <3>4. UNCHANGED <<pc, snap, owed, reflected, credited>> /\ surfaced' = surfaced + 0
      BY <2>0, <2>5 DEF PostEnforce
    <3> QED BY <2>4, <3>3, <3>4
  <2>6. ASSUME NEW s \in Sessions, NEW kind \in Kinds, NEW F \in SUBSET Files,
               AppendUntagged(s, kind, F)
        PROVE  Counted'
    <3> DEFINE n == IF kind = "lesson_surfaced" THEN 1 ELSE 0
    <3>1. AppendEvent(NewLine(kind, Nobody, F, n)) /\ surfaced' = surfaced + n /\ n \in Nat
      BY <2>6 DEF AppendUntagged
    <3>2. UNCHANGED <<pc, snap, owed, reflected, credited>>
      BY <2>6 DEF AppendUntagged
    <3> HIDE DEF n
    <3>3. Surfacings(log') \in Nat /\ Surfacings(log') <= Surfacings(log) + n
      BY <3>1, NewLineOK
    <3> QED BY <2>4, <3>1, <3>2, <3>3
  <2> DEFINE Away(s, l) ==
        /\ pc' = [pc EXCEPT ![s] = l] /\ pc[s] # "stopMark"
        /\ l \in {"off", "idle", "ready", "edited"}
        /\ Surfacings(log') \in Nat /\ Surfacings(log') <= Surfacings(log)
        /\ \A t \in Sessions \ {s} : owed'[t] = owed[t] /\ snap'[t] = snap[t]
        /\ UNCHANGED <<reflected, surfaced, credited>>
  <2>7. \A s \in Sessions : \A l \in PCs : Away(s, l) => Counted'
    <3> SUFFICES ASSUME NEW s \in Sessions, NEW l \in PCs, Away(s, l) PROVE Counted'
      OBVIOUS
    <3>1. Marking' = Marking /\ (Removing' => Removing) /\ (Passed' => Passed)
      BY <2>0
    <3>2. \A t \in Sessions : pc'[t] = "stopCredit" => pc[t] = "stopCredit" /\ owed'[t] = owed[t]
      BY <2>0
    <3> HIDE DEF Marking, Removing, Passed
    <3> QED BY <2>0, <2>c, <3>1, <3>2 DEF Counted
  <2>8. ASSUME NEW s \in Sessions, UserPrompt(s, TRUE) PROVE Counted'
    <3>1. AppendEvent(NewLine("frustration", Nobody, {}, 0))
      BY <2>8 DEF UserPrompt
    <3>2. Surfacings(log') \in Nat /\ Surfacings(log') <= Surfacings(log) + 0
      BY <3>1, NewLineOK DEF Kinds, Work
    <3>3. pc' = [pc EXCEPT ![s] = "ready"] /\ pc[s] = "idle"
          /\ UNCHANGED <<reflected, surfaced, credited, owed, snap>>
      BY <2>8 DEF UserPrompt
    <3>4. Away(s, "ready")
      BY <2>0, <3>2, <3>3
    <3> HIDE DEF Away
    <3> QED BY <2>7, <3>4 DEF PCs
  <2>9. ASSUME NEW s \in Sessions, UserPrompt(s, FALSE) PROVE Counted'
    <3>1. pc' = [pc EXCEPT ![s] = "ready"] /\ pc[s] = "idle"
          /\ UNCHANGED <<log, reflected, surfaced, credited, owed, snap>>
      BY <2>9 DEF UserPrompt
    <3>2. Away(s, "ready")
      BY <2>0, <3>1
    <3> HIDE DEF Away
    <3> QED BY <2>7, <3>2 DEF PCs
  <2>10. ASSUME NEW s \in Sessions, NEW f \in Files, Edit(s, f) PROVE Counted'
    <3>1. pc' = [pc EXCEPT ![s] = "edited"] /\ pc[s] = "ready"
          /\ UNCHANGED <<log, reflected, surfaced, credited, owed, snap>>
      BY <2>10 DEF Edit
    <3>2. Away(s, "edited")
      BY <2>0, <3>1
    <3> HIDE DEF Away
    <3> QED BY <2>7, <3>2 DEF PCs
  <2>11. ASSUME NEW s \in Sessions, PostEdit(s) PROVE Counted'
    <3>1. pc' = [pc EXCEPT ![s] = "ready"] /\ pc[s] = "edited"
          /\ UNCHANGED <<reflected, surfaced, credited, owed, snap>>
      BY <2>11 DEF PostEdit
    <3>2. Surfacings(log') \in Nat /\ Surfacings(log') <= Surfacings(log)
      <4>1. CASE AppendTagged(s, "drift_warn", aim[s])
        <5>1. Tag(s) \in Sessions \cup {Nobody} /\ aim[s] \in SUBSET Files
          BY DEF Tag, Typed, TypeOK
        <5>2. AppendEvent(NewLine("drift_warn", Tag(s), aim[s], 0))
          BY <4>1 DEF AppendTagged
        <5>3. Surfacings(log') \in Nat /\ Surfacings(log') <= Surfacings(log) + 0
          BY <5>1, <5>2, NewLineOK DEF Kinds, Work
        <5> QED BY <2>0, <5>3
      <4>2. CASE log' = log
        BY <2>0, <4>2
      <4> QED BY <2>11, <4>1, <4>2 DEF PostEdit
    <3>3. Away(s, "ready")
      BY <2>0, <3>1, <3>2
    <3> HIDE DEF Away
    <3> QED BY <2>7, <3>3 DEF PCs
  <2>12. ASSUME NEW s \in Sessions, Die(s) PROVE Counted'
    <3>1. pc' = [pc EXCEPT ![s] = "off"] /\ pc[s] # "stopMark"
          /\ owed' = [owed EXCEPT ![s] = 0] /\ snap' = [snap EXCEPT ![s] = {}]
          /\ UNCHANGED <<log, reflected, surfaced, credited>>
      BY <2>s, <2>12 DEF Die
    <3>2. Away(s, "off")
      BY <2>0, <3>1
    <3> HIDE DEF Away
    <3> QED BY <2>7, <3>2 DEF PCs
  <2>13. ASSUME NEW s \in Sessions, RemoveSentinel(s) PROVE Counted'
    <3>1. /\ pc' = [pc EXCEPT ![s] = "idle"] /\ pc[s] = "unlink"
          /\ UNCHANGED <<log, snap, owed, surfaced, credited>>
      BY <2>13 DEF RemoveSentinel
    <3>2. Removing /\ Marking' = Marking
          /\ \A t \in Sessions : pc'[t] = "stopCredit" => pc[t] = "stopCredit"
      BY <2>0, <3>1
    <3> QED BY <2>0, <2>c, <3>1, <3>2 DEF Counted
  <2>14. ASSUME NEW s \in Sessions, pc[s] \in {"ready", "stopWork"},
                \E why \in Verdicts : Approve(s, why),
                UNCHANGED <<log, reflected, snap, surfaced, credited>>
         PROVE  Counted'
    <3>1. pc' = [pc EXCEPT ![s] = "idle"] /\ owed' = [owed EXCEPT ![s] = 0]
      BY <2>14 DEF Approve
    <3>2. Away(s, "idle")
      BY <2>0, <2>14, <3>1
    <3> HIDE DEF Away
    <3> QED BY <2>7, <3>2 DEF PCs
  <2>15. ASSUME NEW s \in Sessions, Turn(s) PROVE Counted'
    <3>1. CASE \E why \in Verdicts : Approve(s, why)
      BY <2>14, <2>15, <3>1 DEF Turn, StopCheck
    <3>2. CASE ~\E why \in Verdicts : Approve(s, why)
      <4>1. /\ pc[s] = "ready" /\ ~reflected /\ pc' = [pc EXCEPT ![s] = "stopWork"]
            /\ UNCHANGED <<log, reflected, snap, owed, surfaced, credited>>
        BY <2>15, <3>2 DEF Turn, StopCheck, Verdicts
      <4>2. Marking' = Marking /\ (Removing' => Removing) /\ Passed
            /\ \A t \in Sessions : pc'[t] = "stopCredit" => pc[t] = "stopCredit"
        BY <2>0, <4>1
      <4> QED BY <2>0, <2>c, <4>1, <4>2 DEF Counted
    <3> QED BY <3>1, <3>2
  <2>16. ASSUME NEW s \in Sessions, StopWork(s) PROVE Counted'
    <3>1. CASE Approve(s, "idle")
      BY <2>14, <2>16, <3>1 DEF StopWork, Verdicts
    <3>2. CASE ~Approve(s, "idle")
      <4>1. /\ pc[s] = "stopWork" /\ pc' = [pc EXCEPT ![s] = "stopRead"]
            /\ UNCHANGED <<log, reflected, snap, owed, surfaced, credited>>
        BY <2>16, <3>2 DEF StopWork
      <4>2. Marking' = Marking /\ (Removing' => Removing) /\ Passed
            /\ \A t \in Sessions : pc'[t] = "stopCredit" => pc[t] = "stopCredit"
        BY <2>0, <4>1
      <4> QED BY <2>0, <2>c, <4>1, <4>2 DEF Counted
    <3> QED BY <3>1, <3>2
  <2>17. ASSUME NEW s \in Sessions, StopRead(s) PROVE Counted'
    <3>1. CASE Frustrated(log)
      <4>1. /\ pc' = [pc EXCEPT ![s] = "ready"] /\ owed' = [owed EXCEPT ![s] = 0]
            /\ pc[s] = "stopRead" /\ UNCHANGED <<log, snap, reflected, surfaced, credited>>
        BY <2>17, <3>1 DEF StopRead, Block
      <4>2. Away(s, "ready")
        BY <2>0, <4>1
      <4> HIDE DEF Away
      <4> QED BY <2>7, <4>2 DEF PCs
    <3>2. CASE ~Frustrated(log)
      <4>1. /\ pc[s] = "stopRead" /\ owed' = [owed EXCEPT ![s] = Surfacings(log)]
            /\ \/ pc' = [pc EXCEPT ![s] = "stopCredit"]
               \/ pc' = [pc EXCEPT ![s] = "stopMark"]
            /\ UNCHANGED <<log, snap, reflected, surfaced, credited>>
        BY <2>17, <3>2 DEF StopRead
      <4>2. (Marking => Marking') /\ (Removing' => Removing) /\ Passed
        BY <2>0, <4>1
      <4>3. \A t \in Sessions : pc'[t] = "stopCredit" =>
              \/ t = s /\ owed'[t] = Surfacings(log)
              \/ pc[t] = "stopCredit" /\ owed'[t] = owed[t]
        BY <2>0, <4>1
      <4> HIDE DEF Marking, Removing, Passed
      <4> QED BY <2>0, <2>c, <4>1, <4>2, <4>3 DEF Counted
    <3> QED BY <3>1, <3>2
  <2>18. ASSUME NEW s \in Sessions, StopCredit(s) PROVE Counted'
    <3>1. /\ pc[s] = "stopCredit" /\ pc' = [pc EXCEPT ![s] = "stopMark"]
          /\ credited' = credited + owed[s]
          /\ UNCHANGED <<snap, reflected, surfaced, owed>>
      BY <2>18 DEF StopCredit
    <3>2. ~Crowded(s)
      BY <2>s, <2>18 DEF StopCredit
    <3>3. ~Marking /\ Marking' /\ ~Removing'
      BY <2>0, <3>1, <3>2 DEF Crowded, Stopping
    <3>4. credited + owed[s] <= surfaced
      BY <2>c, <3>1, <3>3
    <3> QED BY <2>0, <3>1, <3>3, <3>4 DEF Counted
  <2>19. ASSUME NEW s \in Sessions, StopMark(s) PROVE Counted'
    <3>1. /\ pc[s] = "stopMark" /\ pc' = [pc EXCEPT ![s] = "ready"] /\ reflected' = TRUE
          /\ UNCHANGED <<log, snap, surfaced, credited>>
      BY <2>19 DEF StopMark, Block
    <3>2. ~Crowded(s)
      BY <2>s, <2>19 DEF StopMark
    <3>3. ~Removing' /\ ~Passed' /\ \A t \in Sessions : pc'[t] # "stopCredit"
      BY <2>0, <3>1, <3>2 DEF Crowded, Stopping
    <3> QED BY <2>c, <3>1, <3>3 DEF Counted
  <2>20. CASE UNCHANGED vars
    BY <2>c, <2>20 DEF vars, Counted
  <2> QED BY <2>1, <2>2, <2>3, <2>5, <2>6, <2>8, <2>9, <2>10, <2>11, <2>12, <2>13,
             <2>15, <2>16, <2>17, <2>18, <2>19, <2>20 DEF Next, Tools, Hook
<1>3. Counted => CreditedOnce
  BY DEF Counted, CreditedOnce
<1> QED BY <1>1, <1>2, <1>3, Typing, PTL DEF Spec

(* What a session was shown and how its user felt are each settled once.   *)
THEOREM SignalsAreHeld == Spec => []SignalsHeld
BY FrustrationIsHeld, LessonsCreditedOnce, PTL DEF SignalsHeld
=============================================================================
