-------------------------- MODULE DreamPass_proofs --------------------------
(***************************************************************************)
(* Theorems about DreamPass.                                               *)
(*                                                                         *)
(* NothingLost is not inductive.  Two facts carry it over the rewrite of a *)
(* surface: what the second read did not see is archived, removed or late  *)
(* (Covering), and what the rewrite leaves out is in the archive           *)
(* (ArchivedFirst).  Neither needs to know which plan the verdicts gave.   *)
(***************************************************************************)
EXTENDS DreamPass, FiniteSetTheorems, WellFoundedInduction, TLAPS

Window == {"commit", "rewrite"}

Shape ==
  /\ file = [s \in Surfaces |-> file[s]]
  /\ archive = [s \in Surfaces |-> archive[s]]
  /\ written = [s \in Surfaces |-> written[s]]
  /\ removed = [s \in Surfaces |-> removed[s]]
  /\ late = [s \in Surfaces |-> late[s]]
  /\ pc \in [Procs -> PCs]
  /\ at \in [Procs -> Surfaces \cup {"done"}]
  /\ current = [p \in Procs |-> current[p]]
  /\ snap = [p \in Procs |-> snap[p]]
  /\ plan = [p \in Procs |-> plan[p]]
  /\ \A p \in Procs : pc[p] \in {"reread"} \cup Window => at[p] \in Surfaces

Accounted(s) == archive[s] \cup removed[s] \cup late[s]

Safe == \A s \in Surfaces : written[s] \subseteq TextsOf(file[s]) \cup Accounted(s)

Covering ==
  \A p \in Procs : pc[p] \in Window =>
    written[at[p]] \subseteq TextsOf(current[p]) \cup Accounted(at[p])

Leaving(p) == TextsOf(Archived(current[p], Decisions(p)))

ArchivedFirst ==
  \A p \in Procs : pc[p] = "rewrite" => Leaving(p) \subseteq archive[at[p]]

Inv == Shape /\ Safe /\ Covering /\ ArchivedFirst

-----------------------------------------------------------------------------
(* apply_verdicts keeps or archives every entry it read.                   *)
LEMMA KeptOrArchived ==
  ASSUME NEW S, NEW dec
  PROVE  TextsOf(S) \subseteq TextsOf(Kept(S, dec)) \cup TextsOf(Archived(S, dec))
<1> SUFFICES ASSUME NEW e \in S, dec[e.id].kind = "keep"
             PROVE  e.text \in TextsOf(Kept(S, dec))
  BY DEF TextsOf, Archived
<1>1. [id |-> e.id, text |-> e.text] \in Kept(S, dec)
  BY DEF Kept
<1> QED
  BY <1>1 DEF TextsOf

(* An entry that was claimed as the home of a merge stays one: a verdict   *)
(* of plan_for never takes it, whatever verdicts came before.              *)
HomesAreRewritten(pl) ==
  \A i \in DOMAIN pl : pl[i].kind = "merged" =>
    pl[i].into \in DOMAIN pl /\ pl[pl[i].into].kind = "rewrite"

(* Judge (one round of plan_for's loop) keeps every merge target rewritten *)
(* and never revises an entry it has claimed.                              *)
THEOREM JudgeKeepsHomes ==
  ASSUME NEW s, NEW pl, NEW v, HomesAreRewritten(pl)
  PROVE  /\ HomesAreRewritten(Judge(s, pl, v))
         /\ DOMAIN Judge(s, pl, v) = DOMAIN pl
         /\ \A i \in DOMAIN pl : pl[i] # Keep => Judge(s, pl, v)[i] = pl[i]
<1>1. CASE Judge(s, pl, v) = pl
  BY <1>1
<1>2. CASE Judge(s, pl, v) # pl
  <2> DEFINE new == Claim(pl, v)
  <2>1. Judge(s, pl, v) = new
    BY <1>2 DEF Judge
  <2>2. v.index \in DOMAIN pl /\ pl[v.index] = Keep
    BY <1>2 DEF Judge, Ignored
  <2>3. \A i \in DOMAIN pl : pl[i] # Keep => new[i] = pl[i]
    BY <2>2 DEF Claim
  <2>4. ASSUME NEW i \in DOMAIN pl, new[i].kind = "merged"
        PROVE  new[i].into \in DOMAIN pl /\ new[new[i].into].kind = "rewrite"
    <3>1. CASE i = v.index
      BY <3>1, <2>4 DEF Claim, Drop, Rewrite
    <3>2. CASE i # v.index /\ v.action # "drop" /\ i \in v.with /\ pl[i] = Keep
      <4>1. new[i].into = v.index
        BY <3>2 DEF Claim, MergedInto
      <4>2. new[v.index].kind = "rewrite"
        BY <3>2, <2>2 DEF Claim, Rewrite
      <4> QED BY <4>1, <4>2, <2>2
    <3>3. CASE i # v.index /\ ~(v.action # "drop" /\ i \in v.with /\ pl[i] = Keep)
      <4>1. new[i] = pl[i]
        BY <3>3 DEF Claim
      <4>2. pl[i].into \in DOMAIN pl /\ pl[pl[i].into].kind = "rewrite"
        BY <4>1, <2>4 DEF HomesAreRewritten
      <4>3. pl[pl[i].into] # Keep
        BY <4>2 DEF Keep
      <4>4. new[pl[i].into] = pl[pl[i].into]
        BY <4>2, <4>3, <2>3
      <4> QED BY <4>1, <4>2, <4>4
    <3> QED BY <3>1, <3>2, <3>3
  <2>5. DOMAIN new = DOMAIN pl
    BY DEF Claim
  <2>6. HomesAreRewritten(new)
    <3> HIDE DEF new
    <3> QED BY <2>4, <2>5 DEF HomesAreRewritten
  <2> QED BY <2>1, <2>3, <2>5, <2>6
<1> QED BY <1>1, <1>2

-----------------------------------------------------------------------------
(* plan_for, over all the verdicts.  The prover has no induction, so the   *)
(* loop is reasoned about through the first verdict after which something  *)
(* would be wrong.                                                         *)

(* Any non-empty set of natural numbers has a least element.               *)
LEMMA Least ==
  ASSUME NEW T, T \subseteq Nat, T # {}
  PROVE  \E x \in T : \A y \in T : x <= y
<1> DEFINE R == {ss \in Nat \X Nat : ss[1] < ss[2]}
<1>1. IsWellFoundedOn(R, Nat)
  <2>1. R = OpToRel(<, Nat)
    BY DEF OpToRel
  <2> QED BY <2>1, NatLessThanWellFounded
<1>2. \E x \in T : \A y \in T : ~ (<<y, x>> \in R)
  <2> HIDE DEF R
  <2> QED BY <1>1, WFMin
<1>3. PICK x \in T : \A y \in T : ~ (<<y, x>> \in R)
  BY <1>2
<1>4. ASSUME NEW y \in T PROVE x <= y
  <2>1. ~(<<y, x>> \in R) /\ y \in Nat /\ x \in Nat
    BY <1>3
  <2>2. ~ (y < x)
    BY <2>1
  <2> QED BY <2>1, <2>2
<1> QED BY <1>4

(* A set of numbers that holds 0 and the successor of each of its members  *)
(* holds them all.                                                         *)
LEMMA AllNumbers ==
  ASSUME NEW G, 0 \in G, \A n \in Nat : n \in G => n + 1 \in G
  PROVE  Nat \subseteq G
<1> SUFFICES ASSUME Nat \ G # {} PROVE FALSE
  OBVIOUS
<1>1. PICK n \in Nat \ G : \A m \in Nat \ G : n <= m
  <2>1. Nat \ G \subseteq Nat OBVIOUS
  <2> QED BY <2>1, Least
<1>2. n - 1 \in Nat /\ n - 1 \in G
  <2>1. n # 0 /\ n \in Nat
    BY <1>1
  <2>2. n - 1 \in Nat /\ ~(n <= n - 1)
    BY <2>1
  <2> QED BY <2>2, <1>1
<1>3. (n - 1) + 1 = n
  BY <1>2, <1>1
<1> QED BY <1>1, <1>2, <1>3

(* g runs the loop of plan_for over the first N verdicts.                  *)
Runs(g, s, S, vs, N) ==
  g = [n \in 0 .. N |->
         IF n = 0 THEN [i \in Ids(S) |-> Keep] ELSE Judge(s, g[n - 1], vs[n])]

(* One more verdict. *)
LEMMA RunsOn ==
  ASSUME NEW s, NEW S, NEW vs, NEW n \in Nat, NEW f, Runs(f, s, S, vs, n)
  PROVE  \E g : Runs(g, s, S, vs, n + 1)
<1> DEFINE g == [k \in 0 .. n + 1 |-> IF k = n + 1 THEN Judge(s, f[n], vs[n + 1]) ELSE f[k]]
<1>1. \A k \in 0 .. n : g[k] = f[k]
  OBVIOUS
<1>2. g[n + 1] = Judge(s, f[n], vs[n + 1])
  OBVIOUS
<1>3. g = [k \in 0 .. n + 1 |-> g[k]]
  OBVIOUS
<1> HIDE DEF g
<1>4. ASSUME NEW k \in 0 .. n + 1
      PROVE g[k] = IF k = 0 THEN [i \in Ids(S) |-> Keep] ELSE Judge(s, g[k - 1], vs[k])
  <2>1. CASE k = n + 1
    <3>1. n \in 0 .. n /\ k - 1 = n /\ k # 0
      BY <2>1
    <3> QED BY <2>1, <3>1, <1>1, <1>2
  <2>2. CASE k # n + 1
    <3>1. k \in 0 .. n /\ (k # 0 => k - 1 \in 0 .. n)
      BY <2>2
    <3>2. f[k] = IF k = 0 THEN [i \in Ids(S) |-> Keep] ELSE Judge(s, f[k - 1], vs[k])
      BY <3>1 DEF Runs
    <3> QED BY <3>1, <3>2, <1>1
  <2> QED BY <2>1, <2>2
<1>5. Runs(g, s, S, vs, n + 1)
  BY <1>3, <1>4 DEF Runs
<1> QED BY <1>5

(* The recursion of plan_for is a definition: its loop has a run.          *)
LEMMA PlanForRuns ==
  ASSUME NEW s, NEW S, NEW vs, Len(vs) \in Nat
  PROVE  \E g : Runs(g, s, S, vs, Len(vs)) /\ PlanFor(s, S, vs) = g[Len(vs)]
<1> DEFINE G == {n \in Nat : \E g : Runs(g, s, S, vs, n)}
<1>1. 0 \in G
  <2>1. Runs([k \in 0 .. 0 |-> [i \in Ids(S) |-> Keep]], s, S, vs, 0)
    BY DEF Runs
  <2> QED BY <2>1
<1>2. \A n \in Nat : n \in G => n + 1 \in G
  BY RunsOn
<1>3. Nat \subseteq G
  <2> HIDE DEF G
  <2> QED BY <1>1, <1>2, AllNumbers
<1>4. Runs(CHOOSE g : Runs(g, s, S, vs, Len(vs)), s, S, vs, Len(vs))
  BY <1>3
<1>5. PlanFor(s, S, vs) = (CHOOSE g : Runs(g, s, S, vs, Len(vs)))[Len(vs)]
  BY Zenon DEF PlanFor, Runs
<1> QED BY <1>4, <1>5

(* A plan for the entries S of surface s, made of verdicts about entries   *)
(* that were shown.                                                        *)
PlanSound(pl, s, S, seen) ==
  /\ DOMAIN pl = Ids(S)
  /\ \A i \in DOMAIN pl : IsAction(pl[i]) /\ (pl[i] # Keep => <<s, i>> \in seen)
  /\ HomesAreRewritten(pl)

(* A verdict that names nothing outside the prompt, or decides nothing.    *)
Trimmed(v, seen) ==
  v.action # "keep" => /\ <<v.surface, v.index>> \in seen
                       /\ \A j \in v.with : <<v.surface, j>> \in seen

(* retain_shown leaves nothing that reaches outside the prompt.            *)
LEMMA RetainShownFacts ==
  ASSUME NEW vs \in Seq(Verdict), NEW seen
  PROVE  /\ RetainShown(vs, seen) \in Seq(Verdict)
         /\ \A i \in 1 .. Len(RetainShown(vs, seen)) : Trimmed(RetainShown(vs, seen)[i], seen)
<1> DEFINE R(v) == IF <<v.surface, v.index>> \in seen
                   THEN [v EXCEPT !.with = {j \in @ : <<v.surface, j>> \in seen}]
                   ELSE [v EXCEPT !.action = "keep"]
<1>1. \A v \in Verdict : R(v) \in Verdict /\ Trimmed(R(v), seen)
  <2> TAKE v \in Verdict
  <2>1. CASE <<v.surface, v.index>> \in seen
    <3>1. R(v) = [v EXCEPT !.with = {j \in v.with : <<v.surface, j>> \in seen}]
      BY <2>1
    <3>2. R(v) \in Verdict
      BY <3>1 DEF Verdict
    <3>3. R(v).surface = v.surface /\ R(v).index = v.index
          /\ R(v).with = {j \in v.with : <<v.surface, j>> \in seen}
      BY <3>1 DEF Verdict
    <3> QED BY <2>1, <3>2, <3>3 DEF Trimmed
  <2>2. CASE <<v.surface, v.index>> \notin seen
    BY <2>2 DEF Verdict, Verb, Trimmed
  <2> QED BY <2>1, <2>2
<1>2. RetainShown(vs, seen) = [i \in 1 .. Len(vs) |-> R(vs[i])]
  BY DEF RetainShown
<1> HIDE DEF R
<1>3. \A i \in 1 .. Len(vs) : vs[i] \in Verdict
  OBVIOUS
<1>4. RetainShown(vs, seen) \in Seq(Verdict) /\ Len(RetainShown(vs, seen)) = Len(vs)
  BY <1>1, <1>2, <1>3
<1> QED BY <1>1, <1>2, <1>3, <1>4

(* One round of the loop keeps the plan sound.                             *)
LEMMA JudgeSound ==
  ASSUME NEW s, NEW S, NEW seen, NEW pl, PlanSound(pl, s, S, seen),
         NEW v \in Verdict, Trimmed(v, seen)
  PROVE  PlanSound(Judge(s, pl, v), s, S, seen)
<1>1. CASE Judge(s, pl, v) = pl
  BY <1>1
<1>2. CASE Judge(s, pl, v) # pl
  <2>1. /\ Judge(s, pl, v) = Claim(pl, v)
        /\ v.surface = s /\ v.index \in DOMAIN pl
        /\ v.action \notin {"keep", "other"}
        /\ v.action \in {"rewrite", "merge"} => v.text # NoText
    BY <1>2 DEF Judge, Ignored
  <2>2. HomesAreRewritten(Claim(pl, v))
    BY <2>1, JudgeKeepsHomes DEF PlanSound
  <2>3. DOMAIN Claim(pl, v) = Ids(S)
    BY DEF Claim, PlanSound
  <2>4. ASSUME NEW i \in DOMAIN pl
        PROVE  /\ IsAction(Claim(pl, v)[i])
               /\ Claim(pl, v)[i] # Keep => <<s, i>> \in seen
    <3>0. /\ v.action # "drop" => v.text \in Texts
          /\ <<s, v.index>> \in seen /\ \A j \in v.with : <<s, j>> \in seen
          /\ v.index \in Nat
      BY <2>1 DEF Verdict, Verb, Trimmed
    <3>1. CASE i = v.index
      BY <3>0, <3>1 DEF Claim, IsAction, Rewrite
    <3>2. CASE i # v.index /\ v.action # "drop" /\ i \in v.with /\ pl[i] = Keep
      BY <3>0, <3>2 DEF Claim, IsAction, MergedInto
    <3>3. CASE i # v.index /\ ~(v.action # "drop" /\ i \in v.with /\ pl[i] = Keep)
      BY <3>3 DEF Claim, PlanSound
    <3> QED BY <3>1, <3>2, <3>3
  <2> QED BY <2>1, <2>2, <2>3, <2>4 DEF PlanSound
<1> QED BY <1>1, <1>2

(* plan_for, whatever the model answers and however long it is: each entry *)
(* gets one action, none that the model was not shown gets another than    *)
(* to stay, and what is folded away is folded into a rewritten entry.      *)
THEOREM PlanForSound ==
  ASSUME NEW s, NEW S, NEW seen, NEW vs \in Seq(Verdict)
  PROVE  PlanSound(PlanFor(s, S, RetainShown(vs, seen)), s, S, seen)
<1> DEFINE ws == RetainShown(vs, seen)
<1>1. ws \in Seq(Verdict) /\ \A i \in 1 .. Len(ws) : Trimmed(ws[i], seen)
  BY RetainShownFacts
<1> HIDE DEF ws
<1>2. Len(ws) \in Nat /\ \A i \in 1 .. Len(ws) : ws[i] \in Verdict
  BY <1>1
<1>3. PICK g : Runs(g, s, S, ws, Len(ws)) /\ PlanFor(s, S, ws) = g[Len(ws)]
  BY <1>2, PlanForRuns
<1> DEFINE G == {n \in Nat : n <= Len(ws) => PlanSound(g[n], s, S, seen)}
<1>4. 0 \in G
  <2>1. g[0] = [i \in Ids(S) |-> Keep]
    BY <1>2, <1>3 DEF Runs
  <2>2. PlanSound([i \in Ids(S) |-> Keep], s, S, seen)
    BY DEF PlanSound, HomesAreRewritten, IsAction, Keep
  <2> QED BY <2>1, <2>2
<1>5. ASSUME NEW n \in Nat, n \in G PROVE n + 1 \in G
  <2> SUFFICES ASSUME n + 1 <= Len(ws) PROVE PlanSound(g[n + 1], s, S, seen)
    OBVIOUS
  <2>1. PlanSound(g[n], s, S, seen)
    BY <1>2, <1>5
  <2>2. g[n + 1] = Judge(s, g[n], ws[n + 1])
    <3>1. n + 1 \in 0 .. Len(ws) /\ n + 1 # 0 /\ (n + 1) - 1 = n
      BY <1>2
    <3> QED BY <1>3, <3>1 DEF Runs
  <2>3. ws[n + 1] \in Verdict /\ Trimmed(ws[n + 1], seen)
    BY <1>1, <1>2
  <2> QED BY <2>1, <2>2, <2>3, JudgeSound
<1>6. Len(ws) \in G
  <2> HIDE DEF G
  <2> QED BY <1>2, <1>4, <1>5, AllNumbers
<1> QED BY <1>2, <1>3, <1>6 DEF ws

-----------------------------------------------------------------------------
(* At the start everything written is on its surface.                      *)
LEMMA InitInv == Init => Inv
<1> SUFFICES ASSUME Init PROVE Inv
  OBVIOUS
<1>1. Shape
  BY DreamAssumption DEF Init, Shape, Nothing, PCs, Window
<1>2. Safe
  BY DEF Init, Safe
<1>3. Covering /\ ArchivedFirst
  BY DEF Init, Covering, ArchivedFirst, Window
<1> QED BY <1>1, <1>2, <1>3 DEF Inv

(* A step that leaves the surfaces alone and moves nobody into a window.   *)
LEMMA QuietStep ==
  ASSUME Inv, Shape', UNCHANGED <<file, archive, written, removed, late>>,
         \A q \in Procs : pc'[q] \in Window =>
           /\ pc'[q] = pc[q] /\ at'[q] = at[q] /\ current'[q] = current[q]
           /\ snap'[q] = snap[q] /\ plan'[q] = plan[q]
  PROVE  Inv'
<1>1. Safe'
  BY DEF Inv, Safe, Accounted
<1>2. Covering'
  BY DEF Inv, Covering, Accounted
<1>3. ArchivedFirst'
  <2> SUFFICES ASSUME NEW q \in Procs, pc'[q] = "rewrite"
               PROVE  Leaving(q)' \subseteq archive'[at'[q]]
    BY DEF ArchivedFirst
  <2>1. /\ pc[q] = "rewrite" /\ at'[q] = at[q] /\ current'[q] = current[q]
        /\ snap'[q] = snap[q] /\ plan'[q] = plan[q]
    BY DEF Window
  <2>2. Leaving(q)' = Leaving(q)
    BY <2>1 DEF Leaving, Decisions
  <2>3. Leaving(q) \subseteq archive[at[q]]
    BY <2>1 DEF Inv, ArchivedFirst
  <2> QED BY <2>1, <2>2, <2>3
<1> QED BY <1>1, <1>2, <1>3 DEF Inv

(* A pass that returns leaves every window.                                *)
LEMMA ReturnShape ==
  ASSUME Shape, NEW p \in Procs, Return(p),
         UNCHANGED <<file, archive, written, removed, late>>
  PROVE  /\ Shape'
         /\ \A q \in Procs : pc'[q] \in Window =>
              /\ pc'[q] = pc[q] /\ at'[q] = at[q] /\ current'[q] = current[q]
              /\ snap'[q] = snap[q] /\ plan'[q] = plan[q]
  BY DEF Shape, Return, Goto, Window, PCs

(* Returning, for whatever reason, loses nothing.                          *)
LEMMA ReturnInv ==
  ASSUME Inv, NEW p \in Procs, Return(p),
         UNCHANGED <<file, archive, written, removed, late>>
  PROVE  Inv'
<1>1. Shape BY DEF Inv
<1> QED BY <1>1, ReturnShape, QuietStep

(* A pass that starts takes a snapshot and touches no surface.             *)
LEMMA StartInv ==
  ASSUME Inv, NEW p \in Procs, NEW o, NEW seen, Start(p, o, seen)
  PROVE  Inv'
<1>1. Shape'
  BY DEF Inv, Shape, Start, Goto, disk, PCs, Window
<1>2. \A q \in Procs : pc'[q] \in Window =>
         /\ pc'[q] = pc[q] /\ at'[q] = at[q] /\ current'[q] = current[q]
         /\ snap'[q] = snap[q] /\ plan'[q] = plan[q]
  BY DEF Inv, Shape, Start, Goto, disk, Window
<1>3. UNCHANGED <<file, archive, written, removed, late>>
  BY DEF Start, disk
<1> QED BY <1>1, <1>2, <1>3, QuietStep

(* Whatever the model answers, nothing is written yet.                     *)
LEMMA AnswerInv ==
  ASSUME Inv, NEW p \in Procs, NEW vs, Answer(p, vs)
  PROVE  Inv'
<1>0. UNCHANGED <<file, archive, written, removed, late>>
  BY DEF Answer, disk, ghosts
<1>1. CASE opts[p].dry
  BY <1>0, <1>1, ReturnInv DEF Answer
<1>2. CASE ~opts[p].dry
  <2>0. /\ pc' = [pc EXCEPT ![p] = IF opts[p].mode = "auto" THEN "reread" ELSE "review"]
        /\ at' = [at EXCEPT ![p] = "memory"]
        /\ UNCHANGED <<snap, current>>
        /\ \E x : plan' = [plan EXCEPT ![p] = x]
    BY <1>2 DEF Answer, Goto
  <2>1. Shape'
    BY <1>0, <2>0 DEF Inv, Shape, PCs, Window, Surfaces
  <2>2. \A q \in Procs : pc'[q] \in Window =>
           /\ pc'[q] = pc[q] /\ at'[q] = at[q] /\ current'[q] = current[q]
           /\ snap'[q] = snap[q] /\ plan'[q] = plan[q]
    BY <2>0 DEF Inv, Shape, Window
  <2> QED BY <1>0, <2>1, <2>2, QuietStep
<1> QED BY <1>1, <1>2

(* The review report is no surface.                                        *)
LEMMA WriteReviewInv ==
  ASSUME Inv, NEW p \in Procs, WriteReview(p)
  PROVE  Inv'
<1>1. Shape'
  BY DEF Inv, Shape, WriteReview, Goto, disk, locals, ghosts, PCs, Window
<1>2. \A q \in Procs : pc'[q] \in Window =>
         /\ pc'[q] = pc[q] /\ at'[q] = at[q] /\ current'[q] = current[q]
         /\ snap'[q] = snap[q] /\ plan'[q] = plan[q]
  BY DEF Inv, Shape, WriteReview, Goto, locals, Window
<1> QED BY <1>1, <1>2, QuietStep DEF WriteReview, disk, ghosts

-----------------------------------------------------------------------------
(* Where a pass stands after it is done with a surface.                    *)
LEMMA NextSurfaceFacts ==
  ASSUME Shape, NEW p \in Procs, at[p] \in Surfaces, NextSurface(p)
  PROVE  /\ pc' \in [Procs -> PCs]
         /\ at' \in [Procs -> Surfaces \cup {"done"}]
         /\ pc'[p] \notin Window
         /\ pc'[p] = "reread" => at'[p] \in Surfaces
         /\ \A q \in Procs : q # p => pc'[q] = pc[q] /\ at'[q] = at[q]
<1>1. After[at[p]] \in Surfaces \cup {"done"}
  BY DEF After, Surfaces
<1> QED BY <1>1 DEF Shape, NextSurface, Goto, PCs, Window, Surfaces

(* The second read opens the window: it sees all that is on the surface.   *)
LEMMA RereadInv ==
  ASSUME Inv, NEW p \in Procs, Reread(p)
  PROVE  Inv'
<1>0. /\ pc[p] = "reread" /\ at[p] \in Surfaces
      /\ pc' = [pc EXCEPT ![p] = "commit"]
      /\ current' = [current EXCEPT ![p] = file[at[p]]]
      /\ UNCHANGED <<file, archive, snap, plan, at, written, removed, late>>
  BY DEF Inv, Shape, Reread, Goto, disk, ghosts
<1>1. Shape'
  BY <1>0 DEF Inv, Shape, PCs, Window
<1>2. Safe'
  BY <1>0 DEF Inv, Safe, Accounted
<1>3. Covering'
  <2> SUFFICES ASSUME NEW q \in Procs, pc'[q] \in Window
               PROVE  written[at[q]] \subseteq TextsOf(current'[q]) \cup Accounted(at[q])
    BY <1>0 DEF Covering, Accounted
  <2>1. CASE q = p
    BY <1>0, <2>1 DEF Inv, Shape, Safe
  <2>2. CASE q # p
    BY <1>0, <2>2 DEF Inv, Shape, Covering
  <2> QED BY <2>1, <2>2
<1>4. ArchivedFirst'
  <2> SUFFICES ASSUME NEW q \in Procs, pc'[q] = "rewrite"
               PROVE  Leaving(q)' \subseteq archive'[at'[q]]
    BY DEF ArchivedFirst
  <2>1. q # p /\ pc[q] = "rewrite" /\ current'[q] = current[q]
    BY <1>0 DEF Inv, Shape
  <2>2. Leaving(q)' = Leaving(q)
    BY <1>0, <2>1 DEF Leaving, Decisions
  <2> QED BY <1>0, <2>1, <2>2 DEF Inv, ArchivedFirst
<1> QED BY <1>1, <1>2, <1>3, <1>4 DEF Inv

(* What the rewrite will leave out is archived first.                      *)
LEMMA CommitInv ==
  ASSUME Inv, NEW p \in Procs, Commit(p)
  PROVE  Inv'
<1> DEFINE changed == Archived(current[p], Decisions(p))
<1>0. /\ pc[p] = "commit" /\ at[p] \in Surfaces
      /\ UNCHANGED <<file, snap, plan, current, written, removed, late>>
  BY DEF Inv, Shape, Commit, ghosts, Window
<1>1. CASE changed = {}
  <2>0. NextSurface(p) /\ UNCHANGED archive
    BY <1>1 DEF Commit
  <2>1. /\ pc' \in [Procs -> PCs] /\ at' \in [Procs -> Surfaces \cup {"done"}]
        /\ pc'[p] \notin Window /\ (pc'[p] = "reread" => at'[p] \in Surfaces)
        /\ \A q \in Procs : q # p => pc'[q] = pc[q] /\ at'[q] = at[q]
    BY <1>0, <2>0, NextSurfaceFacts DEF Inv
  <2>2. Shape'
    BY <1>0, <2>0, <2>1 DEF Inv, Shape
  <2>3. \A q \in Procs : pc'[q] \in Window =>
           /\ pc'[q] = pc[q] /\ at'[q] = at[q] /\ current'[q] = current[q]
           /\ snap'[q] = snap[q] /\ plan'[q] = plan[q]
    BY <1>0, <2>1
  <2> QED BY <1>0, <2>0, <2>2, <2>3, QuietStep
<1>2. CASE changed # {}
  <2>0. /\ archive' = [archive EXCEPT ![at[p]] = @ \cup TextsOf(changed)]
        /\ pc' = [pc EXCEPT ![p] = "rewrite"]
        /\ UNCHANGED at
    BY <1>2 DEF Commit, Goto
  <2>1. Shape'
    BY <1>0, <2>0 DEF Inv, Shape, PCs, Window
  <2>2. \A s \in Surfaces : archive[s] \subseteq archive'[s]
    BY <1>0, <2>0 DEF Inv, Shape
  <2>3. \A s \in Surfaces : Accounted(s) \subseteq Accounted(s)'
    BY <1>0, <2>2 DEF Accounted
  <2>4. Safe'
    BY <1>0, <2>3 DEF Inv, Safe
  <2>5. Covering'
    <3> SUFFICES ASSUME NEW q \in Procs, pc'[q] \in Window
                 PROVE  written[at[q]] \subseteq TextsOf(current[q]) \cup Accounted(at[q])'
      BY <1>0, <2>0 DEF Covering, Accounted
    <3>1. pc[q] \in Window /\ at[q] \in Surfaces
      BY <1>0, <2>0 DEF Inv, Shape, Window
    <3>2. written[at[q]] \subseteq TextsOf(current[q]) \cup Accounted(at[q])
      BY <3>1 DEF Inv, Covering
    <3>3. at'[q] = at[q]
      BY <2>0
    <3> QED BY <3>1, <3>2, <3>3, <2>3
  <2>6. ArchivedFirst'
    <3> SUFFICES ASSUME NEW q \in Procs, pc'[q] = "rewrite"
                 PROVE  Leaving(q)' \subseteq archive'[at'[q]]
      BY DEF ArchivedFirst
    <3>1. Leaving(q)' = Leaving(q)
      BY <1>0, <2>0 DEF Leaving, Decisions
    <3>2. CASE q = p
      BY <1>0, <2>0, <3>1, <3>2 DEF Inv, Shape, Leaving
    <3>3. CASE q # p
      <4>1. pc[q] = "rewrite" /\ at[q] \in Surfaces
        BY <2>0, <3>3 DEF Inv, Shape, Window
      <4> QED BY <4>1, <2>0, <2>2, <3>1 DEF Inv, ArchivedFirst
    <3> QED BY <3>2, <3>3
  <2> QED BY <2>1, <2>4, <2>5, <2>6 DEF Inv
<1> QED BY <1>1, <1>2

(* The rewrite: what it leaves out is archived, what it did not see is     *)
(* late or removed.                                                        *)
LEMMA RewriteInv ==
  ASSUME Inv, NEW p \in Procs, RewriteSurface(p)
  PROVE  Inv'
<1> DEFINE kept == Kept(current[p], Decisions(p))
<1>0. /\ pc[p] = "rewrite" /\ at[p] \in Surfaces
      /\ file' = [file EXCEPT ![at[p]] = kept]
      /\ NextSurface(p)
      /\ UNCHANGED <<archive, snap, plan, current, written, removed, late>>
  BY DEF Inv, Shape, RewriteSurface, ghosts, Window
<1>1. /\ pc' \in [Procs -> PCs] /\ at' \in [Procs -> Surfaces \cup {"done"}]
      /\ pc'[p] \notin Window /\ (pc'[p] = "reread" => at'[p] \in Surfaces)
      /\ \A q \in Procs : q # p => pc'[q] = pc[q] /\ at'[q] = at[q]
  BY <1>0, NextSurfaceFacts DEF Inv
<1>2. Shape'
  BY <1>0, <1>1 DEF Inv, Shape
<1>3. Safe'
  <2> SUFFICES ASSUME NEW s \in Surfaces
               PROVE  written[s] \subseteq TextsOf(file'[s]) \cup Accounted(s)
    BY <1>0 DEF Safe, Accounted
  <2>1. CASE s = at[p]
    <3>1. written[s] \subseteq TextsOf(current[p]) \cup Accounted(s)
      BY <1>0, <2>1 DEF Inv, Covering, Window
    <3>2. Leaving(p) \subseteq archive[s]
      BY <1>0, <2>1 DEF Inv, ArchivedFirst
    <3>3. TextsOf(current[p]) \subseteq TextsOf(kept) \cup Leaving(p)
      BY KeptOrArchived DEF Leaving
    <3>4. file'[s] = kept
      BY <1>0, <2>1 DEF Inv, Shape
    <3> QED BY <3>1, <3>2, <3>3, <3>4 DEF Accounted
  <2>2. CASE s # at[p]
    BY <1>0, <2>2 DEF Inv, Shape, Safe
  <2> QED BY <2>1, <2>2
<1>4. Covering'
  BY <1>0, <1>1 DEF Inv, Covering, Accounted
<1>5. ArchivedFirst'
  <2> SUFFICES ASSUME NEW q \in Procs, pc'[q] = "rewrite"
               PROVE  Leaving(q)' \subseteq archive'[at'[q]]
    BY DEF ArchivedFirst
  <2>1. q # p /\ pc[q] = "rewrite" /\ at'[q] = at[q]
    BY <1>1 DEF Window
  <2>2. Leaving(q)' = Leaving(q)
    BY <1>0, <2>1 DEF Leaving, Decisions
  <2> QED BY <1>0, <2>1, <2>2 DEF Inv, ArchivedFirst
<1> QED BY <1>2, <1>3, <1>4, <1>5 DEF Inv

-----------------------------------------------------------------------------
(* What the agent appends is on the surface, and late for the passes in    *)
(* their window.                                                           *)
LEMMA AppendInv ==
  ASSUME Inv, NEW s \in Surfaces, NEW t, AppendEntry(s, t)
  PROVE  Inv'
<1>0. /\ file' = [file EXCEPT ![s] = @ \cup {[id |-> NewId(@), text |-> t]}]
      /\ written' = [written EXCEPT ![s] = @ \cup {t}]
      /\ late' = IF InWindow(s) THEN [late EXCEPT ![s] = @ \cup {t}] ELSE late
      /\ UNCHANGED <<archive, removed, pc, at, current, snap, plan>>
  BY DEF AppendEntry, locals
<1>1. Shape'
  BY <1>0 DEF Inv, Shape
<1>2. \A r \in Surfaces : Accounted(r) \subseteq Accounted(r)'
  BY <1>0 DEF Inv, Shape, Accounted
<1>3. Safe'
  <2> SUFFICES ASSUME NEW r \in Surfaces
               PROVE  written'[r] \subseteq TextsOf(file'[r]) \cup Accounted(r)'
    BY DEF Safe
  <2>1. written[r] \subseteq TextsOf(file[r]) \cup Accounted(r)
    BY DEF Inv, Safe
  <2>2. CASE r = s
    <3>1. /\ written'[r] = written[r] \cup {t}
          /\ file'[r] = file[r] \cup {[id |-> NewId(file[r]), text |-> t]}
      BY <1>0, <2>2 DEF Inv, Shape
    <3>2. TextsOf(file[r]) \subseteq TextsOf(file'[r])
      BY <3>1 DEF TextsOf
    <3>3. [id |-> NewId(file[r]), text |-> t].text \in TextsOf(file'[r])
      BY <3>1 DEF TextsOf
    <3> QED BY <1>2, <2>1, <3>1, <3>2, <3>3
  <2>3. CASE r # s
    BY <1>0, <1>2, <2>1, <2>3 DEF Inv, Shape
  <2> QED BY <2>2, <2>3
<1>4. Covering'
  <2> SUFFICES ASSUME NEW q \in Procs, pc[q] \in Window
               PROVE  written'[at[q]] \subseteq TextsOf(current[q]) \cup Accounted(at[q])'
    BY <1>0 DEF Covering, Accounted
  <2>1. /\ at[q] \in Surfaces
        /\ written[at[q]] \subseteq TextsOf(current[q]) \cup Accounted(at[q])
    BY DEF Inv, Shape, Covering
  <2>2. CASE at[q] = s
    <3>1. InWindow(s)
      BY <2>2 DEF InWindow, Window
    <3>2. t \in Accounted(s)'
      BY <1>0, <3>1 DEF Inv, Shape, Accounted
    <3>3. written'[s] = written[s] \cup {t}
      BY <1>0 DEF Inv, Shape
    <3>4. at'[q] = at[q]
      BY <1>0
    <3> QED BY <1>2, <2>1, <2>2, <3>2, <3>3, <3>4
  <2>3. CASE at[q] # s
    BY <1>0, <1>2, <2>1, <2>3 DEF Inv, Shape
  <2> QED BY <2>2, <2>3
<1>5. ArchivedFirst'
  BY <1>0 DEF Inv, ArchivedFirst, Leaving, Decisions
<1> QED BY <1>1, <1>3, <1>4, <1>5 DEF Inv

(* What the agent takes out is removed by its owner.                       *)
LEMMA RemoveInv ==
  ASSUME Inv, NEW s \in Surfaces, NEW e \in file[s], RemoveEntry(s, e)
  PROVE  Inv'
<1>0. /\ file' = [file EXCEPT ![s] = @ \ {e}]
      /\ removed' = [removed EXCEPT ![s] = @ \cup {e.text}]
      /\ UNCHANGED <<archive, written, late, pc, at, current, snap, plan>>
  BY DEF RemoveEntry, locals
<1>1. Shape'
  BY <1>0 DEF Inv, Shape
<1>2. \A r \in Surfaces : Accounted(r) \subseteq Accounted(r)'
  BY <1>0 DEF Inv, Shape, Accounted
<1>3. Safe'
  <2> SUFFICES ASSUME NEW r \in Surfaces
               PROVE  written[r] \subseteq TextsOf(file'[r]) \cup Accounted(r)'
    BY <1>0 DEF Safe
  <2>1. written[r] \subseteq TextsOf(file[r]) \cup Accounted(r)
    BY DEF Inv, Safe
  <2>2. TextsOf(file[r]) \subseteq TextsOf(file'[r]) \cup removed'[r]
    <3>1. CASE r = s
      BY <1>0, <3>1 DEF Inv, Shape, TextsOf
    <3>2. CASE r # s
      BY <1>0, <3>2 DEF Inv, Shape
    <3> QED BY <3>1, <3>2
  <2> QED BY <1>2, <2>1, <2>2 DEF Accounted
<1>4. Covering'
  <2> SUFFICES ASSUME NEW q \in Procs, pc[q] \in Window
               PROVE  written[at[q]] \subseteq TextsOf(current[q]) \cup Accounted(at[q])'
    BY <1>0 DEF Covering, Accounted
  <2>1. at'[q] = at[q] /\ written'[at[q]] = written[at[q]] /\ at[q] \in Surfaces
    BY <1>0 DEF Inv, Shape
  <2> QED BY <1>2, <2>1 DEF Inv, Covering
<1>5. ArchivedFirst'
  BY <1>0 DEF Inv, ArchivedFirst, Leaving, Decisions
<1> QED BY <1>1, <1>3, <1>4, <1>5 DEF Inv

(* The clock writes nothing.                                               *)
LEMMA TickInv ==
  ASSUME Inv, Tick PROVE Inv'
<1>1. UNCHANGED <<file, archive, written, removed, late, pc, at, current, snap, plan>>
  BY DEF Tick, locals
<1> QED BY <1>1, QuietStep DEF Inv, Shape

(* Inv is inductive.                                                       *)
LEMMA NextInv == Inv /\ [Next]_vars => Inv'
<1> SUFFICES ASSUME Inv, [Next]_vars PROVE Inv'
  OBVIOUS
<1>1. ASSUME NEW p \in Procs, Pass(p) PROVE Inv'
  <2>1. ASSUME NEW o \in PassOpts, NEW seen \in SUBSET AllOf(file), Start(p, o, seen)
        PROVE  Inv'
    BY <2>1, StartInv
  <2>2. CASE ModelFails(p)
    BY <2>2, ReturnInv DEF ModelFails, NoteStamp
  <2>3. ASSUME NEW vs \in Answers, Answer(p, vs) PROVE Inv'
    BY <2>3, AnswerInv
  <2>4. CASE WriteReview(p)
    BY <2>4, WriteReviewInv
  <2>5. CASE Reread(p)
    BY <2>5, RereadInv
  <2>6. CASE Commit(p)
    BY <2>6, CommitInv
  <2>7. CASE RewriteSurface(p)
    BY <2>7, RewriteInv
  <2>8. CASE ApplyFails(p)
    BY <2>8, ReturnInv DEF ApplyFails, NoteStamp, disk
  <2>9. CASE Stamp(p)
    BY <2>9, ReturnInv DEF Stamp, NoteStamp
  <2>10. CASE Crash(p)
    BY <2>10, ReturnInv DEF Crash, NoteStamp, disk
  <2> QED
    BY <1>1, <2>1, <2>2, <2>3, <2>4, <2>5, <2>6, <2>7, <2>8, <2>9, <2>10 DEF Pass
<1>2. CASE Agent
  BY <1>2, AppendInv, RemoveInv DEF Agent
<1>3. CASE Tick
  BY <1>3, TickInv
<1>4. CASE UNCHANGED vars
  <2>1. UNCHANGED <<file, archive, written, removed, late, pc, at, current, snap, plan>>
    BY <1>4 DEF vars
  <2> QED BY <2>1, QuietStep DEF Inv, Shape
<1> QED BY <1>1, <1>2, <1>3, <1>4 DEF Next

(* The dream pass loses nothing the user's side wrote: for any number of   *)
(* overlapping passes, any answer of the model, failures and crashes, each *)
(* text is on its surface, in its archive or removed by its owner, unless  *)
(* it was appended between a second read and the rewrite.                  *)
THEOREM DreamLosesNothing == Spec => []NothingLost
<1>1. Inv => NothingLost
  BY DEF Inv, Safe, NothingLost, LostNow, Accounted
<1> QED BY <1>1, InitInv, NextInv, PTL DEF Spec

-----------------------------------------------------------------------------
(* Positions.  Entries of a surface have distinct ids, a new one a higher  *)
(* id than any; the n-th copy of a text is a matter of ids.                *)

(* A bound on the ids of a surface.                                        *)
LEMMA IdsBounded ==
  ASSUME NEW S \in SUBSET Entry, IsFiniteSet(S)
  PROVE  \E b \in Nat : \A e \in S : e.id <= b
<1>0. PICK n \in Nat : \E f \in [1 .. n -> S] : \A e \in S : \E i \in 1 .. n : f[i] = e
  BY FS_NatSurjection DEF ExistsSurjection, Surjection
<1>1. PICK f \in [1 .. n -> S] : \A e \in S : \E i \in 1 .. n : f[i] = e
  BY <1>0
<1> DEFINE G == {k \in Nat : \E b \in Nat : \A i \in 1 .. n : i <= k => f[i].id <= b}
<1>2. 0 \in G
  OBVIOUS
<1>3. ASSUME NEW k \in Nat, k \in G PROVE k + 1 \in G
  <2>1. PICK b \in Nat : \A i \in 1 .. n : i <= k => f[i].id <= b
    BY <1>3
  <2>2. CASE k + 1 \in 1 .. n
    <3>1. f[k + 1].id \in Nat
      BY <1>1, <2>2 DEF Entry
    <3>2. PICK c \in Nat : b <= c /\ f[k + 1].id <= c
      <4>1. CASE b <= f[k + 1].id
        BY <3>1, <4>1
      <4>2. CASE ~(b <= f[k + 1].id)
        BY <3>1, <4>2
      <4> QED BY <4>1, <4>2
    <3>3. \A i \in 1 .. n : i <= k + 1 => f[i].id <= c
      <4> SUFFICES ASSUME NEW i \in 1 .. n, i <= k + 1 PROVE f[i].id <= c
        OBVIOUS
      <4>1. CASE i = k + 1
        BY <3>2, <4>1
      <4>2. CASE i # k + 1
        <5>1. i <= k
          BY <4>2
        <5>2. f[i].id \in Nat
          BY <1>1 DEF Entry
        <5> QED BY <5>1, <5>2, <2>1, <3>2
      <4> QED BY <4>1, <4>2
    <3>4. c \in Nat /\ k + 1 \in Nat
      BY <3>2
    <3> QED BY <3>3, <3>4, ZenonT(30)
  <2>3. CASE k + 1 \notin 1 .. n
    <3>1. \A i \in 1 .. n : i <= k + 1 => i <= k
      BY <2>3
    <3>2. \A i \in 1 .. n : i <= k + 1 => f[i].id <= b
      BY <3>1, <2>1
    <3>3. k + 1 \in Nat
      OBVIOUS
    <3> QED BY <3>2, <3>3, ZenonT(30)
  <2> QED BY <2>2, <2>3
<1>4. n \in G
  <2> HIDE DEF G
  <2> QED BY <1>2, <1>3, AllNumbers
<1>5. PICK b \in Nat : \A i \in 1 .. n : i <= n => f[i].id <= b
  BY <1>4
<1>6. \A e \in S : e.id <= b
  BY <1>1, <1>5
<1> QED BY <1>6

(* The highest id exists, so the id of an appended entry is higher still.  *)
LEMMA NewIdFacts ==
  ASSUME NEW S \in SUBSET Entry, IsFiniteSet(S)
  PROVE  NewId(S) \in Nat \ {0} /\ \A e \in S : e.id < NewId(S)
<1>1. CASE S = {}
  BY <1>1 DEF NewId
<1>2. CASE S # {}
  <2> DEFINE B == {b \in Nat : \A e \in S : e.id <= b}
  <2>1. PICK b \in B : \A c \in B : b <= c
    <3>1. B # {} /\ B \subseteq Nat
      BY IdsBounded
    <3> HIDE DEF B
    <3> QED BY <3>1, Least
  <2>2. b \in Ids(S)
    <3> SUFFICES ASSUME b \notin Ids(S) PROVE FALSE
      OBVIOUS
    <3>1. PICK e \in S : e.id \in Nat \ {0}
      BY <1>2 DEF Entry
    <3>2. b - 1 \in Nat
      BY <2>1, <3>1
    <3>3. \A x \in S : x.id <= b - 1
      <4> TAKE x \in S
      <4>1. x.id \in Nat /\ x.id <= b /\ x.id # b
        BY <2>1 DEF Ids, Entry
      <4> QED BY <4>1, <3>2
    <3>4. b <= b - 1
      BY <2>1, <3>2, <3>3
    <3> QED BY <3>2, <3>4
  <2> DEFINE m == CHOOSE i \in Ids(S) : \A j \in Ids(S) : j <= i
  <2>3. m \in Ids(S) /\ \A j \in Ids(S) : j <= m
    <3>1. \A j \in Ids(S) : j <= b
      BY <2>1 DEF Ids
    <3> QED BY <2>2, <3>1
  <2>4. NewId(S) = 1 + m
    BY <1>2 DEF NewId
  <2>5. m \in Nat
    BY <2>3 DEF Ids, Entry
  <2> HIDE DEF m
  <2>6. \A e \in S : e.id \in Nat /\ e.id <= m
    BY <2>3 DEF Ids, Entry
  <2> QED BY <2>4, <2>5, <2>6
<1> QED BY <1>1, <1>2

(* Two entries with the same text have different ranks.                    *)
LEMMA RankUnique ==
  ASSUME NEW S \in SUBSET Entry, Numbered(S), NEW e \in S, NEW f \in S,
         e.text = f.text, Rank(S, e) = Rank(S, f)
  PROVE  e = f
<1> DEFINE Upto(g) == {h \in S : h.text = g.text /\ h.id <= g.id}
<1>1. ASSUME NEW a \in S, NEW b \in S, a.text = b.text, a.id < b.id,
             Cardinality(Upto(a)) = Cardinality(Upto(b))
      PROVE  FALSE
  <2>1. a.id \in Nat /\ b.id \in Nat
    BY DEF Entry
  <2>2. Upto(a) \subseteq Upto(b) /\ b \in Upto(b) /\ b \notin Upto(a)
    BY <2>1, <1>1 DEF Entry
  <2>3. IsFiniteSet(Upto(b))
    <3>1. Upto(b) \subseteq S
      OBVIOUS
    <3> HIDE DEF Upto
    <3> QED BY <3>1, FS_Subset DEF Numbered
  <2> HIDE DEF Upto
  <2>4. Cardinality(Upto(a)) = Cardinality(Upto(b)) => Upto(a) = Upto(b)
    BY <2>2, <2>3, FS_Subset
  <2> QED BY <1>1, <2>2, <2>4
<1>2. Rank(S, e) = Cardinality(Upto(e)) /\ Rank(S, f) = Cardinality(Upto(f))
  BY DEF Rank
<1>3. e.id \in Nat /\ f.id \in Nat
  BY DEF Entry
<1> HIDE DEF Upto
<1>4. ~(e.id < f.id) /\ ~(f.id < e.id)
  BY <1>1, <1>2
<1> QED BY <1>3, <1>4 DEF Numbered

(* What reconcile gives an entry: the plan of its one counterpart in the   *)
(* snapshot, or to stay.                                                   *)
LEMMA ReconcileFacts ==
  ASSUME NEW S \in SUBSET Entry, NEW T \in SUBSET Entry, Numbered(S), Numbered(T),
         NEW pl, NEW e \in T
  PROVE  \/ Slot(S, T, e) = {} /\ Reconcile(S, T, pl)[e.id] = Keep
         \/ \E f \in S : /\ Slot(S, T, e) = {f}
                         /\ f.text = e.text /\ Rank(S, f) = Rank(T, e)
                         /\ Reconcile(S, T, pl)[e.id] = pl[f.id]
<1>1. e.id \in Ids(T) /\ At(T, e.id) = e
  BY DEF Ids, At, Numbered
<1>2. Reconcile(S, T, pl)[e.id] = IF Slot(S, T, e) = {} THEN Keep
                                  ELSE pl[(CHOOSE f \in Slot(S, T, e) : TRUE).id]
  BY <1>1 DEF Reconcile
<1>3. CASE Slot(S, T, e) = {}
  BY <1>2, <1>3
<1>4. CASE Slot(S, T, e) # {}
  <2>1. PICK f \in Slot(S, T, e) : f = CHOOSE g \in Slot(S, T, e) : TRUE
    BY <1>4
  <2>2. f \in S /\ f.text = e.text /\ Rank(S, f) = Rank(T, e)
    BY <2>1 DEF Slot
  <2>3. \A g \in Slot(S, T, e) : g = f
    <3> TAKE g \in Slot(S, T, e)
    <3>1. g \in S /\ g.text = f.text /\ Rank(S, g) = Rank(S, f)
      BY <2>2 DEF Slot
    <3> QED BY <2>2, <3>1, RankUnique
  <2>4. Slot(S, T, e) = {f}
    BY <2>1, <2>3
  <2>5. Reconcile(S, T, pl)[e.id] = pl[f.id]
    BY <1>2, <1>4, <2>1
  <2> QED BY <2>2, <2>4, <2>5
<1> QED BY <1>3, <1>4

(* T is what became of S by appending and by removing texts in gone: the   *)
(* entries with other texts are all there, before any new copy.            *)
Follows(S, T, gone) ==
  \A f \in S : f.text \notin gone =>
    f \in T /\ \A g \in T \ S : g.text = f.text => f.id < g.id

(* Such an entry is its own counterpart.                                   *)
LEMMA OwnCounterpart ==
  ASSUME NEW S \in SUBSET Entry, NEW T \in SUBSET Entry, Numbered(S), Numbered(T),
         NEW gone, Follows(S, T, gone), NEW f \in S, f.text \notin gone
  PROVE  f \in T /\ Slot(S, T, f) = {f}
<1>1. f \in T
  BY DEF Follows
<1>2. {g \in S : g.text = f.text /\ g.id <= f.id} = {g \in T : g.text = f.text /\ g.id <= f.id}
  <2>1. ASSUME NEW g \in S, g.text = f.text, g.id <= f.id PROVE g \in T
    BY <2>1 DEF Follows
  <2>2. ASSUME NEW g \in T, g.text = f.text, g.id <= f.id PROVE g \in S
    <3> SUFFICES ASSUME g \notin S PROVE FALSE
      OBVIOUS
    <3>1. f.id < g.id
      BY <2>2 DEF Follows
    <3>2. f.id \in Nat /\ g.id \in Nat
      BY DEF Entry
    <3> QED BY <2>2, <3>1, <3>2
  <2> QED BY <2>1, <2>2
<1>3. Rank(S, f) = Rank(T, f)
  BY <1>2 DEF Rank
<1>4. f \in Slot(S, T, f)
  BY <1>3 DEF Slot
<1>5. \A g \in Slot(S, T, f) : g = f
  <2> TAKE g \in Slot(S, T, f)
  <2>1. g \in S /\ g.text = f.text /\ Rank(S, g) = Rank(S, f)
    BY <1>3 DEF Slot
  <2> QED BY <2>1, RankUnique
<1> QED BY <1>1, <1>4, <1>5

-----------------------------------------------------------------------------
(* What each pass relies on: a sound plan for its snapshot, and that a     *)
(* surface nobody rewrote since still holds what the agent left of it.     *)
Planning == {"reread", "commit", "rewrite", "review", "stamp"}

Own(p) ==
  /\ \A s \in Surfaces : Numbered(snap[p][s])
  /\ Numbered(current[p])
  /\ pc[p] \in {"idle", "asking"} => plan[p] = NoPlan
  /\ pc[p] \in Planning =>
       \A s \in Surfaces : PlanSound(plan[p][s], s, snap[p][s], shown[p])
  /\ pc[p] # "idle" =>
       \A s \in Surfaces \ rewritten[p] : Follows(snap[p][s], file[s], removed[s])
  /\ pc[p] \in Window /\ at[p] \notin rewritten[p] =>
       Follows(snap[p][at[p]], current[p], removed[at[p]])

Judging ==
  /\ Shape /\ TypeOK
  /\ \A s \in Surfaces : Numbered(file[s])
  /\ \A p \in Procs : Own(p)

(* What an action says. *)
LEMMA ActionFacts ==
  ASSUME NEW a, IsAction(a)
  PROVE  /\ a.kind = "rewrite" => a.text \in Texts
         /\ a.kind = "keep" => a = Keep
<1>1. CASE a = Keep
  BY <1>1 DEF Keep
<1>2. CASE a = Drop
  BY <1>2 DEF Drop
<1>3. CASE a.text \in Texts /\ a = Rewrite(a.text)
  <2>1. a.kind = "rewrite"
    BY <1>3 DEF Rewrite
  <2> QED BY <1>3, <2>1
<1>4. CASE a = MergedInto(a.into)
  <2>1. a.kind = "merged"
    BY <1>4 DEF MergedInto
  <2> QED BY <2>1
<1> QED BY <1>1, <1>2, <1>3, <1>4 DEF IsAction

(* Whatever a pass decides about an entry it read again is an action.      *)
LEMMA DecisionsTyped ==
  ASSUME Judging, NEW p \in Procs, pc[p] \in Window, NEW e \in current[p]
  PROVE  IsAction(Decisions(p)[e.id])
<1> DEFINE S == snap[p][at[p]]
           T == current[p]
           pl == plan[p][at[p]]
<1>0. at[p] \in Surfaces
  BY DEF Judging, Shape
<1>1. /\ S \in SUBSET Entry /\ T \in SUBSET Entry
      /\ Numbered(S) /\ Numbered(T) /\ PlanSound(pl, at[p], S, shown[p])
  <2>1. Numbered(S) /\ Numbered(T) /\ PlanSound(pl, at[p], S, shown[p])
    BY <1>0 DEF Judging, Own, Window, Planning
  <2>2. S \in SUBSET Entry /\ T \in SUBSET Entry
    BY <1>0 DEF Judging, TypeOK
  <2> QED BY <2>1, <2>2
<1>2. Decisions(p) = Reconcile(S, T, pl)
  BY DEF Decisions
<1> HIDE DEF S, pl
<1>3. Reconcile(S, T, pl)[e.id] = Keep \/ \E f \in S : Reconcile(S, T, pl)[e.id] = pl[f.id]
  BY <1>1, ReconcileFacts
<1>4. IsAction(Keep)
  BY DEF IsAction
<1>5. \A f \in S : IsAction(pl[f.id])
  BY <1>1 DEF PlanSound, Ids
<1> QED BY <1>2, <1>3, <1>4, <1>5

(* What is left of a surface keeps its ids.                                *)
LEMMA KeptFacts ==
  ASSUME NEW T \in SUBSET Entry, Numbered(T), NEW dec,
         \A e \in T : IsAction(dec[e.id])
  PROVE  Kept(T, dec) \in SUBSET Entry /\ Numbered(Kept(T, dec))
<1> DEFINE R(e) == [id |-> e.id, text |-> IF dec[e.id].kind = "rewrite" THEN dec[e.id].text ELSE e.text]
           D == {f \in T : dec[f.id].kind \in {"keep", "rewrite"}}
<1>1. Kept(T, dec) = {R(e) : e \in D}
  BY DEF Kept
<1>2. \A e \in D : R(e) \in Entry /\ R(e).id = e.id
  <2> TAKE e \in D
  <2>1. dec[e.id].kind = "rewrite" => dec[e.id].text \in Texts
    <3>1. IsAction(dec[e.id])
      OBVIOUS
    <3> QED BY <3>1, ActionFacts
  <2> QED BY <2>1 DEF Entry
<1>3. IsFiniteSet(D)
  <2>1. D \subseteq T OBVIOUS
  <2> HIDE DEF D
  <2> QED BY <2>1, FS_Subset DEF Numbered
<1>4. IsFiniteSet({R(e) : e \in D})
  <2> HIDE DEF R, D
  <2>1. [e \in D |-> R(e)] \in Surjection(D, {R(e) : e \in D})
    BY DEF Surjection
  <2> QED BY <1>3, <2>1, FS_Surjection
<1>5. \A e, f \in {R(x) : x \in D} : e.id = f.id => e = f
  <2> SUFFICES ASSUME NEW e \in D, NEW f \in D, R(e).id = R(f).id PROVE R(e) = R(f)
    OBVIOUS
  <2>1. e.id = f.id
    BY <1>2
  <2> QED BY <2>1 DEF Numbered
<1>6. {R(e) : e \in D} \subseteq Entry
  BY <1>2
<1> QED BY <1>1, <1>4, <1>5, <1>6 DEF Numbered

(* A surface with one more entry.                                          *)
LEMMA AppendFacts ==
  ASSUME NEW S \in SUBSET Entry, Numbered(S), NEW t \in Texts
  PROVE  /\ S \cup {[id |-> NewId(S), text |-> t]} \in SUBSET Entry
         /\ Numbered(S \cup {[id |-> NewId(S), text |-> t]})
         /\ \A T \in SUBSET Entry : \A gone :
              Follows(T, S, gone) => Follows(T, S \cup {[id |-> NewId(S), text |-> t]}, gone)
<1> DEFINE n == [id |-> NewId(S), text |-> t]
<1>1. NewId(S) \in Nat \ {0} /\ \A e \in S : e.id < NewId(S)
  BY NewIdFacts DEF Numbered
<1>2. n \in Entry /\ n.id = NewId(S)
  BY <1>1 DEF Entry
<1> HIDE DEF n
<1>3. IsFiniteSet(S \cup {n})
  BY FS_AddElement DEF Numbered
<1>4. \A e \in S : e.id # n.id
  <2> TAKE e \in S
  <2>1. e.id \in Nat /\ n.id \in Nat /\ e.id < n.id
    BY <1>1, <1>2 DEF Entry
  <2> QED BY <2>1
<1>5. Numbered(S \cup {n})
  BY <1>3, <1>4 DEF Numbered
<1>6. ASSUME NEW T \in SUBSET Entry, NEW gone, Follows(T, S, gone)
      PROVE  Follows(T, S \cup {n}, gone)
  BY <1>1, <1>2, <1>6 DEF Follows
<1> QED BY <1>2, <1>5, <1>6 DEF n

(* A surface with one entry less.                                          *)
LEMMA RemoveFacts ==
  ASSUME NEW S \in SUBSET Entry, Numbered(S), NEW e \in S
  PROVE  /\ Numbered(S \ {e})
         /\ \A T, gone : Follows(T, S, gone) => Follows(T, S \ {e}, gone \cup {e.text})
<1>1. IsFiniteSet(S \ {e})
  BY FS_RemoveElement DEF Numbered
<1>2. Numbered(S \ {e})
  BY <1>1 DEF Numbered
<1> QED BY <1>2 DEF Follows

(* Removing more texts asks less.                                          *)
LEMMA FollowsOn ==
  ASSUME NEW S, NEW T, NEW gone, NEW more, Follows(S, T, gone), gone \subseteq more
  PROVE  Follows(S, T, more)
BY DEF Follows

-----------------------------------------------------------------------------
(* A process whose own state a step leaves alone.                          *)
Bystander(q) ==
  /\ pc'[q] = pc[q] /\ snap'[q] = snap[q] /\ shown'[q] = shown[q]
  /\ plan'[q] = plan[q] /\ at'[q] = at[q] /\ current'[q] = current[q]
  /\ pc[q] # "idle" => rewritten[q] \subseteq rewritten'[q]

(* What it relies on then holds afterwards, if the surfaces it follows do. *)
LEMMA OwnOfBystander ==
  ASSUME Judging, NEW q \in Procs, Bystander(q),
         \A s \in Surfaces : removed[s] \subseteq removed'[s],
         pc[q] # "idle" => \A s \in Surfaces \ rewritten'[q] :
            Follows(snap[q][s], file[s], removed[s]) => Follows(snap[q][s], file'[s], removed'[s])
  PROVE  Own(q)'
<1> USE DEF Bystander
<1>0. Own(q) /\ (pc[q] \in Window => at[q] \in Surfaces)
  BY DEF Judging, Shape
<1>1. \A s \in Surfaces : Numbered(snap'[q][s])
  BY <1>0 DEF Own
<1>2. Numbered(current'[q])
  BY <1>0 DEF Own
<1>3. /\ pc'[q] \in {"idle", "asking"} => plan'[q] = NoPlan
      /\ pc'[q] \in Planning =>
           \A s \in Surfaces : PlanSound(plan'[q][s], s, snap'[q][s], shown'[q])
  BY <1>0 DEF Own
<1>4. ASSUME pc'[q] # "idle", NEW s \in Surfaces \ rewritten'[q]
      PROVE  Follows(snap'[q][s], file'[s], removed'[s])
  <2>1. Follows(snap[q][s], file[s], removed[s])
    BY <1>0, <1>4 DEF Own
  <2> QED BY <1>4, <2>1
<1>5. ASSUME pc'[q] \in Window, at'[q] \notin rewritten'[q]
      PROVE  Follows(snap'[q][at'[q]], current'[q], removed'[at'[q]])
  <2>1. pc[q] # "idle" /\ at[q] \in Surfaces /\ at[q] \notin rewritten[q]
    BY <1>0, <1>5 DEF Window
  <2>2. Follows(snap[q][at[q]], current[q], removed[at[q]])
    BY <1>0, <1>5, <2>1 DEF Own
  <2>3. Follows(snap[q][at[q]], current[q], removed'[at[q]])
    BY <2>1, <2>2, FollowsOn
  <2> QED BY <2>3
<1> QED BY <1>1, <1>2, <1>3, <1>4, <1>5 DEF Own

(* A pass that returns relies on nothing any more.                         *)
LEMMA ReturnOwn ==
  ASSUME Judging, NEW p \in Procs, Return(p), UNCHANGED <<file, removed>>
  PROVE  \A q \in Procs : Own(q)'
<1> SUFFICES ASSUME NEW q \in Procs PROVE Own(q)'
  OBVIOUS
<1> USE DEF Return, Goto
<1>1. CASE q = p
  <2>1. /\ pc'[p] = "idle" /\ snap'[p] = Nothing /\ plan'[p] = NoPlan /\ current'[p] = {}
    BY DEF Judging, TypeOK, Shape
  <2>2. Numbered({})
    BY FS_EmptySet DEF Numbered
  <2> QED BY <1>1, <2>1, <2>2 DEF Own, Nothing, Window, Planning
<1>2. CASE q # p
  <2>1. Bystander(q)
    BY <1>2 DEF Judging, TypeOK, Shape, Bystander
  <2> QED BY <2>1, OwnOfBystander
<1> QED BY <1>1, <1>2

(* The types of a pass that returns.                                       *)
LEMMA ReturnTyped ==
  ASSUME Judging, NEW p \in Procs, Return(p), unstamped' \in Nat, due' \in BOOLEAN,
         UNCHANGED <<file, archive, passes, ticks, asked, written, removed, late>>
  PROVE  TypeOK'
<1> USE DEF Judging, TypeOK
<1>1. \A q \in Procs : plan'[q] = IF q = p THEN NoPlan ELSE plan[q]
  BY DEF Return, Shape
<1>2. \A q \in Procs : snap'[q] = IF q = p THEN Nothing ELSE snap[q]
  BY DEF Return
<1>3. ASSUME NEW q \in Procs, NEW s \in Surfaces
      PROVE  /\ DOMAIN plan'[q][s] \subseteq Ids(snap'[q][s])
             /\ \A i \in DOMAIN plan'[q][s] : IsAction(plan'[q][s][i])
  <2>1. CASE q = p
    BY <1>1, <2>1 DEF NoPlan
  <2>2. CASE q # p
    BY <1>1, <1>2, <2>2
  <2> QED BY <2>1, <2>2
<1>4. NoOpts \in PassOpts /\ Nothing \in [Surfaces -> SUBSET Entry] /\ "idle" \in PCs
  BY DEF NoOpts, PassOpts, Nothing, PCs
<1>5. /\ pc' \in [Procs -> PCs] /\ opts' \in [Procs -> PassOpts]
      /\ snap' \in [Procs -> [Surfaces -> SUBSET Entry]]
      /\ shown' \in [Procs -> SUBSET (Surfaces \X (Nat \ {0}))]
      /\ at' \in [Procs -> Surfaces \cup {"done"}]
      /\ current' \in [Procs -> SUBSET Entry]
      /\ rewritten' \in [Procs -> SUBSET Surfaces]
  BY <1>4 DEF Return, Goto
<1> QED BY <1>3, <1>5

(* Both. *)
LEMMA ReturnJudging ==
  ASSUME Judging, NEW p \in Procs, Return(p), unstamped' \in Nat, due' \in BOOLEAN,
         UNCHANGED <<file, archive, passes, ticks, asked, written, removed, late>>, Shape'
  PROVE  Judging'
<1>1. TypeOK'
  BY ReturnTyped
<1>2. \A q \in Procs : Own(q)'
  BY ReturnOwn
<1> QED BY <1>1, <1>2 DEF Judging

-----------------------------------------------------------------------------
(* The snapshot is the surfaces as they are.                               *)
LEMMA StartJudging ==
  ASSUME Judging, NEW p \in Procs, NEW o \in PassOpts, NEW seen \in SUBSET AllOf(file),
         Start(p, o, seen), Shape'
  PROVE  Judging'
<1> USE DEF Start, Goto, disk
<1>0. /\ pc[p] = "idle" /\ plan[p] = NoPlan
      /\ UNCHANGED <<file, archive, removed, plan, at, current, rewritten>>
  BY DEF Judging, Own
<1>1. /\ pc' = [pc EXCEPT ![p] = "asking"] /\ snap' = [snap EXCEPT ![p] = file]
      /\ shown' = [shown EXCEPT ![p] = seen]
  OBVIOUS
<1>2. seen \subseteq Surfaces \X (Nat \ {0})
  BY DEF AllOf, Ids, Judging, TypeOK, Entry
<1>3. TypeOK'
  <2>1. \A q \in Procs, s \in Surfaces :
           /\ DOMAIN plan[q][s] \subseteq Ids(snap'[q][s])
           /\ \A i \in DOMAIN plan[q][s] : IsAction(plan[q][s][i])
    <3> TAKE q \in Procs, s \in Surfaces
    <3>1. CASE q = p
      BY <1>0, <3>1 DEF NoPlan
    <3>2. CASE q # p
      BY <1>1, <3>2 DEF Judging, TypeOK
    <3> QED BY <3>1, <3>2
  <2>2. /\ pc' \in [Procs -> PCs] /\ opts' \in [Procs -> PassOpts]
        /\ snap' \in [Procs -> [Surfaces -> SUBSET Entry]]
        /\ shown' \in [Procs -> SUBSET (Surfaces \X (Nat \ {0}))]
    BY <1>1, <1>2 DEF Judging, TypeOK, PCs
  <2>3. passes' \in Nat /\ asked' \in Nat
    BY DEF Judging, TypeOK
  <2> QED BY <1>0, <2>1, <2>2, <2>3 DEF Judging, TypeOK
<1>4. \A s \in Surfaces : Follows(file[s], file[s], removed[s])
  BY DEF Follows
<1>5. ASSUME NEW q \in Procs PROVE Own(q)'
  <2>1. CASE q = p
    <3>1. pc'[p] = "asking" /\ snap'[p] = file
      BY <1>1 DEF Judging, TypeOK
    <3> QED BY <1>0, <1>4, <2>1, <3>1 DEF Own, Judging, Planning, Window
  <2>2. CASE q # p
    <3>1. Bystander(q)
      BY <1>0, <1>1, <2>2 DEF Bystander, Judging, TypeOK
    <3> QED BY <1>0, <3>1, OwnOfBystander
  <2> QED BY <2>1, <2>2
<1> QED BY <1>0, <1>3, <1>5 DEF Judging

(* plan_for gives a sound plan for the snapshot.                           *)
LEMMA AnswerJudging ==
  ASSUME Judging, NEW p \in Procs, NEW vs \in Answers, Answer(p, vs), Shape'
  PROVE  Judging'
<1>0. UNCHANGED <<file, archive, due, removed, passes, ticks, asked, unstamped, written, late>>
  BY DEF Answer, disk, ghosts
<1>1. CASE opts[p].dry
  <2>1. Return(p)
    BY <1>1 DEF Answer
  <2>2. unstamped' \in Nat /\ due' \in BOOLEAN
    BY <1>0 DEF Judging, TypeOK
  <2> QED BY <1>0, <2>1, <2>2, ReturnJudging
<1>2. CASE ~opts[p].dry
  <2> DEFINE f == [s \in Surfaces |-> PlanFor(s, snap[p][s], RetainShown(vs, shown[p]))]
  <2>0. /\ pc[p] = "asking"
        /\ plan' = [plan EXCEPT ![p] = f]
        /\ at' = [at EXCEPT ![p] = "memory"]
        /\ pc' = [pc EXCEPT ![p] = IF opts[p].mode = "auto" THEN "reread" ELSE "review"]
        /\ UNCHANGED <<opts, snap, shown, current, rewritten>>
    BY <1>2 DEF Answer, Goto
  <2>1. \A s \in Surfaces : PlanSound(f[s], s, snap[p][s], shown[p])
    <3>1. vs \in Seq(Verdict)
      BY DreamAssumption
    <3> QED BY <3>1, PlanForSound
  <2> HIDE DEF f
  <2>2. ASSUME NEW q \in Procs, NEW s \in Surfaces
        PROVE  /\ DOMAIN plan'[q][s] \subseteq Ids(snap[q][s])
               /\ \A i \in DOMAIN plan'[q][s] : IsAction(plan'[q][s][i])
    <3>1. CASE q = p
      <4>1. plan'[q] = f
        BY <2>0, <3>1 DEF Judging, Shape
      <4> QED BY <2>1, <3>1, <4>1 DEF PlanSound
    <3>2. CASE q # p
      BY <2>0, <3>2 DEF Judging, TypeOK, Shape
    <3> QED BY <3>1, <3>2
  <2>3. TypeOK'
    <3>1. pc' \in [Procs -> PCs] /\ at' \in [Procs -> Surfaces \cup {"done"}]
      <4>1. (IF opts[p].mode = "auto" THEN "reread" ELSE "review") \in PCs
        BY DEF PCs
      <4> QED BY <2>0, <4>1 DEF Judging, TypeOK, Surfaces
    <3> QED BY <1>0, <2>0, <2>2, <3>1 DEF Judging, TypeOK
  <2>4. ASSUME NEW q \in Procs PROVE Own(q)'
    <3>1. CASE q = p
      <4>1. /\ pc'[p] \in {"reread", "review"} /\ plan'[p] = f
            /\ pc[p] # "idle" /\ Own(p)
        BY <2>0 DEF Judging, TypeOK, Shape
      <4> QED BY <1>0, <2>0, <2>1, <3>1, <4>1 DEF Own, Planning, Window
    <3>2. CASE q # p
      <4>1. Bystander(q)
        BY <2>0, <3>2 DEF Bystander, Judging, TypeOK, Shape
      <4> QED BY <1>0, <4>1, OwnOfBystander
    <3> QED BY <3>1, <3>2
  <2> QED BY <1>0, <2>3, <2>4 DEF Judging
<1> QED BY <1>1, <1>2

(* write_review decides nothing.                                           *)
LEMMA WriteReviewJudging ==
  ASSUME Judging, NEW p \in Procs, WriteReview(p), Shape'
  PROVE  Judging'
<1>0. /\ pc[p] = "review" /\ pc' = [pc EXCEPT ![p] = "stamp"]
      /\ UNCHANGED <<file, archive, due, opts, snap, shown, plan, at, current, rewritten,
                     passes, ticks, asked, unstamped, written, removed, late>>
  BY DEF WriteReview, Goto, disk, locals, ghosts
<1>1. TypeOK'
  BY <1>0 DEF Judging, TypeOK, PCs
<1>2. ASSUME NEW q \in Procs PROVE Own(q)'
  <2>1. CASE q = p
    <3>1. pc'[p] = "stamp" /\ Own(p)
      BY <1>0 DEF Judging, TypeOK
    <3> QED BY <1>0, <2>1, <3>1 DEF Own, Planning, Window
  <2>2. CASE q # p
    <3>1. Bystander(q)
      BY <1>0, <2>2 DEF Bystander, Judging, TypeOK
    <3> QED BY <1>0, <3>1, OwnOfBystander
  <2> QED BY <2>1, <2>2
<1> QED BY <1>0, <1>1, <1>2 DEF Judging

(* The second read is as much a follower of the snapshot as the surface.   *)
LEMMA RereadJudging ==
  ASSUME Judging, NEW p \in Procs, Reread(p), Shape'
  PROVE  Judging'
<1>0. /\ pc[p] = "reread" /\ pc' = [pc EXCEPT ![p] = "commit"]
      /\ at[p] \in Surfaces
      /\ current' = [current EXCEPT ![p] = file[at[p]]]
      /\ UNCHANGED <<file, archive, due, opts, snap, shown, plan, at, rewritten,
                     passes, ticks, asked, unstamped, written, removed, late>>
  BY DEF Reread, Goto, disk, ghosts, Judging, Shape
<1>1. TypeOK'
  BY <1>0 DEF Judging, TypeOK, PCs
<1>2. ASSUME NEW q \in Procs PROVE Own(q)'
  <2>1. CASE q = p
    <3>1. pc'[p] = "commit" /\ current'[p] = file[at[p]] /\ Own(p) /\ Numbered(file[at[p]])
      BY <1>0 DEF Judging, TypeOK
    <3> QED BY <1>0, <2>1, <3>1 DEF Own, Planning, Window
  <2>2. CASE q # p
    <3>1. Bystander(q)
      BY <1>0, <2>2 DEF Bystander, Judging, TypeOK
    <3> QED BY <1>0, <3>1, OwnOfBystander
  <2> QED BY <2>1, <2>2
<1> QED BY <1>0, <1>1, <1>2 DEF Judging

(* On to the next surface, or to the stamp.                                *)
LEMMA NextSurfaceTyped ==
  ASSUME Judging, NEW p \in Procs, at[p] \in Surfaces, NextSurface(p)
  PROVE  /\ pc' \in [Procs -> PCs] /\ at' \in [Procs -> Surfaces \cup {"done"}]
         /\ pc'[p] \in {"reread", "stamp"}
         /\ \A q \in Procs : q # p => pc'[q] = pc[q] /\ at'[q] = at[q]
<1>1. After[at[p]] \in Surfaces \cup {"done"}
  BY DEF After, Surfaces
<1>2. (IF After[at[p]] = "done" THEN "stamp" ELSE "reread") \in {"reread", "stamp"}
  OBVIOUS
<1>3. {"reread", "stamp"} \subseteq PCs
  BY DEF PCs
<1> QED BY <1>1, <1>2, <1>3 DEF NextSurface, Goto, Judging, TypeOK

(* The archive gets texts, whatever the decisions.                         *)
LEMMA CommitJudging ==
  ASSUME Judging, NEW p \in Procs, Commit(p), Shape'
  PROVE  Judging'
<1> DEFINE changed == Archived(current[p], Decisions(p))
<1>0. /\ pc[p] = "commit" /\ at[p] \in Surfaces
      /\ UNCHANGED <<file, due, opts, snap, shown, plan, current, rewritten,
                     passes, ticks, asked, unstamped, written, removed, late>>
  BY DEF Commit, ghosts, Judging, Shape, Window
<1>1. /\ pc' \in [Procs -> PCs] /\ at' \in [Procs -> Surfaces \cup {"done"}]
      /\ pc'[p] \in {"reread", "stamp", "rewrite"}
      /\ pc'[p] = "rewrite" => at'[p] = at[p]
      /\ \A q \in Procs : q # p => pc'[q] = pc[q] /\ at'[q] = at[q]
  <2>1. CASE changed = {}
    BY <1>0, <2>1, NextSurfaceTyped DEF Commit
  <2>2. CASE changed # {}
    BY <1>0, <2>2 DEF Commit, Goto, Judging, TypeOK, PCs
  <2> QED BY <2>1, <2>2
<1>2. archive' \in [Surfaces -> SUBSET Texts]
  <2>1. TextsOf(changed) \subseteq Texts
    <3>1. current[p] \subseteq Entry
      BY DEF Judging, TypeOK
    <3> QED BY <3>1 DEF TextsOf, Archived, Entry
  <2> HIDE DEF changed
  <2>2. UNCHANGED archive \/ archive' = [archive EXCEPT ![at[p]] = @ \cup TextsOf(changed)]
    BY DEF Commit, changed
  <2>3. archive \in [Surfaces -> SUBSET Texts]
    BY DEF Judging, TypeOK
  <2>4. CASE archive' = [archive EXCEPT ![at[p]] = @ \cup TextsOf(changed)]
    BY <1>0, <2>1, <2>3, <2>4
  <2> QED BY <2>2, <2>3, <2>4
<1> HIDE DEF changed
<1>3. TypeOK'
  BY <1>0, <1>1, <1>2 DEF Judging, TypeOK
<1>4. ASSUME NEW q \in Procs PROVE Own(q)'
  <2>1. CASE q = p
    BY <1>0, <1>1, <2>1 DEF Own, Planning, Window, Judging
  <2>2. CASE q # p
    <3>1. Bystander(q)
      BY <1>0, <1>1, <2>2 DEF Bystander
    <3> QED BY <1>0, <3>1, OwnOfBystander
  <2> QED BY <2>1, <2>2
<1> QED BY <1>0, <1>3, <1>4 DEF Judging

(* A rewritten surface keeps distinct ids; the others count it as          *)
(* rewritten.                                                              *)
LEMMA RewriteJudging ==
  ASSUME Judging, NEW p \in Procs, RewriteSurface(p), Shape'
  PROVE  Judging'
<1> DEFINE kept == Kept(current[p], Decisions(p))
<1>0. /\ pc[p] = "rewrite" /\ at[p] \in Surfaces
      /\ file' = [file EXCEPT ![at[p]] = kept]
      /\ rewritten' = [q \in Procs |-> IF pc[q] = "idle" THEN {} ELSE rewritten[q] \cup {at[p]}]
      /\ NextSurface(p)
      /\ UNCHANGED <<archive, due, opts, snap, shown, plan, current,
                     passes, ticks, asked, unstamped, written, removed, late>>
  BY DEF RewriteSurface, ghosts, Judging, Shape, Window
<1>1. /\ pc' \in [Procs -> PCs] /\ at' \in [Procs -> Surfaces \cup {"done"}]
      /\ pc'[p] \in {"reread", "stamp"}
      /\ \A q \in Procs : q # p => pc'[q] = pc[q] /\ at'[q] = at[q]
  BY <1>0, NextSurfaceTyped
<1>2. kept \in SUBSET Entry /\ Numbered(kept)
  <2>1. \A e \in current[p] : IsAction(Decisions(p)[e.id])
    BY <1>0, DecisionsTyped DEF Window
  <2>2. current[p] \in SUBSET Entry /\ Numbered(current[p])
    BY DEF Judging, TypeOK, Own
  <2> QED BY <2>1, <2>2, KeptFacts
<1> HIDE DEF kept
<1>3. file' \in [Surfaces -> SUBSET Entry] /\ \A s \in Surfaces : Numbered(file'[s])
  BY <1>0, <1>2 DEF Judging, TypeOK
<1>4. rewritten' \in [Procs -> SUBSET Surfaces]
  BY <1>0 DEF Judging, TypeOK
<1>5. TypeOK'
  BY <1>0, <1>1, <1>3, <1>4 DEF Judging, TypeOK
<1>6. \A q \in Procs : pc[q] # "idle" =>
         rewritten'[q] = rewritten[q] \cup {at[p]}
  BY <1>0
<1>7. \A s \in Surfaces : s # at[p] => file'[s] = file[s]
  BY <1>0 DEF Judging, TypeOK
<1>8. ASSUME NEW q \in Procs PROVE Own(q)'
  <2>1. CASE q = p
    <3>1. \A s \in Surfaces \ rewritten'[p] : Follows(snap[p][s], file'[s], removed[s])
      <4> TAKE s \in Surfaces \ rewritten'[p]
      <4>1. s # at[p] /\ s \notin rewritten[p]
        BY <1>0, <1>6
      <4> QED BY <1>0, <1>7, <4>1 DEF Judging, Own
    <3>2. \A s \in Surfaces : Numbered(snap[p][s])
      BY DEF Judging, Own
    <3>3. Numbered(current[p])
      BY DEF Judging, Own
    <3>4. \A s \in Surfaces : PlanSound(plan[p][s], s, snap[p][s], shown[p])
      BY <1>0 DEF Judging, Own, Planning
    <3> QED BY <1>0, <1>1, <2>1, <3>1, <3>2, <3>3, <3>4 DEF Own, Planning, Window
  <2>2. CASE q # p
    <3>1. Bystander(q)
      BY <1>0, <1>1, <1>6, <2>2 DEF Bystander
    <3>2. ASSUME pc[q] # "idle", NEW s \in Surfaces \ rewritten'[q]
          PROVE  file'[s] = file[s]
      BY <1>6, <1>7, <3>2
    <3> QED BY <1>0, <3>1, <3>2, OwnOfBystander
  <2> QED BY <2>1, <2>2
<1> QED BY <1>3, <1>5, <1>8 DEF Judging

(* An appended entry comes after all the copies a snapshot holds.          *)
LEMMA AppendJudging ==
  ASSUME Judging, NEW s \in Surfaces, NEW t \in Texts, AppendEntry(s, t), Shape'
  PROVE  Judging'
<1> DEFINE longer == file[s] \cup {[id |-> NewId(file[s]), text |-> t]}
<1>0. /\ file' = [file EXCEPT ![s] = longer]
      /\ written' = [written EXCEPT ![s] = @ \cup {t}]
      /\ late' = IF InWindow(s) THEN [late EXCEPT ![s] = @ \cup {t}] ELSE late
      /\ UNCHANGED <<archive, due, pc, opts, snap, shown, plan, at, current, rewritten,
                     passes, ticks, asked, unstamped, removed>>
  BY DEF AppendEntry, locals
<1>1. file[s] \in SUBSET Entry /\ Numbered(file[s])
  BY DEF Judging, TypeOK
<1>2. /\ longer \in SUBSET Entry /\ Numbered(longer)
      /\ \A T \in SUBSET Entry : \A gone : Follows(T, file[s], gone) => Follows(T, longer, gone)
  BY <1>1, AppendFacts
<1> HIDE DEF longer
<1>3. /\ file' \in [Surfaces -> SUBSET Entry] /\ \A r \in Surfaces : Numbered(file'[r])
      /\ \A r \in Surfaces : file'[r] = IF r = s THEN longer ELSE file[r]
  BY <1>0, <1>2 DEF Judging, TypeOK
<1>4. late' \in [Surfaces -> SUBSET Texts] /\ written' \in [Surfaces -> SUBSET Texts]
  <2>1. CASE InWindow(s)
    BY <1>0, <2>1 DEF Judging, TypeOK
  <2>2. CASE ~InWindow(s)
    BY <1>0, <2>2 DEF Judging, TypeOK
  <2> QED BY <2>1, <2>2
<1>5. TypeOK'
  BY <1>0, <1>3, <1>4 DEF Judging, TypeOK
<1>6. ASSUME NEW q \in Procs PROVE Own(q)'
  <2>1. Bystander(q)
    BY <1>0 DEF Bystander
  <2>2. \A r \in Surfaces :
           Follows(snap[q][r], file[r], removed[r]) => Follows(snap[q][r], file'[r], removed[r])
    <3> TAKE r \in Surfaces
    <3>1. snap[q][r] \in SUBSET Entry
      BY DEF Judging, TypeOK
    <3> QED BY <1>2, <1>3, <3>1
  <2> QED BY <1>0, <2>1, <2>2, OwnOfBystander
<1> QED BY <1>3, <1>5, <1>6 DEF Judging

(* A removed text asks nothing of the snapshots any more.                  *)
LEMMA RemoveJudging ==
  ASSUME Judging, NEW s \in Surfaces, NEW e \in file[s], RemoveEntry(s, e), Shape'
  PROVE  Judging'
<1>0. /\ file' = [file EXCEPT ![s] = @ \ {e}]
      /\ removed' = [removed EXCEPT ![s] = @ \cup {e.text}]
      /\ UNCHANGED <<archive, due, pc, opts, snap, shown, plan, at, current, rewritten,
                     passes, ticks, asked, unstamped, written, late>>
  BY DEF RemoveEntry, locals
<1>1. file[s] \in SUBSET Entry /\ Numbered(file[s]) /\ e.text \in Texts
  BY DEF Judging, TypeOK, Entry
<1>2. /\ Numbered(file[s] \ {e})
      /\ \A T, gone : Follows(T, file[s], gone) => Follows(T, file[s] \ {e}, gone \cup {e.text})
  BY <1>1, RemoveFacts
<1>3. /\ file' \in [Surfaces -> SUBSET Entry]
      /\ \A r \in Surfaces : file'[r] = IF r = s THEN file[s] \ {e} ELSE file[r]
      /\ removed' \in [Surfaces -> SUBSET Texts]
      /\ \A r \in Surfaces : removed'[r] = IF r = s THEN removed[s] \cup {e.text} ELSE removed[r]
  BY <1>0, <1>1 DEF Judging, TypeOK
<1>4. \A r \in Surfaces : Numbered(file'[r])
  BY <1>2, <1>3 DEF Judging
<1>5. TypeOK'
  BY <1>0, <1>3 DEF Judging, TypeOK
<1>6. ASSUME NEW q \in Procs PROVE Own(q)'
  <2>1. Bystander(q)
    BY <1>0 DEF Bystander
  <2>2. \A r \in Surfaces :
           Follows(snap[q][r], file[r], removed[r]) => Follows(snap[q][r], file'[r], removed'[r])
    <3> TAKE r \in Surfaces
    <3>1. CASE r = s
      <4>1. file'[r] = file[s] \ {e} /\ removed'[r] = removed[s] \cup {e.text}
        BY <1>3, <3>1
      <4> QED BY <1>2, <3>1, <4>1
    <3>2. CASE r # s
      <4>1. file'[r] = file[r] /\ removed'[r] = removed[r]
        BY <1>3, <3>2
      <4> QED BY <4>1
    <3> QED BY <3>1, <3>2
  <2>3. \A r \in Surfaces : removed[r] \subseteq removed'[r]
    BY <1>3
  <2> QED BY <1>0, <2>1, <2>2, <2>3, OwnOfBystander
<1> QED BY <1>4, <1>5, <1>6 DEF Judging

(* A step that only moves the clock or the ghosts of the clock.            *)
LEMMA TickJudging ==
  ASSUME Judging, Shape', Tick \/ UNCHANGED vars
  PROVE  Judging'
<1>0. /\ UNCHANGED <<file, archive, pc, opts, snap, shown, plan, at, current, rewritten,
                     passes, written, removed, late>>
      /\ due' \in BOOLEAN /\ ticks' \in Nat /\ asked' \in Nat /\ unstamped' \in Nat
  <2>1. CASE Tick
    BY <2>1 DEF Tick, locals, Judging, TypeOK
  <2>2. CASE UNCHANGED vars
    BY <2>2 DEF vars, Judging, TypeOK
  <2> QED BY <2>1, <2>2
<1>1. TypeOK'
  BY <1>0 DEF Judging, TypeOK
<1>2. ASSUME NEW q \in Procs PROVE Own(q)'
  <2>1. Bystander(q)
    BY <1>0 DEF Bystander
  <2> QED BY <1>0, <2>1, OwnOfBystander
<1> QED BY <1>0, <1>1, <1>2 DEF Judging

(* At the start no pass relies on anything.                                *)
LEMMA InitJudging == Init => Judging
<1> SUFFICES ASSUME Init PROVE Judging
  OBVIOUS
<1>1. Shape
  BY InitInv DEF Inv
<1>2. TypeOK
  <2>1. \A s \in Surfaces : TextsOf(Seed[s]) \subseteq Texts
    BY DreamAssumption DEF TextsOf, Entry
  <2>2. NoOpts \in PassOpts /\ Nothing \in [Surfaces -> SUBSET Entry]
        /\ Nothing \in [Surfaces -> SUBSET Texts]
    BY DEF NoOpts, PassOpts, Nothing
  <2>3. \A p \in Procs, s \in Surfaces : DOMAIN plan[p][s] = {}
    BY DEF Init, NoPlan
  <2> QED BY <2>1, <2>2, <2>3, DreamAssumption DEF Init, TypeOK, PCs
<1>3. ASSUME NEW p \in Procs PROVE Own(p)
  <2>1. Numbered({})
    BY FS_EmptySet DEF Numbered
  <2> QED BY <2>1 DEF Init, Own, Nothing, Planning, Window
<1> QED BY <1>1, <1>2, <1>3, DreamAssumption DEF Init, Judging

(* Judging is inductive, given Inv for the shape of the variables.         *)
LEMMA NextJudging == Inv /\ Judging /\ [Next]_vars => Judging'
<1> SUFFICES ASSUME Inv, Judging, [Next]_vars PROVE Judging'
  OBVIOUS
<1>0. Shape'
  BY NextInv DEF Inv
<1>1. ASSUME NEW p \in Procs, Pass(p) PROVE Judging'
  <2>0. NoteStamp(p) => /\ unstamped' \in Nat
                        /\ UNCHANGED <<passes, ticks, asked, written, removed, late>>
    BY DEF NoteStamp, Judging, TypeOK
  <2>1. ASSUME NEW o \in PassOpts, NEW seen \in SUBSET AllOf(file), Start(p, o, seen)
        PROVE  Judging'
    BY <1>0, <2>1, StartJudging
  <2>2. CASE ModelFails(p)
    <3>1. due' \in BOOLEAN
      BY <2>2 DEF ModelFails, Judging, TypeOK
    <3> QED BY <1>0, <2>0, <2>2, <3>1, ReturnJudging DEF ModelFails
  <2>3. ASSUME NEW vs \in Answers, Answer(p, vs) PROVE Judging'
    BY <1>0, <2>3, AnswerJudging
  <2>4. CASE WriteReview(p)
    BY <1>0, <2>4, WriteReviewJudging
  <2>5. CASE Reread(p)
    BY <1>0, <2>5, RereadJudging
  <2>6. CASE Commit(p)
    BY <1>0, <2>6, CommitJudging
  <2>7. CASE RewriteSurface(p)
    BY <1>0, <2>7, RewriteJudging
  <2>8. CASE ApplyFails(p)
    <3>1. due' \in BOOLEAN
      BY <2>8 DEF ApplyFails, disk, Judging, TypeOK
    <3> QED BY <1>0, <2>0, <2>8, <3>1, ReturnJudging DEF ApplyFails, disk
  <2>9. CASE Stamp(p)
    <3>1. due' \in BOOLEAN
      <4>1. due' = FALSE \/ due' = due
        BY <2>9 DEF Stamp
      <4> QED BY <4>1 DEF Judging, TypeOK
    <3> QED BY <1>0, <2>0, <2>9, <3>1, ReturnJudging DEF Stamp
  <2>10. CASE Crash(p)
    <3>1. due' \in BOOLEAN
      BY <2>10 DEF Crash, disk, Judging, TypeOK
    <3> QED BY <1>0, <2>0, <2>10, <3>1, ReturnJudging DEF Crash, disk
  <2> QED
    BY <1>1, <2>1, <2>2, <2>3, <2>4, <2>5, <2>6, <2>7, <2>8, <2>9, <2>10 DEF Pass
<1>2. CASE Agent
  BY <1>0, <1>2, AppendJudging, RemoveJudging DEF Agent
<1>3. CASE Tick \/ UNCHANGED vars
  BY <1>0, <1>3, TickJudging
<1> QED BY <1>1, <1>2, <1>3 DEF Next

-----------------------------------------------------------------------------
(* What the surfaces, the plans and the passes are, in every state.        *)
THEOREM AlwaysJudging == Spec => []Judging
<1>1. Init => Inv /\ Judging
  BY InitInv, InitJudging
<1>2. Inv /\ Judging /\ [Next]_vars => (Inv /\ Judging)'
  BY NextInv, NextJudging
<1> QED BY <1>1, <1>2, PTL DEF Spec

(* Each variable keeps its type, however passes, agent and failures        *)
(* interleave.                                                             *)
THEOREM TypeCorrect == Spec => []TypeOK
<1>1. Judging => TypeOK
  BY DEF Judging
<1> QED BY <1>1, AlwaysJudging, PTL

(* A pass about to archive entries with some text has as many verdicts     *)
(* against entries with that text: reconcile pairs each entry with one of  *)
(* its own in the snapshot.                                                *)
LEMMA JudgedOneByOne ==
  ASSUME Judging, NEW p \in Procs, pc[p] = "commit", NEW x
  PROVE  Cardinality({e \in Archived(current[p], Decisions(p)) : e.text = x})
           <= Cardinality(JudgedCopies(p, at[p], x))
<1> DEFINE S == snap[p][at[p]]
           T == current[p]
           pl == plan[p][at[p]]
           L == {e \in Archived(T, Decisions(p)) : e.text = x}
           J == JudgedCopies(p, at[p], x)
<1>0. at[p] \in Surfaces
  BY DEF Judging, Shape, Window
<1>1. /\ Numbered(S) /\ Numbered(T) /\ PlanSound(pl, at[p], S, shown[p])
      /\ S \in SUBSET Entry /\ T \in SUBSET Entry
  <2>1. Numbered(S) /\ Numbered(T) /\ PlanSound(pl, at[p], S, shown[p])
    BY <1>0 DEF Judging, Own, Planning
  <2>2. S \in SUBSET Entry /\ T \in SUBSET Entry
    BY <1>0 DEF Judging, TypeOK
  <2> QED BY <2>1, <2>2
<1>2. /\ L = {e \in T : Reconcile(S, T, pl)[e.id].kind # "keep" /\ e.text = x}
      /\ J = {f \in S : f.text = x /\ <<at[p], f.id>> \in shown[p] /\ pl[f.id] # Keep}
  BY DEF Archived, Decisions, JudgedCopies
<1> HIDE DEF S, T, pl, L, J
<1>3. \A e \in L : \E f \in J : Slot(S, T, e) = {f} /\ Rank(S, f) = Rank(T, e)
  <2> TAKE e \in L
  <2>1. e \in T /\ e.text = x /\ Reconcile(S, T, pl)[e.id].kind # "keep"
    BY <1>2
  <2>2. Reconcile(S, T, pl)[e.id] # Keep
    BY <2>1 DEF Keep
  <2>3. PICK f \in S : /\ Slot(S, T, e) = {f} /\ f.text = e.text
                       /\ Rank(S, f) = Rank(T, e) /\ Reconcile(S, T, pl)[e.id] = pl[f.id]
    BY <1>1, <2>1, <2>2, ReconcileFacts
  <2>4. f.id \in DOMAIN pl
    BY <1>1 DEF PlanSound, Ids
  <2>5. f \in J
    BY <1>1, <1>2, <2>1, <2>2, <2>3, <2>4 DEF PlanSound
  <2> QED BY <2>3, <2>5
<1> DEFINE home == [e \in L |-> CHOOSE f \in J : Slot(S, T, e) = {f} /\ Rank(S, f) = Rank(T, e)]
<1>4. \A e \in L : home[e] \in J /\ Rank(S, home[e]) = Rank(T, e)
  BY <1>3
<1> HIDE DEF home
<1>5. \A e, f \in L : home[e] = home[f] => e = f
  <2> SUFFICES ASSUME NEW e \in L, NEW f \in L, home[e] = home[f] PROVE e = f
    OBVIOUS
  <2>1. Rank(T, e) = Rank(T, f)
    BY <1>4
  <2>2. e \in T /\ f \in T /\ e.text = f.text
    BY <1>2
  <2> QED BY <1>1, <2>1, <2>2, RankUnique
<1>6. home \in Injection(L, J)
  <2>1. home \in [L -> J]
    BY <1>4 DEF home
  <2> QED BY <1>5, <2>1 DEF Injection, IsInjective
<1>7. IsFiniteSet(J)
  <2>1. J \subseteq S
    BY <1>2
  <2> QED BY <1>1, <2>1, FS_Subset DEF Numbered
<1>8. Cardinality(L) <= Cardinality(J)
  BY <1>6, <1>7, FS_Injection
<1> QED BY <1>8 DEF L, J, T

(* An entry that is folded away when a pass rewrites its surface has its   *)
(* combined entry there, with the two exceptions MergedHasHome names.      *)
LEMMA MergedAtHome ==
  ASSUME Judging, NEW p \in Procs, pc[p] = "rewrite", NEW e \in current[p],
         Decisions(p)[e.id].kind = "merged"
  PROVE  LET d == Decisions(p)[e.id] IN
         \/ plan[p][at[p]][d.into].text \in TextsOf(Kept(current[p], Decisions(p)))
         \/ At(snap[p][at[p]], d.into).text \in removed[at[p]]
         \/ at[p] \in rewritten[p]
<1> DEFINE S == snap[p][at[p]]
           T == current[p]
           pl == plan[p][at[p]]
           i == Decisions(p)[e.id].into
           f == At(S, i)
           gone == removed[at[p]]
<1> SUFFICES ASSUME f.text \notin gone, at[p] \notin rewritten[p]
             PROVE  pl[i].text \in TextsOf(Kept(T, Decisions(p)))
  OBVIOUS
<1>0. at[p] \in Surfaces
  BY DEF Judging, Shape, Window
<1>1. /\ Numbered(S) /\ Numbered(T) /\ PlanSound(pl, at[p], S, shown[p])
      /\ S \in SUBSET Entry /\ T \in SUBSET Entry
      /\ Follows(S, T, gone)
  <2>1. /\ Numbered(S) /\ Numbered(T) /\ PlanSound(pl, at[p], S, shown[p])
        /\ Follows(S, T, gone)
    BY <1>0 DEF Judging, Own, Planning, Window
  <2>2. S \in SUBSET Entry /\ T \in SUBSET Entry
    BY <1>0 DEF Judging, TypeOK
  <2> QED BY <2>1, <2>2
<1>2. Decisions(p) = Reconcile(S, T, pl) /\ e \in T
  BY DEF Decisions
<1> HIDE DEF S, T, pl, gone
<1>3. i \in Ids(S) /\ pl[i].kind = "rewrite"
  <2>1. Reconcile(S, T, pl)[e.id].kind = "merged"
    BY <1>2
  <2>2. Reconcile(S, T, pl)[e.id] # Keep
    BY <2>1 DEF Keep
  <2>3. PICK g \in S : Reconcile(S, T, pl)[e.id] = pl[g.id]
    BY <1>1, <1>2, <2>2, ReconcileFacts
  <2>4. g.id \in DOMAIN pl
    BY <1>1 DEF PlanSound, Ids
  <2> QED BY <1>1, <1>2, <2>1, <2>3, <2>4 DEF PlanSound, HomesAreRewritten
<1> HIDE DEF i
<1>4. f \in S /\ f.id = i
  BY <1>3 DEF At, Ids
<1> HIDE DEF f
<1>5. f \in T /\ Slot(S, T, f) = {f}
  BY <1>1, <1>4, OwnCounterpart
<1>6. Reconcile(S, T, pl)[f.id] = pl[i]
  <2>1. \E g \in S : Slot(S, T, f) = {g} /\ Reconcile(S, T, pl)[f.id] = pl[g.id]
    BY <1>1, <1>5, ReconcileFacts
  <2> QED BY <1>4, <1>5, <2>1
<1>7. [id |-> f.id, text |-> pl[i].text] \in Kept(T, Reconcile(S, T, pl))
  BY <1>3, <1>5, <1>6 DEF Kept
<1> QED BY <1>2, <1>7 DEF TextsOf

-----------------------------------------------------------------------------
(* OncePerInterval is not inductive either: while the stamp is due, each   *)
(* question asked since is a pass under way or one that left no stamp.     *)
Asking == {p \in Procs : pc[p] # "idle" /\ IsPlain(opts[p])}

Paced ==
  /\ OncePerInterval
  /\ due => asked <= Cardinality(Asking) + unstamped

(* There are no more passes asking than processes.                         *)
LEMMA AskingFinite ==
  /\ IsFiniteSet(Procs) /\ Cardinality(Procs) \in Nat
  /\ IsFiniteSet(Asking) /\ Cardinality(Asking) \in Nat
  /\ Cardinality(Asking) <= Cardinality(Procs)
<1>1. IsFiniteSet(Procs) /\ Cardinality(Procs) \in Nat
  BY DreamAssumption, FS_CardinalityType
<1>2. Asking \subseteq Procs
  BY DEF Asking
<1>3. IsFiniteSet(Asking) /\ Cardinality(Asking) <= Cardinality(Procs)
  BY <1>1, <1>2, FS_Subset
<1>4. Cardinality(Asking) \in Nat
  BY <1>3, FS_CardinalityType
<1> QED BY <1>1, <1>3, <1>4

(* A pass that returns is no longer asking.                                *)
LEMMA ReturnPaced ==
  ASSUME TypeOK, Paced, NEW p \in Procs, pc[p] # "idle", Return(p), NoteStamp(p),
         due' = FALSE \/ due' = due
  PROVE  Paced'
<1>1. Asking' = Asking \ {p}
  BY DEF Asking, Return, Goto, TypeOK, NoOpts, IsPlain
<1>2. IsFiniteSet(Asking) /\ Cardinality(Asking) \in Nat
      /\ Cardinality(Procs) \in Nat /\ Cardinality(Asking) <= Cardinality(Procs)
  BY AskingFinite
<1>3. Cardinality(Asking \ {p}) = IF p \in Asking THEN Cardinality(Asking) - 1 ELSE Cardinality(Asking)
  BY <1>2, FS_RemoveElement
<1>4. p \in Asking <=> IsPlain(opts[p])
  BY DEF Asking
<1>5. asked' = asked /\ unstamped' = IF IsPlain(opts[p]) /\ due' THEN unstamped + 1 ELSE unstamped
  BY DEF NoteStamp
<1>6. asked \in Nat /\ unstamped \in Nat
  BY DEF TypeOK
<1> QED BY <1>1, <1>2, <1>3, <1>4, <1>5, <1>6 DEF Paced, OncePerInterval

(* A pass that stays under way.                                            *)
LEMMA OnwardPaced ==
  ASSUME Paced, UNCHANGED <<asked, unstamped, due>>, Asking' = Asking
  PROVE  Paced'
BY DEF Paced, OncePerInterval

(* Paced is inductive.                                                     *)
LEMMA NextPaced == TypeOK /\ Paced /\ [Next]_vars => Paced'
<1> SUFFICES ASSUME TypeOK, Paced, [Next]_vars PROVE Paced'
  OBVIOUS
<1>1. ASSUME NEW p \in Procs, Pass(p) PROVE Paced'
  <2>1. ASSUME NEW o \in PassOpts, NEW seen \in SUBSET AllOf(file), Start(p, o, seen)
        PROVE  Paced'
    <3>0. /\ pc[p] = "idle" /\ pc' = [pc EXCEPT ![p] = "asking"]
          /\ opts' = [opts EXCEPT ![p] = o]
          /\ asked' = IF IsPlain(o) THEN asked + 1 ELSE asked
          /\ IsPlain(o) => due
          /\ UNCHANGED <<due, unstamped>>
      BY <2>1 DEF Start, Goto, disk, IsPlain
    <3>1. Asking' = IF IsPlain(o) THEN Asking \cup {p} ELSE Asking
      BY <3>0 DEF Asking, TypeOK
    <3>2. p \notin Asking
      BY <3>0 DEF Asking
    <3>3. Cardinality(Asking \cup {p}) = Cardinality(Asking) + 1
      BY <3>2, AskingFinite, FS_AddElement
    <3>4. asked \in Nat /\ unstamped \in Nat
      BY DEF TypeOK
    <3>5. Cardinality(Asking)' <= Cardinality(Procs)
      <4>1. Asking' \subseteq Procs
        BY DEF Asking
      <4> QED BY <4>1, AskingFinite, FS_Subset
    <3>6. Cardinality(Asking) \in Nat /\ Cardinality(Procs) \in Nat
      BY AskingFinite
    <3>7. CASE IsPlain(o)
      BY <3>0, <3>1, <3>3, <3>4, <3>5, <3>6, <3>7 DEF Paced, OncePerInterval
    <3>8. CASE ~IsPlain(o)
      BY <3>0, <3>1, <3>8, OnwardPaced
    <3> QED BY <3>7, <3>8
  <2>2. CASE ModelFails(p)
    <3>1. due \in BOOLEAN /\ opts[p].dry \in BOOLEAN
      BY DEF TypeOK, PassOpts
    <3>2. due' = FALSE \/ due' = due
      <4>1. CASE due = TRUE
        BY <2>2, <3>1, <4>1 DEF ModelFails
      <4>2. CASE due = FALSE
        BY <2>2, <4>2 DEF ModelFails
      <4> QED BY <3>1, <4>1, <4>2
    <3>3. pc[p] # "idle" /\ Return(p) /\ NoteStamp(p)
      BY <2>2 DEF ModelFails
    <3> QED BY <3>2, <3>3, ReturnPaced
  <2>3. ASSUME NEW vs \in Answers, Answer(p, vs) PROVE Paced'
    <3>0. UNCHANGED <<asked, unstamped, due>> /\ pc[p] = "asking"
      BY <2>3 DEF Answer, disk, ghosts
    <3>1. CASE opts[p].dry
      <4>1. Asking' = Asking
        BY <2>3, <3>1 DEF Answer, Asking, Return, Goto, TypeOK, NoOpts, IsPlain
      <4> QED BY <3>0, <4>1, OnwardPaced
    <3>2. CASE ~opts[p].dry
      <4>1. opts' = opts /\ \E l \in {"reread", "review"} : pc' = [pc EXCEPT ![p] = l]
        BY <2>3, <3>2 DEF Answer, Goto
      <4>2. Asking' = Asking
        BY <3>0, <4>1 DEF Asking, TypeOK
      <4> QED BY <3>0, <4>2, OnwardPaced
    <3> QED BY <3>1, <3>2
  <2>4. CASE WriteReview(p) \/ Reread(p) \/ Commit(p) \/ RewriteSurface(p)
    <3>0. /\ UNCHANGED <<asked, unstamped, due, opts>> /\ pc[p] # "idle"
          /\ \E l \in {"stamp", "commit", "rewrite", "reread"} : pc' = [pc EXCEPT ![p] = l]
      BY <2>4 DEF WriteReview, Reread, Commit, RewriteSurface, NextSurface, Goto, disk, locals, ghosts
    <3>1. Asking' = Asking
      BY <3>0 DEF Asking, TypeOK
    <3> QED BY <3>0, <3>1, OnwardPaced
  <2>5. CASE ApplyFails(p)
    BY <2>5, ReturnPaced DEF ApplyFails, disk, TypeOK
  <2>6. CASE Stamp(p)
    <3>1. due' = FALSE \/ due' = due
      BY <2>6 DEF Stamp
    <3>2. pc[p] # "idle" /\ Return(p) /\ NoteStamp(p)
      BY <2>6 DEF Stamp
    <3> QED BY <3>1, <3>2, ReturnPaced
  <2>7. CASE Crash(p)
    BY <2>7, ReturnPaced DEF Crash, disk, TypeOK
  <2> QED BY <1>1, <2>1, <2>2, <2>3, <2>4, <2>5, <2>6, <2>7 DEF Pass
<1>2. CASE Agent
  <2>1. UNCHANGED <<asked, unstamped, due, pc, opts>>
    BY <1>2 DEF Agent, AppendEntry, RemoveEntry, locals
  <2> QED BY <2>1, OnwardPaced DEF Asking
<1>3. CASE Tick
  BY <1>3, AskingFinite DEF Tick, Paced, OncePerInterval, Asking, locals
<1>4. CASE UNCHANGED vars
  <2>1. UNCHANGED <<asked, unstamped, due, pc, opts>>
    BY <1>4 DEF vars
  <2> QED BY <2>1, OnwardPaced DEF Asking
<1> QED BY <1>1, <1>2, <1>3, <1>4 DEF Next

(* The verdicts of the model are applied as they were given: no entry pays *)
(* for another's verdict, what is folded away has its combined entry, and  *)
(* the model is asked no more often than the interval allows - for any     *)
(* number of overlapping passes and any answers.                           *)
THEOREM DreamJudgesHonestly == Spec => []JudgedHonestly
<1>1. Judging => NoMoreThanJudged
  BY JudgedOneByOne DEF NoMoreThanJudged
<1>2. Judging => MergedHasHome
  BY MergedAtHome DEF MergedHasHome
<1>3. Init => Paced
  BY AskingFinite DEF Init, Paced, OncePerInterval
<1>4. TypeOK /\ Paced /\ [Next]_vars => Paced'
  BY NextPaced
<1>5. Spec => []Paced
  BY <1>3, <1>4, TypeCorrect, PTL DEF Spec
<1>6. Paced => OncePerInterval
  BY DEF Paced
<1>7. NoMoreThanJudged /\ MergedHasHome /\ OncePerInterval => JudgedHonestly
  BY DEF JudgedHonestly
<1> QED BY <1>1, <1>2, <1>5, <1>6, <1>7, AlwaysJudging, PTL
=============================================================================
