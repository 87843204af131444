---------------------------- MODULE MCDreamPass ----------------------------
(* Instances of DreamPass for TLC. *)
EXTENDS DreamPass

CONSTANTS h1, h2, b1, b2, d1, c1

T(h, b) == [head |-> h, body |-> b]
E(i, h, b) == [id |-> i, text |-> T(h, b)]

(* Two entries share a heading, two are twins. *)
SeedTwins == [memory |-> {E(1, h1, b1), E(2, h1, b2), E(3, h1, b1)},
              lessons |-> {E(1, h2, b1)}, user |-> {}]
SeedPair  == [memory |-> {E(1, h1, b1), E(2, h1, b2)}, lessons |-> {}, user |-> {}]

V(s, i, a, w, t) == [surface |-> s, index |-> i, action |-> a, with |-> w, text |-> t]

(* One verdict each. *)
ShortMenu ==
  {V("memory", 1, "drop", {}, NoText), V("memory", 2, "merge", {1}, T(h2, b2)),
   V("memory", 1, "merge", {2}, T(h2, b1))}
ShortAnswers == {<<v>> : v \in ShortMenu}

(* Chains of merges, verdicts on twins, on an index that does not exist,   *)
(* without the text they need, and on two surfaces.                        *)
FewAnswers ==
  {<<V("memory", 2, "rewrite", {}, NoText), V("memory", 1, "drop", {}, NoText),
     V("lessons", 1, "drop", {}, NoText)>>,
   <<V("memory", 1, "merge", {2, 4}, T(h2, b2)), V("memory", 3, "merge", {1}, T(h2, b1))>>,
   <<V("memory", 2, "merge", {1, 3}, T(h2, b2)), V("memory", 1, "drop", {}, NoText)>>,
   <<V("memory", 3, "rewrite", {}, T(h2, b2)), V("memory", 1, "merge", {3}, T(h2, b1))>>}

O(f, d, m) == [force |-> f, dry |-> d, mode |-> m]
FewOpts == {O(FALSE, FALSE, "auto"), O(FALSE, TRUE, "auto"), O(TRUE, FALSE, "review")}

Forced == {o \in PassOpts : o.force /\ ~o.dry}

AddMemory == {<<"memory", T(h2, b2)>>}
=============================================================================
