----------------------------- MODULE MCHookLog -----------------------------
(* Instances of HookLog for TLC. *)
EXTENDS HookLog

CONSTANTS s1, s2, s3, f1, f2

Reflexive == {<<f1, f1>>, <<f2, f2>>}
Aliased == Reflexive \cup {<<f1, f2>>, <<f2, f1>>}

Scope(who, kinds, appends, edits, starts, prompts, cooking, deaths) ==
  [who |-> who, kinds |-> kinds, appends |-> appends, edits |-> edits,
   starts |-> starts, prompts |-> prompts, cooking |-> cooking, deaths |-> deaths]

(* Two sessions analyse and edit, one of them may start again; then one of *)
(* them without an id; then what a Stop looks at.                          *)
Gates   == Scope({s1, s2}, {"impact", "override", "detect_changes"}, 2, 1, 3, 2, {TRUE}, 0)
Unnamed == Scope({s1, s3}, {"impact", "override", "code_search"}, 2, 1, 2, 2, {TRUE}, 0)
Stops   == Scope({s1, s2}, {"lesson_saved", "lesson_surfaced", "frustration"},
                 2, 0, 3, 2, {FALSE}, 0)
Ends    == Scope({s1, s2}, {"lesson_surfaced", "recall"}, 2, 0, 2, 2, BOOLEAN, 1)
Three   == Scope({s1, s2, s3}, {"impact"}, 1, 1, 5, 1, {TRUE}, 0)
AllScopes == {Gates, Unnamed, Three, Stops, Ends}
OneEdit == {Scope({s1, s2}, {"impact"}, 1, 1, 2, 2, {TRUE}, 0)}
=============================================================================
