----------------------------- MODULE MCIndexer -----------------------------
(* Instances of Indexer for TLC. *)
EXTENDS Indexer

CONSTANTS f1, f2, x1, t1, r1, r2, m1

(* Content 2 keeps one range of content 1 and loses the other. *)
Lines == [c \in Contents |-> IF c = 2 THEN {r1} ELSE {r1, r2}]

(* Each content but the second emits to the topic and calls the first file. *)
Linked == [k \in Code \X Contents |->
             IF k[2] = 2 THEN {} ELSE Topics \cup ({f1} \cap Code)]

(* The second content drops the import of the first one. *)
Imported == [c \in Contents |-> IF c = 2 THEN {} ELSE Modules]

Scope(f, e, r, c, fail, idle) ==
  [files |-> f, edits |-> e, runs |-> r, crashes |-> c,
   vecMayFail |-> fail, idles |-> idle]

(* A code file and a text file; a code file that is deleted and written    *)
(* again around a crash; a code file indexed twice by an embedder that may *)
(* fail, its stores evicted; two code files that are linked.               *)
Small ==
  {Scope({f1, x1}, 2, 1, 0, FALSE, FALSE), Scope({f1, x1}, 1, 1, 1, FALSE, FALSE),
   Scope({f1},     2, 1, 1, FALSE, FALSE), Scope({f1},     1, 2, 1, TRUE, TRUE),
   Scope({f1, f2}, 1, 1, 1, FALSE, FALSE)}

(* One file, edited once. *)
OneFile == {Scope(Files, 1, 2, 0, FALSE, FALSE)}
=============================================================================
