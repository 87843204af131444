--------------------------- MODULE MCDaemonOwner ---------------------------
(* Instances of DaemonOwner for TLC. *)
EXTENDS DaemonOwner, TLC

CONSTANTS p1, p2, k1

Of(s, c, v, r, o, w) ==
  [singles |-> s, clis |-> c, services |-> v, changes |-> r, servers |-> o, watch |-> w]

(* Singles and a service that is restarted; singles, a service and a       *)
(* registry that changes; a command line next to them.                     *)
Mixed == {Of(4, 0, 2, 1, 1, TRUE), Of(4, 0, 2, 1, 1, FALSE),
          Of(3, 0, 1, 3, 2, TRUE), Of(2, 1, 1, 2, 2, TRUE), Of(2, 1, 1, 2, 1, FALSE)}

(* Two singles and a service whose project is registered once. *)
Brief == {Of(2, 0, 1, 1, 1, FALSE)}

Sym == Permutations(Singles)
=============================================================================
