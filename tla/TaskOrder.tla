----------------------------- MODULE TaskOrder -----------------------------
(***************************************************************************)
(* What the execution waves of a plan promise to the workers, with no      *)
(* algorithm: some tasks at a time are handed out, never one before the    *)
(* tasks it depends on, and while a task can be handed out one is.         *)
(* "hoangsa-cli dag waves" (PlanGate) implements it.                       *)
(***************************************************************************)
EXTENDS Naturals, Sequences

CONSTANT NoId   \* a task that carries no id

VARIABLES
  tasks,   \* the tasks of the plan: a sequence of records with fields id, deps
  done     \* the identifiers handed out so far

orderVars == <<tasks, done>>

\* Some task of that identifier waits for nothing that is not done.
Startable(i) == \E n \in DOMAIN tasks : tasks[n].id = i /\ tasks[n].deps \subseteq done

OrderInit == done = {}

HandOut ==
  \E S \in SUBSET ({tasks[n].id : n \in DOMAIN tasks} \ {NoId}) :
    /\ \A i \in S : i \notin done /\ Startable(i)
    /\ S # {}
    /\ done' = done \cup S
    /\ UNCHANGED tasks

\* A plan is adopted once, before anything is handed out.
Adopt == tasks = <<>> /\ done = {} /\ tasks' # <<>> /\ UNCHANGED done

(* A plan runs on while a task of it can be started.                        *)
OrderSpec == OrderInit /\ [][Adopt \/ HandOut]_orderVars /\ WF_orderVars(HandOut)
=============================================================================
