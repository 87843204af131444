--------------------------- MODULE FeedbackLedger ---------------------------
(***************************************************************************)
(* What the surface lock of LESSONS.md promises, with no lock, file or     *)
(* caller: a ledger of lessons, each with the outcomes reported for it.    *)
(* Outcomes are reported for all lessons of some triggers at once, and     *)
(* lessons are added.  Adding takes no lock: a lesson added while a report *)
(* is being counted is at risk until the report is over, and lost with it. *)
(* Once someone rewrites the file without the lock nothing is promised.    *)
(* LessonFile implements it.                                               *)
(***************************************************************************)
EXTENDS Naturals

CONSTANTS
  Triggers, Advices,
  Seed,      \* lessons at the start: a set of [trig, advice]
  Reports    \* the sets of triggers a report may name

VARIABLES
  ledger,    \* the lessons with their outcomes
  atRisk,    \* those of them added since the report now counted began
  spoilt     \* nothing is promised any more

ledgerVars == <<ledger, atRisk, spoilt>>

Entry(k) == [trig |-> k.trig, advice |-> k.advice, succ |-> 0, fail |-> 0]
SameLesson(l, m) == l.trig = m.trig /\ l.advice = m.advice
Counted(l, g) == IF g THEN [l EXCEPT !.succ = @ + 1] ELSE [l EXCEPT !.fail = @ + 1]

LedgerInit == ledger = {Entry(k) : k \in Seed} /\ atRisk = {} /\ spoilt = FALSE

Add(k) ==
  /\ ~ spoilt /\ \A l \in ledger : ~ SameLesson(l, k)
  /\ ledger' = ledger \cup {Entry(k)}
  /\ atRisk' \in {atRisk, atRisk \cup {Entry(k)}}
  /\ UNCHANGED spoilt

Report(W, g) ==
  /\ ~ spoilt /\ \E l \in ledger \ atRisk : l.trig \in W
  /\ ledger' = {IF l.trig \in W THEN Counted(l, g) ELSE l : l \in ledger \ atRisk}
  /\ atRisk' = {}
  /\ UNCHANGED spoilt

\* The one who counts a report dies before it is written.
ReportLost == ~ spoilt /\ atRisk' = {} /\ UNCHANGED <<ledger, spoilt>>

Spoil == ~ spoilt /\ spoilt' = TRUE /\ ledger' = {} /\ atRisk' = {}

LedgerNext ==
  \/ \E t \in Triggers, a \in Advices : Add([trig |-> t, advice |-> a])
  \/ \E W \in Reports, g \in BOOLEAN : Report(W, g)
  \/ ReportLost \/ Spoil

LedgerSpec == LedgerInit /\ [][LedgerNext]_ledgerVars

(* A lesson an outcome was reported for stays, and none of its outcomes is  *)
(* ever taken back.                                                         *)
OutcomesStay ==
  [][\A l \in ledger : l.succ + l.fail > 0 /\ ~ spoilt' =>
       \E m \in ledger' : SameLesson(l, m) /\ l.succ <= m.succ /\ l.fail <= m.fail]_ledgerVars
=============================================================================
