---------------------------- MODULE MCLessonFile ----------------------------
(* Instances of LessonFile for TLC. *)
EXTENDS LessonFile

CONSTANTS p1, p2, t1, t2, a1, a2

OneSeed  == {[trig |-> t1, advice |-> a1]}
TwoSeeds == {[trig |-> t1, advice |-> a1], [trig |-> t2, advice |-> a2]}
OneReport == {{t1}}
TwoReports == {{t1}, {t2}}
=============================================================================
