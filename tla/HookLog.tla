------------------------------ MODULE HookLog ------------------------------
(***************************************************************************)
(* enforcement.events, the log the hooks of several agent sessions of one  *)
(* project share, with the gates that read it.                             *)
(*                                                                         *)
(* Every hook is a process of its own.  A session runs its hooks one after *)
(* the other; the hooks of different sessions interleave.  Nothing is      *)
(* locked:                                                                 *)
(*   state-clear   (SessionStart) reads the log and writes back what       *)
(*                 belongs to other sessions, then removes the sentinel;   *)
(*   post-enforce  appends what the session has just done, tagged with its *)
(*                 id; other handlers append lines with no tag;            *)
(*   enforce       lets an edit or a commit through if the log covers it;  *)
(*   stop-check    may hold the end of a turn: for a lesson after the user *)
(*                 was frustrated, or once for a reflection.               *)
(* The log is the set of its lines, ordered by at.  A rewrite keeps the    *)
(* order.  An append whose file is replaced between its open and its write *)
(* is lost like one made just before the replacement.                      *)
(***************************************************************************)
EXTENDS Naturals, FiniteSets

CONSTANTS
  Sessions,   \* session ids of one project
  Anonymous,  \* sessions whose hook payloads carry no session id
  Nobody,     \* owner of a line without a tag
  Files,      \* names of source files, relative or absolute
  SamePath,   \* which of these names paths_refer_to_same_file matches
  Scopes      \* bounds: what a behaviour may do, see ScopeType

Work == {"impact", "recall", "detect_changes", "drift_warn", "lesson_saved",
         "frustration"}
Kinds == Work \cup {"override", "code_search", "lesson_surfaced"}

ScopeType ==
  [who : SUBSET Sessions,     \* the sessions that take part
   kinds : SUBSET Kinds,      \* the lines that occur
   appends : Nat,             \* lines appended by tools
   edits : Nat,               \* edits the gate lets through
   starts : Nat,              \* SessionStart events
   prompts : Nat,             \* prompts of the users
   cooking : SUBSET BOOLEAN,  \* may a workflow have pending tasks at a Stop?
   deaths : Nat]              \* sessions that die half way

ASSUME HookAssumption ==
  /\ Nobody \notin Sessions
  /\ Anonymous \subseteq Sessions
  /\ SamePath \subseteq Files \X Files
  /\ \A f \in Files : <<f, f>> \in SamePath
  /\ Scopes \subseteq ScopeType

VARIABLES
  log,        \* enforcement.events: the set of its lines
  reflected,  \* does the reflect sentinel exist?
  pc,         \* where the session, or the hook it waits for, stands
  snap,       \* what state-clear has read
  aim,        \* the file an approved edit is writing
  active,     \* stop_hook_active: the session continues after a block
  owed,       \* lesson-feedback calls the stop-check has still to spawn
  (* Ghosts and bounds. *)
  clock,      \* the place of the next line
  left,       \* what the scope leaves to do
  did,        \* tagged lines a session wrote since its last state-clear
  hit,        \* has anything of did been overrun by another state-clear?
  overrides,  \* override lines since the last state-clear
  upset,      \* a frustration of this session with no lesson saved since
  eased,      \* has another session's hook answered for it meanwhile?
  verdict,    \* what the last stop-check said
  surfaced,   \* lessons shown to the agents
  credited,   \* lesson-feedback calls
  mixed       \* has a stop-check run into another one or a start?

hookvars == <<log, reflected, pc, snap, aim, active, owed>>
vars == <<log, reflected, pc, snap, aim, active, owed, clock, left, did, hit,
          overrides, upset, eased, verdict, surfaced, credited, mixed>>

PCs == {"off", "idle", "ready", "clear", "unlink", "edited",
        "stopWork", "stopRead", "stopCredit", "stopMark"}
Verdicts == {"none", "cooking", "active", "reflected", "idle", "reflect", "frustration"}
Line == [kind : Kinds, owner : Sessions \cup {Nobody}, files : SUBSET Files,
         lessons : Nat, at : Nat]

Named == Sessions \ Anonymous
Init ==
  /\ log = {} /\ reflected = FALSE
  /\ pc = [s \in Sessions |-> "off"]
  /\ snap = [s \in Sessions |-> {}]
  /\ aim = [s \in Sessions |-> {}]
  /\ active = [s \in Sessions |-> FALSE]
  /\ owed = [s \in Sessions |-> 0]
  /\ clock = 0 /\ left \in Scopes
  /\ did = [s \in Sessions |-> {}]
  /\ hit = [s \in Sessions |-> FALSE]
  /\ overrides = {}
  /\ upset = [s \in Sessions |-> FALSE]
  /\ eased = [s \in Sessions |-> FALSE]
  /\ verdict = [s \in Sessions |-> "none"]
  /\ surfaced = 0 /\ credited = 0 /\ mixed = FALSE

Goto(s, l) == pc' = [pc EXCEPT ![s] = l]
Spend(what) == left[what] > 0 /\ left' = [left EXCEPT ![what] = @ - 1]

-----------------------------------------------------------------------------
(* append_event, and stamp_session for the handlers that call it.          *)

NewLine(kind, owner, F, n) ==
  [kind |-> kind, owner |-> owner, files |-> F, lessons |-> n, at |-> clock]

AppendEvent(e) == log' = log \cup {e} /\ clock' = clock + 1

Tag(s) == IF s \in Anonymous THEN Nobody ELSE s

(* A state-clear of another session is about to write back what it read.   *)
Overrun(s) == \E t \in Sessions \ {s} : pc[t] = "clear" /\ snap[t] # {}

AppendTagged(s, kind, F) ==
  LET e == NewLine(kind, Tag(s), F, 0) IN
  /\ AppendEvent(e)
  /\ did' = [did EXCEPT ![s] = @ \cup {e}]
  /\ hit' = [hit EXCEPT ![s] = @ \/ Overrun(s)]

Covers(e, f) == \E g \in e.files : <<g, f>> \in SamePath

(* post-enforce after memory_impact, memory_detect_changes, memory_recall  *)
(* and memory_remember_lesson.  The file of an impact may not be found;    *)
(* the files of a detect_changes decide about a warning only.              *)
PostEnforce(s, kind, F) ==
  /\ pc[s] = "ready" /\ kind \in left.kinds /\ Spend("appends")
  /\ \/ kind = "impact" /\ Cardinality(F) <= 1
     \/ kind \in {"detect_changes", "recall", "lesson_saved"} /\ F = {}
  /\ AppendTagged(s, kind, F)
  /\ IF kind = "lesson_saved"
     THEN /\ upset' = [upset EXCEPT ![s] = FALSE]
          /\ eased' = [t \in Sessions |-> eased[t] \/ t # s]
     ELSE UNCHANGED <<upset, eased>>
  /\ UNCHANGED <<reflected, pc, snap, aim, active, owed, overrides, verdict,
                 surfaced, credited, mixed>>

(* enforce override, graph-affordance and lesson-guard: lines without tag. *)
(* F is the target of require-memory-impact, {} the commit.                *)
AppendUntagged(s, kind, F) ==
  /\ pc[s] = "ready" /\ kind \in left.kinds /\ Spend("appends")
  /\ \/ kind = "override" /\ Cardinality(F) <= 1
     \/ kind \in {"code_search", "lesson_surfaced"} /\ F = {}
  /\ LET n == IF kind = "lesson_surfaced" THEN 1 ELSE 0
         e == NewLine(kind, Nobody, F, n)
     IN /\ AppendEvent(e)
        /\ surfaced' = surfaced + n
        /\ overrides' = IF kind = "override" THEN overrides \cup {e} ELSE overrides
  /\ UNCHANGED <<reflected, pc, snap, aim, active, owed, did, hit, upset, eased,
                 verdict, credited, mixed>>

(* prompt-guard.                                                           *)
UserPrompt(s, frustrated) ==
  /\ pc[s] = "idle" /\ Spend("prompts")
  /\ Goto(s, "ready")
  /\ IF frustrated
     THEN /\ "frustration" \in left.kinds
          /\ AppendEvent(NewLine("frustration", Nobody, {}, 0))
          /\ upset' = [upset EXCEPT ![s] = TRUE]
          /\ eased' = [eased EXCEPT ![s] = FALSE]
     ELSE UNCHANGED <<log, clock, upset, eased>>
  /\ verdict' = [verdict EXCEPT ![s] = "none"]
  /\ UNCHANGED <<reflected, snap, aim, active, owed, did, hit, overrides,
                 surfaced, credited, mixed>>

-----------------------------------------------------------------------------
(* enforce: rules require-memory-impact and require-detect-changes.        *)

EditAllowed(L, f) == \E e \in L : e.kind \in {"impact", "override"} /\ Covers(e, f)

CommitAllowed(L) ==
  \E e \in L : e.kind = "detect_changes" \/ (e.kind = "override" /\ e.files = {})

(* An edit the gate lets through; one it blocks changes nothing, and a     *)
(* commit changes nothing either way.                                      *)
Edit(s, f) ==
  /\ pc[s] = "ready" /\ Spend("edits")
  /\ EditAllowed(log, f)
  /\ aim' = [aim EXCEPT ![s] = {f}]
  /\ Goto(s, "edited")
  /\ UNCHANGED <<log, reflected, snap, active, owed, clock, did, hit,
                 overrides, upset, eased, verdict, surfaced, credited, mixed>>

(* build_drift_event: only when someone analysed the file; whether all     *)
(* edited symbols were covered is left open.                               *)
PostEdit(s) ==
  /\ pc[s] = "edited"
  /\ \/ /\ \E e \in log : e.kind = "impact" /\ \A f \in aim[s] : Covers(e, f)
        /\ AppendTagged(s, "drift_warn", aim[s])
     \/ UNCHANGED <<log, clock, did, hit>>
  /\ aim' = [aim EXCEPT ![s] = {}]
  /\ Goto(s, "ready")
  /\ UNCHANGED <<reflected, snap, active, owed, left, overrides, upset, eased,
                 verdict, surfaced, credited, mixed>>

-----------------------------------------------------------------------------
(* state-clear.                                                            *)

Stopping == {"stopWork", "stopRead", "stopCredit", "stopMark"}
Crowded(s) == \E t \in Sessions \ {s} : pc[t] \in {"clear", "unlink"} \cup Stopping

(* What a rewrite or a removal of the log does to the ghosts.              *)
Wiped(s, others) ==
  /\ did' = [did EXCEPT ![s] = {}]
  /\ hit' = [t \in Sessions |-> IF t = s THEN Overrun(s) \/ (hit[s] /\ snap[s] = {})
                             ELSE hit[t] \/ t \in others]
  /\ upset' = [upset EXCEPT ![s] = FALSE]

StartRead(s) ==
  /\ pc[s] \in {"off", "idle"} /\ s \in Named \cap left.who /\ Spend("starts")
  /\ snap' = [snap EXCEPT ![s] = log]
  /\ Goto(s, "clear")
  /\ active' = [active EXCEPT ![s] = FALSE]
  /\ UNCHANGED <<log, reflected, aim, owed, clock, did, hit, overrides, upset,
                 eased, verdict, surfaced, credited, mixed>>

(* Variant: the log of all sessions goes. *)
ClearAll(s) ==
  /\ pc[s] = "clear"
  /\ log' = {} /\ overrides' = {} /\ eased' = [t \in Sessions |-> TRUE]
  /\ Wiped(s, {})
  /\ snap' = [snap EXCEPT ![s] = {}]
  /\ Goto(s, "unlink")
  /\ UNCHANGED <<reflected, aim, active, owed, clock, left, verdict, surfaced,
                 credited, mixed>>

(* Variant: lines without a tag stay. *)
ClearOwn(s) ==
  /\ pc[s] = "clear"
  /\ log' = IF snap[s] = {} THEN log ELSE {e \in snap[s] : e.owner # s}
  /\ UNCHANGED <<overrides, eased>>
  /\ Wiped(s, {})
  /\ snap' = [snap EXCEPT ![s] = {}]
  /\ Goto(s, "unlink")
  /\ UNCHANGED <<reflected, aim, active, owed, clock, left, verdict, surfaced,
                 credited, mixed>>

(* With no file to read nothing is written. *)
ClearWrite(s) ==
  /\ pc[s] = "clear"
  /\ IF snap[s] = {}
     THEN UNCHANGED <<log, overrides, eased>>
     ELSE /\ log' = {e \in snap[s] : e.owner \notin {s, Nobody}}
          /\ overrides' = {}
          /\ eased' = [t \in Sessions |-> TRUE]
  /\ Wiped(s, {})
  /\ snap' = [snap EXCEPT ![s] = {}]
  /\ Goto(s, "unlink")
  /\ UNCHANGED <<reflected, aim, active, owed, clock, left, verdict, surfaced,
                 credited, mixed>>

(* A start without a session id removes the file. *)
StartAnonymous(s) ==
  /\ pc[s] \in {"off", "idle"} /\ s \in Anonymous \cap left.who /\ Spend("starts")
  /\ log' = {} /\ overrides' = {}
  /\ eased' = [t \in Sessions |-> TRUE]
  /\ Wiped(s, {t \in Named : did[t] # {}})
  /\ Goto(s, "unlink")
  /\ active' = [active EXCEPT ![s] = FALSE]
  /\ UNCHANGED <<reflected, snap, aim, owed, clock, verdict, surfaced, credited, mixed>>

RemoveSentinel(s) ==
  /\ pc[s] = "unlink"
  /\ reflected' = FALSE
  /\ Goto(s, "idle")
  /\ UNCHANGED <<log, snap, aim, active, owed, clock, left, did, hit, overrides,
                 upset, eased, verdict, surfaced, credited, mixed>>

-----------------------------------------------------------------------------
(* stop-check: evaluate_reflect_prompt.                                    *)

Approve(s, why) ==
  /\ Goto(s, "idle")
  /\ active' = [active EXCEPT ![s] = FALSE]
  /\ verdict' = [verdict EXCEPT ![s] = why]
  /\ owed' = [owed EXCEPT ![s] = 0]

(* The agent goes on, and its next Stop says so. *)
Block(s, why) ==
  /\ Goto(s, "ready")
  /\ active' = [active EXCEPT ![s] = TRUE]
  /\ verdict' = [verdict EXCEPT ![s] = why]
  /\ owed' = [owed EXCEPT ![s] = 0]

(* Variant: the loop guard is gone. *)
StopNoGuard(s, cooking) ==
  /\ pc[s] = "ready" /\ cooking \in left.cooking
  /\ IF cooking THEN Approve(s, "cooking")
     ELSE IF reflected THEN Approve(s, "reflected")
     ELSE Goto(s, "stopWork") /\ UNCHANGED <<active, verdict, owed>>
  /\ UNCHANGED <<log, reflected, snap, aim, clock, left, did, hit, overrides,
                 upset, eased, surfaced, credited, mixed>>

StopCheck(s, cooking) ==
  /\ pc[s] = "ready" /\ cooking \in left.cooking
  /\ CASE cooking                 -> Approve(s, "cooking")
       [] ~cooking /\ active[s]   -> Approve(s, "active")
       [] ~cooking /\ ~active[s] /\ reflected -> Approve(s, "reflected")
       [] OTHER -> Goto(s, "stopWork") /\ UNCHANGED <<active, verdict, owed>>
  /\ UNCHANGED <<log, reflected, snap, aim, clock, left, did, hit, overrides,
                 upset, eased, surfaced, credited, mixed>>

StopWork(s) ==
  /\ pc[s] = "stopWork"
  /\ IF \E e \in log : e.kind \in Work
     THEN Goto(s, "stopRead") /\ UNCHANGED <<active, verdict, owed>>
     ELSE Approve(s, "idle")
  /\ UNCHANGED <<log, reflected, snap, aim, clock, left, did, hit, overrides,
                 upset, eased, surfaced, credited, mixed>>

(* parse_stop_events: the last frustration has no lesson_saved after it.   *)
Frustrated(L) ==
  \E e \in L : /\ e.kind = "frustration"
               /\ \A l \in L : l.kind = "lesson_saved" => l.at < e.at

(* The triggers of the lesson_surfaced lines, each line's for itself.      *)
Triggers(L) == UNION {{e.at} \X (1 .. e.lessons) : e \in L}

(* Variant: less what has been credited already. *)
SurfacingsNet(L) == Cardinality(Triggers(L)) - credited

Surfacings(L) == Cardinality(Triggers(L))

StopRead(s) ==
  /\ pc[s] = "stopRead"
  /\ IF Frustrated(log)
     THEN Block(s, "frustration")
     ELSE /\ owed' = [owed EXCEPT ![s] = Surfacings(log)]
          /\ Goto(s, IF Surfacings(log) > 0 THEN "stopCredit" ELSE "stopMark")
          /\ UNCHANGED <<active, verdict>>
  /\ UNCHANGED <<log, reflected, snap, aim, clock, left, did, hit, overrides,
                 upset, eased, surfaced, credited, mixed>>

(* One more lesson_surfaced line, and one lesson-feedback per trigger.     *)
StopCredit(s) ==
  /\ pc[s] = "stopCredit"
  /\ AppendEvent(NewLine("lesson_surfaced", Nobody, {}, owed[s]))
  /\ credited' = credited + owed[s]
  /\ mixed' = (mixed \/ Crowded(s))
  /\ Goto(s, "stopMark")
  /\ UNCHANGED <<reflected, snap, aim, active, owed, left, did, hit, overrides,
                 upset, eased, verdict, surfaced>>

(* Variant: the sentinel is not written. *)
ForgetMark(s) ==
  /\ pc[s] = "stopMark"
  /\ Block(s, "reflect")
  /\ mixed' = (mixed \/ Crowded(s))
  /\ UNCHANGED <<log, reflected, snap, aim, clock, left, did, hit, overrides,
                 upset, eased, surfaced, credited>>

StopMark(s) ==
  /\ pc[s] = "stopMark"
  /\ reflected' = TRUE
  /\ Block(s, "reflect")
  /\ mixed' = (mixed \/ Crowded(s))
  /\ UNCHANGED <<log, snap, aim, clock, left, did, hit, overrides, upset, eased,
                 surfaced, credited>>

(* The agent is closed; the hook it waits for dies with it.                *)
Die(s) ==
  /\ pc[s] # "off" /\ Spend("deaths")
  /\ mixed' = (mixed \/ pc[s] = "stopMark")
  /\ Goto(s, "off")
  /\ snap' = [snap EXCEPT ![s] = {}]
  /\ aim' = [aim EXCEPT ![s] = {}]
  /\ active' = [active EXCEPT ![s] = FALSE]
  /\ owed' = [owed EXCEPT ![s] = 0]
  /\ upset' = [upset EXCEPT ![s] = FALSE]
  /\ verdict' = [verdict EXCEPT ![s] = "none"]
  /\ UNCHANGED <<log, reflected, clock, did, hit, overrides, eased, surfaced, credited>>

-----------------------------------------------------------------------------
Tools(s) ==
  \/ \E kind \in Kinds, F \in SUBSET Files :
       PostEnforce(s, kind, F) \/ AppendUntagged(s, kind, F)
  \/ \E f \in Files : Edit(s, f)

(* The steps of a hook that has been started. *)
Hook(s) ==
  \/ ClearWrite(s) \/ RemoveSentinel(s) \/ PostEdit(s)
  \/ StopWork(s) \/ StopRead(s) \/ StopCredit(s) \/ StopMark(s)

Turn(s) == \E cooking \in BOOLEAN : StopCheck(s, cooking)

Next == \E s \in Sessions :
  \/ StartRead(s) \/ StartAnonymous(s) \/ Die(s)
  \/ \E frustrated \in BOOLEAN : UserPrompt(s, frustrated)
  \/ Tools(s) \/ Hook(s) \/ Turn(s)

Spec == Init /\ [][Next]_vars

(* A hook that was started ends, and an agent whose turn is over tries to  *)
(* stop.                                                                   *)
FairSpec == Spec /\ \A s \in Sessions : WF_vars(Hook(s)) /\ WF_vars(Turn(s))

-----------------------------------------------------------------------------
(* Type invariant. *)
TypeOK ==
  /\ log \subseteq Line /\ reflected \in BOOLEAN
  /\ pc \in [Sessions -> PCs]
  /\ snap \in [Sessions -> SUBSET Line]
  /\ aim \in [Sessions -> SUBSET Files]
  /\ active \in [Sessions -> BOOLEAN]
  /\ owed \in [Sessions -> Nat]
  /\ clock \in Nat /\ left \in ScopeType
  /\ did \in [Sessions -> SUBSET Line]
  /\ hit \in [Sessions -> BOOLEAN]
  /\ overrides \subseteq Line
  /\ upset \in [Sessions -> BOOLEAN] /\ eased \in [Sessions -> BOOLEAN]
  /\ verdict \in [Sessions -> Verdicts]
  /\ surfaced \in Nat /\ credited \in Nat /\ mixed \in BOOLEAN

(* The log holds, of a named session, exactly what its hooks recorded      *)
(* since its last start, whatever the other sessions do; unless another    *)
(* start was rewriting the log at the time, or removed it.                 *)
Own(L, s) == {e \in L : e.owner = s}

OwnLines == \A s \in Named : hit[s] \/ Own(log, s) = did[s]

(* "state-clear prunes only its own": nothing a session has analysed since *)
(* its start is asked of it again because another session started.         *)
WorkCounts ==
  \A s \in Named : ~hit[s] =>
    \A e \in did[s] :
      /\ e.kind = "impact" => \A f \in Files : Covers(e, f) => EditAllowed(log, f)
      /\ e.kind = "detect_changes" => CommitAllowed(log)

(* What a gate lets through was analysed by some session since that        *)
(* session's last start, or overridden since the last start of anyone; not *)
(* by a run of an agent that is over and was started again.                *)
GateBacked ==
  LET backing == overrides \cup UNION {did[s] : s \in Sessions} IN
  (\A s \in Named : ~hit[s]) =>
    /\ \A f \in Files : EditAllowed(log, f) => EditAllowed(backing, f)
    /\ CommitAllowed(log) => CommitAllowed(backing)

(* A lesson shown to an agent earns or costs one lesson-feedback at most,  *)
(* as long as stop-checks do not run into each other or into a start.      *)
CreditedOnce == mixed \/ credited <= surfaced

(* A turn in which the user was frustrated does not end as if nothing had  *)
(* been: the stop-check demands a lesson until this session saved one.     *)
(* What gets past it: a workflow that is still cooking, the loop guard, a  *)
(* sentinel that is already there, and what other sessions did meanwhile.  *)
FrustrationHeld ==
  \A s \in Sessions :
    upset[s] /\ verdict[s] \in {"idle", "reflect"} => eased[s]

(* What a session was shown and how its user felt are each settled once.   *)
SignalsHeld == CreditedOnce /\ FrustrationHeld

(* However often a stop-check blocks, the turn ends. *)
StopLetsGo == \A s \in Sessions : pc[s] = "ready" ~> pc[s] \in {"idle", "off"}

(* "A's impact event satisfied B's gate for a file B never analysed": an   *)
(* edit passes only on what its own session recorded, or an override.      *)
\* The code does not keep it: README, disagreements.
OwnAnalysis ==
  [][\A s \in Named, f \in Files :
       aim[s] = {} /\ aim'[s] = {f} => EditAllowed(did[s] \cup overrides, f)]_vars
=============================================================================
