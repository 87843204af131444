------------------------------ MODULE WorkFiles ------------------------------
(***************************************************************************)
(* The files a workflow keeps between its steps: session directories       *)
(* ("session init|latest"), their state.json ("state init|update|get"),    *)
(* the trust store ("trust approve|revoke|check") and the block of rules   *)
(* in CLAUDE.md and AGENTS.md ("rule sync").  One command runs at a time;  *)
(* any of them may be killed.  state.json is renamed over, the rest is     *)
(* written in place.                                                       *)
(***************************************************************************)
EXTENDS Naturals, SequencesExt, FiniteSetsExt

CONSTANTS
  SessionNames,    \* names asked for: sequences of words and "-"
  MaxDup,          \* names tried for one slug (100 in the code)
  Patches,         \* changes "state update" is given: [top, prefs], functions
  FirstState,      \* what "state init" writes: [top, prefs]
  Servers,         \* fingerprints of MCP servers
  Docs,            \* what CLAUDE.md and AGENTS.md may hold: sequences of lines
  Blocks,          \* blocks of rules, sequences of lines between the markers
  NoFile, Broken,  \* a file that is not there, or cannot be parsed
  MaxWork, MaxWorkKills   \* bounds

StartMark == "hoangsa-rules-start"
EndMark == "hoangsa-rules-end"

\* No rule's text is a marker.
ASSUME WorkAssumption ==
  /\ Docs \subseteq Seq(UNION {ToSet(doc) : doc \in Docs})
  /\ Blocks \subseteq Seq((UNION {ToSet(block) : block \in Blocks}) \ {StartMark, EndMark})

VARIABLES
  dirs,      \* the session directories, oldest first by modification time
  state,     \* per directory with a state.json, its content
  trust,     \* NoFile, Broken, or the fingerprints in the store
  docs,      \* [claude, agents]: lines, <<>> when missing or cut short
  work,      \* the command at work
  works, workKills,
  got,       \* ghost: the directories finished "session init"s were told, in order
  approved,  \* ghost: approved and not revoked since
  texts      \* ghost: the lines of the documents at the start

workVars == <<dirs, state, trust, docs, work, works, workKills, got, approved, texts>>

Rest == [op |-> "none"]
-----------------------------------------------------------------------------
\* slugify: what is no letter or digit separates words, however many there are.
Slugify(name) == SelectSeq(name, LAMBDA w : w # "-")

Taken == ToSet(dirs)

\* The suffixes of cmd_init: no suffix, then 2, 3, ...
Candidates(slug) == <<slug>> \o [n \in 1 .. MaxDup - 1 |-> Append(slug, ToString(n + 1))]

\* The directory moves to the end of what collect_sessions sorts.
Touched(d) == Append(RemoveAt(dirs, CHOOSE n \in DOMAIN dirs : dirs[n] = d), d)

\* Shallow merge; preferences that both sides have are merged one by one.
Merged(s, p) == [top |-> p.top @@ s.top, prefs |-> p.prefs @@ s.prefs]

Lined(doc, line) == {n \in DOMAIN doc : doc[n] = line}
Wrapped(block) == <<StartMark>> \o block \o <<EndMark>>

(* Variant: the old end marker stays behind the new block. *)
SyncedBefore(doc, block) ==
  LET s == Lined(doc, StartMark) e == Lined(doc, EndMark)
  IN  IF s # {} /\ e # {} THEN SubSeq(doc, 1, Min(s) - 1) \o Wrapped(block) \o SubSeq(doc, Min(e), Len(doc))
      ELSE doc \o Wrapped(block)

\* cmd_rule_sync, for one document: what lies between the first start marker
\* and the first end marker is replaced, a document without both is appended to.
Synced(doc, block) ==
  LET s == Lined(doc, StartMark) e == Lined(doc, EndMark)
  IN  IF s # {} /\ e # {} THEN SubSeq(doc, 1, Min(s) - 1) \o Wrapped(block) \o SubSeq(doc, Min(e) + 1, Len(doc))
      ELSE doc \o Wrapped(block)
-----------------------------------------------------------------------------
WorkInit ==
  /\ dirs = <<>> /\ state = <<>> /\ trust = NoFile
  /\ docs \in [{"claude", "agents"} -> Docs] /\ texts = docs
  /\ work = Rest /\ works = 0 /\ workKills = 0
  /\ got = <<>> /\ approved = {}

Begun == work = Rest /\ works < MaxWork /\ works' = works + 1
Going == UNCHANGED <<works, workKills>>
Given == UNCHANGED <<dirs, state, docs, got, texts>>

\* session init: directories are created empty.
SessionInit ==
  /\ Begun
  /\ \E name \in SessionNames :
       LET slug == Slugify(name)
           free == {n \in 1 .. MaxDup : Candidates(slug)[n] \notin Taken}
       IN  IF slug = <<>> \/ free = {} THEN UNCHANGED <<dirs, got>>
           ELSE LET d == Candidates(slug)[Min(free)]
                IN  dirs' = Append(dirs, d) /\ got' = Append(got, d)
  /\ UNCHANGED <<state, trust, docs, work, workKills, approved, texts>>

\* state init and state update read here and rename in StateRename.
StateRead ==
  /\ Begun
  /\ \E d \in Taken :
       \/ /\ d \notin DOMAIN state
          /\ work' = [op |-> "state", dir |-> d, next |-> FirstState]
       \/ \E p \in Patches :
            /\ d \in DOMAIN state
            /\ work' = [op |-> "state", dir |-> d, next |-> Merged(state[d], p)]
  /\ UNCHANGED <<dirs, state, trust, docs, workKills, got, approved, texts>>

StateRename ==
  /\ work.op = "state"
  /\ state' = (work.dir :> work.next) @@ state
  /\ dirs' = Touched(work.dir) /\ work' = Rest
  /\ UNCHANGED <<trust, docs, got, approved, texts>> /\ Going

\* read_trust_store: a store that cannot be read is empty.
Trusted == IF trust \in {NoFile, Broken} THEN {} ELSE trust

TrustRead ==
  /\ Begun
  /\ \E f \in Servers :
       \/ work' = [op |-> "open", next |-> Trusted \cup {f}, add |-> {f}, drop |-> {}]
       \/ /\ f \in Trusted
          /\ work' = [op |-> "open", next |-> Trusted \ {f}, add |-> {}, drop |-> {f}]
  /\ UNCHANGED <<trust, approved, workKills>> /\ Given

\* write_trust_store: truncated, then filled.
TrustOpen ==
  /\ work.op = "open" /\ trust' = Broken /\ work' = [work EXCEPT !.op = "fill"]
  /\ UNCHANGED approved /\ Given /\ Going

TrustFill ==
  /\ work.op = "fill" /\ trust' = work.next /\ work' = Rest
  /\ approved' = (approved \cup work.add) \ work.drop
  /\ Given /\ Going

\* rule sync: CLAUDE.md first, then AGENTS.md, each truncated and filled.
SyncRead ==
  /\ Begun
  /\ \E b \in Blocks : work' = [op |-> "claude", block |-> b, doc |-> docs["claude"], open |-> FALSE]
  /\ UNCHANGED <<dirs, state, trust, docs, workKills, got, approved, texts>>

SyncOpen ==
  /\ work.op \in {"claude", "agents"} /\ ~ work.open
  /\ docs' = [docs EXCEPT ![work.op] = <<>>]
  /\ work' = [work EXCEPT !.open = TRUE]
  /\ UNCHANGED <<dirs, state, trust, got, approved, texts>> /\ Going

SyncFill ==
  /\ work.op \in {"claude", "agents"} /\ work.open
  /\ docs' = [docs EXCEPT ![work.op] = Synced(work.doc, work.block)]
  /\ work' = IF work.op = "agents" THEN Rest
             ELSE [work EXCEPT !.op = "agents", !.doc = docs["agents"], !.open = FALSE]
  /\ UNCHANGED <<dirs, state, trust, got, approved, texts>> /\ Going

WorkKilled ==
  /\ work # Rest /\ workKills < MaxWorkKills
  /\ workKills' = workKills + 1 /\ work' = Rest
  /\ UNCHANGED <<trust, approved, works>> /\ Given

WorkNext ==
  \/ SessionInit \/ StateRead \/ StateRename
  \/ TrustRead \/ TrustOpen \/ TrustFill
  \/ SyncRead \/ SyncOpen \/ SyncFill \/ WorkKilled
-----------------------------------------------------------------------------
(* No two sessions are given one directory, whatever their names reduce   *)
(* to and whatever suffix an earlier one got.                              *)
SessionsApart == Cardinality(ToSet(got)) = Len(got)

(* A server counts as trusted only while it is approved: the store may     *)
(* forget approvals when a command is killed, never add or resurrect one.  *)
TrustHonest == Trusted \subseteq approved

InOrder(doc) ==
  \/ Lined(doc, StartMark) = {} /\ Lined(doc, EndMark) = {}
  \/ \E s, e \in DOMAIN doc : s < e /\ Lined(doc, StartMark) = {s} /\ Lined(doc, EndMark) = {e}
Outside(doc) ==
  LET s == Lined(doc, StartMark) e == Lined(doc, EndMark)
  IN  IF s = {} \/ e = {} THEN doc
      ELSE SubSeq(doc, 1, Min(s) - 1) \o SubSeq(doc, Max(e) + 1, Len(doc))

(* The user's own lines survive "rule sync" in their order, once each, and *)
(* a document whose markers were in order holds exactly one block (nothing *)
(* was killed).                                                            *)
TextKept ==
  workKills = 0 =>
    \A f \in {"claude", "agents"} :
      InOrder(texts[f]) /\ ~ (work.op = f /\ work.open) =>
        InOrder(docs[f]) /\ Outside(docs[f]) = Outside(texts[f])

(* Two sessions do not share a directory, the trust store holds no approval *)
(* that was not given, and syncing rules keeps the documents' own lines.    *)
WorkSafe == SessionsApart /\ TrustHonest /\ TextKept
=============================================================================
