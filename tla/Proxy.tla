------------------------------- MODULE Proxy -------------------------------
(***************************************************************************)
(* hsp's run of one command (proxy exec.rs): the child with its two pipes, *)
(* a thread reading each of them into a capped buffer, the wait, the drain *)
(* of at most half a second after it, and the signal that is passed on to  *)
(* the child.  A process the child leaves behind may keep the pipes open.  *)
(* A pipe holds chunks, each tagged with the process that wrote it.        *)
(*                                                                         *)
(* What hsp makes of a captured command: which handler it runs (scripts    *)
(* before built-ins, by tier, subcommand and priority), what each built-in *)
(* handler keeps of the lines, the report that announces what is missing,  *)
(* and the hook that puts hsp in front of a command.  A line is one of     *)
(*   [kind |-> "text" | "noise" | "prose" | "blank", id, width]            *)
(*   [kind |-> "times", id, width, n]    a line standing for n equal ones  *)
(*   [kind |-> "gap", id |-> 0, width, n] n lines were left out here       *)
(***************************************************************************)
EXTENDS Integers, Sequences, SequencesExt

-----------------------------------------------------------------------------
(* The run of a command                                                    *)

CONSTANTS
  PipeRoom,   \* chunks a pipe holds
  OutputCap,  \* chunks a buffer keeps (OUTPUT_CAP_BYTES, or max_output_mb)
  MaxChunks,  \* bound: chunks written, per stream
  Statuses,   \* what a command may exit with
  SpawnFails  \* may the command be missing

ASSUME CaptureAssumption == OutputCap \in Nat

Streams == {"stdout", "stderr"}

VARIABLES
  hsp,        \* where the main thread is
  child,      \* "none", "running", "zombie", "reaped"
  status,     \* what the child exited with
  held,       \* streams a process of the child's keeps open
  left,       \* has the child left a process behind
  pipe, hand, \* chunks in the pipe, chunk a reader took and has not stored
  reader,     \* per stream: "none", "reading", "done"
  kept,       \* per stream: StreamState [buf, total, truncated]
  pidStored,  \* ACTIVE_CHILD_PID is the child's
  answer,     \* per stream what is reported
  exitCode,   \* of hsp
  written,    \* ghost: per stream every chunk written, in order
  signalled   \* ghost: "no", "child", "nobody", "stranger": whom hsp's death reached

captureVars == <<hsp, child, status, held, left, pipe, hand, reader, kept, pidStored,
                 answer, exitCode, written, signalled>>

Fresh == [buf |-> <<>>, total |-> 0, truncated |-> FALSE]
NoChunk == <<>>
Firsts(s, n) == SubSeq(s, 1, IF n < Len(s) THEN n ELSE Len(s))

CaptureInit ==
  /\ hsp = "spawn" /\ child = "none" /\ status = 0 /\ held = {} /\ left = FALSE
  /\ pipe = [s \in Streams |-> <<>>] /\ hand = [s \in Streams |-> NoChunk]
  /\ reader = [s \in Streams |-> "none"] /\ kept = [s \in Streams |-> Fresh]
  /\ pidStored = FALSE /\ answer = [s \in Streams |-> Fresh] /\ exitCode = 0
  /\ written = [s \in Streams |-> <<>>] /\ signalled = "no"
-----------------------------------------------------------------------------
(* The main thread.                                                         *)
At(l, next) == hsp = l /\ hsp' = next
KeepStreams == UNCHANGED <<pipe, hand, reader, kept, written>>
KeepChild == UNCHANGED <<child, status, held, left>>
KeepEnd == UNCHANGED <<answer, exitCode, signalled>>

Spawn ==
  /\ At("spawn", "store") /\ child' = "running"
  /\ UNCHANGED <<status, held, left, pidStored>> /\ KeepStreams /\ KeepEnd

SpawnError ==
  /\ SpawnFails /\ At("spawn", "done") /\ exitCode' \in {126, 127}
  /\ UNCHANGED <<pidStored, answer, signalled>> /\ KeepChild /\ KeepStreams

StorePid ==
  /\ At("store", "readers") /\ pidStored' = TRUE /\ KeepChild /\ KeepStreams /\ KeepEnd

StartReaders ==
  /\ At("readers", "wait") /\ reader' = [s \in Streams |-> "reading"]
  /\ UNCHANGED <<pidStored, pipe, hand, kept, written>> /\ KeepChild /\ KeepEnd

Wait ==
  /\ child = "zombie" /\ At("wait", "clear") /\ child' = "reaped"
  /\ UNCHANGED <<status, held, left, pidStored>> /\ KeepStreams /\ KeepEnd

ClearPid ==
  /\ At("clear", "joinOut") /\ pidStored' = FALSE /\ KeepChild /\ KeepStreams /\ KeepEnd

\* Half a second is enough to store what the child wrote before it ended.
OfChild(c) == c # NoChunk /\ c[1] = "child"
DrainInTime == \A s \in Streams : ~ OfChild(hand[s]) /\ \A i \in DOMAIN pipe[s] : ~ OfChild(pipe[s][i])

\* join_with_timeout: the thread has ended, or the time is over.  A first
\* join that times out skips the second.
(* Variant: the reader is joined without a deadline. *)
JoinForever ==
  /\ hsp = "joinOut" /\ reader["stdout"] = "done" /\ hsp' = "joinErr"
  /\ UNCHANGED pidStored /\ KeepChild /\ KeepStreams /\ KeepEnd

JoinStdout ==
  /\ hsp = "joinOut"
  /\ \/ reader["stdout"] = "done" /\ hsp' = "joinErr"
     \/ reader["stdout"] # "done" /\ DrainInTime /\ hsp' = "take"
  /\ UNCHANGED pidStored /\ KeepChild /\ KeepStreams /\ KeepEnd

JoinStderr ==
  /\ At("joinErr", "take")
  /\ reader["stderr"] = "done" \/ DrainInTime
  /\ UNCHANGED pidStored /\ KeepChild /\ KeepStreams /\ KeepEnd

TakeState ==
  /\ At("take", "takeErr") /\ answer' = [answer EXCEPT !["stdout"] = kept["stdout"]]
  /\ UNCHANGED <<pidStored, exitCode, signalled>> /\ KeepChild /\ KeepStreams

TakeStderr ==
  /\ At("takeErr", "done") /\ answer' = [answer EXCEPT !["stderr"] = kept["stderr"]]
  /\ exitCode' = status
  /\ UNCHANGED <<pidStored, signalled>> /\ KeepChild /\ KeepStreams
-----------------------------------------------------------------------------
(* The reader threads.                                                      *)
Alive == hsp \notin {"done", "dead"}

ReadChunk(s) ==
  /\ Alive /\ reader[s] = "reading" /\ hand[s] = NoChunk /\ pipe[s] # <<>>
  /\ hand' = [hand EXCEPT ![s] = Head(pipe[s])] /\ pipe' = [pipe EXCEPT ![s] = Tail(@)]
  /\ UNCHANGED <<hsp, pidStored, reader, kept, written>> /\ KeepChild /\ KeepEnd

(* Variant: a reader whose buffer is full ends. *)
StoreOrEnd(s) ==
  /\ Alive /\ hand[s] # NoChunk
  /\ LET full == Len(kept[s].buf) = OutputCap
     IN  /\ kept' = [kept EXCEPT ![s] = [buf |-> IF full THEN @.buf ELSE Append(@.buf, hand[s]),
                                         total |-> @.total + 1, truncated |-> @.truncated \/ full]]
         /\ reader' = [reader EXCEPT ![s] = IF full THEN "done" ELSE @]
  /\ hand' = [hand EXCEPT ![s] = NoChunk]
  /\ UNCHANGED <<hsp, pidStored, pipe, written>> /\ KeepChild /\ KeepEnd

\* What is beyond the cap is counted and dropped, and the reading goes on.
StoreChunk(s) ==
  /\ Alive /\ hand[s] # NoChunk
  /\ LET full == Len(kept[s].buf) = OutputCap
     IN  kept' = [kept EXCEPT ![s] = [buf |-> IF full THEN @.buf ELSE Append(@.buf, hand[s]),
                                      total |-> @.total + 1, truncated |-> @.truncated \/ full]]
  /\ hand' = [hand EXCEPT ![s] = NoChunk]
  /\ UNCHANGED <<hsp, pidStored, pipe, reader, written>> /\ KeepChild /\ KeepEnd

ReadEof(s) ==
  /\ Alive /\ reader[s] = "reading" /\ hand[s] = NoChunk /\ pipe[s] = <<>>
  /\ child \in {"zombie", "reaped"} /\ s \notin held
  /\ reader' = [reader EXCEPT ![s] = "done"]
  /\ UNCHANGED <<hsp, pidStored, pipe, hand, kept, written>> /\ KeepChild /\ KeepEnd
-----------------------------------------------------------------------------
(* The command and the process it leaves behind.                            *)
WriteBy(who, s) ==
  /\ Len(pipe[s]) < PipeRoom /\ Len(written[s]) < MaxChunks[s]
  /\ LET c == <<who, Len(written[s]) + 1>>
     IN  pipe' = [pipe EXCEPT ![s] = Append(@, c)] /\ written' = [written EXCEPT ![s] = Append(@, c)]
  /\ UNCHANGED <<hsp, pidStored, hand, reader, kept>> /\ KeepChild /\ KeepEnd

ChildWrites(s) == Alive /\ child = "running" /\ WriteBy("child", s)
LeftWrites(s) == Alive /\ s \in held /\ WriteBy("left", s)

LeaveProcess ==
  /\ Alive /\ child = "running" /\ ~ left /\ left' = TRUE
  /\ held' \in (SUBSET Streams) \ {{}}
  /\ UNCHANGED <<hsp, pidStored, child, status>> /\ KeepStreams /\ KeepEnd

LeftEnds ==
  /\ Alive /\ held # {} /\ held' = {}
  /\ UNCHANGED <<hsp, pidStored, child, status, left>> /\ KeepStreams /\ KeepEnd

ChildExits ==
  /\ Alive /\ child = "running" /\ child' = "zombie" /\ status' \in Statuses
  /\ UNCHANGED <<hsp, pidStored, held, left>> /\ KeepStreams /\ KeepEnd

\* forward_signal: the child whose pid is stored gets it too, then hsp dies of it.
Signal ==
  /\ Alive /\ hsp # "spawn" /\ hsp' = "dead"
  /\ signalled' = IF ~ pidStored THEN "nobody" ELSE IF child = "reaped" THEN "stranger" ELSE "child"
  /\ UNCHANGED <<pidStored, answer, exitCode>> /\ KeepChild /\ KeepStreams

CaptureNext ==
  \/ Spawn \/ SpawnError \/ StorePid \/ StartReaders \/ Wait \/ ClearPid
  \/ JoinStdout \/ JoinStderr \/ TakeState \/ TakeStderr
  \/ \E s \in Streams : ReadChunk(s) \/ StoreChunk(s) \/ ReadEof(s) \/ ChildWrites(s) \/ LeftWrites(s)
  \/ LeaveProcess \/ LeftEnds \/ ChildExits \/ Signal
-----------------------------------------------------------------------------
LastOfChild(s) ==
  LET at == {i \in DOMAIN written[s] : written[s][i][1] = "child"}
  IN  IF at = {} THEN 0 ELSE CHOOSE i \in at : \A j \in at : j <= i

(* What is reported of a stream is the head of what was written to it, at   *)
(* least to the child's last write or to the cap, the flag and the count    *)
(* tell what was dropped, and the exit code is the child's.                 *)
NothingMissed ==
  hsp = "done" /\ child = "reaped" =>
    /\ exitCode = status
    /\ \A s \in Streams : \E n \in LastOfChild(s)..Len(written[s]) :
         answer[s] = [buf |-> Firsts(written[s], IF n < OutputCap THEN n ELSE OutputCap),
                      total |-> n, truncated |-> n > OutputCap]

(* A child that waits for room in a pipe has a reader that will make it.    *)
NeverStuck ==
  \A s \in Streams : hsp = "wait" /\ child = "running" /\ Len(pipe[s]) = PipeRoom => reader[s] = "reading"

(* A signal that ends hsp reaches the running child, unless it falls        *)
(* between the spawn and the store of its pid.                              *)
NoOrphan == signalled = "nobody" /\ child = "running" => ~ pidStored /\ reader["stdout"] = "none"

(* The run loses nothing the child wrote, does not block it, and does not   *)
(* outlive or orphan it.                                                    *)
CaptureHonest == NothingMissed /\ NeverStuck /\ NoOrphan

(* The main thread and the readers go on when they can.                     *)
CaptureFairness ==
  /\ WF_captureVars(StorePid \/ StartReaders \/ Wait \/ ClearPid \/ JoinStdout \/ JoinStderr
                       \/ TakeState \/ TakeStderr)
  /\ \A s \in Streams : WF_captureVars(ReadChunk(s)) /\ WF_captureVars(StoreChunk(s)) /\ WF_captureVars(ReadEof(s))
(* Once the command has ended hsp ends too, however long a process that it  *)
(* left behind keeps its pipes open.                                        *)
CaptureEnds == child = "zombie" ~> hsp \in {"done", "dead"}

-----------------------------------------------------------------------------
(* What is made of its output                                              *)

CONSTANTS
  Keep,       \* per handler its thresholds [limit, first, last]
  Builtins,   \* the registered built-ins [cmd, subcmd, priority, filter, tier], in order
  KnownCommands,      \* known_commands
  GapWidth, TimesWidth,  \* bytes of a gap line, of the count put after a line
  Slack       \* bytes a handler may add before its output is abandoned

NoSub == ""
Text(ls) == LET to[i \in 0..Len(ls)] == IF i = 0 THEN 0 ELSE to[i - 1] + ls[i].width + 1 IN to[Len(ls)]
-----------------------------------------------------------------------------
(* filters.rs                                                               *)
Kept(ls, n) == SubSeq(ls, 1, IF n < Len(ls) THEN n ELSE Len(ls))
LastOnes(ls, n) == IF n >= Len(ls) THEN ls ELSE SubSeq(ls, Len(ls) - n + 1, Len(ls))

\* The elements of s that V holds, in order.
Sift(s, V) ==
  LET taken[n \in 0 .. Len(s)] ==
        IF n = 0 THEN <<>> ELSE IF s[n] \in V THEN Append(taken[n - 1], s[n]) ELSE taken[n - 1]
  IN  taken[Len(s)]
GrepOut(ls, kinds) == Sift(ls, {l \in Range(ls) : l.kind \notin kinds})
Gap(n) == [kind |-> "gap", id |-> 0, width |-> GapWidth, n |-> n]

Sandwich(ls, first, last) ==
  IF Len(ls) <= first + last THEN ls
  ELSE Kept(ls, first) \o <<Gap(Len(ls) - first - last)>> \o LastOnes(ls, last)

\* The runs of equal consecutive lines, as [line, n].
Tallied(runs, l) ==
  IF runs # <<>> /\ Last(runs).line = l THEN [runs EXCEPT ![Len(runs)].n = @ + 1]
  ELSE Append(runs, [line |-> l, n |-> 1])
Runs(ls) ==
  LET runs[n \in 0 .. Len(ls)] == IF n = 0 THEN <<>> ELSE Tallied(runs[n - 1], ls[n])
  IN  runs[Len(ls)]
Times(r) == IF r.n = 1 THEN r.line
            ELSE [kind |-> "times", id |-> r.line.id, width |-> r.line.width + TimesWidth, n |-> r.n]
CollapseRepeats(ls) == LET runs == Runs(ls) IN [i \in DOMAIN runs |-> Times(runs[i])]
DropConsecutiveDupes(ls) == LET runs == Runs(ls) IN [i \in DOMAIN runs |-> runs[i].line]
-----------------------------------------------------------------------------
(* The handlers.  A command's output c is [out, err, strict, scoped, json]: *)
(* scoped when its arguments hold one of the handler's scope flags.  A      *)
(* handler answers [out, err], Pass where it has nothing to say.            *)
Pass == [kind |-> "pass"]
Passthrough == [out |-> Pass, err |-> Pass]
Says(ls) == [kind |-> "lines", lines |-> ls]
Out(ls) == [out |-> Says(ls), err |-> Pass]
Both(c, noise) == [out |-> Says(GrepOut(c.out, noise)), err |-> Says(GrepOut(c.err, noise))]

Log(c) ==
  IF c.scoped THEN Passthrough
  ELSE Out(GrepOut(IF c.strict THEN c.out ELSE Kept(c.out, Keep.log.limit), {"blank"}))

Diff(c) ==
  IF c.scoped \/ c.strict THEN Passthrough ELSE Out(Sandwich(c.out, Keep.diff.first, Keep.diff.last))

Status(c) == IF c.scoped THEN Passthrough ELSE Out(GrepOut(c.out, {"prose"}))

Blame(c) == IF c.scoped \/ c.strict THEN Passthrough ELSE Out(Kept(c.out, Keep.blame.limit))

\* The header stays, the body is cut in its middle.
Show(c) ==
  IF c.scoped \/ c.strict THEN Passthrough
  ELSE IF Len(c.out) <= Keep.show.limit THEN Out(c.out)
  ELSE Out(Kept(c.out, Keep.show.head)
           \o Sandwich(SubSeq(c.out, Keep.show.head + 1, Len(c.out)), Keep.show.first, Keep.show.last))

Compile(c) == IF c.scoped \/ c.strict THEN Passthrough ELSE Both(c, {"noise", "blank"})
Packages(c) == IF c.scoped \/ c.strict THEN Passthrough ELSE Both(c, {"noise", "blank"})

\* ls has no scope flags.
Ls(c) ==
  IF c.strict \/ Len(c.out) <= Keep.ls.limit THEN Passthrough
  ELSE Out(Sandwich(c.out, Keep.ls.first, Keep.ls.last))

Cat(c) ==
  IF c.scoped \/ c.strict \/ Len(c.out) <= Keep.cat.limit THEN Passthrough
  ELSE Out(Append(Kept(c.out, Keep.cat.limit), Gap(Len(c.out) - Keep.cat.limit)))

Find(c) ==
  IF c.scoped \/ c.strict \/ Len(c.out) <= Keep.find.limit THEN Passthrough
  ELSE Out(Sandwich(c.out, Keep.find.first, Keep.find.last))

Grep(c) ==
  LET once == DropConsecutiveDupes(c.out) runs == CollapseRepeats(c.out)
  IN  IF c.scoped THEN Passthrough
      ELSE IF c.strict THEN IF Len(once) = Len(c.out) THEN Passthrough ELSE Out(once)
      ELSE IF Len(runs) > Keep.grep.limit THEN Out(Sandwich(runs, Keep.grep.first, Keep.grep.last))
      ELSE IF Len(runs) = Len(c.out) THEN Passthrough
      ELSE Out(runs)

\* A JSON body is printed without its white space, when that is shorter.
Curl(c) ==
  IF c.scoped \/ ~ c.json \/ GrepOut(c.out, {"blank"}) = c.out THEN Passthrough
  ELSE Out(GrepOut(c.out, {"blank"}))

Run(filter, c) ==
  CASE filter = "log" -> Log(c)       [] filter = "diff" -> Diff(c)
    [] filter = "status" -> Status(c) [] filter = "blame" -> Blame(c)
    [] filter = "show" -> Show(c)     [] filter = "compile" -> Compile(c)
    [] filter = "packages" -> Packages(c) [] filter = "ls" -> Ls(c)
    [] filter = "cat" -> Cat(c)       [] filter = "grep" -> Grep(c)
    [] filter = "find" -> Find(c)     [] filter = "curl" -> Curl(c)
    [] filter = "pass" -> Passthrough
-----------------------------------------------------------------------------
(* Which handler runs.                                                      *)
Matches(h, cmd, sub) == h.cmd = cmd /\ h.subcmd \in {NoSub, sub}
Specific(h) == IF h.subcmd = NoSub THEN 0 ELSE 1
TierRank(h) == CASE h.tier = "project" -> 2 [] h.tier = "global" -> 1 [] h.tier = "builtin" -> 0

Better(h, g) ==
  \/ TierRank(h) > TierRank(g)
  \/ TierRank(h) = TierRank(g) /\ Specific(h) > Specific(g)
  \/ TierRank(h) = TierRank(g) /\ Specific(h) = Specific(g) /\ h.priority > g.priority

\* The best of the matching handlers, the first registered of equals: <<>> or <<h>>.
Challenge(best, h, cmd, sub) ==
  IF Matches(h, cmd, sub) /\ (best = <<>> \/ Better(h, best[1])) THEN <<h>> ELSE best
Pick(hs, cmd, sub) ==
  LET best[n \in 0 .. Len(hs)] == IF n = 0 THEN <<>> ELSE Challenge(best[n - 1], hs[n], cmd, sub)
  IN  best[Len(hs)]
PickBuiltin(cmd, sub) == Pick(Builtins, cmd, sub)

\* A script registers handlers until it ends or fails; one without a command
\* or a filter is not registered.
Stamped(spec, tier) ==
  [cmd |-> spec.cmd, subcmd |-> spec.subcmd, priority |-> spec.priority, filter |-> spec.filter,
   fails |-> spec.fails, answer |-> spec.answer, exit |-> spec.exit, tier |-> tier]
LoadSingle(script, hs) ==
  LET offered == [i \in DOMAIN script.specs |-> Stamped(script.specs[i], script.tier)]
  IN  hs \o Sift(offered, {h \in Range(offered) : h.cmd # "" /\ h.filter # "none"})
\* The project's scripts by name, then the global ones.
LoadDirs(project, global) ==
  LET scripts == project \o global
      loaded[n \in 0 .. Len(scripts)] == IF n = 0 THEN <<>> ELSE LoadSingle(scripts[n], loaded[n - 1])
  IN  loaded[Len(scripts)]

\* A layer is "absent", "torn" or a record; what it sets overrides.
Overlay(prefs, layer) ==
  IF layer.file # "read" THEN prefs
  ELSE [strict |-> IF layer.strict = "unset" THEN prefs.strict ELSE layer.strict = "yes",
        cap |-> IF layer.cap \in 1..1024 THEN layer.cap ELSE prefs.cap,
        disabled |-> IF layer.disabled = {} THEN prefs.disabled ELSE layer.disabled]
LoadPrefs(global, project) ==
  Overlay(Overlay([strict |-> FALSE, cap |-> 100, disabled |-> {}], global), project)

\* An answer longer than the output by more than the slack is abandoned.
Abandons(r, c) == r.out # Pass /\ Text(r.out.lines) > Text(c.out) + Slack
InvokeBuiltin(b, c) ==
  LET r == Run(b.filter, c)
  IN  IF Abandons(r, c) THEN [by |-> <<>>, answer |-> Passthrough, abandoned |-> TRUE]
      ELSE [by |-> <<b>>, answer |-> r, abandoned |-> FALSE]

\* invoke_with_fallback: a script that fails falls back to the built-in.
InvokeWithFallback(hs, disabled, cmd, sub, c) ==
  LET script == Pick(hs, cmd, sub) builtin == PickBuiltin(cmd, sub)
  IN  IF script # <<>> /\ ~ script[1].fails
      THEN [by |-> script, answer |-> script[1].answer, abandoned |-> FALSE]
      ELSE IF cmd \in disabled \/ builtin = <<>>
      THEN [by |-> <<>>, answer |-> Passthrough, abandoned |-> FALSE]
      ELSE InvokeBuiltin(builtin[1], c)
-----------------------------------------------------------------------------
(* The report.  A stream the handler answers gets a newline at its end, one *)
(* it passes keeps its own ending.                                          *)
Bytes(said, ls, newline) ==
  IF said = Pass THEN Text(ls) - (IF newline \/ ls = <<>> THEN 0 ELSE 1) ELSE Text(said.lines)
Before(c) == Bytes(Pass, c.out, c.newline) + Bytes(Pass, c.err, c.newline)
After(r, c) == Bytes(r.out, c.out, c.newline) + Bytes(r.err, c.err, c.newline)
WasTrimmed(r, c) == After(r, c) < Before(c)

RenderLines(inv, c, stripped, capped) ==
  LET trimmed == WasTrimmed(inv.answer, c)
  IN  (IF trimmed \/ stripped THEN {"hsp", "hint"} ELSE {})
      \cup (IF capped THEN {"hard_cap"} ELSE {})
      \cup (IF inv.abandoned THEN {"filter_abandoned"} ELSE {})
      \cup (IF c.exit # 0 /\ trimmed THEN {"child_exit"} ELSE {})

\* proxy_run, raw or through the handlers.
Shown(said, ls) == IF said = Pass THEN ls ELSE said.lines
Present(inv, c) ==
  [out |-> Shown(inv.answer.out, c.out), err |-> Shown(inv.answer.err, c.err),
   exit |-> IF inv.by # <<>> /\ "exit" \in DOMAIN inv.by[1] THEN inv.by[1].exit ELSE c.exit,
   report |-> RenderLines(inv, c, FALSE, FALSE)]
ProxyRun(hs, disabled, cmd, sub, c, raw) ==
  IF raw THEN [out |-> c.out, err |-> c.err, exit |-> c.exit, report |-> {}]
  ELSE Present(InvokeWithFallback(hs, disabled, cmd, sub, c), c)
-----------------------------------------------------------------------------
(* The hook.  A command is a sequence of tokens [kind, word], kind "env",   *)
(* "word", or "op" for a composition operator outside quotes.               *)
HasShellComposition(t) == \E i \in DOMAIN t : t[i].kind = "op"
EnvPrefix(t) ==
  CHOOSE n \in 0 .. Len(t) :
    (\A i \in 1 .. n : t[i].kind = "env") /\ (n = Len(t) \/ t[n + 1].kind # "env")
SplitEnvPrefix(t) == <<SubSeq(t, 1, EnvPrefix(t)), SubSeq(t, EnvPrefix(t) + 1, Len(t))>>
FirstCommandToken(t) == LET s == SplitEnvPrefix(t)[2] IN IF s = <<>> THEN "" ELSE s[1].word
Hsp == [kind |-> "word", word |-> "hsp"]

\* cmd_hook_rewrite: the rewritten command, or the command as it is.
HookRewrite(t) ==
  IF \/ t = <<>> \/ t[1] = Hsp \/ HasShellComposition(t) \/ FirstCommandToken(t) \notin KnownCommands THEN t
  ELSE SplitEnvPrefix(t)[1] \o <<Hsp>> \o SplitEnvPrefix(t)[2]

\* install_for, uninstall_for: the entries of the hook file, each the set of
\* its commands.
IsHspEntry(e) == "hsp" \in e
UninstallFor(es) == Sift(es, {e \in Range(es) : ~ IsHspEntry(e)})
InstallFor(es) == Append(UninstallFor(es), {"hsp"})
-----------------------------------------------------------------------------
VARIABLES
  printed,  \* the command's output so far
  command,  \* a Bash command being typed
  entries   \* PreToolUse entries of the hook file
filterVars == <<printed, command, entries>>

CONSTANTS LineMenu, Tokens, Foreign, Scripts, MaxLinesPrinted, MaxTokens, MaxEntries

Cuts == [limit : Nat, first : Nat, last : Nat]
PrintedLine == [kind : {"text", "noise", "prose", "blank"}, id : Nat, width : Nat]
Filters == {"log", "diff", "status", "blame", "show", "compile", "packages", "ls", "cat", "grep", "find", "curl", "pass"}
Said == {Pass} \cup [kind : {"lines"}, lines : Seq(PrintedLine)]
Specs == [cmd : STRING, subcmd : STRING, priority : Int, filter : STRING, fails : BOOLEAN,
          answer : [out : Said, err : Said], exit : Int]

\* A line with content is not empty; an entry of the user's is not the proxy's.
ASSUME FilterAssumption ==
  /\ LineMenu \subseteq PrintedLine /\ \A l \in LineMenu : l.kind = "text" => l.width > 0
  /\ GapWidth \in Nat /\ TimesWidth \in Nat /\ Slack \in Nat
  /\ Keep \in [log : Cuts, diff : Cuts, blame : Cuts, ls : Cuts, cat : Cuts, find : Cuts, grep : Cuts,
               show : [limit : Nat, first : Nat, last : Nat, head : Nat]]
  /\ Builtins \in Seq([cmd : STRING, subcmd : STRING, priority : Int, filter : Filters, tier : {"builtin"}])
  /\ "hsp" \notin KnownCommands /\ {"hsp"} \notin Foreign
  /\ Scripts \subseteq Seq(Seq(Specs))

FilterInit == printed = [out |-> <<>>, err |-> <<>>] /\ command = <<>> /\ entries = <<>>

\* The command prints a line, on either stream.
PrintLine ==
  /\ Len(printed.out) + Len(printed.err) < MaxLinesPrinted
  /\ \E l \in LineMenu, s \in {"out", "err"} : printed' = [printed EXCEPT ![s] = Append(@, l)]
  /\ UNCHANGED <<command, entries>>

TypeToken ==
  /\ Len(command) < MaxTokens /\ \E t \in Tokens : command' = Append(command, t)
  /\ UNCHANGED <<printed, entries>>

InitHook == /\ Len(entries) < MaxEntries /\ entries' = InstallFor(entries) /\ UNCHANGED <<printed, command>>
UninitHook == /\ entries # <<>> /\ entries' = UninstallFor(entries) /\ UNCHANGED <<printed, command>>
UserAdds ==
  /\ Len(entries) < MaxEntries /\ \E e \in Foreign : entries' = Append(entries, e)
  /\ UNCHANGED <<printed, command>>

FilterNext == PrintLine \/ TypeToken \/ InitHook \/ UninitHook \/ UserAdds
-----------------------------------------------------------------------------
Content(ls) == Sift(ls, {l \in Range(ls) : l.kind = "text"})
TextIds(ls) == {ls[i].id : i \in {j \in DOMAIN ls : ls[j].kind = "text"}}
IdsShown(ls) == {ls[i].id : i \in {j \in DOMAIN ls : ls[j].kind \in {"text", "times"}}}
Cases == {[out |-> printed.out, err |-> printed.err, strict |-> s, scoped |-> sc, json |-> TRUE, exit |-> 1, newline |-> n] :
            s \in BOOLEAN, sc \in BOOLEAN, n \in BOOLEAN}

(* What a built-in shows of an output, r of c.  A line of content that it   *)
(* leaves out is announced, by a gap in the output or by the summary and    *)
(* the hint that tell how to see it all.                                    *)
NothingSilent(c, r) ==
  LET shown == r.out \o r.err
  IN  \/ TextIds(c.out) \cup TextIds(c.err) \subseteq IdsShown(shown)
      \/ {"hsp", "hint"} \subseteq r.report
      \/ \E i \in DOMAIN shown : shown[i].kind = "gap"

(* Where the user bounded the output nothing changes; in strict mode every  *)
(* line of content is shown, in the order it was printed.                   *)
StrictKeeps(b, c, r) ==
  /\ c.scoped /\ b.filter # "ls" => r.out = c.out /\ r.err = c.err
  /\ c.strict => /\ DropConsecutiveDupes(Content(r.out)) = DropConsecutiveDupes(Content(c.out))
                 /\ Content(r.err) = Content(c.err)

(* A gap stands for exactly the lines it replaces.                          *)
GapsCount(b, c, r) ==
  LET gaps == Sift(r.out, {l \in Range(r.out) : l.kind = "gap"})
      whole == IF b.filter = "grep" THEN CollapseRepeats(c.out) ELSE c.out
  IN  gaps # <<>> => Len(gaps) = 1 /\ Len(r.out) - 1 + gaps[1].n = Len(whole)

OutputHonest ==
  \A c \in Cases, b \in Range(Builtins) :
    LET r == Present(InvokeBuiltin(b, c), c)
    IN  NothingSilent(c, r) /\ StrictKeeps(b, c, r) /\ GapsCount(b, c, r)

(* Rewriting a command keeps its variables in front and its words behind,   *)
(* and a rewritten command is left alone.                                   *)
RewriteSound ==
  LET r == HookRewrite(command)
  IN  /\ HookRewrite(r) = r
      /\ r # command => /\ ~ HasShellComposition(command)
                        /\ Sift(r, Range(r) \ {Hsp}) = Sift(command, Range(command) \ {Hsp})
                        /\ FirstCommandToken(r) = "hsp"

UsersOwn(es) == Sift(es, {e \in Range(es) : "hsp" \notin e})

(* Installing twice leaves one entry; the user's own entries stay.          *)
EntriesKept ==
  /\ Len(Sift(entries, {{"hsp"}})) <= 1
  /\ \A op \in {InstallFor(entries), UninstallFor(entries)} : UsersOwn(op) = UsersOwn(entries)

(* A handler goes before another: a script of the project before a global   *)
(* one, the one for the subcommand before one for all, the higher priority. *)
Beats(h, g) ==
  LET Key(x) == <<TierRank(x), Specific(x), x.priority>>
  IN  \E n \in 1 .. 3 : Key(h)[n] > Key(g)[n] /\ \A m \in 1 .. n - 1 : Key(h)[m] = Key(g)[m]

(* The handler that runs is a matching one that no matching one beats: a    *)
(* script of the project before a global one and any script before a        *)
(* built-in; and a script that fails leaves the built-in's answer.          *)
PickSound ==
  \A project \in Scripts, global \in Scripts, fail \in BOOLEAN :
    LET Tag(seq, tier) == [i \in DOMAIN seq |-> [specs |-> seq[i], tier |-> tier]]
        hs == LoadDirs(Tag(project, "project"), Tag(global, "global"))
        runs == [i \in DOMAIN hs |-> [hs[i] EXCEPT !.fails = fail]]
    IN  \A b \in Range(Builtins) :
          LET match == {i \in DOMAIN runs : Matches(runs[i], b.cmd, b.subcmd)}
              by == InvokeWithFallback(runs, {}, b.cmd, b.subcmd, CHOOSE c \in Cases : TRUE).by
          IN  IF match = {} \/ fail
              THEN by # <<>> => by[1] \in Range(Builtins) /\ by[1].cmd = b.cmd
              ELSE \E i \in match : /\ by = <<runs[i]>>
                                    /\ \A j \in match : ~ Beats(runs[j], runs[i])
                                    /\ \A j \in match : j < i => Beats(runs[i], runs[j])

(* The hook rewrites only what it may, the hook file keeps the user's       *)
(* entries, the handler run is the best match, and what it leaves out shows. *)
FilterHonest ==
  /\ RewriteSound /\ EntriesKept
  /\ printed # [out |-> <<>>, err |-> <<>>] => OutputHonest
  /\ printed = [out |-> <<>>, err |-> <<>>] /\ command = <<>> /\ entries = <<>> => PickSound
=============================================================================
