----------------------------- MODULE AtomicWrite -----------------------------
(***************************************************************************)
(* How the files this system rewrites are published: write_atomic of       *)
(* hoangsa-memory-store/src/markdown.rs, atomic_write of                   *)
(* hoangsa-memory-core/src/io.rs and atomic_write_string of                *)
(* hoangsa-cli/src/helpers.rs, which are one routine.  The body goes into  *)
(* a sibling file that carries the process id, which is then renamed over  *)
(* the target.  The other modules take a publish as one step: this one     *)
(* says when it is.                                                        *)
(***************************************************************************)
EXTENDS Integers, Sequences, FiniteSets

CONSTANTS
  Publishers,   \* tasks that rewrite the target
  ProcessOf,    \* [Publishers -> process]
  BodyOf,       \* [Publishers -> Seq(block)]: what each of them publishes
  Together      \* whether two tasks of one process may be at it at once

Blocks == UNION {{BodyOf[t][k] : k \in DOMAIN BodyOf[t]} : t \in Publishers}

(* No body is empty, and no process is called as the file it rewrites.      *)
ASSUME WriteAssumption ==
  \A t \in Publishers : ProcessOf[t] # "target" /\ BodyOf[t] \in Seq(Blocks) /\ Len(BodyOf[t]) > 0

VARIABLES
  names,     \* the directory: [temp name or "target" -> inode], absent names left out
  content,    \* [inode -> the blocks written into it]
  publisher, \* [Publishers -> [pc, inode, done]]
  published  \* whose body the last rename of a whole file made the target

writeVars == <<names, content, publisher, published>>

Processes == {ProcessOf[t] : t \in Publishers}
Resting == [pc |-> "idle"]

(* the target holds the body of the first of them at the start *)
WriteInit ==
  /\ names = [n \in {"target"} |-> 1]
  /\ content \in {<< BodyOf[t] >> : t \in Publishers}
  /\ publisher = [t \in Publishers |-> Resting]
  /\ published = "nobody"

TempName(t) == ProcessOf[t]

(* fs::write opens the temporary file, new or truncated ... *)
OpenTemp(t) ==
  /\ publisher[t].pc = "idle"
  /\ Together \/ \A u \in Publishers \ {t} : ProcessOf[u] = ProcessOf[t] => publisher[u].pc = "idle"
  /\ LET n == TempName(t)
         i == IF n \in DOMAIN names THEN names[n] ELSE Len(content) + 1
     IN  /\ i <= Cardinality(Publishers) + 2   \* bound: files ever created
         /\ content' = IF i > Len(content) THEN Append(content, <<>>) ELSE [content EXCEPT ![i] = <<>>]
         /\ names' = [m \in DOMAIN names \cup {n} |-> IF m = n THEN i ELSE names[m]]
         /\ publisher' = [publisher EXCEPT ![t] = [pc |-> "write", inode |-> i, done |-> 0]]
  /\ UNCHANGED published

(* ... and writes at the position of its own handle: a truncation by       *)
(* another handle leaves a hole before it, and a rename takes the file away *)
(* under the handle, which goes on writing into it.                        *)
WriteBlock(t) ==
  /\ publisher[t].pc = "write"
  /\ LET p == publisher[t]
         old == content[p.inode]
         at == p.done + 1
         length == IF Len(old) < at THEN at ELSE Len(old)
     IN  /\ content' = [content EXCEPT ![p.inode] =
              [k \in 1..length |-> IF k = at THEN BodyOf[t][at] ELSE IF k <= Len(old) THEN old[k] ELSE "hole"]]
         /\ publisher' = [publisher EXCEPT ![t].done = at,
                                           ![t].pc = IF at = Len(BodyOf[t]) THEN "rename" ELSE "write"]
  /\ UNCHANGED <<names, published>>

(* the rename, which fails when another task has taken the name away *)
RenameTemp(t) ==
  /\ publisher[t].pc = "rename"
  /\ LET n == TempName(t)
     IN  IF n \in DOMAIN names
         THEN /\ names' = [m \in DOMAIN names \ {n} |-> IF m = "target" THEN names[n] ELSE names[m]]
              /\ published' = t
         ELSE UNCHANGED <<names, published>>
  /\ publisher' = [publisher EXCEPT ![t] = Resting]
  /\ UNCHANGED content

(* a process dies with all its tasks; its temporary file stays *)
KillProcess(p) ==
  /\ \E t \in Publishers : ProcessOf[t] = p /\ publisher[t] # Resting
  /\ publisher' = [t \in Publishers |-> IF ProcessOf[t] = p THEN Resting ELSE publisher[t]]
  /\ UNCHANGED <<names, content, published>>

WriteNext ==
  \/ \E t \in Publishers : OpenTemp(t) \/ WriteBlock(t) \/ RenameTemp(t)
  \/ \E p \in Processes : KillProcess(p)

WriteSpec == WriteInit /\ [][WriteNext]_writeVars
-----------------------------------------------------------------------------
(* A reader of the target always finds one body, whole, and that of the    *)
(* last task whose rename went through: with one task of a process at a    *)
(* time, whatever other processes do and wherever they die ("two writers   *)
(* cannot interleave inside it").                                          *)
TargetWhole ==
  LET now == content[names["target"]]
  IN  /\ now \in {BodyOf[t] : t \in Publishers}
      /\ published # "nobody" => now = BodyOf[published]
==============================================================================
