------------------------------ MODULE Registry ------------------------------
(***************************************************************************)
(* projects.json, the registry of projects                                 *)
(* (hoangsa-memory-core/src/projects.rs): every command registers its      *)
(* directory under a lock; `projects add/remove/rename` and the UI server  *)
(* load, change and save without one.  The service follows the file; data  *)
(* lives under the slug's global root or in a legacy directory of the      *)
(* project.                                                                *)
(*                                                                         *)
(* A slug is made of the last two components of a path, so two paths may   *)
(* share one.  A load, and a save (a rename over the file), are one step   *)
(* each.                                                                   *)
(***************************************************************************)
EXTENDS Naturals, FiniteSets, TLC

CONSTANTS
  Paths, SlugOf,  \* the projects' directories and their slugs
  RegOps,         \* the commands: [do, path or slug]
  RegProcs, NoProc,
  NoSource,       \* the source path of a slot that has only data
  Unlocked,       \* whether a command without the lock may overlap another
  MaxRegOps       \* bound: commands, kills and restarts of the service

ASSUME RegistryAssumption ==
  NoProc \notin RegProcs /\ NoSource \notin Paths /\ Unlocked \in BOOLEAN /\ MaxRegOps \in Nat

Slugs == {SlugOf[p] : p \in Paths}

VARIABLES
  registry,    \* [slug -> [path, name, used]]
  regLock,     \* the holder of projects.json.lock
  regProc,     \* [RegProcs -> what the command is doing]
  active,      \* the UI server's project
  dataDirs,    \* slugs whose global root exists
  local,       \* [Paths -> "absent", "empty" or "populated"]: .hoangsa/memory
  slots,       \* the service's slots: [slug -> source path]
  regEvent,    \* a change of the file the service has yet to look at
  regOps,      \* bound
  asked,       \* ghost: the registry had each command run by itself when it saved
  indexedAt    \* ghost: where the last index by default put the data of a path

regVars == <<registry, regLock, regProc, active, dataDirs, local, slots, regEvent, regOps, asked, indexedAt>>
registryFile == <<registry, regLock, asked>>

AtRest == [pc |-> "idle"]
Writing == {p \in RegProcs : regProc[p].pc # "idle"}

RegInit ==
  /\ registry = <<>> /\ asked = <<>>
  /\ regLock = NoProc
  /\ regProc = [p \in RegProcs |-> AtRest]
  /\ active = "none"
  /\ dataDirs \in {{}, Slugs}
  /\ local \in [Paths -> {"absent", "empty"}]
  /\ slots = [s \in dataDirs |-> NoSource] /\ regEvent = FALSE
  /\ regOps = 0
  /\ indexedAt = [p \in Paths |-> "nowhere"]

(***************************************************************************)
(* What each command makes of a registry                                   *)
(***************************************************************************)

(* A known slug keeps its name and moves to the path.                      *)
Register(reg, p) ==
  LET s == SlugOf[p]
      name == IF s \in DOMAIN reg THEN reg[s].name ELSE "own"
  IN  (s :> [path |-> p, name |-> name, used |-> regOps]) @@ reg

Rename(reg, s) == [reg EXCEPT ![s].name = "given"]
Touch(reg, s) == [reg EXCEPT ![s].used = regOps]
RemoveSlug(reg, s) == [x \in DOMAIN reg \ {s} |-> reg[x]]

Effect(op, reg) ==
  CASE op.do \in {"register", "uiRegister"} -> Register(reg, op.path)
    [] op.do = "add" -> Rename(Register(reg, op.path), SlugOf[op.path])
    [] op.do \in {"remove", "uiRemove"} -> RemoveSlug(reg, op.slug)
    [] op.do = "rename" -> IF op.slug \in DOMAIN reg THEN Rename(reg, op.slug) ELSE reg
    [] op.do = "switch" -> IF op.slug \in DOMAIN reg THEN Touch(reg, op.slug) ELSE reg

(***************************************************************************)
(* A command: only Registry::update, which every invocation calls for its  *)
(* own directory, takes the lock.                                          *)
(***************************************************************************)

Locked(op) == op.do = "register"

Begin(p, op) ==
  /\ regProc[p] = AtRest /\ regOps < MaxRegOps
  /\ Unlocked \/ Writing = {} \/ (Locked(op) /\ \A q \in Writing : Locked(regProc[q].op))
  /\ op.do = "uiRemove" => active # op.slug    \* 409: the active project
  /\ regProc' = [regProc EXCEPT ![p] = [pc |-> IF Locked(op) THEN "lock" ELSE "load", op |-> op]]
  /\ regOps' = regOps + 1
  /\ UNCHANGED <<registryFile, active, dataDirs, local, slots, regEvent, indexedAt>>

(* Variant: the registration of a directory takes no lock *)
NoLock(p) ==
  /\ regProc[p].pc = "lock"
  /\ regProc' = [regProc EXCEPT ![p].pc = "load"]
  /\ UNCHANGED <<registryFile, active, dataDirs, local, slots, regEvent, regOps, indexedAt>>

(* with_file_lock *)
TakeLock(p) ==
  /\ regProc[p].pc = "lock" /\ regLock = NoProc
  /\ regLock' = p
  /\ regProc' = [regProc EXCEPT ![p].pc = "load"]
  /\ UNCHANGED <<registry, asked, active, dataDirs, local, slots, regEvent, regOps, indexedAt>>

(* five seconds without the lock: it goes on anyway *)
LockTimesOut(p) ==
  /\ regProc[p].pc = "lock" /\ regLock # NoProc /\ Unlocked
  /\ regProc' = [regProc EXCEPT ![p].pc = "load"]
  /\ UNCHANGED <<registryFile, active, dataDirs, local, slots, regEvent, regOps, indexedAt>>

Unlock(p) == IF regLock = p THEN NoProc ELSE regLock

(* A slug that is not there: nothing is saved.  The UI's switch takes      *)
(* effect at once; only its timestamp is left to be saved.                 *)
Load(p) ==
  /\ regProc[p].pc = "load"
  /\ LET op == regProc[p].op
         saves == op.do \in {"register", "uiRegister", "add"} \/ op.slug \in DOMAIN registry
     IN  /\ regProc' = [regProc EXCEPT ![p] =
                          IF saves THEN [pc |-> "save", op |-> op, seen |-> registry] ELSE AtRest]
         /\ active' = IF saves /\ op.do = "switch" THEN op.slug
                      ELSE IF op.do = "uiRegister" THEN SlugOf[op.path] ELSE active
  /\ UNCHANGED <<registryFile, dataDirs, local, slots, regEvent, regOps, indexedAt>>

Save(p) ==
  /\ regProc[p].pc = "save"
  /\ registry' = Effect(regProc[p].op, regProc[p].seen)
  /\ asked' = Effect(regProc[p].op, asked)
  /\ regLock' = Unlock(p) /\ regEvent' = TRUE
  /\ regProc' = [regProc EXCEPT ![p] = AtRest]
  /\ UNCHANGED <<active, dataDirs, local, slots, regOps, indexedAt>>

KillCommand(p) ==
  /\ regProc[p] # AtRest /\ regOps < MaxRegOps
  /\ regOps' = regOps + 1
  /\ regProc' = [regProc EXCEPT ![p] = AtRest] /\ regLock' = Unlock(p)
  /\ UNCHANGED <<registry, asked, active, dataDirs, local, slots, regEvent, indexedAt>>

(***************************************************************************)
(* The service                                                             *)
(***************************************************************************)

SlotsOf(reg, data) == [s \in DOMAIN reg \cup data |-> IF s \in DOMAIN reg THEN reg[s].path ELSE NoSource]

(* populate_from_registry: the slugs of the registry, then the orphans *)
RestartService ==
  /\ regOps < MaxRegOps
  /\ regOps' = regOps + 1
  /\ slots' = SlotsOf(registry, dataDirs)
  /\ regEvent' = FALSE
  /\ UNCHANGED <<registryFile, regProc, active, dataDirs, local, indexedAt>>

(* slots whose project has left the registry; those of orphans stay *)
Dropped(reg) == {s \in DOMAIN slots : s \notin DOMAIN reg /\ slots[s] # NoSource}

(* The first registration of a slug wins: a slot keeps its source path.    *)
Reconcile ==
  /\ regEvent
  /\ regEvent' = FALSE
  /\ slots' = [s \in (DOMAIN slots \ Dropped(registry)) \cup DOMAIN registry |->
                 IF s \in DOMAIN slots THEN slots[s] ELSE registry[s].path]
  /\ UNCHANGED <<registryFile, regProc, active, dataDirs, local, regOps, indexedAt>>

(***************************************************************************)
(* Where a project's data is                                               *)
(***************************************************************************)

(* without --root and HOANGSA_MEMORY_ROOT *)
ResolveRoot(p) == IF local[p] = "populated" THEN "local" ELSE "global"

IndexByDefault(p) ==
  /\ regOps < MaxRegOps
  /\ regOps' = regOps + 1
  /\ dataDirs' = IF ResolveRoot(p) = "global" THEN dataDirs \cup {SlugOf[p]} ELSE dataDirs
  /\ indexedAt' = [indexedAt EXCEPT ![p] = ResolveRoot(p)]
  /\ UNCHANGED <<registryFile, regProc, active, local, slots, regEvent>>

(* index --root ./.hoangsa/memory *)
IndexLocally(p) ==
  /\ regOps < MaxRegOps /\ local[p] # "populated"
  /\ regOps' = regOps + 1
  /\ local' = [local EXCEPT ![p] = "populated"]
  /\ indexedAt' = [indexedAt EXCEPT ![p] = "local"]
  /\ UNCHANGED <<registryFile, regProc, active, dataDirs, slots, regEvent>>

RegStep(p) == TakeLock(p) \/ LockTimesOut(p) \/ Load(p) \/ Save(p)

RegNext ==
  \/ \E p \in RegProcs : RegStep(p) \/ KillCommand(p) \/ \E op \in RegOps : Begin(p, op)
  \/ RestartService \/ Reconcile
  \/ \E p \in Paths : IndexByDefault(p) \/ IndexLocally(p)

RegSpec == RegInit /\ [][RegNext]_regVars

(***************************************************************************)
(* Properties                                                              *)
(***************************************************************************)

(* No registration, removal or renaming is undone by another command: once *)
(* they have all saved, the file is what they would have made of it one    *)
(* after the other.                                                        *)
NothingLost == Writing = {} => registry = asked

(* The service serves the projects of the registry and the data that has   *)
(* no entry, and nothing else, once it has looked at the last change.      *)
SlotsFollow ==
  ~regEvent => /\ DOMAIN registry \subseteq DOMAIN slots
               /\ \A s \in DOMAIN slots : slots[s] # NoSource => s \in DOMAIN registry

(* What a command indexed for a project is where the next one looks.       *)
RootKept == \A p \in Paths : indexedAt[p] # "nowhere" => ResolveRoot(p) = indexedAt[p]

(* Commands and service agree on which projects there are and where their   *)
(* data is, with the edits under way taken into account.                    *)
RegistryHonest == NothingLost /\ SlotsFollow /\ RootKept
=============================================================================
