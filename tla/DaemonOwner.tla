---------------------------- MODULE DaemonOwner ----------------------------
(***************************************************************************)
(* Who owns a project: its socket file mcp.sock and its store.             *)
(*                                                                         *)
(*   Singles   hoangsa-memory-mcp as an agent starts it, for one project:  *)
(*             it relays to whoever answers on the socket, or opens the    *)
(*             store, serves, and binds the socket in a task of its own;   *)
(*   Service   the multi-project daemon: binds the socket when it starts   *)
(*             or when the registry changes, and opens the store when the  *)
(*             first connection comes;                                     *)
(*   Clis      hoangsa-memory index: asks whoever answers on the socket,   *)
(*             or opens the store itself.                                  *)
(*                                                                         *)
(* One project is modelled.  The store's lock belongs to a process; within *)
(* the service it is held by the one resource bundle that is open, which   *)
(* the server, requests and the watcher's batch share (an Arc).  A process *)
(* that ends loses its lock, listener and connections, and leaves its      *)
(* socket file unless it removed it.                                       *)
(***************************************************************************)
EXTENDS Naturals, FiniteSets

CONSTANTS
  Singles, Clis,  \* processes; one that has ended may be started anew
  Service,        \* the multi-project daemon
  NoProc,         \* nobody
  MayDie,         \* may processes be killed?
  Scopes          \* instances: how many singles, command lines and services
                  \* are started, how often the registry changes, how many
                  \* servers are opened; is [watch].enabled?

Clients == Singles \cup Clis
Daemons == Singles \cup {Service}
Procs   == Clients \cup {Service}

Scope == [singles : Nat, clis : Nat, services : Nat, changes : Nat, servers : Nat,
          watch : BOOLEAN]

ASSUME OwnerAssumption ==
  /\ Singles \cap Clis = {} /\ Service \notin Clients /\ NoProc \notin Procs
  /\ MayDie \in BOOLEAN
  /\ Scopes \subseteq Scope

VARIABLES
  path,       \* whose listener the file mcp.sock was bound to; NoProc: no file
  listening,  \* daemons with an open listener
  lock,       \* who has the store open
  pc,         \* where each process stands
  sock,       \* where the binding of the socket stands, of each daemon
  conn,       \* the daemon each client is connected to
  registry,   \* is the project in projects.json?
  slot,       \* the service's slot: "none", "orphan", "tracked"
  event,      \* a change of the registry the service has yet to look at
  server,     \* the slot's server, 0 until it is opened
  serverOf,   \* the server a connection to the service works with, or 0
  bundle,     \* the bundle the service has open
  (* Bounds and ghosts. *)
  left,       \* what is left of the instance's scope
  opened,     \* servers opened
  crossed,    \* did the service bind while a single was starting?
  missed      \* a change of the registry made while the service was starting

front   == <<path, listening, sock>>
service == <<slot, event, server, serverOf, bundle, opened>>
ghosts  == <<left, crossed, missed>>
vars == <<path, listening, lock, pc, sock, conn, registry, slot, event, server,
          serverOf, bundle, left, opened, crossed, missed>>

SinglePCs  == {"off", "connect", "open", "wait", "serve", "leaving", "exiting", "relay"}
CliPCs     == {"off", "call", "direct", "work"}
ServicePCs == {"off", "starting", "up"}
SockPCs == {"off", "bind", "probe", "stale", "rebind", "bound", "refused"}
Binding == {"bind", "probe", "stale", "rebind"}

NoBundle == [of |-> 0, cached |-> FALSE, users |-> {}]

Init ==
  /\ left \in Scopes
  /\ path = NoProc /\ listening = {} /\ lock = NoProc
  /\ pc = [p \in Procs |-> "off"]
  /\ sock = [d \in Daemons |-> "off"]
  /\ conn = [c \in Clients |-> NoProc]
  /\ registry \in BOOLEAN
  /\ slot = "none" /\ event = FALSE
  /\ server = 0 /\ serverOf = [c \in Clients |-> 0] /\ bundle = NoBundle
  /\ opened = 0 /\ crossed = FALSE /\ missed = FALSE

(* daemon_alive: connecting to the file succeeds. *)
DaemonAlive == path \in listening

Goto(p, l)     == pc' = [pc EXCEPT ![p] = l]
GotoSock(d, l) == sock' = [sock EXCEPT ![d] = l]
Release(p)     == lock' = IF lock = p THEN NoProc ELSE lock
Spend(what)    == /\ left[what] > 0
                  /\ left' = [left EXCEPT ![what] = @ - 1]

StartingUp(p) == pc[p] \in {"open", "wait"} \/ sock[p] \in Binding

-----------------------------------------------------------------------------
(* bind, and only when the file exists: probe it, remove it if nobody      *)
(* answers, bind again (run_socket, bind_project_socket).                  *)

BoundTo(d) ==
  /\ path' = d
  /\ listening' = listening \cup {d}
  /\ GotoSock(d, "bound")

(* The task that was to serve the socket is over, and its share of the     *)
(* server with it.                                                         *)
Refused(d) ==
  /\ GotoSock(d, "refused")
  /\ UNCHANGED <<path, listening>>
  /\ IF d \in Singles /\ pc[d] # "serve" /\ ~left.watch THEN Release(d) ELSE UNCHANGED lock

Bind(d) ==
  /\ sock[d] = "bind"
  /\ IF path = NoProc
     THEN BoundTo(d)
     ELSE GotoSock(d, "probe") /\ UNCHANGED <<path, listening>>
  /\ UNCHANGED <<lock, pc, conn, registry, service, ghosts>>

Probe(d) ==
  /\ sock[d] = "probe"
  /\ IF DaemonAlive
     THEN Refused(d)
     ELSE GotoSock(d, "stale") /\ UNCHANGED <<path, listening, lock>>
  /\ UNCHANGED <<pc, conn, registry, service, ghosts>>

RemoveStale(d) ==
  /\ sock[d] = "stale"
  /\ path' = NoProc
  /\ GotoSock(d, "rebind")
  /\ UNCHANGED <<listening, lock, pc, conn, registry, service, ghosts>>

Rebind(d) ==
  /\ sock[d] = "rebind"
  /\ IF path = NoProc
     THEN BoundTo(d) /\ UNCHANGED lock
     ELSE Refused(d)
  /\ UNCHANGED <<pc, conn, registry, service, ghosts>>

-----------------------------------------------------------------------------
(* run_single.                                                             *)

(* Variant: the store is tried before the socket. *)
LaunchBlind(p) ==
  /\ pc[p] = "off" /\ serverOf[p] = 0 /\ Spend("singles")
  /\ Goto(p, "open")
  /\ crossed' = (crossed \/ sock[Service] \in Binding)
  /\ UNCHANGED <<front, lock, conn, registry, service, missed>>

Launch(p) ==
  /\ pc[p] = "off" /\ serverOf[p] = 0 /\ Spend("singles")
  /\ Goto(p, IF DaemonAlive THEN "connect" ELSE "open")
  /\ crossed' = (crossed \/ (~DaemonAlive /\ sock[Service] \in Binding))
  /\ UNCHANGED <<front, lock, conn, registry, service, missed>>

(* run_stdio_proxy connects once more. *)
Connect(p) ==
  /\ pc[p] = "connect"
  /\ IF DaemonAlive
     THEN Goto(p, "relay") /\ conn' = [conn EXCEPT ![p] = path]
     ELSE Goto(p, "off") /\ UNCHANGED conn
  /\ UNCHANGED <<front, lock, registry, service, ghosts>>

(* Variant: a store that is locked is no reason not to serve. *)
OpenAnyway(p) ==
  /\ pc[p] = "open"
  /\ lock' = p
  /\ Goto(p, "serve")
  /\ GotoSock(p, "bind")
  /\ UNCHANGED <<path, listening, conn, registry, service, ghosts>>

OpenStore(p) ==
  /\ pc[p] = "open"
  /\ IF lock = NoProc
     THEN lock' = p /\ Goto(p, "serve") /\ GotoSock(p, "bind")
     ELSE Goto(p, "wait") /\ UNCHANGED <<lock, sock>>
  /\ UNCHANGED <<path, listening, conn, registry, service, ghosts>>

(* wait_for_daemon, which does not try the store again. *)
WaitForDaemon(p) ==
  /\ pc[p] = "wait"
  /\ \/ DaemonAlive /\ Goto(p, "connect")
     \/ Goto(p, "off")
  /\ UNCHANGED <<front, lock, conn, registry, service, ghosts>>

(* run_stdio has seen the end of its input and drops its server. *)
Eof(p) ==
  /\ pc[p] = "serve"
  /\ Goto(p, "leaving")
  /\ IF sock[p] = "refused" /\ ~left.watch THEN Release(p) ELSE UNCHANGED lock
  /\ UNCHANGED <<front, conn, registry, service, ghosts>>

RemoveSocket(p) ==
  /\ pc[p] = "leaving"
  /\ path' = NoProc
  /\ Goto(p, "exiting")
  /\ UNCHANGED <<listening, sock, lock, conn, registry, service, ghosts>>

(* What the end of a single takes with it. *)
End(p) ==
  /\ Goto(p, "off")
  /\ Release(p)
  /\ listening' = listening \ {p}
  /\ sock' = IF p \in Singles THEN [sock EXCEPT ![p] = "off"] ELSE sock
  /\ conn' = [c \in Clients |-> IF c = p \/ conn[c] = p THEN NoProc ELSE conn[c]]
  /\ UNCHANGED path

Exit(p) ==
  /\ pc[p] = "exiting"
  /\ End(p)
  /\ UNCHANGED <<registry, service, ghosts>>

(* The owner closed the connection: finish_relay exits at once; a command  *)
(* line reports the error.                                                 *)
OwnerGone(c) ==
  /\ pc[c] \in {"relay", "call"} /\ conn[c] = NoProc
  /\ Goto(c, "off")
  /\ UNCHANGED <<front, lock, conn, registry, service, ghosts>>

-----------------------------------------------------------------------------
(* hoangsa-memory index.  Its wait for a socket that refuses is a delay of *)
(* LaunchCli; two of them on one store are serialised by the store's lock. *)

LaunchCli(c) ==
  /\ pc[c] = "off" /\ serverOf[c] = 0 /\ Spend("clis")
  /\ IF DaemonAlive
     THEN Goto(c, "call") /\ conn' = [conn EXCEPT ![c] = path]
     ELSE Goto(c, "direct") /\ UNCHANGED conn
  /\ UNCHANGED <<front, lock, registry, service, crossed, missed>>

(* Variant: a command line that gets the store serves it. *)
OpenAndServe(c) ==
  /\ pc[c] = "direct"
  /\ IF lock = NoProc
     THEN lock' = c /\ Goto(c, "serve")
     ELSE Goto(c, "off") /\ UNCHANGED lock
  /\ UNCHANGED <<front, conn, registry, service, ghosts>>

OpenDirect(c) ==
  /\ pc[c] = "direct"
  /\ IF lock = NoProc
     THEN lock' = c /\ Goto(c, "work")
     ELSE Goto(c, "off") /\ UNCHANGED lock
  /\ UNCHANGED <<front, conn, registry, service, ghosts>>

FinishDirect(c) ==
  /\ pc[c] = "work"
  /\ Release(c)
  /\ Goto(c, "off")
  /\ UNCHANGED <<front, conn, registry, service, ghosts>>

-----------------------------------------------------------------------------
(* Inside the service: servers and their bundle.                           *)

(* The bundle b when the slot has server s and connections work with of:   *)
(* it is dropped with its last reference.                                  *)
Settled(b, s, of) ==
  IF b.users = {} /\ (~b.cached \/ (b.of # s /\ \A c \in Clients : of[c] # b.of))
  THEN NoBundle ELSE b

Settle(b, s, of) ==
  /\ bundle' = Settled(b, s, of)
  /\ server' = s
  /\ serverOf' = of
  /\ lock' = IF lock = Service /\ bundle' = NoBundle THEN NoProc ELSE lock

(* get_or_open, for a connection that was accepted. *)
GetOrOpen(c) ==
  /\ conn[c] = Service /\ serverOf[c] = 0
  /\ \/ /\ slot # "none" /\ server # 0
        /\ serverOf' = [serverOf EXCEPT ![c] = server]
        /\ UNCHANGED <<conn, lock, server, bundle, opened>>
     \/ /\ slot # "none" /\ server = 0 /\ lock = NoProc /\ opened < left.servers
        /\ opened' = opened + 1
        /\ server' = opened + 1
        /\ serverOf' = [serverOf EXCEPT ![c] = opened + 1]
        /\ bundle' = [of |-> opened + 1, cached |-> TRUE, users |-> {}]
        /\ lock' = Service
        /\ UNCHANGED conn
     \/ /\ slot = "none" \/ (server = 0 /\ lock # NoProc)
        /\ conn' = [conn EXCEPT ![c] = NoProc]
        /\ UNCHANGED <<lock, server, serverOf, bundle, opened>>
  /\ UNCHANGED <<front, pc, registry, slot, event, ghosts>>

(* resources(): the cached bundle, or a new one.  When the store cannot be *)
(* opened the request is answered with an error, and nothing changes.      *)
Request(c) ==
  /\ conn[c] = Service /\ serverOf[c] # 0 /\ c \notin bundle.users
  /\ \/ /\ bundle.of = serverOf[c] /\ bundle.cached
        /\ bundle' = [bundle EXCEPT !.users = @ \cup {c}]
        /\ UNCHANGED lock
     \/ /\ lock = NoProc
        /\ bundle' = [of |-> serverOf[c], cached |-> TRUE, users |-> {c}]
        /\ lock' = Service
  /\ UNCHANGED <<front, pc, conn, registry, slot, event, server, serverOf, opened, ghosts>>

(* The answer is written; a client that has left is noticed only now. *)
Respond(c) ==
  /\ c \in bundle.users
  /\ Settle([bundle EXCEPT !.users = @ \ {c}], server,
            IF conn[c] = Service THEN serverOf ELSE [serverOf EXCEPT ![c] = 0])
  /\ UNCHANGED <<front, pc, conn, registry, slot, event, opened, ghosts>>

(* A relay's input ends; a command line has its answer or its timeout.     *)
HangUp(c) ==
  /\ pc[c] \in {"relay", "call"} /\ conn[c] # NoProc
  /\ Goto(c, "off")
  /\ conn' = [conn EXCEPT ![c] = NoProc]
  /\ IF c \in bundle.users
     THEN UNCHANGED <<lock, server, serverOf, bundle>>
     ELSE Settle(bundle, server, [serverOf EXCEPT ![c] = 0])
  /\ UNCHANGED <<front, registry, slot, event, opened, ghosts>>

WatchBatch ==
  /\ left.watch /\ slot = "tracked" /\ server # 0
  /\ bundle.of = server /\ bundle.cached
  /\ bundle' = [bundle EXCEPT !.users = @ \cup {Service}]
  /\ UNCHANGED <<front, lock, pc, conn, registry, slot, event, server, serverOf, opened, ghosts>>

WatchDone ==
  /\ Service \in bundle.users
  /\ Settle([bundle EXCEPT !.users = @ \ {Service}], server, serverOf)
  /\ UNCHANGED <<front, pc, conn, registry, slot, event, opened, ghosts>>

(* run_eviction_loop: the slot's server has been idle.  A request that     *)
(* runs for longer than the idle window, and the watcher's batch, do not   *)
(* count as access.                                                        *)
Evict ==
  /\ server # 0 /\ bundle.of = server /\ bundle.cached
  /\ Settle([bundle EXCEPT !.cached = FALSE], server, serverOf)
  /\ UNCHANGED <<front, pc, conn, registry, slot, event, opened, ghosts>>

-----------------------------------------------------------------------------
(* The service and the registry.                                           *)

(* Variant: only a project that is added is an event. *)
ChangeSeenWhenAdded ==
  /\ Spend("changes")
  /\ registry' = ~registry
  /\ event' = (event \/ (pc[Service] = "up" /\ registry'))
  /\ missed' = (missed \/ pc[Service] = "starting")
  /\ UNCHANGED <<front, lock, pc, conn, slot, server, serverOf, bundle, opened, crossed>>

ChangeRegistry ==
  /\ Spend("changes")
  /\ registry' = ~registry
  /\ event' = (event \/ pc[Service] = "up")
  /\ missed' = (missed \/ pc[Service] = "starting")
  /\ UNCHANGED <<front, lock, pc, conn, slot, server, serverOf, bundle, opened, crossed>>

Crosses == crossed' = (crossed \/ \E p \in Singles : StartingUp(p))

(* populate_from_registry; an orphan is a data directory not registered. *)
StartService ==
  /\ pc[Service] = "off" /\ Spend("services")
  /\ slot' \in IF registry THEN {"tracked"} ELSE {"none", "orphan"}
  /\ Goto(Service, "starting")
  /\ IF slot' = "none"
     THEN UNCHANGED <<sock, crossed>>
     ELSE GotoSock(Service, "bind") /\ Crosses
  /\ missed' = FALSE
  /\ UNCHANGED <<path, listening, lock, conn, registry, event, server, serverOf, bundle, opened>>

(* The initial listeners are bound, then the registry is watched. *)
ArmWatch ==
  /\ pc[Service] = "starting" /\ sock[Service] \notin Binding
  /\ Goto(Service, "up")
  /\ UNCHANGED <<front, lock, conn, registry, service, ghosts>>

Rebinding == registry /\ slot # "none" /\ sock[Service] = "refused"

(* Variant: the file goes whoever bound it. *)
UnregisterFile ==
  /\ slot' = "none"
  /\ listening' = listening \ {Service}
  /\ path' = NoProc
  /\ GotoSock(Service, "off")
  /\ Settle([bundle EXCEPT !.users = @ \ {Service}], 0, serverOf)

(* unregister: the listener and the watcher go, the file only with the     *)
(* listener's handle, the server with its last connection.                 *)
Unregister ==
  /\ slot' = "none"
  /\ listening' = listening \ {Service}
  /\ path' = IF sock[Service] = "bound" THEN NoProc ELSE path
  /\ GotoSock(Service, "off")
  /\ Settle([bundle EXCEPT !.users = @ \ {Service}], 0, serverOf)

(* reconcile_registry: add, try again, or remove. *)
Reconcile ==
  /\ pc[Service] = "up" /\ event /\ sock[Service] \notin Binding
  /\ event' = FALSE
  /\ \/ /\ registry /\ slot = "none"
        /\ slot' = "tracked"
        /\ GotoSock(Service, "bind") /\ Crosses
        /\ UNCHANGED <<path, listening, lock, server, serverOf, bundle>>
     \/ /\ Rebinding
        /\ GotoSock(Service, "bind") /\ Crosses
        /\ UNCHANGED <<path, listening, slot, lock, server, serverOf, bundle>>
     \/ /\ ~registry /\ slot = "tracked"
        /\ Unregister
        /\ UNCHANGED crossed
     \/ /\ IF registry THEN slot # "none" /\ ~Rebinding ELSE slot # "tracked"
        /\ UNCHANGED <<front, slot, lock, server, serverOf, bundle, crossed>>
  /\ missed' = FALSE
  /\ UNCHANGED <<pc, conn, registry, opened, left>>

(* It leaves its socket file behind, however it ends. *)
StopService ==
  /\ pc[Service] # "off"
  /\ Goto(Service, "off") /\ GotoSock(Service, "off")
  /\ Release(Service)
  /\ listening' = listening \ {Service}
  /\ conn' = [c \in Clients |-> IF conn[c] = Service THEN NoProc ELSE conn[c]]
  /\ slot' = "none" /\ event' = FALSE /\ server' = 0
  /\ serverOf' = [c \in Clients |-> 0] /\ bundle' = NoBundle
  /\ UNCHANGED <<path, registry, opened, ghosts>>

(* A single or a command line is killed. *)
Die(p) ==
  /\ MayDie /\ pc[p] \in {"serve", "leaving", "exiting", "work"}
  /\ End(p)
  /\ UNCHANGED <<registry, service, ghosts>>

Single(p) ==
  \/ Launch(p) \/ Connect(p) \/ OpenStore(p) \/ WaitForDaemon(p)
  \/ Eof(p) \/ RemoveSocket(p) \/ Exit(p)

Cli(c) == LaunchCli(c) \/ OpenDirect(c) \/ FinishDirect(c)

Client(c) == OwnerGone(c) \/ HangUp(c) \/ GetOrOpen(c) \/ Request(c) \/ Respond(c) \/ Die(c)

BindSocket(d) == Bind(d) \/ Probe(d) \/ RemoveStale(d) \/ Rebind(d)

Next ==
  \/ \E p \in Singles : Single(p)
  \/ \E c \in Clis : Cli(c)
  \/ \E c \in Clients : Client(c)
  \/ \E d \in Daemons : BindSocket(d)
  \/ WatchBatch \/ WatchDone \/ Evict
  \/ ChangeRegistry \/ StartService \/ ArmWatch \/ Reconcile \/ StopService

Spec == Init /\ [][Next]_vars

-----------------------------------------------------------------------------
(* Type invariant. *)
TypeOK ==
  /\ path \in Daemons \cup {NoProc}
  /\ listening \subseteq Daemons
  /\ lock \in Procs \cup {NoProc}
  /\ pc \in [Procs -> SinglePCs \cup CliPCs \cup ServicePCs]
  /\ \A p \in Singles : pc[p] \in SinglePCs
  /\ \A c \in Clis : pc[c] \in CliPCs
  /\ pc[Service] \in ServicePCs
  /\ sock \in [Daemons -> SockPCs]
  /\ conn \in [Clients -> Daemons \cup {NoProc}]
  /\ registry \in BOOLEAN /\ event \in BOOLEAN
  /\ slot \in {"none", "orphan", "tracked"}
  /\ server \in Nat /\ opened \in Nat
  /\ serverOf \in [Clients -> Nat]
  /\ bundle \in [of : Nat, cached : BOOLEAN, users : SUBSET (Clients \cup {Service})]
  /\ left \in Scope
  /\ crossed \in BOOLEAN /\ missed \in BOOLEAN

(* A daemon that listens can be reached through the socket file until it   *)
(* removes the file itself, whatever was killed, restarted, unregistered   *)
(* or retried before - unless the service once bound its socket while a    *)
(* single was starting.                                                    *)
OwnerNamed ==
  ~crossed => \A d \in listening : path = d \/ pc[d] = "exiting"

(* While a single serves a project the service does not listen for it, so  *)
(* that no client is sent to a daemon that cannot open the store; with the *)
(* same exception.                                                         *)
OneFrontDoor ==
  ~crossed => \A p \in Singles : pc[p] = "serve" => Service \notin listening

(* Whoever a relay or a command line is connected to has the store open,   *)
(* or is the service, which opens it on demand.  No exception.             *)
PeersServe == \A c \in Clients : conn[c] \in Singles => lock = conn[c]

(* When the service has looked at every change of the registry its slot    *)
(* follows it, changes made while it started excepted.                     *)
RegistryFollowed ==
  pc[Service] = "up" /\ ~event /\ ~missed =>
    IF registry THEN slot # "none" ELSE slot # "tracked"

(* "Only OUR listener handle proves we own the socket file": nobody takes  *)
(* the socket file away from another process that listens on it.           *)
LiveSocketStays ==
  [][\A d \in listening \cap listening' :
       path = d /\ path' # d => pc[d] = "leaving" /\ pc'[d] = "exiting"]_vars

(* "drop the ProjectSlot Arc so the cached Server (plus its ResourceBundle *)
(* and vector-store handle) get cleaned up": without a slot the service    *)
(* holds the store for a request that is being answered, and not longer.   *)
\* The code does not keep it: README, disagreements.
UnregisterFreesStore == slot = "none" /\ bundle.users = {} => lock # Service
=============================================================================
