------------------------- MODULE DaemonOwner_proofs -------------------------
(***************************************************************************)
(* Proofs about DaemonOwner, for any number of single-mode daemons and     *)
(* command lines, any scope, with and without kills.                       *)
(*                                                                         *)
(*   TypeCorrect         the type invariant;                               *)
(*   ConnectedToOwner    PeersServe, from Holding: a single that serves or *)
(*                       binds has the lock, and only singles that bound   *)
(*                       are connected to;                                 *)
(*   ListenersNamed,                                                       *)
(*   FrontDoorSingle     OwnerNamed and OneFrontDoor, from Apart: until a  *)
(*                       crossing, nobody starts while the service binds;  *)
(*   SlotsFollow         RegistryFollowed.                                 *)
(***************************************************************************)
EXTENDS DaemonOwner, TLAPS

Attached == Binding \cup {"bound"}

(* A single keeps the store open from before its socket is bound until it  *)
(* ends; clients are connected to singles that still listen.               *)
Holding ==
  /\ \A p \in Singles :
       /\ pc[p] = "serve" => lock = p
       /\ sock[p] \in Attached => lock = p
       /\ pc[p] \in {"serve", "leaving", "exiting"} => sock[p] # "off"
  /\ \A d \in Daemons : d \in listening <=> sock[d] = "bound"
  /\ \A c \in Clients : conn[c] \in Singles => conn[c] \in listening
  /\ pc[Service] = "off" => slot = "none"
  /\ slot = "none" => sock[Service] = "off"

(* The service and a starting single are never at the socket together, so  *)
(* that a file found stale stays so until it is removed, and one removed   *)
(* is not replaced before the second bind.                                 *)
Apart ==
  ~crossed =>
    /\ \A d \in listening : path = d \/ pc[d] = "exiting"
    /\ sock[Service] \in Attached => \A p \in Singles : ~StartingUp(p)
    /\ sock[Service] \in {"stale", "rebind"} =>
         \A p \in Singles : p \in listening => pc[p] = "exiting"
    /\ \A p \in Singles : sock[p] # "refused"
    /\ \A d \in Daemons : sock[d] = "rebind" => path = NoProc

(* The slot follows the registry from the moment the service starts.       *)
Follows ==
  pc[Service] # "off" /\ ~event /\ ~missed =>
    IF registry THEN slot # "none" ELSE slot # "tracked"

-----------------------------------------------------------------------------
Bundles == [of : Nat, cached : BOOLEAN, users : SUBSET (Clients \cup {Service})]

(* What the steps make of a bundle is a bundle again.                      *)
LEMMA BundleFacts ==
  /\ NoBundle \in Bundles
  /\ \A b \in Bundles, U \in SUBSET (Clients \cup {Service}) : [b EXCEPT !.users = U] \in Bundles
  /\ \A b \in Bundles : [b EXCEPT !.cached = FALSE] \in Bundles
  /\ \A n \in Nat, U \in SUBSET (Clients \cup {Service}) :
       [of |-> n, cached |-> TRUE, users |-> U] \in Bundles
<1>1. NoBundle \in Bundles
  BY DEF NoBundle, Bundles
<1>2. ASSUME NEW b \in Bundles, NEW U \in SUBSET (Clients \cup {Service})
      PROVE  [b EXCEPT !.users = U] \in Bundles
  BY DEF Bundles
<1>3. ASSUME NEW b \in Bundles PROVE [b EXCEPT !.cached = FALSE] \in Bundles
  BY DEF Bundles
<1>4. ASSUME NEW n \in Nat, NEW U \in SUBSET (Clients \cup {Service})
      PROVE  [of |-> n, cached |-> TRUE, users |-> U] \in Bundles
  BY DEF Bundles
<1> QED BY <1>1, <1>2, <1>3, <1>4

(* Settling leaves a bundle and a server, and at most frees the store the  *)
(* service had open.                                                       *)
LEMMA SettleFacts ==
  ASSUME NEW b \in Bundles, NEW s \in Nat, NEW of \in [Clients -> Nat], Settle(b, s, of)
  PROVE  /\ bundle' \in Bundles /\ server' \in Nat /\ serverOf' \in [Clients -> Nat]
         /\ lock' = lock \/ (lock = Service /\ lock' = NoProc)
BY BundleFacts DEF Settle, Settled

(* Every variable stays in its type; a scope's counters are only spent     *)
(* while there is something left of them.                                  *)
THEOREM TypeCorrect == Spec => []TypeOK
<1> USE OwnerAssumption DEF Clients, Daemons, Procs, SinglePCs, CliPCs, ServicePCs, SockPCs
<1>1. Init => TypeOK
  <2> SUFFICES ASSUME Init PROVE TypeOK
    OBVIOUS
  <2>1. bundle \in Bundles
    BY BundleFacts DEF Init
  <2>2. left \in Scope
    BY DEF Init
  <2> QED BY <2>1, <2>2 DEF Init, TypeOK, Bundles
<1>2. TypeOK /\ [Next]_vars => TypeOK'
  <2> SUFFICES ASSUME TypeOK, [Next]_vars PROVE TypeOK'
    OBVIOUS
  <2> USE DEF TypeOK, Goto, GotoSock, Release, front, service, ghosts
  <2>1. ASSUME NEW p \in Singles, Single(p) PROVE TypeOK'
    <3>1. CASE Launch(p)         BY <3>1 DEF Launch, Spend, Scope
    <3>2. CASE Connect(p)        BY <3>2 DEF Connect, DaemonAlive
    <3>3. CASE OpenStore(p)      BY <3>3 DEF OpenStore
    <3>4. CASE WaitForDaemon(p)  BY <3>4 DEF WaitForDaemon
    <3>5. CASE Eof(p)            BY <3>5 DEF Eof
    <3>6. CASE RemoveSocket(p)   BY <3>6 DEF RemoveSocket
    <3>7. CASE Exit(p)           BY <3>7 DEF Exit, End
    <3> QED BY <2>1, <3>1, <3>2, <3>3, <3>4, <3>5, <3>6, <3>7 DEF Single
  <2>2. ASSUME NEW c \in Clis, Cli(c) PROVE TypeOK'
    <3>1. CASE LaunchCli(c)     BY <3>1 DEF LaunchCli, Spend, Scope, DaemonAlive
    <3>2. CASE OpenDirect(c)    BY <3>2 DEF OpenDirect
    <3>3. CASE FinishDirect(c)  BY <3>3 DEF FinishDirect
    <3> QED BY <2>2, <3>1, <3>2, <3>3 DEF Cli
  <2>3. ASSUME NEW c \in Clients, Client(c) PROVE TypeOK'
    <3>1. CASE OwnerGone(c)  BY <3>1 DEF OwnerGone
    <3>2. CASE HangUp(c)     BY <3>2, SettleFacts DEF HangUp, Bundles
    <3>3. CASE GetOrOpen(c)
      <4>1. bundle' \in Bundles
        <5>1. bundle' = bundle \/ bundle' = [of |-> opened + 1, cached |-> TRUE, users |-> {}]
          BY <3>3 DEF GetOrOpen
        <5>2. bundle \in Bundles /\ opened + 1 \in Nat
          BY DEF Bundles
        <5>3. [of |-> opened + 1, cached |-> TRUE, users |-> {}] \in Bundles
          BY <5>2, BundleFacts
        <5> QED BY <5>1, <5>2, <5>3
      <4> QED BY <3>3, <4>1 DEF GetOrOpen, Bundles
    <3>4. CASE Request(c)
      <4>1. bundle' \in Bundles
        <5>1. \/ bundle' = [bundle EXCEPT !.users = bundle.users \cup {c}]
              \/ bundle' = [of |-> serverOf[c], cached |-> TRUE, users |-> {c}]
          BY <3>4 DEF Request
        <5>2. bundle \in Bundles /\ bundle.users \cup {c} \in SUBSET (Clients \cup {Service})
          BY DEF Bundles
        <5>3. serverOf[c] \in Nat /\ {c} \in SUBSET (Clients \cup {Service})
          OBVIOUS
        <5> HIDE DEF TypeOK, Clients
        <5> QED BY <5>1, <5>2, <5>3, BundleFacts
      <4> QED BY <3>4, <4>1 DEF Request, Bundles
    <3>5. CASE Respond(c)
      <4>1. [bundle EXCEPT !.users = bundle.users \ {c}] \in Bundles
        BY BundleFacts DEF Bundles
      <4>2. PICK of \in [Clients -> Nat] :
               Settle([bundle EXCEPT !.users = bundle.users \ {c}], server, of)
        BY <3>5 DEF Respond
      <4>3. /\ bundle' \in Bundles /\ server' \in Nat /\ serverOf' \in [Clients -> Nat]
            /\ lock' = lock \/ lock' = NoProc
        BY <4>1, <4>2, SettleFacts
      <4> QED BY <3>5, <4>3 DEF Respond, Bundles
    <3>6. CASE Die(c)        BY <3>6 DEF Die, End
    <3> QED BY <2>3, <3>1, <3>2, <3>3, <3>4, <3>5, <3>6 DEF Client
  <2>4. ASSUME NEW d \in Daemons, BindSocket(d) PROVE TypeOK'
    <3>1. CASE Bind(d)         BY <3>1 DEF Bind, BoundTo
    <3>2. CASE Probe(d)        BY <3>2 DEF Probe, Refused
    <3>3. CASE RemoveStale(d)  BY <3>3 DEF RemoveStale
    <3>4. CASE Rebind(d)       BY <3>4 DEF Rebind, BoundTo, Refused
    <3> QED BY <2>4, <3>1, <3>2, <3>3, <3>4 DEF BindSocket
  <2>5. CASE WatchBatch      BY <2>5, BundleFacts DEF WatchBatch, Bundles
  <2>6. CASE WatchDone
    <3>1. [bundle EXCEPT !.users = bundle.users \ {Service}] \in Bundles
      BY BundleFacts DEF Bundles
    <3> QED BY <2>6, <3>1, SettleFacts, SMTT(30) DEF WatchDone, Bundles
  <2>7. CASE Evict
    <3>1. [bundle EXCEPT !.cached = FALSE] \in Bundles
      BY BundleFacts DEF Bundles
    <3> QED BY <2>7, <3>1, SettleFacts DEF Evict, Bundles
  <2>8. CASE ChangeRegistry  BY <2>8 DEF ChangeRegistry, Spend, Scope
  <2>9. CASE StartService
    <3>1. slot' \in {"none", "orphan", "tracked"} /\ crossed' \in BOOLEAN /\ sock' \in [Daemons -> SockPCs]
      BY <2>9, ZenonT(30) DEF StartService, Crosses
    <3>2. left' \in Scope
      BY <2>9 DEF StartService, Spend, Scope
    <3> QED BY <2>9, <3>1, <3>2, ZenonT(30) DEF StartService
  <2>10. CASE ArmWatch       BY <2>10 DEF ArmWatch
  <2>11. CASE Reconcile
    <3>1. [bundle EXCEPT !.users = bundle.users \ {Service}] \in Bundles
      BY BundleFacts DEF Bundles
    <3>2. CASE Unregister
      BY <2>11, <3>1, <3>2, SettleFacts, ZenonT(30) DEF Unregister, Reconcile, Crosses, Bundles
    <3>3. CASE ~Unregister
      BY <2>11, <3>3, ZenonT(30) DEF Reconcile, Crosses
    <3> QED BY <3>2, <3>3
  <2>12. CASE StopService    BY <2>12 DEF StopService, NoBundle
  <2>13. CASE UNCHANGED vars BY <2>13 DEF vars
  <2> QED BY <2>1, <2>2, <2>3, <2>4, <2>5, <2>6, <2>7, <2>8, <2>9, <2>10, <2>11,
             <2>12, <2>13 DEF Next
<1> QED BY <1>1, <1>2, PTL DEF Spec

-----------------------------------------------------------------------------
(* What a step of the service's connections and requests cannot touch.     *)
Quiet ==
  /\ UNCHANGED <<listening, sock, path, slot, crossed, registry, event, missed>>
  /\ lock' = lock \/ lock = NoProc \/ (lock = Service /\ lock' = NoProc)
  /\ \A p \in Procs : pc'[p] = pc[p] \/ pc'[p] = "off"
  /\ \A c \in Clients : conn'[c] = conn[c] \/ conn'[c] = NoProc

(* Requests, the watcher and eviction neither take nor give up the lock.   *)
LEMMA QuietSteps ==
  ASSUME TypeOK,
         \/ \E c \in Clients : GetOrOpen(c) \/ Request(c) \/ Respond(c)
         \/ WatchBatch \/ WatchDone \/ Evict
  PROVE  Quiet /\ pc' = pc
<1> USE DEF Quiet, front, service, ghosts, TypeOK, Settle, Clients, Procs
<1>1. ASSUME NEW c \in Clients, GetOrOpen(c) PROVE Quiet /\ pc' = pc
  BY <1>1 DEF GetOrOpen
<1>2. ASSUME NEW c \in Clients, Request(c) PROVE Quiet /\ pc' = pc
  BY <1>2 DEF Request
<1>3. ASSUME NEW c \in Clients, Respond(c) PROVE Quiet /\ pc' = pc
  BY <1>3 DEF Respond
<1>4. CASE WatchBatch  BY <1>4 DEF WatchBatch
<1>5. CASE WatchDone   BY <1>5 DEF WatchDone
<1>6. CASE Evict       BY <1>6 DEF Evict
<1> QED BY <1>1, <1>2, <1>3, <1>4, <1>5, <1>6

(* Holding is inductive.                                                   *)
LEMMA HoldingInductive ==
  ASSUME TypeOK, Holding, [Next]_vars
  PROVE  Holding'
<1> USE OwnerAssumption DEF Clients, Daemons, Procs, SinglePCs, CliPCs, ServicePCs, SockPCs
<1> USE DEF TypeOK, Holding, Attached, Binding, Goto, GotoSock, Release, front, service, ghosts
<1>1. ASSUME NEW p \in Singles, Single(p) PROVE Holding'
  <2>1. CASE Launch(p)         BY <2>1 DEF Launch, Spend
  <2>2. CASE Connect(p)        BY <2>2 DEF Connect, DaemonAlive
  <2>3. CASE OpenStore(p)      BY <2>3 DEF OpenStore
  <2>4. CASE WaitForDaemon(p)  BY <2>4 DEF WaitForDaemon
  <2>5. CASE Eof(p)            BY <2>5 DEF Eof
  <2>6. CASE RemoveSocket(p)   BY <2>6 DEF RemoveSocket
  <2>7. CASE Exit(p)           BY <2>7 DEF Exit, End
  <2> QED BY <1>1, <2>1, <2>2, <2>3, <2>4, <2>5, <2>6, <2>7 DEF Single
<1>2. ASSUME NEW c \in Clis, Cli(c) PROVE Holding'
  <2>1. CASE LaunchCli(c)     BY <2>1 DEF LaunchCli, Spend, DaemonAlive
  <2>2. CASE OpenDirect(c)    BY <2>2 DEF OpenDirect
  <2>3. CASE FinishDirect(c)  BY <2>3 DEF FinishDirect
  <2> QED BY <1>2, <2>1, <2>2, <2>3 DEF Cli
<1>3. ASSUME NEW c \in Clients, Client(c) PROVE Holding'
  <2>1. CASE OwnerGone(c)  BY <2>1 DEF OwnerGone
  <2>2. CASE HangUp(c)     BY <2>2 DEF HangUp, Settle
  <2>3. CASE GetOrOpen(c) \/ Request(c) \/ Respond(c)
    BY <2>3, QuietSteps DEF Quiet
  <2>4. CASE Die(c)        BY <2>4 DEF Die, End
  <2> QED BY <1>3, <2>1, <2>2, <2>3, <2>4 DEF Client
<1>4. ASSUME NEW d \in Daemons, BindSocket(d) PROVE Holding'
  <2>1. CASE Bind(d)         BY <2>1 DEF Bind, BoundTo
  <2>2. CASE Probe(d)        BY <2>2 DEF Probe, Refused
  <2>3. CASE RemoveStale(d)  BY <2>3 DEF RemoveStale
  <2>4. CASE Rebind(d)       BY <2>4 DEF Rebind, BoundTo, Refused
  <2> QED BY <1>4, <2>1, <2>2, <2>3, <2>4 DEF BindSocket
<1>5. CASE WatchBatch \/ WatchDone \/ Evict
  BY <1>5, QuietSteps DEF Quiet
<1>6. CASE ChangeRegistry  BY <1>6 DEF ChangeRegistry, Spend
<1>7. CASE StartService    BY <1>7 DEF StartService, Spend
<1>8. CASE ArmWatch        BY <1>8 DEF ArmWatch
<1>9. CASE Reconcile
  <2>1. CASE Unregister
    BY <1>9, <2>1 DEF Unregister, Settle, Reconcile
  <2>2. CASE ~Unregister
    BY <1>9, <2>2 DEF Reconcile, Rebinding
  <2> QED BY <2>1, <2>2
<1>10. CASE StopService    BY <1>10 DEF StopService
<1>11. CASE UNCHANGED vars BY <1>11 DEF vars
<1> QED BY <1>1, <1>2, <1>3, <1>4, <1>5, <1>6, <1>7, <1>8, <1>9, <1>10, <1>11 DEF Next

(* Whoever a client is connected to serves the store, whatever the starts, *)
(* binds, evictions, exits and kills of the others.                        *)
THEOREM ConnectedToOwner == Spec => []PeersServe
<1>1. Init => Holding
  BY OwnerAssumption
     DEF Init, Holding, Attached, Binding, Clients, Daemons, Procs
<1>2. TypeOK /\ Holding /\ [Next]_vars => Holding'
  BY HoldingInductive
<1>3. TypeOK /\ Holding => PeersServe
  BY DEF TypeOK, Holding, PeersServe, Attached, Daemons
<1> QED BY <1>1, <1>2, <1>3, TypeCorrect, PTL DEF Spec

-----------------------------------------------------------------------------
(* Apart is inductive, given Holding.                                      *)
LEMMA ApartInductive ==
  ASSUME TypeOK, Holding, Apart, [Next]_vars
  PROVE  Apart'
<1> SUFFICES ASSUME ~crossed' PROVE Apart'
  BY DEF Apart
<1> USE OwnerAssumption DEF Clients, Daemons, Procs, SinglePCs, CliPCs, ServicePCs, SockPCs
<1> USE DEF TypeOK, Holding, Apart, Attached, Binding, StartingUp, Goto, GotoSock, front,
            service, ghosts
<1>1. ASSUME NEW p \in Singles, Single(p) PROVE Apart'
  <2>1. CASE Launch(p)         BY <2>1, ZenonT(30) DEF Launch, Spend, DaemonAlive
  <2>2. CASE Connect(p)        BY <2>2 DEF Connect
  <2>3. CASE OpenStore(p)      BY <2>3 DEF OpenStore
  <2>4. CASE WaitForDaemon(p)  BY <2>4 DEF WaitForDaemon
  <2>5. CASE Eof(p)            BY <2>5 DEF Eof
  <2>6. CASE RemoveSocket(p)   BY <2>6 DEF RemoveSocket
  <2>7. CASE Exit(p)           BY <2>7 DEF Exit, End
  <2> QED BY <1>1, <2>1, <2>2, <2>3, <2>4, <2>5, <2>6, <2>7 DEF Single
<1>2. ASSUME NEW c \in Clis, Cli(c) PROVE Apart'
  <2>1. CASE LaunchCli(c)     BY <2>1 DEF LaunchCli, Spend
  <2>2. CASE OpenDirect(c)    BY <2>2 DEF OpenDirect
  <2>3. CASE FinishDirect(c)  BY <2>3 DEF FinishDirect
  <2> QED BY <1>2, <2>1, <2>2, <2>3 DEF Cli
<1>3. ASSUME NEW c \in Clients, Client(c) PROVE Apart'
  <2>1. CASE OwnerGone(c)  BY <2>1 DEF OwnerGone
  <2>2. CASE HangUp(c)     BY <2>2 DEF HangUp
  <2>3. CASE GetOrOpen(c) \/ Request(c) \/ Respond(c)
    BY <2>3, QuietSteps DEF Quiet
  <2>4. CASE Die(c)        BY <2>4 DEF Die, End
  <2> QED BY <1>3, <2>1, <2>2, <2>3, <2>4 DEF Client
<1>4. ASSUME NEW d \in Daemons, BindSocket(d) PROVE Apart'
  <2>1. CASE Bind(d)         BY <2>1 DEF Bind, BoundTo
  <2>2. CASE Probe(d)        BY <2>2 DEF Probe, Refused, DaemonAlive
  <2>3. CASE RemoveStale(d)  BY <2>3 DEF RemoveStale
  <2>4. CASE Rebind(d)       BY <2>4 DEF Rebind, BoundTo, Refused
  <2> QED BY <1>4, <2>1, <2>2, <2>3, <2>4 DEF BindSocket
<1>5. CASE WatchBatch \/ WatchDone \/ Evict
  BY <1>5, QuietSteps DEF Quiet
<1>6. CASE ChangeRegistry  BY <1>6 DEF ChangeRegistry, Spend
<1>7. CASE StartService
  <2>1. /\ path' = path /\ listening' = listening
        /\ \A d \in Singles : pc'[d] = pc[d] /\ sock'[d] = sock[d]
        /\ pc[Service] = "off" /\ pc'[Service] # "exiting"
    BY <1>7 DEF StartService
  <2>2. CASE slot' = "none"
    BY <1>7, <2>1, <2>2 DEF StartService
  <2>3. CASE slot' # "none"
    <3>1. sock' = [sock EXCEPT ![Service] = "bind"] /\ Crosses
      BY <1>7, <2>3 DEF StartService
    <3>2. ~crossed /\ \A p \in Singles : ~StartingUp(p)
      BY <3>1 DEF Crosses
    <3> QED BY <2>1, <3>1, <3>2
  <2> QED BY <2>2, <2>3
<1>8. CASE ArmWatch        BY <1>8 DEF ArmWatch
<1>9. CASE Reconcile
  <2>1. CASE Unregister
    BY <1>9, <2>1 DEF Unregister, Reconcile
  <2>2. CASE ~Unregister
    BY <1>9, <2>2 DEF Reconcile, Rebinding, Crosses
  <2> QED BY <2>1, <2>2
<1>10. CASE StopService    BY <1>10 DEF StopService
<1>11. CASE UNCHANGED vars BY <1>11 DEF vars
<1> QED BY <1>1, <1>2, <1>3, <1>4, <1>5, <1>6, <1>7, <1>8, <1>9, <1>10, <1>11 DEF Next

(* Both, in every state.                                                   *)
LEMMA Ownership == Spec => [](TypeOK /\ Holding /\ Apart)
<1>1. Init => Holding /\ Apart
  BY OwnerAssumption
     DEF Init, Holding, Apart, Attached, Binding, Clients, Daemons, Procs
<1>2. TypeOK /\ Holding /\ Apart /\ [Next]_vars => Holding' /\ Apart'
  BY HoldingInductive, ApartInductive
<1> QED BY <1>1, <1>2, TypeCorrect, PTL DEF Spec

(* Until the service and a starting single cross, every daemon that        *)
(* listens is the one the socket file leads to, until it removes the file. *)
THEOREM ListenersNamed == Spec => []OwnerNamed
<1>1. TypeOK /\ Holding /\ Apart => OwnerNamed
  BY DEF Apart, OwnerNamed
<1> QED BY <1>1, Ownership, PTL

(* Until they cross, the service does not listen for a project a single    *)
(* serves: that single is binding, which keeps the service out, or it is   *)
(* the one the file leads to.                                              *)
THEOREM FrontDoorSingle == Spec => []OneFrontDoor
<1>1. ASSUME TypeOK, Holding, Apart, ~crossed, NEW p \in Singles, pc[p] = "serve"
      PROVE  Service \notin listening
  <2>1. sock[p] \in Attached
    BY <1>1 DEF TypeOK, Holding, Apart, SockPCs, Attached, Binding, Daemons
  <2>2. CASE sock[p] \in Binding
    BY <1>1, <2>2 DEF Holding, Apart, Attached, StartingUp, Daemons
  <2>3. CASE sock[p] = "bound"
    BY <1>1, <2>3, OwnerAssumption
       DEF TypeOK, Holding, Apart, Daemons, Clients, Procs, ServicePCs
  <2> QED BY <2>1, <2>2, <2>3 DEF Attached
<1>2. TypeOK /\ Holding /\ Apart => OneFrontDoor
  BY <1>1 DEF OneFrontDoor
<1> QED BY <1>2, Ownership, PTL

-----------------------------------------------------------------------------
(* However the registry changes while the service runs, once every change  *)
(* is looked at the slot follows it, unless it changed while the service   *)
(* was starting: what the service keeps is right from its start on.        *)
THEOREM SlotsFollow == Spec => []RegistryFollowed
<1>1. Init => Follows
  BY OwnerAssumption DEF Init, Follows, Procs, Clients
<1>2. TypeOK /\ Follows /\ [Next]_vars => Follows'
  <2> SUFFICES ASSUME TypeOK, Follows, [Next]_vars PROVE Follows'
    OBVIOUS
  <2> USE OwnerAssumption
      DEF TypeOK, Follows, Goto, front, service, ghosts, Procs, Clients, ServicePCs
  <2>1. ASSUME NEW p \in Singles, Single(p) PROVE Follows'
    BY <2>1 DEF Single, Launch, Connect, OpenStore, WaitForDaemon, Eof, RemoveSocket, Exit, End
  <2>2. ASSUME NEW c \in Clis, Cli(c) PROVE Follows'
    BY <2>2 DEF Cli, LaunchCli, OpenDirect, FinishDirect
  <2>3. ASSUME NEW c \in Clients, Client(c) PROVE Follows'
    <3>1. CASE OwnerGone(c)  BY <3>1 DEF OwnerGone
    <3>2. CASE HangUp(c)     BY <3>2 DEF HangUp
    <3>3. CASE GetOrOpen(c) \/ Request(c) \/ Respond(c)
      BY <3>3, QuietSteps DEF Quiet
    <3>4. CASE Die(c)        BY <3>4 DEF Die, End
    <3> QED BY <2>3, <3>1, <3>2, <3>3, <3>4 DEF Client
  <2>4. ASSUME NEW d \in Daemons, BindSocket(d) PROVE Follows'
    BY <2>4 DEF BindSocket, Bind, Probe, RemoveStale, Rebind
  <2>5. CASE WatchBatch \/ WatchDone \/ Evict
    BY <2>5, QuietSteps DEF Quiet
  <2>6. CASE ChangeRegistry  BY <2>6 DEF ChangeRegistry
  <2>7. CASE StartService    BY <2>7 DEF StartService
  <2>8. CASE ArmWatch        BY <2>8 DEF ArmWatch
  <2>9. CASE Reconcile       BY <2>9 DEF Reconcile, Rebinding, Unregister
  <2>10. CASE StopService    BY <2>10 DEF StopService
  <2>11. CASE UNCHANGED vars BY <2>11 DEF vars
  <2> QED BY <2>1, <2>2, <2>3, <2>4, <2>5, <2>6, <2>7, <2>8, <2>9, <2>10, <2>11 DEF Next
<1>3. TypeOK /\ Follows => RegistryFollowed
  BY DEF Follows, RegistryFollowed
<1> QED BY <1>1, <1>2, <1>3, TypeCorrect, PTL DEF Spec
=============================================================================
