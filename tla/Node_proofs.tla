----------------------------- MODULE Node_proofs -----------------------------
(***************************************************************************)
(* A node uses its hub as the hub allows, so what holds of every hub holds *)
(* of the hub of a node; and Shutdown keeps its order, for any number of   *)
(* sockets and requests.                                                   *)
(***************************************************************************)
EXTENDS Node, Hub_proofs

(* How far Shutdown got determines what is closed; who may still run       *)
(* follows from that.                                                      *)
Order ==
    /\ draining = (pc # "up")
    /\ cancelled = (pc \notin {"up", "http"})
    /\ done = (pc \notin {"up", "http", "wait"})
    /\ run = "stopped" => done
    /\ pc \in {"up", "http", "wait", "hub"} => brokerUp = Clustered

Quiet ==
    /\ \A w \in Workers : worker[w] = "over" => cancelled
    /\ done => \A w \in Workers : worker[w] \in {"off", "over"}
    /\ (running # {} /\ cancelled) => late

NodeTypeOK ==
    /\ pc \in {"up", "http", "wait", "hub", "broker", "db", "exited"}
    /\ running \subseteq Requests
    /\ {draining, late, cancelled, brokerUp, dbUp} \subseteq BOOLEAN
    /\ worker \in [Workers -> {"off", "idle", "busy", "asking", "over"}]
    /\ inCallback \subseteq Consumers

NodeInv == NodeTypeOK /\ Order /\ Quiet

-----------------------------------------------------------------------------
(* The hub of a node.                                                      *)

LEMMA NodeStepIsHubStep ==
  ASSUME [Next]_vars
  PROVE  [HubNext]_hubVars
<1>1. CASE UNCHANGED vars
  BY <1>1 DEF vars
<1>2. CASE Signal \/ Gone
  BY <1>2 DEF Signal, Gone, vars
<1>3. CASE Shutdown
  BY <1>3 DEF Shutdown, HTTPShut, HubClose, BrokerClose, DBClose, Exit, HubNext
<1>4. CASE HubStep
  BY <1>4, NodeAssumption DEF HubStep, HubNext
<1>5. CASE Background
  <2>1. CASE RelayDrains \/ \E w \in Workers : WorkerEnds(w)
    BY <2>1 DEF RelayDrains, WorkerEnds
  <2>2. CASE RelayPublishes
    BY <2>2 DEF RelayPublishes, HubNext
  <2>3. CASE Tick \/ Beat
    BY <2>3, NodeAssumption DEF Tick, Beat, HubNext
  <2>4. CASE \E c \in Consumers : CallbackStarts(c) \/ CallbackEnds(c)
    BY <2>4 DEF CallbackStarts, CallbackEnds, HubNext
  <2> QED
    BY <1>5, <2>1, <2>2, <2>3, <2>4 DEF Background
<1>6. CASE \E r \in Requests : RequestActs(r)
  BY <1>6, NodeAssumption
     DEF RequestActs, RequestStarts, RequestEnds, AskWhoIsHere, HubNext
<1>7. CASE \E s \in Sockets : Handshake(s) \/ SocketActs(s) \/ SocketSuffers(s)
  BY <1>7 DEF Handshake, SocketActs, SocketSuffers, HubNext
<1> QED
  BY <1>1, <1>2, <1>3, <1>4, <1>5, <1>6, <1>7 DEF Next

(* A node implements the hub's own specification: nothing server.App,      *)
(* ws.go or Shutdown does to the hub goes past what hub.go expects of its  *)
(* callers.                                                                *)
THEOREM NodeImplementsHub == Spec => HubSpec
<1>1. Init => HubInit
  BY DEF Init
<1>2. [Next]_vars => [HubNext]_hubVars
  BY NodeStepIsHubStep
<1> QED
  BY <1>1, <1>2, PTL DEF Spec, HubSpec

(* No goroutine of a node closes or sends on a closed channel, up to and   *)
(* through the shutdown (hub.go: remove, deliver, closeAll).               *)
THEOREM NodeNeverPanics == Spec => []NoPanic
  BY NodeImplementsHub, HubIsSafe, PTL

(* What the heartbeat reports and what deliver sends to is exactly the     *)
(* sockets of the node (hub.go: add, remove, localUserIDs).                *)
THEOREM NodeMapIsExact == Spec => []MapIsExact
  BY NodeImplementsHub, HubIsSafe, PTL

(* A socket the node keeps has every frame that deliver had for it, in     *)
(* order (hub.go: deliver; client.go: writePump).                          *)
THEOREM NodeKeepsWhole == Spec => []KeptMeansComplete
  BY NodeImplementsHub, HubIsSafe, PTL

-----------------------------------------------------------------------------
(* The order of Shutdown.                                                  *)

LEMMA NodeStarts == Init => NodeInv
<1> SUFFICES ASSUME Init PROVE NodeInv
  OBVIOUS
<1>1. PICK nats \in BOOLEAN, presence \in BOOLEAN :
        worker = startBackground(nats, presence)
  BY DEF Init
<1>2. /\ worker \in [Workers -> {"off", "idle"}]
  BY <1>1 DEF startBackground
<1>3. brokerUp = Clustered /\ brokerUp \in BOOLEAN
  BY DEF Init, Clustered
<1>4. NodeTypeOK
  BY <1>2, <1>3 DEF Init, NodeTypeOK
<1>5. Order
  BY <1>3 DEF Init, HubInit, Order
<1>6. Quiet
  BY <1>2 DEF Init, HubInit, Quiet
<1> QED
  BY <1>4, <1>5, <1>6 DEF NodeInv

(* A step that leaves the node's own state and done alone, and does not    *)
(* stop the hub before done.                                               *)
LEMMA HubOnly ==
  ASSUME NodeInv, UNCHANGED nodeVars, UNCHANGED done,
         run' = "stopped" => run = "stopped" \/ done
  PROVE  NodeInv'
<1>1. UNCHANGED <<pc, draining, running, late, cancelled, worker, inCallback,
                  brokerUp, dbUp>>
  BY DEF nodeVars
<1>2. Clustered' = Clustered
  BY <1>1 DEF Clustered
<1>3. NodeTypeOK'
  BY <1>1 DEF NodeInv, NodeTypeOK
<1>4. Order'
  BY <1>1, <1>2 DEF NodeInv, Order
<1>5. Quiet'
  BY <1>1 DEF NodeInv, Quiet
<1> QED
  BY <1>3, <1>4, <1>5 DEF NodeInv

(* What no operation of the hub but Close does.                            *)
LEMMA HubKeepsDone ==
  ASSUME \/ \E s \in Sockets :
              Upgrade(s) \/ SocketStep(s) \/ PeerGone(s) \/ TokenRunsOut(s)
         \/ \E users \in SUBSET Users : Broadcast(users)
         \/ \E a \in Askers : UserIDs(a) \/ Snapshot(a)
         \/ Deliver \/ CloseAll
         \/ UNCHANGED hubVars
  PROVE  UNCHANGED done /\ (run' = "stopped" => run = "stopped" \/ done)
  BY DEF Upgrade, SocketStep, Register, Refuse, PumpStep, ReadFails, Unregister,
         ReaderEnds, TakePayload, WriteDone, WriterEnds, PeerGone, TokenRunsOut,
         Broadcast, Called, UserIDs, Snapshot, Deliver, CloseAll, hubVars

(* A worker that moves: over only when cancelled, and never again once it  *)
(* is over.                                                                *)
LEMMA WorkerOnly ==
  ASSUME NodeInv, NEW w \in Workers, NEW from \in {"idle", "busy", "asking"},
         NEW to \in {"idle", "busy", "asking", "over"},
         WorkerMoves(w, from, to), to = "over" => cancelled, UNCHANGED done,
         run' = "stopped" => run = "stopped" \/ done
  PROVE  NodeInv'
<1>1. /\ worker[w] = from /\ worker' = [worker EXCEPT ![w] = to]
      /\ UNCHANGED <<pc, draining, running, late, cancelled, inCallback,
                     brokerUp, dbUp>>
  BY DEF WorkerMoves
<1>2. "fanout" \in Workers
  BY DEF Workers, Consumers
<1>3. Clustered' = Clustered
  BY <1>1, <1>2 DEF Clustered, NodeInv, NodeTypeOK
<1>4. NodeTypeOK'
  BY <1>1 DEF NodeInv, NodeTypeOK
<1>5. Order'
  BY <1>1, <1>3 DEF NodeInv, Order
<1>6. Quiet'
  BY <1>1 DEF NodeInv, NodeTypeOK, Quiet
<1> QED
  BY <1>4, <1>5, <1>6 DEF NodeInv

LEMMA BackgroundStep ==
  ASSUME NodeInv, Background
  PROVE  NodeInv'
<1> USE DEF Workers, Consumers
<1>1. CASE RelayDrains
  BY <1>1, HubKeepsDone, WorkerOnly DEF RelayDrains
<1>2. CASE RelayPublishes
  BY <1>2, HubKeepsDone, WorkerOnly DEF RelayPublishes
<1>3. CASE Tick
  BY <1>3, NodeAssumption, HubKeepsDone, WorkerOnly DEF Tick
<1>4. CASE Beat
  BY <1>4, NodeAssumption, HubKeepsDone, WorkerOnly DEF Beat
<1>5. CASE \E w \in Workers : WorkerEnds(w)
  BY <1>5, HubKeepsDone, WorkerOnly DEF WorkerEnds
<1>6. CASE \E c \in Consumers : CallbackStarts(c) \/ CallbackEnds(c)
  <2>1. /\ inCallback' \subseteq Consumers
        /\ UNCHANGED <<pc, draining, running, late, cancelled, worker, brokerUp,
                       dbUp>>
    BY <1>6 DEF CallbackStarts, CallbackEnds, NodeInv, NodeTypeOK
  <2>2. UNCHANGED done /\ (run' = "stopped" => run = "stopped" \/ done)
    BY <1>6, HubKeepsDone DEF CallbackStarts, CallbackEnds
  <2>3. Clustered' = Clustered
    BY <2>1 DEF Clustered
  <2>4. NodeTypeOK'
    BY <2>1 DEF NodeInv, NodeTypeOK
  <2>5. Order' /\ Quiet'
    BY <2>1, <2>2, <2>3 DEF NodeInv, Order, Quiet
  <2> QED
    BY <2>4, <2>5 DEF NodeInv
<1> QED
  BY <1>1, <1>2, <1>3, <1>4, <1>5, <1>6 DEF Background

LEMMA RequestStep ==
  ASSUME NodeInv, NEW r \in Requests, RequestActs(r)
  PROVE  NodeInv'
<1>1. CASE RequestStarts(r) \/ RequestEnds(r)
  <2>1. /\ running' \subseteq Requests
        /\ running' # {} => running # {} \/ pc \in {"up", "http"} \/ late
        /\ UNCHANGED <<done, run, pc, draining, late, cancelled, worker,
                       inCallback, brokerUp, dbUp>>
    BY <1>1 DEF RequestStarts, RequestEnds, Serving, hubVars, NodeInv, NodeTypeOK
  <2>2. Clustered' = Clustered
    BY <2>1 DEF Clustered
  <2>3. NodeTypeOK'
    BY <2>1 DEF NodeInv, NodeTypeOK
  <2>4. Order'
    BY <2>1, <2>2 DEF NodeInv, Order
  <2>5. Quiet'
    BY <2>1 DEF NodeInv, Order, Quiet
  <2> QED
    BY <2>3, <2>4, <2>5 DEF NodeInv
<1>2. CASE AskWhoIsHere(r)
  BY <1>2, NodeAssumption, HubKeepsDone, HubOnly DEF AskWhoIsHere
<1> QED
  BY <1>1, <1>2 DEF RequestActs

LEMMA ShutdownStep ==
  ASSUME NodeInv, Signal \/ Shutdown
  PROVE  NodeInv'
<1> USE DEF NodeInv, NodeTypeOK, Order, Quiet
<1>1. CASE Signal
  BY <1>1 DEF Signal, hubVars, Clustered
<1>2. CASE HTTPShut
  BY <1>2 DEF HTTPShut, hubVars, Clustered
<1>3. CASE HubClose
  BY <1>3 DEF HubClose, CloseDone, Clustered
<1>4. CASE BrokerClose
  BY <1>4 DEF BrokerClose, hubVars, Clustered
<1>5. CASE DBClose
  BY <1>5 DEF DBClose, hubVars, Clustered
<1>6. CASE Exit
  BY <1>6 DEF Exit, hubVars, Clustered
<1> QED
  BY <1>1, <1>2, <1>3, <1>4, <1>5, <1>6 DEF Shutdown

LEMMA NodeSteps ==
  ASSUME NodeInv, [Next]_vars
  PROVE  NodeInv'
<1>1. CASE UNCHANGED vars
  BY <1>1, HubOnly DEF vars, hubVars
<1>2. CASE Gone
  BY <1>2, HubOnly DEF Gone, vars, hubVars
<1>3. CASE HubStep
  BY <1>3, NodeAssumption, HubKeepsDone, HubOnly DEF HubStep
<1>4. CASE \E s \in Sockets : Handshake(s) \/ SocketActs(s) \/ SocketSuffers(s)
  BY <1>4, HubKeepsDone, HubOnly DEF Handshake, SocketActs, SocketSuffers
<1> QED
  BY <1>1, <1>2, <1>3, <1>4, ShutdownStep, BackgroundStep, RequestStep DEF Next

LEMMA NodeInvariant == Spec => []NodeInv
<1>1. Init => NodeInv
  BY NodeStarts
<1>2. NodeInv /\ [Next]_vars => NodeInv'
  BY NodeSteps
<1> QED
  BY <1>1, <1>2, PTL DEF Spec

(* Every variable of a node keeps its type.                                *)
THEOREM NodeTypes == Spec => []TypeOK
<1>1. NodeInv /\ HubInv => TypeOK
  BY DEF NodeInv, NodeTypeOK, HubInv, TypeOK
<1> QED
  BY <1>1, NodeInvariant, NodeImplementsHub, HubInvariant, PTL

(* While /readyz says yes the hub, the relay and the broker are whole      *)
(* (health.go: readyzHandler; server.go: Shutdown).                        *)
THEOREM ReadyIsTrue == Spec => []ReadyMeansWhole
<1>1. NodeInv /\ HubInv => ReadyMeansWhole
  BY DEF NodeInv, NodeTypeOK, Order, Quiet, HubInv, HubTypeOK, ReadyMeansWhole,
         Ready, Alive, Workers
<1> QED
  BY <1>1, NodeInvariant, NodeImplementsHub, HubInvariant, PTL

(* Nothing Shutdown waited for outlives what it closes (server.go:         *)
(* Shutdown, stopBackground).                                              *)
THEOREM NothingClosedIsUsed == Spec => []ClosedIsUnused
<1>1. NodeInv => ClosedIsUnused
  BY DEF NodeInv, NodeTypeOK, Order, Quiet, ClosedIsUnused, Workers
<1> QED
  BY <1>1, NodeInvariant, PTL

(* The relay outlives the requests that may still commit a message, unless *)
(* Shutdown ran out of time for them (server.go: Shutdown).                *)
THEOREM RelayStopsLast == Spec => []RelayOutlivesRequests
<1>1. NodeInv => RelayOutlivesRequests
  BY DEF NodeInv, NodeTypeOK, Order, Quiet, RelayOutlivesRequests, Workers
<1> QED
  BY <1>1, NodeInvariant, PTL

=============================================================================
