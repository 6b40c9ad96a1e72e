-------------------------------- MODULE Node --------------------------------
(***************************************************************************)
(* internal/server.App and cmd/api: the life of one API node around its    *)
(* hub.  New chooses the mode of the node (with or without NATS, with or   *)
(* without a presence service) and starts the background goroutines;       *)
(* Shutdown takes everything down again in a fixed order, while requests,  *)
(* sockets and callbacks of the NATS client are still under way.           *)
(***************************************************************************)
EXTENDS Hub

CONSTANT Requests     \* REST requests; one may also ask the hub for its users

Consumers == {"fanout", "unread"}
Workers == {"relay", "heartbeat"} \cup Consumers

ASSUME NodeAssumption == Askers = Requests \cup {"heartbeat"}

VARIABLES
    pc,           \* how far Shutdown got
    draining,     \* Server.draining
    running,      \* the REST requests http.Server waits for
    late,         \* http.Server.Shutdown gave up on connections still open
    cancelled,    \* stopBackground was called
    worker,       \* the goroutines startBackground started
    inCallback,   \* the consumers whose callback is running
    brokerUp,     \* the NATS connection is not drained
    dbUp          \* the database pool is open

nodeVars == <<pc, draining, running, late, cancelled, worker, inCallback,
              brokerUp, dbUp>>
vars == <<hubVars, nodeVars>>

Clustered == worker["fanout"] # "off"
Alive == pc # "exited"

----------------------------------------------------------------------------
(***************************************************************************)
(* New and startBackground.                                                *)
(***************************************************************************)

startBackground(nats, presence) ==
    [w \in Workers |->
        IF \/ w = "relay"
           \/ w \in Consumers /\ nats
           \/ w = "heartbeat" /\ presence
        THEN "idle" ELSE "off"]

Init ==
    /\ HubInit
    /\ pc = "up"
    /\ draining = FALSE
    /\ running = {}
    /\ late = FALSE
    /\ cancelled = FALSE
    /\ \E nats, presence \in BOOLEAN : worker = startBackground(nats, presence)
    /\ inCallback = {}
    /\ brokerUp = Clustered
    /\ dbUp = TRUE

----------------------------------------------------------------------------
(***************************************************************************)
(* Traffic.                                                                *)
(***************************************************************************)

\* A connection may bring a request: http.Server accepts, or waits for those it
\* has accepted, or gave up waiting for one.
Serving == pc \in {"up", "http"} \/ late

RequestStarts(r) ==
    /\ Serving
    /\ r \notin running
    /\ running' = running \cup {r}
    /\ UNCHANGED <<hubVars, pc, draining, late, cancelled, worker, inCallback,
                   brokerUp, dbUp>>

RequestEnds(r) ==
    /\ r \in running \ asking
    /\ running' = running \ {r}
    /\ UNCHANGED <<hubVars, pc, draining, late, cancelled, worker, inCallback,
                   brokerUp, dbUp>>

\* onlineMembers without a presence service.
AskWhoIsHere(r) ==
    /\ r \in running
    /\ worker["heartbeat"] = "off"
    /\ UserIDs(r)
    /\ UNCHANGED nodeVars

\* The handshake is served like a request; from the upgrade on, the
\* connection is hijacked and http.Server no longer waits for the handler.
Handshake(s) ==
    /\ Alive
    /\ Serving
    /\ Upgrade(s)
    /\ UNCHANGED nodeVars

HubStep ==
    /\ Alive
    /\ \/ Deliver
       \/ CloseAll
       \/ \E r \in Requests : Snapshot(r)
    /\ UNCHANGED nodeVars

SocketActs(s) ==
    /\ Alive
    /\ SocketStep(s)
    /\ UNCHANGED nodeVars

SocketSuffers(s) ==
    /\ Alive
    /\ PeerGone(s) \/ TokenRunsOut(s)
    /\ UNCHANGED nodeVars

----------------------------------------------------------------------------
(***************************************************************************)
(* The background goroutines.                                              *)
(***************************************************************************)

WorkerMoves(w, from, to) ==
    /\ worker[w] = from
    /\ worker' = [worker EXCEPT ![w] = to]
    /\ UNCHANGED <<pc, draining, running, late, cancelled, inCallback,
                   brokerUp, dbUp>>

WorkerEndsButHeartbeat(w) ==                                     \* mutant
    /\ Alive
    /\ cancelled
    /\ w # "heartbeat"
    /\ WorkerMoves(w, "idle", "over")
    /\ UNCHANGED hubVars

\* Every loop selects on ctx.Done.  (A consumer that cannot be created ends
\* at once; Delivery models that.)
WorkerEnds(w) ==
    /\ Alive
    /\ cancelled
    /\ WorkerMoves(w, "idle", "over")
    /\ UNCHANGED hubVars

RelayDrains ==
    /\ Alive
    /\ WorkerMoves("relay", "idle", "busy")
    /\ UNCHANGED hubVars

\* The last step of a drain: the stream takes the row, or with LocalPublisher
\* the row is counted here and handed to the hub.
RelayPublishes ==
    /\ Alive
    /\ WorkerMoves("relay", "busy", "idle")
    /\ \/ UNCHANGED hubVars
       \/ ~ Clustered /\ \E users \in SUBSET Users : Broadcast(users)

\* runPresence: the ticker, hub.UserIDs, then the RPC with its own deadline.
Tick ==
    /\ Alive
    /\ WorkerMoves("heartbeat", "idle", "asking")
    /\ UserIDs("heartbeat")

Beat ==
    /\ Alive
    /\ WorkerMoves("heartbeat", "asking", "idle")
    /\ Snapshot("heartbeat")

\* The NATS client runs the callbacks of a consumer, one at a time, on a
\* goroutine of its own; sub.Stop ends the subscription and does not wait.
CallbackStarts(c) ==
    /\ Alive
    /\ worker[c] = "idle"
    /\ c \notin inCallback
    /\ inCallback' = inCallback \cup {c}
    /\ UNCHANGED <<hubVars, pc, draining, running, late, cancelled, worker,
                   brokerUp, dbUp>>

\* deliverMessage hands the frame to the hub.  handleUnread applies to the pool,
\* open or closed, and answers (UnreadConsumer has what becomes of it).
CallbackEnds(c) ==
    /\ Alive
    /\ c \in inCallback
    /\ inCallback' = inCallback \ {c}
    /\ IF c = "fanout" THEN \E users \in SUBSET Users : Broadcast(users)
                        ELSE UNCHANGED hubVars
    /\ UNCHANGED <<pc, draining, running, late, cancelled, worker, brokerUp,
                   dbUp>>

----------------------------------------------------------------------------
(***************************************************************************)
(* cmd/api receives the signal; Shutdown, call by call.                    *)
(***************************************************************************)

SignalWithoutDraining ==                                         \* mutant
    /\ pc = "up"
    /\ pc' = "http"
    /\ UNCHANGED <<hubVars, draining, running, late, cancelled, worker,
                   inCallback, brokerUp, dbUp>>

SignalStopsBackground ==                                         \* mutant
    /\ pc = "up"
    /\ pc' = "http"
    /\ draining' = TRUE
    /\ cancelled' = TRUE
    /\ UNCHANGED <<hubVars, running, late, worker, inCallback, brokerUp, dbUp>>

Signal ==
    /\ pc = "up"
    /\ pc' = "http"
    /\ draining' = TRUE
    /\ UNCHANGED <<hubVars, running, late, cancelled, worker, inCallback,
                   brokerUp, dbUp>>

\* http.Server.Shutdown returns, in time or at the caller's deadline, and
\* stopBackground cancels the context of the workers.
HTTPShut ==
    /\ pc = "http"
    /\ pc' = "wait"
    /\ late' \in BOOLEAN /\ (running # {} => late')
    /\ cancelled' = TRUE
    /\ UNCHANGED <<hubVars, draining, running, worker, inCallback, brokerUp,
                   dbUp>>

HubCloseWithoutWait ==                                           \* mutant
    /\ pc = "wait"
    /\ pc' = "hub"
    /\ CloseDone
    /\ UNCHANGED <<draining, running, late, cancelled, worker, inCallback,
                   brokerUp, dbUp>>

\* background.Wait returns and hub.Close begins.
HubClose ==
    /\ pc = "wait"
    /\ \A w \in Workers : worker[w] \in {"off", "over"}
    /\ pc' = "hub"
    /\ CloseDone
    /\ UNCHANGED <<draining, running, late, cancelled, worker, inCallback,
                   brokerUp, dbUp>>

\* hub.Close returns; broker.Close drains and returns at once.
BrokerClose ==
    /\ pc = "hub"
    /\ run = "stopped"
    /\ pc' = "broker"
    /\ brokerUp' = FALSE
    /\ UNCHANGED <<hubVars, draining, running, late, cancelled, worker,
                   inCallback, dbUp>>

DBClose ==
    /\ pc = "broker"
    /\ pc' = "db"
    /\ dbUp' = FALSE
    /\ UNCHANGED <<hubVars, draining, running, late, cancelled, worker,
                   inCallback, brokerUp>>

\* The traces are flushed and main returns: the process is gone.
Exit ==
    /\ pc = "db"
    /\ pc' = "exited"
    /\ UNCHANGED <<hubVars, draining, running, late, cancelled, worker,
                   inCallback, brokerUp, dbUp>>

Gone == ~ Alive /\ UNCHANGED vars

Shutdown == HTTPShut \/ HubClose \/ BrokerClose \/ DBClose \/ Exit

RequestActs(r) == Alive /\ (RequestStarts(r) \/ RequestEnds(r) \/ AskWhoIsHere(r))

Background ==
    \/ RelayDrains \/ RelayPublishes
    \/ Tick \/ Beat
    \/ \E w \in Workers : WorkerEnds(w)
    \/ \E c \in Consumers : CallbackStarts(c) \/ CallbackEnds(c)

Next ==
    \/ Signal
    \/ Shutdown
    \/ HubStep
    \/ Background
    \/ \E r \in Requests : RequestActs(r)
    \/ \E s \in Sockets : Handshake(s) \/ SocketActs(s) \/ SocketSuffers(s)
    \/ Gone

Spec == Init /\ [][Next]_vars

(***************************************************************************)
(* Fairness: the Go scheduler runs every goroutine that can run, a select  *)
(* chooses at random among the cases that are ready (so done and ctx.Done, *)
(* ready again and again, are chosen), and a read or a write on a          *)
(* connection has a deadline.  No request has to end, no signal has to     *)
(* come, nobody has to send anything.                                      *)
(***************************************************************************)
Reader(s) == Alive /\ (ReadFails(s) \/ Unregister(s)) /\ UNCHANGED nodeVars
Writer(s) ==
    /\ Alive
    /\ TakePayload(s) \/ WriteDone(s) \/ WriterEnds(s)
    /\ UNCHANGED nodeVars

FairSpec ==
    /\ Spec
    /\ WF_vars(Shutdown)
    /\ SF_vars(HubStep /\ CloseAll)
    /\ SF_vars(\E w \in Workers : WorkerEnds(w))
    /\ WF_vars(RelayPublishes \/ Beat)
    /\ \A s \in Sockets : WF_vars(Reader(s)) /\ WF_vars(Writer(s))

----------------------------------------------------------------------------
(***************************************************************************)
(* Properties.                                                             *)
(***************************************************************************)

TypeOK ==
    /\ HubTypeOK
    /\ pc \in {"up", "http", "wait", "hub", "broker", "db", "exited"}
    /\ running \subseteq Requests
    /\ {draining, late, cancelled, brokerUp, dbUp} \subseteq BOOLEAN
    /\ worker \in [Workers -> {"off", "idle", "busy", "asking", "over"}]
    /\ inCallback \subseteq Consumers

\* readyzHandler.
Ready == ~ draining /\ dbUp

\* While /readyz says yes, everything a message needs is there: the hub runs,
\* the relay runs, nothing is closed (health.go: readyzHandler; Shutdown fails
\* the probe before it touches anything else).
ReadyMeansWhole ==
    (Alive /\ Ready) =>
        /\ run = "select" /\ ~ done
        /\ worker["relay"] # "over"
        /\ brokerUp = Clustered

\* Nothing the node waits for uses what is already closed: no goroutine of
\* startBackground outlives the hub, the broker or the pool, and a request
\* does only when Shutdown ran out of time for it (server.go: Shutdown).
\* Callbacks of the NATS client are not among what it waits for: one of
\* ConsumeUnread may find the pool closed, fails, and its entry comes again.
ClosedIsUnused ==
    done =>
        /\ \A w \in Workers : worker[w] \in {"off", "over"}
        /\ running # {} => late

\* While a request may still commit a message, this node's relay is not told
\* to stop, unless Shutdown ran out of time (server.go: the order of
\* HTTP.Shutdown and stopBackground).
RelayOutlivesRequests == (running # {} /\ worker["relay"] = "over") => late

\* A shutdown ends, whatever the sockets, the requests and the callbacks are
\* doing when the signal comes (server.go: Shutdown; hub.go: Close).
ShutdownEnds == (pc = "http") ~> ~ Alive

\* A socket whose peer is gone, whose token has run out or that was dropped
\* for being slow leaves nothing behind: both pumps end and the hub forgets it
\* (client.go: readPump, writePump).
NoSocketLingers ==
    \A s \in Sockets :
        (place[s] = "in" /\ (conn[s] # "open" \/ dead[s] \/ shut[s]))
            ~> (~ Alive \/ (/\ reader[s] = "over" /\ writer[s] = "over"
                            /\ s \notin Registered))

=============================================================================
