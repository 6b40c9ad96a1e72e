-------------------------------- MODULE Hub --------------------------------
(***************************************************************************)
(* internal/ws: one hub goroutine that owns the sockets of a node, and two *)
(* goroutines (readPump, writePump) per socket.                            *)
(*                                                                         *)
(* Run serves one channel operation at a time and nothing it does can      *)
(* block, so one case of its select is one step.  The unbuffered channels  *)
(* register, unregister and snapshot are rendezvous: the step of Run and   *)
(* the step of its partner are the same step.  A goroutine that offers     *)
(* such a rendezvous also selects on done; when both are ready Go chooses  *)
(* either, and so does the model.                                          *)
(*                                                                         *)
(* The connection below a socket is external.  "broken" stands for a peer  *)
(* that is gone, at once visible or silent: reads from it fail sooner or   *)
(* later (pongWait), writes to it fail or vanish.                          *)
(***************************************************************************)
EXTENDS Integers, Sequences, FiniteSets

CONSTANTS
    Sockets,          \* the connections ever upgraded
    Users,
    Owner,            \* Owner[s] is the user whose token opened s
    Askers,           \* the goroutines that call UserIDs
    SendBuffer,       \* sendBuffer
    BroadcastBuffer,  \* broadcastBuffer
    MaxFrames         \* bound: calls of Broadcast in a behaviour

ASSUME HubAssumption ==
    /\ Owner \in [Sockets -> Users]
    /\ IsFiniteSet(Sockets)
    /\ SendBuffer \in Nat \ {0}
    /\ BroadcastBuffer \in Nat \ {0}
    /\ MaxFrames \in Nat

VARIABLES
    clients,   \* h.clients: a user with an entry -> that user's sockets
    open,      \* h.open
    queue,     \* the broadcast channel
    done,      \* the channel h.done is closed
    run,       \* where the goroutine Run is
    asking,    \* the goroutines blocked in UserIDs
    place,     \* where the call of Add for a socket is
    conn,      \* the connection of a socket
    send,      \* c.send: what it buffers
    shut,      \* c.send is closed
    reader,    \* where readPump is
    writer,    \* where writePump is
    out,       \* the payload writePump is writing
    dead,      \* the token behind the socket has run out
    frames,    \* how many calls of Broadcast there were
    due,       \* history: what deliver had for the socket since add
    got,       \* history: what the peer received
    panicked   \* a closed channel was closed, or sent to

hubVars == <<clients, open, queue, done, run, asking, place, conn, send, shut,
             reader, writer, out, dead, frames, due, got, panicked>>

Frame == 1..MaxFrames
Envelope == [users : SUBSET Users, payload : Frame]

Registered == UNION {clients[u] : u \in DOMAIN clients}

HubInit ==
    /\ clients = [u \in {} |-> {}]
    /\ open = 0
    /\ queue = <<>>
    /\ done = FALSE
    /\ run = "select"
    /\ asking = {}
    /\ place = [s \in Sockets |-> "none"]
    /\ conn = [s \in Sockets |-> "open"]
    /\ send = [s \in Sockets |-> <<>>]
    /\ shut = [s \in Sockets |-> FALSE]
    /\ reader = [s \in Sockets |-> "off"]
    /\ writer = [s \in Sockets |-> "off"]
    /\ out = [s \in Sockets |-> <<>>]
    /\ dead = [s \in Sockets |-> FALSE]
    /\ frames = 0
    /\ due = [s \in Sockets |-> <<>>]
    /\ got = [s \in Sockets |-> <<>>]
    /\ panicked = FALSE

----------------------------------------------------------------------------
(***************************************************************************)
(* What Run does to the map of clients.                                    *)
(***************************************************************************)

With(m, s) ==
    [u \in DOMAIN m \cup {Owner[s]} |->
        IF u = Owner[s]
        THEN (IF u \in DOMAIN m THEN m[u] ELSE {}) \cup {s}
        ELSE m[u]]

\* remove deletes the user's entry together with the last socket.
Without(m, gone) ==
    [u \in {v \in DOMAIN m : ~ m[v] \subseteq gone} |-> m[u] \ gone]

\* close(c.send) for a set of sockets, after payloads went to another set.
CloseSend(gone, sent) ==
    /\ shut' = [s \in Sockets |-> shut[s] \/ s \in gone]
    /\ panicked' = (panicked \/ \E s \in gone \cup sent : shut[s])
    /\ open' = open - Cardinality(gone)

RemoveUnchecked(S, sent) ==                                      \* mutant
    /\ clients' = Without(clients, S)
    /\ CloseSend(S, sent)

RemoveKeepsUser(S, sent) ==                                      \* mutant
    LET gone == S \cap Registered
    IN  /\ clients' = [u \in DOMAIN clients |-> clients[u] \ gone]
        /\ CloseSend(gone, sent)

\* remove(c) for every c of S; a client that is already gone is skipped.
Remove(S, sent) ==
    LET gone == S \cap Registered
    IN  /\ clients' = Without(clients, gone)
        /\ CloseSend(gone, sent)

----------------------------------------------------------------------------
(***************************************************************************)
(* A socket arrives: WSHandler upgrades the connection, writes the hello   *)
(* frame and calls Add.                                                    *)
(***************************************************************************)

Upgrade(s) ==
    /\ place[s] = "none"
    /\ place' = [place EXCEPT ![s] = "adding"]
    /\ UNCHANGED <<clients, open, queue, done, run, asking, conn, send, shut,
                   reader, writer, out, dead, frames, due, got, panicked>>

\* The register case of Run, the end of Add, and its two go statements.
Register(s) ==
    /\ place[s] = "adding"
    /\ run = "select"
    /\ clients' = With(clients, s)
    /\ open' = open + 1
    /\ place' = [place EXCEPT ![s] = "in"]
    /\ reader' = [reader EXCEPT ![s] = "reading"]
    /\ writer' = [writer EXCEPT ![s] = "select"]
    /\ UNCHANGED <<queue, done, run, asking, conn, send, shut, out, dead,
                   frames, due, got, panicked>>

Refuse(s) ==
    /\ place[s] = "adding"
    /\ done
    /\ place' = [place EXCEPT ![s] = "refused"]
    /\ conn' = [conn EXCEPT ![s] = "closed"]
    /\ UNCHANGED <<clients, open, queue, done, run, asking, send, shut, reader,
                   writer, out, dead, frames, due, got, panicked>>

----------------------------------------------------------------------------
(***************************************************************************)
(* Broadcast never blocks: the queue takes the envelope, or the hub is     *)
(* closing, or the fan-out is shed.                                        *)
(***************************************************************************)

Called ==
    /\ frames < MaxFrames
    /\ frames' = frames + 1
    /\ UNCHANGED <<clients, open, done, run, asking, place, conn, send, shut,
                   reader, writer, out, dead, due, got, panicked>>

Broadcast(users) ==
    /\ users # {}
    /\ Called
    /\ \/ /\ Len(queue) < BroadcastBuffer
          /\ queue' = Append(queue, [users |-> users, payload |-> frames + 1])
       \/ /\ done \/ Len(queue) = BroadcastBuffer
          /\ UNCHANGED queue

\* The sockets deliver reaches, and those among them whose buffer is full.
Targets(e) == UNION {clients[u] : u \in e.users \cap DOMAIN clients}
Slow(e) == {s \in Targets(e) : Len(send[s]) >= SendBuffer}

Fill(e, fast) ==
    send' = [s \in Sockets |-> IF s \in fast THEN Append(send[s], e.payload)
                                             ELSE send[s]]

DeliverSkipsSlow ==                                              \* mutant
    LET e == Head(queue)
    IN  /\ run = "select"
        /\ queue # <<>>
        /\ queue' = Tail(queue)
        /\ Fill(e, Targets(e) \ Slow(e))
        /\ due' = [s \in Sockets |-> IF s \in Targets(e)
                                     THEN Append(due[s], e.payload)
                                     ELSE due[s]]
        /\ UNCHANGED <<clients, open, shut, panicked, done, run, asking, place,
                       conn, reader, writer, out, dead, frames, got>>

\* The broadcast case of Run: a payload for everyone, and a socket that has
\* no room for it is removed, not skipped.
Deliver ==
    LET e == Head(queue)
    IN  /\ run = "select"
        /\ queue # <<>>
        /\ queue' = Tail(queue)
        /\ Fill(e, Targets(e) \ Slow(e))
        /\ Remove(Slow(e), Targets(e) \ Slow(e))
        /\ due' = [s \in Sockets |-> IF s \in Targets(e)
                                     THEN Append(due[s], e.payload)
                                     ELSE due[s]]
        /\ UNCHANGED <<done, run, asking, place, conn, reader, writer, out,
                       dead, frames, got>>

----------------------------------------------------------------------------
(***************************************************************************)
(* UserIDs and Close.                                                      *)
(***************************************************************************)

UserIDs(a) ==
    /\ a \notin asking
    /\ asking' = asking \cup {a}
    /\ UNCHANGED <<clients, open, queue, done, run, place, conn, send, shut,
                   reader, writer, out, dead, frames, due, got, panicked>>

\* The reply channel is buffered, so Run answers and moves on.
Snapshot(a) ==
    /\ a \in asking
    /\ run = "select" \/ done
    /\ asking' = asking \ {a}
    /\ UNCHANGED <<clients, open, queue, done, run, place, conn, send, shut,
                   reader, writer, out, dead, frames, due, got, panicked>>

CloseDone ==
    /\ ~ done
    /\ done' = TRUE
    /\ UNCHANGED <<clients, open, queue, run, asking, place, conn, send, shut,
                   reader, writer, out, dead, frames, due, got, panicked>>

\* closeAll, and the deferred close(h.stopped).
CloseAll ==
    /\ done
    /\ run = "select"
    /\ run' = "stopped"
    /\ CloseSend(Registered, {})
    /\ clients' = [u \in {} |-> {}]
    /\ UNCHANGED <<queue, done, asking, place, conn, send, reader, writer, out,
                   dead, frames, due, got>>

----------------------------------------------------------------------------
(***************************************************************************)
(* The pumps of a socket.                                                  *)
(***************************************************************************)

ReadFails(s) ==
    /\ reader[s] = "reading"
    /\ conn[s] # "open"
    /\ reader' = [reader EXCEPT ![s] = "leaving"]
    /\ UNCHANGED <<clients, open, queue, done, run, asking, place, conn, send,
                   shut, writer, out, dead, frames, due, got, panicked>>

\* The end of readPump's deferred function.
ReaderEnds(s) ==
    /\ reader[s] = "leaving"
    /\ reader' = [reader EXCEPT ![s] = "over"]
    /\ conn' = [conn EXCEPT ![s] = "closed"]
    /\ UNCHANGED <<queue, done, run, asking, place, send, writer, out, dead,
                   frames, due, got>>

Unregister(s) ==
    \/ /\ run = "select"
       /\ ReaderEnds(s)
       /\ Remove({s}, {})
    \/ /\ done
       /\ ReaderEnds(s)
       /\ UNCHANGED <<clients, open, shut, panicked>>

TakePayload(s) ==
    /\ writer[s] = "select"
    /\ send[s] # <<>>
    /\ out' = [out EXCEPT ![s] = <<Head(send[s])>>]
    /\ send' = [send EXCEPT ![s] = Tail(@)]
    /\ writer' = [writer EXCEPT ![s] = "writing"]
    /\ UNCHANGED <<clients, open, queue, done, run, asking, place, conn, shut,
                   reader, dead, frames, due, got, panicked>>

\* The write returns without an error; a broken connection swallows it.
WriteDone(s) ==
    /\ writer[s] = "writing"
    /\ conn[s] # "closed"
    /\ writer' = [writer EXCEPT ![s] = "select"]
    /\ out' = [out EXCEPT ![s] = <<>>]
    /\ got' = IF conn[s] = "open" THEN [got EXCEPT ![s] = @ \o out[s]] ELSE got
    /\ UNCHANGED <<clients, open, queue, done, run, asking, place, conn, send,
                   shut, reader, dead, frames, due, panicked>>

WriterEndsKeepsConn(s) ==                                        \* mutant
    /\ \/ writer[s] = "writing"
       \/ writer[s] = "select" /\ conn[s] # "open"
       \/ writer[s] = "select" /\ shut[s] /\ send[s] = <<>>
       \/ writer[s] = "select" /\ dead[s]
    /\ writer' = [writer EXCEPT ![s] = "over"]
    /\ UNCHANGED <<clients, open, queue, done, run, asking, place, conn, send,
                   shut, reader, out, dead, frames, due, got, panicked>>

\* writePump returns: a write or a ping failed or ran into writeWait, send is
\* closed and drained, or the token ran out.  The deferred Close follows.
WriterEnds(s) ==
    /\ \/ writer[s] = "writing"
       \/ writer[s] = "select" /\ conn[s] # "open"
       \/ writer[s] = "select" /\ shut[s] /\ send[s] = <<>>
       \/ writer[s] = "select" /\ dead[s]
    /\ writer' = [writer EXCEPT ![s] = "over"]
    /\ conn' = [conn EXCEPT ![s] = "closed"]
    /\ UNCHANGED <<clients, open, queue, done, run, asking, place, send, shut,
                   reader, out, dead, frames, due, got, panicked>>

\* The peer closes, the network fails, or the peer sends more than it may.
PeerGone(s) ==
    /\ place[s] \in {"adding", "in"}
    /\ conn[s] = "open"
    /\ conn' = [conn EXCEPT ![s] = "broken"]
    /\ UNCHANGED <<clients, open, queue, done, run, asking, place, send, shut,
                   reader, writer, out, dead, frames, due, got, panicked>>

\* The moment expiryTimer was set for.
TokenRunsOut(s) ==
    /\ writer[s] \in {"select", "writing"}
    /\ ~ dead[s]
    /\ dead' = [dead EXCEPT ![s] = TRUE]
    /\ UNCHANGED <<clients, open, queue, done, run, asking, place, conn, send,
                   shut, reader, writer, out, frames, due, got, panicked>>

PumpStep(s) ==
    \/ ReadFails(s)
    \/ Unregister(s)
    \/ TakePayload(s)
    \/ WriteDone(s)
    \/ WriterEnds(s)

SocketStep(s) ==
    \/ Register(s)
    \/ Refuse(s)
    \/ PumpStep(s)

HubNext ==
    \/ \E s \in Sockets :
          Upgrade(s) \/ SocketStep(s) \/ PeerGone(s) \/ TokenRunsOut(s)
    \/ \E users \in SUBSET Users : Broadcast(users)
    \/ \E a \in Askers : UserIDs(a) \/ Snapshot(a)
    \/ Deliver
    \/ CloseDone
    \/ CloseAll

HubSpec == HubInit /\ [][HubNext]_hubVars

----------------------------------------------------------------------------
(***************************************************************************)
(* Properties.                                                             *)
(***************************************************************************)

HubTypeOK ==
    /\ DOMAIN clients \subseteq Users
    /\ clients \in [DOMAIN clients -> SUBSET Sockets]
    /\ open \in Nat
    /\ queue \in Seq(Envelope)
    /\ done \in BOOLEAN
    /\ run \in {"select", "stopped"}
    /\ asking \subseteq Askers
    /\ place \in [Sockets -> {"none", "adding", "in", "refused"}]
    /\ conn \in [Sockets -> {"open", "broken", "closed"}]
    /\ send \in [Sockets -> Seq(Frame)]
    /\ shut \in [Sockets -> BOOLEAN]
    /\ reader \in [Sockets -> {"off", "reading", "leaving", "over"}]
    /\ writer \in [Sockets -> {"off", "select", "writing", "over"}]
    /\ out \in [Sockets -> Seq(Frame)]
    /\ dead \in [Sockets -> BOOLEAN]
    /\ frames \in 0..MaxFrames
    /\ due \in [Sockets -> Seq(Frame)]
    /\ got \in [Sockets -> Seq(Frame)]
    /\ panicked \in BOOLEAN

\* No channel is closed twice and none is sent to after it was closed (either
\* panics and takes the node down), although a socket is unregistered by its
\* readPump after deliver or closeAll may already have closed its channel
\* (hub.go: remove, deliver, closeAll).
NoPanic == ~ panicked

\* h.clients holds exactly the sockets that were added and whose channel is
\* still open, under their owner, with no empty entry left behind: UserIDs
\* reports no ghost, and open counts the sockets (hub.go: add, remove,
\* closeAll, localUserIDs).
MapIsExact ==
    /\ \A u \in DOMAIN clients :
          clients[u] # {} /\ \A s \in clients[u] : Owner[s] = u
    /\ \A s \in Sockets : s \in Registered <=> (place[s] = "in" /\ ~ shut[s])
    /\ open = Cardinality(Registered)

\* A socket the hub keeps, and whose connection works, misses nothing that
\* deliver had for it: it holds every frame in order, or it is dropped as a
\* whole.  A hole in one live socket would be invisible to its client until
\* the next frame (hub.go: deliver; client.go: writePump).
KeptMeansComplete ==
    \A s \in Registered :
        conn[s] = "open" => got[s] \o out[s] \o send[s] = due[s]

=============================================================================
