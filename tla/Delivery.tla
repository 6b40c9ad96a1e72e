------------------------------ MODULE Delivery ------------------------------
(***************************************************************************)
(* One room, from the committed message to the screen of one member.  Live *)
(* push is best effort; the sequence number is what makes a hole visible,  *)
(* and GET ?after_seq= is what repairs it.                                 *)
(*                                                                         *)
(* What is below this module is taken as it was shown elsewhere: seqs are  *)
(* committed in order without gaps and the relay publishes a room in that  *)
(* order (Outbox), a registered socket gets what is broadcast or is closed *)
(* (Hub), JetStream keeps one copy of an outbox row inside its window.     *)
(*                                                                         *)
(* The client does what either client of this repository does: the page    *)
(* (web/index.html: openRoom, addMessage, repairGap, the composer) and     *)
(* cmd/gapcheck (fillFromGap, which starts below the lowest hole).         *)
(***************************************************************************)
EXTENDS Integers, Sequences, FiniteSets, SequencesExt

CONSTANTS
    Nodes,
    Clustered,     \* NATS_URL is set
    DefaultPageSize, MaxPageSize,
    GapLimit,      \* ?limit= of a gap page, and 0 for none
    HistoryLimit,  \* ?limit= of a history page, and 0 for none
    Buffer,        \* frames the hub and the socket hold for the client
    MaxSeq,        \* bound: messages in the room
    MaxFaults      \* bound: processes that die, consumers and entries that are lost

ASSUME DeliveryAssumption ==
    /\ Clustered \in BOOLEAN /\ Buffer \in Nat \ {0}
    /\ {DefaultPageSize, MaxPageSize} \subseteq Nat \ {0}
    /\ DefaultPageSize <= MaxPageSize
    /\ {GapLimit, HistoryLimit} \subseteq Nat
    /\ MaxSeq \in Nat /\ MaxFaults \in Nat

VARIABLES
    member,      \* the client is in the room (conversation_members)
    committed,   \* messages of the room in Postgres: seqs 1..committed
    pending,     \* seqs whose outbox row is not stamped
    mode,        \* App.New: "nats", "local", or "down" for a dead process
    stream,      \* CHAT: the seqs published (external)
    told,        \* seqs whose envelope in the stream names the client
    feed,        \* SubscribeFanout on a node: "making" the consumer, "on" or "none"
    fan,         \* next entry of consumer "fanout-n" on the broker, or NoConsumer
    faults,
    sock,        \* the client's socket: where, and "off", "open" or "in"
    wire,        \* frames between the hub and the client
    seen,        \* state.seen; maxSeq is always its maximum
    floor,       \* history at or below this seq was not loaded
    opening,     \* openRoom waits for its history page
    repair,      \* repairGap or fillFromGap
    mine,        \* own POSTs without an answer yet
    excused      \* history: unseen seqs with one of the causes named below

serverVars == <<member, committed, pending, mode, stream, told, feed, fan,
                faults>>
clientVars == <<sock, wire, seen, floor, opening, repair, mine, excused>>
vars == <<serverVars, clientVars>>

NoConsumer == 0
Seqs == 1..MaxSeq
NoRepair == [st |-> "none", base |-> 0, after |-> 0, fill |-> FALSE]
Off == [st |-> "off", node |-> "none"]

highest(qs) == IF qs = {} THEN 0 ELSE CHOOSE q \in qs : \A p \in qs : p <= q

\* CreateConversation has made the room, with or without the client.
Init ==
    /\ member \in BOOLEAN
    /\ committed = 0
    /\ pending = {}
    /\ mode = [n \in Nodes |-> "down"]
    /\ stream = <<>>
    /\ told = {}
    /\ feed = [n \in Nodes |-> "none"]
    /\ fan = [n \in Nodes |-> NoConsumer]
    /\ faults = 0
    /\ sock = Off
    /\ wire = <<>>
    /\ seen = {}
    /\ floor = 0
    /\ opening = FALSE
    /\ repair = NoRepair
    /\ mine = {}
    /\ excused = {}

----------------------------------------------------------------------------
(***************************************************************************)
(* Processes.  NATS being down is a step that needs it not happening yet.  *)
(***************************************************************************)

\* FromEnv and New: without NATS at this moment the process delivers locally
\* for its whole life.  With it, startBackground leaves SubscribeFanout to a
\* goroutine; the sockets do not wait for it.
Start(n) ==
    /\ mode[n] = "down"
    /\ \/ /\ Clustered
          /\ mode' = [mode EXCEPT ![n] = "nats"]
          /\ feed' = [feed EXCEPT ![n] = "making"]
       \/ /\ mode' = [mode EXCEPT ![n] = "local"]
          /\ UNCHANGED feed
    /\ UNCHANGED <<member, committed, pending, stream, told, fan, faults,
                   clientVars>>

\* The client's socket is gone; what was on its way is lost.
Cut == sock' = Off /\ wire' = <<>>

Fault == faults < MaxFaults /\ faults' = faults + 1

\* The process dies; its consumer outlives it on the broker.
Die(n) ==
    /\ mode[n] # "down"
    /\ Fault
    /\ mode' = [mode EXCEPT ![n] = "down"]
    /\ feed' = [feed EXCEPT ![n] = "none"]
    /\ IF sock.node = n THEN Cut ELSE UNCHANGED <<sock, wire>>
    /\ UNCHANGED <<member, committed, pending, stream, told, fan, seen, floor, opening,
                   repair, mine, excused>>

----------------------------------------------------------------------------
(***************************************************************************)
(* From the outbox to the hub of each node.                                *)
(***************************************************************************)

\* One row of the join of the room and its members.
EnsureMember == member

\* Every handler of a room asks first, and answers 404 to a stranger.
memberOnly == EnsureMember

\* SendMessageHandler by someone else, or by this client (composer): then the
\* answer comes later.
Commit(own) ==
    /\ committed < MaxSeq
    /\ own => memberOnly
    /\ \E n \in Nodes : mode[n] # "down"
    /\ committed' = committed + 1
    /\ pending' = pending \cup {committed'}
    /\ mine' = IF own THEN mine \cup {committed'} ELSE mine
    /\ UNCHANGED <<member, mode, stream, told, feed, fan, faults, sock, wire,
                   seen, floor, opening, repair, excused>>

\* ListConversationMemberIDs, read by the relay when it publishes.
Named == member

\* AddMemberHandler, by someone who is in the room.
AddMember ==
    /\ ~ member
    /\ member' = TRUE
    /\ UNCHANGED <<committed, pending, mode, stream, told, feed, fan, faults,
                   clientVars>>

\* deliverMessage on node n: Broadcast puts the frame in the queue or drops
\* it; a full socket is closed.  A socket that is not registered yet gets
\* nothing.  A copy is written whether or not the client has it already.
Deliver(n, q) ==
    \/ /\ sock.st = "in" /\ sock.node = n
       /\ \/ Len(wire) < Buffer /\ wire' = Append(wire, q) /\ UNCHANGED <<sock, excused>>
          \/ excused' = excused \cup ({q} \ seen) /\ UNCHANGED <<sock, wire>>
          \/ Len(wire) = Buffer /\ Cut /\ UNCHANGED excused
    \/ /\ sock.st = "open" /\ sock.node = n
       /\ excused' = excused \cup ({q} \ seen)
       /\ UNCHANGED <<sock, wire>>
    \/ /\ sock.st = "off" \/ sock.node # n
       /\ UNCHANGED <<sock, wire, excused>>

\* The relay stamps the row, or dies or fails before it does.
Stamp(q) == pending' \in {pending, pending \ {q}}

Lowest(q) == q \in pending /\ \A p \in pending : q <= p

\* No entry published now reaches the sockets of the node: it started without
\* NATS, has no consumer yet, could not make one, or lost it.
Deaf(n) == feed[n] = "none" \/ fan[n] = NoConsumer

PublishWithoutId(n, q) ==                                        \* mutant
    /\ mode[n] = "nats"
    /\ Lowest(q)
    /\ Len(stream) < MaxSeq + 1
    /\ stream' = Append(stream, q)
    /\ Stamp(q)
    /\ UNCHANGED <<member, committed, mode, told, feed, fan, faults, clientVars>>

\* Broker.Publish: JetStream drops a second copy of the same row.
PublishNats(n, q) ==
    /\ mode[n] = "nats"
    /\ Lowest(q)
    /\ IF Contains(stream, q)
       THEN UNCHANGED <<stream, told, excused>>
       ELSE /\ stream' = Append(stream, q)
            /\ told' = IF Named THEN told \cup {q} ELSE told
            /\ excused' = IF ~ Named \/ (sock # Off /\ Deaf(sock.node))
                          THEN excused \cup ({q} \ seen) ELSE excused
    /\ Stamp(q)
    /\ UNCHANGED <<member, committed, mode, feed, fan, faults, sock, wire, seen,
                   floor, opening, repair, mine>>

\* LocalPublisher.Publish: a socket on any other node is not told.
PublishLocal(n, q) ==
    /\ mode[n] = "local"
    /\ Lowest(q)
    /\ IF ~ Named \/ (sock # Off /\ sock.node # n)
       THEN excused' = excused \cup ({q} \ seen) /\ UNCHANGED <<sock, wire>>
       ELSE Deliver(n, q)
    /\ Stamp(q)
    /\ UNCHANGED <<member, committed, mode, stream, told, feed, fan, faults,
                   seen, floor, opening, repair, mine>>

\* What consumer "fanout-n" has not handed over.
Unread(n) == {stream[i] : i \in {j \in DOMAIN stream : fan[n] \in 1..j}}

\* The sockets of the node will not be told of these entries.
Missed(n, qs) ==
    excused' = IF sock.node = n THEN excused \cup ((qs \cap told) \ seen)
                                ELSE excused

\* CreateConsumer: the consumer starts with the next entry (DeliverNew) or is
\* found again by its name where the last process of the node left it.
Subscribe(n) ==
    /\ feed[n] = "making"
    /\ feed' = [feed EXCEPT ![n] = "on"]
    /\ fan' = [fan EXCEPT ![n] = IF @ = NoConsumer THEN Len(stream) + 1 ELSE @]
    /\ UNCHANGED <<member, committed, pending, mode, stream, told, faults,
                   clientVars>>

\* SubscribeFanout returns, for the life of the process: the consumer could not
\* be made or read, or Shutdown ended its context.
SubscriptionEnds(n) ==
    /\ Fault
    /\ feed[n] # "none"
    /\ feed' = [feed EXCEPT ![n] = "none"]
    /\ Missed(n, Unread(n))
    /\ UNCHANGED <<member, committed, pending, mode, stream, told, fan,
                   sock, wire, seen, floor, opening, repair, mine>>

\* InactiveThreshold: the broker drops a consumer that nobody read for five
\* minutes, because the node is dead or cannot reach it.  Only a new process
\* makes another one.
ConsumerExpires(n) ==
    /\ Fault
    /\ fan[n] # NoConsumer
    /\ fan' = [fan EXCEPT ![n] = NoConsumer]
    /\ feed' = [feed EXCEPT ![n] = IF @ = "on" THEN "none" ELSE @]
    /\ Missed(n, Unread(n))
    /\ UNCHANGED <<member, committed, pending, mode, stream, told,
                   sock, wire, seen, floor, opening, repair, mine>>

\* AckNonePolicy: an entry handed to a connection of the node that breaks, or to
\* a process of it that died, is not sent again; nor is one older than maxAge.
EntryLost(n) ==
    /\ Fault
    /\ fan[n] \in DOMAIN stream
    /\ fan' = [fan EXCEPT ![n] = @ + 1]
    /\ Missed(n, {stream[fan[n]]})
    /\ UNCHANGED <<member, committed, pending, mode, stream, told, feed,
                   sock, wire, seen, floor, opening, repair, mine>>

\* The callback of SubscribeFanout on node n.
FanOut(n) ==
    /\ feed[n] = "on"
    /\ fan[n] \in DOMAIN stream
    /\ IF stream[fan[n]] \in told THEN Deliver(n, stream[fan[n]])
       ELSE UNCHANGED <<sock, wire, excused>>
    /\ fan' = [fan EXCEPT ![n] = @ + 1]
    /\ UNCHANGED <<member, committed, pending, mode, stream, told, feed, faults,
                   seen, floor, opening, repair, mine>>

----------------------------------------------------------------------------
(***************************************************************************)
(* The pages of the API.                                                   *)
(***************************************************************************)

NoCursor == -1

GapIfAboveZero(rawAfter, rawLimit) ==                            \* mutant
    [gap |-> rawAfter > 0, afterSeq |-> rawAfter,
     limit |-> IF rawLimit = 0 THEN DefaultPageSize
               ELSE Min({rawLimit, MaxPageSize})]

\* The parsed query.  after_seq=0 is a gap read too; a limit above the maximum
\* is lowered without a word.  before_id is sent by neither client.
pageParams(rawAfter, rawLimit) ==
    [gap |-> rawAfter # NoCursor, afterSeq |-> rawAfter,
     limit |-> IF rawLimit = 0 THEN DefaultPageSize
               ELSE Min({rawLimit, MaxPageSize})]

AfterSeqSkipsOne(after, limit) ==                                \* mutant
    {q \in 1..committed : q > after + 1 /\ q <= after + 1 + limit}

\* seq > after, oldest first, up to the limit; the room has no gaps.
ListMessagesAfterSeq(after, limit) ==
    {q \in 1..committed : q > after /\ q <= after + limit}

\* Newest first, up to the limit.
ListMessages(limit) == {q \in 1..committed : q > committed - limit}

\* One page of GET /conversations/:id/messages.
ListMessagesHandler(query) ==
    IF query.gap THEN ListMessagesAfterSeq(query.afterSeq, query.limit)
                 ELSE ListMessages(query.limit)

\* listGap: where the next page starts, when this one is full.
NextAfterSeq(page) == highest(page)

----------------------------------------------------------------------------
(***************************************************************************)
(* The client.                                                             *)
(***************************************************************************)

Show(qs) == seen' = seen \cup qs /\ excused' = excused \ qs

\* A repair starts from the highest seq on screen; the holes below are not
\* asked for.
RepairGap ==
    /\ repair' = [st |-> "running", base |-> highest(seen),
                  after |-> highest(seen), fill |-> FALSE]
    /\ excused' = excused \cup ((floor + 1)..highest(seen) \ seen)

RepairOnce ==                                                    \* mutant
    /\ sock = Off
    /\ \E n \in Nodes : mode[n] # "down" /\ sock' = [st |-> "open", node |-> n]
    /\ IF repair.st = "done" THEN UNCHANGED <<repair, excused>> ELSE RepairGap
    /\ UNCHANGED <<serverVars, wire, seen, floor, opening, mine>>

\* WSHandler upgrades and says hello; the page starts its repair at once.
Connect ==
    /\ sock = Off
    /\ \E n \in Nodes : mode[n] # "down" /\ sock' = [st |-> "open", node |-> n]
    /\ RepairGap
    /\ UNCHANGED <<serverVars, wire, seen, floor, opening, mine>>

\* hub.Add, after the hello.
Register ==
    /\ sock.st = "open"
    /\ sock' = [sock EXCEPT !.st = "in"]
    /\ UNCHANGED <<serverVars, wire, seen, floor, opening, repair, mine, excused>>

\* The network, the token's expiry, a full socket, a refusal.
SocketDies ==
    /\ sock # Off
    /\ Cut
    /\ UNCHANGED <<serverVars, seen, floor, opening, repair, mine, excused>>

\* onmessage: addMessage drops a copy.
Frame ==
    /\ wire # <<>>
    /\ Show({Head(wire)})
    /\ wire' = Tail(wire)
    /\ UNCHANGED <<serverVars, sock, floor, opening, repair, mine>>

\* One page of a repair, which ends with the first page that is not full.
GapPage ==
    /\ repair.st = "running"
    /\ memberOnly
    /\ LET query == pageParams(repair.after, GapLimit)
           page == ListMessagesHandler(query)
       IN  /\ Show(page)
           /\ repair' = IF Cardinality(page) = query.limit
                        THEN [repair EXCEPT !.after = NextAfterSeq(page)]
                        ELSE [repair EXCEPT !.after = committed, !.st = "done"]
    /\ UNCHANGED <<serverVars, sock, wire, floor, opening, mine>>

\* The page could not be read (a 404 for a stranger, a 429, a 500, no answer),
\* and nobody tries again.
GapFails ==
    /\ repair.st = "running"
    /\ repair' = NoRepair
    /\ UNCHANGED <<serverVars, sock, wire, seen, floor, opening, mine, excused>>

\* fillFromGap: from below the lowest seq that is missing.
FillFromGap ==
    /\ repair.st # "running"
    /\ \E q \in (floor + 1)..committed :
          /\ q \notin seen
          /\ (floor + 1)..(q - 1) \subseteq seen
          /\ repair' = [st |-> "running", base |-> q - 1, after |-> q - 1,
                        fill |-> TRUE]
    /\ UNCHANGED <<serverVars, sock, wire, seen, floor, opening, mine, excused>>

\* The rooms the page can open: those of GET /conversations.
ListConversations == member

\* openRoom forgets the room and loads the newest page of history.
OpenRoom ==
    /\ ~ opening
    /\ ListConversations
    /\ opening' = TRUE
    /\ seen' = {}
    /\ excused' = {}
    /\ UNCHANGED <<serverVars, sock, wire, floor, repair, mine>>

History ==
    /\ opening
    /\ memberOnly
    /\ opening' = FALSE
    /\ LET page == ListMessagesHandler(pageParams(NoCursor, HistoryLimit))
       IN  /\ Show(page)
           /\ floor' = committed - Cardinality(page)
    /\ UNCHANGED <<serverVars, sock, wire, repair, mine>>

\* The POST answers and the message is shown at once.
Reply(q) ==
    /\ q \in mine
    /\ mine' = mine \ {q}
    /\ Show({q})
    /\ UNCHANGED <<serverVars, sock, wire, floor, opening, repair>>

----------------------------------------------------------------------------

\* The client's steps, in any order its network and its user cause.
ClientStep ==
    \/ Connect \/ Register \/ SocketDies \/ Frame
    \/ GapPage \/ GapFails \/ FillFromGap
    \/ OpenRoom \/ History
    \/ \E q \in mine : Reply(q)

Next ==
    \/ \E n \in Nodes :
          \/ Start(n) \/ Die(n)
          \/ Subscribe(n) \/ SubscriptionEnds(n) \/ ConsumerExpires(n)
          \/ EntryLost(n) \/ FanOut(n)
          \/ \E q \in pending : PublishNats(n, q) \/ PublishLocal(n, q)
    \/ \E own \in BOOLEAN : Commit(own)
    \/ AddMember
    \/ ClientStep

Spec == Init /\ [][Next]_vars

----------------------------------------------------------------------------
(***************************************************************************)
(* Properties.                                                             *)
(***************************************************************************)

\* Every variable keeps its type; what is pending or in the stream was
\* committed, nobody is told of a message that is not, and a socket is on a
\* node that runs.
TypeOK ==
    /\ committed \in 0..MaxSeq
    /\ pending \subseteq 1..committed
    /\ told \subseteq ToSet(stream) /\ member \in BOOLEAN
    /\ mode \in [Nodes -> {"nats", "local", "down"}]
    /\ stream \in Seq(Seqs)
    /\ ToSet(stream) \subseteq 1..committed /\ IsInjective(stream)
    /\ feed \in [Nodes -> {"none", "making", "on"}]
    /\ fan \in [Nodes -> 0..(Len(stream) + 1)]
    /\ \A n \in Nodes : /\ feed[n] # "none" => mode[n] = "nats"
                        /\ feed[n] = "on" => fan[n] # NoConsumer
    /\ faults \in 0..MaxFaults
    /\ sock \in {Off} \cup [st : {"open", "in"}, node : Nodes]
    /\ sock # Off => mode[sock.node] # "down"
    /\ wire \in Seq(Seqs)
    /\ ToSet(wire) \subseteq 1..committed /\ Len(wire) <= Buffer
    /\ seen \cup mine \cup excused \subseteq 1..committed
    /\ floor \in 0..committed /\ opening \in BOOLEAN
    /\ repair \in [st : {"none", "running", "done"}, base : 0..committed,
                   after : 0..committed, fill : BOOLEAN]
    /\ Clustered \/ \A n \in Nodes : mode[n] # "nats"

\* The frame of q is still on its way to the client's node, or its row is.
Coming(q) ==
    \/ q \in pending \cup mine
    \/ Contains(wire, q)
    \/ q \in told \cap Unread(sock.node) /\ ~ Deaf(sock.node)

\* consume.go:45-51, ws.go:147-149, gapcheck/main.go:178-189: a client that
\* opened its socket first and then read the gap to its end holds the whole
\* room, except for what is still on its way and for holes with a known cause:
\* while the socket was open, the hub dropped the frame or did not have the
\* socket yet; the entry was lost on the way to its node, or with its node's
\* consumer; or it was published where that node does not read, by a node
\* without NATS or when this one had no consumer; the envelope was made before
\* the client was in the room; or the repair began above it.  Nothing sent
\* while the client was away is lost, whatever became of it then.
HolesHaveACause ==
    (sock.st = "in" /\ repair.st = "done" /\ ~ opening) =>
        \A q \in (floor + 1)..committed :
            \/ q \in seen \cup excused
            \/ Coming(q)

\* conversations.go:392-398, gapcheck/main.go:513-515: a repair over several
\* pages, with messages arriving between them, leaves no hole behind its
\* cursor.
PagesLeaveNoHole ==
    ~ opening => (IF repair.base < floor THEN floor ELSE repair.base) + 1
                   ..repair.after \subseteq seen

\* gapcheck/main.go:241-243, 304-308: after the last gap read, begun below the
\* lowest hole, everything committed by then is held, whatever was dropped,
\* cut or published where this client was not.
FillLosesNothing ==
    (repair.st = "done" /\ repair.fill /\ ~ opening) =>
        (floor + 1)..repair.after \subseteq seen

=============================================================================
