-------------------------------- MODULE Outbox --------------------------------
(***************************************************************************)
(* The message path up to the broker: database.CreateMessage run by many   *)
(* HTTP handlers, the outbox table, the relay that every node runs, and    *)
(* the JetStream stream the relay publishes to.                            *)
(*                                                                         *)
(* A handler is one call of CreateMessage; its statements are separate     *)
(* steps, because another handler, a relay or a crash may come between     *)
(* them.  A relay is the goroutine Relay.Run of one node; the rows it read *)
(* with FetchOutbox are local to it, and the table may change under it.    *)
(*                                                                         *)
(* Left out: the text of a message and its encoding (a payload written by  *)
(* Encode always decodes, so the "not readable" branch of Drain cannot be  *)
(* taken), the columns attempts and last_error (nothing reads them at run  *)
(* time), metrics and traces, and the inbox half of clean, which is in     *)
(* module UnreadConsumer with the table it cleans.                         *)
(***************************************************************************)
EXTENDS Naturals, Sequences, FiniteSets

CONSTANTS
  Rooms,      \* conversations
  Senders,    \* users that send
  Keys,       \* values of client_msg_id
  NoKey,      \* a send without a client_msg_id
  Handlers,   \* concurrent calls of CreateMessage
  Nodes,      \* processes that run a relay
  Nobody,     \* "no handler" and "no node"
  BatchSize,  \* rows one FetchOutbox returns at most
  MaxSeq,     \* bound: messages per room
  MaxId,      \* bound: outbox ids handed out
  MaxCopies,  \* bound: copies of one row on the stream
  MaxStops    \* bound: relay crashes and shutdowns together

ASSUME OutboxAssumption ==
  /\ Rooms # {} /\ Senders # {}
  /\ NoKey \notin Keys
  /\ Nobody \notin Handlers \cup Nodes
  /\ BatchSize \in Nat \ {0}
  /\ MaxSeq \in Nat /\ MaxId \in Nat /\ MaxCopies \in Nat /\ MaxStops \in Nat

VARIABLES
  \* Postgres
  messages,   \* committed messages, each with the id of its outbox row
  lastSeq,    \* conversations.last_seq, as committed
  rowLock,    \* the handler whose transaction holds the conversation row
  nextId,     \* the outbox id sequence; a rollback does not give an id back
  pending,    \* outbox rows whose published_at is NULL
  stamped,    \* outbox rows whose published_at is set, until they are deleted
  lockHolder, \* the node whose session holds the relay's advisory lock
  \* handlers
  hpc,
  req,        \* the message a call is writing, then the one it returns
  \* relays
  rpc,
  batch,      \* rows of the current Drain that were not tried yet
  done,       \* rows of the current Drain that the broker acknowledged
  stopping,   \* the node's context is cancelled
  stops,      \* counts crashes and shutdowns, for the bound
  \* the broker
  stream,     \* CHAT: rows in the order the broker stored them
  window,     \* message ids inside JetStream's duplicate window
  wire        \* publishes given up by the relay that may still arrive

dbVars      == <<messages, lastSeq, rowLock, nextId>>
tableVars   == <<pending, stamped>>
handlerVars == <<hpc, req>>
relayVars   == <<rpc, batch, done, stopping, stops>>
brokerVars  == <<stream, window, wire>>

vars == <<dbVars, tableVars, lockHolder, handlerVars, relayVars, brokerVars>>

-----------------------------------------------------------------------------
(* A message, and also its outbox row: the payload column repeats every    *)
(* field of the message, so one record stands for both.                    *)
Message == [id : Nat, room : Rooms, seq : Nat, sender : Senders,
            key : Keys \cup {NoKey}]

(* idle - locked - inserted - reply, or idle - locked - reload - reply.    *)
HandlerState == {"idle", "locked", "inserted", "reload", "reply"}
(* follow: asks for the lock; lead: in runLeader, between two Drains;      *)
(* drain: at a row of the batch; mark: about to stamp the rows.            *)
RelayState   == {"down", "follow", "lead", "drain", "mark"}

TypeOK ==
  /\ messages \subseteq Message
  /\ lastSeq \in [Rooms -> Nat]
  /\ rowLock \in [Rooms -> Handlers \cup {Nobody}]
  /\ nextId \in Nat
  /\ pending \subseteq Message
  /\ stamped \subseteq Message
  /\ lockHolder \in Nodes \cup {Nobody}
  /\ hpc \in [Handlers -> HandlerState]
  /\ req \in [Handlers -> Message]
  /\ rpc \in [Nodes -> RelayState]
  /\ batch \in [Nodes -> SUBSET Message]
  /\ done \in [Nodes -> SUBSET Message]
  /\ \A n \in Nodes : batch[n] # {} <=> rpc[n] = "drain"
  /\ stopping \in [Nodes -> BOOLEAN]
  /\ stops \in Nat
  /\ stream \in Seq(Message)
  /\ window \subseteq Nat
  /\ wire \subseteq Message

(* The content of req[h] when h runs no call; its fields mean nothing.     *)
Blank == [id |-> 0, room |-> CHOOSE c \in Rooms : TRUE, seq |-> 0,
          sender |-> CHOOSE s \in Senders : TRUE, key |-> NoKey]

(* The rows the broker has stored at least once.                           *)
Published == {stream[i] : i \in DOMAIN stream}

Init ==
  /\ messages = {}
  /\ lastSeq = [c \in Rooms |-> 0]
  /\ rowLock = [c \in Rooms |-> Nobody]
  /\ nextId = 1
  /\ pending = {}
  /\ stamped = {}
  /\ lockHolder = Nobody
  /\ hpc = [h \in Handlers |-> "idle"]
  /\ req = [h \in Handlers |-> Blank]
  /\ rpc = [n \in Nodes |-> "follow"]
  /\ batch = [n \in Nodes |-> {}]
  /\ done = [n \in Nodes |-> {}]
  /\ stopping = [n \in Nodes |-> FALSE]
  /\ stops = 0
  /\ stream = <<>>
  /\ window = {}
  /\ wire = {}

-----------------------------------------------------------------------------
(* CreateMessage                                                           *)

(* UPDATE conversations ... RETURNING last_seq.  The statement waits until *)
(* no other transaction holds the row, and its increment is seen by nobody *)
(* else until the commit.                                                  *)
AllocateSeq(h, c, s, k) ==
  /\ hpc[h] = "idle"
  /\ rowLock[c] = Nobody
  /\ lastSeq[c] < MaxSeq
  /\ rowLock' = [rowLock EXCEPT ![c] = h]
  /\ hpc' = [hpc EXCEPT ![h] = "locked"]
  /\ req' = [req EXCEPT ![h] = [id |-> 0, room |-> c, seq |-> lastSeq[c] + 1,
                                sender |-> s, key |-> k]]
  /\ UNCHANGED <<messages, lastSeq, nextId, tableVars, lockHolder,
                 relayVars, brokerVars>>

(* The unique index on (conversation_id, sender_id, client_msg_id).        *)
SameKey(m, r) == /\ r.key # NoKey
                 /\ m.room = r.room /\ m.sender = r.sender /\ m.key = r.key

(* Mutant: no unique index on client_msg_id.                               *)
NeverDuplicate(r) == FALSE

Duplicate(r) == \E m \in messages : SameKey(m, r)

(* The message row and the outbox row are inserted; the outbox row takes   *)
(* the next id of its sequence.                                            *)
InsertRows(h) ==
  /\ hpc[h] = "locked"
  /\ ~Duplicate(req[h])
  /\ nextId <= MaxId
  /\ hpc' = [hpc EXCEPT ![h] = "inserted"]
  /\ req' = [req EXCEPT ![h] = [id |-> nextId, room |-> @.room, seq |-> @.seq,
                                sender |-> @.sender, key |-> @.key]]
  /\ nextId' = nextId + 1
  /\ UNCHANGED <<messages, lastSeq, rowLock, tableVars, lockHolder,
                 relayVars, brokerVars>>

(* Mutant: the increment of last_seq is kept when the insert is refused.   *)
InsertDuplicateBurnsSeq(h) ==
  /\ hpc[h] = "locked"
  /\ Duplicate(req[h])
  /\ lastSeq' = [lastSeq EXCEPT ![req[h].room] = req[h].seq]
  /\ rowLock' = [rowLock EXCEPT ![req[h].room] = Nobody]
  /\ hpc' = [hpc EXCEPT ![h] = "reload"]
  /\ UNCHANGED <<messages, nextId, tableVars, lockHolder, req,
                 relayVars, brokerVars>>

(* The insert hits the unique index: the transaction rolls back, the       *)
(* increment of last_seq with it, and the first message is read again.     *)
InsertDuplicate(h) ==
  /\ hpc[h] = "locked"
  /\ Duplicate(req[h])
  /\ rowLock' = [rowLock EXCEPT ![req[h].room] = Nobody]
  /\ hpc' = [hpc EXCEPT ![h] = "reload"]
  /\ UNCHANGED <<messages, lastSeq, nextId, tableVars, lockHolder, req,
                 relayVars, brokerVars>>

ReloadExisting(h) ==
  /\ hpc[h] = "reload"
  /\ \E m \in messages : /\ SameKey(m, req[h])
                         /\ req' = [req EXCEPT ![h] = m]
  /\ hpc' = [hpc EXCEPT ![h] = "reply"]
  /\ UNCHANGED <<dbVars, tableVars, lockHolder, relayVars, brokerVars>>

Commit(h) ==
  LET m == req[h] IN
  /\ hpc[h] = "inserted"
  /\ messages' = messages \cup {m}
  /\ pending' = pending \cup {m}
  /\ lastSeq' = [lastSeq EXCEPT ![m.room] = m.seq]
  /\ rowLock' = [rowLock EXCEPT ![m.room] = Nobody]
  /\ hpc' = [hpc EXCEPT ![h] = "reply"]
  /\ UNCHANGED <<nextId, stamped, lockHolder, req, relayVars, brokerVars>>

(* The call returns req[h] to its client.                                  *)
Reply(h) ==
  /\ hpc[h] = "reply"
  /\ hpc' = [hpc EXCEPT ![h] = "idle"]
  /\ req' = [req EXCEPT ![h] = Blank]
  /\ UNCHANGED <<dbVars, tableVars, lockHolder, relayVars, brokerVars>>

(* A statement fails, the request is cancelled or the process dies.  An    *)
(* open transaction rolls back.                                            *)
Abort(h) ==
  /\ hpc[h] \in {"locked", "inserted", "reload"}
  /\ rowLock' = [c \in Rooms |-> IF rowLock[c] = h THEN Nobody ELSE rowLock[c]]
  /\ hpc' = [hpc EXCEPT ![h] = "idle"]
  /\ req' = [req EXCEPT ![h] = Blank]
  /\ UNCHANGED <<messages, lastSeq, nextId, tableVars, lockHolder,
                 relayVars, brokerVars>>

-----------------------------------------------------------------------------
(* The broker (external), as Publish of package broker uses it: a message  *)
(* id seen inside the duplicate window is acknowledged and not stored.     *)
BrokerStores(m) ==
  IF m.id \in window
  THEN UNCHANGED <<stream, window>>
  ELSE /\ stream' = Append(stream, m)
       /\ window' = window \cup {m.id}

Copies(id) == Cardinality({i \in DOMAIN stream : stream[i].id = id})

(* Five minutes pass since the id was last stored.                         *)
WindowPasses(id) ==
  /\ id \in window
  /\ Copies(id) < MaxCopies
  /\ window' = window \ {id}
  /\ UNCHANGED <<dbVars, tableVars, lockHolder, handlerVars, relayVars, stream, wire>>

(* A publish the relay gave up on reaches the broker after all, or never.  *)
WireArrives(m) ==
  /\ m \in wire
  /\ wire' = wire \ {m}
  /\ \/ BrokerStores(m)
     \/ UNCHANGED <<stream, window>>
  /\ UNCHANGED <<dbVars, tableVars, lockHolder, handlerVars, relayVars>>

-----------------------------------------------------------------------------
(* Relay.Run                                                               *)

(* pg_try_advisory_lock answers true.  Any other answer sends the node to  *)
(* sleep and changes nothing.                                              *)
TakeLock(n) ==
  /\ rpc[n] = "follow"
  /\ lockHolder = Nobody
  /\ lockHolder' = n
  /\ rpc' = [rpc EXCEPT ![n] = "lead"]
  /\ UNCHANGED <<dbVars, tableVars, handlerVars, batch, done, stopping, stops, brokerVars>>

(* Mutant: no ORDER BY id.                                                 *)
AnyPending == {S \in SUBSET pending : \/ S = pending /\ Cardinality(S) < BatchSize
                                     \/ Cardinality(S) = BatchSize}

(* The results FetchOutbox may return: the oldest rows, up to BatchSize.   *)
OldestPending == {S \in SUBSET pending :
                    /\ \A r \in S, q \in pending \ S : r.id < q.id
                    /\ S = pending \/ Cardinality(S) = BatchSize
                    /\ Cardinality(S) <= BatchSize}

(* Mutant: a leader that lost its session stops fetching and goes on       *)
(* leading.                                                                *)
FetchIfHolder(n) ==
  /\ rpc[n] = "lead"
  /\ ~stopping[n]
  /\ lockHolder = n
  /\ \E S \in OldestPending \ {{}} : batch' = [batch EXCEPT ![n] = S]
  /\ rpc' = [rpc EXCEPT ![n] = "drain"]
  /\ UNCHANGED <<dbVars, tableVars, lockHolder, handlerVars, done, stopping,
                 stops, brokerVars>>

(* Drain reads a batch.  It does not look at the advisory lock: nothing    *)
(* after TakeLock does.                                                    *)
Fetch(n) ==
  /\ rpc[n] = "lead"
  /\ ~stopping[n]
  /\ \E S \in OldestPending \ {{}} : batch' = [batch EXCEPT ![n] = S]
  /\ rpc' = [rpc EXCEPT ![n] = "drain"]
  /\ UNCHANGED <<dbVars, tableVars, lockHolder, handlerVars, done, stopping,
                 stops, brokerVars>>

(* The row the loop of Drain is at.                                        *)
IsNextRow(n, m) == /\ m \in batch[n]
                   /\ \A q \in batch[n] : m.id <= q.id

(* Mutant: the loop does not notice that the batch is used up.             *)
NeverAfterRow(rest) == "drain"

(* After a row the loop goes on, or ends when the batch is used up.        *)
AfterRow(rest) == IF rest = {} THEN "mark" ELSE "drain"

PublishAcked(n) ==
  /\ rpc[n] = "drain"
  /\ ~stopping[n]
  /\ \E m \in batch[n] :
       /\ IsNextRow(n, m)
       /\ BrokerStores(m)
       /\ batch' = [batch EXCEPT ![n] = @ \ {m}]
       /\ done' = [done EXCEPT ![n] = @ \cup {m}]
       /\ rpc' = [rpc EXCEPT ![n] = AfterRow(batch[n] \ {m})]
  /\ UNCHANGED <<dbVars, tableVars, lockHolder, handlerVars, stopping, stops, wire>>

(* Mutant: the loop goes on after a row that could not be published.       *)
PublishFailsAndSkips(n) ==
  /\ rpc[n] = "drain"
  /\ \E m \in batch[n] :
       /\ IsNextRow(n, m)
       /\ batch' = [batch EXCEPT ![n] = @ \ {m}]
       /\ rpc' = [rpc EXCEPT ![n] = AfterRow(batch[n] \ {m})]
  /\ UNCHANGED <<dbVars, tableVars, lockHolder, handlerVars, done, stopping,
                 stops, brokerVars>>

(* Mutant: a row is put on the done list before its publish is known to    *)
(* have worked.                                                            *)
PublishFailsMarksRow(n) ==
  /\ rpc[n] = "drain"
  /\ \E m \in batch[n] : /\ IsNextRow(n, m)
                         /\ done' = [done EXCEPT ![n] = @ \cup {m}]
  /\ batch' = [batch EXCEPT ![n] = {}]
  /\ rpc' = [rpc EXCEPT ![n] = "mark"]
  /\ UNCHANGED <<dbVars, tableVars, lockHolder, handlerVars, stopping, stops,
                 brokerVars>>

(* The member list could not be read, or Publish returned an error: the    *)
(* broker got nothing, or it stored the row and the ack was lost, or the   *)
(* row is still on its way.  A cancelled context sends nothing.  The rest  *)
(* of the batch is left for a later Drain.                                 *)
PublishFails(n) ==
  /\ rpc[n] = "drain"
  /\ \E m \in batch[n] :
       /\ IsNextRow(n, m)
       /\ \/ UNCHANGED brokerVars
          \/ /\ ~stopping[n]
             /\ BrokerStores(m)
             /\ UNCHANGED wire
          \/ /\ ~stopping[n]
             /\ wire' = wire \cup {m}
             /\ UNCHANGED <<stream, window>>
  /\ batch' = [batch EXCEPT ![n] = {}]
  /\ rpc' = [rpc EXCEPT ![n] = "mark"]
  /\ UNCHANGED <<dbVars, tableVars, lockHolder, handlerVars, done, stopping, stops>>

(* MarkOutboxPublished stamps the acknowledged rows that still exist.      *)
MarkPublished(n) ==
  /\ rpc[n] = "mark"
  /\ done[n] # {}
  /\ ~stopping[n]
  /\ pending' = pending \ done[n]
  /\ stamped' = stamped \cup (pending \cap done[n])
  /\ done' = [done EXCEPT ![n] = {}]
  /\ rpc' = [rpc EXCEPT ![n] = "lead"]
  /\ UNCHANGED <<dbVars, lockHolder, handlerVars, batch, stopping, stops, brokerVars>>

(* Nothing was acknowledged, or the update failed: the rows stay pending   *)
(* and are published again.                                                *)
NothingMarked(n) ==
  /\ rpc[n] = "mark"
  /\ done' = [done EXCEPT ![n] = {}]
  /\ rpc' = [rpc EXCEPT ![n] = "lead"]
  /\ UNCHANGED <<dbVars, tableVars, lockHolder, handlerVars, batch, stopping,
                 stops, brokerVars>>

(* The janitor tick: rows stamped before some moment are deleted.          *)
Clean(n) ==
  /\ rpc[n] = "lead"
  /\ ~stopping[n]
  /\ \E S \in SUBSET stamped \ {{}} : stamped' = stamped \ S
  /\ UNCHANGED <<dbVars, pending, lockHolder, handlerVars, relayVars, brokerVars>>

(* The context of the node is cancelled.  A node that does not lead        *)
(* returns from Run at once.                                               *)
Stop(n) ==
  /\ rpc[n] # "down" /\ ~stopping[n]
  /\ stops < MaxStops
  /\ stops' = stops + 1
  /\ IF rpc[n] = "follow"
     THEN rpc' = [rpc EXCEPT ![n] = "down"] /\ UNCHANGED stopping
     ELSE stopping' = [stopping EXCEPT ![n] = TRUE] /\ UNCHANGED rpc
  /\ UNCHANGED <<dbVars, tableVars, lockHolder, handlerVars, batch, done, brokerVars>>

(* runLeader has returned; the unlock may fail and leave the session to    *)
(* end by itself.                                                          *)
Release(n) ==
  /\ rpc[n] = "lead"
  /\ stopping[n]
  /\ lockHolder' \in {lockHolder, IF lockHolder = n THEN Nobody ELSE lockHolder}
  /\ rpc' = [rpc EXCEPT ![n] = "down"]
  /\ stopping' = [stopping EXCEPT ![n] = FALSE]
  /\ UNCHANGED <<dbVars, tableVars, handlerVars, batch, done, stops, brokerVars>>

Crash(n) ==
  /\ rpc[n] # "down"
  /\ stops < MaxStops
  /\ stops' = stops + 1
  /\ rpc' = [rpc EXCEPT ![n] = "down"]
  /\ batch' = [batch EXCEPT ![n] = {}]
  /\ done' = [done EXCEPT ![n] = {}]
  /\ stopping' = [stopping EXCEPT ![n] = FALSE]
  /\ UNCHANGED <<dbVars, tableVars, lockHolder, handlerVars, brokerVars>>

Restart(n) ==
  /\ rpc[n] = "down"
  /\ rpc' = [rpc EXCEPT ![n] = "follow"]
  /\ UNCHANGED <<dbVars, tableVars, lockHolder, handlerVars, batch, done,
                 stopping, stops, brokerVars>>

(* The connection that took the lock is gone and Postgres frees it.  The   *)
(* node may have died, or may be alive and never hear of it.               *)
SessionEnds ==
  /\ lockHolder # Nobody
  /\ lockHolder' = Nobody
  /\ UNCHANGED <<dbVars, tableVars, handlerVars, relayVars, brokerVars>>

-----------------------------------------------------------------------------
HandlerStep(h) ==
  \/ \E c \in Rooms, s \in Senders, k \in Keys \cup {NoKey} : AllocateSeq(h, c, s, k)
  \/ InsertRows(h)
  \/ InsertDuplicate(h)
  \/ ReloadExisting(h)
  \/ Commit(h)
  \/ Reply(h)
  \/ Abort(h)

RelayStep(n) ==
  \/ TakeLock(n)
  \/ Fetch(n)
  \/ PublishAcked(n)
  \/ PublishFails(n)
  \/ MarkPublished(n)
  \/ NothingMarked(n)
  \/ Clean(n)
  \/ Release(n)

FaultStep ==
  \/ \E n \in Nodes : Stop(n)
  \/ \E n \in Nodes : Crash(n)
  \/ \E n \in Nodes : Restart(n)
  \/ SessionEnds
  \/ \E m \in wire : WireArrives(m)
  \/ \E id \in window : WindowPasses(id)

Next ==
  \/ \E h \in Handlers : HandlerStep(h)
  \/ \E n \in Nodes : RelayStep(n)
  \/ FaultStep

Spec == Init /\ [][Next]_vars

(* The relays go on while their process is up.  A publish or an update     *)
(* that is tried again and again works at some point: the broker and the   *)
(* database are down for a while, not for ever.  A dead node is started    *)
(* again, and the session of a node that does not lead comes to its end.   *)
DeadSessionEnds == SessionEnds /\ rpc[lockHolder] \in {"down", "follow"}

Fairness ==
  /\ WF_vars(DeadSessionEnds)
  /\ \A n \in Nodes :
       /\ WF_vars(Restart(n))
       /\ WF_vars(TakeLock(n))
       /\ WF_vars(Fetch(n))
       /\ WF_vars(PublishAcked(n) \/ PublishFails(n))
       /\ SF_vars(PublishAcked(n))
       /\ WF_vars(MarkPublished(n) \/ NothingMarked(n))
       /\ SF_vars(MarkPublished(n))
       /\ WF_vars(Release(n))

FairSpec == Spec /\ Fairness

-----------------------------------------------------------------------------
(* CreateMessage and GET ?after_seq=: the messages of a room are numbered  *)
(* 1, 2, ... with no hole and no number used twice, whatever transactions  *)
(* ran side by side, rolled back or died.  A hole is what a client reads   *)
(* as a lost message.                                                      *)
SeqGapFree ==
  \A c \in Rooms :
    LET M == {m \in messages : m.room = c} IN
    /\ {m.seq : m \in M} = 1..lastSeq[c]
    /\ \A m, q \in M : m.seq = q.seq => m = q

(* The transactional outbox: a stored message is still to be published or  *)
(* is on the stream.  A crash, a lost ack, a failed update, a second relay *)
(* or the janitor never makes the system forget one.                       *)
NothingForgotten == \A m \in messages : m \in pending \/ m \in Published

(* Drain stops at the first failure and marks only what was acknowledged:  *)
(* the first copies of a room's messages are stored by the broker in the   *)
(* order of their numbers, with no gap -- even with two relays at work.    *)
FirstCopyOrder ==
  \A i \in DOMAIN stream : \A s \in 1..(stream[i].seq - 1) :
    \E j \in 1..(i - 1) : stream[j].room = stream[i].room /\ stream[j].seq = s

(* CreateMessage and client_msg_id: a message that is returned to a client *)
(* is stored, and a client_msg_id names one message whatever retries and   *)
(* lost replies there were, so every reply to it is the same.              *)
RepliesHold ==
  /\ \A h \in Handlers : hpc[h] = "reply" => req[h] \in messages
  /\ \A m, q \in messages : SameKey(m, q) => m = q

(* server.go on the relay: "Only one node drains at a time; the rest wait  *)
(* on the lock."  No two nodes are inside Drain together.                  *)
OneNodeDrains ==
  \A n, k \in Nodes :
    rpc[n] \in {"drain", "mark"} /\ rpc[k] \in {"drain", "mark"} => n = k

(* The path implements the log of module ChatLog: the log of a room is its *)
(* messages by number, and a message is heard when the broker has a copy.  *)
LogOf(c) == [s \in 1..lastSeq[c] |->
               LET m == CHOOSE m \in messages : m.room = c /\ m.seq = s
               IN [sender |-> m.sender, key |-> m.key]]

HeardOf(c) == {m.seq : m \in {p \in Published : p.room = c}}

Log == INSTANCE ChatLog WITH log   <- [c \in Rooms |-> LogOf(c)],
                             heard <- [c \in Rooms |-> HeardOf(c)]

ImplementsLog == Log!LogSpec

(* The relays catch up: however often a publish fails, an update is lost,  *)
(* a session ends or (MaxStops times) a node dies, there is always a later *)
(* moment at which every row written so far is on the stream and stamped.  *)
OutboxDrains == []<>(pending = {})
==============================================================================
