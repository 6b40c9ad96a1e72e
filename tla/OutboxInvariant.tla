--------------------------- MODULE OutboxInvariant ---------------------------
(***************************************************************************)
(* Why the properties of module Outbox hold: an invariant that every step  *)
(* preserves and that implies all of them.  Three layers, each resting on  *)
(* the one before: what a transaction in progress knows, what the tables   *)
(* then contain, and what the relays and the broker hold.                  *)
(***************************************************************************)
EXTENDS Outbox

Earlier(p, m) == p.room = m.room /\ p.id < m.id

Writes(h) == hpc[h] \in {"locked", "inserted"}

(* A transaction that has its seq holds the row of its room, so its seq is *)
(* the next one until it ends.                                             *)
LockHeld ==
  \A h \in Handlers : Writes(h) =>
    /\ rowLock[req[h].room] = h
    /\ req[h].seq = lastSeq[req[h].room] + 1

(* Its rows carry an outbox id that nobody else has and that is above      *)
(* every committed id of the room, and repeat no client_msg_id.            *)
RowsFresh ==
  \A h \in Handlers : hpc[h] = "inserted" =>
    /\ req[h].id < nextId
    /\ ~Duplicate(req[h])
    /\ \A m \in messages : /\ m.id # req[h].id
                           /\ m.room = req[h].room => m.id < req[h].id
    /\ \A g \in Handlers \ {h} : hpc[g] = "inserted" => req[g].id # req[h].id

(* Outbox ids are unique, and grow with seq inside a room: this is what    *)
(* makes ORDER BY id in FetchOutbox the order of the room.                 *)
IdsFollowSeq ==
  /\ \A m \in messages : m.id < nextId
  /\ \A m, q \in messages : m.id = q.id => m = q
  /\ \A m, q \in messages : m.room = q.room /\ m.seq < q.seq => m.id < q.id

(* Every row a relay or the broker holds is a committed message.           *)
RowsCommitted ==
  /\ pending \subseteq messages
  /\ wire \subseteq messages
  /\ \A i \in DOMAIN stream : stream[i] \in messages
  /\ \A n \in Nodes : batch[n] \subseteq messages

(* What the broker acknowledges it has: the duplicate window holds ids of  *)
(* stored rows only.                                                       *)
AcksTrue ==
  /\ \A id \in window : \E m \in Published : m.id = id
  /\ \A n \in Nodes : done[n] \subseteq Published

(* A row is never ahead of an earlier row of its room: in a batch the      *)
(* earlier one is published or in the same batch; once a row was sent, the *)
(* earlier one is published.                                               *)
NoRowAhead ==
  /\ \A n \in Nodes : \A m \in batch[n], p \in messages :
       Earlier(p, m) => p \in Published \cup batch[n]
  /\ \A m \in wire \cup Published, p \in messages :
       Earlier(p, m) => p \in Published

TablesInv == LockHeld /\ RowsFresh /\ IdsFollowSeq /\ SeqGapFree /\ RepliesHold

RelayInv == RowsCommitted /\ AcksTrue /\ NoRowAhead /\ NothingForgotten
            /\ FirstCopyOrder

(* The inductive invariant of the message path: a transaction knows its    *)
(* seq, id and key are new (database.CreateMessage), so the tables number  *)
(* each room densely and in id order, so a relay that publishes the oldest *)
(* rows first and stops at a failure (Relay.Drain) is never ahead.         *)
IInv == TypeOK /\ TablesInv /\ RelayInv
==============================================================================
