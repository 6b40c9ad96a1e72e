---------------------------- MODULE Outbox_proofs ----------------------------
(***************************************************************************)
(* Proofs about module Outbox, for any rooms, handlers, nodes and bounds.  *)
(***************************************************************************)
EXTENDS OutboxInvariant, TLAPS

-----------------------------------------------------------------------------
(* Types                                                                   *)

LEMMA BlankIsMessage == Blank \in Message
  BY OutboxAssumption DEF Blank, Message

(* What the broker does with a publish keeps the type of its variables.    *)
LEMMA BrokerTyped ==
  ASSUME NEW m \in Message, stream \in Seq(Message), window \subseteq Nat,
         BrokerStores(m)
  PROVE  stream' \in Seq(Message) /\ window' \subseteq Nat
<1>1. m.id \in Nat
  BY DEF Message
<1>2. Append(stream, m) \in Seq(Message)
  OBVIOUS
<1>3. CASE m.id \in window
  BY <1>3 DEF BrokerStores
<1>4. CASE m.id \notin window
  BY <1>1, <1>2, <1>4 DEF BrokerStores
<1> QED
  BY <1>3, <1>4

(* Every variable has its type, and a relay holds untried rows exactly     *)
(* while it is in the row loop of Drain.                                   *)
THEOREM TypeCorrect == Spec => []TypeOK
<1> USE DEF TypeOK, HandlerState, RelayState
<1>1. Init => TypeOK
  BY OutboxAssumption, BlankIsMessage DEF Init
<1>2. TypeOK /\ [Next]_vars => TypeOK'
  <2> SUFFICES ASSUME TypeOK, [Next]_vars PROVE TypeOK'
    OBVIOUS
  <2> USE DEF vars, dbVars, tableVars, handlerVars, relayVars, brokerVars
  <2>1. ASSUME NEW h \in Handlers, HandlerStep(h) PROVE TypeOK'
    <3>1. ASSUME NEW c \in Rooms, NEW s \in Senders, NEW k \in Keys \cup {NoKey},
                 AllocateSeq(h, c, s, k)
          PROVE  TypeOK'
      <4>1. [id |-> 0, room |-> c, seq |-> lastSeq[c] + 1, sender |-> s, key |-> k]
              \in Message
        BY DEF Message
      <4> QED
        BY <3>1, <4>1 DEF AllocateSeq
    <3>2. CASE InsertRows(h)
      <4>1. [id |-> nextId, room |-> req[h].room, seq |-> req[h].seq,
             sender |-> req[h].sender, key |-> req[h].key] \in Message
        BY DEF Message
      <4> QED
        BY <3>2, <4>1 DEF InsertRows
    <3>3. CASE InsertDuplicate(h)
      BY <3>3 DEF InsertDuplicate
    <3>4. CASE ReloadExisting(h)
      BY <3>4 DEF ReloadExisting
    <3>5. CASE Commit(h)
      <4>1. req[h] \in Message /\ req[h].seq \in Nat
        BY DEF Message
      <4> QED
        BY <3>5, <4>1 DEF Commit
    <3>6. CASE Reply(h)
      BY <3>6, BlankIsMessage DEF Reply
    <3>7. CASE Abort(h)
      BY <3>7, BlankIsMessage DEF Abort
    <3> QED
      BY <2>1, <3>1, <3>2, <3>3, <3>4, <3>5, <3>6, <3>7 DEF HandlerStep
  <2>2. ASSUME NEW n \in Nodes, RelayStep(n) PROVE TypeOK'
    <3>1. CASE TakeLock(n)
      BY <3>1 DEF TakeLock
    <3>2. CASE Fetch(n)
      <4>1. PICK S \in OldestPending \ {{}} : batch' = [batch EXCEPT ![n] = S]
        BY <3>2 DEF Fetch
      <4>2. S \subseteq Message /\ S # {}
        BY <4>1 DEF OldestPending
      <4> QED
        BY <3>2, <4>1, <4>2 DEF Fetch
    <3>3. CASE PublishAcked(n)
      <4>1. PICK m \in batch[n] :
              /\ BrokerStores(m)
              /\ batch' = [batch EXCEPT ![n] = @ \ {m}]
              /\ done' = [done EXCEPT ![n] = @ \cup {m}]
              /\ rpc' = [rpc EXCEPT ![n] = AfterRow(batch[n] \ {m})]
        BY <3>3 DEF PublishAcked
      <4>2. stream' \in Seq(Message) /\ window' \subseteq Nat
        BY <4>1, BrokerTyped
      <4> QED
        BY <3>3, <4>1, <4>2 DEF PublishAcked, AfterRow
    <3>4. CASE PublishFails(n)
      <4>1. PICK m \in batch[n] :
              \/ UNCHANGED brokerVars
              \/ BrokerStores(m) /\ UNCHANGED wire
              \/ wire' = wire \cup {m} /\ UNCHANGED <<stream, window>>
        BY <3>4 DEF PublishFails
      <4>2. stream' \in Seq(Message) /\ window' \subseteq Nat /\ wire' \subseteq Message
        BY <4>1, BrokerTyped
      <4> QED
        BY <3>4, <4>2 DEF PublishFails
    <3>5. CASE MarkPublished(n)
      BY <3>5 DEF MarkPublished
    <3>6. CASE NothingMarked(n)
      BY <3>6 DEF NothingMarked
    <3>7. CASE Clean(n)
      BY <3>7 DEF Clean
    <3>8. CASE Release(n)
      BY <3>8 DEF Release
    <3> QED
      BY <2>2, <3>1, <3>2, <3>3, <3>4, <3>5, <3>6, <3>7, <3>8 DEF RelayStep
  <2>3. CASE FaultStep
    <3>1. ASSUME NEW n \in Nodes, Stop(n) PROVE TypeOK'
      <4>1. \/ rpc' = [rpc EXCEPT ![n] = "down"] /\ rpc[n] = "follow" /\ UNCHANGED stopping
            \/ stopping' = [stopping EXCEPT ![n] = TRUE] /\ UNCHANGED rpc
        BY <3>1, Zenon DEF Stop
      <4>2. stops' \in Nat
        BY <3>1 DEF Stop
      <4>3. UNCHANGED <<dbVars, tableVars, lockHolder, handlerVars, batch, done, brokerVars>>
        BY <3>1 DEF Stop
      <4> QED
        BY <4>1, <4>2, <4>3
    <3>2. ASSUME NEW n \in Nodes, Crash(n) PROVE TypeOK'
      BY <3>2 DEF Crash
    <3>3. ASSUME NEW n \in Nodes, Restart(n) PROVE TypeOK'
      BY <3>3 DEF Restart
    <3>4. ASSUME NEW m \in wire, WireArrives(m) PROVE TypeOK'
      <4>1. stream' \in Seq(Message) /\ window' \subseteq Nat
        BY <3>4, BrokerTyped DEF WireArrives
      <4> QED
        BY <3>4, <4>1 DEF WireArrives
    <3>5. ASSUME NEW id \in window, WindowPasses(id) PROVE TypeOK'
      BY <3>5 DEF WindowPasses
    <3>6. CASE SessionEnds
      BY <3>6 DEF SessionEnds
    <3> QED
      BY <2>3, <3>1, <3>2, <3>3, <3>4, <3>5, <3>6 DEF FaultStep
  <2>4. CASE UNCHANGED vars
    BY <2>4
  <2> QED
    BY <2>1, <2>2, <2>3, <2>4 DEF Next
<1>3. QED
  BY <1>1, <1>2, PTL DEF Spec

-----------------------------------------------------------------------------
(***************************************************************************)
(* What concurrent calls of CreateMessage leave in the tables: numbers     *)
(* without holes, ids in the order of the numbers, one row per             *)
(* client_msg_id.                                                          *)
(***************************************************************************)

-----------------------------------------------------------------------------
(* SeqGapFree says the same as three statements without a set of numbers,  *)
(* which the provers handle better.                                        *)

InRange == \A m \in messages : m.seq \in 1..lastSeq[m.room]
NoHole  == \A c \in Rooms : \A s \in 1..lastSeq[c] :
             \E m \in messages : m.room = c /\ m.seq = s
OneEach == \A m, q \in messages : m.room = q.room /\ m.seq = q.seq => m = q

LEMMA SeqGapFreeSplit ==
  ASSUME TypeOK PROVE SeqGapFree <=> InRange /\ NoHole /\ OneEach
<1>1. \A m \in messages : m.room \in Rooms
  BY DEF TypeOK, Message
<1>2. ASSUME SeqGapFree PROVE InRange /\ NoHole /\ OneEach
  <2>1. InRange
    BY <1>1, <1>2 DEF SeqGapFree, InRange
  <2>2. NoHole
    BY <1>2 DEF SeqGapFree, NoHole
  <2>3. OneEach
    BY <1>1, <1>2 DEF SeqGapFree, OneEach
  <2> QED
    BY <2>1, <2>2, <2>3
<1>3. ASSUME InRange, NoHole, OneEach PROVE SeqGapFree
  BY <1>3 DEF SeqGapFree, InRange, NoHole, OneEach
<1> QED
  BY <1>2, <1>3

-----------------------------------------------------------------------------
(* One lemma per step of CreateMessage                                     *)

LEMMA AllocateSeqTables ==
  ASSUME TypeOK, TablesInv, NEW h \in Handlers, NEW c \in Rooms, NEW s \in Senders,
         NEW k \in Keys \cup {NoKey}, AllocateSeq(h, c, s, k)
  PROVE  TablesInv'
<1> USE DEF AllocateSeq, TypeOK, dbVars
<1>1. LockHeld'
  <2> SUFFICES ASSUME NEW g \in Handlers, Writes(g)'
               PROVE  rowLock'[req'[g].room] = g
                      /\ req'[g].seq = lastSeq'[req'[g].room] + 1
    BY DEF LockHeld
  <2>1. CASE g = h
    BY <2>1
  <2>2. CASE g # h
    <3>1. Writes(g) /\ req'[g] = req[g]
      BY <2>2 DEF Writes
    <3>2. rowLock[req[g].room] = g /\ req[g].seq = lastSeq[req[g].room] + 1
      BY <3>1 DEF TablesInv, LockHeld
    <3>3. req[g].room # c
      BY <3>2, OutboxAssumption
    <3>4. req[g].room \in Rooms
      BY DEF Message
    <3> QED
      BY <3>1, <3>2, <3>3, <3>4
  <2> QED
    BY <2>1, <2>2
<1>2. RowsFresh'
  BY DEF TablesInv, RowsFresh, Duplicate, SameKey
<1>3. IdsFollowSeq'
  BY DEF TablesInv, IdsFollowSeq
<1>4. SeqGapFree'
  BY DEF TablesInv, SeqGapFree
<1>5. RepliesHold'
  BY DEF TablesInv, RepliesHold, SameKey
<1> QED
  BY <1>1, <1>2, <1>3, <1>4, <1>5 DEF TablesInv

LEMMA InsertRowsTables ==
  ASSUME TypeOK, TablesInv, NEW h \in Handlers, InsertRows(h)
  PROVE  TablesInv'
<1> USE DEF InsertRows, TypeOK, dbVars
<1>1. LockHeld'
  BY DEF TablesInv, LockHeld, Writes
<1>2. RowsFresh'
  BY DEF TablesInv, RowsFresh, IdsFollowSeq, Duplicate, SameKey, Message
<1>3. IdsFollowSeq'
  BY DEF TablesInv, IdsFollowSeq, Message
<1>4. SeqGapFree'
  BY DEF TablesInv, SeqGapFree
<1>5. RepliesHold'
  BY DEF TablesInv, RepliesHold, SameKey
<1> QED
  BY <1>1, <1>2, <1>3, <1>4, <1>5 DEF TablesInv

(* A step that gives up the transaction of h, or ends a call, changes      *)
(* neither messages nor numbers, and frees no row that another handler     *)
(* holds.                                                                  *)
LEMMA QuietStepTables ==
  ASSUME TypeOK, TablesInv, NEW h \in Handlers,
         UNCHANGED <<messages, lastSeq, nextId>>,
         hpc' = [hpc EXCEPT ![h] = hpc'[h]],
         hpc'[h] \notin {"locked", "inserted"},
         hpc'[h] = "reply" => req'[h] \in messages,
         \A g \in Handlers \ {h} : req'[g] = req[g],
         \A c \in Rooms : rowLock[c] = h \/ rowLock'[c] = rowLock[c]
  PROVE  TablesInv'
<1> USE DEF TypeOK
<1>1. LockHeld'
  BY DEF TablesInv, LockHeld, Writes, Message
<1>2. RowsFresh'
  <2>1. \A g \in Handlers : hpc'[g] = "inserted" =>
          g # h /\ hpc[g] = "inserted" /\ req'[g] = req[g]
    OBVIOUS
  <2>2. \A g \in Handlers : ~Duplicate(req[g]) /\ req'[g] = req[g] => ~Duplicate(req[g])'
    BY DEF Duplicate, SameKey
  <2> QED
    BY <2>1, <2>2 DEF TablesInv, RowsFresh
<1>3. IdsFollowSeq'
  BY DEF TablesInv, IdsFollowSeq
<1>4. SeqGapFree'
  BY DEF TablesInv, SeqGapFree
<1>5. RepliesHold'
  BY DEF TablesInv, RepliesHold, SameKey
<1> QED
  BY <1>1, <1>2, <1>3, <1>4, <1>5 DEF TablesInv

LEMMA CommitTables ==
  ASSUME TypeOK, TypeOK', TablesInv, NEW h \in Handlers, Commit(h)
  PROVE  TablesInv'
<1> DEFINE m == req[h]
<1>1. /\ m \in Message /\ m.room \in Rooms /\ m.seq \in Nat /\ m.id \in Nat
      /\ hpc[h] = "inserted" /\ Writes(h)
  BY DEF Commit, TypeOK, Message, Writes
<1>2. /\ messages' = messages \cup {m}
      /\ lastSeq' = [lastSeq EXCEPT ![m.room] = m.seq]
      /\ rowLock' = [rowLock EXCEPT ![m.room] = Nobody]
      /\ hpc' = [hpc EXCEPT ![h] = "reply"]
      /\ UNCHANGED <<req, nextId>>
  BY DEF Commit
<1>3. rowLock[m.room] = h /\ m.seq = lastSeq[m.room] + 1
  BY <1>1 DEF TablesInv, LockHeld
<1>4. /\ m.id < nextId
      /\ ~Duplicate(m)
      /\ \A q \in messages : q.id # m.id /\ (q.room = m.room => q.id < m.id)
      /\ \A g \in Handlers \ {h} : hpc[g] = "inserted" => req[g].id # m.id
  BY <1>1 DEF TablesInv, RowsFresh
<1>5. InRange /\ NoHole /\ OneEach
  BY SeqGapFreeSplit DEF TablesInv
<1>6. \A g \in Handlers \ {h} : Writes(g) => req[g].room # m.room
  BY <1>3 DEF TablesInv, LockHeld
<1>7. \A q \in messages : q \in Message /\ q.room \in Rooms /\ q.seq \in Nat /\ q.id \in Nat
  BY DEF TypeOK, Message
<1>8. lastSeq \in [Rooms -> Nat]
  BY DEF TypeOK
<1> HIDE DEF m
<1>a. LockHeld'
  <2> SUFFICES ASSUME NEW g \in Handlers, Writes(g)'
               PROVE  rowLock'[req'[g].room] = g
                      /\ req'[g].seq = lastSeq'[req'[g].room] + 1
    BY DEF LockHeld
  <2>1. g # h /\ Writes(g)
    BY <1>2 DEF Writes, TypeOK
  <2>2. req[g].room # m.room /\ req[g].room \in Rooms
    BY <1>6, <2>1 DEF TypeOK, Message
  <2>3. rowLock[req[g].room] = g /\ req[g].seq = lastSeq[req[g].room] + 1
    BY <2>1 DEF TablesInv, LockHeld
  <2> QED
    BY <1>2, <2>2, <2>3 DEF TypeOK
<1>b. RowsFresh'
  <2> SUFFICES ASSUME NEW g \in Handlers, hpc'[g] = "inserted"
               PROVE  /\ req[g].id < nextId
                      /\ ~Duplicate(req[g])'
                      /\ \A q \in messages' : /\ q.id # req[g].id
                                              /\ q.room = req[g].room => q.id < req[g].id
                      /\ \A f \in Handlers \ {g} :
                           hpc'[f] = "inserted" => req[f].id # req[g].id
    BY <1>2 DEF RowsFresh
  <2>1. g # h /\ hpc[g] = "inserted" /\ Writes(g)
    BY <1>2 DEF Writes, TypeOK
  <2>2. req[g].room # m.room
    BY <1>6, <2>1
  <2>3. ~Duplicate(req[g])'
    <3>1. ~Duplicate(req[g])
      BY <2>1 DEF TablesInv, RowsFresh
    <3> QED
      BY <1>2, <2>2, <3>1 DEF Duplicate, SameKey
  <2>4. \A f \in Handlers \ {g} : hpc'[f] = "inserted" => req[f].id # req[g].id
    BY <1>2, <2>1 DEF TablesInv, RowsFresh, TypeOK
  <2>5. /\ req[g].id < nextId /\ req[g].id # m.id
        /\ \A q \in messages : /\ q.id # req[g].id
                               /\ q.room = req[g].room => q.id < req[g].id
    BY <1>4, <2>1 DEF TablesInv, RowsFresh
  <2> QED
    BY <1>2, <2>2, <2>3, <2>4, <2>5
<1>c. IdsFollowSeq'
  <2>1. \A q \in messages : q.room = m.room => q.seq < m.seq
    BY <1>3, <1>5, <1>7, <1>8, <1>1 DEF InRange
  <2>2. /\ \A q \in messages : q.id < nextId
        /\ \A p, q \in messages : p.id = q.id => p = q
        /\ \A p, q \in messages : p.room = q.room /\ p.seq < q.seq => p.id < q.id
    BY DEF TablesInv, IdsFollowSeq
  <2>3. \A q \in messages' : q.id < nextId'
    BY <1>2, <1>4, <2>2
  <2>4. \A p, q \in messages' : p.id = q.id => p = q
    BY <1>2, <1>4, <2>2
  <2>5. \A p, q \in messages' : p.room = q.room /\ p.seq < q.seq => p.id < q.id
    BY <1>1, <1>2, <1>4, <1>7, <2>1, <2>2
  <2> QED
    BY <2>3, <2>4, <2>5 DEF IdsFollowSeq
<1>d. SeqGapFree'
  <2>1. InRange'
    BY <1>1, <1>2, <1>3, <1>5, <1>7, <1>8 DEF InRange
  <2>2. NoHole'
    <3> SUFFICES ASSUME NEW c \in Rooms, NEW s \in 1..lastSeq'[c]
                 PROVE  \E q \in messages' : q.room = c /\ q.seq = s
      BY DEF NoHole
    <3>1. CASE c = m.room /\ s = m.seq
      BY <1>2, <3>1
    <3>2. CASE ~(c = m.room /\ s = m.seq)
      <4>1. s \in 1..lastSeq[c]
        BY <1>1, <1>2, <1>3, <1>8, <3>2
      <4> QED
        BY <1>2, <1>5, <4>1 DEF NoHole
    <3> QED
      BY <3>1, <3>2
  <2>3. OneEach'
    <3>1. \A q \in messages : q.room = m.room => q.seq # m.seq
      BY <1>3, <1>5, <1>7, <1>8, <1>1 DEF InRange
    <3> QED
      BY <1>2, <1>5, <3>1 DEF OneEach
  <2>4. (SeqGapFree <=> InRange /\ NoHole /\ OneEach)'
    BY SeqGapFreeSplit, PTL
  <2> QED
    BY <2>1, <2>2, <2>3, <2>4
<1>e. RepliesHold'
  <2>1. \A g \in Handlers : hpc'[g] = "reply" => req'[g] \in messages'
    BY <1>2 DEF TablesInv, RepliesHold, TypeOK, m
  <2>2. \A p, q \in messages' : SameKey(p, q) => p = q
    BY <1>2, <1>4 DEF TablesInv, RepliesHold, SameKey, Duplicate
  <2> QED
    BY <2>1, <2>2 DEF RepliesHold, SameKey
<1> QED
  BY <1>a, <1>b, <1>c, <1>d, <1>e DEF TablesInv
-----------------------------------------------------------------------------
(* Relays, the broker and faults do not touch what CreateMessage writes.   *)
LEMMA OtherStepsKeepTables ==
  ASSUME UNCHANGED <<dbVars, handlerVars>>, TablesInv PROVE TablesInv'
<1> USE DEF dbVars, handlerVars
<1>1. LockHeld' /\ RowsFresh'
  BY DEF TablesInv, LockHeld, Writes, RowsFresh, Duplicate, SameKey
<1>2. IdsFollowSeq' /\ SeqGapFree'
  BY DEF TablesInv, IdsFollowSeq, SeqGapFree
<1>3. RepliesHold'
  BY DEF TablesInv, RepliesHold, SameKey
<1> QED
  BY <1>1, <1>2, <1>3 DEF TablesInv

LEMMA OtherSteps ==
  ASSUME (\E n \in Nodes : RelayStep(n)) \/ FaultStep
  PROVE  UNCHANGED <<dbVars, handlerVars>>
<1>1. ASSUME NEW n \in Nodes, RelayStep(n) PROVE UNCHANGED <<dbVars, handlerVars>>
  BY <1>1 DEF RelayStep, TakeLock, Fetch, PublishAcked, PublishFails, MarkPublished,
              NothingMarked, Clean, Release
<1>2. CASE FaultStep
  BY <1>2 DEF FaultStep, Stop, Crash, Restart, SessionEnds, WireArrives, WindowPasses
<1> QED
  BY <1>1, <1>2

(* The tables agree with each other whatever calls of CreateMessage run    *)
(* side by side, roll back or die.                                         *)
THEOREM TablesCorrect == Spec => []TablesInv
<1>1. Init => TablesInv
  <2> SUFFICES ASSUME Init PROVE TablesInv
    OBVIOUS
  <2>1. LockHeld /\ RowsFresh /\ IdsFollowSeq /\ RepliesHold
    BY DEF Init, LockHeld, Writes, RowsFresh, IdsFollowSeq, RepliesHold
  <2>2. SeqGapFree
    BY DEF Init, SeqGapFree
  <2> QED
    BY <2>1, <2>2 DEF TablesInv
<1>2. TypeOK /\ TypeOK' /\ TablesInv /\ [Next]_vars => TablesInv'
  <2> SUFFICES ASSUME TypeOK, TypeOK', TablesInv, [Next]_vars PROVE TablesInv'
    OBVIOUS
  <2>1. ASSUME NEW h \in Handlers, HandlerStep(h) PROVE TablesInv'
    <3>1. ASSUME NEW c \in Rooms, NEW s \in Senders, NEW k \in Keys \cup {NoKey},
                 AllocateSeq(h, c, s, k)
          PROVE  TablesInv'
      BY <3>1, AllocateSeqTables
    <3>2. CASE InsertRows(h)
      BY <3>2, InsertRowsTables
    <3>3. CASE InsertDuplicate(h)
      <4>1. rowLock[req[h].room] = h
        BY <3>3 DEF InsertDuplicate, TablesInv, LockHeld, Writes
      <4>2. \A c \in Rooms : rowLock[c] = h \/ rowLock'[c] = rowLock[c]
        BY <3>3, <4>1 DEF InsertDuplicate, TypeOK
      <4>3. hpc' = [hpc EXCEPT ![h] = hpc'[h]] /\ hpc'[h] = "reload"
        BY <3>3 DEF InsertDuplicate, TypeOK
      <4> QED
        BY <3>3, <4>2, <4>3, QuietStepTables DEF InsertDuplicate
    <3>4. CASE ReloadExisting(h)
      <4>1. PICK m \in messages : req' = [req EXCEPT ![h] = m]
        BY <3>4 DEF ReloadExisting
      <4>2. req'[h] \in messages /\ \A g \in Handlers \ {h} : req'[g] = req[g]
        BY <4>1 DEF TypeOK
      <4>3. hpc' = [hpc EXCEPT ![h] = hpc'[h]] /\ hpc'[h] = "reply"
        BY <3>4 DEF ReloadExisting, TypeOK
      <4> QED
        BY <3>4, <4>2, <4>3, QuietStepTables DEF ReloadExisting, dbVars
    <3>5. CASE Commit(h)
      BY <3>5, CommitTables
    <3>6. CASE Reply(h)
      BY <3>6, QuietStepTables DEF Reply, dbVars, TypeOK
    <3>7. CASE Abort(h)
      BY <3>7, QuietStepTables DEF Abort, TypeOK
    <3> QED
      BY <2>1, <3>1, <3>2, <3>3, <3>4, <3>5, <3>6, <3>7 DEF HandlerStep
  <2>2. CASE (\E n \in Nodes : RelayStep(n)) \/ FaultStep
    BY <2>2, OtherSteps, OtherStepsKeepTables
  <2>3. CASE UNCHANGED vars
    BY <2>3, OtherStepsKeepTables DEF vars
  <2> QED
    BY <2>1, <2>2, <2>3 DEF Next
<1>3. QED
  BY <1>1, <1>2, TypeCorrect, PTL DEF Spec

(* CreateMessage numbers the messages of a room 1, 2, ... without a hole.  *)
THEOREM GapFree == Spec => []SeqGapFree
  BY TablesCorrect, PTL DEF TablesInv

(* A reply to a client is a stored message, and one client_msg_id is one   *)
(* message.                                                                *)
THEOREM RepliesCorrect == Spec => []RepliesHold
  BY TablesCorrect, PTL DEF TablesInv

-----------------------------------------------------------------------------
(***************************************************************************)
(* What the relays hold and what the broker has, for any number of nodes   *)
(* that drain at once: nothing is forgotten and no row is ever ahead of an *)
(* earlier row of its room.                                                *)
(***************************************************************************)

Safe == TypeOK /\ TablesInv /\ RelayInv

LEMMA PublishedGrows ==
  ASSUME stream \in Seq(Message), NEW m \in Message, stream' = Append(stream, m)
  PROVE  Published' = Published \cup {m}
<1>1. /\ DOMAIN stream = 1..Len(stream) /\ DOMAIN stream' = 1..(Len(stream) + 1)
      /\ \A i \in DOMAIN stream : stream'[i] = stream[i]
      /\ stream'[Len(stream) + 1] = m
      /\ Len(stream) \in Nat
  OBVIOUS
<1>2. ASSUME NEW p \in Published' PROVE p \in Published \cup {m}
  BY <1>1, <1>2 DEF Published
<1>3. ASSUME NEW p \in Published \cup {m} PROVE p \in Published'
  BY <1>1, <1>3 DEF Published
<1> QED
  BY <1>2, <1>3

(* A publish of a row whose earlier rows are published: the broker then    *)
(* has the row, whether it stored it or knew its id, and the first copies  *)
(* stay in order.                                                          *)
LEMMA BrokerStoresInOrder ==
  ASSUME Safe, NEW m \in messages, BrokerStores(m), UNCHANGED messages,
         \A p \in messages : Earlier(p, m) => p \in Published
  PROVE  /\ Published' = Published \cup {m}
         /\ \A i \in DOMAIN stream' : stream'[i] \in messages
         /\ \A id \in window' : \E p \in Published' : p.id = id
         /\ FirstCopyOrder'
<1> USE DEF Safe
<1>1. CASE m.id \in window
  <2>1. UNCHANGED <<stream, window>>
    BY <1>1 DEF BrokerStores
  <2>2. PICK p \in Published : p.id = m.id
    BY <1>1 DEF RelayInv, AcksTrue
  <2>3. p \in messages
    BY <2>2 DEF RelayInv, RowsCommitted, Published
  <2>4. p = m
    BY <2>2, <2>3 DEF TablesInv, IdsFollowSeq
  <2>5. Published' = Published
    BY <2>1 DEF Published
  <2>6. FirstCopyOrder'
    BY <2>1 DEF RelayInv, FirstCopyOrder
  <2> QED
    BY <2>1, <2>2, <2>4, <2>5, <2>6 DEF RelayInv, RowsCommitted, AcksTrue
<1>2. CASE m.id \notin window
  <2>1. stream' = Append(stream, m) /\ window' = window \cup {m.id}
    BY <1>2 DEF BrokerStores
  <2>2. /\ m \in Message /\ m.room \in Rooms /\ m.seq \in Nat
        /\ stream \in Seq(Message) /\ messages \subseteq Message
    BY DEF TypeOK, Message
  <2>3. Published' = Published \cup {m}
    BY <2>1, <2>2, PublishedGrows
  <2>4. /\ DOMAIN stream = 1..Len(stream) /\ DOMAIN stream' = 1..(Len(stream) + 1)
        /\ \A i \in DOMAIN stream : stream'[i] = stream[i]
        /\ stream'[Len(stream) + 1] = m
        /\ Len(stream) \in Nat
    BY <2>1, <2>2
  <2>5. \A i \in DOMAIN stream' : stream'[i] \in messages
    <3>1. \A i \in DOMAIN stream : stream[i] \in messages
      BY DEF RelayInv, RowsCommitted
    <3> QED
      BY <2>4, <3>1
  <2>6. \A id \in window' : \E p \in Published' : p.id = id
    BY <2>1, <2>3 DEF RelayInv, AcksTrue
  <2>7. FirstCopyOrder'
    <3> SUFFICES ASSUME NEW i \in DOMAIN stream', NEW s \in 1..(stream'[i].seq - 1)
                 PROVE  \E j \in 1..(i - 1) : stream'[j].room = stream'[i].room
                                              /\ stream'[j].seq = s
      BY DEF FirstCopyOrder
    <3>1. CASE i \in DOMAIN stream
      <4>1. s \in 1..(stream[i].seq - 1)
        BY <2>4, <3>1
      <4>2. PICK j \in 1..(i - 1) : stream[j].room = stream[i].room /\ stream[j].seq = s
        BY <3>1, <4>1 DEF RelayInv, FirstCopyOrder
      <4>3. j \in DOMAIN stream
        BY <2>4, <3>1
      <4> QED
        BY <2>4, <3>1, <4>2, <4>3
    <3>2. CASE i = Len(stream) + 1
      <4>1. s \in 1..(m.seq - 1)
        BY <2>4, <3>2
      <4>2. m.seq \in 1..lastSeq[m.room]
        BY SeqGapFreeSplit DEF TablesInv, InRange
      <4>3. s \in 1..lastSeq[m.room] /\ s < m.seq
        BY <2>2, <4>1, <4>2 DEF TypeOK
      <4>4. PICK p \in messages : p.room = m.room /\ p.seq = s
        BY <2>2, <4>3, SeqGapFreeSplit DEF TablesInv, NoHole
      <4>5. p.id < m.id
        BY <4>3, <4>4 DEF TablesInv, IdsFollowSeq
      <4>6. p \in Published
        BY <4>4, <4>5 DEF Earlier
      <4>7. PICK j \in DOMAIN stream : stream[j] = p
        BY <4>6 DEF Published
      <4>8. j \in 1..(i - 1) /\ stream'[j] = p /\ stream'[i] = m
        BY <2>4, <3>2, <4>7
      <4> QED
        BY <4>4, <4>8
    <3> QED
      BY <2>4, <3>1, <3>2
  <2> QED
    BY <2>3, <2>5, <2>6, <2>7
<1> QED
  BY <1>1, <1>2

-----------------------------------------------------------------------------
(* The steps that the relay's invariant is about                           *)

(* A new message is pending, and later than every row of its room that a   *)
(* relay or the broker holds.                                              *)
LEMMA CommitRelay ==
  ASSUME Safe, NEW h \in Handlers, Commit(h) PROVE RelayInv'
<1> DEFINE m == req[h]
<1>1. /\ messages' = messages \cup {m} /\ pending' = pending \cup {m}
      /\ UNCHANGED <<relayVars, brokerVars>> /\ hpc[h] = "inserted"
  BY DEF Commit
<1>2. \A q \in messages : q.room = m.room => q.id < m.id
  BY <1>1 DEF Safe, TablesInv, RowsFresh
<1>3. \A q \in messages : ~Earlier(m, q)
  <2>1. \A q \in messages : q.id \in Nat /\ m.id \in Nat
    BY DEF Safe, TypeOK, Message
  <2> QED
    BY <1>2, <2>1 DEF Earlier
<1> HIDE DEF m
<1>4. UNCHANGED <<batch, done, stream, window, wire>> /\ Published' = Published
  BY <1>1 DEF relayVars, brokerVars, Published
<1>5. RowsCommitted'
  BY <1>1, <1>4 DEF Safe, RelayInv, RowsCommitted
<1>6. AcksTrue'
  BY <1>4 DEF Safe, RelayInv, AcksTrue
<1>7. NoRowAhead'
  <2>1. Published \subseteq messages
    BY DEF Safe, RelayInv, RowsCommitted, Published
  <2>2. \A n \in Nodes : \A r \in batch[n], p \in messages' :
          Earlier(p, r) => p \in Published \cup batch[n]
    BY <1>1, <1>3 DEF Safe, RelayInv, RowsCommitted, NoRowAhead
  <2>3. \A r \in wire \cup Published, p \in messages' : Earlier(p, r) => p \in Published
    BY <1>1, <1>3, <2>1 DEF Safe, RelayInv, RowsCommitted, NoRowAhead
  <2> QED
    BY <1>4, <2>2, <2>3 DEF NoRowAhead, Earlier
<1>8. NothingForgotten'
  BY <1>1, <1>4 DEF Safe, RelayInv, NothingForgotten
<1>9. FirstCopyOrder'
  BY <1>4 DEF Safe, RelayInv, FirstCopyOrder
<1> QED
  BY <1>5, <1>6, <1>7, <1>8, <1>9 DEF RelayInv

(* A batch holds the oldest pending rows: an earlier row of the room that  *)
(* is not in it is not pending, so it was published.                       *)
LEMMA FetchRelay ==
  ASSUME Safe, NEW n \in Nodes, Fetch(n) PROVE RelayInv'
<1> USE DEF Safe
<1>1. PICK S \in OldestPending : batch' = [batch EXCEPT ![n] = S]
  BY DEF Fetch
<1>2. /\ S \subseteq pending
      /\ \A r \in S, q \in pending \ S : r.id < q.id
  BY <1>1 DEF OldestPending
<1>3. UNCHANGED <<messages, pending, done, stream, window, wire>> /\ Published' = Published
  BY DEF Fetch, dbVars, tableVars, brokerVars, Published
<1>4. \A k \in Nodes : batch'[k] = IF k = n THEN S ELSE batch[k]
  BY <1>1 DEF TypeOK
<1>5. RowsCommitted'
  BY <1>2, <1>3, <1>4 DEF RelayInv, RowsCommitted
<1>6. AcksTrue'
  BY <1>3 DEF RelayInv, AcksTrue
<1>7. NoRowAhead'
  <2>1. ASSUME NEW r \in S, NEW p \in messages, Earlier(p, r)
        PROVE  p \in Published \cup S
    <3>1. r \in messages /\ r.id \in Nat /\ p.id \in Nat
      BY <1>2 DEF RelayInv, RowsCommitted, TypeOK, Message
    <3>2. p \notin pending \ S
      BY <1>2, <2>1, <3>1 DEF Earlier
    <3> QED
      BY <3>2 DEF RelayInv, NothingForgotten
  <2>2. \A k \in Nodes : \A r \in batch'[k], p \in messages :
          Earlier(p, r) => p \in Published \cup batch'[k]
    BY <1>4, <2>1 DEF RelayInv, NoRowAhead
  <2> QED
    BY <1>3, <2>2 DEF RelayInv, NoRowAhead, Earlier
<1>8. NothingForgotten' /\ FirstCopyOrder'
  BY <1>3 DEF RelayInv, NothingForgotten, FirstCopyOrder
<1> QED
  BY <1>5, <1>6, <1>7, <1>8 DEF RelayInv

(* Every other step only publishes rows in order, forgets untried rows, or *)
(* takes published rows off the pending list.                              *)
LEMMA InOrderStepRelay ==
  ASSUME Safe, UNCHANGED messages,
         pending' \subseteq pending, pending \ pending' \subseteq Published',
         Published \subseteq Published',
         \A i \in DOMAIN stream' : stream'[i] \in messages,
         \A id \in window' : \E p \in Published' : p.id = id,
         FirstCopyOrder',
         wire' \subseteq messages,
         \A m \in wire' \cup Published', p \in messages :
           Earlier(p, m) => p \in Published',
         \A n \in Nodes : /\ batch'[n] \subseteq batch[n]
                          /\ batch'[n] = {} \/ batch[n] \ batch'[n] \subseteq Published'
                          /\ done'[n] \subseteq Published'
  PROVE  RelayInv'
<1>1. RowsCommitted'
  BY DEF Safe, RelayInv, RowsCommitted
<1>2. AcksTrue'
  BY DEF AcksTrue
<1>3. NoRowAhead'
  <2>1. \A n \in Nodes : \A m \in batch'[n], p \in messages :
          Earlier(p, m) => p \in Published' \cup batch'[n]
    BY DEF Safe, RelayInv, NoRowAhead
  <2> QED
    BY <2>1 DEF NoRowAhead, Earlier
<1>4. NothingForgotten'
  BY DEF Safe, RelayInv, NothingForgotten
<1> QED
  BY <1>1, <1>2, <1>3, <1>4 DEF RelayInv

(* A publish that reaches the broker, from a relay or from the wire.       *)
LEMMA SendInOrder ==
  ASSUME Safe, NEW m \in messages, BrokerStores(m), UNCHANGED messages,
         \A p \in messages : Earlier(p, m) => p \in Published,
         wire' \subseteq wire
  PROVE  \A q \in wire' \cup Published', p \in messages :
           Earlier(p, q) => p \in Published'
  BY BrokerStoresInOrder DEF Safe, RelayInv, NoRowAhead

(* The row the loop of Drain is at: everything earlier in its room is      *)
(* published, because the batch is tried in the order of the ids.          *)
LEMMA NextRowEarlier ==
  ASSUME Safe, NEW n \in Nodes, NEW m \in batch[n], IsNextRow(n, m)
  PROVE  /\ m \in messages
         /\ \A p \in messages : Earlier(p, m) => p \in Published
<1>1. m \in messages /\ batch[n] \subseteq messages
  BY DEF Safe, RelayInv, RowsCommitted
<1>2. \A p \in messages : p.id \in Nat
  BY DEF Safe, TypeOK, Message
<1>3. \A p \in batch[n] : ~Earlier(p, m)
  BY <1>1, <1>2 DEF IsNextRow, Earlier
<1> QED
  BY <1>1, <1>3 DEF Safe, RelayInv, NoRowAhead

(* What stays true of the broker's state in a step that leaves it alone.   *)
LEMMA BrokerIdle ==
  ASSUME Safe, UNCHANGED <<messages, stream>>, window' \subseteq window, wire' \subseteq wire
  PROVE  /\ Published' = Published
         /\ \A i \in DOMAIN stream' : stream'[i] \in messages
         /\ \A id \in window' : \E p \in Published' : p.id = id
         /\ FirstCopyOrder'
         /\ wire' \subseteq messages
         /\ \A m \in wire' \cup Published', p \in messages :
              Earlier(p, m) => p \in Published'
<1>1. Published' = Published
  BY DEF Published
<1>2. FirstCopyOrder'
  BY DEF Safe, RelayInv, FirstCopyOrder
<1> QED
  BY <1>1, <1>2 DEF Safe, RelayInv, RowsCommitted, AcksTrue, NoRowAhead

LEMMA PublishAckedRelay ==
  ASSUME Safe, NEW n \in Nodes, PublishAcked(n) PROVE RelayInv'
<1>1. PICK m \in batch[n] :
        /\ IsNextRow(n, m)
        /\ BrokerStores(m)
        /\ batch' = [batch EXCEPT ![n] = @ \ {m}]
        /\ done' = [done EXCEPT ![n] = @ \cup {m}]
  BY DEF PublishAcked
<1>2. UNCHANGED <<messages, pending, wire>>
  BY DEF PublishAcked, dbVars, tableVars
<1>3. m \in messages /\ \A p \in messages : Earlier(p, m) => p \in Published
  BY <1>1, NextRowEarlier
<1>4. /\ Published' = Published \cup {m}
      /\ \A i \in DOMAIN stream' : stream'[i] \in messages
      /\ \A id \in window' : \E p \in Published' : p.id = id
      /\ FirstCopyOrder'
  BY <1>1, <1>2, <1>3, BrokerStoresInOrder
<1>5. \A q \in wire' \cup Published', p \in messages : Earlier(p, q) => p \in Published'
  BY <1>1, <1>2, <1>3, SendInOrder
<1>6. \A k \in Nodes : /\ batch'[k] \subseteq batch[k]
                       /\ batch[k] \ batch'[k] \subseteq Published'
                       /\ done'[k] \subseteq Published'
  BY <1>1, <1>4 DEF Safe, TypeOK, RelayInv, AcksTrue
<1>7. wire' \subseteq messages
  BY <1>2 DEF Safe, RelayInv, RowsCommitted
<1> QED
  BY <1>2, <1>4, <1>5, <1>6, <1>7, InOrderStepRelay

LEMMA PublishFailsRelay ==
  ASSUME Safe, NEW n \in Nodes, PublishFails(n) PROVE RelayInv'
<1>1. PICK m \in batch[n] :
        /\ IsNextRow(n, m)
        /\ \/ UNCHANGED brokerVars
           \/ BrokerStores(m) /\ UNCHANGED wire
           \/ wire' = wire \cup {m} /\ UNCHANGED <<stream, window>>
  BY DEF PublishFails
<1>2. /\ UNCHANGED <<messages, pending, done>>
      /\ batch' = [batch EXCEPT ![n] = {}]
  BY DEF PublishFails, dbVars, tableVars
<1>3. m \in messages /\ \A p \in messages : Earlier(p, m) => p \in Published
  BY <1>1, NextRowEarlier
<1>4. \A k \in Nodes : /\ batch'[k] \subseteq batch[k]
                       /\ batch'[k] = {} \/ batch'[k] = batch[k]
                       /\ done'[k] \subseteq Published
  BY <1>2 DEF Safe, TypeOK, RelayInv, AcksTrue
<1>5. wire \subseteq messages
  BY DEF Safe, RelayInv, RowsCommitted
<1>6. CASE UNCHANGED brokerVars
  BY <1>2, <1>4, <1>6, BrokerIdle, InOrderStepRelay DEF brokerVars
<1>7. CASE BrokerStores(m) /\ UNCHANGED wire
  <2>1. /\ Published' = Published \cup {m}
        /\ \A i \in DOMAIN stream' : stream'[i] \in messages
        /\ \A id \in window' : \E p \in Published' : p.id = id
        /\ FirstCopyOrder'
    BY <1>2, <1>3, <1>7, BrokerStoresInOrder
  <2>2. \A q \in wire' \cup Published', p \in messages : Earlier(p, q) => p \in Published'
    BY <1>2, <1>3, <1>7, SendInOrder
  <2> QED
    BY <1>2, <1>4, <1>5, <1>7, <2>1, <2>2, InOrderStepRelay
<1>8. CASE wire' = wire \cup {m} /\ UNCHANGED <<stream, window>>
  <2>1. /\ Published' = Published /\ FirstCopyOrder'
    BY <1>8 DEF Published, Safe, RelayInv, FirstCopyOrder
  <2>2. /\ \A i \in DOMAIN stream' : stream'[i] \in messages
        /\ \A id \in window' : \E p \in Published' : p.id = id
        /\ \A q \in wire' \cup Published', p \in messages : Earlier(p, q) => p \in Published'
    BY <1>3, <1>8, <2>1 DEF Safe, RelayInv, RowsCommitted, AcksTrue, NoRowAhead
  <2> QED
    BY <1>2, <1>3, <1>4, <1>5, <1>8, <2>1, <2>2, InOrderStepRelay
<1> QED
  BY <1>1, <1>6, <1>7, <1>8

LEMMA MarkPublishedRelay ==
  ASSUME Safe, NEW n \in Nodes, MarkPublished(n) PROVE RelayInv'
<1>1. /\ pending' = pending \ done[n]
      /\ done' = [done EXCEPT ![n] = {}]
      /\ UNCHANGED <<messages, batch, stream, window, wire>>
  BY DEF MarkPublished, dbVars, brokerVars
<1>2. /\ done[n] \subseteq Published
      /\ \A k \in Nodes : done'[k] \subseteq Published
  BY <1>1 DEF Safe, TypeOK, RelayInv, AcksTrue
<1> QED
  BY <1>1, <1>2, BrokerIdle, InOrderStepRelay

LEMMA WireArrivesRelay ==
  ASSUME Safe, NEW m \in wire, WireArrives(m) PROVE RelayInv'
<1>1. /\ UNCHANGED <<messages, pending, batch, done>>
      /\ wire' = wire \ {m}
      /\ BrokerStores(m) \/ UNCHANGED <<stream, window>>
  BY DEF WireArrives, dbVars, tableVars, relayVars
<1>2. wire \subseteq messages /\ \A k \in Nodes : done[k] \subseteq Published
  BY DEF Safe, RelayInv, RowsCommitted, AcksTrue
<1>3. m \in messages /\ \A p \in messages : Earlier(p, m) => p \in Published
  BY <1>2 DEF Safe, RelayInv, NoRowAhead
<1>4. CASE BrokerStores(m)
  <2>1. /\ Published' = Published \cup {m}
        /\ \A i \in DOMAIN stream' : stream'[i] \in messages
        /\ \A id \in window' : \E p \in Published' : p.id = id
        /\ FirstCopyOrder'
    BY <1>1, <1>3, <1>4, BrokerStoresInOrder
  <2>2. \A q \in wire' \cup Published', p \in messages : Earlier(p, q) => p \in Published'
    BY <1>1, <1>3, <1>4, SendInOrder
  <2> QED
    BY <1>1, <1>2, <2>1, <2>2, InOrderStepRelay
<1>5. CASE UNCHANGED <<stream, window>>
  BY <1>1, <1>2, <1>5, BrokerIdle, InOrderStepRelay
<1> QED
  BY <1>1, <1>4, <1>5

(* The steps that publish nothing and stamp nothing.                       *)
LEMMA QuietStepRelay ==
  ASSUME Safe, UNCHANGED <<messages, pending, stream, wire>>, window' \subseteq window,
         \A n \in Nodes : /\ batch'[n] \in {batch[n], {}}
                          /\ done'[n] \in {done[n], {}}
  PROVE  RelayInv'
<1>1. \A n \in Nodes : done[n] \subseteq Published
  BY DEF Safe, RelayInv, AcksTrue
<1> QED
  BY <1>1, BrokerIdle, InOrderStepRelay

-----------------------------------------------------------------------------
(* The invariant of the relays and the broker holds in every run, with any *)
(* number of nodes in Drain at once.                                       *)
THEOREM RelayCorrect == Spec => []RelayInv
<1>1. Init => RelayInv
  <2> SUFFICES ASSUME Init PROVE RelayInv
    OBVIOUS
  <2>1. Published = {} /\ DOMAIN stream = {}
    BY DEF Init, Published
  <2> QED
    BY <2>1 DEF Init, RelayInv, RowsCommitted, AcksTrue, NoRowAhead, NothingForgotten,
                FirstCopyOrder
<1>2. Safe /\ [Next]_vars => RelayInv'
  <2> SUFFICES ASSUME Safe, [Next]_vars PROVE RelayInv'
    OBVIOUS
  <2> USE DEF dbVars, tableVars, handlerVars, relayVars, brokerVars
  <2>1. ASSUME NEW h \in Handlers, HandlerStep(h) PROVE RelayInv'
    <3>1. CASE Commit(h)
      BY <3>1, CommitRelay
    <3>2. CASE ~Commit(h)
      <4>1. UNCHANGED <<messages, pending, relayVars, brokerVars>>
        BY <2>1, <3>2 DEF HandlerStep, AllocateSeq, InsertRows, InsertDuplicate,
                          ReloadExisting, Reply, Abort
      <4> QED
        BY <4>1, QuietStepRelay
    <3> QED
      BY <3>1, <3>2
  <2>2. ASSUME NEW n \in Nodes, RelayStep(n) PROVE RelayInv'
    <3>1. CASE TakeLock(n)
      BY <3>1, QuietStepRelay DEF TakeLock
    <3>2. CASE Fetch(n)
      BY <3>2, FetchRelay
    <3>3. CASE PublishAcked(n)
      BY <3>3, PublishAckedRelay
    <3>4. CASE PublishFails(n)
      BY <3>4, PublishFailsRelay
    <3>5. CASE MarkPublished(n)
      BY <3>5, MarkPublishedRelay
    <3>6. CASE NothingMarked(n)
      BY <3>6, QuietStepRelay DEF NothingMarked, Safe, TypeOK
    <3>7. CASE Clean(n)
      BY <3>7, QuietStepRelay DEF Clean
    <3>8. CASE Release(n)
      BY <3>8, QuietStepRelay DEF Release
    <3> QED
      BY <2>2, <3>1, <3>2, <3>3, <3>4, <3>5, <3>6, <3>7, <3>8 DEF RelayStep
  <2>3. CASE FaultStep
    <3>1. ASSUME NEW n \in Nodes, Stop(n) PROVE RelayInv'
      BY <3>1, QuietStepRelay DEF Stop
    <3>2. ASSUME NEW n \in Nodes, Crash(n) PROVE RelayInv'
      BY <3>2, QuietStepRelay DEF Crash, Safe, TypeOK
    <3>3. ASSUME NEW n \in Nodes, Restart(n) PROVE RelayInv'
      BY <3>3, QuietStepRelay DEF Restart
    <3>4. ASSUME NEW m \in wire, WireArrives(m) PROVE RelayInv'
      BY <3>4, WireArrivesRelay
    <3>5. ASSUME NEW id \in window, WindowPasses(id) PROVE RelayInv'
      BY <3>5, QuietStepRelay DEF WindowPasses
    <3>6. CASE SessionEnds
      BY <3>6, QuietStepRelay DEF SessionEnds
    <3> QED
      BY <2>3, <3>1, <3>2, <3>3, <3>4, <3>5, <3>6 DEF FaultStep
  <2>4. CASE UNCHANGED vars
    BY <2>4, QuietStepRelay DEF vars
  <2> QED
    BY <2>1, <2>2, <2>3, <2>4 DEF Next
<1>3. QED
  BY <1>1, <1>2, TypeCorrect, TablesCorrect, PTL DEF Spec, Safe

(* The whole inductive invariant of the message path.                      *)
THEOREM InvariantCorrect == Spec => []IInv
  BY TypeCorrect, TablesCorrect, RelayCorrect, PTL DEF IInv

(* A message that CreateMessage stored is pending or on the stream,        *)
(* whatever crashed, failed, was cleaned up or ran twice.                  *)
THEOREM NoMessageForgotten == Spec => []NothingForgotten
  BY RelayCorrect, PTL DEF RelayInv

(* The broker stores the first copies of a room's messages in the order of *)
(* their numbers, without a gap, even when several nodes drain together.   *)
THEOREM FirstCopiesInOrder == Spec => []FirstCopyOrder
  BY RelayCorrect, PTL DEF RelayInv

-----------------------------------------------------------------------------
(***************************************************************************)
(* The message path implements the log of module ChatLog.  Only Commit     *)
(* appends a post and only a first copy on the stream announces one; every *)
(* other step, of a handler, a relay, the broker or a fault, is invisible. *)
(***************************************************************************)

PostOf(m) == [sender |-> m.sender, key |-> m.key]

(* The log of a room at a number is the post of the message that carries   *)
(* the number.                                                             *)
LogReads ==
  \A c \in Rooms :
    /\ DOMAIN LogOf(c) = 1..lastSeq[c]
    /\ \A m \in messages : m.room = c => /\ m.seq \in 1..lastSeq[c]
                                         /\ LogOf(c)[m.seq] = PostOf(m)
    /\ \A s \in 1..lastSeq[c] : \E m \in messages : m.room = c /\ m.seq = s

(* This is so because a room's numbers have no hole and no double.         *)
LEMMA LogAt == TypeOK /\ SeqGapFree => LogReads
<1> SUFFICES ASSUME TypeOK, SeqGapFree, NEW c \in Rooms
             PROVE  /\ DOMAIN LogOf(c) = 1..lastSeq[c]
                    /\ \A m \in messages : m.room = c => /\ m.seq \in 1..lastSeq[c]
                                                         /\ LogOf(c)[m.seq] = PostOf(m)
                    /\ \A s \in 1..lastSeq[c] : \E m \in messages : m.room = c /\ m.seq = s
  BY DEF LogReads
<1>1. InRange /\ NoHole /\ OneEach
  BY SeqGapFreeSplit
<1>2. ASSUME NEW m \in messages, m.room = c
      PROVE  m.seq \in 1..lastSeq[c] /\ LogOf(c)[m.seq] = PostOf(m)
  <2>1. m.seq \in 1..lastSeq[c]
    BY <1>1, <1>2 DEF InRange
  <2>2. (CHOOSE q \in messages : q.room = c /\ q.seq = m.seq) = m
    BY <1>1, <1>2 DEF OneEach
  <2> QED
    BY <2>1, <2>2 DEF LogOf, PostOf
<1>3. DOMAIN LogOf(c) = 1..lastSeq[c]
  BY DEF LogOf
<1> QED
  BY <1>1, <1>2, <1>3 DEF NoHole

(* The logs are sequences.                                                 *)
LEMMA LogIsSeq ==
  ASSUME TypeOK, NEW c \in Rooms, LogReads
  PROVE  LogOf(c) \in Seq(Log!Post) /\ Len(LogOf(c)) = lastSeq[c]
<1>1. lastSeq[c] \in Nat /\ DOMAIN LogOf(c) = 1..lastSeq[c]
  BY DEF TypeOK, LogReads
<1>2. ASSUME NEW s \in 1..lastSeq[c] PROVE LogOf(c)[s] \in Log!Post
  <2>1. PICK m \in messages : m.room = c /\ m.seq = s
    BY DEF LogReads
  <2>2. LogOf(c)[s] = PostOf(m)
    BY <2>1 DEF LogReads
  <2>3. m \in Message
    BY <2>1 DEF TypeOK
  <2> QED
    BY <2>2, <2>3 DEF PostOf, Log!Post, Message
<1>3. LogOf(c) = [s \in 1..lastSeq[c] |-> LogOf(c)[s]]
  BY DEF LogOf
<1>4. LogOf(c) \in [1..lastSeq[c] -> Log!Post]
  BY <1>2, <1>3
<1> QED
  BY <1>1, <1>4

(* An appended sequence, element by element.                               *)
LEMMA AppendIs ==
  ASSUME NEW S, NEW s \in Seq(S), NEW e \in S
  PROVE  Append(s, e) = [i \in 1..(Len(s) + 1) |-> IF i = Len(s) + 1 THEN e ELSE s[i]]
<1>1. Append(s, e) \in Seq(S) /\ Len(Append(s, e)) = Len(s) + 1 /\ Len(s) \in Nat
  OBVIOUS
<1>2. Append(s, e) \in [1..(Len(s) + 1) -> S]
  <2>1. PICK t \in Seq(S) : t = Append(s, e)
    BY <1>1
  <2>2. t \in [1..Len(t) -> S]
    OBVIOUS
  <2> QED
    BY <1>1, <2>1, <2>2, Zenon
<1>3. \A i \in 1..(Len(s) + 1) : Append(s, e)[i] = IF i = Len(s) + 1 THEN e ELSE s[i]
  <2>1. Append(s, e)[Len(s) + 1] = e
    OBVIOUS
  <2>2. \A i \in 1..Len(s) : Append(s, e)[i] = s[i]
    OBVIOUS
  <2>3. \A i \in 1..(Len(s) + 1) : i = Len(s) + 1 \/ i \in 1..Len(s)
    BY <1>1
  <2> QED
    BY <2>1, <2>2, <2>3, Zenon
<1>4. Append(s, e) = [i \in 1..(Len(s) + 1) |-> Append(s, e)[i]]
  BY <1>2, Zenon
<1> QED
  BY <1>3, <1>4, Zenon

(* A commit appends the post to the log of its room, and the post was not  *)
(* there: the unique index let it through.                                 *)
LEMMA CommitAppends ==
  ASSUME Safe, TypeOK', SeqGapFree', NEW h \in Handlers, Commit(h)
  PROVE  \E c \in Rooms : Log!AppendPost(c)
<1>0. PICK m \in Message : m = req[h]
  BY DEF Safe, TypeOK
<1>c. PICK c \in Rooms : c = m.room
  BY <1>0 DEF Message
<1>p. PICK p : p = PostOf(m)
  OBVIOUS
<1>1. m.seq \in Nat /\ p \in Log!Post /\ hpc[h] = "inserted" /\ Writes(h)
  BY <1>0, <1>p DEF Commit, Message, Writes, PostOf, Log!Post
<1>2. /\ messages' = messages \cup {m}
      /\ lastSeq' = [lastSeq EXCEPT ![c] = m.seq]
      /\ stream' = stream
  BY <1>0, <1>c DEF Commit, brokerVars
<1>3. m.seq = lastSeq[c] + 1 /\ ~Duplicate(m)
  BY <1>0, <1>c, <1>1 DEF Safe, TablesInv, LockHeld, RowsFresh
<1>4. TypeOK /\ lastSeq \in [Rooms -> Nat] /\ LogReads
  BY LogAt DEF Safe, TablesInv, TypeOK
<1>5. LogReads'
  BY LogAt, PTL
<1>6. \A d \in Rooms : /\ DOMAIN LogOf(d) = 1..lastSeq[d]
                       /\ \A q \in messages : q.room = d => LogOf(d)[q.seq] = PostOf(q)
                       /\ \A s \in 1..lastSeq[d] : \E q \in messages : q.room = d /\ q.seq = s
  BY <1>4 DEF LogReads
<1>7. \A d \in Rooms : \A q \in messages' : q.room = d => LogOf(d)'[q.seq] = PostOf(q)
  BY <1>5 DEF LogReads, PostOf
<1>8. \A d \in Rooms : LogOf(d)' = [s \in 1..lastSeq'[d] |-> LogOf(d)'[s]]
  BY DEF LogOf
<1>9. ASSUME NEW d \in Rooms, NEW s \in 1..lastSeq[d] PROVE LogOf(d)'[s] = LogOf(d)[s]
  <2>1. PICK q \in messages : q.room = d /\ q.seq = s
    BY <1>6
  <2>2. q \in messages'
    BY <1>2
  <2> QED
    BY <1>6, <1>7, <2>1, <2>2
<1>10. \A d \in Rooms \ {c} : LogOf(d)' = LogOf(d)
  <2> SUFFICES ASSUME NEW d \in Rooms \ {c} PROVE LogOf(d)' = LogOf(d)
    OBVIOUS
  <2>1. lastSeq'[d] = lastSeq[d]
    BY <1>2, <1>4
  <2>2. LogOf(d) = [s \in 1..lastSeq[d] |-> LogOf(d)[s]]
    BY DEF LogOf
  <2> QED
    BY <1>8, <1>9, <2>1, <2>2
<1>11. LogOf(c)' = Append(LogOf(c), p)
  <2>1. LogOf(c) \in Seq(Log!Post) /\ Len(LogOf(c)) = lastSeq[c]
    BY <1>4, LogIsSeq
  <2>2. lastSeq'[c] = lastSeq[c] + 1 /\ lastSeq[c] \in Nat
    BY <1>1, <1>2, <1>3, <1>4
  <2>3. LogOf(c)'[lastSeq[c] + 1] = p
    BY <1>c, <1>p, <1>2, <1>3, <1>7
  <2>4. Append(LogOf(c), p) = [s \in 1..(lastSeq[c] + 1) |->
                                 IF s = lastSeq[c] + 1 THEN p ELSE LogOf(c)[s]]
    BY <1>1, <2>1, AppendIs
  <2>5. \A s \in 1..(lastSeq[c] + 1) : s = lastSeq[c] + 1 \/ s \in 1..lastSeq[c]
    BY <2>2
  <2>6. \A s \in 1..(lastSeq[c] + 1) :
          LogOf(c)'[s] = IF s = lastSeq[c] + 1 THEN p ELSE LogOf(c)[s]
    <3>1. \A s \in 1..lastSeq[c] : LogOf(c)'[s] = LogOf(c)[s]
      BY <1>9
    <3>2. ASSUME NEW s \in 1..(lastSeq[c] + 1), s # lastSeq[c] + 1
          PROVE  LogOf(c)'[s] = LogOf(c)[s]
      BY <2>5, <3>1, <3>2
    <3> QED
      BY <2>3, <3>2
  <2> QED
    BY <1>8, <2>2, <2>4, <2>6
<1>12. ~Log!AlreadyPosted(c, p)
  <2> SUFFICES ASSUME m.key # NoKey, NEW s \in 1..lastSeq[c], LogOf(c)[s] = p
               PROVE  FALSE
    BY <1>p, <1>6 DEF Log!AlreadyPosted, PostOf
  <2>1. PICK q \in messages : q.room = c /\ q.seq = s
    BY <1>6
  <2>2. PostOf(q) = PostOf(m)
    BY <1>p, <1>6, <2>1
  <2> QED
    BY <1>c, <1>3, <2>1, <2>2 DEF PostOf, Duplicate, SameKey
<1>13. \A d \in Rooms : HeardOf(d)' = HeardOf(d)
  BY <1>2 DEF HeardOf, Published
<1>14. Log!AppendPost(c)
  BY <1>1, <1>10, <1>11, <1>12, <1>13 DEF Log!AppendPost
<1> QED
  BY <1>14

(* What a room has heard is what the broker has a copy of.                 *)
LEMMA HeardReads ==
  ASSUME NEW c, NEW s
  PROVE  s \in HeardOf(c) <=> \E p \in Published : p.room = c /\ p.seq = s
  BY DEF HeardOf

(* The broker gets a row whose earlier rows it has: either it had the row, *)
(* or the row is the next of its room to be announced.                     *)
LEMMA StoreAnnounces ==
  ASSUME Safe, NEW m \in messages, BrokerStores(m), UNCHANGED <<messages, lastSeq>>,
         \A p \in messages : Earlier(p, m) => p \in Published
  PROVE  (\E c \in Rooms : Log!Announce(c)) \/ UNCHANGED Log!logVars
<1>1. Published' = Published \cup {m}
  BY BrokerStoresInOrder
<1>2. \A d \in Rooms : LogOf(d)' = LogOf(d)
  BY DEF LogOf
<1>3. Published \subseteq messages
  BY DEF Safe, RelayInv, RowsCommitted, Published
<1>4. TypeOK /\ LogReads /\ OneEach /\ IdsFollowSeq
  BY LogAt, SeqGapFreeSplit DEF Safe, TablesInv
<1>5. \A q \in messages : q.id \in Nat /\ q.seq \in Nat /\ q.room \in Rooms
  BY <1>4 DEF TypeOK, Message
<1>6. PICK c \in Rooms : c = m.room
  BY <1>5
<1>7. PICK s \in Nat : s = m.seq
  BY <1>5
<1>8. CASE m \in Published
  <2>1. \A d \in Rooms : HeardOf(d)' = HeardOf(d)
    BY <1>1, <1>8 DEF HeardOf
  <2> QED
    BY <1>2, <2>1 DEF Log!logVars
<1>9. CASE m \notin Published
  <2>1. s \in 1..lastSeq[c] /\ DOMAIN LogOf(c) = 1..lastSeq[c] /\ lastSeq[c] \in Nat
    BY <1>4, <1>6, <1>7 DEF LogReads, TypeOK
  <2>2. ASSUME NEW t \in 1..(s - 1) PROVE t \in HeardOf(c)
    <3>1. t \in 1..lastSeq[c] /\ t < s
      BY <2>1
    <3>2. PICK q \in messages : q.room = c /\ q.seq = t
      BY <1>4, <3>1 DEF LogReads
    <3>3. Earlier(q, m)
      BY <1>4, <1>6, <1>7, <3>1, <3>2 DEF Earlier, IdsFollowSeq
    <3> QED
      BY <3>2, <3>3, HeardReads
  <2>3. ASSUME NEW t \in HeardOf(c) PROVE t \in 1..(s - 1)
    <3>1. PICK q \in Published : q.room = c /\ q.seq = t
      BY HeardReads
    <3>2. q \in messages /\ t \in 1..lastSeq[c]
      BY <1>3, <1>4, <3>1 DEF LogReads
    <3>3. t # s
      BY <1>4, <1>6, <1>7, <1>9, <3>1, <3>2 DEF OneEach
    <3>4. ~(s < t)
      <4> SUFFICES ASSUME s < t PROVE FALSE
        OBVIOUS
      <4>1. Earlier(m, q)
        BY <1>4, <1>6, <1>7, <3>1, <3>2 DEF Earlier, IdsFollowSeq
      <4> QED
        BY <1>9, <3>1, <4>1 DEF Safe, RelayInv, NoRowAhead
    <3> QED
      BY <2>1, <3>2, <3>3, <3>4
  <2>4. HeardOf(c) = 1..(s - 1)
    BY <2>2, <2>3
  <2>5. HeardOf(c)' = 1..s
    <3>1. HeardOf(c)' = HeardOf(c) \cup {s}
      BY <1>1, <1>6, <1>7 DEF HeardOf
    <3> QED
      BY <2>1, <2>4, <3>1
  <2>6. \A d \in Rooms \ {c} : HeardOf(d)' = HeardOf(d)
    BY <1>1, <1>6 DEF HeardOf
  <2>7. Log!Announce(c)
    BY <1>2, <2>1, <2>4, <2>5, <2>6 DEF Log!Announce
  <2> QED
    BY <2>7
<1> QED
  BY <1>8, <1>9

(* A step that touches neither the messages nor the stream is invisible.   *)
LEMMA InvisibleStep ==
  ASSUME UNCHANGED <<messages, lastSeq, stream>> PROVE UNCHANGED Log!logVars
<1>1. \A c \in Rooms : LogOf(c)' = LogOf(c) /\ HeardOf(c)' = HeardOf(c)
  BY DEF LogOf, HeardOf, Published
<1> QED
  BY <1>1 DEF Log!logVars

(* Every step of the message path is a step of the log, or none.           *)
LEMMA StepRefines ==
  ASSUME Safe, Safe', [Next]_vars PROVE [Log!LogNext]_(Log!logVars)
<1> USE DEF dbVars, brokerVars
<1>1. ASSUME NEW h \in Handlers, HandlerStep(h)
      PROVE  (\E c \in Rooms : Log!AppendPost(c)) \/ UNCHANGED <<messages, lastSeq, stream>>
  <2>1. CASE Commit(h)
    BY <2>1, CommitAppends DEF Safe, TablesInv
  <2>2. CASE ~Commit(h)
    BY <1>1, <2>2 DEF HandlerStep, AllocateSeq, InsertRows, InsertDuplicate,
                      ReloadExisting, Reply, Abort
  <2> QED
    BY <2>1, <2>2
<1>2. ASSUME NEW n \in Nodes, NEW m \in batch[n], IsNextRow(n, m), BrokerStores(m),
             UNCHANGED dbVars
      PROVE  (\E c \in Rooms : Log!Announce(c)) \/ UNCHANGED Log!logVars
  BY <1>2, NextRowEarlier, StoreAnnounces
<1>3. ASSUME NEW n \in Nodes, RelayStep(n)
      PROVE  (\E c \in Rooms : Log!Announce(c)) \/ UNCHANGED Log!logVars
  <2>1. CASE PublishAcked(n)
    BY <1>2, <2>1 DEF PublishAcked
  <2>2. CASE PublishFails(n)
    <3>1. PICK m \in batch[n] : IsNextRow(n, m) /\ (UNCHANGED stream \/ BrokerStores(m))
      BY <2>2 DEF PublishFails
    <3>2. UNCHANGED dbVars
      BY <2>2 DEF PublishFails
    <3> QED
      BY <1>2, <3>1, <3>2, InvisibleStep
  <2>3. CASE ~PublishAcked(n) /\ ~PublishFails(n)
    BY <1>3, <2>3, InvisibleStep DEF RelayStep, TakeLock, Fetch, MarkPublished,
       NothingMarked, Clean, Release
  <2> QED
    BY <2>1, <2>2, <2>3
<1>4. ASSUME FaultStep
      PROVE  (\E c \in Rooms : Log!Announce(c)) \/ UNCHANGED Log!logVars
  <2>1. ASSUME NEW m \in wire, WireArrives(m)
        PROVE  (\E c \in Rooms : Log!Announce(c)) \/ UNCHANGED Log!logVars
    <3>1. m \in messages /\ \A p \in messages : Earlier(p, m) => p \in Published
      BY DEF Safe, RelayInv, RowsCommitted, NoRowAhead
    <3>2. UNCHANGED dbVars /\ (BrokerStores(m) \/ UNCHANGED stream)
      BY <2>1 DEF WireArrives
    <3> QED
      BY <3>1, <3>2, StoreAnnounces, InvisibleStep
  <2>2. CASE ~(\E m \in wire : WireArrives(m))
    BY <1>4, <2>2, InvisibleStep DEF FaultStep, Stop, Crash, Restart, SessionEnds,
       WindowPasses
  <2> QED
    BY <2>1, <2>2
<1>5. CASE UNCHANGED vars
  BY <1>5, InvisibleStep DEF vars
<1> QED
  BY <1>1, <1>3, <1>4, <1>5, InvisibleStep DEF Next, Log!LogNext

(* CreateMessage, the relays and the broker together are the log that      *)
(* module ChatLog promises: whatever runs side by side, crashes, is lost   *)
(* or comes twice, a post is appended once and the posts of a room are     *)
(* announced one after the other.                                          *)
THEOREM PathIsALog == Spec => ImplementsLog
<1>1. Init => Log!LogInit
  <2> SUFFICES ASSUME Init PROVE Log!LogInit
    OBVIOUS
  <2>1. \A c \in Rooms : HeardOf(c) = {}
    BY DEF Init, HeardOf, Published
  <2>2. \A c \in Rooms : LogOf(c) = <<>>
    BY DEF Init, LogOf
  <2> QED
    BY <2>1, <2>2 DEF Log!LogInit
<1>2. Safe /\ Safe' /\ [Next]_vars => [Log!LogNext]_(Log!logVars)
  BY StepRefines
<1>3. Spec => []Safe
  BY TypeCorrect, TablesCorrect, RelayCorrect, PTL DEF Safe
<1> QED
  BY <1>1, <1>2, <1>3, PTL DEF Spec, ImplementsLog, Log!LogSpec
==============================================================================
