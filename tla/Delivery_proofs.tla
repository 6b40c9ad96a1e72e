-------------------------- MODULE Delivery_proofs --------------------------
(***************************************************************************)
(* Proofs about module Delivery, for any number of nodes, messages and     *)
(* faults, any buffer and any size of a page.                            *)
(***************************************************************************)
EXTENDS Delivery, TLAPS, FiniteSetTheorems, WellFoundedInduction

(* What a repair starts above is on screen, or is excused when the repair  *)
(* was one of the page, which does not ask for it.                         *)
BelowBase ==
    ~ opening => (floor + 1)..repair.base
                   \subseteq (IF repair.fill THEN seen ELSE seen \cup excused)

(* Like Coming, but a row that is in the stream already does not count as  *)
(* coming because it is pending: publishing it again brings no frame.      *)
Accounted(q) ==
    \/ q \in seen \cup excused
    \/ Contains(wire, q)
    \/ q \in told \cap Unread(sock.node) /\ ~ Deaf(sock.node)
    \/ q \in pending /\ q \notin ToSet(stream)

(* Nothing is lost without a cause from the end of the repair on, already  *)
(* while the socket is not registered.                                     *)
Watched ==
    (sock # Off /\ repair.st = "done" /\ ~ opening) =>
        \A q \in (floor + 1)..committed : Accounted(q)

DInv == TypeOK /\ PagesLeaveNoHole /\ BelowBase /\ Watched

-----------------------------------------------------------------------------
(* Sets of numbers.                                                        *)

LEMMA Smallest ==
  ASSUME NEW T \in SUBSET Nat, T # {}
  PROVE  \E x \in T : \A y \in T : x <= y
<1>1. PICK x \in T : \A y \in T : ~ (<<y, x>> \in OpToRel(<, Nat))
  <2>1. \E x \in T : \A y \in T : ~ (<<y, x>> \in OpToRel(<, Nat))
    BY NatLessThanWellFounded, WFMin
  <2> QED
    BY <2>1
<1>2. \A y \in T : ~ (y < x)
  BY <1>1 DEF OpToRel
<1> QED
  BY <1>2

LEMMA Highest ==
  ASSUME NEW n \in Nat, NEW qs \in SUBSET (1..n)
  PROVE  /\ highest(qs) \in 0..n
         /\ qs # {} => highest(qs) \in qs
         /\ \A p \in qs : p <= highest(qs)
<1>a. \A q \in qs : q \in Nat /\ 1 <= q /\ q <= n
  OBVIOUS
<1>1. CASE qs = {}
  BY <1>1 DEF highest
<1>2. CASE qs # {}
  <2> DEFINE T == {n - q : q \in qs}
  <2>1. T \in SUBSET Nat /\ T # {}
    <3>1. \A q \in qs : n - q \in Nat
      BY <1>a
    <3> QED
      BY <1>2, <3>1
  <2>2. PICK x \in T : \A y \in T : x <= y
    BY <2>1, Smallest
  <2>3. PICK q \in qs : x = n - q
    BY <2>2
  <2>4. ASSUME NEW p \in qs PROVE p <= q
    <3>1. n - p \in T
      OBVIOUS
    <3>2. x <= n - p
      BY <2>2, <3>1
    <3> QED
      BY <1>a, <2>3, <3>2
  <2>5. \E h \in qs : \A p \in qs : p <= h
    BY <2>3, <2>4
  <2>6. PICK h \in qs : h = highest(qs) /\ \A p \in qs : p <= h
    BY <1>2, <2>5 DEF highest
  <2>7. h \in 0..n
    BY <1>a
  <2> QED
    BY <2>6, <2>7
<1> QED
  BY <1>1, <1>2

LEMMA HighestOfRange ==
  ASSUME NEW n \in Nat, NEW a \in Nat, NEW b \in 1..n, a < b
  PROVE  highest((a + 1)..b) = b
<1>1. (a + 1)..b \in SUBSET (1..n) /\ b \in (a + 1)..b
  OBVIOUS
<1>2. /\ highest((a + 1)..b) \in (a + 1)..b
      /\ b <= highest((a + 1)..b)
  BY <1>1, Highest
<1> QED
  BY <1>2

LEMMA MinOfTwo ==
  ASSUME NEW a \in Nat \ {0}, NEW b \in Nat \ {0}
  PROVE  Min({a, b}) \in Nat \ {0}
<1>1. \E x \in {a, b} : \A y \in {a, b} : x =< y
  <2>1. CASE a <= b
    BY <2>1
  <2>2. CASE b <= a
    BY <2>2
  <2> QED
    BY <2>1, <2>2
<1>2. Min({a, b}) \in {a, b}
  BY <1>1 DEF Min
<1> QED
  BY <1>2

-----------------------------------------------------------------------------
(* Pages.                                                                  *)

(* Whatever the client asks for, a page has room for one message.          *)
LEMMA LimitIsPositive ==
  ASSUME NEW after, NEW raw \in Nat
  PROVE  pageParams(after, raw).limit \in Nat \ {0}
<1>1. CASE raw = 0
  BY <1>1, DeliveryAssumption DEF pageParams
<1>2. CASE raw # 0
  <2>1. Min({raw, MaxPageSize}) \in Nat \ {0}
    BY <1>2, DeliveryAssumption, MinOfTwo
  <2> QED
    BY <1>2, <2>1 DEF pageParams
<1> QED
  BY <1>1, <1>2

(* A full page of a gap ends at its highest seq, one that is not full at   *)
(* the end of the room; neither leaves a hole.                             *)
LEMMA PageIsRange ==
  ASSUME committed \in Nat, NEW after \in 0..committed, NEW limit \in Nat \ {0}
  PROVE  LET page == ListMessagesAfterSeq(after, limit)
         IN  IF Cardinality(page) = limit
             THEN /\ page = (after + 1)..(after + limit)
                  /\ after + limit <= committed
                  /\ NextAfterSeq(page) = after + limit
             ELSE page = (after + 1)..committed
<1> DEFINE page == ListMessagesAfterSeq(after, limit)
<1>1. CASE after + limit <= committed
  <2>1. page = (after + 1)..(after + limit)
    BY <1>1 DEF ListMessagesAfterSeq
  <2>2. Cardinality(page) = limit
    BY <2>1, FS_Interval
  <2>3. /\ after \in Nat /\ after + limit \in 1..committed
        /\ after < after + limit
    BY <1>1
  <2>4. highest((after + 1)..(after + limit)) = after + limit
    BY <2>3, HighestOfRange
  <2> QED
    BY <1>1, <2>1, <2>2, <2>4 DEF NextAfterSeq
<1>2. CASE after + limit > committed
  <2>1. page = (after + 1)..committed
    BY <1>2 DEF ListMessagesAfterSeq
  <2>2. Cardinality((after + 1)..committed)
          = IF after + 1 > committed THEN 0 ELSE committed - (after + 1) + 1
    BY FS_Interval
  <2>3. Cardinality(page) # limit
    BY <1>2, <2>1, <2>2
  <2> QED
    BY <2>1, <2>3
<1> QED
  BY <1>1, <1>2

LEMMA HistoryIsRange ==
  ASSUME committed \in Nat, NEW limit \in Nat \ {0}
  PROVE  LET page == ListMessages(limit)
         IN  /\ Cardinality(page) \in 0..committed
             /\ page = (committed - Cardinality(page) + 1)..committed
<1> DEFINE page == ListMessages(limit)
<1>1. CASE limit <= committed
  <2>1. page = (committed - limit + 1)..committed
    BY <1>1 DEF ListMessages
  <2>2. Cardinality(page) = limit
    BY <1>1, <2>1, FS_Interval
  <2> QED
    BY <1>1, <2>1, <2>2
<1>2. CASE limit > committed
  <2>1. page = 1..committed
    BY <1>2 DEF ListMessages
  <2>2. Cardinality(page) = committed
    BY <2>1, FS_Interval
  <2> QED
    BY <2>1, <2>2
<1> QED
  BY <1>1, <1>2

-----------------------------------------------------------------------------
(* Sequences.                                                              *)

LEMMA AppendAdds ==
  ASSUME NEW S, NEW s \in Seq(S), NEW e \in S
  PROVE  /\ Append(s, e) \in Seq(S) /\ Len(Append(s, e)) = Len(s) + 1
         /\ ToSet(Append(s, e)) = ToSet(s) \cup {e}
<1>1. /\ DOMAIN s = 1..Len(s) /\ DOMAIN Append(s, e) = 1..(Len(s) + 1)
      /\ \A i \in DOMAIN s : Append(s, e)[i] = s[i]
      /\ Append(s, e)[Len(s) + 1] = e
      /\ Len(s) \in Nat /\ Len(Append(s, e)) = Len(s) + 1
  OBVIOUS
<1>2. ASSUME NEW x \in ToSet(Append(s, e)) PROVE x \in ToSet(s) \cup {e}
  BY <1>1, <1>2 DEF ToSet
<1>3. ASSUME NEW x \in ToSet(s) \cup {e} PROVE x \in ToSet(Append(s, e))
  BY <1>1, <1>3 DEF ToSet
<1> QED
  BY <1>1, <1>2, <1>3

LEMMA TailRemoves ==
  ASSUME NEW S, NEW s \in Seq(S), s # <<>>
  PROVE  /\ Tail(s) \in Seq(S) /\ Len(Tail(s)) <= Len(s)
         /\ ToSet(s) = ToSet(Tail(s)) \cup {Head(s)}
<1>1. /\ DOMAIN s = 1..Len(s) /\ DOMAIN Tail(s) = 1..(Len(s) - 1)
      /\ \A i \in DOMAIN Tail(s) : Tail(s)[i] = s[i + 1]
      /\ Head(s) = s[1] /\ Len(s) \in Nat \ {0}
      /\ Len(Tail(s)) = Len(s) - 1
  OBVIOUS
<1>2. ASSUME NEW x \in ToSet(s) PROVE x \in ToSet(Tail(s)) \cup {Head(s)}
  <2>1. PICK i \in 1..Len(s) : x = s[i]
    BY <1>1 DEF ToSet
  <2>2. CASE i = 1
    BY <1>1, <2>1, <2>2
  <2>3. CASE i # 1
    <3>1. i - 1 \in DOMAIN Tail(s) /\ Tail(s)[i - 1] = x
      BY <1>1, <2>1, <2>3
    <3> QED
      BY <3>1 DEF ToSet
  <2> QED
    BY <2>2, <2>3
<1>3. ASSUME NEW x \in ToSet(Tail(s)) \cup {Head(s)} PROVE x \in ToSet(s)
  BY <1>1, <1>3 DEF ToSet
<1> QED
  BY <1>1, <1>2, <1>3

LEMMA ContainsIsIn ==
  ASSUME NEW S, NEW s \in Seq(S), NEW e
  PROVE  Contains(s, e) <=> e \in ToSet(s)
  BY DEF Contains, ToSet

LEMMA EmptyHasNone == <<>> \in Seq(Seqs) /\ ToSet(<<>>) = {} /\ Len(<<>>) = 0
  BY DEF ToSet

-----------------------------------------------------------------------------
(* What a step may leave to these two lemmas.                              *)

LEMMA ScreenOnlyGrows ==
  ASSUME DInv, UNCHANGED <<opening, repair, floor>>, seen \subseteq seen',
         seen \cup excused \subseteq seen' \cup excused'
  PROVE  PagesLeaveNoHole' /\ BelowBase'
<1>1. PagesLeaveNoHole'
  BY DEF DInv, PagesLeaveNoHole
<1>2. BelowBase'
  BY DEF DInv, BelowBase
<1> QED
  BY <1>1, <1>2

LEMMA StillWatched ==
  ASSUME DInv, UNCHANGED <<opening, repair, floor, committed>>,
         sock' # Off => sock # Off,
         sock' # Off => \A q \in 1..committed : Accounted(q) => Accounted(q)'
  PROVE  Watched'
<1> SUFFICES ASSUME sock' # Off, repair'.st = "done", ~ opening',
                    NEW q \in (floor' + 1)..committed'
             PROVE  Accounted(q)'
  BY DEF Watched
<1>1. q \in (floor + 1)..committed /\ q \in 1..committed
  BY DEF DInv, TypeOK
<1>2. Accounted(q)
  BY <1>1 DEF DInv, Watched
<1> QED
  BY <1>1, <1>2

LEMMA OffOrOn ==
  ASSUME TypeOK
  PROVE  /\ sock.st = "off" <=> sock = Off
         /\ sock # Off => sock.node \in Nodes /\ sock.st \in {"open", "in"}
  BY DEF TypeOK, Off

-----------------------------------------------------------------------------
(* Processes and commits.                                                  *)

(* What a node reads; the part of TypeOK about the fan-out.                *)
Feeds ==
    /\ feed \in [Nodes -> {"none", "making", "on"}]
    /\ fan \in [Nodes -> 0..(Len(stream) + 1)]
    /\ mode \in [Nodes -> {"nats", "local", "down"}]
    /\ \A n \in Nodes : /\ feed[n] # "none" => mode[n] = "nats"
                        /\ feed[n] = "on" => fan[n] # NoConsumer

LEMMA StartStep ==
  ASSUME DInv, NEW n \in Nodes, Start(n)
  PROVE  DInv'
<1> USE DEF Start, clientVars
<1>1. TypeOK'
  <2>1. Feeds'
    <3>1. Feeds /\ mode[n] = "down"
      BY DEF DInv, TypeOK, Feeds
    <3> QED
      BY <3>1 DEF Feeds
  <2>2. Clustered \/ \A m \in Nodes : mode'[m] # "nats"
    BY DEF DInv, TypeOK
  <2>3. sock # Off => mode'[sock.node] # "down"
    BY OffOrOn DEF DInv, TypeOK
  <2> QED
    BY <2>1, <2>2, <2>3 DEF DInv, TypeOK, Feeds
<1>2. PagesLeaveNoHole' /\ BelowBase'
  BY ScreenOnlyGrows
<1>3. ASSUME sock' # Off PROVE sock.node # n /\ feed'[sock.node] = feed[sock.node]
  BY <1>3, OffOrOn DEF DInv, TypeOK
<1>4. sock' # Off => \A q \in 1..committed : Accounted(q) => Accounted(q)'
  BY <1>3 DEF Accounted, Unread, Deaf
<1> QED
  BY <1>1, <1>2, <1>4, StillWatched DEF DInv

LEMMA FaultTyped ==
  ASSUME TypeOK, Fault
  PROVE  faults' \in 0..MaxFaults
  BY DeliveryAssumption DEF TypeOK, Fault

LEMMA DieStep ==
  ASSUME DInv, NEW n \in Nodes, Die(n)
  PROVE  DInv'
<1> USE DEF Die, Cut
<1>1. TypeOK'
  <2>1. Feeds'
    BY DEF DInv, TypeOK, Feeds
  <2>2. Clustered \/ \A m \in Nodes : mode'[m] # "nats"
    BY DEF DInv, TypeOK
  <2>3. faults' \in 0..MaxFaults
    BY FaultTyped DEF DInv
  <2>4. sock' \in {Off} \cup [st : {"open", "in"}, node : Nodes]
    BY DEF DInv, TypeOK
  <2>5. sock' # Off => mode'[sock'.node] # "down"
    BY OffOrOn DEF DInv, TypeOK
  <2>6. /\ wire' \in Seq(Seqs) /\ ToSet(wire') \subseteq 1..committed
        /\ Len(wire') <= Buffer
    <3>1. CASE UNCHANGED wire
      BY <3>1 DEF DInv, TypeOK
    <3>2. CASE wire' = <<>>
      BY <3>2, EmptyHasNone, DeliveryAssumption
    <3> QED
      BY <3>1, <3>2
  <2> QED
    BY <2>1, <2>2, <2>3, <2>4, <2>5, <2>6 DEF DInv, TypeOK, Feeds
<1>2. PagesLeaveNoHole' /\ BelowBase'
  BY ScreenOnlyGrows
<1>3. sock' # Off => UNCHANGED <<sock, wire>>
  OBVIOUS
<1>4. ASSUME sock' # Off PROVE feed'[sock.node] = feed[sock.node]
  BY <1>4, OffOrOn DEF DInv, TypeOK
<1>5. sock' # Off => \A q \in 1..committed : Accounted(q) => Accounted(q)'
  BY <1>3, <1>4 DEF Accounted, Unread, Deaf
<1> QED
  BY <1>1, <1>2, <1>3, <1>5, StillWatched DEF DInv

LEMMA CommitStep ==
  ASSUME DInv, NEW own \in BOOLEAN, Commit(own)
  PROVE  DInv'
<1> USE DEF Commit
<1>1. TypeOK'
  <2>1. committed' \in 0..MaxSeq /\ 1..committed \subseteq 1..committed'
        /\ 0..committed \subseteq 0..committed' /\ committed' \in 1..committed'
    BY DeliveryAssumption DEF DInv, TypeOK
  <2>2. repair' \in [st : {"none", "running", "done"}, base : 0..committed',
                     after : 0..committed', fill : BOOLEAN]
    BY <2>1 DEF DInv, TypeOK
  <2>3. pending' \subseteq 1..committed' /\ mine' \subseteq 1..committed'
    BY <2>1 DEF DInv, TypeOK
  <2> QED
    BY <2>1, <2>2, <2>3 DEF DInv, TypeOK
<1>2. PagesLeaveNoHole' /\ BelowBase'
  BY ScreenOnlyGrows
<1>3. Watched'
  <2> SUFFICES ASSUME sock' # Off, repair'.st = "done", ~ opening',
                      NEW q \in (floor' + 1)..committed'
               PROVE  Accounted(q)'
    BY DEF Watched
  <2>1. CASE q = committed'
    BY <2>1 DEF Accounted, Unread, Deaf, DInv, TypeOK
  <2>2. CASE q # committed'
    <3>1. q \in (floor + 1)..committed
      BY <2>2 DEF DInv, TypeOK
    <3>2. Accounted(q)
      BY <3>1 DEF DInv, Watched
    <3> QED
      BY <3>2 DEF Accounted, Unread, Deaf
  <2> QED
    BY <2>1, <2>2
<1> QED
  BY <1>1, <1>2, <1>3 DEF DInv

LEMMA AddMemberStep ==
  ASSUME DInv, AddMember
  PROVE  DInv'
<1> USE DEF AddMember, clientVars
<1>1. TypeOK'
  BY DEF DInv, TypeOK
<1>2. PagesLeaveNoHole' /\ BelowBase'
  BY ScreenOnlyGrows
<1>3. \A q \in 1..committed : Accounted(q) => Accounted(q)'
  BY DEF Accounted, Unread, Deaf
<1> QED
  BY <1>1, <1>2, <1>3, StillWatched DEF DInv

-----------------------------------------------------------------------------
(* From the outbox to the wire.                                            *)

WireOK == /\ wire \in Seq(Seqs) /\ Len(wire) <= Buffer
          /\ ToSet(wire) \subseteq 1..committed

(* A frame for a node puts it on the wire, gives it a cause, or costs the  *)
(* socket.                                                                 *)
LEMMA DeliverTells ==
  ASSUME TypeOK, NEW n \in Nodes, NEW q \in 1..committed, Deliver(n, q),
         UNCHANGED committed
  PROVE  /\ sock' \in {sock, Off} /\ WireOK'
         /\ excused \subseteq excused' /\ excused' \subseteq 1..committed
         /\ sock' # Off =>
              /\ sock' = sock /\ ToSet(wire) \subseteq ToSet(wire')
              /\ sock.node = n => q \in ToSet(wire') \cup excused' \cup seen
<1>0. q \in Seqs /\ wire \in Seq(Seqs) /\ Len(wire) <= Buffer /\ Len(wire) \in Nat
      /\ ToSet(wire) \subseteq 1..committed /\ excused \subseteq 1..committed
  BY DeliveryAssumption DEF TypeOK, Seqs
<1>1. CASE Len(wire) < Buffer /\ wire' = Append(wire, q) /\ UNCHANGED <<sock, excused>>
  <2>1. /\ wire' \in Seq(Seqs) /\ Len(wire') = Len(wire) + 1
        /\ ToSet(wire') = ToSet(wire) \cup {q}
    BY <1>0, <1>1, AppendAdds
  <2>2. WireOK'
    BY <1>0, <1>1, <2>1, DeliveryAssumption DEF WireOK
  <2> QED
    BY <1>0, <1>1, <2>1, <2>2
<1>2. CASE excused' = excused \cup ({q} \ seen) /\ UNCHANGED <<sock, wire>>
  BY <1>0, <1>2 DEF WireOK
<1>3. CASE Cut /\ UNCHANGED excused
  BY <1>0, <1>3, EmptyHasNone, DeliveryAssumption DEF WireOK, Cut
<1>4. CASE (sock.st = "off" \/ sock.node # n) /\ UNCHANGED <<sock, wire, excused>>
  BY <1>0, <1>4, OffOrOn DEF WireOK
<1> QED
  BY <1>1, <1>2, <1>3, <1>4 DEF Deliver

LEMMA StampTyped ==
  ASSUME NEW q, Stamp(q)
  PROVE  pending' \subseteq pending /\ \A p \in pending : p # q => p \in pending'
  BY DEF Stamp

LEMMA PublishNatsStep ==
  ASSUME DInv, NEW n \in Nodes, NEW q \in pending, PublishNats(n, q)
  PROVE  DInv'
<1> USE DEF PublishNats
<1>0. /\ q \in 1..committed /\ q \in Seqs /\ stream \in Seq(Seqs)
      /\ pending' \subseteq pending /\ \A p \in pending : p # q => p \in pending'
  BY StampTyped, DeliveryAssumption DEF DInv, TypeOK, Seqs
<1>1. CASE Contains(stream, q)
  <2>1. UNCHANGED <<stream, told, excused>> /\ q \in ToSet(stream)
    BY <1>0, <1>1, ContainsIsIn
  <2>2. TypeOK'
    BY <1>0, <2>1 DEF DInv, TypeOK
  <2>3. PagesLeaveNoHole' /\ BelowBase'
    BY <2>1, ScreenOnlyGrows
  <2>4. \A p \in 1..committed : Accounted(p) => Accounted(p)'
    BY <1>0, <2>1 DEF Accounted, Unread, Deaf
  <2> QED
    BY <2>2, <2>3, <2>4, StillWatched DEF DInv
<1>2. CASE ~ Contains(stream, q)
  <2>1. stream' = Append(stream, q) /\ q \notin ToSet(stream)
    BY <1>0, <1>2, ContainsIsIn
  <2>2. /\ stream' \in Seq(Seqs) /\ Len(stream') = Len(stream) + 1
        /\ ToSet(stream') = ToSet(stream) \cup {q}
    BY <1>0, <2>1, AppendAdds
  <2>3. /\ Len(stream) \in Nat /\ DOMAIN stream = 1..Len(stream)
        /\ DOMAIN stream' = 1..(Len(stream) + 1)
        /\ \A i \in DOMAIN stream : stream'[i] = stream[i]
        /\ stream'[Len(stream) + 1] = q
    BY <1>0, <2>1
  <2>4. excused \subseteq excused' /\ excused' \subseteq excused \cup {q}
        /\ told \subseteq told' /\ told' \subseteq told \cup {q}
    BY <1>2
  <2>5. TypeOK'
    <3>1. IsInjective(stream')
      <4>1. IsInjective(stream)
        BY DEF DInv, TypeOK
      <4>2. \A i \in DOMAIN stream : stream[i] # q
        BY <2>1 DEF ToSet
      <4> QED
        BY <2>3, <4>1, <4>2 DEF IsInjective
    <3>2. fan' \in [Nodes -> 0..(Len(stream') + 1)]
      BY <2>2, <2>3 DEF DInv, TypeOK
    <3>3. /\ pending' \subseteq 1..committed /\ excused' \subseteq 1..committed
          /\ told' \subseteq ToSet(stream') /\ ToSet(stream') \subseteq 1..committed
      BY <1>0, <2>2, <2>4 DEF DInv, TypeOK
    <3> QED
      BY <2>2, <3>1, <3>2, <3>3 DEF DInv, TypeOK
  <2>6. PagesLeaveNoHole' /\ BelowBase'
    BY <2>4, ScreenOnlyGrows
  <2>7. ASSUME sock' # Off, NEW p \in 1..committed, Accounted(p)
        PROVE  Accounted(p)'
    <3>1. CASE p = q
      <4>1. CASE q \in seen \cup excused'
        BY <3>1, <4>1 DEF Accounted, Unread, Deaf
      <4>2. CASE q \notin seen \cup excused'
        <5>1. Named /\ ~ Deaf(sock.node)
          BY <1>2, <2>7, <4>2
        <5>2. q \in told' /\ fan[sock.node] # NoConsumer
          BY <1>2, <5>1 DEF Deaf
        <5>3. fan'[sock.node] \in 1..(Len(stream) + 1)
          BY <2>3, <2>7, <5>2, OffOrOn DEF DInv, TypeOK, NoConsumer
        <5>4. q \in Unread(sock.node)'
          BY <2>3, <5>3 DEF Unread
        <5>5. ~ Deaf(sock.node)'
          BY <2>3, <5>1 DEF Deaf
        <5> QED
          BY <3>1, <5>2, <5>4, <5>5 DEF Accounted
      <4> QED
        BY <4>1, <4>2
    <3>2. CASE p # q
      BY <1>0, <2>2, <2>3, <2>4, <2>7, <3>2 DEF Accounted, Unread, Deaf
    <3> QED
      BY <3>1, <3>2
  <2> QED
    BY <2>5, <2>6, <2>7, StillWatched DEF DInv
<1> QED
  BY <1>1, <1>2

LEMMA PublishLocalStep ==
  ASSUME DInv, NEW n \in Nodes, NEW q \in pending, PublishLocal(n, q)
  PROVE  DInv'
<1> USE DEF PublishLocal
<1>0. /\ q \in 1..committed /\ TypeOK
      /\ wire \in Seq(Seqs)
      /\ pending' \subseteq pending /\ \A p \in pending : p # q => p \in pending'
  BY StampTyped DEF DInv, TypeOK
<1>1. /\ sock' \in {sock, Off} /\ WireOK'
      /\ excused \subseteq excused' /\ excused' \subseteq 1..committed
      /\ sock' # Off =>
           /\ sock' = sock /\ ToSet(wire) \subseteq ToSet(wire')
           /\ q \in ToSet(wire') \cup excused' \cup seen
  <2>1. CASE ~ Named \/ (sock # Off /\ sock.node # n)
    BY <1>0, <2>1 DEF TypeOK, WireOK
  <2>2. CASE ~ (~ Named \/ (sock # Off /\ sock.node # n))
    BY <1>0, <2>2, DeliverTells
  <2> QED
    BY <2>1, <2>2
<1>2. TypeOK'
  <2>1. sock' # Off => mode[sock'.node] # "down"
    BY <1>1 DEF DInv, TypeOK
  <2> QED
    BY <1>0, <1>1, <2>1 DEF TypeOK, WireOK
<1>3. PagesLeaveNoHole' /\ BelowBase'
  BY <1>1, ScreenOnlyGrows
<1>4. ASSUME sock' # Off, NEW p \in 1..committed, Accounted(p)
      PROVE  Accounted(p)'
  <2>1. \A x : /\ Contains(wire, x) <=> x \in ToSet(wire)
               /\ Contains(wire', x) <=> x \in ToSet(wire')
    BY <1>0, <1>1, ContainsIsIn DEF WireOK
  <2> QED
    BY <1>0, <1>1, <1>4, <2>1 DEF Accounted, Unread, Deaf
<1> QED
  BY <1>1, <1>2, <1>3, <1>4, StillWatched DEF DInv

(* What the sockets of a node are not told of is seen or excused.          *)
LEMMA MissedTells ==
  ASSUME TypeOK, NEW n, NEW qs \in SUBSET ToSet(stream), Missed(n, qs)
  PROVE  /\ excused \subseteq excused' /\ excused' \subseteq 1..committed
         /\ sock.node = n => qs \cap told \subseteq seen \cup excused'
  BY DEF TypeOK, Missed

LEMMA UnreadTyped ==
  ASSUME NEW n
  PROVE  Unread(n) \subseteq ToSet(stream)
  BY DEF Unread, ToSet

LEMMA SubscribeStep ==
  ASSUME DInv, NEW n \in Nodes, Subscribe(n)
  PROVE  DInv'
<1> USE DEF Subscribe, clientVars
<1>0. Feeds /\ Len(stream) \in Nat
  BY DEF DInv, TypeOK, Feeds
<1>1. TypeOK'
  <2>1. Feeds'
    BY <1>0 DEF Feeds, NoConsumer
  <2> QED
    BY <2>1 DEF DInv, TypeOK, Feeds
<1>2. PagesLeaveNoHole' /\ BelowBase'
  BY ScreenOnlyGrows
<1>3. ASSUME NEW m, ~ Deaf(m) PROVE ~ Deaf(m)' /\ fan'[m] = fan[m]
  BY <1>0, <1>3 DEF Deaf, Feeds, NoConsumer
<1>4. \A q \in 1..committed : Accounted(q) => Accounted(q)'
  BY <1>3 DEF Accounted, Unread
<1> QED
  BY <1>1, <1>2, <1>4, StillWatched DEF DInv

(* The subscription of a node ends, or its consumer does.                  *)
LEMMA FeedEndsStep ==
  ASSUME DInv, NEW n \in Nodes, Missed(n, Unread(n)), Feeds', Fault,
         \A m \in Nodes \ {n} : feed'[m] = feed[m] /\ fan'[m] = fan[m],
         UNCHANGED <<member, committed, pending, mode, stream, told, sock, wire,
                     seen, floor, opening, repair, mine>>
  PROVE  DInv'
<1>0. /\ excused \subseteq excused' /\ excused' \subseteq 1..committed
      /\ sock.node = n => Unread(n) \cap told \subseteq seen \cup excused'
  BY UnreadTyped, MissedTells DEF DInv
<1>1. TypeOK'
  BY <1>0, FaultTyped DEF DInv, TypeOK, Feeds
<1>2. PagesLeaveNoHole' /\ BelowBase'
  BY <1>0, ScreenOnlyGrows
<1>3. ASSUME sock' # Off, NEW q \in 1..committed, Accounted(q)
      PROVE  Accounted(q)'
  <2>1. sock.node \in Nodes
    BY <1>3, OffOrOn DEF DInv
  <2>2. CASE q \in told \cap Unread(sock.node) /\ ~ Deaf(sock.node)
    <3>1. CASE sock.node = n
      BY <1>0, <2>2, <3>1 DEF Accounted
    <3>2. CASE sock.node # n
      BY <2>1, <2>2, <3>2 DEF Accounted, Unread, Deaf
    <3> QED
      BY <3>1, <3>2
  <2>3. CASE q \in seen \cup excused \/ Contains(wire, q)
             \/ (q \in pending /\ q \notin ToSet(stream))
    BY <1>0, <2>3 DEF Accounted
  <2> QED
    BY <1>3, <2>2, <2>3 DEF Accounted
<1> QED
  BY <1>1, <1>2, <1>3, StillWatched DEF DInv

LEMMA SubscriptionEndsStep ==
  ASSUME DInv, NEW n \in Nodes, SubscriptionEnds(n)
  PROVE  DInv'
<1>1. Feeds'
  BY DEF DInv, TypeOK, Feeds, SubscriptionEnds
<1>2. \A m \in Nodes \ {n} : feed'[m] = feed[m] /\ fan'[m] = fan[m]
  BY DEF DInv, TypeOK, SubscriptionEnds
<1> QED
  BY <1>1, <1>2, FeedEndsStep DEF SubscriptionEnds

LEMMA ConsumerExpiresStep ==
  ASSUME DInv, NEW n \in Nodes, ConsumerExpires(n)
  PROVE  DInv'
<1>1. Feeds'
  BY DEF DInv, TypeOK, Feeds, NoConsumer, ConsumerExpires
<1>2. \A m \in Nodes \ {n} : feed'[m] = feed[m] /\ fan'[m] = fan[m]
  BY DEF DInv, TypeOK, ConsumerExpires
<1> QED
  BY <1>1, <1>2, FeedEndsStep DEF ConsumerExpires

(* The entry a node had next is handled or lost: the rest is as it was.    *)
LEMMA NextIsRead ==
  ASSUME TypeOK, NEW n \in Nodes, fan[n] \in DOMAIN stream, sock # Off,
         fan' = [fan EXCEPT ![n] = @ + 1], UNCHANGED <<stream, told, feed, sock>>,
         NEW p \in told \cap Unread(sock.node), ~ Deaf(sock.node),
         ~ (sock.node = n /\ p = stream[fan[n]])
  PROVE  p \in told' \cap Unread(sock.node)' /\ ~ Deaf(sock.node)'
<1> DEFINE m == sock.node
<1>1. /\ m \in Nodes /\ fan \in [Nodes -> 0..(Len(stream) + 1)]
      /\ DOMAIN stream = 1..Len(stream) /\ Len(stream) \in Nat
  BY OffOrOn DEF TypeOK
<1>2. PICK i \in DOMAIN stream : stream[i] = p /\ fan[m] \in 1..i
  BY DEF Unread
<1>3. fan'[m] \in 1..i
  <2>1. CASE m = n
    <3>1. i # fan[n]
      BY <1>2, <2>1
    <3> QED
      BY <1>1, <1>2, <2>1, <3>1
  <2>2. CASE m # n
    BY <1>1, <1>2, <2>2
  <2> QED
    BY <2>1, <2>2
<1>4. p \in Unread(m)'
  BY <1>2, <1>3 DEF Unread
<1>5. fan'[m] # NoConsumer
  BY <1>1, <1>3 DEF NoConsumer
<1> QED
  BY <1>4, <1>5 DEF Deaf

LEMMA EntryLostStep ==
  ASSUME DInv, NEW n \in Nodes, EntryLost(n)
  PROVE  DInv'
<1> USE DEF EntryLost
<1> DEFINE q == stream[fan[n]]
<1>0. /\ excused \subseteq excused' /\ excused' \subseteq 1..committed
      /\ (sock.node = n /\ q \in told) => q \in seen \cup excused'
  <2>1. {q} \in SUBSET ToSet(stream)
    BY DEF ToSet
  <2> QED
    BY <2>1, MissedTells DEF DInv
<1>1. TypeOK'
  <2>1. Feeds'
    BY DEF DInv, TypeOK, Feeds, NoConsumer
  <2> QED
    BY <1>0, <2>1, FaultTyped DEF DInv, TypeOK, Feeds
<1>2. PagesLeaveNoHole' /\ BelowBase'
  BY <1>0, ScreenOnlyGrows
<1>3. ASSUME sock' # Off, NEW p \in 1..committed, Accounted(p)
      PROVE  Accounted(p)'
  <2>1. CASE p \in told \cap Unread(sock.node) /\ ~ Deaf(sock.node)
    <3>1. CASE sock.node = n /\ p = q
      BY <1>0, <2>1, <3>1 DEF Accounted
    <3>2. CASE ~ (sock.node = n /\ p = q)
      BY <1>3, <2>1, <3>2, NextIsRead DEF DInv, Accounted
    <3> QED
      BY <3>1, <3>2
  <2>2. CASE p \in seen \cup excused \/ Contains(wire, p)
             \/ (p \in pending /\ p \notin ToSet(stream))
    BY <1>0, <2>2 DEF Accounted
  <2> QED
    BY <1>3, <2>1, <2>2 DEF Accounted
<1> QED
  BY <1>1, <1>2, <1>3, StillWatched DEF DInv

LEMMA FanOutStep ==
  ASSUME DInv, NEW n \in Nodes, FanOut(n)
  PROVE  DInv'
<1> USE DEF FanOut
<1> DEFINE q == stream[fan[n]]
<1>0. /\ q \in 1..committed /\ TypeOK /\ wire \in Seq(Seqs)
      /\ DOMAIN stream = 1..Len(stream) /\ Len(stream) \in Nat
      /\ fan[n] \in 1..Len(stream)
  BY DEF DInv, TypeOK, ToSet
<1>1. /\ sock' \in {sock, Off} /\ WireOK'
      /\ excused \subseteq excused' /\ excused' \subseteq 1..committed
      /\ sock' # Off =>
           /\ sock' = sock /\ ToSet(wire) \subseteq ToSet(wire')
           /\ (q \in told /\ sock.node = n) =>
                q \in ToSet(wire') \cup excused' \cup seen
  <2>1. CASE q \in told
    BY <1>0, <2>1, DeliverTells
  <2>2. CASE q \notin told
    BY <1>0, <2>2 DEF TypeOK, WireOK
  <2> QED
    BY <2>1, <2>2
<1>2. TypeOK'
  <2>1. sock' # Off => mode[sock'.node] # "down"
    BY <1>1 DEF DInv, TypeOK
  <2>2. Feeds'
    BY <1>0 DEF TypeOK, Feeds, NoConsumer
  <2> QED
    BY <1>0, <1>1, <2>1, <2>2 DEF TypeOK, Feeds, WireOK
<1>3. PagesLeaveNoHole' /\ BelowBase'
  BY <1>1, ScreenOnlyGrows
<1>4. ASSUME sock' # Off, NEW p \in 1..committed, Accounted(p)
      PROVE  Accounted(p)'
  <2>1. \A x : /\ Contains(wire, x) <=> x \in ToSet(wire)
               /\ Contains(wire', x) <=> x \in ToSet(wire')
    BY <1>0, <1>1, ContainsIsIn DEF WireOK
  <2>2. CASE p \in told \cap Unread(sock.node) /\ ~ Deaf(sock.node)
    <3>1. CASE sock.node = n /\ p = q
      BY <1>1, <1>4, <2>1, <2>2, <3>1 DEF Accounted
    <3>2. CASE ~ (sock.node = n /\ p = q)
      BY <1>0, <1>1, <1>4, <2>2, <3>2, NextIsRead DEF Accounted
    <3> QED
      BY <3>1, <3>2
  <2>3. CASE p \in seen \cup excused \/ Contains(wire, p)
             \/ (p \in pending /\ p \notin ToSet(stream))
    BY <1>1, <1>4, <2>1, <2>3 DEF Accounted
  <2> QED
    BY <1>4, <2>2, <2>3 DEF Accounted
<1> QED
  BY <1>1, <1>2, <1>3, <1>4, StillWatched DEF DInv

-----------------------------------------------------------------------------
(* The client.                                                             *)

(* What is shown is no longer excused, and nothing else is forgotten.      *)
LEMMA ShowTyped ==
  ASSUME TypeOK, NEW qs \in SUBSET (1..committed), Show(qs)
  PROVE  /\ seen' = seen \cup qs /\ seen \cup excused \subseteq seen' \cup excused'
         /\ seen' \subseteq 1..committed /\ excused' \subseteq 1..committed
  BY DEF TypeOK, Show

LEMMA ConnectStep ==
  ASSUME DInv, Connect
  PROVE  DInv'
<1> USE DEF Connect, RepairGap, serverVars
<1>0. TypeOK /\ highest(seen) \in 0..committed
  <2>1. TypeOK /\ committed \in Nat /\ seen \in SUBSET (1..committed)
    BY DeliveryAssumption DEF DInv, TypeOK
  <2> QED
    BY <2>1, Highest
<1>1. TypeOK'
  <2>1. sock' \in [st : {"open", "in"}, node : Nodes] /\ mode[sock'.node] # "down"
    BY DEF DInv, TypeOK
  <2>2. excused' \subseteq 1..committed
    BY <1>0 DEF TypeOK
  <2>3. repair' \in [st : {"none", "running", "done"}, base : 0..committed,
                     after : 0..committed, fill : BOOLEAN]
    BY <1>0
  <2> QED
    BY <1>0, <2>1, <2>2, <2>3 DEF TypeOK
<1>2. PagesLeaveNoHole'
  BY <1>0 DEF TypeOK, PagesLeaveNoHole
<1>3. BelowBase'
  BY <1>0 DEF BelowBase
<1>4. Watched'
  BY DEF Watched
<1> QED
  BY <1>1, <1>2, <1>3, <1>4 DEF DInv

LEMMA RegisterStep ==
  ASSUME DInv, Register
  PROVE  DInv'
<1> USE DEF Register, serverVars
<1>1. sock # Off /\ sock' \in [st : {"open", "in"}, node : Nodes]
      /\ sock'.node = sock.node
  BY OffOrOn DEF DInv, TypeOK, Off
<1>2. TypeOK'
  BY <1>1 DEF DInv, TypeOK
<1>3. PagesLeaveNoHole' /\ BelowBase'
  BY ScreenOnlyGrows
<1>4. \A q \in 1..committed : Accounted(q) => Accounted(q)'
  BY <1>1 DEF Accounted, Unread, Deaf
<1> QED
  BY <1>1, <1>2, <1>3, <1>4, StillWatched DEF DInv

LEMMA SocketDiesStep ==
  ASSUME DInv, SocketDies
  PROVE  DInv'
<1> USE DEF SocketDies, serverVars, Cut
<1>1. TypeOK'
  BY EmptyHasNone, DeliveryAssumption DEF DInv, TypeOK
<1>2. PagesLeaveNoHole' /\ BelowBase'
  BY ScreenOnlyGrows
<1> QED
  BY <1>1, <1>2, StillWatched DEF DInv

LEMMA FrameStep ==
  ASSUME DInv, Frame
  PROVE  DInv'
<1> USE DEF Frame, serverVars
<1>1. /\ wire' \in Seq(Seqs) /\ Len(wire') <= Len(wire) /\ wire \in Seq(Seqs)
      /\ ToSet(wire) = ToSet(wire') \cup {Head(wire)}
  BY TailRemoves DEF DInv, TypeOK
<1>2. {Head(wire)} \in SUBSET (1..committed) /\ TypeOK
  BY <1>1 DEF DInv, TypeOK
<1>3. /\ seen' = seen \cup {Head(wire)}
      /\ seen \cup excused \subseteq seen' \cup excused'
      /\ seen' \subseteq 1..committed /\ excused' \subseteq 1..committed
  BY <1>2, ShowTyped
<1>4. TypeOK'
  <2>1. Len(wire') <= Buffer
    <3>1. Len(wire) \in Nat /\ Len(wire') \in Nat /\ Len(wire) <= Buffer
      BY <1>1, <1>2 DEF TypeOK
    <3> QED
      BY <1>1, <3>1, DeliveryAssumption
  <2> QED
    BY <1>1, <1>2, <1>3, <2>1 DEF TypeOK
<1>5. PagesLeaveNoHole' /\ BelowBase'
  BY <1>3, ScreenOnlyGrows
<1>6. ASSUME NEW q \in 1..committed, Accounted(q) PROVE Accounted(q)'
  <2>1. \A x : /\ Contains(wire, x) <=> x \in ToSet(wire)
               /\ Contains(wire', x) <=> x \in ToSet(wire')
    BY <1>1, ContainsIsIn
  <2> QED
    BY <1>1, <1>3, <1>6, <2>1 DEF Accounted, Unread, Deaf
<1> QED
  BY <1>4, <1>5, <1>6, StillWatched DEF DInv

LEMMA GapPageStep ==
  ASSUME DInv, GapPage
  PROVE  DInv'
<1> DEFINE limit == pageParams(repair.after, GapLimit).limit
           page == ListMessagesAfterSeq(repair.after, limit)
           last == IF Cardinality(page) = limit THEN repair.after + limit
                                                ELSE committed
<1>0. /\ TypeOK /\ committed \in Nat /\ floor \in Nat
      /\ repair.after \in 0..committed /\ repair.base \in 0..committed
      /\ limit \in Nat \ {0}
  BY LimitIsPositive, DeliveryAssumption DEF DInv, TypeOK
<1>1. ListMessagesHandler(pageParams(repair.after, GapLimit)) = page
  <2>1. repair.after # NoCursor
    BY <1>0 DEF NoCursor
  <2>2. /\ pageParams(repair.after, GapLimit).gap
        /\ pageParams(repair.after, GapLimit).afterSeq = repair.after
    BY <2>1 DEF pageParams
  <2> QED
    BY <2>2 DEF ListMessagesHandler
<1>2. /\ last \in 0..committed /\ repair.after <= last
      /\ page = (repair.after + 1)..last
      /\ Cardinality(page) = limit => NextAfterSeq(page) = last
  BY <1>0, PageIsRange
<1> HIDE DEF limit, page, last
<1>3. /\ Show(page)
      /\ UNCHANGED <<member, committed, pending, mode, stream, told, feed,
                     fan, faults, sock, wire, floor, opening, mine>>
      /\ repair' = IF Cardinality(page) = limit
                   THEN [repair EXCEPT !.after = last]
                   ELSE [repair EXCEPT !.after = committed, !.st = "done"]
  BY <1>1, <1>2 DEF GapPage, serverVars, limit
<1>4. Cardinality(page) # limit => last = committed
  BY DEF last
<1>5. /\ repair' \in [st : {"none", "running", "done"}, base : 0..committed,
                      after : 0..committed, fill : BOOLEAN]
      /\ repair'.base = repair.base /\ repair'.fill = repair.fill
      /\ repair'.after = last
      /\ repair'.st = "done" => last = committed
  <2>1. repair \in [st : {"none", "running", "done"}, base : 0..committed,
                    after : 0..committed, fill : BOOLEAN]
        /\ repair.st = "running"
    BY <1>0 DEF TypeOK, GapPage
  <2>2. CASE Cardinality(page) = limit
    BY <1>0, <1>2, <1>3, <2>1, <2>2
  <2>3. CASE Cardinality(page) # limit
    <3>1. repair' = [repair EXCEPT !.after = last, !.st = "done"]
      BY <1>3, <1>4, <2>3
    <3> QED
      BY <1>2, <1>4, <2>1, <2>3, <3>1
  <2> QED
    BY <2>2, <2>3
<1>6. /\ seen' = seen \cup page /\ seen \cup excused \subseteq seen' \cup excused'
      /\ seen' \subseteq 1..committed /\ excused' \subseteq 1..committed
  <2>1. page \in SUBSET (1..committed)
    BY <1>0, <1>2
  <2> QED
    BY <1>0, <1>3, <2>1, ShowTyped
<1>7. TypeOK'
  BY <1>0, <1>3, <1>5, <1>6 DEF TypeOK
<1>8. PagesLeaveNoHole'
  BY <1>0, <1>2, <1>3, <1>5, <1>6 DEF DInv, PagesLeaveNoHole
<1>9. BelowBase'
  BY <1>3, <1>5, <1>6 DEF DInv, BelowBase
<1>10. Watched'
  <2> SUFFICES ASSUME repair'.st = "done", ~ opening, NEW q \in (floor + 1)..committed
               PROVE  q \in seen' \cup excused'
    BY <1>3 DEF Watched, Accounted
  <2>1. CASE q <= repair.base
    BY <1>0, <1>6, <2>1 DEF DInv, BelowBase
  <2>2. CASE q > repair.base /\ q <= repair.after
    BY <1>0, <1>6, <2>2 DEF DInv, PagesLeaveNoHole
  <2>3. CASE q > repair.after
    BY <1>0, <1>2, <1>5, <1>6, <2>3
  <2> QED
    BY <1>0, <2>1, <2>2, <2>3
<1> QED
  BY <1>7, <1>8, <1>9, <1>10 DEF DInv

LEMMA GapFailsStep ==
  ASSUME DInv, GapFails
  PROVE  DInv'
<1> USE DEF GapFails, serverVars, NoRepair
<1>1. TypeOK'
  BY DeliveryAssumption DEF DInv, TypeOK
<1>2. PagesLeaveNoHole' /\ BelowBase'
  BY DEF DInv, TypeOK, PagesLeaveNoHole, BelowBase
<1>3. Watched'
  BY DEF Watched
<1> QED
  BY <1>1, <1>2, <1>3 DEF DInv

LEMMA FillFromGapStep ==
  ASSUME DInv, FillFromGap
  PROVE  DInv'
<1> USE DEF FillFromGap, serverVars
<1>1. PICK q \in (floor + 1)..committed :
        /\ (floor + 1)..(q - 1) \subseteq seen
        /\ repair' = [st |-> "running", base |-> q - 1, after |-> q - 1,
                      fill |-> TRUE]
  OBVIOUS
<1>2. TypeOK'
  <2>1. q - 1 \in 0..committed
    BY <1>1, DeliveryAssumption DEF DInv, TypeOK
  <2>2. repair' \in [st : {"none", "running", "done"}, base : 0..committed,
                     after : 0..committed, fill : BOOLEAN]
    BY <1>1, <2>1
  <2> QED
    BY <2>2 DEF DInv, TypeOK
<1>3. PagesLeaveNoHole' /\ BelowBase'
  BY <1>1 DEF DInv, TypeOK, PagesLeaveNoHole, BelowBase
<1>4. Watched'
  BY <1>1 DEF Watched
<1> QED
  BY <1>2, <1>3, <1>4 DEF DInv

LEMMA OpenRoomStep ==
  ASSUME DInv, OpenRoom
  PROVE  DInv'
<1> USE DEF OpenRoom, serverVars
<1>1. TypeOK'
  BY DEF DInv, TypeOK
<1> QED
  BY <1>1 DEF DInv, PagesLeaveNoHole, BelowBase, Watched

(* The newest page has no hole and reaches the end of the room.            *)
LEMMA HistoryStep ==
  ASSUME DInv, History
  PROVE  DInv'
<1> DEFINE limit == pageParams(NoCursor, HistoryLimit).limit
           page == ListMessages(limit)
<1>0. TypeOK /\ committed \in Nat /\ limit \in Nat \ {0}
  BY LimitIsPositive, DeliveryAssumption DEF DInv, TypeOK
<1>1. ListMessagesHandler(pageParams(NoCursor, HistoryLimit)) = page
  BY DEF ListMessagesHandler, pageParams
<1>2. /\ Cardinality(page) \in 0..committed
      /\ page = (committed - Cardinality(page) + 1)..committed
  BY <1>0, HistoryIsRange
<1> HIDE DEF limit, page
<1>3. /\ Show(page) /\ floor' = committed - Cardinality(page) /\ ~ opening'
      /\ opening' \in BOOLEAN
      /\ UNCHANGED <<member, committed, pending, mode, stream, told, feed,
                     fan, faults, sock, wire, repair, mine>>
  BY <1>1 DEF History, serverVars
<1>4. /\ seen' = seen \cup page /\ seen' \subseteq 1..committed
      /\ excused' \subseteq 1..committed
  <2>1. page \in SUBSET (1..committed)
    BY <1>0, <1>2
  <2> QED
    BY <1>0, <1>3, <2>1, ShowTyped
<1>5. floor' \in 0..committed /\ (floor' + 1)..committed \subseteq seen'
  BY <1>0, <1>2, <1>3, <1>4
<1>6. TypeOK'
  BY <1>0, <1>3, <1>4, <1>5 DEF TypeOK
<1>7. repair.base \in 0..committed /\ repair.after \in 0..committed
  BY <1>0 DEF TypeOK
<1>8. PagesLeaveNoHole' /\ BelowBase'
  BY <1>0, <1>3, <1>5, <1>7 DEF PagesLeaveNoHole, BelowBase
<1>9. Watched'
  BY <1>3, <1>5 DEF Watched, Accounted
<1> QED
  BY <1>6, <1>8, <1>9 DEF DInv

LEMMA ReplyStep ==
  ASSUME DInv, NEW q \in mine, Reply(q)
  PROVE  DInv'
<1> USE DEF Reply, serverVars
<1>1. {q} \in SUBSET (1..committed) /\ TypeOK
  BY DEF DInv, TypeOK
<1>2. /\ seen' = seen \cup {q} /\ seen \cup excused \subseteq seen' \cup excused'
      /\ seen' \subseteq 1..committed /\ excused' \subseteq 1..committed
  BY <1>1, ShowTyped
<1>3. TypeOK'
  BY <1>1, <1>2 DEF TypeOK
<1>4. PagesLeaveNoHole' /\ BelowBase'
  BY <1>2, ScreenOnlyGrows
<1>5. \A p \in 1..committed : Accounted(p) => Accounted(p)'
  BY <1>2 DEF Accounted, Unread, Deaf
<1> QED
  BY <1>3, <1>4, <1>5, StillWatched DEF DInv

-----------------------------------------------------------------------------
(* Theorems.                                                               *)

LEMMA DeliveryStarts == Init => DInv
<1> SUFFICES ASSUME Init PROVE DInv
  OBVIOUS
<1>1. TypeOK
  <2>1. IsInjective(<<>>)
    BY DEF IsInjective
  <2>2. fan \in [Nodes -> 0..(Len(stream) + 1)]
    BY EmptyHasNone DEF Init, NoConsumer
  <2>3. Len(wire) <= Buffer /\ 0 \in 0..MaxFaults /\ 0 \in 0..MaxSeq
    BY EmptyHasNone, DeliveryAssumption DEF Init
  <2>4. repair \in [st : {"none", "running", "done"}, base : 0..committed,
                    after : 0..committed, fill : BOOLEAN]
    BY DEF Init, NoRepair
  <2>5. Feeds /\ \A n \in Nodes : mode[n] # "nats"
    BY <2>2 DEF Init, Feeds, NoConsumer
  <2>6. /\ stream \in Seq(Seqs) /\ wire \in Seq(Seqs) /\ IsInjective(stream)
        /\ ToSet(stream) \subseteq 1..committed /\ ToSet(wire) \subseteq 1..committed
        /\ told \subseteq ToSet(stream)
    BY <2>1, EmptyHasNone DEF Init
  <2>7. /\ committed \in 0..MaxSeq /\ faults \in 0..MaxFaults
        /\ floor \in 0..committed
    <3>1. committed = 0 /\ faults = 0 /\ floor = 0
      BY DEF Init
    <3> QED
      BY <2>3, <3>1
  <2>8. opening \in BOOLEAN /\ member \in BOOLEAN
    BY DEF Init
  <2>9. /\ pending \subseteq 1..committed
        /\ seen \cup mine \cup excused \subseteq 1..committed
        /\ sock \in {Off} \cup [st : {"open", "in"}, node : Nodes]
        /\ sock # Off => mode[sock.node] # "down"
    BY DEF Init
  <2> QED
    BY <2>2, <2>3, <2>4, <2>5, <2>6, <2>7, <2>8, <2>9 DEF TypeOK, Feeds
<1>2. PagesLeaveNoHole /\ BelowBase /\ Watched
  BY DEF Init, PagesLeaveNoHole, BelowBase, Watched, NoRepair
<1> QED
  BY <1>1, <1>2 DEF DInv

LEMMA DeliverySteps ==
  ASSUME DInv, [Next]_vars
  PROVE  DInv'
<1>1. CASE UNCHANGED vars
  <2>1. TypeOK'
    BY <1>1 DEF DInv, TypeOK, vars, serverVars, clientVars
  <2>2. PagesLeaveNoHole' /\ BelowBase' /\ Watched'
    BY <1>1 DEF DInv, vars, serverVars, clientVars, PagesLeaveNoHole,
                BelowBase, Watched, Accounted, Unread, Deaf
  <2> QED
    BY <2>1, <2>2 DEF DInv
<1>2. CASE ClientStep
  BY <1>2, ConnectStep, RegisterStep, SocketDiesStep, FrameStep, GapPageStep,
     GapFailsStep, FillFromGapStep, OpenRoomStep, HistoryStep, ReplyStep
     DEF ClientStep
<1> QED
  BY <1>1, <1>2, StartStep, DieStep, SubscribeStep, SubscriptionEndsStep,
     ConsumerExpiresStep, EntryLostStep, FanOutStep, PublishNatsStep,
     PublishLocalStep, CommitStep, AddMemberStep DEF Next

LEMMA DeliveryInvariant == Spec => []DInv
<1>1. Init => DInv
  BY DeliveryStarts
<1>2. DInv /\ [Next]_vars => DInv'
  BY DeliverySteps
<1> QED
  BY <1>1, <1>2, PTL DEF Spec

(* Every variable keeps its type, a row is in the stream once, and the     *)
(* client's socket is on a node that runs (broker.go: Publish; server.go:  *)
(* New).                                                                   *)
THEOREM DeliveryTypes == Spec => []TypeOK
<1>1. DInv => TypeOK
  BY DEF DInv
<1> QED
  BY <1>1, DeliveryInvariant, PTL

(* A repair over any number of pages, with messages arriving between them, *)
(* leaves no hole behind its cursor (conversations.go: pageParams,         *)
(* listGap; gapcheck: fetchGap).                                           *)
THEOREM PagesAreWhole == Spec => []PagesLeaveNoHole
<1>1. DInv => PagesLeaveNoHole
  BY DEF DInv
<1> QED
  BY <1>1, DeliveryInvariant, PTL

(* A gap read begun below the lowest hole brings everything that was       *)
(* committed when it ended, whatever was dropped before (gapcheck:         *)
(* fillFromGap).                                                           *)
THEOREM FillIsComplete == Spec => []FillLosesNothing
<1>1. DInv => FillLosesNothing
  <2> SUFFICES ASSUME DInv, repair.fill, ~ opening,
                      NEW q \in (floor + 1)..repair.after
               PROVE  q \in seen
    BY DEF FillLosesNothing
  <2>1. /\ repair.base \in Nat /\ repair.after \in Nat /\ floor \in Nat
    BY DeliveryAssumption DEF DInv, TypeOK
  <2>2. CASE q <= repair.base
    BY <2>1, <2>2 DEF DInv, BelowBase
  <2>3. CASE q > repair.base
    BY <2>1, <2>3 DEF DInv, PagesLeaveNoHole
  <2> QED
    BY <2>1, <2>2, <2>3
<1> QED
  BY <1>1, DeliveryInvariant, PTL

(* What a repaired client does not hold is on its way or has one of the    *)
(* named causes, for nodes in any mixture of modes, faults and cuts      *)
(* (consume.go: SubscribeFanout; local.go: Publish; ws.go: WSHandler).     *)
THEOREM HolesAreExplained == Spec => []HolesHaveACause
<1>1. DInv => HolesHaveACause
  <2> SUFFICES ASSUME DInv, sock.st = "in", repair.st = "done", ~ opening,
                      NEW q \in (floor + 1)..committed
               PROVE  q \in seen \cup excused \/ Coming(q)
    BY DEF HolesHaveACause
  <2>1. sock # Off
    BY DEF Off
  <2>2. Accounted(q)
    BY <2>1 DEF DInv, Watched
  <2> QED
    BY <2>2 DEF Accounted, Coming
<1> QED
  BY <1>1, DeliveryInvariant, PTL

=============================================================================
