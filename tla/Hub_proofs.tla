----------------------------- MODULE Hub_proofs -----------------------------
(***************************************************************************)
(* The hub, for any number of sockets, users, frames and buffer sizes.     *)
(*                                                                         *)
(* The three properties are proved together: no channel is closed twice    *)
(* because the map holds exactly the sockets whose channel is open, and a  *)
(* socket that is registered starts with nothing sent and nothing due.     *)
(***************************************************************************)
EXTENDS Hub, TLAPS, FiniteSetTheorems, SequenceTheorems

(* A socket that Run has not added yet is untouched.                       *)
Fresh ==
    \A s \in Sockets : place[s] # "in" =>
        /\ ~ shut[s]
        /\ send[s] = <<>> /\ out[s] = <<>>
        /\ due[s] = <<>> /\ got[s] = <<>>
        /\ writer[s] = "off"

(* writePump holds a payload only while it writes it.                      *)
HandsFree ==
    \A s \in Sockets :
        (conn[s] = "open" /\ writer[s] # "writing") => out[s] = <<>>

HubInv ==
    /\ HubTypeOK /\ NoPanic /\ MapIsExact /\ Fresh /\ HandsFree
    /\ KeptMeansComplete

-----------------------------------------------------------------------------
(* What Run does to the map.                                               *)

Members(m) == UNION {m[u] : u \in DOMAIN m}

LEMMA SomeMember ==
  ASSUME NEW m, NEW s
  PROVE  s \in Members(m) <=> \E u \in DOMAIN m : s \in m[u]
  BY DEF Members

LEMMA WithAdds ==
  ASSUME NEW m, NEW s \in Sockets
  PROVE  Members(With(m, s)) = Members(m) \cup {s}
<1>1. ASSUME NEW t PROVE t \in Members(With(m, s)) <=> t \in Members(m) \cup {s}
  BY SomeMember DEF With
<1> QED
  BY <1>1

LEMMA WithoutRemoves ==
  ASSUME NEW m, NEW S
  PROVE  Members(Without(m, S)) = Members(m) \ S
<1>1. ASSUME NEW t PROVE t \in Members(Without(m, S)) <=> t \in Members(m) \ S
  BY SomeMember DEF Without
<1> QED
  BY <1>1

LEMMA RegisteredFinite ==
  ASSUME HubTypeOK
  PROVE  /\ Registered \in SUBSET Sockets
         /\ IsFiniteSet(Registered) /\ Cardinality(Registered) \in Nat
<1>1. Registered \in SUBSET Sockets
  BY DEF Registered, HubTypeOK
<1> QED
  BY <1>1, HubAssumption, FS_Subset, FS_CardinalityType

LEMMA RegisterExact ==
  ASSUME HubTypeOK, MapIsExact, Fresh, NEW s \in Sockets, Register(s)
  PROVE  /\ MapIsExact' /\ Registered' = Registered \cup {s}
         /\ DOMAIN clients' \subseteq Users
         /\ clients' \in [DOMAIN clients' -> SUBSET Sockets]
         /\ open' \in Nat
<1>1. Registered' = Registered \cup {s}
  BY WithAdds DEF Register, Registered, Members
<1>2. s \notin Registered
  BY DEF MapIsExact, Register
<1>a. open' = open + 1 /\ open = Cardinality(Registered)
  BY DEF MapIsExact, Register
<1>b. Cardinality(Registered \cup {s}) = Cardinality(Registered) + 1
  BY <1>2, RegisteredFinite, FS_AddElement
<1>3. open' = Cardinality(Registered') /\ open' \in Nat
  BY <1>1, <1>a, <1>b, RegisteredFinite
<1>c. /\ Owner[s] \in Users /\ clients' = With(clients, s)
      /\ DOMAIN clients \subseteq Users
      /\ \A u \in DOMAIN clients : clients[u] \subseteq Sockets
  BY HubAssumption DEF HubTypeOK, Register
<1>d. \A u \in DOMAIN With(clients, s) : With(clients, s)[u] \subseteq Sockets
  BY <1>c DEF With
<1>4. /\ DOMAIN clients' \subseteq Users
      /\ clients' \in [DOMAIN clients' -> SUBSET Sockets]
  BY <1>c, <1>d DEF With
<1>5. \A u \in DOMAIN clients' :
          clients'[u] # {} /\ \A t \in clients'[u] : Owner[t] = u
  BY DEF MapIsExact, Register, With
<1>6. \A t \in Sockets : t \in Registered' <=> (place'[t] = "in" /\ ~ shut'[t])
  BY <1>1 DEF MapIsExact, Register, HubTypeOK, Fresh
<1> QED
  BY <1>1, <1>3, <1>4, <1>5, <1>6 DEF MapIsExact

(* The parts of the invariant that Remove may touch.                       *)
LEMMA RemoveExact ==
  ASSUME HubTypeOK, NoPanic, MapIsExact, UNCHANGED place,
         NEW S \in SUBSET Sockets, NEW sent \in SUBSET Registered,
         Remove(S, sent)
  PROVE  /\ MapIsExact' /\ NoPanic' /\ Registered' = Registered \ S
         /\ DOMAIN clients' \subseteq Users
         /\ clients' \in [DOMAIN clients' -> SUBSET Sockets]
         /\ open' \in Nat /\ shut' \in [Sockets -> BOOLEAN]
         /\ panicked' \in BOOLEAN
         /\ \A s \in Sockets : s \notin Registered => shut'[s] = shut[s]
<1> DEFINE gone == S \cap Registered
<1>1. /\ clients' = Without(clients, gone)
      /\ CloseSend(gone, sent)
  BY DEF Remove
<1>a. Registered = Members(clients) /\ Registered' = Members(clients')
  BY DEF Registered, Members
<1>2. Registered' = Registered \ gone
  BY <1>1, <1>a, WithoutRemoves
<1>3. Registered' = Registered \ S
  BY <1>2
<1>4. Registered \cap gone = gone
  OBVIOUS
<1>5. Cardinality(Registered \ gone) = Cardinality(Registered) - Cardinality(gone)
  BY <1>4, RegisteredFinite, FS_Difference
<1>6. IsFiniteSet(Registered \ gone)
  BY RegisteredFinite, FS_Difference
<1>7. Cardinality(Registered \ gone) \in Nat
  BY <1>6, FS_CardinalityType
<1>8. open' = Cardinality(Registered') /\ open' \in Nat
  BY <1>1, <1>2, <1>5, <1>7 DEF CloseSend, MapIsExact
<1>9. /\ DOMAIN clients' \subseteq Users
      /\ clients' \in [DOMAIN clients' -> SUBSET Sockets]
  BY <1>1 DEF HubTypeOK, Without
<1>10. \A u \in DOMAIN clients' :
          clients'[u] # {} /\ \A t \in clients'[u] : Owner[t] = u
  BY <1>1 DEF MapIsExact, Without
<1>11. shut' \in [Sockets -> BOOLEAN]
       /\ \A s \in Sockets : shut'[s] = (shut[s] \/ s \in gone)
  BY <1>1, Zenon DEF CloseSend, HubTypeOK
<1>12. \A t \in Sockets : t \in Registered' <=> (place'[t] = "in" /\ ~ shut'[t])
  BY <1>2, <1>11 DEF MapIsExact
<1>13. \A t \in Registered : ~ shut[t]
  BY RegisteredFinite DEF MapIsExact
<1>14. ~ \E t \in gone \cup sent : shut[t]
  BY <1>13
<1>15. NoPanic'
  BY <1>1, <1>14 DEF CloseSend, NoPanic
<1>18. panicked' \in BOOLEAN
  BY <1>1, Zenon DEF CloseSend
<1>16. \A s \in Sockets : s \notin Registered => shut'[s] = shut[s]
  BY <1>11, Zenon DEF HubTypeOK
<1>17. MapIsExact'
  BY <1>8, <1>10, <1>12 DEF MapIsExact
<1> QED
  BY <1>3, <1>8, <1>9, <1>11, <1>15, <1>16, <1>17, <1>18

LEMMA CloseAllExact ==
  ASSUME HubTypeOK, NoPanic, MapIsExact, CloseAll
  PROVE  /\ MapIsExact' /\ NoPanic' /\ Registered' = {}
         /\ DOMAIN clients' \subseteq Users
         /\ clients' \in [DOMAIN clients' -> SUBSET Sockets]
         /\ open' \in Nat /\ shut' \in [Sockets -> BOOLEAN]
         /\ panicked' \in BOOLEAN
         /\ \A s \in Sockets : s \notin Registered => shut'[s] = shut[s]
<1>1. clients' = [u \in {} |-> {}] /\ CloseSend(Registered, {})
  BY DEF CloseAll
<1>2. Registered' = {} /\ DOMAIN clients' = {}
  BY <1>1 DEF Registered
<1>3. open' = 0 /\ Cardinality(Registered') = 0
  BY <1>1, <1>2, RegisteredFinite, FS_EmptySet DEF CloseSend, MapIsExact
<1>4. shut' \in [Sockets -> BOOLEAN]
      /\ \A s \in Sockets : shut'[s] = (shut[s] \/ s \in Registered)
  BY <1>1, Zenon DEF CloseSend, HubTypeOK
<1>5. \A t \in Sockets : t \in Registered' <=> (place'[t] = "in" /\ ~ shut'[t])
  BY <1>2, <1>4 DEF MapIsExact, CloseAll
<1>6. ~ \E t \in Registered \cup {} : shut[t]
  BY RegisteredFinite DEF MapIsExact
<1>7. NoPanic'
  BY <1>1, <1>6 DEF CloseSend, NoPanic
<1>8. clients' \in [DOMAIN clients' -> SUBSET Sockets]
  BY <1>1, <1>2
<1>9. \A s \in Sockets : s \notin Registered => shut'[s] = shut[s]
  BY <1>4, Zenon DEF HubTypeOK
<1>10. MapIsExact'
  BY <1>2, <1>3, <1>5 DEF MapIsExact
<1>11. panicked' \in BOOLEAN
  BY <1>1, Zenon DEF CloseSend
<1> QED
  BY <1>2, <1>3, <1>4, <1>7, <1>8, <1>9, <1>10, <1>11

-----------------------------------------------------------------------------
(* The bytes of a socket.                                                  *)

LEMMA MoreDue ==
  ASSUME NEW S, NEW a \in Seq(S), NEW b \in Seq(S), NEW c \in Seq(S),
         NEW x \in S
  PROVE  a \o b \o Append(c, x) = Append(a \o b \o c, x)
<1>1. a \o b \in Seq(S) /\ (a \o b) \o c \in Seq(S) /\ <<x>> \in Seq(S)
  OBVIOUS
<1>2. Append(c, x) = c \o <<x>>
  BY AppendIsConcat
<1>3. Append((a \o b) \o c, x) = ((a \o b) \o c) \o <<x>>
  BY <1>1, AppendIsConcat
<1>4. ((a \o b) \o c) \o <<x>> = (a \o b) \o (c \o <<x>>)
  BY <1>1, ConcatAssociative
<1> QED
  BY <1>2, <1>3, <1>4

LEMMA TakeOne ==
  ASSUME NEW S, NEW a \in Seq(S), NEW c \in Seq(S), c # <<>>
  PROVE  /\ Head(c) \in S /\ Tail(c) \in Seq(S) /\ <<Head(c)>> \in Seq(S)
         /\ a \o <<>> \o c = a \o <<Head(c)>> \o Tail(c)
<1>1. Head(c) \in S /\ Tail(c) \in Seq(S)
  OBVIOUS
<1>2. <<Head(c)>> \in Seq(S)
  BY <1>1
<1>3. c = <<Head(c)>> \o Tail(c)
  BY <1>1
<1>4. (a \o <<Head(c)>>) \o Tail(c) = a \o (<<Head(c)>> \o Tail(c))
  BY <1>1, <1>2, ConcatAssociative
<1>5. a \o <<>> = a
  BY ConcatEmptySeq
<1> QED
  BY <1>1, <1>2, <1>3, <1>4, <1>5

LEMMA WriteOne ==
  ASSUME NEW S, NEW a \in Seq(S), NEW b \in Seq(S)
  PROVE  a \o b \in Seq(S) /\ (a \o b) \o <<>> = a \o b
<1>1. a \o b \in Seq(S)
  OBVIOUS
<1> QED
  BY <1>1, ConcatEmptySeq

-----------------------------------------------------------------------------
(* The steps that leave the map, the channels and the payloads alone.      *)

LEMMA QuietStep ==
  ASSUME HubInv, HubTypeOK',
         UNCHANGED <<clients, open, shut, panicked, send, out, due, got, place>>,
         \A s \in Sockets : conn'[s] = "open" => conn[s] = "open",
         \A s \in Sockets :
             \/ writer'[s] = writer[s]
             \/ place[s] = "in" /\ conn'[s] # "open"
  PROVE  HubInv'
<1>1. Registered' = Registered
  BY DEF Registered
<1>2. NoPanic' /\ MapIsExact'
  BY <1>1 DEF HubInv, NoPanic, MapIsExact
<1>3. Fresh'
  BY DEF HubInv, Fresh
<1>4. HandsFree'
  BY DEF HubInv, HandsFree
<1>5. KeptMeansComplete'
  BY <1>1, RegisteredFinite DEF HubInv, KeptMeansComplete
<1> QED
  BY <1>2, <1>3, <1>4, <1>5 DEF HubInv

LEMMA PlaceStep ==
  ASSUME HubInv, NEW s \in Sockets, Upgrade(s) \/ Refuse(s)
  PROVE  HubInv'
<1>1. /\ UNCHANGED <<clients, open, shut, panicked, send, out, due, got, writer>>
      /\ place[s] # "in" /\ place'[s] # "in"
      /\ \A t \in Sockets : t # s => place'[t] = place[t]
      /\ \A t \in Sockets : conn'[t] = "open" => conn[t] = "open"
  BY DEF HubInv, HubTypeOK, Upgrade, Refuse
<1>2. HubTypeOK'
  BY DEF HubInv, HubTypeOK, Upgrade, Refuse
<1>3. Registered' = Registered
  BY <1>1 DEF Registered
<1>4. NoPanic' /\ MapIsExact'
  BY <1>1, <1>3 DEF HubInv, NoPanic, MapIsExact
<1>5. Fresh' /\ HandsFree'
  BY <1>1 DEF HubInv, Fresh, HandsFree
<1>6. KeptMeansComplete'
  BY <1>1, <1>3, RegisteredFinite DEF HubInv, KeptMeansComplete
<1> QED
  BY <1>2, <1>4, <1>5, <1>6 DEF HubInv

LEMMA QuietActions ==
  ASSUME HubInv,
         \/ \E a \in Askers : UserIDs(a) \/ Snapshot(a)
         \/ \E users \in SUBSET Users : Broadcast(users)
         \/ CloseDone
         \/ \E s \in Sockets : ReadFails(s) \/ PeerGone(s) \/ TokenRunsOut(s)
  PROVE  HubInv'
<1> USE DEF HubInv
<1>1. CASE \E a \in Askers : UserIDs(a) \/ Snapshot(a)
  <2>1. /\ asking' \subseteq Askers
        /\ UNCHANGED <<clients, open, queue, done, run, place, conn, send, shut,
                       reader, writer, out, dead, frames, due, got, panicked>>
    BY <1>1 DEF HubTypeOK, UserIDs, Snapshot
  <2>2. HubTypeOK'
    BY <2>1 DEF HubTypeOK
  <2> QED
    BY <2>1, <2>2, QuietStep
<1>2. CASE \E users \in SUBSET Users : Broadcast(users)
  <2> PICK users \in SUBSET Users : Broadcast(users)
    BY <1>2
  <2>1. frames' = frames + 1 /\ frames + 1 \in Frame /\ frames' \in 0..MaxFrames
    BY HubAssumption DEF Broadcast, Called, HubTypeOK, Frame
  <2>2. [users |-> users, payload |-> frames + 1] \in Envelope
    BY <2>1 DEF Envelope
  <2>a. queue' \in {queue, Append(queue, [users |-> users,
                                          payload |-> frames + 1])}
    BY DEF Broadcast
  <2>b. ASSUME NEW S, NEW q \in Seq(S), NEW x \in S
        PROVE  Append(q, x) \in Seq(S)
    OBVIOUS
  <2>c. queue \in Seq(Envelope)
    BY DEF HubTypeOK
  <2>3. queue' \in Seq(Envelope)
    BY <2>2, <2>a, <2>b, <2>c
  <2>4. UNCHANGED <<clients, open, done, run, asking, place, conn, send, shut,
                    reader, writer, out, dead, due, got, panicked>>
    BY DEF Broadcast, Called
  <2>5. HubTypeOK'
    BY <2>1, <2>3, <2>4 DEF HubTypeOK
  <2> QED
    BY <2>4, <2>5, QuietStep
<1>3. CASE CloseDone
  <2>1. HubTypeOK'
    BY <1>3 DEF HubTypeOK, CloseDone
  <2> QED
    BY <1>3, <2>1, QuietStep DEF CloseDone
<1>4. CASE \E s \in Sockets : ReadFails(s) \/ PeerGone(s) \/ TokenRunsOut(s)
  <2> PICK s \in Sockets : ReadFails(s) \/ PeerGone(s) \/ TokenRunsOut(s)
    BY <1>4
  <2>1. HubTypeOK'
    <3>1. CASE ReadFails(s)
      BY <3>1 DEF HubTypeOK, ReadFails
    <3>2. CASE PeerGone(s)
      BY <3>2 DEF HubTypeOK, PeerGone
    <3>3. CASE TokenRunsOut(s)
      BY <3>3 DEF HubTypeOK, TokenRunsOut
    <3> QED
      BY <3>1, <3>2, <3>3
  <2>2. \A t \in Sockets : conn'[t] = "open" => conn[t] = "open"
    BY DEF HubTypeOK, ReadFails, PeerGone, TokenRunsOut
  <2> QED
    BY <2>1, <2>2, QuietStep DEF ReadFails, PeerGone, TokenRunsOut
<1> QED
  BY <1>1, <1>2, <1>3, <1>4

LEMMA WriterEndsStep ==
  ASSUME HubInv, NEW s \in Sockets, WriterEnds(s)
  PROVE  HubInv'
<1>1. HubTypeOK'
  BY DEF HubInv, HubTypeOK, WriterEnds
<1>2. place[s] = "in"
  BY DEF HubInv, Fresh, WriterEnds
<1>3. /\ \A t \in Sockets : conn'[t] = "open" => conn[t] = "open"
      /\ conn'[s] # "open"
      /\ \A t \in Sockets : t # s => writer'[t] = writer[t]
  BY DEF HubInv, HubTypeOK, WriterEnds
<1> QED
  BY <1>1, <1>2, <1>3, QuietStep DEF WriterEnds

-----------------------------------------------------------------------------
(* The steps that move a payload.                                          *)

LEMMA RegisterStep ==
  ASSUME HubInv, NEW s \in Sockets, Register(s)
  PROVE  HubInv'
<1>1. /\ MapIsExact' /\ Registered' = Registered \cup {s}
      /\ DOMAIN clients' \subseteq Users
      /\ clients' \in [DOMAIN clients' -> SUBSET Sockets]
      /\ open' \in Nat
  BY RegisterExact DEF HubInv
<1>2. /\ place' = [place EXCEPT ![s] = "in"]
      /\ reader' = [reader EXCEPT ![s] = "reading"]
      /\ writer' = [writer EXCEPT ![s] = "select"]
      /\ UNCHANGED <<queue, done, run, asking, conn, send, shut, out, dead,
                     frames, due, got, panicked>>
      /\ place[s] # "in"
  BY DEF Register
<1>3. HubTypeOK'
  BY <1>1, <1>2 DEF HubInv, HubTypeOK
<1>4. NoPanic'
  BY <1>2 DEF HubInv, NoPanic
<1>5. Fresh'
  BY <1>2 DEF HubInv, Fresh, HubTypeOK
<1>6. HandsFree'
  BY <1>2 DEF HubInv, HandsFree, Fresh, HubTypeOK
<1>a. <<>> \o <<>> = <<>>
  BY ConcatEmptySeq, EmptySeq
<1>b. got[s] = <<>> /\ out[s] = <<>> /\ send[s] = <<>> /\ due[s] = <<>>
  BY <1>2 DEF HubInv, Fresh
<1>7. got[s] \o out[s] \o send[s] = due[s]
  BY <1>a, <1>b
<1>8. KeptMeansComplete'
  BY <1>1, <1>2, <1>7 DEF HubInv, KeptMeansComplete
<1> QED
  BY <1>1, <1>3, <1>4, <1>5, <1>6, <1>8 DEF HubInv

LEMMA UnregisterStep ==
  ASSUME HubInv, NEW s \in Sockets, Unregister(s)
  PROVE  HubInv'
<1>1. /\ reader' = [reader EXCEPT ![s] = "over"]
      /\ conn' = [conn EXCEPT ![s] = "closed"]
      /\ UNCHANGED <<queue, done, run, asking, place, send, writer, out, dead,
                     frames, due, got>>
  BY DEF Unregister, ReaderEnds
<1>2. \A t \in Sockets : conn'[t] = "open" => conn[t] = "open"
  BY <1>1 DEF HubInv, HubTypeOK
<1>3. CASE Remove({s}, {})
  <2>1. /\ MapIsExact' /\ NoPanic' /\ Registered' = Registered \ {s}
        /\ DOMAIN clients' \subseteq Users
        /\ clients' \in [DOMAIN clients' -> SUBSET Sockets]
        /\ open' \in Nat /\ shut' \in [Sockets -> BOOLEAN]
        /\ panicked' \in BOOLEAN
        /\ \A t \in Sockets : t \notin Registered => shut'[t] = shut[t]
    BY <1>1, <1>3, RemoveExact DEF HubInv
  <2>2. HubTypeOK'
    BY <1>1, <2>1 DEF HubInv, HubTypeOK
  <2>3. Fresh' /\ HandsFree'
    BY <1>1, <1>2, <2>1 DEF HubInv, Fresh, HandsFree, MapIsExact
  <2>4. KeptMeansComplete'
    BY <1>1, <1>2, <2>1, RegisteredFinite DEF HubInv, KeptMeansComplete
  <2> QED
    BY <2>1, <2>2, <2>3, <2>4 DEF HubInv
<1>4. CASE UNCHANGED <<clients, open, shut, panicked>>
  <2>1. HubTypeOK'
    BY <1>1, <1>4 DEF HubInv, HubTypeOK
  <2> QED
    BY <1>1, <1>2, <1>4, <2>1, QuietStep
<1> QED
  BY <1>3, <1>4 DEF Unregister

LEMMA CloseAllStep ==
  ASSUME HubInv, CloseAll
  PROVE  HubInv'
<1>1. /\ MapIsExact' /\ NoPanic' /\ Registered' = {}
      /\ DOMAIN clients' \subseteq Users
      /\ clients' \in [DOMAIN clients' -> SUBSET Sockets]
      /\ open' \in Nat /\ shut' \in [Sockets -> BOOLEAN]
      /\ panicked' \in BOOLEAN
      /\ \A s \in Sockets : s \notin Registered => shut'[s] = shut[s]
  BY CloseAllExact DEF HubInv
<1>2. /\ run' = "stopped"
      /\ UNCHANGED <<queue, done, asking, place, conn, send, reader, writer,
                     out, dead, frames, due, got>>
  BY DEF CloseAll
<1>3. HubTypeOK'
  BY <1>1, <1>2 DEF HubInv, HubTypeOK
<1>4. Fresh' /\ HandsFree'
  BY <1>1, <1>2 DEF HubInv, Fresh, HandsFree, MapIsExact
<1>5. KeptMeansComplete'
  BY <1>1 DEF KeptMeansComplete
<1> QED
  BY <1>1, <1>3, <1>4, <1>5 DEF HubInv

LEMMA TakeStep ==
  ASSUME HubInv, NEW s \in Sockets, TakePayload(s)
  PROVE  HubInv'
<1>1. /\ writer[s] = "select" /\ send[s] # <<>>
      /\ out' = [out EXCEPT ![s] = <<Head(send[s])>>]
      /\ send' = [send EXCEPT ![s] = Tail(send[s])]
      /\ writer' = [writer EXCEPT ![s] = "writing"]
      /\ UNCHANGED <<clients, open, queue, done, run, asking, place, conn, shut,
                     reader, dead, frames, due, got, panicked>>
  BY DEF TakePayload
<1>2. got[s] \in Seq(Frame) /\ send[s] \in Seq(Frame)
  BY DEF HubInv, HubTypeOK
<1>3. /\ Tail(send[s]) \in Seq(Frame) /\ <<Head(send[s])>> \in Seq(Frame)
      /\ got[s] \o <<>> \o send[s] = got[s] \o <<Head(send[s])>> \o Tail(send[s])
  BY <1>1, <1>2, TakeOne
<1>4. HubTypeOK'
  BY <1>1, <1>3 DEF HubInv, HubTypeOK
<1>5. Registered' = Registered
  BY <1>1 DEF Registered
<1>6. NoPanic' /\ MapIsExact'
  BY <1>1, <1>5 DEF HubInv, NoPanic, MapIsExact
<1>7. place[s] = "in"
  BY <1>1 DEF HubInv, Fresh
<1>8. Fresh' /\ HandsFree'
  BY <1>1, <1>7 DEF HubInv, HubTypeOK, Fresh, HandsFree
<1>9. ASSUME NEW t \in Registered', conn'[t] = "open"
      PROVE  (got[t] \o out[t] \o send[t])' = due'[t]
  <2>1. t \in Sockets /\ got[t] \o out[t] \o send[t] = due[t]
    BY <1>1, <1>5, <1>9, RegisteredFinite DEF HubInv, KeptMeansComplete
  <2>2. CASE t = s
    <3>1. out[s] = <<>>
      BY <1>1, <1>9, <2>2 DEF HubInv, HandsFree
    <3>2. /\ got'[t] = got[s] /\ out'[t] = <<Head(send[s])>>
          /\ send'[t] = Tail(send[s]) /\ due'[t] = due[s]
      BY <1>1, <2>2 DEF HubInv, HubTypeOK
    <3> QED
      BY <1>3, <2>1, <2>2, <3>1, <3>2
  <2>3. CASE t # s
    <3>1. /\ got'[t] = got[t] /\ out'[t] = out[t]
          /\ send'[t] = send[t] /\ due'[t] = due[t]
      BY <1>1, <2>1, <2>3 DEF HubInv, HubTypeOK
    <3> QED
      BY <2>1, <3>1
  <2> QED
    BY <2>2, <2>3
<1>10. KeptMeansComplete'
  BY <1>9 DEF KeptMeansComplete
<1> QED
  BY <1>4, <1>6, <1>8, <1>10 DEF HubInv

LEMMA WriteStep ==
  ASSUME HubInv, NEW s \in Sockets, WriteDone(s)
  PROVE  HubInv'
<1>1. /\ writer[s] = "writing" /\ conn[s] # "closed"
      /\ writer' = [writer EXCEPT ![s] = "select"]
      /\ out' = [out EXCEPT ![s] = <<>>]
      /\ got' = IF conn[s] = "open" THEN [got EXCEPT ![s] = got[s] \o out[s]]
                                    ELSE got
      /\ UNCHANGED <<clients, open, queue, done, run, asking, place, conn, send,
                     shut, reader, dead, frames, due, panicked>>
  BY DEF WriteDone
<1>2. got[s] \in Seq(Frame) /\ out[s] \in Seq(Frame)
  BY DEF HubInv, HubTypeOK
<1>3. /\ got[s] \o out[s] \in Seq(Frame)
      /\ (got[s] \o out[s]) \o <<>> = got[s] \o out[s]
  BY <1>2, WriteOne
<1>4. HubTypeOK'
  BY <1>1, <1>3 DEF HubInv, HubTypeOK
<1>5. Registered' = Registered
  BY <1>1 DEF Registered
<1>6. NoPanic' /\ MapIsExact'
  BY <1>1, <1>5 DEF HubInv, NoPanic, MapIsExact
<1>7. place[s] = "in"
  BY <1>1 DEF HubInv, Fresh
<1>8. Fresh' /\ HandsFree'
  BY <1>1, <1>7 DEF HubInv, HubTypeOK, Fresh, HandsFree
<1>9. ASSUME NEW t \in Registered', conn'[t] = "open"
      PROVE  (got[t] \o out[t] \o send[t])' = due'[t]
  <2>1. t \in Sockets /\ got[t] \o out[t] \o send[t] = due[t]
    BY <1>1, <1>5, <1>9, RegisteredFinite DEF HubInv, KeptMeansComplete
  <2>2. CASE t = s
    <3>1. /\ got'[t] = got[s] \o out[s] /\ out'[t] = <<>>
          /\ send'[t] = send[s] /\ due'[t] = due[s]
      BY <1>1, <1>9, <2>2 DEF HubInv, HubTypeOK
    <3> QED
      BY <1>3, <2>1, <2>2, <3>1
  <2>3. CASE t # s
    <3>1. /\ got'[t] = got[t] /\ out'[t] = out[t]
          /\ send'[t] = send[t] /\ due'[t] = due[t]
      BY <1>1, <2>1, <2>3 DEF HubInv, HubTypeOK
    <3> QED
      BY <2>1, <3>1
  <2> QED
    BY <2>2, <2>3
<1>10. KeptMeansComplete'
  BY <1>9 DEF KeptMeansComplete
<1> QED
  BY <1>4, <1>6, <1>8, <1>10 DEF HubInv

LEMMA DeliverStep ==
  ASSUME HubInv, Deliver
  PROVE  HubInv'
<1> DEFINE e == Head(queue)
           x == e.payload
           fast == Targets(e) \ Slow(e)
<1>1. /\ queue # <<>> /\ queue' = Tail(queue)
      /\ Fill(e, fast) /\ Remove(Slow(e), fast)
      /\ due' = [s \in Sockets |-> IF s \in Targets(e)
                                   THEN Append(due[s], x) ELSE due[s]]
      /\ UNCHANGED <<done, run, asking, place, conn, reader, writer, out, dead,
                     frames, got>>
  BY DEF Deliver
<1>2. e \in Envelope /\ queue' \in Seq(Envelope)
  <2>1. queue \in Seq(Envelope)
    BY DEF HubInv, HubTypeOK
  <2> QED
    BY <1>1, <2>1, HeadTailProperties
<1>3. x \in Frame
  BY <1>2 DEF Envelope
<1>4. Targets(e) \subseteq Registered
  BY DEF Targets, Registered
<1>5. /\ Slow(e) \in SUBSET Sockets /\ fast \in SUBSET Registered
      /\ Targets(e) \ Slow(e) = fast /\ Targets(e) \subseteq Sockets
  BY <1>4, RegisteredFinite DEF Slow, HubInv
<1> HIDE DEF e, fast
<1>6. /\ MapIsExact' /\ NoPanic' /\ Registered' = Registered \ Slow(e)
      /\ DOMAIN clients' \subseteq Users
      /\ clients' \in [DOMAIN clients' -> SUBSET Sockets]
      /\ open' \in Nat /\ shut' \in [Sockets -> BOOLEAN]
      /\ panicked' \in BOOLEAN
      /\ \A s \in Sockets : s \notin Registered => shut'[s] = shut[s]
  BY <1>1, <1>5, RemoveExact DEF HubInv
<1>7. send' = [s \in Sockets |-> IF s \in fast THEN Append(send[s], x)
                                               ELSE send[s]]
  BY <1>1 DEF Fill
<1>8. ASSUME NEW S, NEW q \in Seq(S), NEW y \in S PROVE Append(q, y) \in Seq(S)
  OBVIOUS
<1> HIDE DEF x
<1>9. send' \in [Sockets -> Seq(Frame)] /\ due' \in [Sockets -> Seq(Frame)]
  <2>1. send \in [Sockets -> Seq(Frame)] /\ due \in [Sockets -> Seq(Frame)]
    BY DEF HubInv, HubTypeOK
  <2>2. \A s \in Sockets : /\ Append(send[s], x) \in Seq(Frame)
                           /\ Append(due[s], x) \in Seq(Frame)
    BY <1>3, <1>8, <2>1
  <2> QED
    BY <1>1, <1>7, <2>1, <2>2
<1>10. HubTypeOK'
  BY <1>1, <1>2, <1>6, <1>9 DEF HubInv, HubTypeOK
<1>11. \A s \in Sockets : place[s] # "in" => s \notin Registered
  BY DEF HubInv, MapIsExact
<1>12. Fresh'
  <2>1. \A s \in Sockets : s \notin Registered =>
          send'[s] = send[s] /\ due'[s] = due[s]
    BY <1>1, <1>4, <1>5, <1>7
  <2> QED
    BY <1>1, <1>6, <1>11, <2>1 DEF HubInv, Fresh
<1>13. HandsFree'
  BY <1>1 DEF HubInv, HandsFree
<1>14. ASSUME NEW t \in Registered', conn'[t] = "open"
       PROVE  (got[t] \o out[t] \o send[t])' = due'[t]
  <2>1. t \in Sockets /\ t \in Registered /\ t \notin Slow(e)
    BY <1>6, RegisteredFinite DEF HubInv
  <2>2. got[t] \o out[t] \o send[t] = due[t]
    BY <1>1, <1>14, <2>1 DEF HubInv, KeptMeansComplete
  <2>3. got'[t] = got[t] /\ out'[t] = out[t]
    BY <1>1
  <2>4. CASE t \in Targets(e)
    <3>1. send'[t] = Append(send[t], x) /\ due'[t] = Append(due[t], x)
      BY <1>1, <1>5, <1>7, <2>1, <2>4
    <3>2. got[t] \in Seq(Frame) /\ out[t] \in Seq(Frame) /\ send[t] \in Seq(Frame)
      BY <2>1 DEF HubInv, HubTypeOK
    <3>3. got[t] \o out[t] \o Append(send[t], x)
            = Append(got[t] \o out[t] \o send[t], x)
      <4> DEFINE a == got[t]
                 b == out[t]
                 c == send[t]
      <4>1. a \in Seq(Frame) /\ b \in Seq(Frame) /\ c \in Seq(Frame)
        BY <3>2
      <4> HIDE DEF a, b, c
      <4>2. a \o b \o Append(c, x) = Append(a \o b \o c, x)
        BY <1>3, <4>1, MoreDue
      <4> QED
        BY <4>2 DEF a, b, c
    <3> QED
      BY <2>2, <2>3, <3>1, <3>3
  <2>5. CASE t \notin Targets(e)
    <3>1. send'[t] = send[t] /\ due'[t] = due[t]
      BY <1>1, <1>5, <1>7, <2>1, <2>5
    <3> QED
      BY <2>2, <2>3, <3>1
  <2> QED
    BY <2>4, <2>5
<1>15. KeptMeansComplete'
  BY <1>14 DEF KeptMeansComplete
<1> QED
  BY <1>6, <1>10, <1>12, <1>13, <1>15 DEF HubInv

-----------------------------------------------------------------------------

LEMMA HubStarts == HubInit => HubInv
<1> SUFFICES ASSUME HubInit PROVE HubInv
  OBVIOUS
<1>1. Registered = {} /\ DOMAIN clients = {}
  BY DEF HubInit, Registered
<1>a. <<>> \in Seq(Envelope) /\ <<>> \in Seq(Frame) /\ 0 \in 0..MaxFrames
  BY HubAssumption, EmptySeq
<1>b. clients \in [DOMAIN clients -> SUBSET Sockets]
  BY DEF HubInit
<1>2. HubTypeOK
  BY <1>1, <1>a, <1>b DEF HubInit, HubTypeOK
<1>3. MapIsExact
  BY <1>1, FS_EmptySet DEF HubInit, MapIsExact
<1> QED
  BY <1>1, <1>2, <1>3
     DEF HubInit, HubInv, NoPanic, Fresh, HandsFree, KeptMeansComplete

LEMMA HubSteps ==
  ASSUME HubInv, [HubNext]_hubVars
  PROVE  HubInv'
<1>1. CASE UNCHANGED hubVars
  <2>1. HubTypeOK'
    BY <1>1 DEF hubVars, HubInv, HubTypeOK
  <2> QED
    BY <1>1, <2>1, QuietStep DEF hubVars
<1>2. ASSUME NEW s \in Sockets,
             Upgrade(s) \/ SocketStep(s) \/ PeerGone(s) \/ TokenRunsOut(s)
      PROVE  HubInv'
  BY <1>2, PlaceStep, RegisterStep, UnregisterStep, TakeStep, WriteStep,
     WriterEndsStep, QuietActions DEF SocketStep, PumpStep
<1> QED
  BY <1>1, <1>2, QuietActions, DeliverStep, CloseAllStep DEF HubNext

LEMMA HubInvariant == HubSpec => []HubInv
<1>1. HubInit => HubInv
  BY HubStarts
<1>2. HubInv /\ [HubNext]_hubVars => HubInv'
  BY HubSteps
<1> QED
  BY <1>1, <1>2, PTL DEF HubSpec

(* The hub never panics, its map is exact, and a socket it keeps is        *)
(* complete (hub.go: Run), whatever the readers, the writers, the peers    *)
(* and the callers of Add, Broadcast and Close do, in any order.           *)
THEOREM HubIsSafe == HubSpec => [](NoPanic /\ MapIsExact /\ KeptMeansComplete)
<1>1. HubInv => NoPanic /\ MapIsExact /\ KeptMeansComplete
  BY DEF HubInv
<1> QED
  BY <1>1, HubInvariant, PTL

=============================================================================
