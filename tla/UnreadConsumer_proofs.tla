------------------------ MODULE UnreadConsumer_proofs ------------------------
(***************************************************************************)
(* The unread consumer, for any number of messages, copies, nodes and      *)
(* deliveries.                                                             *)
(***************************************************************************)
EXTENDS UnreadConsumer, TLAPS

(* A callback that is about to ack has the work done, one that is about to *)
(* terminate has the copy made; and the inbox only names counted messages. *)
InHand(n) == /\ cpc[n] = "ack" => MessageOf(Now(n).entry) \in counted
             /\ cpc[n] = "term" => Now(n).entry \in dlq

InboxCounted == \A r \in inbox : r.message \in counted

ConsumerInv == /\ \A n \in Nodes : InHand(n)
               /\ InboxCounted
               /\ SettledIsSafe

Inv == TypeOK /\ ConsumerInv

-----------------------------------------------------------------------------
(* Types                                                                   *)

LEMMA NowTyped ==
  ASSUME TypeOK, NEW n \in Nodes, queue[n] # <<>>
  PROVE  /\ Now(n) \in Delivery /\ Now(n).entry \in Entries
         /\ MessageOf(Now(n).entry) \in Messages
         /\ Tail(queue[n]) \in Seq(Delivery)
<1>1. Now(n) \in Delivery /\ Tail(queue[n]) \in Seq(Delivery)
  BY DEF TypeOK, Now
<1> QED
  BY <1>1 DEF Delivery, Entries, MessageOf

LEMMA AnswerTyped ==
  ASSUME TypeOK, NEW e, NEW s \in EntryState, Answer(e, s) \/ UNCHANGED entry
  PROVE  entry' \in [Entries -> EntryState]
  BY DEF TypeOK, Answer, EntryState

LEMMA ReturnTyped ==
  ASSUME TypeOK, NEW n \in Nodes, queue[n] # <<>>, Return(n)
  PROVE  /\ queue' \in [Nodes -> Seq(Delivery)] /\ cpc' \in [Nodes -> NodeState]
         /\ \A k \in Nodes : cpc'[k] \notin EmptyHanded => queue'[k] # <<>>
<1>1. Tail(queue[n]) \in Seq(Delivery)
  BY NowTyped
<1> QED
  BY <1>1 DEF TypeOK, Return, NodeState, EmptyHanded

(* Where a callback goes next without returning.                           *)
LEMMA GoesOnTyped ==
  ASSUME TypeOK, NEW n \in Nodes, queue[n] # <<>>, UNCHANGED queue,
         NEW s \in NodeState, cpc' = [cpc EXCEPT ![n] = s]
  PROVE  /\ queue' \in [Nodes -> Seq(Delivery)] /\ cpc' \in [Nodes -> NodeState]
         /\ \A k \in Nodes : cpc'[k] \notin EmptyHanded => queue'[k] # <<>>
  BY DEF TypeOK

LEMMA ApplyTyped ==
  ASSUME TypeOK, NEW m \in Messages, ApplyUnread(m) \/ UNCHANGED tableVars
  PROVE  /\ inbox' \subseteq Row /\ members' \subseteq Users
         /\ unread' \in [Users -> Nat] /\ counted' \subseteq Messages
<1>1. [message |-> m, at |-> clock] \in Row
  BY DEF Row, TypeOK
<1>2. CASE UNCHANGED tableVars
  BY <1>2 DEF TypeOK, tableVars
<1>3. CASE ApplyUnread(m) /\ ~Claimed(m)
  <2>1. unread' = [u \in Users |-> IF u \in members /\ u # SenderOf[m]
                                   THEN unread[u] + 1 ELSE unread[u]]
    BY <1>3 DEF ApplyUnread
  <2>2. \A u \in Users : unread[u] \in Nat /\ unread[u] + 1 \in Nat
    BY DEF TypeOK
  <2>3. unread' \in [Users -> Nat]
    BY <2>1, <2>2
  <2> QED
    BY <1>1, <1>3, <2>3 DEF TypeOK, ApplyUnread
<1> QED
  BY <1>2, <1>3 DEF ApplyUnread

LEMMA FailTyped == ASSUME TypeOK, Fail PROVE failures' \in 0..MaxFailures
  BY ConsumerAssumption DEF TypeOK, Fail

LEMMA InitTyped == Init => TypeOK
  BY ConsumerAssumption DEF Init, TypeOK, EntryState, NodeState, EmptyHanded

LEMMA HandleUnreadTyped ==
  ASSUME TypeOK, NEW n \in Nodes, HandleUnread(n) PROVE TypeOK'
<1> USE DEF streamVars, nodeVars
<1>1. queue[n] # <<>>
  BY DEF HandleUnread, TypeOK, Decode, Apply, ApplyFails, Ack, CopyToDeadLetters,
         CopyFails, Term, EmptyHanded
<1>2. Now(n).entry \in Entries /\ MessageOf(Now(n).entry) \in Messages
  BY <1>1, NowTyped
<1>s. /\ {"ready", "acked", "termed"} \subseteq EntryState
      /\ {"take", "apply", "ack", "copy", "term"} \subseteq NodeState
  BY DEF EntryState, NodeState
<1> DEFINE NodesTyped == /\ queue' \in [Nodes -> Seq(Delivery)]
                         /\ cpc' \in [Nodes -> NodeState]
                         /\ \A k \in Nodes : cpc'[k] \notin EmptyHanded => queue'[k] # <<>>
           TablesTyped == /\ inbox' \subseteq Row /\ members' \subseteq Users
                          /\ unread' \in [Users -> Nat] /\ counted' \subseteq Messages
<1>3. CASE Decode(n)
  <2>1. NodesTyped
    <3>1. PICK s \in NodeState : cpc' = [cpc EXCEPT ![n] = s]
      BY <1>3, <1>s DEF Decode
    <3> QED
      BY <1>1, <1>3, <3>1, GoesOnTyped DEF Decode
  <2> QED
    BY <1>3, <2>1 DEF Decode, TypeOK, tableVars
<1>4. CASE Apply(n)
  <2>1. NodesTyped
    BY <1>1, <1>4, <1>s, GoesOnTyped DEF Apply
  <2>2. TablesTyped
    BY <1>2, <1>4, ApplyTyped DEF Apply
  <2> QED
    BY <1>4, <2>1, <2>2 DEF Apply, TypeOK
<1>5. CASE ApplyFails(n)
  <2>1. TablesTyped
    BY <1>2, <1>5, ApplyTyped DEF ApplyFails
  <2>2. failures' \in 0..MaxFailures
    BY <1>5, FailTyped DEF ApplyFails
  <2>3. NodesTyped /\ entry' \in [Entries -> EntryState]
    <3>1. CASE Now(n).num >= MaxDeliver
      BY <1>1, <1>5, <1>s, <3>1, GoesOnTyped DEF ApplyFails, TypeOK
    <3>2. CASE ~(Now(n).num >= MaxDeliver)
      BY <1>1, <1>5, <1>s, <3>2, ReturnTyped, AnswerTyped DEF ApplyFails, NakAndReturn
    <3> QED
      BY <3>1, <3>2
  <2> QED
    BY <1>5, <2>1, <2>2, <2>3 DEF ApplyFails, TypeOK
<1>6. CASE Ack(n)
  <2>1. NodesTyped /\ entry' \in [Entries -> EntryState]
    BY <1>1, <1>6, <1>s, ReturnTyped, AnswerTyped DEF Ack
  <2>2. failures' \in 0..MaxFailures
    BY <1>6, FailTyped DEF Ack, TypeOK
  <2> QED
    BY <1>6, <2>1, <2>2 DEF Ack, TypeOK, tableVars
<1>7. CASE CopyToDeadLetters(n)
  <2>1. NodesTyped
    BY <1>1, <1>7, <1>s, GoesOnTyped DEF CopyToDeadLetters
  <2> QED
    BY <1>2, <1>7, <2>1 DEF CopyToDeadLetters, TypeOK, tableVars
<1>8. CASE CopyFails(n)
  <2>1. NodesTyped /\ entry' \in [Entries -> EntryState]
    BY <1>1, <1>8, <1>s, ReturnTyped, AnswerTyped DEF CopyFails, NakAndReturn
  <2>2. failures' \in 0..MaxFailures
    BY <1>8, FailTyped DEF CopyFails
  <2> QED
    BY <1>2, <1>8, <2>1, <2>2 DEF CopyFails, TypeOK, tableVars
<1>9. CASE Term(n)
  <2>1. NodesTyped /\ entry' \in [Entries -> EntryState]
    BY <1>1, <1>9, <1>s, ReturnTyped, AnswerTyped DEF Term
  <2> QED
    BY <1>9, <2>1 DEF Term, TypeOK, tableVars
<1> QED
  BY <1>3, <1>4, <1>5, <1>6, <1>7, <1>8, <1>9 DEF HandleUnread

LEMMA OtherStepsTyped ==
  ASSUME TypeOK,
         \/ \E e \in Entries : Stored(e) \/ AckWaitPasses(e)
         \/ \E e \in Entries, n \in Nodes : Deliver(e, n)
         \/ \E n \in Nodes : Crash(n)
         \/ \E u \in Users : AddMember(u) \/ MarkConversationRead(u)
         \/ DeleteConsumedBefore \/ Tick \/ UNCHANGED vars
  PROVE  TypeOK'
<1> USE DEF streamVars, nodeVars, tableVars
<1>1. ASSUME NEW e \in Entries, Stored(e) PROVE TypeOK'
  BY <1>1, ConsumerAssumption DEF Stored, TypeOK, EntryState
<1>2. ASSUME NEW e \in Entries, AckWaitPasses(e) PROVE TypeOK'
  BY <1>2 DEF AckWaitPasses, TypeOK, EntryState
<1>3. ASSUME NEW e \in Entries, NEW n \in Nodes, Deliver(e, n) PROVE TypeOK'
  <2>1. delivered[e] + 1 \in 1..MaxDeliver /\ delivered[e] + 1 \in 0..MaxDeliver
    BY <1>3, ConsumerAssumption DEF Deliver, TypeOK
  <2>2. [entry |-> e, num |-> delivered[e] + 1] \in Delivery
    BY <2>1 DEF Delivery
  <2> DEFINE d == [entry |-> e, num |-> delivered[e] + 1]
  <2>3. d \in Delivery /\ queue[n] \in Seq(Delivery)
    BY <2>2 DEF TypeOK
  <2>4. /\ queue' = [queue EXCEPT ![n] = Append(queue[n], d)]
        /\ entry' = [entry EXCEPT ![e] = "waiting"]
        /\ delivered' = [delivered EXCEPT ![e] = delivered[e] + 1]
    BY <1>3 DEF Deliver
  <2> HIDE DEF d
  <2>7. Append(queue[n], d) \in Seq(Delivery) /\ Append(queue[n], d) # <<>>
    BY <2>3
  <2>5. queue' \in [Nodes -> Seq(Delivery)] /\ \A k \in Nodes : queue'[k] = <<>> => queue[k] = <<>>
    BY <2>4, <2>7 DEF TypeOK
  <2>6. entry' \in [Entries -> EntryState] /\ delivered' \in [Entries -> 0..MaxDeliver]
    BY <2>1, <2>4 DEF TypeOK, EntryState
  <2> QED
    BY <1>3, <2>5, <2>6 DEF Deliver, TypeOK
<1>4. ASSUME NEW n \in Nodes, Crash(n) PROVE TypeOK'
  <2>1. PICK s \in EmptyHanded : cpc' = [cpc EXCEPT ![n] = s]
    BY <1>4 DEF Crash, ConsumeUnread
  <2>2. /\ cpc' \in [Nodes -> NodeState] /\ queue' \in [Nodes -> Seq(Delivery)]
        /\ \A k \in Nodes : cpc'[k] \notin EmptyHanded => queue'[k] # <<>>
    BY <1>4, <2>1 DEF Crash, TypeOK, NodeState, EmptyHanded
  <2> QED
    BY <1>4, <2>2, ConsumerAssumption DEF Crash, TypeOK
<1>5. ASSUME NEW u \in Users, AddMember(u) PROVE TypeOK'
  BY <1>5 DEF AddMember, TypeOK
<1>6. ASSUME NEW u \in Users, MarkConversationRead(u) PROVE TypeOK'
  BY <1>6 DEF MarkConversationRead, TypeOK
<1>7. CASE DeleteConsumedBefore
  BY <1>7 DEF DeleteConsumedBefore, TypeOK
<1>8. CASE Tick
  BY <1>8, ConsumerAssumption DEF Tick, TypeOK
<1>9. CASE UNCHANGED vars
  BY <1>9 DEF vars, TypeOK
<1> QED
  BY <1>1, <1>2, <1>3, <1>4, <1>5, <1>6, <1>7, <1>8, <1>9

-----------------------------------------------------------------------------
(* What is settled was dealt with                                          *)

(* An answer settles an entry only as counted or as kept.                  *)
LEMMA AnswerSafe ==
  ASSUME TypeOK, SettledIsSafe, NEW e \in Entries, NEW s \in EntryState,
         Answer(e, s) \/ UNCHANGED entry,
         counted \subseteq counted', dlq \subseteq dlq',
         s = "acked" => MessageOf(e) \in counted,
         s = "termed" => e \in dlq
  PROVE  SettledIsSafe'
<1>1. \A f \in Entries : entry'[f] \in {entry[f], IF f = e THEN s ELSE entry[f]}
  BY DEF Answer, TypeOK
<1> QED
  BY <1>1 DEF SettledIsSafe, MessageOf

(* A callback that returns has nothing in hand; the others keep theirs.    *)
LEMMA ReturnSafe ==
  ASSUME TypeOK, \A k \in Nodes : InHand(k), NEW n \in Nodes, Return(n),
         counted \subseteq counted', dlq \subseteq dlq'
  PROVE  \A k \in Nodes : InHand(k)'
<1>1. cpc'[n] = "take"
  BY DEF Return, TypeOK
<1>2. \A k \in Nodes \ {n} : cpc'[k] = cpc[k] /\ queue'[k] = queue[k]
  BY DEF Return, TypeOK
<1> QED
  BY <1>1, <1>2 DEF InHand, Now, MessageOf

LEMMA ApplyCounts ==
  ASSUME TypeOK, InboxCounted, NEW m \in Messages, ApplyUnread(m)
  PROVE  m \in counted' /\ counted \subseteq counted' /\ InboxCounted'
  BY DEF InboxCounted, ApplyUnread, Claimed, tableVars

LEMMA HandleUnreadSafe ==
  ASSUME TypeOK, ConsumerInv, NEW n \in Nodes, HandleUnread(n)
  PROVE  ConsumerInv'
<1> USE DEF streamVars
<1>1. queue[n] # <<>>
  BY DEF HandleUnread, TypeOK, Decode, Apply, ApplyFails, Ack, CopyToDeadLetters,
         CopyFails, Term, EmptyHanded
<1>2. Now(n).entry \in Entries /\ MessageOf(Now(n).entry) \in Messages
  BY <1>1, NowTyped
<1>3. {"ready", "acked", "termed"} \subseteq EntryState
  BY DEF EntryState
<1>4. InHand(n) /\ (\A k \in Nodes : InHand(k)) /\ InboxCounted /\ SettledIsSafe
  BY DEF ConsumerInv
<1>5. ASSUME UNCHANGED queue, NEW s \in NodeState, cpc' = [cpc EXCEPT ![n] = s],
             counted \subseteq counted', dlq \subseteq dlq',
             s = "ack" => MessageOf(Now(n).entry) \in counted',
             s = "term" => Now(n).entry \in dlq'
      PROVE  \A k \in Nodes : InHand(k)'
  <2>1. cpc'[n] = s /\ \A k \in Nodes \ {n} : cpc'[k] = cpc[k]
    BY <1>5 DEF TypeOK
  <2> QED
    BY <1>4, <1>5, <2>1 DEF InHand, Now, MessageOf
<1>6. CASE Decode(n)
  <2>1. PICK s \in {"copy", "apply"} : cpc' = [cpc EXCEPT ![n] = s]
    BY <1>6 DEF Decode
  <2>2. \A k \in Nodes : InHand(k)'
    BY <1>5, <1>6, <2>1 DEF Decode, tableVars, NodeState
  <2> QED
    BY <1>4, <1>6, <2>2 DEF Decode, tableVars, ConsumerInv, InboxCounted, SettledIsSafe
<1>7. CASE Apply(n)
  <2>1. /\ MessageOf(Now(n).entry) \in counted' /\ counted \subseteq counted'
        /\ InboxCounted'
    BY <1>2, <1>4, <1>7, ApplyCounts DEF Apply
  <2>2. \A k \in Nodes : InHand(k)'
    BY <1>5, <1>7, <2>1 DEF Apply, NodeState
  <2>3. SettledIsSafe'
    BY <1>4, <1>7, <2>1 DEF Apply, SettledIsSafe
  <2> QED
    BY <2>1, <2>2, <2>3 DEF ConsumerInv
<1>8. CASE ApplyFails(n)
  <2>1. counted \subseteq counted' /\ InboxCounted'
    BY <1>2, <1>4, <1>8, ApplyCounts DEF ApplyFails, tableVars, InboxCounted
  <2>2. CASE Now(n).num >= MaxDeliver
    <3>1. \A k \in Nodes : InHand(k)'
      BY <1>5, <1>8, <2>1, <2>2 DEF ApplyFails, NodeState
    <3>2. SettledIsSafe'
      BY <1>4, <1>8, <2>1, <2>2 DEF ApplyFails, SettledIsSafe
    <3> QED
      BY <2>1, <3>1, <3>2 DEF ConsumerInv
  <2>3. CASE ~(Now(n).num >= MaxDeliver)
    <3>1. NakAndReturn(n) /\ dlq' = dlq
      BY <1>8, <2>3 DEF ApplyFails
    <3>2. SettledIsSafe'
      BY <1>2, <1>3, <1>4, <2>1, <3>1, AnswerSafe DEF NakAndReturn
    <3>3. \A k \in Nodes : InHand(k)'
      BY <1>4, <2>1, <3>1, ReturnSafe DEF NakAndReturn
    <3> QED
      BY <2>1, <3>2, <3>3 DEF ConsumerInv
  <2> QED
    BY <2>2, <2>3
<1>9. CASE Ack(n)
  <2>1. counted' = counted /\ dlq' = dlq /\ Return(n) /\ InboxCounted'
    BY <1>4, <1>9 DEF Ack, tableVars, InboxCounted
  <2>2. cpc[n] = "ack" /\ (Answer(Now(n).entry, "acked") \/ UNCHANGED entry)
    BY <1>9 DEF Ack
  <2>3. MessageOf(Now(n).entry) \in counted
    BY <1>4, <2>2 DEF InHand
  <2>4. SettledIsSafe'
    BY <1>2, <1>3, <1>4, <2>1, <2>2, <2>3, AnswerSafe
  <2>5. \A k \in Nodes : InHand(k)'
    BY <1>4, <2>1, ReturnSafe
  <2> QED
    BY <2>1, <2>4, <2>5 DEF ConsumerInv
<1>10. CASE CopyToDeadLetters(n)
  <2>1. /\ counted' = counted /\ dlq \subseteq dlq' /\ Now(n).entry \in dlq'
        /\ InboxCounted'
    BY <1>4, <1>10 DEF CopyToDeadLetters, tableVars, InboxCounted
  <2>2. \A k \in Nodes : InHand(k)'
    BY <1>5, <1>10, <2>1 DEF CopyToDeadLetters, NodeState
  <2>3. SettledIsSafe'
    BY <1>4, <1>10, <2>1 DEF CopyToDeadLetters, SettledIsSafe
  <2> QED
    BY <2>1, <2>2, <2>3 DEF ConsumerInv
<1>11. CASE CopyFails(n)
  <2>1. counted' = counted /\ dlq \subseteq dlq' /\ NakAndReturn(n) /\ InboxCounted'
    BY <1>4, <1>11 DEF CopyFails, tableVars, InboxCounted
  <2>2. SettledIsSafe'
    BY <1>2, <1>3, <1>4, <2>1, AnswerSafe DEF NakAndReturn
  <2>3. \A k \in Nodes : InHand(k)'
    BY <1>4, <2>1, ReturnSafe DEF NakAndReturn
  <2> QED
    BY <2>1, <2>2, <2>3 DEF ConsumerInv
<1>12. CASE Term(n)
  <2>1. counted' = counted /\ dlq' = dlq /\ Return(n) /\ InboxCounted'
    BY <1>4, <1>12 DEF Term, tableVars, InboxCounted
  <2>2. cpc[n] = "term" /\ (Answer(Now(n).entry, "termed") \/ UNCHANGED entry)
    BY <1>12 DEF Term
  <2>3. Now(n).entry \in dlq
    BY <1>4, <2>2 DEF InHand
  <2>4. SettledIsSafe'
    BY <1>2, <1>3, <1>4, <2>1, <2>2, <2>3, AnswerSafe
  <2>5. \A k \in Nodes : InHand(k)'
    BY <1>4, <2>1, ReturnSafe
  <2> QED
    BY <2>1, <2>4, <2>5 DEF ConsumerInv
<1> QED
  BY <1>6, <1>7, <1>8, <1>9, <1>10, <1>11, <1>12 DEF HandleUnread


(* The other steps change no callback that is past its take: a delivery is *)
(* appended behind the one in hand, and a crash leaves nothing in hand.    *)
LEMMA OthersSafe ==
  ASSUME TypeOK, ConsumerInv,
         \/ \E e \in Entries : Stored(e) \/ AckWaitPasses(e)
         \/ \E e \in Entries, n \in Nodes : Deliver(e, n)
         \/ \E n \in Nodes : Crash(n)
         \/ \E u \in Users : AddMember(u) \/ MarkConversationRead(u)
         \/ DeleteConsumedBefore \/ Tick \/ UNCHANGED vars
  PROVE  ConsumerInv'
<1> USE DEF streamVars, nodeVars, tableVars
<1>0. (\A k \in Nodes : InHand(k)) /\ InboxCounted /\ SettledIsSafe
  BY DEF ConsumerInv
<1>1. ASSUME UNCHANGED <<queue, cpc, dlq, counted>>, inbox' \subseteq inbox,
             \A e \in Entries : entry'[e] \in {entry[e], "ready", "waiting"}
      PROVE  ConsumerInv'
  BY <1>0, <1>1 DEF ConsumerInv, InHand, Now, InboxCounted, SettledIsSafe, MessageOf
<1>2. ASSUME NEW e \in Entries, Stored(e) \/ AckWaitPasses(e) PROVE ConsumerInv'
  BY <1>1, <1>2 DEF Stored, AckWaitPasses, TypeOK
<1>3. ASSUME NEW e \in Entries, NEW n \in Nodes, Deliver(e, n) PROVE ConsumerInv'
  <2> DEFINE d == [entry |-> e, num |-> delivered[e] + 1]
  <2>1. /\ queue' = [queue EXCEPT ![n] = Append(queue[n], d)]
        /\ entry' = [entry EXCEPT ![e] = "waiting"]
        /\ UNCHANGED <<cpc, dlq, counted, inbox>>
    BY <1>3 DEF Deliver
  <2>2. d \in Delivery
    BY <1>3, OtherStepsTyped, ConsumerAssumption DEF Delivery, Deliver, TypeOK
  <2> HIDE DEF d
  <2>3. \A k \in Nodes : queue[k] \in Seq(Delivery) /\ (cpc[k] \notin EmptyHanded => queue[k] # <<>>)
    BY DEF TypeOK
  <2>4. ASSUME NEW s \in Seq(Delivery), s # <<>> PROVE Head(Append(s, d)) = Head(s)
    BY <2>2, <2>4
  <2>5. \A k \in Nodes : cpc[k] \notin EmptyHanded => Head(queue'[k]) = Head(queue[k])
    BY <2>1, <2>3, <2>4 DEF TypeOK
  <2>6. \A k \in Nodes : InHand(k)'
    BY <1>0, <2>1, <2>5 DEF InHand, Now, MessageOf, EmptyHanded
  <2>7. SettledIsSafe' /\ InboxCounted'
    BY <1>0, <2>1 DEF SettledIsSafe, InboxCounted, TypeOK, MessageOf
  <2> QED
    BY <2>6, <2>7 DEF ConsumerInv
<1>4. ASSUME NEW n \in Nodes, Crash(n) PROVE ConsumerInv'
  <2>1. /\ cpc'[n] \in EmptyHanded
        /\ \A k \in Nodes \ {n} : cpc'[k] = cpc[k] /\ queue'[k] = queue[k]
    BY <1>4 DEF Crash, ConsumeUnread, TypeOK
  <2>2. \A k \in Nodes : InHand(k)'
    BY <1>0, <1>4, <2>1 DEF InHand, Now, MessageOf, Crash, EmptyHanded
  <2> QED
    BY <1>0, <1>4, <2>2 DEF ConsumerInv, Crash, SettledIsSafe, InboxCounted
<1>5. ASSUME NEW u \in Users, AddMember(u) \/ MarkConversationRead(u) PROVE ConsumerInv'
  BY <1>1, <1>5 DEF AddMember, MarkConversationRead
<1>6. CASE DeleteConsumedBefore
  BY <1>1, <1>6 DEF DeleteConsumedBefore
<1>7. CASE Tick
  BY <1>1, <1>7 DEF Tick
<1>8. CASE UNCHANGED vars
  BY <1>1, <1>8 DEF vars
<1> QED
  BY <1>2, <1>3, <1>4, <1>5, <1>6, <1>7, <1>8

-----------------------------------------------------------------------------
(* The types and the invariant hold always, for any number of messages,    *)
(* copies, deliveries and nodes.                                           *)
THEOREM ConsumerCorrect == Spec => []Inv
<1>1. Init => Inv
  <2> SUFFICES ASSUME Init PROVE Inv
    OBVIOUS
  <2>1. ConsumerInv
    BY DEF Init, ConsumerInv, InHand, InboxCounted, SettledIsSafe, EmptyHanded
  <2> QED
    BY <2>1, InitTyped DEF Inv
<1>2. Inv /\ [Next]_vars => Inv'
  <2> SUFFICES ASSUME Inv, [Next]_vars PROVE Inv'
    OBVIOUS
  <2>1. TypeOK /\ ConsumerInv
    BY DEF Inv
  <2>2. CASE \E n \in Nodes : HandleUnread(n)
    BY <2>1, <2>2, HandleUnreadTyped, HandleUnreadSafe DEF Inv
  <2>3. CASE ~(\E n \in Nodes : HandleUnread(n))
    <3>1. \/ \E e \in Entries : Stored(e) \/ AckWaitPasses(e)
          \/ \E e \in Entries, n \in Nodes : Deliver(e, n)
          \/ \E n \in Nodes : Crash(n)
          \/ \E u \in Users : AddMember(u) \/ MarkConversationRead(u)
          \/ DeleteConsumedBefore \/ Tick \/ UNCHANGED vars
      BY <2>3 DEF Next
    <3> QED
      BY <2>1, <3>1, OtherStepsTyped, OthersSafe DEF Inv
  <2> QED
    BY <2>2, <2>3
<1> QED
  BY <1>1, <1>2, PTL DEF Spec

(* Every variable of the consumer keeps its type.                          *)
THEOREM ConsumerTypes == Spec => []TypeOK
  BY ConsumerCorrect, PTL DEF Inv

(* What JetStream will never hand out again was counted, or a copy of it   *)
(* is in the dead letters.                                                 *)
THEOREM SettledWell == Spec => []SettledIsSafe
<1>1. Inv => SettledIsSafe
  BY DEF Inv, ConsumerInv
<1> QED
  BY <1>1, ConsumerCorrect, PTL


-----------------------------------------------------------------------------
(***************************************************************************)
(* The badges.  A message is counted once, although the inbox forgets it:  *)
(* when its row is deleted, nothing of it is left that could be delivered. *)
(***************************************************************************)

(* The first copy of the message of an entry.                              *)
First(e) == <<e[1], 1>>

(* The deliveries a node has and did not answer.                           *)
Held(n) == {queue[n][i] : i \in DOMAIN queue[n]}

Exists(e) == entry[e] # "absent"

(* Every copy is stored within RepublishAge of the first one.              *)
CopiesAge ==
  \A e \in Entries : Exists(e) => /\ Exists(First(e))
                                  /\ storedAt[e] <= storedAt[First(e)] + RepublishAge
                                  /\ storedAt[e] <= clock

(* What a node holds is young enough for the stream to have it still.      *)
HeldFresh == \A n \in Nodes : \A d \in Held(n) : Exists(d.entry) /\ Kept(d.entry)

(* A message is claimed after it was first stored.                         *)
RowsAge == \A r \in inbox : /\ Exists(<<r.message, 1>>)
                            /\ storedAt[<<r.message, 1>>] <= r.at

(* No copy of the message will ever be delivered again.                    *)
Over(m) == /\ Exists(<<m, 1>>)
           /\ clock > storedAt[<<m, 1>>] + RepublishAge + StreamAge

(* The inbox forgets a counted message only when it is over.               *)
ForgottenLate == \A m \in counted : Claimed(m) \/ Over(m)

BadgeInv == CopiesAge /\ HeldFresh /\ RowsAge /\ ForgottenLate

LEMMA FirstTyped ==
  /\ \A e \in Entries : /\ First(e) \in Entries /\ First(e) = <<MessageOf(e), 1>>
                        /\ MessageOf(e) \in Messages
  /\ \A m \in Messages : <<m, 1>> \in Entries
  BY ConsumerAssumption DEF First, Entries, MessageOf

LEMMA HeldTyped ==
  ASSUME TypeOK, NEW n \in Nodes
  PROVE  Held(n) \subseteq Delivery /\ \A d \in Held(n) : d.entry \in Entries
<1>1. queue[n] \in Seq(Delivery)
  BY DEF TypeOK
<1>2. \A i \in DOMAIN queue[n] : queue[n][i] \in Delivery
  BY <1>1
<1> QED
  BY <1>2 DEF Held, Delivery

(* The delivery a callback works on is one the node holds; what it holds   *)
(* after a return it held before.                                          *)
LEMMA NowHeld ==
  ASSUME TypeOK, NEW n \in Nodes, queue[n] # <<>> PROVE Now(n) \in Held(n)
<1>1. queue[n] \in Seq(Delivery)
  BY DEF TypeOK
<1>2. 1 \in DOMAIN queue[n] /\ Now(n) = queue[n][1]
  BY <1>1 DEF Now
<1> QED
  BY <1>2 DEF Held

LEMMA ReturnHeld ==
  ASSUME TypeOK, NEW n \in Nodes, queue[n] # <<>>, Return(n)
  PROVE  \A k \in Nodes : Held(k)' \subseteq Held(k)
<1>1. queue[n] \in Seq(Delivery) /\ queue' = [queue EXCEPT ![n] = Tail(queue[n])]
  BY DEF TypeOK, Return
<1>2. \A i \in DOMAIN Tail(queue[n]) : /\ i + 1 \in DOMAIN queue[n]
                                       /\ Tail(queue[n])[i] = queue[n][i + 1]
  BY <1>1
<1>3. queue'[n] = Tail(queue[n]) /\ \A k \in Nodes \ {n} : queue'[k] = queue[k]
  BY <1>1 DEF TypeOK
<1>4. Held(n)' \subseteq Held(n)
  BY <1>2, <1>3 DEF Held
<1>5. \A k \in Nodes \ {n} : Held(k)' = Held(k)
  BY <1>3 DEF Held
<1> QED
  BY <1>4, <1>5

(* A step that stores nothing new, gives no node more than it had and      *)
(* takes no time leaves the ages of copies and deliveries as they are.     *)
LEMMA CalmAges ==
  ASSUME TypeOK, CopiesAge, HeldFresh, UNCHANGED <<clock, storedAt>>,
         \A e \in Entries : Exists(e)' = Exists(e),
         \A n \in Nodes : Held(n)' \subseteq Held(n)
  PROVE  CopiesAge' /\ HeldFresh'
<1>1. CopiesAge'
  BY FirstTyped DEF CopiesAge, First
<1>2. HeldFresh'
  BY HeldTyped DEF HeldFresh, Kept
<1> QED
  BY <1>1, <1>2

(* The tables follow when they are not touched either.                     *)
LEMMA CalmRows ==
  ASSUME TypeOK, RowsAge, ForgottenLate, UNCHANGED <<clock, storedAt, inbox, counted>>,
         \A e \in Entries : Exists(e)' = Exists(e)
  PROVE  RowsAge' /\ ForgottenLate'
<1>1. \A r \in inbox : r.message \in Messages
  BY DEF TypeOK, Row
<1>2. counted \subseteq Messages
  BY DEF TypeOK
<1>3. RowsAge'
  BY <1>1, FirstTyped DEF RowsAge
<1>4. ForgottenLate'
  BY <1>2, FirstTyped DEF ForgottenLate, Claimed, Over
<1> QED
  BY <1>3, <1>4

(* An answer brings no entry into being.                                   *)
LEMMA AnswerExists ==
  ASSUME TypeOK, NEW f \in Entries, Exists(f), NEW s \in {"ready", "acked", "termed"},
         Answer(f, s) \/ UNCHANGED entry
  PROVE  \A e \in Entries : Exists(e)' = Exists(e)
<1>1. \A e \in Entries \ {f} : entry'[e] = entry[e]
  BY DEF Answer, TypeOK
<1>2. entry'[f] # "absent" /\ entry[f] # "absent"
  BY DEF Answer, TypeOK, Exists
<1> QED
  BY <1>1, <1>2 DEF Exists

(* A message that a callback applies and nobody claimed was never counted: *)
(* the delivery in hand shows that it is not over.                         *)
LEMMA NotCountedYet ==
  ASSUME TypeOK, BadgeInv, NEW n \in Nodes, queue[n] # <<>>,
         ~Claimed(MessageOf(Now(n).entry))
  PROVE  MessageOf(Now(n).entry) \notin counted
<1>1. PICK e \in Entries : e = Now(n).entry
  BY NowTyped
<1>2. PICK m \in Messages : m = MessageOf(e) /\ First(e) = <<m, 1>> /\ First(e) \in Entries
  BY FirstTyped
<1>3. Exists(e) /\ Kept(e)
  BY <1>1, NowHeld DEF BadgeInv, HeldFresh
<1>4. storedAt[e] <= storedAt[First(e)] + RepublishAge
  BY <1>3 DEF BadgeInv, CopiesAge
<1>5. clock <= storedAt[e] + StreamAge
  BY <1>3 DEF Kept
<1>6. /\ clock \in Nat /\ storedAt[e] \in Nat /\ storedAt[First(e)] \in Nat
      /\ RepublishAge \in Nat /\ StreamAge \in Nat
  BY <1>2, ConsumerAssumption DEF TypeOK
<1>7. ~Over(m)
  BY <1>2, <1>4, <1>5, <1>6 DEF Over
<1> QED
  BY <1>1, <1>2, <1>7 DEF BadgeInv, ForgottenLate

(* The transaction of ApplyUnread claims and counts together.              *)
LEMMA ApplyAges ==
  ASSUME TypeOK, BadgeInv, NEW n \in Nodes, queue[n] # <<>>,
         ApplyUnread(MessageOf(Now(n).entry)), UNCHANGED <<clock, storedAt>>,
         \A e \in Entries : Exists(e)' = Exists(e)
  PROVE  RowsAge' /\ ForgottenLate'
<1>1. PICK e \in Entries : e = Now(n).entry
  BY NowTyped
<1>2. PICK m \in Messages : m = MessageOf(e) /\ First(e) = <<m, 1>> /\ First(e) \in Entries
  BY FirstTyped
<1>3. CASE Claimed(m)
  BY <1>1, <1>2, <1>3, CalmRows DEF BadgeInv, ApplyUnread, tableVars
<1>4. CASE ~Claimed(m)
  <2>1. /\ inbox' = inbox \cup {[message |-> m, at |-> clock]}
        /\ counted' = counted \cup {m}
    BY <1>1, <1>2, <1>4 DEF ApplyUnread
  <2>2. Exists(e)
    BY <1>1, NowHeld DEF BadgeInv, HeldFresh
  <2>3. Exists(<<m, 1>>) /\ storedAt[<<m, 1>>] <= clock
    <3>1. Exists(First(e))
      BY <2>2 DEF BadgeInv, CopiesAge
    <3>2. storedAt[First(e)] <= clock
      BY <1>2, <3>1 DEF BadgeInv, CopiesAge
    <3> QED
      BY <1>2, <3>1, <3>2
  <2>4. \A r \in inbox : r.message \in Messages
    BY DEF TypeOK, Row
  <2>5. \A q \in Messages : Exists(<<q, 1>>)' = Exists(<<q, 1>>)
    BY FirstTyped
  <2>6. RowsAge'
    <3> SUFFICES ASSUME NEW r \in inbox'
                 PROVE  Exists(<<r.message, 1>>)' /\ storedAt[<<r.message, 1>>] <= r.at
      BY DEF RowsAge
    <3>1. CASE r \in inbox
      BY <2>4, <2>5, <3>1 DEF BadgeInv, RowsAge
    <3>2. CASE r = [message |-> m, at |-> clock]
      BY <2>3, <2>5, <3>2
    <3> QED
      BY <2>1, <3>1, <3>2
  <2>7. ForgottenLate'
    <3> SUFFICES ASSUME NEW q \in counted' PROVE Claimed(q)' \/ Over(q)'
      BY DEF ForgottenLate
    <3>1. CASE q = m
      <4>1. [message |-> m, at |-> clock].message = m
        OBVIOUS
      <4> QED
        BY <2>1, <3>1, <4>1 DEF Claimed
    <3>2. CASE q \in counted
      <4>1. q \in Messages /\ (Claimed(q) \/ Over(q))
        BY <3>2 DEF TypeOK, BadgeInv, ForgottenLate
      <4>2. Claimed(q) => Claimed(q)'
        BY <2>1 DEF Claimed
      <4>3. Over(q) => Over(q)'
        BY <2>5, <4>1 DEF Over
      <4> QED
        BY <4>1, <4>2, <4>3
    <3> QED
      BY <2>1, <3>1, <3>2
  <2> QED
    BY <2>6, <2>7
<1> QED
  BY <1>3, <1>4

(* Every step of a callback applies the message in hand or leaves the      *)
(* tables alone.                                                           *)
LEMMA CallbackTables ==
  ASSUME NEW n \in Nodes, HandleUnread(n)
  PROVE  UNCHANGED tableVars \/ ApplyUnread(MessageOf(Now(n).entry))
  BY DEF HandleUnread, Decode, Apply, ApplyFails, Ack, CopyToDeadLetters, CopyFails,
         Term, tableVars

LEMMA CallbackHolds ==
  ASSUME TypeOK, NEW n \in Nodes, HandleUnread(n) PROVE queue[n] # <<>>
  BY DEF HandleUnread, TypeOK, Decode, Apply, ApplyFails, Ack, CopyToDeadLetters,
         CopyFails, Term, EmptyHanded

LEMMA HandleUnreadAges ==
  ASSUME TypeOK, BadgeInv, NEW n \in Nodes, HandleUnread(n) PROVE BadgeInv'
<1>1. queue[n] # <<>>
  BY CallbackHolds
<1>2. UNCHANGED <<clock, storedAt>>
  BY DEF HandleUnread, Decode, Apply, ApplyFails, Ack, CopyToDeadLetters, CopyFails,
         Term, streamVars
<1>3. PICK e \in Entries : e = Now(n).entry
  BY <1>1, NowTyped
<1>4. Exists(e)
  BY <1>1, <1>3, NowHeld DEF BadgeInv, HeldFresh
<1>5. \/ UNCHANGED entry
      \/ \E s \in {"ready", "acked", "termed"} : Answer(e, s)
  BY <1>3 DEF HandleUnread, Decode, Apply, ApplyFails, Ack, CopyToDeadLetters, CopyFails,
              Term, NakAndReturn, streamVars
<1>6. \A f \in Entries : Exists(f)' = Exists(f)
  BY <1>4, <1>5, AnswerExists
<1>7. UNCHANGED queue \/ Return(n)
  BY DEF HandleUnread, Decode, Apply, ApplyFails, Ack, CopyToDeadLetters, CopyFails,
         Term, NakAndReturn
<1>8. \A k \in Nodes : Held(k)' \subseteq Held(k)
  <2>1. CASE UNCHANGED queue
    BY <2>1 DEF Held
  <2>2. CASE Return(n)
    BY <1>1, <2>2, ReturnHeld
  <2> QED
    BY <1>7, <2>1, <2>2
<1>9. CopiesAge' /\ HeldFresh'
  BY <1>2, <1>6, <1>8, CalmAges DEF BadgeInv
<1>10. RowsAge' /\ ForgottenLate'
  <2>1. CASE UNCHANGED tableVars
    BY <1>2, <1>6, <2>1, CalmRows DEF BadgeInv, tableVars
  <2>2. CASE ApplyUnread(MessageOf(Now(n).entry))
    BY <1>1, <1>2, <1>6, <2>2, ApplyAges
  <2> QED
    BY <2>1, <2>2, CallbackTables
<1> QED
  BY <1>9, <1>10 DEF BadgeInv

(* A copy is stored: it is the first of its message, or the first one is   *)
(* there and young enough.  Nobody holds it and no row names it yet.       *)
LEMMA StoredAges ==
  ASSUME TypeOK, BadgeInv, NEW e \in Entries, Stored(e) PROVE BadgeInv'
<1>1. /\ ~Exists(e)
      /\ entry' = [entry EXCEPT ![e] = "ready"]
      /\ storedAt' = [storedAt EXCEPT ![e] = clock]
      /\ UNCHANGED <<clock, queue, inbox, counted>>
  BY DEF Stored, Exists, nodeVars, tableVars
<1>2. clock \in Nat /\ RepublishAge \in Nat /\ StreamAge \in Nat
  BY ConsumerAssumption DEF TypeOK
<1>3. \A f \in Entries : Exists(f) => f # e /\ Exists(f)' /\ storedAt'[f] = storedAt[f]
  BY <1>1 DEF Exists, TypeOK
<1>4. \A f \in Entries \ {e} : Exists(f)' = Exists(f) /\ storedAt'[f] = storedAt[f]
  BY <1>1 DEF Exists, TypeOK
<1>5. Exists(e)' /\ storedAt'[e] = clock
  BY <1>1 DEF Exists, TypeOK
<1>6. \/ First(e) = e
      \/ Exists(First(e)) /\ clock <= storedAt[First(e)] + RepublishAge
  <2>1. CASE e[2] > 1
    <3>1. PICK f : f = <<e[1], e[2] - 1>>
      OBVIOUS
    <3>2. f \in Entries /\ Exists(f) /\ First(f) = First(e)
      BY <2>1, <3>1, ConsumerAssumption DEF Stored, Entries, Exists, First
    <3>3. clock <= storedAt[First(e)] + RepublishAge
      BY <2>1 DEF Stored, First
    <3> QED
      BY <3>2, <3>3 DEF BadgeInv, CopiesAge
  <2>2. CASE ~(e[2] > 1)
    BY <2>2, ConsumerAssumption DEF Entries, First
  <2> QED
    BY <2>1, <2>2
<1>7. CopiesAge'
  <2> SUFFICES ASSUME NEW f \in Entries, Exists(f)'
               PROVE  /\ Exists(First(f))'
                      /\ storedAt'[f] <= storedAt'[First(f)] + RepublishAge
                      /\ storedAt'[f] <= clock
    BY <1>1 DEF CopiesAge, First
  <2>1. CASE f = e
    BY <1>2, <1>3, <1>5, <1>6, <2>1, FirstTyped
  <2>2. CASE f # e
    <3>1. Exists(f) /\ storedAt'[f] = storedAt[f]
      BY <1>4, <2>2
    <3>2. /\ Exists(First(f)) /\ storedAt[f] <= storedAt[First(f)] + RepublishAge
          /\ storedAt[f] <= clock
      BY <3>1 DEF BadgeInv, CopiesAge
    <3> QED
      BY <1>3, <3>1, <3>2, FirstTyped
  <2> QED
    BY <2>1, <2>2
<1>8. HeldFresh'
  <2>1. \A n \in Nodes : Held(n)' = Held(n)
    BY <1>1 DEF Held
  <2> QED
    BY <1>1, <1>3, <2>1, HeldTyped DEF HeldFresh, Kept, BadgeInv
<1>9. RowsAge'
  <2>1. \A r \in inbox : <<r.message, 1>> \in Entries
    BY FirstTyped DEF TypeOK, Row
  <2> QED
    BY <1>1, <1>3, <2>1 DEF RowsAge, BadgeInv
<1>10. ForgottenLate'
  <2>1. \A m \in counted : <<m, 1>> \in Entries
    BY FirstTyped DEF TypeOK
  <2>2. \A m \in counted : Over(m) => Over(m)'
    BY <1>1, <1>3, <2>1 DEF Over
  <2> QED
    BY <1>1, <2>2 DEF ForgottenLate, Claimed, BadgeInv
<1> QED
  BY <1>7, <1>8, <1>9, <1>10 DEF BadgeInv

LEMMA DeliverAges ==
  ASSUME TypeOK, BadgeInv, NEW e \in Entries, NEW n \in Nodes, Deliver(e, n)
  PROVE  BadgeInv'
<1>1. PICK d : d = [entry |-> e, num |-> delivered[e] + 1]
  OBVIOUS
<1>2. /\ queue' = [queue EXCEPT ![n] = Append(queue[n], d)]
      /\ entry' = [entry EXCEPT ![e] = "waiting"]
      /\ Kept(e) /\ entry[e] = "ready" /\ delivered[e] < MaxDeliver
      /\ UNCHANGED <<clock, storedAt, inbox, counted>>
  BY <1>1 DEF Deliver, tableVars
<1>3. d \in Delivery /\ queue[n] \in Seq(Delivery)
  <2>1. delivered[e] + 1 \in 1..MaxDeliver
    BY <1>2, ConsumerAssumption DEF TypeOK
  <2> QED
    BY <1>1, <2>1 DEF Delivery, TypeOK
<1>4. \A f \in Entries : Exists(f)' = Exists(f)
  BY <1>2 DEF Exists, TypeOK
<1>5. \A k \in Nodes : Held(k)' \subseteq Held(k) \cup {d}
  <2>1. \A i \in DOMAIN Append(queue[n], d) :
          \/ i \in DOMAIN queue[n] /\ Append(queue[n], d)[i] = queue[n][i]
          \/ Append(queue[n], d)[i] = d
    BY <1>3
  <2>2. queue'[n] = Append(queue[n], d) /\ \A k \in Nodes \ {n} : queue'[k] = queue[k]
    BY <1>2 DEF TypeOK
  <2>3. Held(n)' \subseteq Held(n) \cup {d}
    BY <2>1, <2>2 DEF Held
  <2>4. \A k \in Nodes \ {n} : Held(k)' = Held(k)
    BY <2>2 DEF Held
  <2> QED
    BY <2>3, <2>4
<1>6. Exists(e) /\ d.entry = e
  BY <1>1, <1>2 DEF Exists
<1>7. HeldFresh'
  BY <1>2, <1>4, <1>5, <1>6, HeldTyped DEF HeldFresh, Kept, BadgeInv
<1>8. CopiesAge'
  BY <1>2, <1>4, FirstTyped DEF CopiesAge, First, BadgeInv
<1>9. RowsAge' /\ ForgottenLate'
  BY <1>2, <1>4, CalmRows DEF BadgeInv
<1> QED
  BY <1>7, <1>8, <1>9 DEF BadgeInv

(* The janitor: the row it deletes is older than every delivery that could *)
(* still come.                                                             *)
LEMMA JanitorAges ==
  ASSUME TypeOK, BadgeInv, DeleteConsumedBefore PROVE BadgeInv'
<1>1. /\ inbox' = {r \in inbox : ~Old(r)}
      /\ UNCHANGED <<clock, entry, storedAt, queue, counted>>
  BY DEF DeleteConsumedBefore, streamVars, nodeVars
<1>2. CopiesAge' /\ HeldFresh'
  <2>1. \A n \in Nodes : Held(n)' = Held(n)
    BY <1>1 DEF Held
  <2>2. \A e \in Entries : Exists(e)' = Exists(e)
    BY <1>1 DEF Exists
  <2> QED
    BY <1>1, <2>1, <2>2, CalmAges DEF BadgeInv
<1>3. RowsAge'
  BY <1>1 DEF RowsAge, Exists, BadgeInv
<1>4. ForgottenLate'
  <2> SUFFICES ASSUME NEW m \in counted PROVE Claimed(m)' \/ Over(m)'
    BY <1>1 DEF ForgottenLate
  <2>1. Over(m) => Over(m)'
    BY <1>1 DEF Over, Exists
  <2>2. CASE Claimed(m) /\ ~Claimed(m)'
    <3>1. PICK r \in inbox : r.message = m
      BY <2>2 DEF Claimed
    <3>2. clock > r.at + InboxAge
      BY <1>1, <2>2, <3>1 DEF Claimed, Old
    <3>3. Exists(<<m, 1>>) /\ storedAt[<<m, 1>>] <= r.at
      BY <3>1 DEF BadgeInv, RowsAge
    <3>4. /\ storedAt[<<m, 1>>] \in Nat /\ r.at \in Nat /\ clock \in Nat
          /\ RepublishAge \in Nat /\ StreamAge \in Nat /\ InboxAge \in Nat
      BY <3>1, FirstTyped, ConsumerAssumption DEF TypeOK, Row
    <3>5. Over(m)
      BY <3>2, <3>3, <3>4, RetentionAssumption DEF Over
    <3> QED
      BY <2>1, <3>5
  <2> QED
    BY <2>1, <2>2 DEF BadgeInv, ForgottenLate
<1> QED
  BY <1>2, <1>3, <1>4 DEF BadgeInv

(* Hours pass only when no node holds a delivery.                          *)
LEMMA TickAges == ASSUME TypeOK, BadgeInv, Tick PROVE BadgeInv'
<1>1. /\ clock' = clock + 1 /\ clock \in Nat
      /\ UNCHANGED <<entry, storedAt, queue, inbox, counted>>
      /\ \A n \in Nodes : queue[n] = <<>>
  BY ConsumerAssumption DEF Tick, TypeOK, streamVars, nodeVars, tableVars
<1>2. HeldFresh'
  BY <1>1 DEF HeldFresh, Held
<1>3. CopiesAge'
  BY <1>1, FirstTyped DEF CopiesAge, Exists, First, BadgeInv, TypeOK
<1>4. RowsAge'
  BY <1>1 DEF RowsAge, Exists, BadgeInv
<1>5. ForgottenLate'
  <2>1. ASSUME NEW m \in counted, Over(m) PROVE Over(m)'
    <3>1. storedAt[<<m, 1>>] \in Nat /\ RepublishAge \in Nat /\ StreamAge \in Nat
      BY FirstTyped, ConsumerAssumption DEF TypeOK
    <3> QED
      BY <1>1, <2>1, <3>1 DEF Over, Exists
  <2> QED
    BY <1>1, <2>1 DEF ForgottenLate, Claimed, BadgeInv
<1> QED
  BY <1>2, <1>3, <1>4, <1>5 DEF BadgeInv

LEMMA CrashAges ==
  ASSUME TypeOK, BadgeInv, NEW n \in Nodes, Crash(n) PROVE BadgeInv'
<1>1. /\ queue' = [queue EXCEPT ![n] = <<>>]
      /\ UNCHANGED <<clock, entry, storedAt, inbox, counted>>
  BY DEF Crash, streamVars, tableVars
<1>2. queue'[n] = <<>> /\ \A k \in Nodes \ {n} : queue'[k] = queue[k]
  BY <1>1 DEF TypeOK
<1>3. \A k \in Nodes : Held(k)' \subseteq Held(k)
  BY <1>2 DEF Held
<1>4. \A e \in Entries : Exists(e)' = Exists(e)
  BY <1>1 DEF Exists
<1> QED
  BY <1>1, <1>3, <1>4, CalmAges, CalmRows DEF BadgeInv

(* What touches no time, entry, delivery or row.                           *)
LEMMA QuietAges ==
  ASSUME TypeOK, BadgeInv, UNCHANGED <<clock, storedAt, queue, inbox, counted>>,
         \A e \in Entries : Exists(e)' = Exists(e)
  PROVE  BadgeInv'
<1>1. \A k \in Nodes : Held(k)' \subseteq Held(k)
  BY DEF Held
<1> QED
  BY <1>1, CalmAges, CalmRows DEF BadgeInv

LEMMA NextAges ==
  ASSUME TypeOK, BadgeInv, [Next]_vars PROVE BadgeInv'
<1> USE DEF streamVars, nodeVars, tableVars
<1>1. ASSUME NEW e \in Entries, AckWaitPasses(e) PROVE BadgeInv'
  <2>1. \A f \in Entries : Exists(f)' = Exists(f)
    BY <1>1 DEF AckWaitPasses, Exists, TypeOK
  <2> QED
    BY <1>1, <2>1, QuietAges DEF AckWaitPasses
<1>2. ASSUME NEW u \in Users, AddMember(u) \/ MarkConversationRead(u) PROVE BadgeInv'
  BY <1>2, QuietAges DEF AddMember, MarkConversationRead, Exists
<1>3. CASE UNCHANGED vars
  BY <1>3, QuietAges DEF vars, Exists
<1> QED
  BY <1>1, <1>2, <1>3, StoredAges, DeliverAges, HandleUnreadAges, CrashAges,
     JanitorAges, TickAges DEF Next

(* The inbox and the ages keep a message from being counted twice.         *)
THEOREM AgesCorrect == Spec => []BadgeInv
<1>1. Init => BadgeInv
  BY DEF Init, BadgeInv, CopiesAge, HeldFresh, RowsAge, ForgottenLate, Exists, Held
<1>2. TypeOK /\ BadgeInv /\ [Next]_vars => BadgeInv'
  BY NextAges
<1> QED
  BY <1>1, <1>2, ConsumerTypes, PTL DEF Spec

-----------------------------------------------------------------------------
(* The refinement                                                          *)

LEMMA CallbackRefines ==
  ASSUME TypeOK, BadgeInv, NEW n \in Nodes, HandleUnread(n)
  PROVE  (\E m \in Messages : Badge!Count(m)) \/ UNCHANGED Badge!badgeVars
<1> USE DEF Badge!badgeVars
<1>1. queue[n] # <<>>
  BY CallbackHolds
<1>2. PICK m \in Messages : m = MessageOf(Now(n).entry)
  BY <1>1, NowTyped
<1>3. CASE UNCHANGED tableVars \/ Claimed(m)
  BY <1>2, <1>3, CallbackTables DEF ApplyUnread, tableVars
<1>4. CASE ~(UNCHANGED tableVars) /\ ~Claimed(m)
  <2>1. m \notin counted
    BY <1>1, <1>2, <1>4, NotCountedYet
  <2>2. /\ counted' = counted \cup {m} /\ UNCHANGED members
        /\ unread' = [u \in Users |-> IF u \in members /\ u # SenderOf[m]
                                      THEN unread[u] + 1 ELSE unread[u]]
    BY <1>2, <1>4, CallbackTables DEF ApplyUnread
  <2>3. unread' = [u \in Users |-> IF u \in members \ {SenderOf[m]} THEN unread[u] + 1
                                                                   ELSE unread[u]]
    BY <2>2
  <2> QED
    BY <2>1, <2>2, <2>3 DEF Badge!Count
<1> QED
  BY <1>3, <1>4

LEMMA StepRefines ==
  ASSUME TypeOK, BadgeInv, [Next]_vars
  PROVE  [Badge!BadgesNext]_(Badge!badgeVars)
<1> USE DEF Badge!badgeVars, tableVars
<1>1. ASSUME NEW u \in Users, AddMember(u) PROVE Badge!Join(u)
  BY <1>1 DEF AddMember, Badge!Join
<1>2. ASSUME NEW u \in Users, MarkConversationRead(u) PROVE Badge!Read(u)
  BY <1>2 DEF MarkConversationRead, Badge!Read
<1>3. ASSUME NEW e \in Entries, Stored(e) \/ AckWaitPasses(e)
      PROVE  UNCHANGED Badge!badgeVars
  BY <1>3 DEF Stored, AckWaitPasses
<1>4. ASSUME NEW e \in Entries, NEW n \in Nodes, Deliver(e, n)
      PROVE  UNCHANGED Badge!badgeVars
  BY <1>4 DEF Deliver
<1>5. ASSUME NEW n \in Nodes, Crash(n) PROVE UNCHANGED Badge!badgeVars
  BY <1>5 DEF Crash
<1>6. CASE DeleteConsumedBefore \/ Tick \/ UNCHANGED vars
  BY <1>6 DEF DeleteConsumedBefore, Tick, vars
<1> QED
  BY <1>1, <1>2, <1>3, <1>4, <1>5, <1>6, CallbackRefines DEF Next, Badge!BadgesNext

(* ApplyUnread and its inbox, over a stream that delivers again and again  *)
(* and a janitor that forgets, give every member's badge exactly what      *)
(* module Badges promises.                                                 *)
THEOREM ConsumerIsBadges == Spec => ImplementsBadges
<1>1. Init => Badge!BadgesInit
  BY DEF Init, Badge!BadgesInit
<1>2. TypeOK /\ BadgeInv /\ [Next]_vars => [Badge!BadgesNext]_(Badge!badgeVars)
  BY StepRefines
<1> QED
  BY <1>1, <1>2, ConsumerTypes, AgesCorrect, PTL DEF Spec, ImplementsBadges, Badge!BadgesSpec
==============================================================================
