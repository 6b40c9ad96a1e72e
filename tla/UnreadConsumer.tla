--------------------------- MODULE UnreadConsumer ---------------------------
(***************************************************************************)
(* The unread counters of one room: the shared durable consumer of         *)
(* internal/broker/consume.go that every node joins, the transaction it    *)
(* runs (database.ApplyUnread) with its inbox table consumed_messages, and *)
(* the two things that race with it: a user who reads the room, and the    *)
(* janitor that deletes old inbox rows.                                    *)
(*                                                                         *)
(* JetStream is external.  It hands an entry out at most MaxDeliver times, *)
(* counts a delivery when it sends it (a node buffers what it is sent),    *)
(* and hands an entry out again when AckWait has passed since the last     *)
(* delivery or a Nak arrives, whether or not an older copy is still in a   *)
(* node's hands.                                                           *)
(*                                                                         *)
(* Left out: traces and metrics, the last_seq column (nothing reads it),   *)
(* a message without JetStream metadata (the source calls it impossible),  *)
(* and how long a Nak asks to wait.                                        *)
(***************************************************************************)
EXTENDS Naturals, Sequences

CONSTANTS
  Users, Messages,
  SenderOf,      \* the user who wrote each message
  Poison,        \* messages whose stream entries do not parse
  Copies,        \* a message is stored at most this often, see Stored
  Nodes,
  MaxDeliver,    \* deliveries of one entry
  StreamAge,     \* ticks the stream keeps an entry (24 hours)
  InboxAge,      \* ticks an inbox row is kept at least (48 hours)
  RepublishAge,  \* assumed: ticks within which the relay has stamped a row
  MaxClock,      \* bound: ticks
  MaxFailures,   \* bound: failed applies, lost acks and failed publishes
  MaxCrashes     \* bound: crashes of a node

ASSUME ConsumerAssumption ==
  /\ SenderOf \in [Messages -> Users]
  /\ Poison \subseteq Messages
  /\ Copies \in Nat \ {0} /\ MaxDeliver \in Nat \ {0}
  /\ StreamAge \in Nat /\ InboxAge \in Nat /\ RepublishAge \in Nat
  /\ MaxClock \in Nat /\ MaxFailures \in Nat /\ MaxCrashes \in Nat

(* relay.go on INBOX_RETENTION: "Twice the window is the margin."  The     *)
(* inbox outlives the stream by a day, and the relay is assumed to stop    *)
(* publishing a row within that day.                                       *)
ASSUME RetentionAssumption == RepublishAge + StreamAge <= InboxAge

VARIABLES
  clock,      \* ticks of some hours
  \* JetStream
  entry,      \* the state of each entry of the stream, for this consumer
  storedAt,   \* when the entry was stored
  delivered,  \* NumDelivered
  dlq,        \* entries copied to CHAT_DLQ
  \* nodes
  queue,      \* deliveries sent to a node and not handled yet
  cpc,        \* where handleUnread is
  failures,   \* counts failures, for the bound
  crashes,    \* counts crashes, for the bound
  \* Postgres
  inbox,      \* consumed_messages: the time each message was claimed
  members,
  unread,     \* unread_counters.unread_count
  counted     \* history: messages that were ever counted

streamVars == <<entry, storedAt, delivered, dlq>>
nodeVars   == <<queue, cpc, failures, crashes>>
tableVars  == <<inbox, members, unread, counted>>

vars == <<clock, streamVars, nodeVars, tableVars>>

(* An entry is one stored copy of a message.                               *)
Entries == Messages \X (1..Copies)
MessageOf(e) == e[1]

(* absent - ready - waiting (for an ack) - ready ... - acked or termed.    *)
EntryState == {"absent", "ready", "waiting", "acked", "termed"}

(* take: between two messages; apply, ack, copy and term: inside           *)
(* handleUnread and deadLetter, with the delivery at the head of the queue;*)
(* off: ConsumeUnread could not create its consumer and has returned.      *)
NodeState == {"off", "take", "apply", "ack", "copy", "term"}
EmptyHanded == {"off", "take"}

Delivery == [entry : Entries, num : 1..MaxDeliver]
Row      == [message : Messages, at : Nat]

TypeOK ==
  /\ clock \in 0..MaxClock
  /\ entry \in [Entries -> EntryState]
  /\ storedAt \in [Entries -> Nat]
  /\ delivered \in [Entries -> 0..MaxDeliver]
  /\ dlq \subseteq Entries
  /\ queue \in [Nodes -> Seq(Delivery)]
  /\ cpc \in [Nodes -> NodeState]
  /\ \A n \in Nodes : cpc[n] \notin EmptyHanded => queue[n] # <<>>
  /\ failures \in 0..MaxFailures /\ crashes \in 0..MaxCrashes
  /\ inbox \subseteq Row
  /\ members \subseteq Users
  /\ unread \in [Users -> Nat]
  /\ counted \subseteq Messages

Init ==
  /\ clock = 0
  /\ entry = [e \in Entries |-> "absent"]
  /\ storedAt = [e \in Entries |-> 0]
  /\ delivered = [e \in Entries |-> 0]
  /\ dlq = {}
  /\ queue = [n \in Nodes |-> <<>>]
  /\ cpc \in [Nodes -> EmptyHanded]
  /\ failures = 0 /\ crashes = 0
  /\ inbox = {}
  /\ members \in SUBSET Users
  /\ unread = [u \in Users |-> 0]
  /\ counted = {}

-----------------------------------------------------------------------------
(* JetStream (external)                                                    *)

(* The relay publishes a message.  A second copy is stored when the relay  *)
(* publishes the row again after the duplicate window.                     *)
Stored(e) ==
  LET m == e[1] k == e[2] IN
  /\ entry[e] = "absent"
  /\ k > 1 => /\ entry[<<m, k - 1>>] # "absent"
              /\ clock <= storedAt[<<m, 1>>] + RepublishAge
  /\ entry' = [entry EXCEPT ![e] = "ready"]
  /\ storedAt' = [storedAt EXCEPT ![e] = clock]
  /\ UNCHANGED <<clock, delivered, dlq, nodeVars, tableVars>>

Kept(e) == clock <= storedAt[e] + StreamAge

Deliver(e, n) ==
  /\ cpc[n] # "off"
  /\ entry[e] = "ready"
  /\ Kept(e)
  /\ delivered[e] < MaxDeliver
  /\ entry' = [entry EXCEPT ![e] = "waiting"]
  /\ delivered' = [delivered EXCEPT ![e] = @ + 1]
  /\ queue' = [queue EXCEPT ![n] = Append(@, [entry |-> e, num |-> delivered[e] + 1])]
  /\ UNCHANGED <<clock, storedAt, dlq, cpc, failures, crashes, tableVars>>

AckWaitPasses(e) ==
  /\ entry[e] = "waiting"
  /\ entry' = [entry EXCEPT ![e] = "ready"]
  /\ UNCHANGED <<clock, storedAt, delivered, dlq, nodeVars, tableVars>>

(* An Ack or a Term settles the entry, whichever delivery it answers; a    *)
(* Nak makes it ready, unless it is settled.                               *)
Answer(e, s) == entry' = [entry EXCEPT ![e] = IF @ \in {"acked", "termed"} THEN @ ELSE s]

-----------------------------------------------------------------------------
(* handleUnread and deadLetter                                             *)

Now(n) == Head(queue[n])

(* Mutant: a missing return; after a Nak the callback goes on to the ack.  *)
FallThrough(n) == /\ queue' = [queue EXCEPT ![n] = Tail(@)]
                  /\ cpc' = [cpc EXCEPT ![n] = "ack"]

(* The callback returns: the next message of the queue is next.            *)
Return(n) == /\ queue' = [queue EXCEPT ![n] = Tail(@)]
             /\ cpc' = [cpc EXCEPT ![n] = "take"]

(* Nak, and return.  Its error is ignored: when it is lost, AckWait runs.  *)
NakAndReturn(n) == /\ \/ Answer(Now(n).entry, "ready")
                      \/ UNCHANGED entry
                   /\ Return(n)

Fail == failures < MaxFailures /\ failures' = failures + 1

(* A message that does not parse goes straight to the dead letters.        *)
Decode(n) ==
  /\ cpc[n] = "take"
  /\ queue[n] # <<>>
  /\ cpc' = [cpc EXCEPT ![n] = IF MessageOf(Now(n).entry) \in Poison THEN "copy"
                                                                    ELSE "apply"]
  /\ UNCHANGED <<clock, streamVars, queue, failures, crashes, tableVars>>

Claimed(m) == \E r \in inbox : r.message = m

(* ApplyUnread: the claim and the counters are one transaction, and a      *)
(* claim that conflicts touches no counter.                                *)
ApplyUnread(m) ==
  IF Claimed(m)
  THEN UNCHANGED tableVars
  ELSE /\ inbox' = inbox \cup {[message |-> m, at |-> clock]}
       /\ unread' = [u \in Users |-> IF u \in members /\ u # SenderOf[m]
                                     THEN unread[u] + 1 ELSE unread[u]]
       /\ counted' = counted \cup {m}
       /\ UNCHANGED members

Apply(n) ==
  /\ cpc[n] = "apply"
  /\ ApplyUnread(MessageOf(Now(n).entry))
  /\ cpc' = [cpc EXCEPT ![n] = "ack"]
  /\ UNCHANGED <<clock, streamVars, queue, failures, crashes>>

(* Mutant: every failed try is Nak'd, the last one too.                    *)
ApplyFailsForever(n) ==
  /\ cpc[n] = "apply"
  /\ Fail
  /\ UNCHANGED tableVars
  /\ NakAndReturn(n)
  /\ UNCHANGED <<clock, storedAt, delivered, dlq, crashes>>

(* apply returns an error: the transaction rolled back, or it committed    *)
(* and the answer was lost.  The last try goes to the dead letters.        *)
ApplyFails(n) ==
  /\ cpc[n] = "apply"
  /\ Fail
  /\ \/ UNCHANGED tableVars
     \/ ApplyUnread(MessageOf(Now(n).entry))
  /\ IF Now(n).num >= MaxDeliver
     THEN cpc' = [cpc EXCEPT ![n] = "copy"] /\ UNCHANGED <<queue, entry>>
     ELSE NakAndReturn(n)
  /\ UNCHANGED <<clock, storedAt, delivered, dlq, crashes>>

Ack(n) ==
  /\ cpc[n] = "ack"
  /\ \/ Answer(Now(n).entry, "acked") /\ UNCHANGED failures
     \/ Fail /\ UNCHANGED entry
  /\ Return(n)
  /\ UNCHANGED <<clock, storedAt, delivered, dlq, crashes, tableVars>>

CopyToDeadLetters(n) ==
  /\ cpc[n] = "copy"
  /\ dlq' = dlq \cup {Now(n).entry}
  /\ cpc' = [cpc EXCEPT ![n] = "term"]
  /\ UNCHANGED <<clock, entry, storedAt, delivered, queue, failures, crashes, tableVars>>

(* Mutant: the entry is terminated whether the copy worked or not.         *)
CopyFailsAndTerms(n) ==
  /\ cpc[n] = "copy"
  /\ Fail
  /\ cpc' = [cpc EXCEPT ![n] = "term"]
  /\ UNCHANGED <<clock, streamVars, queue, crashes, tableVars>>

(* The publish to CHAT_DLQ returns an error, stored or not: Nak.           *)
CopyFails(n) ==
  /\ cpc[n] = "copy"
  /\ Fail
  /\ dlq' \in {dlq, dlq \cup {Now(n).entry}}
  /\ NakAndReturn(n)
  /\ UNCHANGED <<clock, storedAt, delivered, crashes, tableVars>>

(* A lost Term is not noticed.                                             *)
Term(n) ==
  /\ cpc[n] = "term"
  /\ \/ Answer(Now(n).entry, "termed")
     \/ UNCHANGED entry
  /\ Return(n)
  /\ UNCHANGED <<clock, storedAt, delivered, dlq, failures, crashes, tableVars>>

(* A node joins the shared consumer.  It asks once; when that fails it     *)
(* takes no part until its process starts again.                           *)
ConsumeUnread(n) == \E s \in EmptyHanded : cpc' = [cpc EXCEPT ![n] = s]

(* The process dies and starts again, while messages it was sent wait in   *)
(* its queue or while it took no part.                                     *)
Crash(n) ==
  /\ queue[n] # <<>> \/ cpc[n] = "off"
  /\ crashes < MaxCrashes
  /\ crashes' = crashes + 1
  /\ queue' = [queue EXCEPT ![n] = <<>>]
  /\ ConsumeUnread(n)
  /\ UNCHANGED <<clock, streamVars, failures, tableVars>>

-----------------------------------------------------------------------------
(* The rest of the database, and time                                      *)

AddMember(u) ==
  /\ u \notin members
  /\ members' = members \cup {u}
  /\ UNCHANGED <<clock, streamVars, nodeVars, inbox, unread, counted>>

MarkConversationRead(u) ==
  /\ u \in members
  /\ unread[u] > 0
  /\ unread' = [unread EXCEPT ![u] = 0]
  /\ UNCHANGED <<clock, streamVars, nodeVars, inbox, members, counted>>

(* Mutant: the inbox is kept no longer than the stream.                    *)
OldAsStream(r) == clock > r.at + StreamAge

Old(r) == clock > r.at + InboxAge

(* The janitor of the relay that leads.                                    *)
DeleteConsumedBefore ==
  /\ \E r \in inbox : Old(r)
  /\ inbox' = {r \in inbox : ~Old(r)}
  /\ UNCHANGED <<clock, streamVars, nodeVars, members, unread, counted>>

(* Hours pass.  What a node holds it has handled or dropped long before:   *)
(* a delivery is in its hands for seconds.                                 *)
Tick ==
  /\ clock < MaxClock
  /\ \A n \in Nodes : queue[n] = <<>>
  /\ clock' = clock + 1
  /\ UNCHANGED <<streamVars, nodeVars, tableVars>>

-----------------------------------------------------------------------------
HandleUnread(n) ==
  \/ Decode(n)
  \/ Apply(n)
  \/ ApplyFails(n)
  \/ Ack(n)
  \/ CopyToDeadLetters(n)
  \/ CopyFails(n)
  \/ Term(n)

Next ==
  \/ \E e \in Entries : Stored(e)
  \/ \E e \in Entries, n \in Nodes : Deliver(e, n)
  \/ \E e \in Entries : AckWaitPasses(e)
  \/ \E n \in Nodes : HandleUnread(n)
  \/ \E n \in Nodes : Crash(n)
  \/ \E u \in Users : AddMember(u)
  \/ \E u \in Users : MarkConversationRead(u)
  \/ DeleteConsumedBefore
  \/ Tick

Spec == Init /\ [][Next]_vars

(* JetStream hands out what it can and runs its AckWait timers, and a      *)
(* callback that was entered returns.                                      *)
Fairness ==
  /\ \A e \in Entries : /\ WF_vars(\E n \in Nodes : Deliver(e, n))
                        /\ WF_vars(AckWaitPasses(e))
  /\ \A n \in Nodes : WF_vars(HandleUnread(n))

FairSpec == Spec /\ Fairness

-----------------------------------------------------------------------------
(* consume.go: apply first, ack second; copy first, Term second.  What     *)
(* JetStream will never hand out again has been counted, or a copy of it   *)
(* is in the dead letters -- a stale answer to an older delivery included. *)
SettledIsSafe ==
  \A e \in Entries : /\ entry[e] = "acked" => MessageOf(e) \in counted
                     /\ entry[e] = "termed" => e \in dlq

(* ApplyUnread and its inbox: however often a message is stored, delivered *)
(* or handled by two nodes at once, and whatever the janitor deletes, the  *)
(* badges change as if each message were counted at one moment.            *)
Badge == INSTANCE Badges

ImplementsBadges == Badge!BadgesSpec

(* maxDeliver and the dead letters: with at most MaxDeliver failures in    *)
(* all and no crash, every entry that parses is counted or kept in the     *)
(* dead letters in the end, if only one node could join the consumer.  One *)
(* failure more is NeverSilentlyGone.                                      *)
CountedOrKept(e) == MessageOf(e) \in counted \/ e \in dlq

NobodyJoined == \A n \in Nodes : cpc[n] = "off"

Settles ==
  \A e \in Entries : MessageOf(e) \notin Poison /\ entry[e] # "absent"
                        ~> CountedOrKept(e) \/ NobodyJoined

(* deadLetter: "If the copy itself fails, the message is Nak'd instead. It *)
(* comes back [...] A message that is stuck is better than a message that  *)
(* is silently gone."  An entry that JetStream will not hand out again and *)
(* that nobody holds is counted or kept.                                   *)
NeverSilentlyGone ==
  \A e \in Entries :
    /\ entry[e] = "ready" /\ delivered[e] = MaxDeliver
    /\ \A n \in Nodes : \A i \in DOMAIN queue[n] : queue[n][i].entry # e
    => CountedOrKept(e)
==============================================================================
