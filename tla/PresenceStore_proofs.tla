------------------------ MODULE PresenceStore_proofs ------------------------
(***************************************************************************)
(* Proofs about module PresenceStore, for any number of users and nodes,   *)
(* and any periods and deadlines of which three beats fit in a TTL.        *)
(***************************************************************************)
EXTENDS PresenceStore, TLAPS

-----------------------------------------------------------------------------
(* The invariant.                                                          *)

(* Only a running node has sockets, and only a socket is counted.          *)
Attached ==
    \A n \in Nodes : steady[n] \subseteq sockets[n] /\ (sockets[n] # {} => alive[n])

(* The clock a handler read is not older than the beat it is for.          *)
Stamped ==
    \A n \in Nodes : call[n].stage = "stamped" => call[n].now >= next[n] - Beat

(* A pipeline arrives before the next beat of its node.                    *)
LateInTime ==
    \A w \in late :
        /\ w.by <= w.now + BeatTimeout + Linger
        /\ alive[w.node] => /\ next[w.node] - Beat <= w.now
                            /\ w.by <= next[w.node] - Beat + BeatTimeout + Linger

(* The tick of the last beat that succeeded.                               *)
Base(n) ==
    next[n] - (IF call[n] = Idle THEN Beat ELSE 2 * Beat)
            - (IF missed[n] THEN Beat ELSE 0)

(* Whom a node counted is in Redis, since that tick or later.              *)
Counted ==
    \A n \in Nodes : \A u \in steady[n] :
        /\ member(u, n) \in DOMAIN zset
        /\ zset[member(u, n)] >= Unix(Base(n))

(* Nothing written for an absent user, or still to be written, is of a     *)
(* beat after the user left.                                               *)
Absent ==
    \A u \in Users : ~ Here(u, sockets) =>
        /\ \A n \in Nodes :
              /\ member(u, n) \in DOMAIN zset =>
                    zset[member(u, n)] <= Unix(left[u] + BeatTimeout)
              /\ u \in call[n].users => next[n] - Beat <= left[u]
        /\ \A w \in late : u \in w.users => w.now <= left[u] + BeatTimeout

SInv == TypeOK /\ Attached /\ Stamped /\ LateInTime /\ Counted /\ Absent

-----------------------------------------------------------------------------
(* Clocks and whole seconds.                                               *)

LEMMA Constants ==
  /\ TicksPerSecond \in Nat \ {0} /\ TTL \in Nat /\ Beat \in Nat \ {0}
  /\ BeatTimeout \in Nat /\ AskTimeout \in Nat /\ Linger \in Nat /\ MaxTime \in Nat
  /\ 2 * Beat + BeatTimeout <= (TTL - 1) * TicksPerSecond
  /\ BeatTimeout + Linger < Beat
BY StoreAssumption, BeatAssumption

LEMMA Division ==
  ASSUME NEW t \in Int, NEW d \in Nat \ {0}
  PROVE  t \div d \in Int /\ (t \div d) * d <= t /\ t < (t \div d) * d + d
  OBVIOUS

LEMMA Below ==
  ASSUME NEW a \in Int, NEW b \in Int, NEW d \in Nat \ {0}, a * d < b * d + d
  PROVE  a <= b
<1> SUFFICES ASSUME b + 1 <= a PROVE FALSE
  OBVIOUS
<1>1. \A x, y \in Int : x <= y => x * d <= y * d
  OBVIOUS
<1>2. (b + 1) * d <= a * d
  BY <1>1
<1>3. (b + 1) * d = b * d + d
  OBVIOUS
<1> QED
  BY <1>2, <1>3

(* Rounding keeps the order, and whole seconds pass through it.            *)
LEMMA Seconds ==
  ASSUME NEW a \in Int, NEW b \in Int
  PROVE  /\ Unix(a) \in Int
         /\ a <= b => Unix(a) <= Unix(b)
         /\ Unix(a) > Unix(b) => a > b
         /\ a >= 0 => Unix(a) \in Nat
<1>1. TicksPerSecond \in Nat \ {0}
  BY Constants
<1> DEFINE qa == a \div TicksPerSecond
           qb == b \div TicksPerSecond
<1>2. /\ qa \in Int /\ qa * TicksPerSecond <= a
      /\ a < qa * TicksPerSecond + TicksPerSecond
      /\ qb \in Int /\ qb * TicksPerSecond <= b
      /\ b < qb * TicksPerSecond + TicksPerSecond
  BY <1>1, Division
<1>3. Unix(a) = qa /\ Unix(b) = qb
  BY DEF Unix
<1> HIDE DEF qa, qb
<1>4. qa * TicksPerSecond \in Int /\ qb * TicksPerSecond \in Int
  BY <1>1, <1>2
<1>5. a <= b => qa <= qb
  <2> HAVE a <= b
  <2>1. qa * TicksPerSecond < qb * TicksPerSecond + TicksPerSecond
    BY <1>1, <1>2, <1>4
  <2> QED
    BY <1>1, <1>2, <2>1, Below
<1>6. a >= 0 => qa >= 0
  <2> HAVE a >= 0
  <2>1. 0 * TicksPerSecond = 0
    BY <1>1
  <2>2. 0 * TicksPerSecond < qa * TicksPerSecond + TicksPerSecond
    BY <1>1, <1>2, <1>4, <2>1
  <2> QED
    BY <1>1, <1>2, <2>2, Below
<1> QED
  BY <1>2, <1>3, <1>5, <1>6

LEMMA WholeSeconds ==
  ASSUME NEW a \in Int, NEW k \in Int
  PROVE  Unix(a + k * TicksPerSecond) = Unix(a) + k
<1>1. TicksPerSecond \in Nat \ {0}
  BY Constants
<1> DEFINE c == a + k * TicksPerSecond
           qa == a \div TicksPerSecond
           qc == c \div TicksPerSecond
<1>2. k * TicksPerSecond \in Int /\ c \in Int
  BY <1>1
<1>3. /\ qa \in Int /\ qa * TicksPerSecond <= a
      /\ a < qa * TicksPerSecond + TicksPerSecond
      /\ qc \in Int /\ qc * TicksPerSecond <= c
      /\ c < qc * TicksPerSecond + TicksPerSecond
  <2> HIDE DEF c
  <2> QED
    BY <1>1, <1>2, Division
<1>4. Unix(a) = qa /\ Unix(a + k * TicksPerSecond) = qc
  BY DEF Unix
<1> HIDE DEF qa, qc
<1>5. /\ (qa + k) * TicksPerSecond = qa * TicksPerSecond + k * TicksPerSecond
      /\ qa * TicksPerSecond \in Int /\ qc * TicksPerSecond \in Int
  BY <1>1, <1>3
<1>6. qa + k <= qc
  <2>1. (qa + k) * TicksPerSecond < qc * TicksPerSecond + TicksPerSecond
    BY <1>1, <1>2, <1>3, <1>5
  <2> QED
    BY <1>1, <1>3, <2>1, Below
<1>7. qc <= qa + k
  <2>1. qc * TicksPerSecond < (qa + k) * TicksPerSecond + TicksPerSecond
    BY <1>1, <1>2, <1>3, <1>5
  <2> QED
    BY <1>1, <1>3, <2>1, Below
<1> QED
  BY <1>3, <1>4, <1>6, <1>7

LEMMA Cutoffs ==
  ASSUME NEW t \in Int
  PROVE  Cutoff(t) = Unix(t) - TTL /\ Cutoff(t) \in Int
<1>1. TTL \in Nat /\ TicksPerSecond \in Nat /\ -TTL \in Int
  BY Constants
<1>2. t - TTL * TicksPerSecond = t + (-TTL) * TicksPerSecond
  BY <1>1
<1>3. Unix(t + (-TTL) * TicksPerSecond) = Unix(t) + (-TTL)
  BY <1>1, WholeSeconds
<1>4. Unix(t) \in Int
  BY Seconds
<1> QED
  BY <1>1, <1>2, <1>3, <1>4 DEF Cutoff

(* Two beats and the deadline of a third do not leave the window.          *)
LEMMA Window ==
  ASSUME NEW a \in Int, NEW b \in Int, b <= a + 2 * Beat + BeatTimeout
  PROVE  Unix(a) > Cutoff(b)
<1>1. /\ TTL - 1 \in Int /\ TicksPerSecond \in Nat /\ Beat \in Nat /\ BeatTimeout \in Nat
      /\ 2 * Beat + BeatTimeout <= (TTL - 1) * TicksPerSecond
  BY Constants
<1>2. (TTL - 1) * TicksPerSecond \in Int
  BY <1>1
<1>3. b <= a + (TTL - 1) * TicksPerSecond
  BY <1>1, <1>2
<1>4. a + (TTL - 1) * TicksPerSecond \in Int
  BY <1>2
<1>5. Unix(b) <= Unix(a + (TTL - 1) * TicksPerSecond)
  BY <1>3, <1>4, Seconds
<1>6. Unix(a + (TTL - 1) * TicksPerSecond) = Unix(a) + (TTL - 1)
  BY <1>1, WholeSeconds
<1>7. Unix(a) \in Int /\ Unix(b) \in Int /\ Cutoff(b) = Unix(b) - TTL /\ TTL \in Int
  BY Seconds, Cutoffs, Constants
<1> QED
  BY <1>5, <1>6, <1>7

-----------------------------------------------------------------------------
(* What the state tells.                                                   *)

LateRecord == [users : SUBSET Users, node : Nodes, now : Nat, by : Nat]
CallRecord == [stage : {"idle", "sent", "stamped"}, users : SUBSET Users, now : Nat]

LEMMA Typed ==
  ASSUME TypeOK
  PROVE  /\ clock \in Nat /\ clock \in Int /\ Unix(clock) \in Nat
         /\ \A n \in Nodes :
               /\ call[n] \in CallRecord
               /\ call[n].users \subseteq Users /\ call[n].now \in Nat
               /\ next[n] \in Nat /\ sockets[n] \subseteq Users /\ steady[n] \subseteq Users
               /\ missed[n] \in BOOLEAN /\ alive[n] \in BOOLEAN
         /\ \A u \in Users : left[u] \in Nat
         /\ \A m \in DOMAIN zset : zset[m] \in Nat /\ zset[m] <= Unix(clock)
         /\ \A w \in late : /\ w \in LateRecord /\ w.users \subseteq Users
                            /\ w.node \in Nodes /\ w.now \in Nat /\ w.by \in Nat
<1>1. clock \in Nat /\ clock \in Int /\ Unix(clock) \in Nat
  BY Seconds, Constants DEF TypeOK
<1>2. ASSUME NEW n \in Nodes
      PROVE  /\ call[n] \in CallRecord
             /\ next[n] \in Nat /\ sockets[n] \subseteq Users /\ steady[n] \subseteq Users
             /\ missed[n] \in BOOLEAN /\ alive[n] \in BOOLEAN
  BY DEF TypeOK, CallRecord
<1>3. ASSUME NEW n \in Nodes
      PROVE  call[n].users \subseteq Users /\ call[n].now \in Nat
  BY <1>2 DEF CallRecord
<1>4. \A u \in Users : left[u] \in Nat
  BY Constants DEF TypeOK
<1>5. \A m \in DOMAIN zset : zset[m] \in Nat /\ zset[m] <= Unix(clock)
  BY <1>1 DEF TypeOK
<1>6. ASSUME NEW w \in late PROVE w \in LateRecord
  BY DEF TypeOK, LateRecord
<1>7. ASSUME NEW w \in late
      PROVE  w.users \subseteq Users /\ w.node \in Nodes /\ w.now \in Nat /\ w.by \in Nat
  BY <1>6 DEF LateRecord
<1> QED
  BY <1>1, <1>2, <1>3, <1>4, <1>5, <1>6, <1>7

LEMMA BaseIs ==
  ASSUME TypeOK, NEW n \in Nodes
  PROVE  Base(n) \in Int /\ Base(n) <= next[n] - Beat
BY Typed, Constants DEF Base

(* Two failures later a steady user is still in the window.                *)
LEMMA SteadyIsFresh ==
  ASSUME TypeOK, Attached, NEW n \in Nodes, NEW u \in steady[n]
  PROVE  Unix(Base(n)) > Cutoff(clock)
<1>1. /\ clock \in Int /\ next[n] \in Int /\ Base(n) \in Int /\ missed[n] \in BOOLEAN
      /\ Beat \in Nat /\ BeatTimeout \in Nat
  BY Typed, BaseIs, Constants
<1>2. alive[n]
  BY DEF Attached
<1>3. IF call[n] = Idle THEN clock <= next[n] ELSE clock <= next[n] - Beat + BeatTimeout
  BY <1>1, <1>2 DEF TypeOK, Deadline
<1>4. clock <= Base(n) + 2 * Beat + BeatTimeout
  BY <1>1, <1>3 DEF Base
<1> QED
  BY <1>1, <1>4, Window

(* A handler's clock, and the users it carries who have left since.        *)
LEMMA CallBounds ==
  ASSUME SInv, NEW n \in Nodes, call[n].stage = "stamped"
  PROVE  /\ alive[n] /\ clock <= next[n] - Beat + BeatTimeout
         /\ next[n] - Beat <= call[n].now /\ call[n].now <= clock
         /\ clock <= call[n].now + BeatTimeout
         /\ \A u \in call[n].users :
               ~ Here(u, sockets) => call[n].now <= left[u] + BeatTimeout
<1>1. /\ clock \in Nat /\ next[n] \in Nat /\ call[n].now \in Nat
      /\ call[n].users \subseteq Users /\ \A u \in Users : left[u] \in Nat
      /\ Beat \in Nat /\ BeatTimeout \in Nat
  BY Typed, Constants DEF SInv
<1>2. call[n] # Idle
  BY DEF Idle
<1>3. alive[n] /\ clock <= next[n] - Beat + BeatTimeout /\ call[n].now <= clock
  BY <1>2 DEF SInv, TypeOK, Deadline
<1>4. next[n] - Beat <= call[n].now
  BY <1>1 DEF SInv, Stamped
<1>5. ASSUME NEW u \in call[n].users, ~ Here(u, sockets)
      PROVE  next[n] - Beat <= left[u] /\ left[u] \in Nat
  BY <1>1, <1>5 DEF SInv, Absent
<1> QED
  BY <1>1, <1>3, <1>4, <1>5

(* Whatever there is, is of a beat before now.                             *)
LEMMA NothingLater ==
  ASSUME TypeOK
  PROVE  /\ clock \in Nat /\ BeatTimeout \in Nat
         /\ \A m \in DOMAIN zset : zset[m] <= Unix(clock + BeatTimeout)
         /\ \A n \in Nodes : call[n] # Idle => next[n] - Beat <= clock
         /\ Idle.users = {}
<1>1. /\ clock \in Nat /\ BeatTimeout \in Nat /\ Beat \in Nat
      /\ \A m \in DOMAIN zset : zset[m] \in Nat /\ zset[m] <= Unix(clock)
  BY Typed, Constants
<1>2. Unix(clock) <= Unix(clock + BeatTimeout)
      /\ Unix(clock) \in Int /\ Unix(clock + BeatTimeout) \in Int
  BY <1>1, Seconds
<1>3. ASSUME NEW n \in Nodes, call[n] # Idle PROVE next[n] - Beat <= clock
  <2>1. alive[n] /\ next[n] \in Nat
    BY <1>3, Typed DEF TypeOK
  <2>2. next[n] <= clock + Beat
    BY <1>1, <2>1 DEF TypeOK
  <2> QED
    BY <1>1, <2>1, <2>2
<1> QED
  BY <1>1, <1>2, <1>3 DEF Idle

(* What a call that is given up leaves on its way to Redis.                *)
LEMMA LateAfter ==
  ASSUME SInv, NEW n \in Nodes, CallEnds(n), next' = next, clock' = clock,
         \A k \in Nodes : alive'[k] => alive[k]
  PROVE  /\ late' \subseteq LateRecord
         /\ \A w \in late' : w.now <= clock /\ clock <= w.by
         /\ LateInTime'
         /\ \A w \in late' : \A u \in w.users :
               ~ Here(u, sockets) => w.now <= left[u] + BeatTimeout
<1> DEFINE Fine(w) == /\ w \in LateRecord /\ w.now <= clock /\ clock <= w.by
                      /\ w.by <= w.now + BeatTimeout + Linger
                      /\ alive[w.node] =>
                           /\ next[w.node] - Beat <= w.now
                           /\ w.by <= next[w.node] - Beat + BeatTimeout + Linger
                      /\ \A u \in w.users :
                           ~ Here(u, sockets) => w.now <= left[u] + BeatTimeout
<1>1. ASSUME NEW w \in late PROVE Fine(w)
  BY Typed DEF SInv, TypeOK, LateInTime, Absent
<1>2. CASE UNCHANGED late
  <2>1. \A w \in late' : Fine(w)
    BY <1>1, <1>2
  <2>2. \A w \in late' : w.node \in Nodes
    BY <1>2, Typed DEF SInv
  <2> QED
    BY <2>1, <2>2 DEF LateInTime
<1>3. CASE ~ UNCHANGED late
  <2>1. call[n].stage = "stamped"
    BY <1>3 DEF CallEnds
  <2>2. PICK w : w = [users |-> call[n].users, node |-> n, now |-> call[n].now,
                      by |-> clock + Linger]
    OBVIOUS
  <2>3. late' = late \cup {w}
    BY <1>3, <2>2 DEF CallEnds
  <2>4. /\ w.users = call[n].users /\ w.node = n /\ w.now = call[n].now
        /\ w.by = clock + Linger
    BY <2>2
  <2>5. /\ clock \in Nat /\ next[n] \in Nat /\ call[n].now \in Nat
        /\ call[n].users \in SUBSET Users /\ Linger \in Nat /\ BeatTimeout \in Nat /\ Beat \in Nat
    BY Typed, Constants DEF SInv
  <2>6. w \in LateRecord
    BY <2>2, <2>5 DEF LateRecord
  <2>7. /\ clock <= next[n] - Beat + BeatTimeout
        /\ next[n] - Beat <= call[n].now /\ call[n].now <= clock
        /\ clock <= call[n].now + BeatTimeout
        /\ \A u \in call[n].users :
              ~ Here(u, sockets) => call[n].now <= left[u] + BeatTimeout
    BY <2>1, CallBounds
  <2>8. Fine(w)
    BY <2>4, <2>5, <2>6, <2>7
  <2> HIDE DEF Fine
  <2>9. \A v \in late' : Fine(v)
    BY <1>1, <2>3, <2>8
  <2>10. \A v \in late' : v.node \in Nodes
    BY <2>3, <2>4, Typed DEF SInv
  <2> QED
    BY <2>9, <2>10 DEF LateInTime, Fine
<1> QED
  BY <1>2, <1>3

-----------------------------------------------------------------------------
(* Steps: the clock and the sockets.                                       *)

LEMMA PassStep ==
  ASSUME SInv, Pass
  PROVE  SInv'
<1>1. /\ UNCHANGED <<zset, sockets, alive, next, call, late, moves, steady, missed, left>>
      /\ clock' = clock + 1 /\ clock < MaxTime /\ ~ Overdue /\ clock \in Nat
  BY Typed DEF Pass, nodeVars, SInv
<1>2. TypeOK'
  <2>1. clock' \in 0..MaxTime
    BY <1>1, Constants
  <2>2. zset' \in [DOMAIN zset' -> 0..Unix(clock)']
    <3>1. Unix(clock)' = Unix(clock + 1)
      BY <1>1 DEF Unix
    <3>2. Unix(clock) <= Unix(clock + 1) /\ Unix(clock + 1) \in Int /\ Unix(clock) \in Int
      BY <1>1, Seconds
    <3>3. zset \in [DOMAIN zset -> 0..Unix(clock)]
      BY DEF SInv, TypeOK
    <3> QED
      BY <1>1, <3>1, <3>2, <3>3
  <2>3. ASSUME NEW n \in Nodes
        PROVE  /\ alive[n] => next[n] \in (clock + 1)..(clock + 1 + Beat)
               /\ call[n].now <= clock + 1
               /\ call[n].stage = "idle" => call[n] = Idle
               /\ call[n] # Idle => alive[n] /\ clock + 1 <= Deadline(n)
    <3>1. /\ next[n] \in Nat /\ call[n].now \in Nat
          /\ Beat \in Nat /\ BeatTimeout \in Nat /\ BeatTimeout < Beat
      BY Typed, Constants DEF SInv
    <3>2. /\ alive[n] => next[n] \in clock..(clock + Beat)
          /\ call[n].now <= clock
          /\ call[n].stage = "idle" => call[n] = Idle
          /\ call[n] # Idle => alive[n] /\ clock <= Deadline(n)
      BY DEF SInv, TypeOK
    <3>3. IF call[n] = Idle THEN alive[n] => ~ (next[n] <= clock)
                            ELSE ~ (Deadline(n) <= clock)
      BY <1>1 DEF Overdue
    <3>4. Deadline(n) = next[n] - Beat + BeatTimeout
      BY DEF Deadline
    <3>5. CASE call[n] = Idle
      BY <1>1, <3>1, <3>2, <3>3, <3>5
    <3>6. CASE call[n] # Idle
      BY <1>1, <3>1, <3>2, <3>3, <3>4, <3>6
    <3> QED
      BY <3>5, <3>6
  <2>4. ASSUME NEW w \in late PROVE w.now <= clock + 1 /\ clock + 1 <= w.by
    <3>1. w.now \in Nat /\ w.by \in Nat /\ w.now <= clock /\ clock <= w.by
      BY Typed DEF SInv, TypeOK
    <3>2. ~ (w.by <= clock)
      BY <1>1 DEF Overdue
    <3> QED
      BY <1>1, <3>1, <3>2
  <2>5. \A n \in Nodes : Deadline(n)' = Deadline(n)
    BY <1>1 DEF Deadline
  <2>6. \A n \in Nodes :
          /\ alive'[n] => next'[n] \in clock'..(clock' + Beat)
          /\ call'[n].now <= clock'
          /\ call'[n].stage = "idle" => call'[n] = Idle
          /\ call'[n] # Idle => alive'[n] /\ clock' <= Deadline(n)'
    BY <1>1, <2>3, <2>5
  <2>7. \A w \in late' : w.now <= clock' /\ clock' <= w.by
    BY <1>1, <2>4
  <2> QED
    BY <1>1, <2>1, <2>2, <2>6, <2>7 DEF SInv, TypeOK
<1>3. Attached' /\ Stamped' /\ LateInTime'
  BY <1>1 DEF SInv, Attached, Stamped, LateInTime
<1>4. Counted'
  BY <1>1 DEF SInv, Counted, Base, Unix
<1>5. Absent'
  BY <1>1 DEF SInv, Absent, Unix
<1> QED
  BY <1>2, <1>3, <1>4, <1>5 DEF SInv

LEMMA ConnectStep ==
  ASSUME SInv, NEW u \in Users, NEW n \in Nodes, Connect(u, n)
  PROVE  SInv'
<1>1. /\ UNCHANGED <<clock, zset, alive, next, call, late, steady, missed>>
      /\ sockets' = [sockets EXCEPT ![n] = @ \cup {u}]
      /\ left' = [left EXCEPT ![u] = 0]
      /\ moves < MaxMoves /\ moves' = moves + 1 /\ alive[n]
  BY DEF Connect, Move
<1>2. sockets \in [Nodes -> SUBSET Users] /\ left \in [Users -> 0..MaxTime]
  BY DEF SInv, TypeOK
<1>3. TypeOK'
  <2>1. moves' \in 0..MaxMoves
    BY <1>1, StoreAssumption DEF SInv, TypeOK
  <2>2. sockets' \in [Nodes -> SUBSET Users] /\ left' \in [Users -> 0..MaxTime]
    BY <1>1, <1>2, Constants
  <2>3. \A k \in Nodes : Deadline(k)' = Deadline(k)
    BY <1>1 DEF Deadline
  <2> QED
    BY <1>1, <2>1, <2>2, <2>3 DEF SInv, TypeOK, Unix
<1>4. Attached'
  BY <1>1, <1>2 DEF SInv, Attached
<1>5. Stamped' /\ LateInTime'
  BY <1>1 DEF SInv, Stamped, LateInTime
<1>6. Counted'
  BY <1>1 DEF SInv, Counted, Base
<1>7. \A v \in Users : ~ Here(v, sockets') => ~ Here(v, sockets) /\ left'[v] = left[v]
  <2> SUFFICES ASSUME NEW v \in Users, ~ Here(v, sockets')
               PROVE  ~ Here(v, sockets) /\ left'[v] = left[v]
    OBVIOUS
  <2>1. v # u
    BY <1>1, <1>2 DEF Here
  <2> QED
    BY <1>1, <1>2, <2>1 DEF Here
<1>8. Absent'
  BY <1>1, <1>7 DEF SInv, Absent
<1> QED
  BY <1>3, <1>4, <1>5, <1>6, <1>8 DEF SInv

(* Users go: who has no socket left is absent from now.                    *)
LEMMA WhoGoes ==
  ASSUME SInv, NEW n \in Nodes, NEW users \in SUBSET Users, Gone(users, n)
  PROVE  /\ sockets' \in [Nodes -> SUBSET Users] /\ steady' \in [Nodes -> SUBSET Users]
         /\ missed' \in [Nodes -> BOOLEAN] /\ left' \in [Users -> 0..MaxTime]
         /\ \A k \in Nodes : /\ steady'[k] \subseteq steady[k]
                             /\ steady'[k] \subseteq sockets'[k]
                             /\ sockets'[k] \subseteq sockets[k]
                             /\ steady'[k] # {} => missed'[k] = missed[k]
         /\ sockets'[n] = sockets[n] \ users /\ steady'[n] = steady[n] \ users
         /\ \A u \in Users : ~ Here(u, sockets') =>
               \/ left'[u] = clock
               \/ ~ Here(u, sockets) /\ left'[u] = left[u]
<1>1. /\ sockets \in [Nodes -> SUBSET Users] /\ steady \in [Nodes -> SUBSET Users]
      /\ missed \in [Nodes -> BOOLEAN] /\ left \in [Users -> 0..MaxTime]
      /\ clock \in 0..MaxTime /\ \A k \in Nodes : steady[k] \subseteq sockets[k]
  BY DEF SInv, TypeOK, Attached
<1>2. /\ sockets' = [sockets EXCEPT ![n] = @ \ users]
      /\ steady' = [steady EXCEPT ![n] = @ \ users]
      /\ missed' = [missed EXCEPT ![n] = @ /\ steady'[n] # {}]
      /\ left' = [u \in Users |->
                    IF u \in users /\ ~ Here(u, sockets') THEN clock ELSE left[u]]
  BY DEF Gone
<1>3. /\ sockets' \in [Nodes -> SUBSET Users] /\ steady' \in [Nodes -> SUBSET Users]
      /\ sockets'[n] = sockets[n] \ users /\ steady'[n] = steady[n] \ users
      /\ \A k \in Nodes : /\ steady'[k] \subseteq steady[k]
                          /\ steady'[k] \subseteq sockets'[k]
                          /\ sockets'[k] \subseteq sockets[k]
  BY <1>1, <1>2
<1>4. missed' \in [Nodes -> BOOLEAN]
  BY <1>1, <1>2
<1>5. ASSUME NEW k \in Nodes, steady'[k] # {} PROVE missed'[k] = missed[k]
  <2>1. CASE k = n
    <3>1. missed'[n] = (missed[n] /\ steady'[n] # {}) /\ missed[n] \in BOOLEAN
      BY <1>1, <1>2
    <3> QED
      BY <1>5, <2>1, <3>1
  <2>2. CASE k # n
    BY <1>1, <1>2, <2>2
  <2> QED
    BY <2>1, <2>2
<1>6. left' \in [Users -> 0..MaxTime]
  BY <1>1, <1>2
<1>7. ASSUME NEW u \in Users, ~ Here(u, sockets'), left'[u] # clock
      PROVE  ~ Here(u, sockets) /\ left'[u] = left[u]
  <2>1. u \notin users /\ left'[u] = left[u]
    BY <1>2, <1>7
  <2>2. \A k \in Nodes : u \in sockets[k] => u \in sockets'[k]
    BY <1>1, <1>2, <2>1
  <2> QED
    BY <1>7, <2>1, <2>2 DEF Here
<1> QED
  BY <1>3, <1>4, <1>5, <1>6, <1>7

LEMMA LeaveStep ==
  ASSUME SInv, NEW u \in Users, NEW n \in Nodes, Leave(u, n)
  PROVE  SInv'
<1>1. /\ UNCHANGED <<clock, zset, alive, next, call, late>>
      /\ moves < MaxMoves /\ moves' = moves + 1 /\ Gone({u}, n) /\ {u} \in SUBSET Users
  BY DEF Leave, Move
<1>2. /\ sockets' \in [Nodes -> SUBSET Users] /\ steady' \in [Nodes -> SUBSET Users]
      /\ missed' \in [Nodes -> BOOLEAN] /\ left' \in [Users -> 0..MaxTime]
      /\ \A k \in Nodes : /\ steady'[k] \subseteq steady[k]
                          /\ steady'[k] \subseteq sockets'[k]
                          /\ sockets'[k] \subseteq sockets[k]
                          /\ steady'[k] # {} => missed'[k] = missed[k]
      /\ \A v \in Users : ~ Here(v, sockets') =>
               \/ left'[v] = clock
               \/ ~ Here(v, sockets) /\ left'[v] = left[v]
  BY <1>1, WhoGoes
<1>3. TypeOK'
  <2>1. moves' \in 0..MaxMoves
    BY <1>1, StoreAssumption DEF SInv, TypeOK
  <2>2. \A k \in Nodes : Deadline(k)' = Deadline(k)
    BY <1>1 DEF Deadline
  <2> QED
    BY <1>1, <1>2, <2>1, <2>2 DEF SInv, TypeOK, Unix
<1>4. Attached'
  BY <1>1, <1>2 DEF SInv, Attached
<1>5. Stamped' /\ LateInTime'
  BY <1>1 DEF SInv, Stamped, LateInTime
<1>6. Counted'
  <2> SUFFICES ASSUME NEW k \in Nodes, NEW v \in steady'[k]
               PROVE  member(v, k) \in DOMAIN zset /\ zset[member(v, k)] >= Unix(Base(k)')
    BY <1>1 DEF Counted, Unix, member
  <2>1. v \in steady[k] /\ Base(k)' = Base(k)
    BY <1>1, <1>2 DEF Base
  <2> QED
    BY <2>1 DEF SInv, Counted
<1>7. Absent'
  <2> SUFFICES ASSUME NEW v \in Users, ~ Here(v, sockets')
               PROVE  /\ \A k \in Nodes :
                           /\ member(v, k) \in DOMAIN zset =>
                                 zset[member(v, k)] <= Unix(left'[v] + BeatTimeout)
                           /\ v \in call[k].users => next[k] - Beat <= left'[v]
                      /\ \A w \in late : v \in w.users => w.now <= left'[v] + BeatTimeout
    BY <1>1 DEF Absent, Unix, member
  <2>1. CASE left'[v] = clock
    <3>1. \A w \in late : w.now <= clock + BeatTimeout
      BY Typed, Constants DEF SInv, TypeOK
    <3> QED
      BY <2>1, <3>1, NothingLater DEF SInv
  <2>2. CASE ~ Here(v, sockets) /\ left'[v] = left[v]
    BY <2>2 DEF SInv, Absent
  <2> QED
    BY <1>2, <2>1, <2>2
<1> QED
  BY <1>3, <1>4, <1>5, <1>6, <1>7 DEF SInv

LEMMA DeathStep ==
  ASSUME SInv, NEW n \in Nodes, NodeDies(n)
  PROVE  SInv'
<1>1. /\ UNCHANGED <<clock, zset, next>>
      /\ moves < MaxMoves /\ moves' = moves + 1 /\ Gone(sockets[n], n)
      /\ alive' = [alive EXCEPT ![n] = FALSE] /\ CallEnds(n)
      /\ call' = [call EXCEPT ![n] = Idle]
  BY DEF NodeDies, Move
<1>2. PICK users \in SUBSET Users : users = sockets[n]
  BY DEF SInv, TypeOK
<1>3. /\ sockets' \in [Nodes -> SUBSET Users] /\ steady' \in [Nodes -> SUBSET Users]
      /\ missed' \in [Nodes -> BOOLEAN] /\ left' \in [Users -> 0..MaxTime]
      /\ \A k \in Nodes : /\ steady'[k] \subseteq steady[k]
                          /\ steady'[k] \subseteq sockets'[k]
                          /\ sockets'[k] \subseteq sockets[k]
                          /\ steady'[k] # {} => missed'[k] = missed[k]
      /\ sockets'[n] = sockets[n] \ users /\ steady'[n] = steady[n] \ users
      /\ \A v \in Users : ~ Here(v, sockets') =>
               \/ left'[v] = clock
               \/ ~ Here(v, sockets) /\ left'[v] = left[v]
  BY <1>1, <1>2, WhoGoes
<1>4. sockets'[n] = {} /\ steady'[n] = {}
  BY <1>2, <1>3
<1>5. /\ alive \in [Nodes -> BOOLEAN] /\ alive' \in [Nodes -> BOOLEAN] /\ ~ alive'[n]
      /\ \A k \in Nodes : alive'[k] => alive[k]
      /\ \A k \in Nodes : k # n => alive'[k] = alive[k]
  BY <1>1 DEF SInv, TypeOK
<1>6. /\ late' \subseteq LateRecord
      /\ \A w \in late' : w.now <= clock /\ clock <= w.by
      /\ LateInTime'
      /\ \A w \in late' : \A v \in w.users :
            ~ Here(v, sockets) => w.now <= left[v] + BeatTimeout
  BY <1>1, <1>5, LateAfter
<1>7. /\ call' \in [Nodes -> CallRecord] /\ call'[n] = Idle
      /\ \A k \in Nodes : k # n => call'[k] = call[k]
  <2>1. call \in [Nodes -> CallRecord]
    BY DEF SInv, TypeOK, CallRecord
  <2>2. Idle \in CallRecord
    BY DEF Idle, CallRecord
  <2> QED
    BY <1>1, <2>1, <2>2
<1>8. Idle.stage = "idle" /\ Idle.users = {} /\ Idle.now = 0
  BY DEF Idle
<1>9. TypeOK'
  <2>1. moves' \in 0..MaxMoves
    BY <1>1, StoreAssumption DEF SInv, TypeOK
  <2>2. \A k \in Nodes : Deadline(k)' = Deadline(k)
    BY <1>1 DEF Deadline
  <2>3. ASSUME NEW k \in Nodes
        PROVE  /\ alive'[k] => next'[k] \in clock'..(clock' + Beat)
               /\ call'[k].now <= clock'
               /\ call'[k].stage = "idle" => call'[k] = Idle
               /\ call'[k] # Idle => alive'[k] /\ clock' <= Deadline(k)'
    <3>1. CASE k = n
      BY <1>1, <1>5, <1>7, <1>8, <3>1, Typed DEF SInv
    <3>2. CASE k # n
      BY <1>1, <1>5, <1>7, <2>2, <3>2 DEF SInv, TypeOK
    <3> QED
      BY <3>1, <3>2
  <2>4. zset' \in [DOMAIN zset' -> 0..Unix(clock)'] /\ DOMAIN zset' \subseteq Users \X Nodes
    BY <1>1 DEF SInv, TypeOK, Unix
  <2>5. clock' \in 0..MaxTime /\ next' \in [Nodes -> Nat]
    BY <1>1 DEF SInv, TypeOK
  <2> QED
    BY <1>1, <1>3, <1>5, <1>6, <1>7, <2>1, <2>3, <2>4, <2>5
    DEF TypeOK, LateRecord, CallRecord
<1>10. Attached'
  BY <1>3, <1>4, <1>5 DEF SInv, Attached
<1>11. Stamped'
  BY <1>1, <1>7, <1>8 DEF SInv, Stamped
<1>12. Counted'
  <2> SUFFICES ASSUME NEW k \in Nodes, NEW v \in steady'[k]
               PROVE  member(v, k) \in DOMAIN zset /\ zset[member(v, k)] >= Unix(Base(k)')
    BY <1>1 DEF Counted, Unix, member
  <2>1. k # n
    BY <1>4
  <2>2. v \in steady[k] /\ Base(k)' = Base(k)
    BY <1>1, <1>3, <1>7, <2>1 DEF Base
  <2> QED
    BY <2>2 DEF SInv, Counted
<1>13. Absent'
  <2> SUFFICES ASSUME NEW v \in Users, ~ Here(v, sockets')
               PROVE  /\ \A k \in Nodes :
                           /\ member(v, k) \in DOMAIN zset =>
                                 zset[member(v, k)] <= Unix(left'[v] + BeatTimeout)
                           /\ v \in call'[k].users => next[k] - Beat <= left'[v]
                      /\ \A w \in late' : v \in w.users => w.now <= left'[v] + BeatTimeout
    BY <1>1 DEF Absent, Unix, member
  <2>0. \A k \in Nodes : v \in call'[k].users => v \in call[k].users
    BY <1>7, <1>8
  <2>1. CASE left'[v] = clock
    <3>1. ASSUME NEW w \in late' PROVE w.now <= clock + BeatTimeout
      <4>1. w.now <= clock /\ w.now \in Nat
        BY <1>6 DEF LateRecord
      <4> QED
        BY <4>1, NothingLater DEF SInv
    <3> QED
      BY <2>0, <2>1, <3>1, NothingLater DEF SInv
  <2>2. CASE ~ Here(v, sockets) /\ left'[v] = left[v]
    BY <1>6, <2>0, <2>2 DEF SInv, Absent
  <2> QED
    BY <1>3, <2>1, <2>2
<1> QED
  BY <1>6, <1>9, <1>10, <1>11, <1>12, <1>13 DEF SInv

-----------------------------------------------------------------------------
(* Steps: a heartbeat before its answer.                                   *)

(* A call moves, and nothing that is shared.                               *)
LEMMA CallMoves ==
  ASSUME TypeOK, NEW n \in Nodes, NEW q \in CallRecord,
         call' = [call EXCEPT ![n] = q]
  PROVE  /\ call' \in [Nodes -> CallRecord] /\ call'[n] = q
         /\ \A k \in Nodes : k # n => call'[k] = call[k]
BY DEF TypeOK, CallRecord

LEMMA TickStep ==
  ASSUME SInv, NEW n \in Nodes, Tick(n)
  PROVE  SInv'
<1>1. /\ UNCHANGED <<clock, sockets, alive, moves, left, zset, late, steady, missed>>
      /\ next' = [next EXCEPT ![n] = @ + Beat]
      /\ alive[n] /\ call[n] = Idle /\ next[n] <= clock
  BY DEF Tick, BeatRest
<1>2. PICK q : q = [stage |-> "sent", users |-> sockets[n], now |-> 0]
  OBVIOUS
<1>3. q \in CallRecord /\ q.stage = "sent" /\ q.users = sockets[n] /\ q.now = 0
      /\ q # Idle
  BY <1>2, Typed DEF CallRecord, Idle, SInv
<1>4. call' = [call EXCEPT ![n] = q]
  BY <1>2 DEF Tick
<1>5. /\ call' \in [Nodes -> CallRecord] /\ call'[n] = q
      /\ \A k \in Nodes : k # n => call'[k] = call[k]
  BY <1>3, <1>4, CallMoves DEF SInv
<1>6. /\ next' \in [Nodes -> Nat] /\ next'[n] = next[n] + Beat /\ next[n] = clock
      /\ \A k \in Nodes : k # n => next'[k] = next[k]
      /\ clock \in Nat /\ Beat \in Nat /\ BeatTimeout \in Nat /\ Linger \in Nat
      /\ BeatTimeout + Linger < Beat
  <2>1. next \in [Nodes -> Nat] /\ Beat \in Nat
    BY Constants DEF SInv, TypeOK
  <2>2. next[n] = clock /\ clock \in Nat
    <3>1. clock \in Nat /\ next[n] \in Nat
      BY Typed DEF SInv
    <3>2. next[n] \in clock..(clock + Beat)
      BY <1>1 DEF SInv, TypeOK
    <3> QED
      BY <1>1, <2>1, <3>1, <3>2
  <2> QED
    BY <1>1, <2>1, <2>2, Constants
<1>7. TypeOK'
  <2>1. ASSUME NEW k \in Nodes
        PROVE  /\ alive'[k] => next'[k] \in clock'..(clock' + Beat)
               /\ call'[k].now <= clock'
               /\ call'[k].stage = "idle" => call'[k] = Idle
               /\ call'[k] # Idle => alive'[k] /\ clock' <= next'[k] - Beat + BeatTimeout
    <3>1. CASE k = n
      BY <1>1, <1>3, <1>5, <1>6, <3>1
    <3>2. CASE k # n
      BY <1>1, <1>5, <1>6, <3>2 DEF SInv, TypeOK, Deadline
    <3> QED
      BY <3>1, <3>2
  <2>2. zset' \in [DOMAIN zset' -> 0..Unix(clock)'] /\ DOMAIN zset' \subseteq Users \X Nodes
    BY <1>1 DEF SInv, TypeOK, Unix
  <2>3. \A k \in Nodes : Deadline(k)' = next'[k] - Beat + BeatTimeout
    BY DEF Deadline
  <2> QED
    BY <1>1, <1>5, <1>6, <2>1, <2>2, <2>3 DEF SInv, TypeOK, CallRecord
<1>8. Attached'
  BY <1>1 DEF SInv, Attached
<1>9. Stamped'
  BY <1>3, <1>5, <1>6 DEF SInv, Stamped
<1>10. LateInTime'
  <2> SUFFICES ASSUME NEW w \in late
               PROVE  /\ w.by <= w.now + BeatTimeout + Linger
                      /\ alive[w.node] =>
                           /\ next'[w.node] - Beat <= w.now
                           /\ w.by <= next'[w.node] - Beat + BeatTimeout + Linger
    BY <1>1 DEF LateInTime
  <2>1. w.node \in Nodes /\ w.by \in Nat /\ w.now \in Nat /\ clock <= w.by
    BY Typed DEF SInv, TypeOK
  <2>2. /\ w.by <= w.now + BeatTimeout + Linger
        /\ alive[w.node] => /\ next[w.node] - Beat <= w.now
                            /\ w.by <= next[w.node] - Beat + BeatTimeout + Linger
    BY DEF SInv, LateInTime
  <2>3. w.node # n
    BY <1>1, <1>6, <2>1, <2>2
  <2> QED
    BY <1>6, <2>1, <2>2, <2>3
<1>11. Counted'
  <2> SUFFICES ASSUME NEW k \in Nodes, NEW v \in steady[k]
               PROVE  member(v, k) \in DOMAIN zset /\ zset[member(v, k)] >= Unix(Base(k)')
    BY <1>1 DEF Counted, Unix, member
  <2>1. Base(k)' = Base(k)
    BY <1>1, <1>3, <1>5, <1>6 DEF Base
  <2> QED
    BY <2>1 DEF SInv, Counted
<1>12. Absent'
  <2> SUFFICES ASSUME NEW v \in Users, ~ Here(v, sockets)
               PROVE  /\ \A k \in Nodes :
                           /\ member(v, k) \in DOMAIN zset =>
                                 zset[member(v, k)] <= Unix(left[v] + BeatTimeout)
                           /\ v \in call'[k].users => next'[k] - Beat <= left[v]
                      /\ \A w \in late : v \in w.users => w.now <= left[v] + BeatTimeout
    BY <1>1 DEF Absent, Unix, member
  <2>1. v \notin sockets[n]
    BY DEF Here
  <2>2. \A k \in Nodes : v \in call'[k].users => next'[k] - Beat <= left[v]
    BY <1>3, <1>5, <1>6, <2>1 DEF SInv, Absent
  <2> QED
    BY <2>2 DEF SInv, Absent
<1> QED
  BY <1>7, <1>8, <1>9, <1>10, <1>11, <1>12 DEF SInv

LEMMA HandlerStep ==
  ASSUME SInv, NEW n \in Nodes, HandlerStarts(n)
  PROVE  SInv'
<1>1. /\ UNCHANGED <<clock, sockets, alive, moves, left, zset, next, late, steady, missed>>
      /\ call[n].stage = "sent" /\ call[n] \in CallRecord /\ clock \in Nat
  BY Typed DEF HandlerStarts, BeatRest, SInv
<1>2. PICK q : q = [call[n] EXCEPT !.stage = "stamped", !.now = clock]
  OBVIOUS
<1>3. /\ q \in CallRecord /\ q.stage = "stamped" /\ q.users = call[n].users
      /\ q.now = clock /\ q # Idle
  BY <1>1, <1>2 DEF CallRecord, Idle
<1>4. call' = [call EXCEPT ![n] = q]
  BY <1>2 DEF HandlerStarts
<1>5. /\ call' \in [Nodes -> CallRecord] /\ call'[n] = q
      /\ \A k \in Nodes : k # n => call'[k] = call[k]
  BY <1>3, <1>4, CallMoves DEF SInv
<1>6. call[n] # Idle
  BY <1>1 DEF Idle
<1>7. TypeOK'
  <2>1. ASSUME NEW k \in Nodes
        PROVE  /\ alive[k] => next[k] \in clock..(clock + Beat)
               /\ call'[k].now <= clock
               /\ call'[k].stage = "idle" => call'[k] = Idle
               /\ call'[k] # Idle => alive[k] /\ clock <= Deadline(k)
    <3>1. CASE k = n
      BY <1>1, <1>3, <1>5, <1>6, <3>1 DEF SInv, TypeOK
    <3>2. CASE k # n
      BY <1>5, <3>2 DEF SInv, TypeOK
    <3> QED
      BY <3>1, <3>2
  <2>2. zset' \in [DOMAIN zset' -> 0..Unix(clock)'] /\ DOMAIN zset' \subseteq Users \X Nodes
    BY <1>1 DEF SInv, TypeOK, Unix
  <2>3. \A k \in Nodes : Deadline(k)' = Deadline(k)
    BY <1>1 DEF Deadline
  <2> QED
    BY <1>1, <1>5, <2>1, <2>2, <2>3 DEF SInv, TypeOK, CallRecord
<1>8. Attached' /\ LateInTime'
  BY <1>1 DEF SInv, Attached, LateInTime
<1>9. Stamped'
  <2>1. next[n] - Beat <= clock /\ next[n] \in Nat /\ Beat \in Nat
    BY <1>6, NothingLater, Typed, Constants DEF SInv
  <2> QED
    BY <1>1, <1>3, <1>5, <2>1 DEF SInv, Stamped
<1>10. Counted'
  <2>1. \A k \in Nodes : Base(k)' = Base(k)
    BY <1>1, <1>3, <1>5, <1>6 DEF Base
  <2> QED
    BY <1>1, <2>1 DEF SInv, Counted, Unix, member
<1>11. Absent'
  <2>1. \A k \in Nodes : call'[k].users = call[k].users
    BY <1>3, <1>5
  <2> QED
    BY <1>1, <2>1 DEF SInv, Absent, Unix, member
<1> QED
  BY <1>7, <1>8, <1>9, <1>10, <1>11 DEF SInv

(* The caller gives up an attempt, or the call.                            *)
LEMMA GivenUp ==
  ASSUME SInv, NEW n \in Nodes, CallEnds(n),
         UNCHANGED <<clock, sockets, alive, moves, left, zset, next>>,
         NEW q \in CallRecord, call' = [call EXCEPT ![n] = q],
         q.stage # "stamped", q.now = 0, q.stage = "idle" => q = Idle,
         q.users \subseteq call[n].users, q # Idle => call[n] # Idle,
         steady' \in [Nodes -> SUBSET Users], missed' \in [Nodes -> BOOLEAN],
         \A k \in Nodes : /\ steady'[k] \subseteq steady[k]
                          /\ steady'[k] # {} => Base(k)' = Base(k)
  PROVE  SInv'
<1>1. /\ call' \in [Nodes -> CallRecord] /\ call'[n] = q
      /\ \A k \in Nodes : k # n => call'[k] = call[k]
  BY CallMoves DEF SInv
<1>2. /\ late' \subseteq LateRecord
      /\ \A w \in late' : w.now <= clock /\ clock <= w.by
      /\ LateInTime'
      /\ \A w \in late' : \A v \in w.users :
            ~ Here(v, sockets) => w.now <= left[v] + BeatTimeout
  BY LateAfter
<1>3. TypeOK'
  <2>1. ASSUME NEW k \in Nodes
        PROVE  /\ alive[k] => next[k] \in clock..(clock + Beat)
               /\ call'[k].now <= clock
               /\ call'[k].stage = "idle" => call'[k] = Idle
               /\ call'[k] # Idle => alive[k] /\ clock <= Deadline(k)
    <3>1. CASE k = n
      BY <1>1, <3>1, Typed DEF SInv, TypeOK
    <3>2. CASE k # n
      BY <1>1, <3>2 DEF SInv, TypeOK
    <3> QED
      BY <3>1, <3>2
  <2>2. zset' \in [DOMAIN zset' -> 0..Unix(clock)'] /\ DOMAIN zset' \subseteq Users \X Nodes
    BY DEF SInv, TypeOK, Unix
  <2>3. \A k \in Nodes : Deadline(k)' = Deadline(k)
    BY DEF Deadline
  <2> QED
    BY <1>1, <1>2, <2>1, <2>2, <2>3 DEF SInv, TypeOK, CallRecord, LateRecord
<1>4. Attached'
  BY DEF SInv, Attached
<1>5. Stamped'
  BY <1>1 DEF SInv, Stamped
<1>6. Counted'
  <2> SUFFICES ASSUME NEW k \in Nodes, NEW v \in steady'[k]
               PROVE  member(v, k) \in DOMAIN zset /\ zset[member(v, k)] >= Unix(Base(k)')
    BY DEF Counted, Unix, member
  <2>1. v \in steady[k] /\ Base(k)' = Base(k)
    OBVIOUS
  <2> QED
    BY <2>1 DEF SInv, Counted
<1>7. Absent'
  <2>1. \A k \in Nodes : call'[k].users \subseteq call[k].users
    BY <1>1
  <2> QED
    BY <1>2, <2>1 DEF SInv, Absent, Unix, member
<1> QED
  BY <1>2, <1>3, <1>4, <1>5, <1>6, <1>7 DEF SInv

LEMMA RetryStep ==
  ASSUME SInv, NEW n \in Nodes, Retry(n)
  PROVE  SInv'
<1>1. /\ UNCHANGED <<clock, sockets, alive, moves, left, zset, next, steady, missed>>
      /\ call[n].stage = "stamped" /\ call[n] \in CallRecord /\ CallEnds(n)
  BY Typed DEF Retry, BeatRest, SInv
<1>2. PICK q : q = [call[n] EXCEPT !.stage = "sent", !.now = 0]
  OBVIOUS
<1>3. /\ q \in CallRecord /\ q.stage = "sent" /\ q.users = call[n].users
      /\ q.now = 0 /\ q # Idle /\ call[n] # Idle
  <2>1. q \in CallRecord /\ q.stage = "sent" /\ q.users = call[n].users /\ q.now = 0
    BY <1>1, <1>2 DEF CallRecord
  <2>2. Idle.stage = "idle"
    BY DEF Idle
  <2> QED
    BY <1>1, <2>1, <2>2
<1>4. call' = [call EXCEPT ![n] = q]
  BY <1>2 DEF Retry
<1>5. \A k \in Nodes : Base(k)' = Base(k)
  BY <1>1, <1>3, <1>4, CallMoves DEF Base, SInv
<1>6. steady' \in [Nodes -> SUBSET Users] /\ missed' \in [Nodes -> BOOLEAN]
  BY <1>1 DEF SInv, TypeOK
<1>7. \A k \in Nodes : /\ steady'[k] \subseteq steady[k]
                       /\ steady'[k] # {} => Base(k)' = Base(k)
  BY <1>1, <1>5
<1> QED
  BY <1>1, <1>3, <1>4, <1>6, <1>7, GivenUp

LEMMA FailStep ==
  ASSUME SInv, NEW n \in Nodes, BeatFails(n)
  PROVE  SInv'
<1>1. /\ UNCHANGED <<clock, sockets, alive, moves, left, zset, next>>
      /\ call[n] # Idle /\ CallEnds(n)
      /\ call' = [call EXCEPT ![n] = Idle]
      /\ steady' = [steady EXCEPT ![n] = IF missed[n] THEN {} ELSE @]
      /\ missed' = [missed EXCEPT ![n] = ~ @ /\ steady[n] # {}]
  BY DEF BeatFails, BeatRest
<1>2. /\ Idle \in CallRecord /\ Idle.stage = "idle" /\ Idle.now = 0 /\ Idle.users = {}
  BY DEF CallRecord, Idle
<1>3. steady \in [Nodes -> SUBSET Users] /\ missed \in [Nodes -> BOOLEAN]
  BY DEF SInv, TypeOK
<1>4. steady' \in [Nodes -> SUBSET Users] /\ missed' \in [Nodes -> BOOLEAN]
  BY <1>1, <1>3
<1>5. \A k \in Nodes : steady'[k] \subseteq steady[k]
  BY <1>1, <1>3
<1>6. ASSUME NEW k \in Nodes, steady'[k] # {} PROVE Base(k)' = Base(k)
  <2>1. CASE k = n
    <3>1. ~ missed[n] /\ steady[n] # {}
      BY <1>1, <1>3, <1>6, <2>1
    <3>2. missed'[n] = (~ missed[n] /\ steady[n] # {})
      BY <1>1, <1>3
    <3>3. call'[n] = Idle /\ next'[n] = next[n] /\ missed'[n]
      BY <1>1, <1>2, <3>1, <3>2, CallMoves DEF SInv
    <3>4. next[n] \in Nat /\ Beat \in Nat
      BY Typed, Constants DEF SInv
    <3> QED
      BY <1>1, <2>1, <3>1, <3>3, <3>4 DEF Base
  <2>2. CASE k # n
    <3>1. call'[k] = call[k] /\ next'[k] = next[k] /\ missed'[k] = missed[k]
      BY <1>1, <1>2, <1>3, <2>2, CallMoves DEF SInv
    <3> QED
      BY <3>1 DEF Base
  <2> QED
    BY <2>1, <2>2
<1> QED
  BY <1>1, <1>2, <1>4, <1>5, <1>6, GivenUp

-----------------------------------------------------------------------------
(* Steps: a pipeline reaches Redis.                                        *)

(* A pipeline that is in time keeps whom it must, brings no absent user    *)
(* back, and takes nobody out of the window.                               *)
LEMMA Written ==
  ASSUME SInv, NEW n \in Nodes, NEW users \in SUBSET Users, NEW now \in Nat,
         now <= clock, clock <= now + BeatTimeout + Linger,
         alive[n] => next[n] - Beat <= now,
         \A u \in users : ~ Here(u, sockets) => now <= left[u] + BeatTimeout,
         NEW z, z = Heartbeat(zset, n, users, now)
  PROVE  /\ DOMAIN z \subseteq Users \X Nodes
         /\ z \in [DOMAIN z -> 0..Unix(clock)]
         /\ \A u \in users : member(u, n) \in DOMAIN z /\ z[member(u, n)] = Unix(now)
         /\ \A k \in Nodes : \A u \in steady[k] :
               member(u, k) \in DOMAIN z /\ z[member(u, k)] >= Unix(Base(k))
         /\ \A u \in Users : ~ Here(u, sockets) =>
               \A k \in Nodes : member(u, k) \in DOMAIN z =>
                  z[member(u, k)] <= Unix(left[u] + BeatTimeout)
         /\ \A m \in DOMAIN zset : zset[m] > Cutoff(clock) =>
               m \in DOMAIN z /\ z[m] > Cutoff(clock)
<1>1. /\ DOMAIN z \subseteq Users \X Nodes
      /\ z \in [DOMAIN z -> 0..Unix(clock)]
      /\ \A u \in users : member(u, n) \in DOMAIN z /\ z[member(u, n)] = Unix(now)
      /\ \A m \in DOMAIN z :
            \/ \E u \in users : m = member(u, n)
            \/ m \in DOMAIN zset /\ z[m] = zset[m]
      /\ \A m \in DOMAIN zset :
            \/ \E u \in users : m = member(u, n)
            \/ zset[m] < Cutoff(now)
            \/ m \in DOMAIN z /\ z[m] = zset[m]
  <2> TypeOK
    BY DEF SInv
  <2> DEFINE new == {member(u, n) : u \in users}
             added == Added(zset, n, users, now)
  <2>1. added = [m \in DOMAIN zset \cup new |-> IF m \in new THEN Unix(now) ELSE zset[m]]
    BY DEF Added
  <2>2. z = [m \in {k \in DOMAIN added : added[k] >= Cutoff(now)} |-> added[m]]
    BY DEF Heartbeat, Pruned
  <2>3. /\ clock \in Int /\ now \in Int /\ Unix(now) \in Nat /\ Unix(clock) \in Nat
        /\ Unix(now) <= Unix(clock) /\ Cutoff(now) \in Int /\ TTL \in Nat
        /\ Unix(now) >= Cutoff(now)
    BY Typed, Seconds, Cutoffs, Constants
  <2>4. \A m \in DOMAIN zset : zset[m] \in Nat /\ zset[m] <= Unix(clock)
    BY Typed
  <2>5. new \subseteq Users \X Nodes /\ DOMAIN zset \subseteq Users \X Nodes
    BY DEF TypeOK, member
  <2>6. \A m : m \in new <=> \E u \in users : m = member(u, n)
    OBVIOUS
  <2> HIDE DEF new, added
  <2>7. /\ DOMAIN z \subseteq DOMAIN zset \cup new
        /\ \A m \in DOMAIN z : z[m] = IF m \in new THEN Unix(now) ELSE zset[m]
        /\ \A m \in new : m \in DOMAIN z
        /\ \A m \in DOMAIN zset : m \in new \/ m \in DOMAIN z \/ ~ (zset[m] >= Cutoff(now))
    BY <2>1, <2>2, <2>3
  <2>8. DOMAIN z \subseteq Users \X Nodes
    BY <2>5, <2>7
  <2>9. z \in [DOMAIN z -> 0..Unix(clock)]
    <3>1. \A m \in DOMAIN z : z[m] \in 0..Unix(clock)
      BY <2>3, <2>4, <2>7
    <3>2. z = [m \in DOMAIN z |-> z[m]]
      BY <2>2
    <3> QED
      BY <3>1, <3>2
  <2>10. \A u \in users : member(u, n) \in DOMAIN z /\ z[member(u, n)] = Unix(now)
    BY <2>6, <2>7
  <2>11. \A m \in DOMAIN z : \/ \E u \in users : m = member(u, n)
                             \/ m \in DOMAIN zset /\ z[m] = zset[m]
    BY <2>6, <2>7
  <2>12. \A m \in DOMAIN zset : \/ \E u \in users : m = member(u, n)
                                \/ zset[m] < Cutoff(now)
                                \/ m \in DOMAIN z /\ z[m] = zset[m]
    BY <2>3, <2>4, <2>6, <2>7
  <2> QED
    BY <2>8, <2>9, <2>10, <2>11, <2>12
<1>2. /\ clock \in Int /\ now \in Int /\ Cutoff(now) \in Int /\ Cutoff(clock) \in Int
      /\ Cutoff(now) <= Cutoff(clock) /\ Unix(now) \in Int
      /\ Beat \in Nat /\ BeatTimeout \in Nat /\ Linger \in Nat /\ Linger < Beat
      /\ \A m \in DOMAIN zset : zset[m] \in Nat
  <2>1. clock \in Int /\ now \in Int /\ Unix(now) \in Int /\ Unix(clock) \in Int
        /\ Unix(now) <= Unix(clock)
    BY Typed, Seconds DEF SInv
  <2>2. Cutoff(now) = Unix(now) - TTL /\ Cutoff(clock) = Unix(clock) - TTL /\ TTL \in Nat
    BY <2>1, Cutoffs, Constants
  <2> QED
    BY <2>1, <2>2, Typed, Constants DEF SInv
<1>3. Unix(now) > Cutoff(clock)
  <2>1. clock <= now + 2 * Beat + BeatTimeout
    BY <1>2
  <2> QED
    BY <1>2, <2>1, Window
<1>4. \A u, v, k, l : member(u, k) = member(v, l) => u = v /\ k = l
  BY DEF member
<1>5. ASSUME NEW k \in Nodes, NEW u \in steady[k]
      PROVE  member(u, k) \in DOMAIN z /\ z[member(u, k)] >= Unix(Base(k))
  <2>1. /\ member(u, k) \in DOMAIN zset /\ zset[member(u, k)] >= Unix(Base(k))
        /\ Unix(Base(k)) > Cutoff(clock) /\ Unix(Base(k)) \in Int
        /\ Base(k) \in Int /\ Base(k) <= next[k] - Beat /\ next[k] \in Nat
        /\ alive[k]
    BY SteadyIsFresh, BaseIs, Seconds, Typed DEF SInv, Counted, Attached
  <2>2. CASE \E v \in users : member(u, k) = member(v, n)
    <3>1. k = n /\ u \in users
      BY <1>4, <2>2
    <3>2. Base(k) <= now
      BY <1>2, <2>1, <3>1
    <3>3. Unix(Base(k)) <= Unix(now)
      BY <1>2, <2>1, <3>2, Seconds
    <3> QED
      BY <1>1, <1>2, <2>1, <3>1, <3>3
  <2>3. CASE ~ \E v \in users : member(u, k) = member(v, n)
    <3>1. zset[member(u, k)] \in Nat /\ ~ (zset[member(u, k)] < Cutoff(now))
      BY <1>2, <2>1
    <3> QED
      BY <1>1, <2>1, <2>3, <3>1
  <2> QED
    BY <2>2, <2>3
<1>6. ASSUME NEW u \in Users, ~ Here(u, sockets), NEW k \in Nodes, member(u, k) \in DOMAIN z
      PROVE  z[member(u, k)] <= Unix(left[u] + BeatTimeout)
  <2>1. CASE \E v \in users : member(u, k) = member(v, n)
    <3>1. k = n /\ u \in users
      BY <1>4, <2>1
    <3>2. now <= left[u] + BeatTimeout /\ left[u] + BeatTimeout \in Int
      BY <1>2, <1>6, <3>1, Typed DEF SInv
    <3>3. Unix(now) <= Unix(left[u] + BeatTimeout)
      BY <1>2, <3>2, Seconds
    <3> QED
      BY <1>1, <3>1, <3>3
  <2>2. CASE ~ \E v \in users : member(u, k) = member(v, n)
    <3>1. member(u, k) \in DOMAIN zset /\ z[member(u, k)] = zset[member(u, k)]
      BY <1>1, <1>6, <2>2
    <3> QED
      BY <1>6, <3>1 DEF SInv, Absent
  <2> QED
    BY <2>1, <2>2
<1>7. ASSUME NEW m \in DOMAIN zset, zset[m] > Cutoff(clock)
      PROVE  m \in DOMAIN z /\ z[m] > Cutoff(clock)
  <2>1. CASE \E v \in users : m = member(v, n)
    BY <1>1, <1>3, <2>1
  <2>2. CASE ~ \E v \in users : m = member(v, n)
    <3>1. zset[m] \in Nat /\ ~ (zset[m] < Cutoff(now))
      BY <1>2, <1>7
    <3> QED
      BY <1>1, <1>7, <2>2, <3>1
  <2> QED
    BY <2>1, <2>2
<1> QED
  BY <1>1, <1>5, <1>6, <1>7

(* What is asked now after a write, if the window lost nothing.            *)
LEMMA NobodyTakenOut ==
  ASSUME NEW z, clock' = clock, z = zset',
         \A m \in DOMAIN zset : zset[m] > Cutoff(clock) =>
               m \in DOMAIN z /\ z[m] > Cutoff(clock)
  PROVE  Online(zset, Users, clock) \subseteq Online(zset', Users, clock)
BY DEF Online, Newer, Cutoff, Unix

LEMMA AnsweredStep ==
  ASSUME SInv, NEW n \in Nodes, Answered(n)
  PROVE  /\ SInv'
         /\ Online(zset, Users, clock) \subseteq Online(zset', Users, clock)
<1>1. /\ UNCHANGED <<clock, sockets, alive, moves, left, next>> /\ CallEnds(n)
      /\ call[n].stage = "stamped" /\ call' = [call EXCEPT ![n] = Idle]
      /\ steady' = [steady EXCEPT ![n] = call[n].users \cap sockets[n]]
      /\ missed' = [missed EXCEPT ![n] = FALSE]
  BY DEF Answered, BeatRest
<1>2. PICK users \in SUBSET Users : users = call[n].users
  BY Typed DEF SInv
<1>3. PICK now \in Nat : now = call[n].now
  BY Typed DEF SInv
<1>4. PICK z : z = zset'
  OBVIOUS
<1>5. /\ alive[n] /\ next[n] - Beat <= now /\ now <= clock
      /\ clock <= now + BeatTimeout + Linger
      /\ \A u \in users : ~ Here(u, sockets) => now <= left[u] + BeatTimeout
      /\ clock \in Nat /\ next[n] \in Nat /\ Beat \in Nat
  <2>1. /\ alive[n] /\ next[n] - Beat <= now /\ now <= clock
        /\ clock <= now + BeatTimeout
        /\ \A u \in users : ~ Here(u, sockets) => now <= left[u] + BeatTimeout
    BY <1>1, <1>2, <1>3, CallBounds
  <2>2. /\ clock \in Nat /\ next[n] \in Nat /\ BeatTimeout \in Nat /\ Linger \in Nat
        /\ Beat \in Nat
    BY Typed, Constants DEF SInv
  <2> QED
    BY <2>1, <2>2
<1>6. z = Heartbeat(zset, n, users, now)
  BY <1>2, <1>3, <1>4 DEF Answered
<1>7. /\ DOMAIN z \subseteq Users \X Nodes
      /\ z \in [DOMAIN z -> 0..Unix(clock)]
      /\ \A u \in users : member(u, n) \in DOMAIN z /\ z[member(u, n)] = Unix(now)
      /\ \A k \in Nodes : \A u \in steady[k] :
            member(u, k) \in DOMAIN z /\ z[member(u, k)] >= Unix(Base(k))
      /\ \A u \in Users : ~ Here(u, sockets) =>
            \A k \in Nodes : member(u, k) \in DOMAIN z =>
               z[member(u, k)] <= Unix(left[u] + BeatTimeout)
      /\ \A m \in DOMAIN zset : zset[m] > Cutoff(clock) =>
            m \in DOMAIN z /\ z[m] > Cutoff(clock)
  <2>1. /\ DOMAIN z \subseteq Users \X Nodes
        /\ z \in [DOMAIN z -> 0..Unix(clock)]
        /\ \A m \in DOMAIN zset : zset[m] > Cutoff(clock) =>
              m \in DOMAIN z /\ z[m] > Cutoff(clock)
    BY <1>5, <1>6, Written
  <2>2. \A u \in users : member(u, n) \in DOMAIN z /\ z[member(u, n)] = Unix(now)
    BY <1>5, <1>6, Written
  <2>3. \A k \in Nodes : \A u \in steady[k] :
            member(u, k) \in DOMAIN z /\ z[member(u, k)] >= Unix(Base(k))
    BY <1>5, <1>6, Written
  <2>4. \A u \in Users : ~ Here(u, sockets) =>
            \A k \in Nodes : member(u, k) \in DOMAIN z =>
               z[member(u, k)] <= Unix(left[u] + BeatTimeout)
    BY <1>5, <1>6, Written
  <2> QED
    BY <2>1, <2>2, <2>3, <2>4
<1>8. Online(zset, Users, clock) \subseteq Online(zset', Users, clock)
  BY <1>1, <1>4, <1>7, NobodyTakenOut
<1>9. /\ Idle \in CallRecord /\ Idle.stage = "idle" /\ Idle.now = 0 /\ Idle.users = {}
  BY DEF CallRecord, Idle
<1>10. /\ call' \in [Nodes -> CallRecord] /\ call'[n] = Idle
       /\ \A k \in Nodes : k # n => call'[k] = call[k]
  BY <1>1, <1>9, CallMoves DEF SInv
<1>11. /\ steady \in [Nodes -> SUBSET Users] /\ missed \in [Nodes -> BOOLEAN]
       /\ sockets \in [Nodes -> SUBSET Users]
  BY DEF SInv, TypeOK
<1>12. /\ late' \subseteq LateRecord
       /\ \A w \in late' : w.now <= clock /\ clock <= w.by
       /\ LateInTime'
       /\ \A w \in late' : \A v \in w.users :
             ~ Here(v, sockets) => w.now <= left[v] + BeatTimeout
  BY <1>1, LateAfter
<1>13. TypeOK'
  <2>1. steady' \in [Nodes -> SUBSET Users] /\ missed' \in [Nodes -> BOOLEAN]
    BY <1>1, <1>11
  <2>2. ASSUME NEW k \in Nodes
        PROVE  /\ alive[k] => next[k] \in clock..(clock + Beat)
               /\ call'[k].now <= clock
               /\ call'[k].stage = "idle" => call'[k] = Idle
               /\ call'[k] # Idle => alive[k] /\ clock <= Deadline(k)
    BY <1>5, <1>9, <1>10 DEF SInv, TypeOK
  <2>3. zset' \in [DOMAIN zset' -> 0..Unix(clock)'] /\ DOMAIN zset' \subseteq Users \X Nodes
    BY <1>1, <1>4, <1>7 DEF Unix
  <2>4. \A k \in Nodes : Deadline(k)' = Deadline(k)
    BY <1>1 DEF Deadline
  <2> QED
    BY <1>1, <1>10, <1>12, <2>1, <2>2, <2>3, <2>4
       DEF SInv, TypeOK, CallRecord, LateRecord
<1>14. Attached'
  BY <1>1, <1>11 DEF SInv, Attached
<1>15. Stamped'
  BY <1>1, <1>9, <1>10 DEF SInv, Stamped
<1>16. Counted'
  <2> SUFFICES ASSUME NEW k \in Nodes, NEW u \in steady'[k]
               PROVE  member(u, k) \in DOMAIN z /\ z[member(u, k)] >= Unix(Base(k)')
    BY <1>4 DEF Counted, Unix, member
  <2>1. CASE k = n
    <3>1. u \in users
      BY <1>1, <1>2, <1>11, <2>1
    <3>2. ~ missed'[n]
      BY <1>1, <1>11
    <3>3. Base(k)' = next[n] - Beat
      BY <1>1, <1>5, <1>10, <2>1, <3>2 DEF Base
    <3>4. Unix(next[n] - Beat) <= Unix(now) /\ Unix(now) \in Int /\ Unix(next[n] - Beat) \in Int
      BY <1>5, Seconds
    <3> QED
      BY <1>7, <2>1, <3>1, <3>3, <3>4
  <2>2. CASE k # n
    <3>1. u \in steady[k] /\ missed'[k] = missed[k]
      BY <1>1, <1>11, <2>2
    <3>2. Base(k)' = Base(k)
      BY <1>1, <1>10, <2>2, <3>1 DEF Base
    <3> QED
      BY <1>7, <3>1, <3>2
  <2> QED
    BY <2>1, <2>2
<1>17. Absent'
  <2>1. \A k \in Nodes : call'[k].users \subseteq call[k].users
    BY <1>9, <1>10
  <2> SUFFICES ASSUME NEW u \in Users, ~ Here(u, sockets)
               PROVE  /\ \A k \in Nodes :
                           /\ member(u, k) \in DOMAIN z =>
                                 z[member(u, k)] <= Unix(left[u] + BeatTimeout)
                           /\ u \in call'[k].users => next[k] - Beat <= left[u]
                      /\ \A w \in late' : u \in w.users => w.now <= left[u] + BeatTimeout
    BY <1>1, <1>4 DEF Absent, Unix, member
  <2> QED
    BY <1>7, <1>12, <2>1 DEF SInv, Absent
<1> QED
  BY <1>8, <1>12, <1>13, <1>14, <1>15, <1>16, <1>17 DEF SInv

LEMMA LateStep ==
  ASSUME SInv, NEW w \in late, LateExec(w)
  PROVE  /\ SInv'
         /\ Online(zset, Users, clock) \subseteq Online(zset', Users, clock)
<1>1. /\ UNCHANGED <<clock, sockets, alive, moves, left, next, call, steady, missed>>
      /\ late' \subseteq late
  BY DEF LateExec, BeatRest
<1>2. PICK n \in Nodes : n = w.node
  BY Typed DEF SInv
<1>3. PICK users \in SUBSET Users : users = w.users
  BY Typed DEF SInv
<1>4. PICK now \in Nat : now = w.now
  BY Typed DEF SInv
<1>5. PICK z : z = zset'
  OBVIOUS
<1>6. /\ alive[n] => next[n] - Beat <= now
      /\ now <= clock /\ clock <= now + BeatTimeout + Linger
      /\ \A u \in users : ~ Here(u, sockets) => now <= left[u] + BeatTimeout
  <2>1. /\ w.now <= clock /\ clock <= w.by /\ w.by <= w.now + BeatTimeout + Linger
        /\ alive[w.node] => next[w.node] - Beat <= w.now
    BY DEF SInv, TypeOK, LateInTime
  <2>2. \A u \in users : ~ Here(u, sockets) => now <= left[u] + BeatTimeout
    BY <1>3, <1>4 DEF SInv, Absent
  <2>3. clock \in Nat /\ w.by \in Nat /\ BeatTimeout \in Nat /\ Linger \in Nat
    BY Typed, Constants DEF SInv
  <2> QED
    BY <1>2, <1>4, <2>1, <2>2, <2>3
<1>7. z = Heartbeat(zset, n, users, now)
  BY <1>2, <1>3, <1>4, <1>5 DEF LateExec
<1>8. /\ DOMAIN z \subseteq Users \X Nodes
      /\ z \in [DOMAIN z -> 0..Unix(clock)]
      /\ \A k \in Nodes : \A u \in steady[k] :
            member(u, k) \in DOMAIN z /\ z[member(u, k)] >= Unix(Base(k))
      /\ \A u \in Users : ~ Here(u, sockets) =>
            \A k \in Nodes : member(u, k) \in DOMAIN z =>
               z[member(u, k)] <= Unix(left[u] + BeatTimeout)
      /\ \A m \in DOMAIN zset : zset[m] > Cutoff(clock) =>
            m \in DOMAIN z /\ z[m] > Cutoff(clock)
  BY <1>6, <1>7, Written
<1>9. Online(zset, Users, clock) \subseteq Online(zset', Users, clock)
  BY <1>1, <1>5, <1>8, NobodyTakenOut
<1>10. TypeOK'
  <2>1. zset' \in [DOMAIN zset' -> 0..Unix(clock)'] /\ DOMAIN zset' \subseteq Users \X Nodes
    BY <1>1, <1>5, <1>8 DEF Unix
  <2>2. \A k \in Nodes : Deadline(k)' = Deadline(k)
    BY <1>1 DEF Deadline
  <2> QED
    BY <1>1, <2>1, <2>2 DEF SInv, TypeOK
<1>11. Attached' /\ Stamped' /\ LateInTime'
  BY <1>1 DEF SInv, Attached, Stamped, LateInTime
<1>12. Counted'
  <2>1. \A k \in Nodes : Base(k)' = Base(k)
    BY <1>1 DEF Base
  <2> QED
    BY <1>1, <1>5, <1>8, <2>1 DEF Counted, Unix, member
<1>13. Absent'
  BY <1>1, <1>5, <1>8 DEF SInv, Absent, Unix, member
<1> QED
  BY <1>9, <1>10, <1>11, <1>12, <1>13 DEF SInv

-----------------------------------------------------------------------------
(* The invariant.                                                          *)

LEMMA StoreStarts == ASSUME Init PROVE SInv
<1>1. TypeOK
  <2>1. clock \in 0..MaxTime /\ moves \in 0..MaxMoves /\ left \in [Users -> 0..MaxTime]
    BY StoreAssumption DEF Init
  <2>2. Idle \in CallRecord /\ Idle.now = 0
    BY DEF Idle, CallRecord
  <2>3. call \in [Nodes -> CallRecord] /\ \A n \in Nodes : call[n] = Idle
    BY <2>2 DEF Init
  <2>4. next \in [Nodes -> Nat] /\ \A n \in Nodes : next[n] \in clock..(clock + Beat)
    BY Constants DEF Init
  <2>5. DOMAIN zset = {} /\ zset \in [DOMAIN zset -> 0..Unix(clock)]
    BY DEF Init
  <2>6. /\ sockets \in [Nodes -> SUBSET Users] /\ steady \in [Nodes -> SUBSET Users]
        /\ alive \in [Nodes -> BOOLEAN] /\ missed \in [Nodes -> BOOLEAN] /\ late = {}
    BY DEF Init
  <2>7. \A n \in Nodes : call[n].now <= clock
    BY <2>2, <2>3 DEF Init
  <2> QED
    BY <2>1, <2>3, <2>4, <2>5, <2>6, <2>7 DEF TypeOK, CallRecord
<1>2. Attached /\ Stamped /\ LateInTime /\ Counted
  BY DEF Init, Attached, Stamped, LateInTime, Counted, Idle
<1>3. Absent
  BY DEF Init, Absent, Idle
<1> QED
  BY <1>1, <1>2, <1>3 DEF SInv

LEMMA StoreStutters == ASSUME SInv, UNCHANGED vars PROVE SInv'
<1> USE DEF vars, nodeVars, SInv
<1>1. TypeOK'
  <2>1. \A n \in Nodes : Deadline(n)' = Deadline(n)
    BY DEF Deadline
  <2> QED
    BY <2>1 DEF TypeOK, Unix
<1>2. Attached' /\ Stamped' /\ LateInTime'
  BY DEF Attached, Stamped, LateInTime
<1>3. Counted' /\ Absent'
  BY DEF Counted, Absent, Base, Unix
<1> QED
  BY <1>1, <1>2, <1>3

LEMMA StoreStep == ASSUME SInv, [Next]_vars PROVE SInv'
BY PassStep, ConnectStep, LeaveStep, DeathStep, TickStep, HandlerStep, AnsweredStep,
   RetryStep, FailStep, LateStep, StoreStutters DEF Next

LEMMA StoreInvariant == Spec => []SInv
BY StoreStarts, StoreStep, PTL DEF Spec

-----------------------------------------------------------------------------
(* What follows from it.                                                   *)

(* Every variable keeps its type: no timer and no deadline is in the past, *)
(* and no score in the future (server.go, client.go, store.go).            *)
THEOREM StoreTypes == Spec => []TypeOK
<1>1. SInv => TypeOK
  BY DEF SInv
<1> QED
  BY <1>1, StoreInvariant, PTL

(* store.go:56-58: whoever a node counted stays in every answer until that *)
(* node's beats fail twice in a row.                                       *)
THEOREM NobodyBlinks == Spec => []NoBlink
<1>1. SInv => NoBlink
  <2> SUFFICES ASSUME SInv, NEW n \in Nodes, NEW now \in Asked, NEW u \in steady[n]
               PROVE  Shown(zset, Users, now)[u]
    BY DEF NoBlink
  <2>1. now \in Int /\ clock \in Int /\ now <= clock /\ u \in Users
    BY Typed, Constants DEF SInv, Asked
  <2>2. /\ member(u, n) \in DOMAIN zset /\ zset[member(u, n)] >= Unix(Base(n))
        /\ Unix(Base(n)) > Cutoff(clock) /\ Unix(Base(n)) \in Int
        /\ zset[member(u, n)] \in Int
    BY SteadyIsFresh, BaseIs, Seconds, Typed DEF SInv, Counted
  <2>3. Cutoff(now) <= Cutoff(clock) /\ Cutoff(now) \in Int /\ Cutoff(clock) \in Int
    BY <2>1, Seconds, Cutoffs, Constants
  <2>4. zset[member(u, n)] > Cutoff(now)
    BY <2>2, <2>3
  <2>5. parseMember(member(u, n)) = u
    BY DEF parseMember, member
  <2>6. u \in Online(zset, Users, now)
    BY <2>1, <2>2, <2>4, <2>5 DEF Online, Newer
  <2> QED
    BY <2>1, <2>6 DEF Shown
<1> QED
  BY <1>1, StoreInvariant, PTL

(* store.go:20-22, 32-34: no ghosts, however a node went away and whatever *)
(* of it was still on its way to Redis.                                    *)
THEOREM GhostsLeave == Spec => []NoGhost
<1>1. SInv => NoGhost
  <2> SUFFICES ASSUME SInv, NEW now \in Asked, NEW u \in Users,
                      Shown(zset, Users, now)[u], ~ Here(u, sockets)
               PROVE  clock - left[u] < TTL * TicksPerSecond + BeatTimeout + AskTimeout
    BY DEF NoGhost
  <2>1. /\ clock \in Int /\ now \in Int /\ now >= clock - AskTimeout /\ left[u] \in Nat
        /\ AskTimeout \in Nat /\ BeatTimeout \in Nat
        /\ TTL * TicksPerSecond \in Int
    <3>1. \A x, y \in Nat : x * y \in Int
      OBVIOUS
    <3> QED
      BY <3>1, Typed, Constants DEF SInv, Asked
  <2>2. PICK m \in DOMAIN zset : m[1] = u /\ zset[m] > Cutoff(now)
    BY DEF Shown, Online, Newer, parseMember
  <2>3. PICK n \in Nodes : m = member(u, n)
    BY <2>2 DEF SInv, TypeOK, member
  <2>4. zset[m] <= Unix(left[u] + BeatTimeout) /\ zset[m] \in Int
    BY <2>2, <2>3, Typed DEF SInv, Absent
  <2>5. /\ Cutoff(now) = Unix(now - TTL * TicksPerSecond)
        /\ now - TTL * TicksPerSecond \in Int /\ left[u] + BeatTimeout \in Int
        /\ Unix(now - TTL * TicksPerSecond) \in Int /\ Unix(left[u] + BeatTimeout) \in Int
    BY <2>1, Seconds DEF Cutoff
  <2>6. Unix(left[u] + BeatTimeout) > Unix(now - TTL * TicksPerSecond)
    BY <2>2, <2>4, <2>5
  <2>7. left[u] + BeatTimeout > now - TTL * TicksPerSecond
    BY <2>5, <2>6, Seconds
  <2> QED
    BY <2>1, <2>7
<1> QED
  BY <1>1, StoreInvariant, PTL

(* store.go:147-148: no write to Redis, late ones included, takes anyone   *)
(* out of what a question asked now would answer.                          *)
THEOREM PruningIsInvisible == Spec => PruneInvisible
<1>1. SInv /\ [Next]_vars =>
        [zset' # zset => Online(zset, Users, clock) \subseteq Online(zset', Users, clock)]_vars
  <2> SUFFICES ASSUME SInv, Next, zset' # zset
               PROVE  Online(zset, Users, clock) \subseteq Online(zset', Users, clock)
    OBVIOUS
  <2>1. CASE \E n \in Nodes : Answered(n)
    BY <2>1, AnsweredStep
  <2>2. CASE \E w \in late : LateExec(w)
    BY <2>2, LateStep
  <2> QED
    BY <2>1, <2>2 DEF Next, Pass, Connect, Leave, NodeDies, Tick, HandlerStarts, Retry,
       BeatFails
<1> QED
  BY <1>1, StoreInvariant, PTL DEF Spec, PruneInvisible
=============================================================================
