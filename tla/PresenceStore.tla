--------------------------- MODULE PresenceStore ---------------------------
(***************************************************************************)
(* Who is online: the sorted set of internal/presence/store.go behind      *)
(* service.go, the heartbeats the API nodes send (server.go: runPresence,  *)
(* client.go: Heartbeat) and the page that asks (server/presence.go).      *)
(*                                                                         *)
(* Time matters here.  The clock counts ticks, TicksPerSecond of them to a *)
(* second; scores and cutoffs are whole seconds, as Unix() rounds them.  A *)
(* ticker fires on time and a call ends by its deadline, so the clock does *)
(* not pass either.  A handler reads the clock, and Redis executes its     *)
(* commands at some later moment, even after the caller has given up.      *)
(*                                                                         *)
(* Redis or the service being down is any step of a call not happening     *)
(* before its deadline.  A question changes nothing, so it has no action:  *)
(* the properties ask at every moment.  Left out: validation of requests   *)
(* (both callers send valid ones), the breaker, which only makes calls     *)
(* fail (see PresenceClient), metrics and traces.                          *)
(***************************************************************************)
EXTENDS Integers

CONSTANTS
    Users, Nodes,
    TicksPerSecond,
    TTL,           \* TTL, in seconds
    Beat,          \* Heartbeat, in ticks
    BeatTimeout,   \* heartbeatTimeout, in ticks
    AskTimeout,    \* onlineTimeout, in ticks
    Linger,        \* how long a command outlives its caller, in ticks
    MaxTime,       \* bound: the clock stops here
    MaxMoves       \* bound: sockets opened or closed, nodes killed

ASSUME StoreAssumption ==
    /\ TicksPerSecond \in Nat \ {0} /\ TTL \in Nat /\ Beat \in Nat \ {0}
    /\ BeatTimeout \in Nat /\ AskTimeout \in Nat /\ Linger \in Nat
    /\ MaxTime \in Nat /\ MaxMoves \in Nat

\* "Three refreshes fit inside one TTL": two of them, the deadline of a third
\* and the second that rounding takes do; and what a call that was given up
\* left on its way to Redis is there before the next beat.
ASSUME BeatAssumption ==
    /\ 2 * Beat + BeatTimeout <= (TTL - 1) * TicksPerSecond
    /\ BeatTimeout + Linger < Beat

VARIABLES
    clock,
    zset,       \* chat:presence: a member <<user, node>> -> its score
    sockets,    \* the users with a socket on each node (external: the hub)
    alive,      \* the nodes that run
    next,       \* when each node's ticker fires
    call,       \* the Heartbeat call of each node
    late,       \* pipelines on their way to Redis, their caller gone
    moves,      \* sockets opened and closed and nodes killed so far
    steady,     \* history: users a successful beat counted, connected since,
                \* whose node has not failed twice since
    missed,     \* history: the node of a steady user failed once
    left        \* history: when a user's last socket went

nodeVars == <<sockets, alive, next, call, late, moves, steady, missed, left>>
vars == <<clock, zset, nodeVars>>

Idle == [stage |-> "idle", users |-> {}, now |-> 0]

\* time.Time.Unix of a moment.
Unix(t) == t \div TicksPerSecond

\* formatScore(now.Add(-TTL)).
Cutoff(t) == Unix(t - TTL * TicksPerSecond)

Here(u, sock) == \E n \in Nodes : u \in sock[n]

\* A call is made when the ticker fires.
Deadline(n) == next[n] - Beat + BeatTimeout

Init ==
    /\ clock = 0
    /\ zset = [m \in {} |-> 0]
    /\ sockets = [n \in Nodes |-> {}]
    /\ alive = [n \in Nodes |-> TRUE]
    /\ next \in [Nodes -> 1..Beat]
    /\ call = [n \in Nodes |-> Idle]
    /\ late = {}
    /\ moves = 0
    /\ steady = [n \in Nodes |-> {}]
    /\ missed = [n \in Nodes |-> FALSE]
    /\ left = [u \in Users |-> 0]

----------------------------------------------------------------------------
(***************************************************************************)
(* Time, sockets and nodes.                                                *)
(***************************************************************************)

Overdue ==
    \/ \E n \in Nodes :
          IF call[n] = Idle THEN alive[n] /\ next[n] <= clock
                           ELSE Deadline(n) <= clock
    \/ \E w \in late : w.by <= clock

Pass ==
    /\ clock < MaxTime
    /\ ~ Overdue
    /\ clock' = clock + 1
    /\ UNCHANGED <<zset, nodeVars>>

Move == moves < MaxMoves /\ moves' = moves + 1

Connect(u, n) ==
    /\ alive[n]
    /\ u \notin sockets[n]
    /\ sockets' = [sockets EXCEPT ![n] = @ \cup {u}]
    /\ left' = [left EXCEPT ![u] = 0]
    /\ Move
    /\ UNCHANGED <<clock, zset, alive, next, call, late, steady, missed>>

\* The users are gone from node n; who has no other socket is absent from now.
Gone(users, n) ==
    /\ sockets' = [sockets EXCEPT ![n] = @ \ users]
    /\ steady' = [steady EXCEPT ![n] = @ \ users]
    /\ missed' = [missed EXCEPT ![n] = @ /\ steady'[n] # {}]
    /\ left' = [u \in Users |->
                  IF u \in users /\ ~ Here(u, sockets') THEN clock ELSE left[u]]

Leave(u, n) ==
    /\ u \in sockets[n]
    /\ Gone({u}, n)
    /\ Move
    /\ UNCHANGED <<clock, zset, alive, next, call, late>>

\* What an attempt leaves behind when it ends: its handler goes on, or the Redis
\* client gave up on a connection and sent the pipeline on another.  The
\* pipeline is lost, or reaches Redis later.
CallEnds(n) ==
    \/ UNCHANGED late
    \/ /\ call[n].stage = "stamped"
       /\ late' = late \cup {[users |-> call[n].users, node |-> n,
                             now |-> call[n].now, by |-> clock + Linger]}

\* kill -9: no goodbye.
NodeDies(n) ==
    /\ alive[n]
    /\ alive' = [alive EXCEPT ![n] = FALSE]
    /\ Gone(sockets[n], n)
    /\ Move
    /\ CallEnds(n)
    /\ call' = [call EXCEPT ![n] = Idle]
    /\ UNCHANGED <<clock, zset, next>>

----------------------------------------------------------------------------
(***************************************************************************)
(* A heartbeat: the node's ticker and snapshot, the handler's clock, the   *)
(* pipeline in Redis and the answer.  Client.call tries again until its    *)
(* deadline, and reports a failure when that passes.                       *)
(***************************************************************************)

BeatRest == <<clock, sockets, alive, moves, left>>

TickNotRearmed(n) ==                                             \* mutant
    /\ alive[n]
    /\ call[n] = Idle
    /\ next[n] <= clock
    /\ next' = next
    /\ call' = [call EXCEPT ![n] = [stage |-> "sent", users |-> sockets[n],
                                    now |-> 0]]
    /\ UNCHANGED <<BeatRest, zset, late, steady, missed>>

Tick(n) ==
    /\ alive[n]
    /\ call[n] = Idle
    /\ next[n] <= clock
    /\ next' = [next EXCEPT ![n] = @ + Beat]
    /\ call' = [call EXCEPT ![n] = [stage |-> "sent", users |-> sockets[n],
                                    now |-> 0]]
    /\ UNCHANGED <<BeatRest, zset, late, steady, missed>>

HandlerStarts(n) ==
    /\ call[n].stage = "sent"
    /\ call' = [call EXCEPT ![n].stage = "stamped", ![n].now = clock]
    /\ UNCHANGED <<BeatRest, zset, next, late, steady, missed>>

\* "userID:nodeID", read back up to the first colon: a node id may hold more
\* of them, a user id holds none, so no two pairs share a string.
member(u, n) == <<u, n>>
parseMember(m) == m[1]

AddedAlone(z, n, users, now) ==                                  \* mutant
    [m \in {member(u, n) : u \in users} |-> Unix(now)]

\* The ZADDs of one call.
Added(z, n, users, now) ==
    LET new == {member(u, n) : u \in users}
    IN  [m \in DOMAIN z \cup new |-> IF m \in new THEN Unix(now) ELSE z[m]]

PrunedEarly(z, now) ==                                           \* mutant
    [m \in {k \in DOMAIN z : z[k] >= Cutoff(now) + TTL} |-> z[m]]

\* ZREMRANGEBYSCORE -inf (cutoff.
Pruned(z, now) ==
    [m \in {k \in DOMAIN z : z[k] >= Cutoff(now)} |-> z[m]]

Heartbeat(z, n, users, now) == Pruned(Added(z, n, users, now), now)

Answered(n) ==
    /\ call[n].stage = "stamped"
    /\ zset' = Heartbeat(zset, n, call[n].users, call[n].now)
    /\ call' = [call EXCEPT ![n] = Idle]
    /\ steady' = [steady EXCEPT ![n] = call[n].users \cap sockets[n]]
    /\ missed' = [missed EXCEPT ![n] = FALSE]
    /\ CallEnds(n)
    /\ UNCHANGED <<BeatRest, next>>

\* Unavailable: the next attempt sends the same users.
Retry(n) ==
    /\ call[n].stage = "stamped"
    /\ CallEnds(n)
    /\ call' = [call EXCEPT ![n].stage = "sent", ![n].now = 0]
    /\ UNCHANGED <<BeatRest, zset, next, steady, missed>>

BeatFails(n) ==
    /\ call[n] # Idle
    /\ CallEnds(n)
    /\ call' = [call EXCEPT ![n] = Idle]
    /\ steady' = [steady EXCEPT ![n] = IF missed[n] THEN {} ELSE @]
    /\ missed' = [missed EXCEPT ![n] = ~ @ /\ steady[n] # {}]
    /\ UNCHANGED <<BeatRest, zset, next>>

\* It may have been sent more than once.
LateExec(w) ==
    /\ zset' = Heartbeat(zset, w.node, w.users, w.now)
    /\ late' \in {late, late \ {w}}
    /\ UNCHANGED <<BeatRest, next, call, steady, missed>>

----------------------------------------------------------------------------
(***************************************************************************)
(* A page asks who is online: PresenceHandler, Client.Online, Store.Online.*)
(* The cutoff is taken when a handler starts; Redis reads later.  The page *)
(* is told this, or 503: never an empty list because nobody answered.      *)
(***************************************************************************)

NewerInclusive(z, cutoff) == {m \in DOMAIN z : z[m] >= cutoff - 1} \* mutant

\* ZRANGEBYSCORE (cutoff +inf.
Newer(z, cutoff) == {m \in DOMAIN z : z[m] > cutoff}

\* Store.Online: a user on two nodes appears twice and is counted once.
Online(z, asked, now) == {parseMember(m) : m \in Newer(z, Cutoff(now))} \cap asked

\* Client.Online: an entry for every user asked about.
Shown(z, asked, now) == [u \in asked |-> u \in Online(z, asked, now)]

----------------------------------------------------------------------------

Next ==
    \/ Pass
    \/ \E n \in Nodes :
          \/ \E u \in Users : Connect(u, n) \/ Leave(u, n)
          \/ NodeDies(n)
          \/ Tick(n) \/ HandlerStarts(n)
          \/ Answered(n) \/ Retry(n) \/ BeatFails(n)
    \/ \E w \in late : LateExec(w)

Spec == Init /\ [][Next]_vars

----------------------------------------------------------------------------
(***************************************************************************)
(* Properties.                                                             *)
(***************************************************************************)

\* Every variable keeps its type, no timer is in the past, and no score is in
\* the future.
TypeOK ==
    /\ clock \in 0..MaxTime
    /\ DOMAIN zset \subseteq Users \X Nodes
    /\ zset \in [DOMAIN zset -> 0..Unix(clock)]
    /\ sockets \in [Nodes -> SUBSET Users]
    /\ alive \in [Nodes -> BOOLEAN]
    /\ next \in [Nodes -> Nat]
    /\ call \in [Nodes -> [stage : {"idle", "sent", "stamped"},
                           users : SUBSET Users, now : Nat]]
    /\ \A n \in Nodes :
          /\ alive[n] => next[n] \in clock..(clock + Beat)
          /\ call[n].now <= clock
          /\ call[n].stage = "idle" => call[n] = Idle
          /\ call[n] # Idle => alive[n] /\ clock <= Deadline(n)
    /\ late \subseteq [users : SUBSET Users, node : Nodes, now : Nat, by : Nat]
    /\ \A w \in late : w.now <= clock /\ clock <= w.by
    /\ moves \in 0..MaxMoves
    /\ steady \in [Nodes -> SUBSET Users] /\ missed \in [Nodes -> BOOLEAN]
    /\ left \in [Users -> 0..MaxTime]

\* The clocks a question that Redis reads now may have been stamped with.
Asked == (clock - AskTimeout)..clock

\* store.go:56-58: one lost or slow heartbeat makes nobody blink offline.  A
\* user whom a node counted in a beat that succeeded, who kept the socket, is
\* in the answer of every Online until that node has failed twice in a row:
\* whatever the other nodes write or prune, and whatever pipeline arrives late.
NoBlink ==
    \A n \in Nodes, now \in Asked : \A u \in steady[n] : Shown(zset, Users, now)[u]

\* store.go:20-22, 32-34: no ghosts.  A user without a socket for the TTL and
\* the deadlines of one beat and one question is in no answer, whether the
\* node said goodbye or died, and whatever was still on its way to Redis.
NoGhost ==
    \A now \in Asked, u \in Users : Shown(zset, Users, now)[u] =>
        \/ Here(u, sockets)
        \/ clock - left[u] < TTL * TicksPerSecond + BeatTimeout + AskTimeout

\* store.go:147-148: pruning "is about memory, not correctness".  No write of
\* a heartbeat, late ones included, takes anyone out of what a question asked
\* now would answer.
PruneInvisible ==
    [][zset' # zset => Online(zset, Users, clock)
                         \subseteq Online(zset', Users, clock)]_vars

=============================================================================
