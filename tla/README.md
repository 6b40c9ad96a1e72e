# go-chat-backend: specifications and proofs

TLA+ modules for the chat backend in `src/`: a message from the HTTP handler
that stores it to the broker, to the sockets of the room's members, to their
unread badges and to the dead letters; the life of one API node from `New` to
`Shutdown` with its WebSocket hub; presence from the heartbeat to the page that
shows who is online; and the public door, the rate limiter and the sessions.
TLC checks the modules on small instances; TLAPS proves for every value of the
constants each safety property that holds on them, and that the detailed
modules implement the abstract ones. `PROJECT.json` lists the runs, the mutants
that show each property can fail, the source lines behind every definition, the
hazards of the code and the theorems.

To repeat a result: `tlc -config MCOutbox_safety.cfg MCOutbox.tla` for a run,
`tlapm Outbox_proofs.tla` for a module of proofs.

## 1. The system

A cluster of identical API nodes (`cmd/api`) shares Postgres, NATS JetStream
and a presence service (`cmd/presenced`, over Redis).

```
 client --HTTP--> limiter, sessions --> CreateMessage --tx--> messages + outbox
   ^                                         |  relay: one leader by advisory lock
   | GET ?after_seq= repairs holes           v
   |                          stream CHAT, or LocalPublisher without NATS
   |                 fan-out: every node  |  unread: one shared consumer
   |                          v           v
   +------- sockets <------- hub      ApplyUnread -> inbox + counters
                              |           | after 5 tries
            users of the node |           v
                              |       stream CHAT_DLQ
                              v
               heartbeat -> Client + breaker --gRPC--> presenced -> Redis
```

| Component | State | Operations | What is hard | What makes it correct |
| --- | --- | --- | --- | --- |
| message store, `database/conversations.go` | messages, `last_seq`, unique `client_msg_id` | `CreateMessage`, paged reads | concurrent transactions, rollbacks, retries after a lost reply | rooms numbered 1, 2, ... with no hole; one message per `client_msg_id` |
| outbox and relay, `database/outbox.go`, `outbox/relay.go` | outbox rows, advisory lock, the batch in a relay's hands | `TryOutboxLock`, `Drain`, `MarkOutboxPublished`, `clean` | a crash between publish and mark, lost and late publishes, a lock session that ends under a live leader | no stored message is forgotten; rooms are published in order; the outbox drains |
| broker, `broker/broker.go` | streams CHAT and CHAT_DLQ, duplicate window | `Publish`, `FromEnv`, `setupStreams` | no acknowledgement is no knowledge; NATS down at startup | an acknowledged row is on the stream |
| unread consumer, `broker/consume.go` | deliveries and their count, per-node queues | `ConsumeUnread`, `handleUnread`, `deadLetter` | redelivery while the first copy is handled, lost acks, the last delivery, a consumer that cannot be made | nothing is settled before it is counted or kept |
| counters and inbox, `database/unread.go` | `unread_counters`, `consumed_messages` | `ApplyUnread`, `MarkConversationRead`, `DeleteConsumedBefore` | counting twice, forgetting a claim too early, reading while counting | each message counted at most once, at one moment |
| live delivery, `consume.go` `SubscribeFanout`, `outbox/local.go`, `server/ws.go`, and the clients `web/index.html`, `cmd/gapcheck` | a fan-out consumer per node, the mode chosen at startup, what is on screen | `deliverMessage`, `LocalPublisher.Publish`, `listGap`, `repairGap`, `fillFromGap` | restarts, nodes in different modes, entries sent once and lost with a connection, consumers the broker drops, pages read while messages arrive | a hole on screen has a known cause, and a read from below it brings everything |
| hub, `ws/hub.go`, `ws/client.go` | sockets per user, send buffers | `Add`, `Broadcast`, `UserIDs`, `Close`, the pumps | one goroutine and many channels, full buffers, expiry | no channel closed twice, a kept socket has every frame, nobody blocked after `Close` |
| lifecycle, `server/server.go`, `health.go` | background goroutines, draining flag | `New`, `startBackground`, `Shutdown`, `/readyz` | the order in which things close, callbacks nobody waits for | nothing used after it is closed, and the shutdown ends |
| presence service, `presence/store.go`, `service.go` | Redis sorted set of user and node | `Heartbeat`, `Online` | several nodes, whole-second cutoffs, commands that arrive late | online while a node has a socket, offline soon after the TTL |
| presence client, `presence/client.go`, `breaker.go` | circuit state, failure count, the probe flag | `call`, `allow`, `success`, `failure` | calls that end in another order than they began, cancelled callers | one probe at a time; recovery without help |
| sessions, `server/refresh.go`, `auth.go`, `database/refresh_tokens.go` | refresh tokens, JWTs, cookie jars | register, login, refresh, logout, purge | refresh racing logout, a purge racing live sessions | a revoked session is worth nothing soon after; a live one survives |
| rate limiter, `server/ratelimit.go` | buckets per key | `allow`, `sweep` | clock read before the lock, sweeping | never more than burst + rate * time; Retry-After is enough |

## 2. Modules

| Module | Models | Kind |
| --- | --- | --- |
| `ChatLog` | what the message path promises: a log per room, announced in order | abstract specification |
| `Outbox` | `CreateMessage`, outbox table, relays, stream | detailed |
| `OutboxInvariant` | the inductive invariant of `Outbox`, in named parts | invariant |
| `Badges` | what the unread badges promise | abstract specification |
| `UnreadConsumer` | `handleUnread`, `deadLetter`, `ApplyUnread`, inbox, janitor | detailed |
| `Delivery` | both publishers, fan-out consumers, one member's client and its repairs | detailed |
| `Hub` | the hub goroutine, the pumps of every socket, the callers of the hub | detailed |
| `Node` | `Hub` inside a node: startup, background goroutines, requests, `Shutdown` | composition; extends and implements `Hub` |
| `PresenceStore` | heartbeats of several nodes, the sorted set, every question | detailed |
| `PresenceClient` | breaker and `Client.call` with many callers | detailed |
| `Gate` | the limiter and, behind it, the session handlers | composition |
| `MCOutbox`, `MCUnread`, `MCDelivery`, `MCNode`, `MCPresenceStore`, `MCPresence`, `MCGate` | instances for TLC | model checking |
| `Outbox_proofs` | theorems about `Outbox`, and that it implements `ChatLog` | proofs |
| `UnreadConsumer_proofs` | theorems about the consumer, and that it implements `Badges` | proofs |
| `Delivery_proofs`, `PresenceStore_proofs`, `PresenceClient_proofs`, `Gate_proofs` | theorems about those four | proofs |
| `Hub_proofs`, `Node_proofs` | theorems about the hub alone, and inside a node | proofs |

A module takes what is below it as another module shows it: `Delivery` takes
from `Outbox` that a room is numbered densely and published in order, and from
`Hub` that a registered socket gets a frame or is closed; `PresenceStore` takes
the users of a node from `Hub` (`MapIsExact`) and treats a refusal by the
breaker (`PresenceClient`) as a beat that fails.

### Outbox

One process per handler, per relay and for faults. A call of `CreateMessage`
is a handler that goes `idle - locked - inserted - reply`. `AllocateSeq` is
the `UPDATE ... RETURNING last_seq`; the row lock it takes lasts until the
transaction ends and is `rowLock`. `InsertRows` is the two inserts: the outbox
id comes from a sequence, so a rollback does not give it back and ids may
become visible out of order across rooms. `InsertDuplicate` and
`ReloadExisting` are the path of a repeated `client_msg_id`. `Abort` stands for
every error, cancelled request and crash before the commit; a reply that is
lost is `Reply` followed by another call with the same key.

A relay goes `follow - lead - drain - mark - lead`. `Fetch` reads the oldest
rows into `batch`, which is then local to the node; `PublishAcked` and
`PublishFails` take one row at a time in id order; `MarkPublished` and
`NothingMarked` end the `Drain`. `Release`, `Stop`, `Crash` and `Restart` are
the ends of `Run`. `SessionEnds` frees the advisory lock without the node
noticing, which the code permits: `runLeader` looks at its context only.

JetStream is external: `BrokerStores` drops an id inside the duplicate window,
`WindowPasses` ends the window, and `wire` holds publishes that timed out and
may still arrive. One record stands for a message and for its outbox row,
because the payload repeats every field of the message.

### UnreadConsumer

One room. A stream entry is a message and a copy number; a second copy exists
when the relay published a row again after the duplicate window. JetStream
delivers an entry at most `MaxDeliver` times to any node, and after an
`AckWait` or a Nak delivers it again while an older delivery may still sit in
another node's queue. A node takes deliveries in order and goes through
`Decode`, `Apply` or `ApplyFails`, `Ack`; or through `CopyToDeadLetters` or
`CopyFails`, `Term`. The answers Ack, Nak and Term may each be lost. An apply
that fails may have committed. A node whose `ConsumeUnread` could not make the
consumer is "off" until it is restarted. Time is a clock of coarse ticks
(hours), on which entries leave the stream after `StreamAge` and inbox rows may
be deleted after `InboxAge`.

### Delivery

One room and one member, because holes are per room and per socket. `Start` is
`FromEnv` and `New`: a node that finds NATS gets the mode "nats", any other
start is "local" for the life of the process. `SubscribeFanout` runs in a
goroutine beside sockets that are accepted already: `feed` says whether it is
still making its consumer, reads it, or ended (`Subscribe`, `SubscriptionEnds`).
The consumer itself, `fan`, is on the broker. It outlives the process, so a
restarted node finds it again by its name, unless nobody read it for five
minutes (`ConsumerExpires`), which also happens to a living node that cannot
reach NATS: then nothing makes another one and the node stays deaf. Acks are
off, so what the broker handed to a connection that breaks is passed over
(`EntryLost`); a connection that takes several entries with it is several such
steps. `FanOut` is the callback for an entry that arrived.

`PublishNats` and `PublishLocal` are the two publishers behind the relay,
`Deliver` what the hub makes of a frame (queued, dropped alone or with its
socket, not registered yet). The client has a socket, the set of seqs on
screen, a lower edge of loaded history and one repair, which `GapPage` advances
a page at a time with the limit `pageParams` makes of the query; `RepairGap`
starts above the highest seq (the web page), `FillFromGap` below the lowest
hole (gapcheck).

`excused` is history: seqs that were lost for one of the causes the property
`HolesHaveACause` names. All but two of them happen while the client's socket is
open: the hub dropped the frame or did not have the socket yet, the entry was
lost on the way to the node or with its consumer, or it was published where
this node does not read. The other two are a repair that began above the hole
and an envelope made before the client was in the room. What the property
excludes is a message that was lost because the client was away, between two
sockets or between its socket and its read. The lossy path itself is not
prevented by anything; what makes every such hole repairable is
`FillLosesNothing`.

### Hub and Node

One case of the select in `Run` is one step, because nothing in it blocks. The
unbuffered channels are rendezvous, taken together with their partner; a
goroutine that also selects on `done` may take either when both are ready. A
socket has `place` (the call of `Add`), `conn`, the buffer `send`, and its two
pumps `reader` and `writer`. `panicked` records a close of a closed channel or
a send on one. `due` and `got` are history: what `deliver` had for a socket,
and what its peer received.

`Node` extends `Hub` and adds the process around it. `Init` chooses one of the
four modes of `New`. Workers are the goroutines of `startBackground`;
`inCallback` are the consumers whose callback runs in the NATS client, which
nobody waits for: the one of `SubscribeFanout` may broadcast into a hub that is
closing, the one of `ConsumeUnread` may find the pool closed; its context is
cancelled by then, the apply fails and the entry is delivered again
(`UnreadConsumer`). `Shutdown` goes through the flag, `HTTP.Shutdown` with its
time limit (`late`), `stopBackground` and its wait, the hub, the broker, the
pool. A request may start until `HTTP.Shutdown` has returned, on a connection
accepted before it closed the listener, and later when it gave up on one
(`Serving`). Hijacked sockets are not among the requests it waits for. The
hub's actions appear in `Node` only inside the processes that cause them.

### PresenceStore

The clock counts ticks, several to a second; scores and cutoffs are whole
seconds, as `Unix()` rounds them. A ticker fires on time and a call ends by its
deadline; the service stamps a call when its handler starts, and Redis executes
the pipeline any time until the deadline, or up to `Linger` after the attempt
ended. `late` holds every pipeline that is still on its way when its attempt is
over, of any node and of any retry, answered calls included (the Redis client
sends a pipeline again when a connection fails); it may run more than once.
Questions are not actions: `NoBlink` and `NoGhost` quantify over every stamp a question answered now can have.

### PresenceClient

The breaker's four fields and, for each caller, one `call`: the attempt it is
in, its age against its own deadline, and whether its caller went away. Every
breaker method runs under its mutex, so it is one step. The clock counts up
to `OpenFor` only. The service is up or down, also when the client is made
(`FromEnv` waits for nothing); an attempt fails only if the service was down
during it, with one of the codes that `retryable` and `answered` tell apart.

### Gate

A request goes through `Decide` (the limiter) to the handler of its operation.
It is cut where another request can come between: after the limiter reads the
clock, and after each statement. A request is descheduled for at most `Stall`
ticks between reading a clock and using it. Tokens are counted in units of a
tick's refill, so there are no fractions. `rows` is the table, `jar` the cookie
of each browser, and a response may be lost on its way to the jar. `debt`,
`promise` and `session` are history, kept on the true clock: what was let
through less what the rate allows, when a refused caller was told to come back,
and of each session its end, its logout and its last access token.

## 3. Runs

All bounds are CONSTANTS named in the modules' headers.

| Run | Question | Instance and why it is enough |
| --- | --- | --- |
| `safety` | numbering, `client_msg_id`, order on the stream, and the invariant of the proofs | 2 calls at once with one key and 3 outbox ids, so that a duplicate, a rollback and a retry overlap; 2 relays that both lead after a lost session; a row may be stored twice |
| `log` | refinement of `ChatLog`, nothing forgotten, the outbox drains | 2 relays, one crash or shutdown, any number of lost sessions, a batch of 1 with 2 rows waiting, sends repeated with their key |
| `onerelay` | "Only one node drains at a time" | violated, see section 6 |
| `consume` | nothing settled too early, every message ends counted or kept | 2 nodes, either of which may fail to join, one good and one unreadable message, MaxDeliver = 2 deliveries and failures |
| `ages` | refinement of `Badges` | 2 copies of a message, 2 nodes, a crash, members join and read, 3 ticks: entry and inbox row both expire |
| `gone` | "never silently gone" | violated, see section 6 |
| `delivery` | where holes on a screen can come from, and what a repair brings back | 2 nodes in any mixture of modes, 2 messages with pages of 1 and a requested limit of 2, one fault (a death, an entry or a consumer lost, a subscription that ends), one frame of buffer, a client that may join the room late, reconnects at will, opens the room again and sends |
| `node` | panics, the map, complete sockets, readiness, the order and the end of a shutdown | the four modes, 1 socket, 1 request and the heartbeat, 2 frames through buffers of 1, the signal at any moment. More sockets and requests are left to the theorems of section 4, which cover every safety property of this run |
| `window` | nobody blinks for one lost beat, no ghosts, pruning is invisible | a user on 2 nodes, 3 connects, disconnects or deaths, 2 ticks to a second, TTL 5 s, a beat every 3 ticks, deadlines of 1 tick and any number of pipelines up to 1 tick late, 14 ticks: longer than a TTL and a beat after the last move |
| `breaker` | one probe, count, wait, recovery | 3 callers, one with a deadline of OpenFor, threshold 2, one cancelled call |
| `cancelled` | recovery with a cancelled probe | 2 callers, violated, see section 6 |
| `gate` | the limit, Retry-After, logout, the life of a cookie | 2 requests at once from one browser, a burst of 2 tokens with half a token a tick, 2 sessions, 5 ticks: a sweep, a refill, both kinds of expiry and a stall of one tick all fit |

`window` has the proportions of the code where they matter, which are
`BeatAssumption`. With the defaults (TTL 30 s, a beat every 10 s with a deadline
of 5 s) two beat intervals, a deadline and a second of rounding fit into the
TTL, and a late pipeline is over before the next beat. In the run they barely
fit: with a TTL of 4 s the assumption and `NoBlink` both fail.

The message path is checked with one room; that rooms do not disturb each
other, although their ids interleave in one outbox, is part of the theorems,
which hold for any set of rooms.

Symmetry (of nodes or of requests) is used in `safety`, `delivery`, `window` and
`gate` only, which check invariants and, in `window`, an action property that
names no node. Deadlock is checked for the presence client,
which never stops, and for the node, whose exit is an explicit last step. The
others may stop with nothing left to do at their bounds.

Each property has a mutant of the code that breaks it: a dropped unique index,
an increment kept after a rollback, a fetch without ORDER BY, a row marked
before it is acknowledged, an inbox kept no longer than the stream, a Term
after a failed copy, a probe that is not exclusive, a hub that drops a frame
instead of the socket, a shutdown that closes in another order, a cutoff off by
one second, a cursor off by one seq, a purge with its condition flipped, and so
on. They stand next to the definitions they mutate.

### Fairness

* `Outbox`: a relay's own steps are weakly fair (`Run` is a loop). Publishing
  and marking are strongly fair: tried again and again, one attempt works,
  which is to say the broker and the database are not down for ever. Restart
  is weakly fair (an orchestrator restarts the process), and so is the end of
  a dead node's session (Postgres notices a closed connection). Nothing is
  assumed about handlers, about a live leader's session, or about late
  publishes. Crashes and shutdowns are bounded by `MaxStops`.
* `UnreadConsumer`: JetStream delivers what it can deliver and its `AckWait`
  timers run; a callback that was entered returns, because every call it makes
  has a deadline. Failures are bounded by `MaxFailures`. `Settles` says nothing
  of a cluster in which no node could join the consumer.
* `Node`: the steps of `Shutdown` are weakly fair (each waits with a limit or
  for goroutines that end). `closeAll` and the end of a background goroutine
  are strongly fair: each is a ready case of a select that other cases compete
  with, and Go chooses among ready cases at random. A publish or a beat that
  began ends, because it has a deadline. The pumps of a socket are weakly fair.
  Nothing is assumed about requests or callbacks.
* `PresenceClient`: time passes, a call ends (it has a deadline), and callers
  go on asking (the heartbeat ticker does).

## 4. Theorems

Every invariant and every action property of a run that passes is stated by a
theorem, and so are both refinements. What is not is in section 5.

Assumptions are the ASSUMEs of the modules and nothing else; TLC evaluates them
in every run. Most say that constants have their types, that `NoKey` is not a
key and `Nobody` no node or handler, that a node has finitely many sockets and
buffers of at least one. Those that say more:

* `PresenceClient`: no caller has a deadline longer than `OpenFor`
  (`heartbeatTimeout` is exactly that long, `client.go:50` and `:77`).
* `BeatAssumption` of `PresenceStore`: `2 * Beat + BeatTimeout` is at most the
  TTL less a second (20 s + 5 s and 29 s by default, `store.go:52-63`,
  `client.go:47-50`), and a pipeline whose caller gave up is over before the
  next beat. The second half is about Redis: what was given up runs
  within five seconds.
* `RetentionAssumption` of `UnreadConsumer`: `RepublishAge + StreamAge` is at
  most `InboxAge` (24 h and 48 h, `broker.go:112`, `relay.go:127`). It rests on
  the deployment: a relay that cannot stamp a row for more than a day, and then
  publishes it again, has it counted twice.
* `GateAssumption`: a burst of at least one token (section 6). That a request
  is descheduled for at most `Stall` ticks between reading a clock and using
  it is in the actions; the theorems hold for every `Stall`.

**Message path.** `IInv` is the inductive invariant, in three layers.

1. `LockHeld`, `RowsFresh`: a transaction that has its seq holds the row of its
   room, so that seq is still the next one, its outbox id is above every
   committed id of the room, and its key is new.
2. `IdsFollowSeq`, `SeqGapFree`, `RepliesHold`: hence committed messages are
   numbered densely, and outbox ids grow with seq inside a room. This is what
   makes `ORDER BY id` the order of a room, although ids are not in commit
   order across rooms; the row lock is what it rests on.
3. `RowsCommitted`, `AcksTrue`, `NoRowAhead`: hence a batch of the oldest rows
   contains, with a row, every earlier unpublished row of its room, and a loop
   that stops at a failure never sends a row ahead of an earlier one. The
   argument mentions no lock, so it holds for any number of relays that all
   believe they lead.

`GapFree`, `RepliesCorrect`, `NoMessageForgotten` and `FirstCopiesInOrder`
follow. Neither of the last two is inductive: `NothingForgotten` needs
`AcksTrue` (what is marked was stored), `FirstCopyOrder` needs `NoRowAhead`.

`PathIsALog` is the refinement of `ChatLog`. The log of a room at a number is
the post of the one message that has the number (`LogReads`, from
`SeqGapFree`). `Commit` is `AppendPost`: its seq is the next one, and the post
is not in the log because its key is new (`RowsFresh`). A copy that the broker
stores is `Announce` if it is the first: every earlier message of the room is on
the stream (`NoRowAhead` and `IdsFollowSeq`) and no later one is. A second copy
and every other step stutter.

**Unread consumer.** `ConsumerTypes`, and `SettledWell`: an acked entry's
message was counted and a termed entry was copied. It needs `InHand` (a
callback about to ack has counted, one about to Term has copied) and
`InboxCounted` (a conflicting claim means the message was counted), because an
answer settles the entry whichever delivery it belongs to.

`ConsumerIsBadges` is the refinement of `Badges`. The step that could break it
is an apply of a message whose inbox row the janitor deleted, so the invariant
is about age: every copy was stored within `RepublishAge` of the first
(`CopiesAge`), a delivery in a node's hands is of an entry the stream still has
(`HeldFresh`), a claim is not older than the first copy (`RowsAge`), and a
counted message is claimed or over, which means that no copy of it can be
delivered again (`ForgottenLate`). Hence who applies an unclaimed message
counts it for the first time.

**Hub and node.** `HubInv` is inductive for the hub alone, for any number of
sockets, users, callers and frames and any size of the buffers: `HubTypeOK`,
`NoPanic`, `MapIsExact`, `KeptMeansComplete`, and two parts these need. `Fresh`
says that a socket that was never added has an empty, open channel and no
frames due; `HandsFree` says that a writer holds a payload only while it writes
it, so that what the peer got, what is in hand and what is buffered are
together what was due. `NodeImplementsHub` shows that every step of a node is a
step of its hub or leaves it alone, so `NodeNeverPanics`, `NodeMapIsExact` and
`NodeKeepsWhole` are the hub's theorems inside a node. `NodeInv` adds `Order`
(what each stage of `Shutdown` has already closed) and `Quiet` (a goroutine
ends only when it was told to, all have ended when the hub is closed, and a
request that still runs by then was given up on), from which
`ReadyIsTrue`, `NothingClosedIsUsed` and `RelayStopsLast` follow.

**Presence client.** `ClientTypes`, and `SingleProbe`, `CountsToThreshold` and
`WaitsOut` from one invariant that relates the age of every call to the age of
the open circuit. It also shows that `probing` and half-open are the same
thing, so the branch of `allow` that starts a probe in the half-open state
(`breaker.go:119`) is never taken.

**Live delivery.** Several faults together are left to the theorems, which
bound them by nothing. `DInv` is `TypeOK`, `PagesLeaveNoHole` and two parts.
`BelowBase`: what a repair starts above is on screen, or was excused when the
repair is the page's, which does not ask for it. `Watched`: from the end of a
repair on, each committed message above the lower edge is on screen, excused,
on its way to the socket, or in the stream or the outbox at a place from which
a frame will still be made. `HolesHaveACause` alone says less (a row that is
pending again after it was published brings no second frame), and a cut, a
death, a dropped frame, an entry that is passed over and a consumer that ends
must each be followed to the excuse it leaves. What a node has not read counts
as coming only while the node can still read it (`Deaf`).
`PagesAreWhole` covers every page size and limit; `FillIsComplete` and
`HolesAreExplained` follow from the invariant.

**Presence service.** `SInv` ties the scores to the timers. `Counted`: whom a
node counted is in Redis with a score of at least the second of the last beat
that succeeded, which the timer and the beats missed since determine.
`LateInTime`: a pipeline its caller gave up on arrives before the next beat, so
it never writes an old score over a newer one. `Absent`: what was written, or
is still to be written, for a user with no socket is of a beat before the user
left. `NobodyBlinks`, `GhostsLeave` and `PruningIsInvisible` are then arithmetic
with whole seconds and the exclusive cutoff.

**Limiter and sessions.** `GInv` has three parts, about the buckets, the requests
and the tables. A bucket is measured on the true clock and without its cap
(`LevelAt`): callers read clocks that are up to `Stall` late, so a bucket may be
in debt to a late clock and never to the true one (`NoTrueDebt`). What was let
through above the rate was taken out of the bucket, or the bucket was swept
when it had refilled but for a stall (`Owed`); at the moment a refused caller
was told there is a token (`Promised`). `Carries` says what a request knows: a
refresh that read its session read it before any logout. So a token is at most
one lifetime and a stall ahead of the logout (`Minted`), and a row is revoked
exactly by a logout and gone only when dead (`RowsTrue`). `LimitHolds`,
`RetryAfterIsEnough`, `LogoutEnds` and `CookiesStayGood` follow.

## 5. Model-checked only

* Liveness: `OutboxDrains`, `Settles`, `RecoversIfProbeStays`, `ShutdownEnds`
  and `NoSocketLingers`. They need fairness and ENABLED, which the prover does
  not reason about.
* The three properties of the runs that end in a violation are false and
  section 6 is about them.
* What a module takes from another one in words only (section 2) is not a
  refinement: that the stream of `Delivery` is what `Outbox` shows of it, and
  that the node of `PresenceStore` is the `Hub`. Their statements are theorems of
  the module below.

## 6. Disagreements between the code and its documentation

Three have a run of their own:

* `onerelay`: `TakeLock` on one node, its session ends, `TakeLock` on another:
  both drain. `server.go:253` says only one does. `relay.go:30-32` and
  `outbox.go:94-95` say why there is one: two relays "would publish seq 5
  before seq 4". They would not: `FirstCopyOrder` is checked with two leaders
  and proved for any number, because every leader works on a batch of the
  oldest rows in id order and stops at the first failure (section 4). Order and
  delivery do not depend on the lock, the metric and the comments do. What two
  leaders cost is second copies.
* `gone`: when the publish to `CHAT_DLQ` fails at the last delivery,
  `consume.go:322` Naks, and JetStream has no delivery left. The comment above
  the function promises that the message comes back. The same happens in a
  graceful shutdown, which cancels the context of apply and of that publish.
* `cancelled`: the half-open probe is a page's `Online` call and the user goes
  away. `Client.record` tells the breaker nothing, `probing` stays true, and
  every later call of this node, heartbeats included, is refused until the
  process restarts. `breaker.go:34` promises automatic recovery.

Others were met while modelling. The models do what the code does, and the
properties are stated so that they hold of it:

* The page repairs only above the highest seq on screen and does not try again
  when a page fails (`index.html:591-596`). A message of its own, sent while
  the socket was down, raises that seq over what others wrote meanwhile: the
  hole stays until the room is opened again. This is a cause in
  `HolesHaveACause`; `FillFromGap` has no such case.
* `gapcheck/main.go:361-364` takes the hello frame for proof that the socket
  is registered; `ws.go:93` sends it before `hub.Add` at `:104`.
* `broker.go:202` says that with NATS down "delivery will wait in the outbox".
  The node then uses `LocalPublisher`, which publishes the rows of every node
  to its own sockets and stamps them.
* `consume.go:50-51` says there is nothing to send again, because "if the socket
  is gone" the client repairs itself. When the connection between a node and
  NATS breaks, the entry is gone (`EntryLost`) and the socket is not: no client
  reconnects, so none repairs, and the page's next repair starts above the hole.
* `broker.go:188-190` reconnects forever, because "a broker that comes back after
  an hour should find its nodes waiting". A broker that stayed up while a node
  could not reach it has by then dropped the node's fan-out consumer
  (`consume.go:67`, five minutes). Nothing makes another one, and the node
  delivers nothing live until it restarts (`ConsumerExpires`).
* `consume.go:43-44` says a node reads from now on; a consumer found again by
  its name goes on where the old process stopped. Frames are repeated, and
  clients drop copies.
* `store.go:57-58` says it takes three failures in a row before anyone blinks.
  After two, the entry is as old as the TTL when the third beat is due, and the
  exclusive cutoff drops it until that beat is written: the guarantee is one
  failure (`NoBlink`).
* `refresh.go:155`: a refresh that read the session before the logout still
  signs a token after it. `LogoutBites` allows for it.
* `ratelimit.go:160` says a first request is never refused; a burst set below
  one token (`envFloat` accepts 0.5) refuses every request. `GateAssumption`
  excludes it. `ratelimit.go:184-185` says forgetting a full bucket gives
  nothing away; between two clocks it gives at most a stall at the rate, which
  is the term `sweeps` in `NeverOverLimit`.
* `server.go:349-350`: the goodbye frame is written by pumps that nobody waits
  for, so the process may exit before it is sent.

## 7. Left out

* Text, encodings, JSON, HTTP parsing, logs, metrics and traces. Rounding of
  floats in the limiter.
* The relay's branch for a payload that does not decode (the same program
  wrote it) and the columns `attempts` and `last_error`, which nothing reads.
* `last_seq` of the unread counters, which nothing reads.
* The length of backoffs and Nak delays. They matter for load only.
* `before_id` (older history), which neither client sends, and the `/health`
  page, which only reads.

### Not modelled

* `cmd/presenced`: it starts the service and stops it. Its watcher may set
  SERVING once more after main set NOT_SERVING (`main.go:213-217`); only the
  `/health` page of a node shows that status.
* Schema and migrations: run once. Their unique indexes are modelled where they
  are used.
* Event encoding, generated code, logging, metrics and tracing: no state of
  their own that a behaviour depends on.
* The tools under `cmd/` other than gapcheck's client: sequential programs that
  drive a cluster from outside.

## 8. Plan

What is left is to prove more of what the composition rests on: that the order
in which `Outbox` shows a room to the broker is the order `Delivery` starts
from, and safety lemmas under the liveness properties, such as that a batch in
a relay's hands and an unanswered probe always have a step that ends them.
