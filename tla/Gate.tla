-------------------------------- MODULE Gate --------------------------------
(***************************************************************************)
(* The public door of the API: the token bucket in front of /register,     *)
(* /login, /auth/refresh and /auth/logout (internal/server/ratelimit.go),  *)
(* and the sessions behind it (auth.go, refresh.go and                     *)
(* database/refresh_tokens.go), for the browsers of one user.              *)
(*                                                                         *)
(* Requests run concurrently.  A handler is cut where another can come     *)
(* between: after a read of the clock, and after each statement of the     *)
(* database.  The clock counts ticks, TicksPerSecond of them to a second.  *)
(* Tokens are counted in units: a token is TicksPerSecond units, so a      *)
(* limiter of Rate tokens a second adds Rate units a tick, and the model   *)
(* needs no fractions.  Rounding of floats is left out.                    *)
(*                                                                         *)
(* A request may be descheduled between reading the clock and using what   *)
(* it read, for Stall ticks at most; without a bound on that nothing here  *)
(* is true of a running system.  bcrypt, SHA-256 and the signature of a    *)
(* JWT are external: a password is right or wrong, a cookie names its      *)
(* session, a token its expiry.                                            *)
(***************************************************************************)
EXTENDS Integers, Sequences, FiniteSetsExt

CONSTANTS
    Requests,         \* the requests in flight at any one time
    Browsers,         \* one cookie jar each
    Addresses,
    Address,          \* Address[b] is where b's requests come from
    TicksPerSecond,
    AuthRPS,          \* RATE_LIMIT_AUTH_RPS, and 0 when unset
    AuthBurst,        \* RATE_LIMIT_AUTH_BURST in units, and 0 when unset
    defaultAuthRPS,
    defaultAuthBurst, \* in units
    SweepEvery,       \* sweepEvery, in ticks
    AccessTTL,        \* tokenTTL, in ticks
    RefreshTTL,       \* refreshTTL, in ticks
    Stall,            \* ticks between reading the clock and acting on it
    MaxTime,          \* bound: the clock stops here
    MaxSessions       \* bound: sessions ever opened

envFloat(raw, fallback) == IF raw <= 0 THEN fallback ELSE raw

rateLimitsFromEnv ==
    [rps |-> envFloat(AuthRPS, defaultAuthRPS),
     burst |-> envFloat(AuthBurst, defaultAuthBurst)]

\* One bad number and both are the defaults.
orDefaults(limits) ==
    IF limits.rps <= 0 \/ limits.burst <= 0
    THEN [rps |-> defaultAuthRPS, burst |-> defaultAuthBurst] ELSE limits

Rate == orDefaults(rateLimitsFromEnv).rps
Burst == orDefaults(rateLimitsFromEnv).burst

\* A burst below one token would refuse every request for ever.
ASSUME GateAssumption ==
    /\ Address \in [Browsers -> Addresses]
    /\ {TicksPerSecond, SweepEvery, AccessTTL, RefreshTTL, defaultAuthRPS,
        defaultAuthBurst, MaxTime} \subseteq Nat \ {0}
    /\ AuthRPS \in Int /\ AuthBurst \in Int
    /\ Stall \in Nat /\ MaxSessions \in Nat
    /\ Burst >= TicksPerSecond

VARIABLES
    clock,
    buckets,     \* l.buckets: a caller's address -> [tokens, last]
    lastSweep,   \* l.lastSweep
    req,         \* the requests in flight
    account,     \* the user's row exists (users)
    rows,        \* refresh_tokens: a session -> [exp, revoked]
    jar,         \* the refresh cookie of each browser: a session, or 0
    debt,        \* history: requests let through, less what the rate allows,
                 \* counted on the true clock: a leaky bucket per address
    sweeps,      \* history: how often the map was swept
    promise,     \* history: when a refused caller was told to come back, or 0
    session      \* history: of each session, its end, its logout, and the
                 \* expiry of the last access token made for it

limitVars == <<buckets, lastSweep, debt, sweeps, promise>>
tableVars == <<account, rows, session>>
vars == <<clock, limitVars, tableVars, req, jar>>

Token == TicksPerSecond
Idle == [stage |-> "idle", op |-> "none", from |-> "none", at |-> 0, sid |-> 0,
         exp |-> 0]
Clear == -1    \* the answer of clearRefreshCookie

\* A row of refresh_tokens; its hash is the session it is kept under.
RefreshToken == [exp : Nat, revoked : BOOLEAN]

Init ==
    /\ clock = 1
    /\ buckets = [a \in {} |-> 0]
    /\ lastSweep = 1 - SweepEvery   \* the zero time: long ago
    /\ req = [r \in Requests |-> Idle]
    /\ account \in BOOLEAN
    /\ rows = [s \in {} |-> 0]
    /\ jar = [b \in Browsers |-> 0]
    /\ debt = [a \in Addresses |-> 0]
    /\ sweeps = 0
    /\ promise = [a \in Addresses |-> 0]
    /\ session = <<>>

Pass ==
    /\ clock < MaxTime
    /\ \A r \in Requests :
          req[r].stage \in {"stamped", "read"} => clock < req[r].at + Stall
    /\ clock' = clock + 1
    /\ debt' = [a \in Addresses |-> Max({0, debt[a] - Rate})]
    /\ UNCHANGED <<buckets, lastSweep, sweeps, promise, tableVars, req, jar>>

----------------------------------------------------------------------------
(***************************************************************************)
(* The limiter.                                                            *)
(***************************************************************************)

\* A request arrives with the cookie the jar holds, and allow reads the clock
\* before it takes the lock.
Arrive(r, b, op) ==
    /\ req[r] = Idle
    /\ req' = [req EXCEPT ![r] =
                 [stage |-> "stamped", op |-> op, from |-> b, at |-> clock,
                  sid |-> IF op \in {"refresh", "logout"} THEN jar[b] ELSE 0,
                  exp |-> 0]]
    /\ UNCHANGED <<clock, limitVars, tableVars, jar>>

\* now may be before u.last; the refill is then negative.
Refill(u, now) ==
    Min({Burst, u.tokens + (now - u.last) * Rate})

\* sweep: a bucket that would be full is the same as no bucket.
Full(u, now) == u.tokens + (now - u.last) * Rate >= Burst

SweepDue(now) == now - lastSweep >= SweepEvery

Swept(now) ==
    IF SweepDue(now)
    THEN [a \in {c \in DOMAIN buckets : ~ Full(buckets[c], now)} |-> buckets[a]]
    ELSE buckets

\* The caller's allowance after sweep and refill; a new caller starts full.
Tokens(a, now) ==
    IF a \in DOMAIN Swept(now) THEN Refill(buckets[a], now) ELSE Burst

PutKeepsLast(a, now, tokens) ==                                  \* mutant
    buckets' = [c \in DOMAIN Swept(now) \cup {a} |->
                  IF c = a
                  THEN [tokens |-> tokens,
                        last |-> IF a \in DOMAIN buckets THEN buckets[a].last
                                                         ELSE now]
                  ELSE buckets[c]]

Put(a, now, tokens) ==
    buckets' = [c \in DOMAIN Swept(now) \cup {a} |->
                  IF c = a THEN [tokens |-> tokens, last |-> now]
                           ELSE buckets[c]]

RetryAfterFloor(tokens) ==                                       \* mutant
    Max({1, ((Token - tokens) \div Rate) \div TicksPerSecond})

\* Whole seconds, rounded up, never zero.
RetryAfter(tokens) ==
    LET units == Token - tokens
    IN  Max({1, (units + Rate * TicksPerSecond - 1)
                  \div (Rate * TicksPerSecond)})

EnoughIfAny(tokens) == tokens >= 0                               \* mutant

\* A request costs one token.
Enough(tokens) == tokens >= Token

\* allow under the lock, and what rateLimit makes of the answer.
Decide(r) ==
    LET a == Address[req[r].from]
        now == req[r].at
        tokens == Tokens(a, now)
        back == now + RetryAfter(tokens) * TicksPerSecond
    IN  /\ req[r].stage = "stamped"
        /\ IF SweepDue(now)
           THEN lastSweep' = now /\ sweeps' = sweeps + 1
           ELSE UNCHANGED <<lastSweep, sweeps>>
        /\ \/ /\ Enough(tokens)
              /\ Put(a, now, tokens - Token)
              /\ req' = [req EXCEPT ![r].stage = "admitted", ![r].at = 0]
              /\ debt' = [debt EXCEPT ![a] = @ + Token]
              /\ promise' = [promise EXCEPT ![a] = 0]
           \/ /\ ~ Enough(tokens)
              /\ Put(a, now, tokens)
              /\ req' = [req EXCEPT ![r] = Idle]
              /\ promise' = [promise EXCEPT
                               ![a] = IF @ = 0 THEN back ELSE Min({@, back})]
              /\ UNCHANGED debt
        /\ UNCHANGED <<clock, tableVars, jar>>

----------------------------------------------------------------------------
(***************************************************************************)
(* The handlers.  An answer sets the cookie, clears it, or leaves it alone *)
(* (and is then of no interest here); a statement that fails answers 500   *)
(* and leaves it alone.                                                    *)
(***************************************************************************)

Admitted(r, op) == req[r].stage = "admitted" /\ req[r].op = op

Answer(r, cookie) ==
    req' = [req EXCEPT ![r] = [Idle EXCEPT !.stage = "reply", !.from = req[r].from,
                                           !.sid = cookie]]

AnswerPlain(r) == req' = [req EXCEPT ![r] = Idle]

Fails(r) ==
    /\ req[r].stage \in {"admitted", "create"}
    /\ AnswerPlain(r)
    /\ UNCHANGED <<clock, limitVars, tableVars, jar>>

\* The unique index on the name refuses the second row, with a 409.
CreateUser == account' = TRUE

GetUserByUsername == account

RegisterHandler(r) ==
    /\ Admitted(r, "register")
    /\ CreateUser
    /\ AnswerPlain(r)
    /\ UNCHANGED <<clock, limitVars, rows, session, jar>>

\* jwt.NewNumericDate drops the fraction of a second.
NumericDate(t) == t - (t % TicksPerSecond)
signAccessToken == NumericDate(clock + AccessTTL)

\* parseAccessToken and AuthMiddleware: only the token is asked, no table.
parseAccessToken(exp) == clock < exp

\* The password is right: the token is signed before there is a session.
LoginHandler(r) ==
    /\ Admitted(r, "login")
    /\ GetUserByUsername
    /\ req' = [req EXCEPT ![r].stage = "purge", ![r].exp = signAccessToken]
    /\ UNCHANGED <<clock, limitVars, tableVars, jar>>

PurgeFlipped == {s \in DOMAIN rows : rows[s].exp <= clock}       \* mutant

\* The sessions PurgeExpiredRefreshTokens leaves in the table.
Purge == {s \in DOMAIN rows : rows[s].exp > clock /\ ~ rows[s].revoked}

\* A failed purge is logged and ignored.
issueRefreshSession(r) ==
    /\ req[r].stage = "purge"
    /\ req' = [req EXCEPT ![r].stage = "create"]
    /\ \/ rows' = [s \in Purge |-> rows[s]]
       \/ UNCHANGED rows
    /\ UNCHANGED <<clock, limitVars, account, session, jar>>

\* 256 random bits: a session no cookie has named before.
newRefreshToken == Len(session) + 1

CreateRefreshToken(r) ==
    LET s == newRefreshToken
    IN  /\ req[r].stage = "create"
        /\ s <= MaxSessions
        /\ rows' = [t \in DOMAIN rows \cup {s} |->
                      IF t = s THEN [exp |-> clock + RefreshTTL,
                                     revoked |-> FALSE]
                               ELSE rows[t]]
        /\ session' = Append(session, [ends |-> clock + RefreshTTL, out |-> 0,
                                       minted |-> req[r].exp])
        /\ Answer(r, s)
        /\ UNCHANGED <<clock, limitVars, account, jar>>

GetValidOrRevoked(s) == s \in DOMAIN rows /\ rows[s].exp > clock \* mutant

\* GetValidRefreshToken finds the session: one query, one clock.
GetValid(s) ==
    s \in DOMAIN rows /\ rows[s].exp > clock /\ ~ rows[s].revoked

\* No cookie: 401.  A cookie that is worth nothing is cleared.
RefreshHandler(r) ==
    /\ Admitted(r, "refresh")
    /\ \/ /\ req[r].sid # 0 /\ GetValid(req[r].sid)
          /\ req' = [req EXCEPT ![r].stage = "read", ![r].at = clock]
       \/ /\ req[r].sid # 0 /\ ~ GetValid(req[r].sid)
          /\ Answer(r, Clear)
       \/ /\ req[r].sid = 0
          /\ AnswerPlain(r)
    /\ UNCHANGED <<clock, limitVars, tableVars, jar>>

\* The rest of RefreshHandler: it signs what it read, and replaces nothing.
RefreshSigns(r) ==
    /\ req[r].stage = "read"
    /\ session' = [session EXCEPT ![req[r].sid].minted = signAccessToken]
    /\ AnswerPlain(r)
    /\ UNCHANGED <<clock, limitVars, account, rows, jar>>

\* Only a row that is there and not yet revoked is touched; no row is no
\* error.
RevokeRefreshToken(s) ==
    IF s \in DOMAIN rows /\ ~ rows[s].revoked
    THEN /\ rows' = [rows EXCEPT ![s].revoked = TRUE]
         /\ session' = [session EXCEPT ![s].out = clock]
    ELSE UNCHANGED <<rows, session>>

LogoutHandler(r) ==
    /\ Admitted(r, "logout")
    /\ RevokeRefreshToken(req[r].sid)
    /\ Answer(r, Clear)
    /\ UNCHANGED <<clock, limitVars, account, jar>>

\* The response reaches the jar, or is lost on the way.
Reply(r) ==
    LET b == req[r].from
        cookie == req[r].sid
    IN  /\ req[r].stage = "reply"
        /\ req' = [req EXCEPT ![r] = Idle]
        /\ \/ jar' = [jar EXCEPT ![b] = IF cookie = Clear THEN 0 ELSE cookie]
           \/ UNCHANGED jar
        /\ UNCHANGED <<clock, limitVars, tableVars>>

----------------------------------------------------------------------------

Ops == {"register", "login", "refresh", "logout"}

Next ==
    \/ Pass
    \/ \E r \in Requests :
          \/ \E b \in Browsers, op \in Ops : Arrive(r, b, op)
          \/ Decide(r)
          \/ Fails(r)
          \/ RegisterHandler(r)
          \/ LoginHandler(r) \/ issueRefreshSession(r) \/ CreateRefreshToken(r)
          \/ RefreshHandler(r) \/ RefreshSigns(r)
          \/ LogoutHandler(r)
          \/ Reply(r)

Spec == Init /\ [][Next]_vars

----------------------------------------------------------------------------
(***************************************************************************)
(* Properties.                                                             *)
(***************************************************************************)

LimiterTypes ==
    /\ clock \in 1..MaxTime
    /\ buckets \in [DOMAIN buckets -> [tokens : Int, last : Nat]]
    /\ DOMAIN buckets \subseteq Addresses
    /\ \A a \in DOMAIN buckets : /\ buckets[a].tokens \in (-Rate * Stall)..Burst
                                 /\ buckets[a].last \in 1..clock
    /\ lastSweep \in (1 - SweepEvery)..clock
    /\ debt \in [Addresses -> Nat] /\ sweeps \in Nat
    /\ promise \in [Addresses -> Nat]

RequestTypes ==
    /\ req \in [Requests -> [stage : {"idle", "stamped", "admitted", "purge",
                                      "create", "read", "reply"},
                             op : Ops \cup {"none"},
                             from : Browsers \cup {"none"},
                             at : Nat, sid : Int, exp : Nat]]
    /\ \A r \in Requests :
          /\ req[r].stage # "idle" => req[r].from \in Browsers
          /\ req[r].at <= clock
          /\ req[r].sid \in Clear..Len(session)

SessionTypes ==
    /\ account \in BOOLEAN
    /\ rows \in [DOMAIN rows -> RefreshToken]
    /\ session \in Seq([ends : Nat, out : Nat, minted : Nat])
    /\ DOMAIN rows \subseteq DOMAIN session
    /\ jar \in [Browsers -> 0..Len(session)]
    /\ Len(session) <= MaxSessions

\* Every variable keeps its type.  A bucket holds no more than the burst and,
\* since clocks are read before the lock, may owe what Stall ticks refill.
TypeOK == LimiterTypes /\ RequestTypes /\ SessionTypes

\* ratelimit.go:99-112, 180-185: in no stretch of time does the limiter let a
\* caller through more often than the burst and the rate allow; what two
\* clocks that are Stall apart can add to that is one Stall at the rate, and
\* one more for each time the map was swept.
NeverOverLimit ==
    \A a \in Addresses :
        debt[a] <= Burst + Rate * Stall * (1 + sweeps)

\* ratelimit.go:220-225: Retry-After is enough.  A refused caller who was let
\* through by nobody else since, and whose next request comes when it was told
\* to or later, has a token, whatever was refused or swept in between.
WaitIsEnough ==
    \A a \in Addresses : promise[a] # 0 =>
        \A now \in promise[a]..clock : Enough(Tokens(a, now))

\* refresh.go:155-160: a logout takes effect.  One lifetime of an access token
\* after it (and the stall of a refresh that read the session before), no
\* token ever made for the session is accepted, and none is still to come.
LogoutBites ==
    \A s \in DOMAIN session :
        (session[s].out # 0 /\ clock >= session[s].out + AccessTTL + Stall)
            => ~ parseAccessToken(session[s].minted)

\* refresh.go:147-149, 65-77: a browser that holds a cookie and has not logged
\* out with it can refresh until the week is over: no login elsewhere, no
\* purge and no refresh of another tab takes its session away.
CookieIsGood ==
    \A b \in Browsers :
        \/ jar[b] = 0
        \/ session[jar[b]].out # 0
        \/ clock >= session[jar[b]].ends
        \/ GetValid(jar[b])

=============================================================================
