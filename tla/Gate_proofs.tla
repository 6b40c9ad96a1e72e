----------------------------- MODULE Gate_proofs -----------------------------
(***************************************************************************)
(* Proofs about module Gate, for any number of requests, browsers and      *)
(* addresses, any limits, lifetimes and stalls.                            *)
(***************************************************************************)
EXTENDS Gate, TLAPS

-----------------------------------------------------------------------------
(* The invariant of the limiter.  A bucket is measured on the true clock,  *)
(* as if nobody capped it; the clocks its callers read are Stall behind at *)
(* most.                                                                   *)

Slack == Rate * Stall

(* What is in a bucket at a moment, without the cap.                       *)
LevelAt(a, t) == buckets[a].tokens + (t - buckets[a].last) * Rate

(* A caller may owe tokens to a late clock, never to the true one.         *)
NoTrueDebt == \A a \in DOMAIN buckets : LevelAt(a, clock) >= 0

(* What was let through above the rate was taken out of the bucket.  A     *)
(* bucket that was swept had refilled, so there is little to remember.     *)
TakenOut(a) ==
    IF a \in DOMAIN buckets
    THEN debt[a] = 0 \/ debt[a] + LevelAt(a, clock) <= Burst + Slack * (1 + sweeps)
    ELSE debt[a] <= Slack * sweeps

Owed == \A a \in Addresses : TakenOut(a)

(* At the moment a refused caller was told there is a token.               *)
Promised ==
    \A a \in DOMAIN buckets : promise[a] # 0 => LevelAt(a, promise[a]) >= Token

LimiterInv == LimiterTypes /\ NoTrueDebt /\ Owed /\ Promised

-----------------------------------------------------------------------------
(* The invariant of the requests: what a request carries is of its past.  A *)
(* token is at most one lifetime ahead of the clock, and a refresh that     *)
(* read its session read it before any logout.                              *)

RequestRecord ==
    [stage : {"idle", "stamped", "admitted", "purge", "create", "read", "reply"},
     op : Ops \cup {"none"}, from : Browsers \cup {"none"},
     at : Nat, sid : Int, exp : Nat]

Carries(q) ==
    /\ q.stage # "idle" => q.from \in Browsers
    /\ q.at <= clock /\ q.exp <= clock + AccessTTL
    /\ q.sid \in Clear..Len(session)
    /\ q.stage \in {"stamped", "read"} => q.at >= 1 /\ clock <= q.at + Stall
    /\ q.stage = "read" =>
          /\ q.sid \in DOMAIN session
          /\ session[q.sid].out # 0 => session[q.sid].out >= q.at

RequestInv ==
    req \in [Requests -> RequestRecord] /\ \A r \in Requests : Carries(req[r])

(* The invariant of the sessions: after a logout a token is at most one     *)
(* lifetime and a stall ahead of that.                                      *)
Minted ==
    \A s \in DOMAIN session :
        /\ session[s].minted <= clock + AccessTTL /\ session[s].out <= clock
        /\ session[s].out # 0 =>
              session[s].minted <= session[s].out + AccessTTL + Stall

(* A row is revoked exactly by a logout; a row that is gone was dead.      *)
RowsTrue ==
    \A s \in DOMAIN session :
        IF s \in DOMAIN rows
        THEN /\ rows[s].revoked <=> session[s].out # 0
             /\ rows[s].exp = session[s].ends
        ELSE session[s].out # 0 \/ clock >= session[s].ends

TableInv == SessionTypes /\ Minted /\ RowsTrue

GInv == LimiterInv /\ RequestInv /\ TableInv

-----------------------------------------------------------------------------
(* Numbers.                                                                *)

LEMMA MinOfTwo ==
  ASSUME NEW a \in Int, NEW b \in Int
  PROVE  Min({a, b}) = IF a <= b THEN a ELSE b
<1> DEFINE m == IF a <= b THEN a ELSE b
<1>1. m \in {a, b} /\ \A y \in {a, b} : m =< y
  OBVIOUS
<1>2. \A x \in {a, b} : (\A y \in {a, b} : x =< y) => x = m
  OBVIOUS
<1> HIDE DEF m
<1>3. Min({a, b}) = m
  BY <1>1, <1>2 DEF Min
<1> QED
  BY <1>3 DEF m

LEMMA MaxOfTwo ==
  ASSUME NEW a \in Int, NEW b \in Int
  PROVE  Max({a, b}) = IF a >= b THEN a ELSE b
<1> DEFINE m == IF a >= b THEN a ELSE b
<1>1. m \in {a, b} /\ \A y \in {a, b} : m >= y
  OBVIOUS
<1>2. \A x \in {a, b} : (\A y \in {a, b} : x >= y) => x = m
  OBVIOUS
<1> HIDE DEF m
<1>3. Max({a, b}) = m
  BY <1>1, <1>2 DEF Max
<1> QED
  BY <1>3 DEF m

LEMMA Grows ==
  ASSUME NEW a \in Int, NEW b \in Int, a <= b, NEW r \in Nat
  PROVE  a * r <= b * r
  OBVIOUS

LEMMA Division ==
  ASSUME NEW t \in Int, NEW d \in Nat \ {0}
  PROVE  t \div d \in Int /\ t < (t \div d) * d + d
  OBVIOUS

(* The limits are positive, whatever the environment says.                 *)
LEMMA Limits ==
  /\ Rate \in Nat \ {0} /\ Burst \in Nat \ {0} /\ Burst >= Token
  /\ Token \in Nat \ {0} /\ Slack \in Nat
<1>1. /\ envFloat(AuthRPS, defaultAuthRPS) \in Nat \ {0}
      /\ envFloat(AuthBurst, defaultAuthBurst) \in Nat \ {0}
      /\ defaultAuthRPS \in Nat \ {0} /\ defaultAuthBurst \in Nat \ {0}
  BY GateAssumption DEF envFloat
<1>2. Rate \in Nat \ {0} /\ Burst \in Nat \ {0}
  BY <1>1 DEF Rate, Burst, orDefaults, rateLimitsFromEnv
<1>3. Token \in Nat \ {0} /\ Burst >= Token /\ Stall \in Nat
  BY GateAssumption DEF Token
<1>4. \A x, y \in Nat : x * y \in Nat
  OBVIOUS
<1>5. Slack \in Nat
  BY <1>2, <1>3, <1>4 DEF Slack
<1> QED
  BY <1>2, <1>3, <1>5

(* Retry-After is long enough for the token that is missing.               *)
LEMMA RetryIsEnough ==
  ASSUME NEW x \in Int, x < Token
  PROVE  /\ RetryAfter(x) \in Nat \ {0}
         /\ x + RetryAfter(x) * TicksPerSecond * Rate >= Token
<1> DEFINE d == Rate * TicksPerSecond
           y == (Token - x) + d - 1
           k == y \div d
<1>1. Rate \in Nat \ {0} /\ TicksPerSecond \in Nat \ {0} /\ Token \in Nat
  BY Limits, GateAssumption
<1>2. \A a, b \in Nat \ {0} : a * b \in Nat \ {0}
  OBVIOUS
<1>3. d \in Nat \ {0}
  BY <1>1, <1>2
<1>4. y \in Int
  BY <1>1, <1>3
<1>5. k \in Int /\ y < k * d + d
  <2> HIDE DEF d, y
  <2> QED
    BY <1>3, <1>4, Division
<1>6. k * d >= Token - x /\ k * d \in Int
  <2> HIDE DEF d, k
  <2> QED
    BY <1>1, <1>3, <1>4, <1>5
<1>7. RetryAfter(x) = Max({1, k})
  BY DEF RetryAfter
<1> HIDE DEF k, y
<1>8. RetryAfter(x) \in Nat \ {0} /\ RetryAfter(x) >= k
  BY <1>5, <1>7, MaxOfTwo
<1>9. RetryAfter(x) * d >= k * d
  BY <1>3, <1>5, <1>8, Grows
<1>10. RetryAfter(x) * d = RetryAfter(x) * TicksPerSecond * Rate
  BY <1>1, <1>8
<1> QED
  BY <1>1, <1>3, <1>6, <1>8, <1>9, <1>10

-----------------------------------------------------------------------------
(* The limiter.                                                            *)

LEMMA LevelMoves ==
  ASSUME NEW x \in Int, NEW l \in Int, NEW t \in Int, NEW u \in Int, NEW r \in Nat
  PROVE  /\ x + (t - l) * r = x + (u - l) * r + (t - u) * r
         /\ x + (t - l) * r \in Int /\ (t - u) * r \in Int
         /\ t >= u => (t - u) * r >= 0
  OBVIOUS

(* Buckets as the invariants see them.                                     *)
LEMMA LevelShift ==
  ASSUME LimiterTypes, NEW a \in DOMAIN buckets, NEW t \in Int, NEW u \in Int
  PROVE  /\ LevelAt(a, t) \in Int /\ LevelAt(a, u) \in Int
         /\ LevelAt(a, t) = LevelAt(a, u) + (t - u) * Rate
         /\ (t - u) * Rate \in Int
         /\ t >= u => LevelAt(a, t) >= LevelAt(a, u)
<1>1. buckets[a].tokens \in Int /\ buckets[a].last \in Int /\ Rate \in Nat
  BY Limits DEF LimiterTypes
<1> QED
  BY <1>1, LevelMoves DEF LevelAt

LEMMA LimiterUnchanged ==
  ASSUME LimiterInv, UNCHANGED <<clock, limitVars>>
  PROVE  LimiterInv'
<1> USE DEF limitVars, LimiterInv
<1>1. LimiterTypes'
  BY DEF LimiterTypes
<1>2. NoTrueDebt' /\ Promised'
  BY DEF NoTrueDebt, Promised, LevelAt
<1>3. Owed'
  BY DEF Owed, TakenOut, LevelAt
<1> QED
  BY <1>1, <1>2, <1>3

LEMMA PassLimiter ==
  ASSUME LimiterInv, Pass
  PROVE  LimiterInv'
<1> USE DEF LimiterInv
<1>0. /\ Rate \in Nat /\ clock \in Nat /\ clock' = clock + 1 /\ UNCHANGED <<buckets, sweeps>>
      /\ debt \in [Addresses -> Nat] /\ DOMAIN buckets \subseteq Addresses
      /\ \A a \in Addresses : debt'[a] = IF debt[a] <= Rate THEN 0 ELSE debt[a] - Rate
  <2>1. Rate \in Nat /\ clock \in Nat /\ debt \in [Addresses -> Nat]
    BY Limits DEF LimiterTypes
  <2>2. ASSUME NEW a \in Addresses
        PROVE  Max({0, debt[a] - Rate}) = IF debt[a] <= Rate THEN 0 ELSE debt[a] - Rate
    BY <2>1, MaxOfTwo
  <2> QED
    BY <2>1, <2>2 DEF Pass, LimiterTypes
<1>1. ASSUME NEW a \in DOMAIN buckets
      PROVE  /\ LevelAt(a, clock)' = LevelAt(a, clock) + Rate
             /\ LevelAt(a, clock) \in Int
  <2>1. (clock + 1 - clock) * Rate = Rate
    BY <1>0
  <2>2. LevelAt(a, clock + 1) = LevelAt(a, clock) + Rate /\ LevelAt(a, clock) \in Int
    BY <1>0, <2>1, LevelShift
  <2>3. LevelAt(a, clock)' = LevelAt(a, clock + 1)
    BY <1>0 DEF LevelAt
  <2> QED
    BY <2>2, <2>3
<1>2. LimiterTypes'
  <2>1. debt' \in [Addresses -> Nat]
    BY <1>0 DEF Pass
  <2>2. clock' \in 1..MaxTime /\ lastSweep' \in (1 - SweepEvery)..clock'
    BY GateAssumption DEF LimiterTypes, Pass
  <2>3. \A a \in DOMAIN buckets : buckets[a].last \in 1..clock'
    BY <1>0 DEF LimiterTypes
  <2> QED
    BY <2>1, <2>2, <2>3 DEF LimiterTypes, Pass
<1>3. NoTrueDebt'
  BY <1>0, <1>1 DEF NoTrueDebt
<1>4. Owed'
  <2> SUFFICES ASSUME NEW a \in Addresses PROVE TakenOut(a)'
    BY DEF Owed
  <2>1. TakenOut(a)
    BY DEF Owed
  <2>2. Burst + Slack * (1 + sweeps) \in Int /\ Slack * sweeps \in Nat
    <3>1. \A x, y \in Nat : x * y \in Nat
      OBVIOUS
    <3> QED
      BY <3>1, Limits DEF LimiterTypes
  <2>3. CASE a \in DOMAIN buckets
    BY <1>0, <1>1, <2>1, <2>2, <2>3 DEF TakenOut
  <2>4. CASE a \notin DOMAIN buckets
    BY <1>0, <2>1, <2>2, <2>4 DEF TakenOut
  <2> QED
    BY <2>3, <2>4
<1>5. Promised'
  BY DEF Promised, LevelAt, Pass
<1> QED
  BY <1>2, <1>3, <1>4, <1>5

(* What a sweep keeps is as it was, and what it drops had refilled.        *)
LEMMA SweepDrops ==
  ASSUME LimiterTypes, NEW now \in Int
  PROVE  /\ DOMAIN Swept(now) \subseteq DOMAIN buckets
         /\ \A c \in DOMAIN buckets :
              c \notin DOMAIN Swept(now) => SweepDue(now) /\ LevelAt(c, now) >= Burst
         /\ \A c \in DOMAIN Swept(now) : Swept(now)[c] = buckets[c]
<1>1. \A c \in DOMAIN buckets : Full(buckets[c], now) <=> LevelAt(c, now) >= Burst
  BY DEF Full, LevelAt
<1>2. CASE SweepDue(now)
  BY <1>1, <1>2 DEF Swept
<1>3. CASE ~ SweepDue(now)
  BY <1>3 DEF Swept
<1> QED
  BY <1>2, <1>3

(* Arithmetic of a clock that is late.                                     *)
LEMMA LateClock ==
  ASSUME NEW now \in Int, NEW c \in Int, now <= c, c <= now + Stall
  PROVE  (c - now) * Rate \in Nat /\ (c - now) * Rate <= Slack
<1>1. Rate \in Nat /\ Stall \in Nat
  BY Limits, GateAssumption
<1>2. Stall * Rate = Slack /\ 0 * Rate = 0
  BY <1>1 DEF Slack
<1>3. c - now \in Int /\ 0 <= c - now /\ c - now <= Stall
  BY <1>1
<1>4. (c - now) * Rate \in Int
  BY <1>1, <1>3
<1>5. 0 * Rate <= (c - now) * Rate /\ (c - now) * Rate <= Stall * Rate
  BY <1>1, <1>3, Grows
<1> QED
  BY <1>2, <1>4, <1>5

(* The allowance, without its cap where there is a bucket.                 *)
LEMMA TokensAre ==
  ASSUME LimiterInv, NEW a \in Addresses, NEW now \in 1..clock,
         clock <= now + Stall
  PROVE  /\ Tokens(a, now) \in (-Slack)..Burst
         /\ a \in DOMAIN Swept(now) =>
               /\ a \in DOMAIN buckets
               /\ Tokens(a, now) <= LevelAt(a, now)
               /\ Tokens(a, now) # Burst => Tokens(a, now) = LevelAt(a, now)
         /\ a \notin DOMAIN Swept(now) => Tokens(a, now) = Burst
<1>1. Burst \in Nat /\ Slack \in Nat /\ now \in Int /\ clock \in Int
  BY Limits DEF LimiterInv, LimiterTypes
<1>2. CASE a \in DOMAIN Swept(now)
  <2>1. a \in DOMAIN buckets
    BY <1>1, <1>2, SweepDrops DEF LimiterInv
  <2>2. /\ LevelAt(a, now) \in Int /\ LevelAt(a, clock) \in Int
        /\ LevelAt(a, clock) = LevelAt(a, now) + (clock - now) * Rate
    BY <1>1, <2>1, LevelShift DEF LimiterInv
  <2>3. (clock - now) * Rate \in Nat /\ (clock - now) * Rate <= Slack
    BY <1>1, LateClock
  <2>4. LevelAt(a, now) >= -Slack
    BY <1>1, <2>1, <2>2, <2>3 DEF LimiterInv, NoTrueDebt
  <2>5. Tokens(a, now) = Min({Burst, LevelAt(a, now)})
    BY <1>2 DEF Tokens, Refill, LevelAt
  <2>6. Tokens(a, now) = IF Burst <= LevelAt(a, now) THEN Burst ELSE LevelAt(a, now)
    BY <1>1, <2>2, <2>5, MinOfTwo
  <2> QED
    BY <1>1, <1>2, <2>1, <2>2, <2>4, <2>6
<1>3. CASE a \notin DOMAIN Swept(now)
  BY <1>1, <1>3 DEF Tokens
<1> QED
  BY <1>2, <1>3

(* The sweeps that are counted pay for what a sweep forgets.               *)
LEMMA SweepPays ==
  ASSUME LimiterInv, NEW c \in Addresses, NEW now \in 1..clock,
         c \notin DOMAIN Swept(now),
         sweeps' = IF SweepDue(now) THEN sweeps + 1 ELSE sweeps
  PROVE  debt[c] <= Slack * sweeps'
<1>1. /\ now \in Int /\ clock \in Int /\ now <= clock /\ Burst \in Nat
      /\ Slack \in Nat /\ sweeps \in Nat /\ debt[c] \in Nat
  BY Limits DEF LimiterInv, LimiterTypes
<1>2. Slack * sweeps \in Nat /\ Slack * (sweeps + 1) \in Nat
      /\ Slack * (sweeps + 1) = Slack * sweeps + Slack
      /\ Slack * (1 + sweeps) = Slack * sweeps + Slack
  <2>1. \A x, y \in Nat : /\ x * y \in Nat /\ x * (y + 1) = x * y + x
                          /\ x * (1 + y) = x * y + x
    OBVIOUS
  <2> QED
    BY <1>1, <2>1
<1>3. TakenOut(c)
  BY DEF LimiterInv, Owed
<1>4. CASE c \in DOMAIN buckets
  <2>1. SweepDue(now) /\ LevelAt(c, now) >= Burst
    BY <1>1, <1>4, SweepDrops DEF LimiterInv
  <2>2. LevelAt(c, clock) \in Int /\ LevelAt(c, now) \in Int
        /\ LevelAt(c, clock) >= LevelAt(c, now)
    BY <1>1, <1>4, LevelShift DEF LimiterInv
  <2> QED
    BY <1>1, <1>2, <1>3, <1>4, <2>1, <2>2 DEF TakenOut
<1>5. CASE c \notin DOMAIN buckets
  BY <1>1, <1>2, <1>3, <1>5 DEF TakenOut
<1> QED
  BY <1>4, <1>5

(* The decision, for the address, the clock and the allowance it is about. *)
LEMMA Decided ==
  ASSUME LimiterInv, NEW a \in Addresses, NEW now \in 1..clock,
         clock <= now + Stall, clock' = clock,
         NEW tk, tk = Tokens(a, now), NEW x, x = IF Enough(tk) THEN tk - Token ELSE tk,
         NEW back, back = now + RetryAfter(tk) * TicksPerSecond,
         Put(a, now, x),
         lastSweep' = IF SweepDue(now) THEN now ELSE lastSweep,
         sweeps' = IF SweepDue(now) THEN sweeps + 1 ELSE sweeps,
         IF Enough(tk)
         THEN /\ debt' = [debt EXCEPT ![a] = @ + Token]
              /\ promise' = [promise EXCEPT ![a] = 0]
         ELSE /\ promise' = [promise EXCEPT
                               ![a] = IF @ = 0 THEN back ELSE Min({@, back})]
              /\ debt' = debt
  PROVE  LimiterInv'
<1>1. /\ now \in Int /\ clock \in Int /\ now \in Nat
      /\ now <= clock /\ clock <= now + Stall
      /\ Burst \in Nat /\ Slack \in Nat /\ sweeps \in Nat /\ Token \in Nat \ {0}
      /\ Burst >= Token /\ Rate \in Nat
  BY Limits DEF LimiterInv, LimiterTypes
<1>2. LimiterTypes
  BY DEF LimiterInv
<1>4. /\ tk \in (-Slack)..Burst
      /\ a \in DOMAIN Swept(now) =>
            a \in DOMAIN buckets /\ tk <= LevelAt(a, now)
              /\ (tk # Burst => tk = LevelAt(a, now))
      /\ a \notin DOMAIN Swept(now) => tk = Burst
  BY <1>1, TokensAre
<1>5. (clock - now) * Rate \in Nat /\ (clock - now) * Rate <= Slack
  BY <1>1, LateClock
<1>6. ~ Enough(tk) => back \in Nat \ {0} /\ tk + (back - now) * Rate >= Token
  <2>1. TicksPerSecond \in Nat /\ tk \in Int
    BY <1>4, <1>1, GateAssumption
  <2>2. \A u, v, w \in Nat : u * v \in Nat /\ w + u * v \in Nat /\ (w + u * v) - w = u * v
    OBVIOUS
  <2> HAVE ~ Enough(tk)
  <2>3. RetryAfter(tk) \in Nat \ {0} /\ tk + RetryAfter(tk) * TicksPerSecond * Rate >= Token
    BY <1>1, <2>1, RetryIsEnough DEF Enough
  <2>4. back \in Nat /\ back - now = RetryAfter(tk) * TicksPerSecond
    BY <1>1, <2>1, <2>2, <2>3
  <2>5. back >= now /\ now >= 1
    BY <1>1, <2>1, <2>2, <2>3
  <2> QED
    BY <1>1, <2>3, <2>4, <2>5
<1>7. x \in (-Slack)..Burst /\ x \in Int /\ tk \in Int
      /\ (Enough(tk) => x = tk - Token /\ x >= 0)
      /\ (~ Enough(tk) => x = tk /\ tk # Burst /\ tk < Token)
  BY <1>1, <1>4 DEF Enough
<1>8. /\ DOMAIN buckets' = DOMAIN Swept(now) \cup {a}
      /\ buckets'[a] = [tokens |-> x, last |-> now]
      /\ \A c \in DOMAIN buckets' :
            c # a => c \in DOMAIN buckets /\ buckets'[c] = buckets[c]
      /\ \A c \in Addresses \ {a} :
            c \notin DOMAIN buckets' => c \notin DOMAIN Swept(now)
  BY <1>1, <1>2, SweepDrops DEF Put
<1>9. DOMAIN buckets' \subseteq Addresses
  <2>1. DOMAIN Swept(now) \subseteq DOMAIN buckets
    BY <1>1, <1>2, SweepDrops
  <2> QED
    BY <1>1, <1>2, <1>8, <2>1 DEF LimiterTypes
<1>10. ~ Enough(tk) => a \in DOMAIN buckets /\ x = LevelAt(a, now)
  BY <1>4, <1>7
<1>11. LevelAt(a, clock)' = x + (clock - now) * Rate
  BY <1>8 DEF LevelAt
<1>12. \A c \in DOMAIN buckets' : c # a =>
          c \in DOMAIN buckets /\ LevelAt(c, clock)' = LevelAt(c, clock)
  BY <1>8 DEF LevelAt
<1>13. a \in DOMAIN buckets => /\ LevelAt(a, now) \in Int /\ LevelAt(a, clock) \in Int
         /\ LevelAt(a, clock) = LevelAt(a, now) + (clock - now) * Rate
  BY <1>1, <1>2, LevelShift
<1>14. /\ sweeps' \in Nat
       /\ Slack * sweeps \in Nat /\ Slack * sweeps' \in Nat
       /\ Slack * sweeps <= Slack * sweeps'
       /\ Slack * (1 + sweeps) = Slack * sweeps + Slack
       /\ (Slack * (1 + sweeps))' = Slack * sweeps' + Slack
  <2>1. \A u, v \in Nat : /\ u * v \in Nat /\ u * (v + 1) = u * v + u
                          /\ u * (1 + v) = u * v + u
    OBVIOUS
  <2>2. sweeps' \in Nat /\ (sweeps' = sweeps \/ sweeps' = sweeps + 1)
    BY <1>1
  <2>3. (Slack * (1 + sweeps))' = Slack * (1 + sweeps')
    BY DEF Slack, Rate
  <2> QED
    BY <1>1, <2>1, <2>2, <2>3
<1>15. LimiterTypes'
  <2>1. buckets' \in [DOMAIN buckets' -> [tokens : Int, last : Nat]]
    BY <1>1, <1>2, <1>7, <1>8 DEF LimiterTypes, Put
  <2>2. \A c \in DOMAIN buckets' : /\ buckets'[c].tokens \in (-Rate * Stall)..Burst
                                   /\ buckets'[c].last \in 1..clock'
    BY <1>1, <1>2, <1>7, <1>8 DEF LimiterTypes, Slack
  <2>3. clock' \in 1..MaxTime /\ lastSweep' \in (1 - SweepEvery)..clock'
    <3>1. SweepEvery \in Nat \ {0}
      BY GateAssumption
    <3> QED
      BY <1>1, <1>2, <3>1 DEF LimiterTypes
  <2>4. debt' \in [Addresses -> Nat]
    BY <1>1, <1>2 DEF LimiterTypes
  <2>5. promise' \in [Addresses -> Nat]
    BY <1>2, <1>6, MinOfTwo DEF LimiterTypes
  <2> QED
    BY <1>9, <1>14, <2>1, <2>2, <2>3, <2>4, <2>5 DEF LimiterTypes
<1>16. NoTrueDebt'
  <2>1. x + (clock - now) * Rate >= 0
    BY <1>1, <1>5, <1>7, <1>10, <1>13 DEF LimiterInv, NoTrueDebt
  <2> QED
    BY <1>11, <1>12, <2>1 DEF LimiterInv, NoTrueDebt
<1>17. Owed'
  <2> SUFFICES ASSUME NEW c \in Addresses PROVE TakenOut(c)'
    BY DEF Owed
  <2>1. TakenOut(c)
    BY DEF LimiterInv, Owed
  <2>2. debt[c] \in Nat /\ (c \in DOMAIN buckets => LevelAt(c, clock) \in Int)
    BY <1>1, <1>2, LevelShift DEF LimiterTypes
  <2>3. c \notin DOMAIN Swept(now) => debt[c] <= Slack * sweeps'
    BY <1>1, SweepPays
  <2>4. TakenOut(c)' <=>
          IF c \in DOMAIN buckets'
          THEN \/ debt'[c] = 0
               \/ debt'[c] + LevelAt(c, clock)' <= Burst + Slack * sweeps' + Slack
          ELSE debt'[c] <= Slack * sweeps'
    <3>1. Burst' = Burst /\ Slack' = Slack
      BY DEF Burst, Slack, Rate
    <3> QED
      BY <1>1, <1>14, <3>1 DEF TakenOut
  <2>5. CASE c # a
    <3>1. debt'[c] = debt[c]
      BY <1>2, <2>5 DEF LimiterTypes
    <3>2. CASE c \in DOMAIN buckets'
      <4>1. c \in DOMAIN buckets /\ LevelAt(c, clock)' = LevelAt(c, clock)
        BY <1>12, <2>5, <3>2
      <4> QED
        BY <1>1, <1>14, <2>1, <2>2, <2>4, <3>1, <3>2, <4>1 DEF TakenOut
    <3>3. CASE c \notin DOMAIN buckets'
      BY <1>8, <2>3, <2>4, <2>5, <3>1, <3>3
    <3> QED
      BY <3>2, <3>3
  <2>6. CASE c = a /\ Enough(tk)
    <3>1. debt'[c] = debt[c] + Token /\ c \in DOMAIN buckets'
      BY <1>2, <1>8, <2>6 DEF LimiterTypes
    <3>2. LevelAt(c, clock)' = tk - Token + (clock - now) * Rate
      BY <1>7, <1>11, <2>6
    <3>3. debt[c] + tk + (clock - now) * Rate <= Burst + Slack * sweeps' + Slack
      <4>1. CASE a \in DOMAIN Swept(now)
        BY <1>1, <1>4, <1>5, <1>7, <1>13, <1>14, <2>1, <2>2, <2>6, <4>1 DEF TakenOut
      <4>2. CASE a \notin DOMAIN Swept(now)
        BY <1>1, <1>4, <1>5, <1>7, <1>14, <2>2, <2>3, <2>6, <4>2
      <4> QED
        BY <4>1, <4>2
    <3> QED
      BY <1>1, <1>5, <1>7, <1>14, <2>2, <2>4, <3>1, <3>2, <3>3
  <2>7. CASE c = a /\ ~ Enough(tk)
    <3>1. debt'[c] = debt[c] /\ c \in DOMAIN buckets'
      BY <1>8, <2>7
    <3>2. c \in DOMAIN buckets /\ LevelAt(c, clock)' = LevelAt(c, clock)
      BY <1>10, <1>11, <1>13, <2>7
    <3> QED
      BY <1>1, <1>14, <2>1, <2>2, <2>4, <3>1, <3>2 DEF TakenOut
  <2> QED
    BY <2>5, <2>6, <2>7
<1>18. Promised'
  <2> SUFFICES ASSUME NEW c \in DOMAIN buckets', promise'[c] # 0
               PROVE  buckets'[c].tokens + (promise'[c] - buckets'[c].last) * Rate >= Token
    BY DEF Promised, LevelAt, Token, Rate
  <2>1. c \in Addresses
    BY <1>9
  <2>2. CASE c # a
    BY <1>2, <1>8, <2>1, <2>2 DEF LimiterInv, Promised, LevelAt, LimiterTypes
  <2>3. CASE c = a
    <3>1. ~ Enough(tk)
      BY <1>2, <2>3 DEF LimiterTypes
    <3>2. promise'[a] = IF promise[a] = 0 THEN back ELSE Min({promise[a], back})
      BY <1>2, <3>1 DEF LimiterTypes
    <3>3. promise[a] \in Nat /\ back \in Nat
      BY <1>2, <1>6, <3>1 DEF LimiterTypes
    <3>4. promise'[a] = back \/ (promise[a] # 0 /\ promise'[a] = promise[a])
      BY <3>2, <3>3, MinOfTwo
    <3>5. x + (back - now) * Rate >= Token
      BY <1>6, <1>7, <3>1
    <3>6. promise[a] # 0 => x + (promise[a] - now) * Rate >= Token
      <4> HAVE promise[a] # 0
      <4>1. LevelAt(a, promise[a]) >= Token
        BY <1>10, <3>1 DEF LimiterInv, Promised
      <4>2. LevelAt(a, promise[a]) = LevelAt(a, now) + (promise[a] - now) * Rate
        BY <1>1, <1>2, <1>10, <3>1, <3>3, LevelShift
      <4> QED
        BY <1>10, <3>1, <4>1, <4>2
    <3> QED
      BY <1>8, <2>3, <3>4, <3>5, <3>6
  <2> QED
    BY <2>2, <2>3
<1> QED
  BY <1>15, <1>16, <1>17, <1>18 DEF LimiterInv

LEMMA DecideLimiter ==
  ASSUME LimiterInv, RequestInv, NEW r \in Requests, Decide(r)
  PROVE  LimiterInv'
<1>1. req[r].stage = "stamped"
  BY DEF Decide
<1>2. req[r].from \in Browsers /\ req[r].at \in Nat /\ req[r].at <= clock
  BY <1>1 DEF RequestInv, RequestRecord, Carries
<1>3. req[r].at >= 1 /\ clock <= req[r].at + Stall
  BY <1>1 DEF RequestInv, Carries
<1>4. PICK a \in Addresses : a = Address[req[r].from]
  BY <1>2, GateAssumption
<1>5. PICK now \in 1..clock : now = req[r].at
  BY <1>2, <1>3 DEF LimiterInv, LimiterTypes
<1>6. PICK tk : tk = Tokens(a, now)
  OBVIOUS
<1>7. PICK x : x = IF Enough(tk) THEN tk - Token ELSE tk
  OBVIOUS
<1>8. PICK back : back = now + RetryAfter(tk) * TicksPerSecond
  OBVIOUS
<1>9. /\ Put(a, now, x) /\ clock' = clock
      /\ lastSweep' = (IF SweepDue(now) THEN now ELSE lastSweep)
      /\ sweeps' = (IF SweepDue(now) THEN sweeps + 1 ELSE sweeps)
      /\ IF Enough(tk)
         THEN /\ debt' = [debt EXCEPT ![a] = @ + Token]
              /\ promise' = [promise EXCEPT ![a] = 0]
         ELSE /\ promise' = [promise EXCEPT
                               ![a] = IF @ = 0 THEN back ELSE Min({@, back})]
              /\ debt' = debt
  BY <1>4, <1>5, <1>6, <1>7, <1>8 DEF Decide
<1> QED
  BY <1>3, <1>5, <1>6, <1>7, <1>8, <1>9, Decided

-----------------------------------------------------------------------------
(* The requests.                                                           *)

Grown ==
    /\ clock' = clock /\ Len(session) <= Len(session')
    /\ session \in Seq([ends : Nat, out : Nat, minted : Nat])
    /\ session' \in Seq([ends : Nat, out : Nat, minted : Nat])
    /\ \A s \in DOMAIN session : session'[s].out \in {session[s].out, clock}

(* One request moves, and no session loses what the others rely on.        *)
LEMMA RequestMoves ==
  ASSUME clock \in Nat, RequestInv, Grown, NEW r \in Requests,
         NEW q \in RequestRecord, req' = [req EXCEPT ![r] = q], Carries(q)'
  PROVE  RequestInv'
<1>1. req' \in [Requests -> RequestRecord]
  BY DEF RequestInv
<1>2. ASSUME NEW p \in Requests PROVE Carries(req[p])'
  <2>1. CASE p = r
    <3>1. req'[p] = q
      BY <2>1 DEF RequestInv
    <3> QED
      BY <3>1 DEF Carries
  <2>2. CASE p # r
    <3>1. req'[p] = req[p] /\ req[p] \in RequestRecord /\ Carries(req[p])
      BY <2>2 DEF RequestInv
    <3>2. DOMAIN session = 1..Len(session) /\ Len(session) \in Nat
          /\ DOMAIN session' = 1..Len(session') /\ Len(session') \in Nat
          /\ Len(session) <= Len(session')
      BY DEF Grown
    <3>3. /\ req'[p].stage # "idle" => req'[p].from \in Browsers
          /\ req'[p].at <= clock' /\ req'[p].exp <= clock' + AccessTTL
          /\ req'[p].stage \in {"stamped", "read"} =>
                req'[p].at >= 1 /\ clock' <= req'[p].at + Stall
      BY <3>1 DEF Carries, Grown
    <3>4. req'[p].sid \in Clear..Len(session')
      BY <3>1, <3>2 DEF Carries, RequestRecord, Clear
    <3>5. req'[p].stage = "read" =>
            /\ req'[p].sid \in DOMAIN session'
            /\ session'[req'[p].sid].out # 0 => session'[req'[p].sid].out >= req'[p].at
      <4> SUFFICES ASSUME req[p].stage = "read"
                   PROVE  /\ req[p].sid \in DOMAIN session'
                          /\ session'[req[p].sid].out # 0 =>
                                session'[req[p].sid].out >= req[p].at
        BY <3>1
      <4>1. PICK s \in DOMAIN session : s = req[p].sid
        BY <3>1 DEF Carries
      <4>2. session[s].out # 0 => session[s].out >= req[p].at
        BY <3>1, <4>1 DEF Carries
      <4>3. clock >= req[p].at
        BY <3>1 DEF Carries, RequestRecord
      <4>4. session'[s].out \in {session[s].out, clock}
        BY DEF Grown
      <4>5. s \in DOMAIN session'
        BY <3>2
      <4>6. CASE session'[s].out = session[s].out
        BY <4>1, <4>2, <4>5, <4>6
      <4>7. CASE session'[s].out = clock
        BY <4>1, <4>3, <4>5, <4>7
      <4> QED
        BY <4>4, <4>6, <4>7
    <3> QED
      BY <3>3, <3>4, <3>5 DEF Carries, Clear
  <2> QED
    BY <2>1, <2>2
<1> QED
  BY <1>1, <1>2 DEF RequestInv

(* A request that ends, and one that is answered.                          *)
LEMMA RequestEnds ==
  ASSUME clock \in Nat, RequestInv, Grown, NEW r \in Requests,
         \/ req' = [req EXCEPT ![r] = Idle]
         \/ /\ req[r].stage # "idle"
            /\ \E cookie \in Clear..Len(session') : Answer(r, cookie)
  PROVE  RequestInv'
<1>1. Len(session') \in Nat /\ clock' \in Nat /\ AccessTTL \in Nat
  BY GateAssumption DEF Grown
<1>2. CASE req' = [req EXCEPT ![r] = Idle]
  <2>1. Idle \in RequestRecord
    BY DEF RequestRecord, Idle
  <2>2. Carries(Idle)'
    BY <1>1 DEF Carries, Idle, Clear
  <2> QED
    BY <1>2, <2>1, <2>2, RequestMoves
<1>3. CASE req[r].stage # "idle" /\ \E cookie \in Clear..Len(session') : Answer(r, cookie)
  <2>1. PICK cookie \in Clear..Len(session') : Answer(r, cookie)
    BY <1>3
  <2>2. PICK b \in Browsers : b = req[r].from
    BY <1>3 DEF RequestInv, Carries
  <2>3. PICK q : q = [stage |-> "reply", op |-> "none", from |-> b, at |-> 0,
                      sid |-> cookie, exp |-> 0]
    OBVIOUS
  <2>4. req' = [req EXCEPT ![r] = q]
    BY <2>1, <2>2, <2>3 DEF Answer, Idle
  <2>5. q \in RequestRecord
    BY <1>1, <2>1, <2>2, <2>3 DEF RequestRecord, Clear
  <2>6. Carries(q)'
    <3>1. q.at = 0 /\ q.exp = 0 /\ q.sid = cookie /\ q.stage = "reply" /\ q.from = b
      BY <2>3
    <3> QED
      BY <1>1, <2>1, <2>2, <3>1 DEF Carries, Clear
  <2> QED
    BY <2>4, <2>5, <2>6, RequestMoves
<1> QED
  BY <1>2, <1>3

LEMMA NothingGrown ==
  ASSUME SessionTypes, UNCHANGED <<clock, session>>
  PROVE  Grown
BY DEF Grown, SessionTypes

LEMMA ElementOf ==
  ASSUME NEW S, NEW q \in Seq(S), NEW i \in DOMAIN q
  PROVE  q[i] \in S
OBVIOUS

LEMMA SessionRecord ==
  ASSUME SessionTypes, NEW s \in DOMAIN session
  PROVE  /\ session[s] \in [ends : Nat, out : Nat, minted : Nat]
         /\ session \in Seq([ends : Nat, out : Nat, minted : Nat])
<1>1. session \in Seq([ends : Nat, out : Nat, minted : Nat])
  BY DEF SessionTypes
<1> QED
  BY <1>1, ElementOf

LEMMA TableUnchanged ==
  ASSUME TableInv, UNCHANGED <<clock, tableVars, jar>>
  PROVE  TableInv'
<1> USE DEF TableInv, tableVars
<1>1. SessionTypes'
  BY DEF SessionTypes
<1>2. Minted' /\ RowsTrue'
  BY DEF Minted, RowsTrue
<1> QED
  BY <1>1, <1>2

-----------------------------------------------------------------------------
(* The steps that move one request and touch no table.                     *)

(* A date without its fraction is not later.                               *)
LEMMA Dates ==
  ASSUME NEW t \in Nat
  PROVE  NumericDate(t) \in Nat /\ NumericDate(t) <= t
<1>1. TicksPerSecond \in Nat \ {0}
  BY GateAssumption
<1>2. t % TicksPerSecond \in 0..(TicksPerSecond - 1)
  BY <1>1
<1>3. t % TicksPerSecond <= t
  BY <1>1
<1> QED
  BY <1>1, <1>2, <1>3 DEF NumericDate

LEMMA Signed ==
  ASSUME clock \in Nat
  PROVE  signAccessToken \in Nat /\ signAccessToken <= clock + AccessTTL
<1>1. clock + AccessTTL \in Nat
  BY GateAssumption
<1> QED
  BY <1>1, Dates DEF signAccessToken

LEMMA RequestSteps ==
  ASSUME clock \in Nat \ {0}, RequestInv, TableInv, NEW r \in Requests,
         \/ \E b \in Browsers, op \in Ops : Arrive(r, b, op)
         \/ Decide(r) \/ Fails(r) \/ LoginHandler(r) \/ RefreshHandler(r)
  PROVE  RequestInv' /\ TableInv'
<1>1. UNCHANGED <<clock, tableVars, jar>>
  BY DEF Arrive, Decide, Fails, LoginHandler, RefreshHandler
<1>2. TableInv'
  BY <1>1, TableUnchanged
<1> SUFFICES RequestInv'
  BY <1>2
<1>3. Grown
  BY <1>1, NothingGrown DEF TableInv, tableVars
<1>4. /\ session' = session /\ clock' = clock /\ clock \in Nat
      /\ Len(session) \in Nat /\ DOMAIN session = 1..Len(session)
      /\ AccessTTL \in Nat /\ Stall \in Nat
  BY <1>1, GateAssumption DEF TableInv, SessionTypes, tableVars
<1>5. req[r] \in RequestRecord /\ Carries(req[r])
  BY DEF RequestInv
<1>6. ASSUME NEW b \in Browsers, NEW op \in Ops, Arrive(r, b, op)
      PROVE  RequestInv'
  <2>1. PICK sid : sid = IF op \in {"refresh", "logout"} THEN jar[b] ELSE 0
    OBVIOUS
  <2>2. sid \in 0..Len(session)
    BY <1>4, <2>1 DEF TableInv, SessionTypes
  <2>3. PICK t \in Nat \ {0} : t = clock
    OBVIOUS
  <2>4. PICK q : q = [stage |-> "stamped", op |-> op, from |-> b, at |-> t,
                      sid |-> sid, exp |-> 0]
    OBVIOUS
  <2>5. req' = [req EXCEPT ![r] = q]
    BY <1>6, <2>1, <2>3, <2>4 DEF Arrive
  <2>6. q \in RequestRecord
    BY <1>4, <2>2, <2>4 DEF RequestRecord
  <2>7. q.at = t /\ q.exp = 0 /\ q.sid = sid /\ q.stage = "stamped" /\ q.from = b
    BY <2>4
  <2>8. Carries(q)'
    BY <1>4, <2>2, <2>3, <2>7 DEF Carries, Clear
  <2> QED
    BY <1>3, <1>4, <2>5, <2>6, <2>8, RequestMoves
<1>7. CASE Decide(r)
  <2>1. CASE req' = [req EXCEPT ![r] = Idle]
    BY <1>3, <1>4, <2>1, RequestEnds
  <2>2. CASE req' = [req EXCEPT ![r].stage = "admitted", ![r].at = 0]
    <3>1. PICK q : q = [req[r] EXCEPT !.stage = "admitted", !.at = 0]
      OBVIOUS
    <3>2. req' = [req EXCEPT ![r] = q]
      BY <2>2, <3>1 DEF RequestInv
    <3>3. q \in RequestRecord
      BY <1>5, <3>1 DEF RequestRecord
    <3>4. /\ q.at = 0 /\ q.exp = req[r].exp /\ q.sid = req[r].sid
          /\ q.stage = "admitted" /\ q.from = req[r].from
      BY <1>5, <3>1 DEF RequestRecord
    <3>5. req[r].stage # "idle"
      BY <1>7 DEF Decide
    <3>6. Carries(q)'
      BY <1>4, <1>5, <3>4, <3>5 DEF Carries, Clear
    <3> QED
      BY <1>3, <1>4, <3>2, <3>3, <3>6, RequestMoves
  <2> QED
    BY <1>7, <2>1, <2>2 DEF Decide
<1>8. CASE Fails(r)
  BY <1>3, <1>4, <1>8, RequestEnds DEF Fails, AnswerPlain
<1>9. CASE LoginHandler(r)
  <2>1. PICK e : e = signAccessToken
    OBVIOUS
  <2>2. e \in Nat /\ e <= clock + AccessTTL
    BY <2>1, Signed
  <2>3. PICK q : q = [req[r] EXCEPT !.stage = "purge", !.exp = e]
    OBVIOUS
  <2>4. req' = [req EXCEPT ![r] = q]
    BY <1>9, <2>1, <2>3 DEF RequestInv, LoginHandler
  <2>5. q \in RequestRecord
    BY <1>5, <2>2, <2>3 DEF RequestRecord
  <2>6. /\ q.at = req[r].at /\ q.exp = e /\ q.sid = req[r].sid
        /\ q.stage = "purge" /\ q.from = req[r].from
    BY <1>5, <2>3 DEF RequestRecord
  <2>7. req[r].stage # "idle"
    BY <1>9 DEF LoginHandler, Admitted
  <2>8. Carries(q)'
    BY <1>4, <1>5, <2>2, <2>6, <2>7 DEF Carries, Clear
  <2> QED
    BY <1>3, <1>4, <2>4, <2>5, <2>8, RequestMoves
<1>10. CASE RefreshHandler(r)
  <2>1. req[r].stage # "idle"
    BY <1>10 DEF RefreshHandler, Admitted
  <2>2. CASE AnswerPlain(r)
    BY <1>3, <1>4, <2>2, RequestEnds DEF AnswerPlain
  <2>3. CASE Answer(r, Clear)
    <3>1. Clear \in Clear..Len(session')
      BY <1>4 DEF Clear
    <3> QED
      BY <1>3, <1>4, <2>1, <2>3, <3>1, RequestEnds
  <2>4. CASE /\ GetValid(req[r].sid)
             /\ req' = [req EXCEPT ![r].stage = "read", ![r].at = clock]
    <3>1. PICK t \in Nat \ {0} : t = clock
      OBVIOUS
    <3>2. PICK q : q = [req[r] EXCEPT !.stage = "read", !.at = t]
      OBVIOUS
    <3>3. req' = [req EXCEPT ![r] = q]
      BY <2>4, <3>1, <3>2 DEF RequestInv
    <3>4. q \in RequestRecord
      BY <1>5, <3>1, <3>2 DEF RequestRecord
    <3>5. /\ q.at = t /\ q.exp = req[r].exp /\ q.sid = req[r].sid
          /\ q.stage = "read" /\ q.from = req[r].from
      BY <1>5, <3>2 DEF RequestRecord
    <3>6. req[r].sid \in DOMAIN session /\ session[req[r].sid].out = 0
      BY <2>4 DEF GetValid, TableInv, SessionTypes, RowsTrue
    <3>7. Carries(q)'
      BY <1>4, <1>5, <2>1, <3>1, <3>5, <3>6 DEF Carries, Clear
    <3> QED
      BY <1>3, <1>4, <3>3, <3>4, <3>7, RequestMoves
  <2> QED
    BY <1>10, <2>2, <2>3, <2>4 DEF RefreshHandler
<1> QED
  BY <1>6, <1>7, <1>8, <1>9, <1>10

-----------------------------------------------------------------------------
(* The steps that write a table or a jar, and the clock.                   *)

LEMMA RegisterStep ==
  ASSUME clock \in Nat \ {0}, RequestInv, TableInv, NEW r \in Requests,
         RegisterHandler(r)
  PROVE  RequestInv' /\ TableInv'
<1>1. Grown /\ clock \in Nat
  BY NothingGrown DEF RegisterHandler, TableInv
<1>2. RequestInv'
  BY <1>1, RequestEnds DEF RegisterHandler, AnswerPlain
<1>3. SessionTypes'
  BY DEF TableInv, SessionTypes, RegisterHandler, CreateUser
<1>4. Minted' /\ RowsTrue'
  BY DEF TableInv, Minted, RowsTrue, RegisterHandler
<1> QED
  BY <1>2, <1>3, <1>4 DEF TableInv

LEMMA PurgeStep ==
  ASSUME clock \in Nat \ {0}, RequestInv, TableInv, NEW r \in Requests,
         issueRefreshSession(r)
  PROVE  RequestInv' /\ TableInv'
<1>1. Grown /\ clock \in Nat
  BY NothingGrown DEF issueRefreshSession, TableInv
<1>2. RequestInv'
  <2>1. req[r] \in RequestRecord /\ Carries(req[r])
    BY DEF RequestInv
  <2>2. PICK q : q = [req[r] EXCEPT !.stage = "create"]
    OBVIOUS
  <2>3. req' = [req EXCEPT ![r] = q]
    BY <2>2 DEF RequestInv, issueRefreshSession
  <2>4. q \in RequestRecord
    BY <2>1, <2>2 DEF RequestRecord
  <2>5. /\ q.at = req[r].at /\ q.exp = req[r].exp /\ q.sid = req[r].sid
        /\ q.stage = "create" /\ q.from = req[r].from
    BY <2>1, <2>2 DEF RequestRecord
  <2>6. session' = session /\ clock' = clock /\ req[r].stage # "idle"
    BY DEF issueRefreshSession
  <2>7. Carries(q)'
    BY <2>1, <2>5, <2>6 DEF Carries, Clear
  <2> QED
    BY <1>1, <2>3, <2>4, <2>7, RequestMoves
<1>3. CASE UNCHANGED rows
  <2>1. UNCHANGED <<clock, tableVars, jar>>
    BY <1>3 DEF issueRefreshSession, tableVars
  <2> QED
    BY <1>2, <2>1, TableUnchanged
<1>4. CASE rows' = [s \in Purge |-> rows[s]]
  <2>1. /\ DOMAIN rows' = Purge /\ Purge \subseteq DOMAIN rows
        /\ \A s \in Purge : rows'[s] = rows[s]
        /\ UNCHANGED <<clock, account, session, jar>>
    BY <1>4 DEF Purge, issueRefreshSession
  <2>2. rows' \in [DOMAIN rows' -> RefreshToken]
    BY <1>4, <2>1 DEF TableInv, SessionTypes
  <2>3. SessionTypes'
    BY <2>1, <2>2 DEF TableInv, SessionTypes
  <2>4. Minted'
    BY <2>1 DEF TableInv, Minted
  <2>5. ASSUME NEW s \in DOMAIN session, s \in DOMAIN rows, s \notin Purge
        PROVE  session[s].out # 0 \/ clock >= session[s].ends
    <3>1. rows[s].exp \in Nat /\ ~ (rows[s].exp > clock /\ ~ rows[s].revoked)
      BY <2>5 DEF TableInv, SessionTypes, RefreshToken, Purge
    <3>2. rows[s].revoked <=> session[s].out # 0
      BY <2>5 DEF TableInv, RowsTrue
    <3>3. rows[s].exp = session[s].ends
      BY <2>5 DEF TableInv, RowsTrue
    <3>4. ~ (rows[s].exp > clock) => clock >= session[s].ends
      BY <3>1, <3>3
    <3> QED
      BY <3>1, <3>2, <3>4
  <2>6. RowsTrue'
    <3> SUFFICES ASSUME NEW s \in DOMAIN session
                 PROVE  IF s \in Purge
                        THEN /\ rows[s].revoked <=> session[s].out # 0
                             /\ rows[s].exp = session[s].ends
                        ELSE session[s].out # 0 \/ clock >= session[s].ends
      BY <2>1 DEF RowsTrue
    <3>1. CASE s \in Purge
      BY <2>1, <3>1 DEF TableInv, RowsTrue
    <3>2. CASE s \notin DOMAIN rows
      BY <2>1, <3>2 DEF TableInv, RowsTrue
    <3>3. CASE s \in DOMAIN rows /\ s \notin Purge
      BY <2>5, <3>3
    <3> QED
      BY <3>1, <3>2, <3>3
  <2> QED
    BY <1>2, <2>3, <2>4, <2>6 DEF TableInv
<1> QED
  BY <1>3, <1>4 DEF issueRefreshSession

LEMMA CreateStep ==
  ASSUME clock \in Nat \ {0}, RequestInv, TableInv, NEW r \in Requests,
         CreateRefreshToken(r)
  PROVE  RequestInv' /\ TableInv'
<1>1. PICK n \in Nat : n = Len(session)
  BY DEF TableInv, SessionTypes
<1>2. PICK e \in Nat : e = req[r].exp /\ e <= clock + AccessTTL
  BY DEF RequestInv, RequestRecord, Carries
<1>3. PICK k : k = [ends |-> clock + RefreshTTL, out |-> 0, minted |-> e]
  OBVIOUS
<1>4. /\ clock \in Nat /\ AccessTTL \in Nat /\ RefreshTTL \in Nat
      /\ k \in [ends : Nat, out : Nat, minted : Nat]
      /\ k.ends = clock + RefreshTTL /\ k.out = 0 /\ k.minted = e
  BY <1>2, <1>3, GateAssumption
<1>5. /\ session' = Append(session, k) /\ n + 1 <= MaxSessions
      /\ rows' = [t \in DOMAIN rows \cup {n + 1} |->
                    IF t = n + 1 THEN [exp |-> clock + RefreshTTL, revoked |-> FALSE]
                                 ELSE rows[t]]
      /\ Answer(r, n + 1) /\ UNCHANGED <<clock, account, jar>>
      /\ req[r].stage # "idle"
  BY <1>1, <1>2, <1>3 DEF CreateRefreshToken, newRefreshToken
<1>6. /\ session \in Seq([ends : Nat, out : Nat, minted : Nat])
      /\ session' \in Seq([ends : Nat, out : Nat, minted : Nat])
      /\ DOMAIN session = 1..n /\ DOMAIN session' = 1..(n + 1) /\ Len(session') = n + 1
      /\ \A s \in 1..n : session'[s] = session[s]
      /\ session'[n + 1] = k
  BY <1>1, <1>4, <1>5 DEF TableInv, SessionTypes
<1>7. Grown
  BY <1>1, <1>5, <1>6 DEF Grown
<1>8. RequestInv'
  <2>1. n + 1 \in Clear..Len(session')
    BY <1>6 DEF Clear
  <2> QED
    BY <1>4, <1>5, <1>7, <2>1, RequestEnds
<1>9. /\ DOMAIN rows' = DOMAIN rows \cup {n + 1}
      /\ n + 1 \notin DOMAIN rows /\ DOMAIN rows \subseteq 1..n
      /\ \A s \in 1..n : (s \in DOMAIN rows' <=> s \in DOMAIN rows)
                         /\ (s \in DOMAIN rows => rows'[s] = rows[s])
      /\ rows'[n + 1] = [exp |-> clock + RefreshTTL, revoked |-> FALSE]
  <2>1. DOMAIN rows \subseteq 1..n /\ n + 1 \notin 1..n
    BY <1>1, <1>6 DEF TableInv, SessionTypes
  <2> QED
    BY <1>5, <2>1
<1>10. SessionTypes'
  <2>1. [exp |-> clock + RefreshTTL, revoked |-> FALSE] \in RefreshToken
    BY <1>4 DEF RefreshToken
  <2>2. rows \in [DOMAIN rows -> RefreshToken]
    BY DEF TableInv, SessionTypes
  <2>3. rows' \in [DOMAIN rows' -> RefreshToken]
    BY <1>5, <1>9, <2>1, <2>2
  <2>4. DOMAIN rows' \subseteq DOMAIN session'
    BY <1>6, <1>9
  <2>5. jar' \in [Browsers -> 0..Len(session')]
    <3>1. jar \in [Browsers -> 0..n] /\ 0..n \subseteq 0..(n + 1)
      BY <1>1 DEF TableInv, SessionTypes
    <3> QED
      BY <1>5, <1>6, <3>1
  <2>6. Len(session') <= MaxSessions /\ account' \in BOOLEAN
    BY <1>5, <1>6 DEF TableInv, SessionTypes
  <2> QED
    BY <1>6, <2>3, <2>4, <2>5, <2>6 DEF SessionTypes
<1>11. Minted'
  <2> SUFFICES ASSUME NEW s \in 1..(n + 1)
               PROVE  /\ session'[s].minted <= clock + AccessTTL
                      /\ session'[s].out <= clock
                      /\ session'[s].out # 0 =>
                           session'[s].minted <= session'[s].out + AccessTTL + Stall
    BY <1>5, <1>6 DEF Minted
  <2>1. CASE s = n + 1
    BY <1>2, <1>4, <1>6, <2>1
  <2>2. CASE s \in 1..n
    BY <1>6, <2>2 DEF TableInv, Minted
  <2> QED
    BY <2>1, <2>2
<1>12. RowsTrue'
  <2> SUFFICES ASSUME NEW s \in 1..(n + 1)
               PROVE  IF s \in DOMAIN rows'
                      THEN /\ rows'[s].revoked <=> session'[s].out # 0
                           /\ rows'[s].exp = session'[s].ends
                      ELSE session'[s].out # 0 \/ clock >= session'[s].ends
    BY <1>5, <1>6 DEF RowsTrue
  <2>1. CASE s = n + 1
    BY <1>4, <1>6, <1>9, <2>1
  <2>2. CASE s \in 1..n
    BY <1>6, <1>9, <2>2 DEF TableInv, RowsTrue
  <2> QED
    BY <2>1, <2>2
<1> QED
  BY <1>8, <1>10, <1>11, <1>12 DEF TableInv

LEMMA SignStep ==
  ASSUME clock \in Nat \ {0}, RequestInv, TableInv, NEW r \in Requests,
         RefreshSigns(r)
  PROVE  RequestInv' /\ TableInv'
<1>1. clock \in Nat /\ AccessTTL \in Nat /\ Stall \in Nat
  BY GateAssumption
<1>2. req[r].stage = "read" /\ req[r].at \in Nat
  BY DEF RefreshSigns, RequestInv, RequestRecord
<1>3. PICK i \in DOMAIN session : i = req[r].sid
  BY <1>2 DEF RequestInv, Carries
<1>4. PICK e \in Nat : e = signAccessToken /\ e <= clock + AccessTTL
  BY <1>1, Signed
<1>5. /\ session \in Seq([ends : Nat, out : Nat, minted : Nat])
      /\ session[i] \in [ends : Nat, out : Nat, minted : Nat]
      /\ session' = [session EXCEPT ![i].minted = e]
      /\ UNCHANGED <<clock, account, rows, jar>>
  <2>1. /\ session \in Seq([ends : Nat, out : Nat, minted : Nat])
        /\ session[i] \in [ends : Nat, out : Nat, minted : Nat]
    BY <1>3, SessionRecord DEF TableInv
  <2> QED
    BY <1>3, <1>4, <2>1 DEF RefreshSigns
<1>6. PICK k : k = [session[i] EXCEPT !.minted = e]
  OBVIOUS
<1>7. /\ k \in [ends : Nat, out : Nat, minted : Nat]
      /\ k.ends = session[i].ends /\ k.out = session[i].out /\ k.minted = e
  BY <1>5, <1>6
<1>8. session' = [session EXCEPT ![i] = k]
  BY <1>5, <1>6
<1>9. /\ session' \in Seq([ends : Nat, out : Nat, minted : Nat])
      /\ Len(session') = Len(session) /\ DOMAIN session' = DOMAIN session
      /\ session'[i] = k /\ \A s \in DOMAIN session : s # i => session'[s] = session[s]
  BY <1>5, <1>7, <1>8
<1>10. Len(session) \in Nat
  BY <1>5
<1>11. Grown
  BY <1>5, <1>7, <1>9, <1>10 DEF Grown
<1>12. RequestInv'
  BY <1>1, <1>11, RequestEnds DEF RefreshSigns, AnswerPlain
<1>13. SessionTypes'
  BY <1>5, <1>9 DEF TableInv, SessionTypes
<1>14. e <= session[i].out + AccessTTL + Stall \/ session[i].out = 0
  <2>1. session[i].out # 0 => session[i].out >= req[r].at
    BY <1>2, <1>3 DEF RequestInv, Carries
  <2>2. clock <= req[r].at + Stall
    BY <1>2 DEF RequestInv, Carries
  <2>3. session[i].out \in Nat
    BY <1>5
  <2> QED
    BY <1>1, <1>2, <1>4, <2>1, <2>2, <2>3
<1>15. Minted'
  <2> SUFFICES ASSUME NEW s \in DOMAIN session
               PROVE  /\ session'[s].minted <= clock + AccessTTL
                      /\ session'[s].out <= clock
                      /\ session'[s].out # 0 =>
                           session'[s].minted <= session'[s].out + AccessTTL + Stall
    BY <1>5, <1>9 DEF Minted
  <2>1. CASE s = i
    BY <1>4, <1>7, <1>9, <1>14, <2>1 DEF TableInv, Minted
  <2>2. CASE s # i
    BY <1>9, <2>2 DEF TableInv, Minted
  <2> QED
    BY <2>1, <2>2
<1>16. RowsTrue'
  <2>1. \A s \in DOMAIN session :
            session'[s].out = session[s].out /\ session'[s].ends = session[s].ends
    BY <1>7, <1>9
  <2> QED
    BY <1>5, <1>9, <2>1 DEF TableInv, RowsTrue
<1> QED
  BY <1>12, <1>13, <1>15, <1>16 DEF TableInv

LEMMA LogoutStep ==
  ASSUME clock \in Nat \ {0}, RequestInv, TableInv, NEW r \in Requests,
         LogoutHandler(r)
  PROVE  RequestInv' /\ TableInv'
<1>1. clock \in Nat /\ clock # 0 /\ AccessTTL \in Nat /\ Stall \in Nat
  BY GateAssumption
<1>2. req[r].stage # "idle" /\ Answer(r, Clear) /\ UNCHANGED <<clock, account, jar>>
  BY DEF LogoutHandler, Admitted
<1>3. Clear \in Clear..Len(session)
  BY DEF TableInv, SessionTypes, Clear
<1>4. CASE UNCHANGED <<rows, session>>
  <2>1. Grown
    BY <1>2, <1>4, NothingGrown DEF TableInv
  <2>2. RequestInv'
    BY <1>1, <1>2, <1>3, <1>4, <2>1, RequestEnds
  <2> QED
    BY <1>2, <1>4, <2>2, TableUnchanged DEF tableVars
<1>5. CASE ~ UNCHANGED <<rows, session>>
  <2>1. PICK i \in DOMAIN rows : i = req[r].sid
    BY <1>5 DEF LogoutHandler, RevokeRefreshToken
  <2>2. /\ ~ rows[i].revoked
        /\ rows' = [rows EXCEPT ![i].revoked = TRUE]
        /\ session' = [session EXCEPT ![i].out = clock]
    BY <1>5, <2>1 DEF LogoutHandler, RevokeRefreshToken
  <2>3. /\ session \in Seq([ends : Nat, out : Nat, minted : Nat]) /\ i \in DOMAIN session
        /\ session[i] \in [ends : Nat, out : Nat, minted : Nat]
        /\ rows \in [DOMAIN rows -> RefreshToken] /\ rows[i] \in RefreshToken
        /\ DOMAIN rows \subseteq DOMAIN session
    <3>1. rows \in [DOMAIN rows -> RefreshToken] /\ DOMAIN rows \subseteq DOMAIN session
      BY DEF TableInv, SessionTypes
    <3>2. i \in DOMAIN session
      BY <2>1, <3>1
    <3>3. /\ session \in Seq([ends : Nat, out : Nat, minted : Nat])
          /\ session[i] \in [ends : Nat, out : Nat, minted : Nat]
      BY <3>2, SessionRecord DEF TableInv
    <3> QED
      BY <2>1, <3>1, <3>2, <3>3
  <2>4. PICK k : k = [session[i] EXCEPT !.out = clock]
    OBVIOUS
  <2>5. /\ k \in [ends : Nat, out : Nat, minted : Nat]
        /\ k.ends = session[i].ends /\ k.out = clock /\ k.minted = session[i].minted
    BY <1>1, <2>3, <2>4
  <2>6. session' = [session EXCEPT ![i] = k]
    BY <2>2, <2>4
  <2>7. /\ session' \in Seq([ends : Nat, out : Nat, minted : Nat])
        /\ Len(session') = Len(session) /\ DOMAIN session' = DOMAIN session
        /\ session'[i] = k /\ \A s \in DOMAIN session : s # i => session'[s] = session[s]
    BY <2>3, <2>5, <2>6
  <2>8. PICK w : w = [rows[i] EXCEPT !.revoked = TRUE]
    OBVIOUS
  <2>9. w \in RefreshToken /\ w.revoked = TRUE /\ w.exp = rows[i].exp
    BY <2>3, <2>8 DEF RefreshToken
  <2>10. /\ rows' = [rows EXCEPT ![i] = w] /\ DOMAIN rows' = DOMAIN rows
         /\ rows'[i] = w /\ \A s \in DOMAIN rows : s # i => rows'[s] = rows[s]
    BY <2>1, <2>2, <2>8
  <2>11. rows' \in [DOMAIN rows' -> RefreshToken]
    BY <2>3, <2>9, <2>10
  <2>12. Len(session) \in Nat
    BY <2>3
  <2>13. Grown
    <3>1. ASSUME NEW s \in DOMAIN session
          PROVE  session'[s].out \in {session[s].out, clock}
      BY <2>5, <2>7
    <3> QED
      BY <1>2, <2>3, <2>7, <2>12, <3>1 DEF Grown
  <2>14. RequestInv'
    BY <1>1, <1>2, <1>3, <2>7, <2>13, RequestEnds
  <2>15. SessionTypes'
    BY <1>2, <2>3, <2>7, <2>10, <2>11 DEF TableInv, SessionTypes
  <2>16. Minted'
    <3> SUFFICES ASSUME NEW s \in DOMAIN session
                 PROVE  /\ session'[s].minted <= clock + AccessTTL
                        /\ session'[s].out <= clock
                        /\ session'[s].out # 0 =>
                             session'[s].minted <= session'[s].out + AccessTTL + Stall
      BY <1>2, <2>7 DEF Minted
    <3>1. CASE s = i
      <4>1. session[i].minted <= clock + AccessTTL /\ session[i].minted \in Nat
        BY <2>3 DEF TableInv, Minted
      <4> QED
        BY <1>1, <2>5, <2>7, <3>1, <4>1
    <3>2. CASE s # i
      BY <2>7, <3>2 DEF TableInv, Minted
    <3> QED
      BY <3>1, <3>2
  <2>17. RowsTrue'
    <3> SUFFICES ASSUME NEW s \in DOMAIN session
                 PROVE  IF s \in DOMAIN rows
                        THEN /\ rows'[s].revoked <=> session'[s].out # 0
                             /\ rows'[s].exp = session'[s].ends
                        ELSE session'[s].out # 0 \/ clock >= session'[s].ends
      BY <1>2, <2>7, <2>10 DEF RowsTrue
    <3>1. CASE s = i
      BY <1>1, <2>1, <2>5, <2>7, <2>9, <2>10, <3>1 DEF TableInv, RowsTrue
    <3>2. CASE s # i
      BY <2>7, <2>10, <3>2 DEF TableInv, RowsTrue
    <3> QED
      BY <3>1, <3>2
  <2> QED
    BY <2>14, <2>15, <2>16, <2>17 DEF TableInv
<1> QED
  BY <1>4, <1>5

LEMMA ReplyStep ==
  ASSUME clock \in Nat \ {0}, RequestInv, TableInv, NEW r \in Requests, Reply(r)
  PROVE  RequestInv' /\ TableInv'
<1>1. UNCHANGED <<clock, tableVars>> /\ req' = [req EXCEPT ![r] = Idle] /\ clock \in Nat
  BY DEF Reply
<1>2. Grown
  BY <1>1, NothingGrown DEF TableInv, tableVars
<1>3. RequestInv'
  BY <1>1, <1>2, RequestEnds
<1>4. jar' \in [Browsers -> 0..Len(session)]
  <2>1. req[r].sid \in Clear..Len(session) /\ Len(session) \in Nat
    BY DEF RequestInv, Carries, TableInv, SessionTypes
  <2>2. PICK v : v = IF req[r].sid = Clear THEN 0 ELSE req[r].sid
    OBVIOUS
  <2>3. v \in 0..Len(session)
    BY <2>1, <2>2 DEF Clear
  <2>4. jar' = [jar EXCEPT ![req[r].from] = v] \/ jar' = jar
    BY <2>2 DEF Reply
  <2>5. jar \in [Browsers -> 0..Len(session)]
    BY DEF TableInv, SessionTypes
  <2> QED
    BY <2>3, <2>4, <2>5
<1>5. SessionTypes'
  BY <1>1, <1>4 DEF TableInv, SessionTypes, tableVars
<1>6. Minted' /\ RowsTrue'
  BY <1>1 DEF TableInv, Minted, RowsTrue, tableVars
<1> QED
  BY <1>3, <1>5, <1>6 DEF TableInv

LEMMA PassStep ==
  ASSUME clock \in Nat \ {0}, RequestInv, TableInv, Pass
  PROVE  RequestInv' /\ TableInv'
<1>1. /\ clock \in Nat /\ AccessTTL \in Nat /\ Stall \in Nat
      /\ clock' = clock + 1 /\ UNCHANGED <<tableVars, req, jar>>
  BY GateAssumption DEF Pass
<1>2. ASSUME NEW r \in Requests PROVE Carries(req[r])'
  <2>1. req[r] \in RequestRecord /\ Carries(req[r]) /\ req'[r] = req[r]
    BY <1>1 DEF RequestInv
  <2>2. req[r].at \in Nat /\ req[r].exp \in Nat
    BY <2>1 DEF RequestRecord
  <2>3. req[r].stage \in {"stamped", "read"} => clock + 1 <= req[r].at + Stall
    <3>1. req[r].stage \in {"stamped", "read"} => clock < req[r].at + Stall
      BY DEF Pass
    <3> QED
      BY <1>1, <2>2, <3>1
  <2>4. req[r].at <= clock + 1 /\ req[r].exp <= clock + 1 + AccessTTL
    BY <1>1, <2>1, <2>2 DEF Carries
  <2> QED
    BY <1>1, <2>1, <2>3, <2>4 DEF Carries, Clear, tableVars
<1>3. RequestInv'
  BY <1>1, <1>2 DEF RequestInv
<1>4. SessionTypes'
  BY <1>1 DEF TableInv, SessionTypes, tableVars
<1>5. ASSUME NEW s \in DOMAIN session
      PROVE  session[s].minted \in Nat /\ session[s].out \in Nat /\ session[s].ends \in Nat
  <2>1. session[s] \in [ends : Nat, out : Nat, minted : Nat]
    BY <1>5, SessionRecord DEF TableInv
  <2> QED
    BY <2>1
<1>6. Minted'
  BY <1>1, <1>5 DEF TableInv, Minted, tableVars
<1>7. RowsTrue'
  BY <1>1, <1>5 DEF TableInv, RowsTrue, tableVars
<1> QED
  BY <1>3, <1>4, <1>6, <1>7 DEF TableInv

-----------------------------------------------------------------------------
(* The invariant.                                                          *)

LEMMA GateStarts == ASSUME Init PROVE GInv
<1>1. LimiterTypes
  BY GateAssumption, Limits DEF Init, LimiterTypes
<1>2. NoTrueDebt /\ Promised
  BY DEF Init, NoTrueDebt, Promised
<1>3. Owed
  BY Limits DEF Init, Owed, TakenOut
<1>4. RequestInv
  <2>1. Idle \in RequestRecord
    BY DEF RequestRecord, Idle
  <2>2. Carries(Idle)
    BY GateAssumption DEF Init, Carries, Idle, Clear
  <2> QED
    BY <2>1, <2>2 DEF Init, RequestInv
<1>5. TableInv
  <2>1. session = <<>> /\ DOMAIN rows = {} /\ rows = [s \in {} |-> 0]
    BY DEF Init
  <2>2. SessionTypes
    BY <2>1, GateAssumption DEF Init, SessionTypes
  <2>3. Minted /\ RowsTrue
    BY <2>1 DEF Minted, RowsTrue
  <2> QED
    BY <2>2, <2>3 DEF TableInv
<1> QED
  BY <1>1, <1>2, <1>3, <1>4, <1>5 DEF GInv, LimiterInv

LEMMA GateStep == ASSUME GInv, [Next]_vars PROVE GInv'
<1>1. LimiterInv /\ RequestInv /\ TableInv /\ clock \in Nat \ {0}
  BY DEF GInv, LimiterInv, LimiterTypes
<1>2. CASE Pass
  BY <1>1, <1>2, PassLimiter, PassStep DEF GInv
<1>3. ASSUME NEW r \in Requests, Decide(r) PROVE GInv'
  BY <1>1, <1>3, DecideLimiter, RequestSteps DEF GInv
<1>4. ASSUME NEW r \in Requests, UNCHANGED <<clock, limitVars>>,
             \/ \E b \in Browsers, op \in Ops : Arrive(r, b, op)
             \/ Fails(r) \/ RegisterHandler(r)
             \/ LoginHandler(r) \/ issueRefreshSession(r) \/ CreateRefreshToken(r)
             \/ RefreshHandler(r) \/ RefreshSigns(r)
             \/ LogoutHandler(r)
             \/ Reply(r)
      PROVE GInv'
  <2>1. LimiterInv'
    BY <1>1, <1>4, LimiterUnchanged
  <2>2. RequestInv' /\ TableInv'
    BY <1>1, <1>4, RequestSteps, RegisterStep, PurgeStep, CreateStep, SignStep,
       LogoutStep, ReplyStep
  <2> QED
    BY <2>1, <2>2 DEF GInv
<1>5. CASE UNCHANGED vars
  <2>1. LimiterInv' /\ TableInv'
    BY <1>1, <1>5, LimiterUnchanged, TableUnchanged DEF vars
  <2>2. RequestInv'
    BY <1>1, <1>5 DEF RequestInv, Carries, vars, tableVars
  <2> QED
    BY <2>1, <2>2 DEF GInv
<1>6. ASSUME NEW r \in Requests,
             \/ \E b \in Browsers, op \in Ops : Arrive(r, b, op)
             \/ Fails(r) \/ RegisterHandler(r)
             \/ LoginHandler(r) \/ issueRefreshSession(r) \/ CreateRefreshToken(r)
             \/ RefreshHandler(r) \/ RefreshSigns(r)
             \/ LogoutHandler(r)
             \/ Reply(r)
      PROVE  UNCHANGED <<clock, limitVars>>
  BY <1>6 DEF Arrive, Fails, RegisterHandler, LoginHandler, issueRefreshSession,
     CreateRefreshToken, RefreshHandler, RefreshSigns, LogoutHandler, Reply
<1> QED
  BY <1>2, <1>3, <1>4, <1>5, <1>6 DEF Next

LEMMA GateInvariant == Spec => []GInv
BY GateStarts, GateStep, PTL DEF Spec

-----------------------------------------------------------------------------
(* What follows from it.                                                   *)

(* Every variable keeps its type: a bucket never holds more than the       *)
(* burst and owes no more than a stall (Gate, all the handlers).           *)
THEOREM GateTypes == Spec => []TypeOK
<1>1. GInv => TypeOK
  <2> SUFFICES ASSUME GInv PROVE TypeOK
    OBVIOUS
  <2>1. RequestTypes
    <3>1. \A r \in Requests : req[r] \in RequestRecord /\ Carries(req[r])
      BY DEF GInv, RequestInv
    <3>2. req \in [Requests -> RequestRecord]
      BY DEF GInv, RequestInv
    <3> QED
      BY <3>1, <3>2 DEF RequestTypes, RequestRecord, Carries
  <2> QED
    BY <2>1 DEF GInv, LimiterInv, TableInv, TypeOK
<1> QED
  BY <1>1, GateInvariant, PTL

(* ratelimit.go:99-112, 180-185: no caller is let through more often than  *)
(* the burst and the rate allow, whatever its requests interleave with.    *)
THEOREM LimitHolds == Spec => []NeverOverLimit
<1>1. GInv => NeverOverLimit
  <2> SUFFICES ASSUME GInv, NEW a \in Addresses
               PROVE  debt[a] <= Burst + Rate * Stall * (1 + sweeps)
    BY DEF NeverOverLimit
  <2>1. /\ LimiterTypes /\ NoTrueDebt /\ TakenOut(a)
        /\ debt[a] \in Nat /\ sweeps \in Nat /\ clock \in Int
    BY DEF GInv, LimiterInv, Owed, LimiterTypes
  <2>2. Slack \in Nat /\ Burst \in Nat
    BY Limits
  <2>3. Slack * sweeps \in Nat /\ Slack * (1 + sweeps) = Slack * sweeps + Slack
    <3>1. \A u, v \in Nat : u * v \in Nat /\ u * (1 + v) = u * v + u
      OBVIOUS
    <3> QED
      BY <2>1, <2>2, <3>1
  <2>4. debt[a] <= Burst + Slack * (1 + sweeps)
    <3>1. CASE a \in DOMAIN buckets
      <4>1. LevelAt(a, clock) \in Int /\ LevelAt(a, clock) >= 0
        BY <2>1, <3>1, LevelShift DEF NoTrueDebt
      <4> QED
        BY <2>1, <2>2, <2>3, <3>1, <4>1 DEF TakenOut
    <3>2. CASE a \notin DOMAIN buckets
      BY <2>1, <2>2, <2>3, <3>2 DEF TakenOut
    <3> QED
      BY <3>1, <3>2
  <2> QED
    BY <2>4 DEF Slack
<1> QED
  BY <1>1, GateInvariant, PTL

(* ratelimit.go:220-225: the caller who waits as long as Retry-After says  *)
(* is let through, unless another of its requests took the token.          *)
THEOREM RetryAfterIsEnough == Spec => []WaitIsEnough
<1>1. GInv => WaitIsEnough
  <2> SUFFICES ASSUME GInv, NEW a \in Addresses, promise[a] # 0,
                      NEW now \in promise[a]..clock
               PROVE  Enough(Tokens(a, now))
    BY DEF WaitIsEnough
  <2>1. /\ LimiterTypes /\ Promised /\ promise[a] \in Nat /\ clock \in Nat
        /\ Burst \in Nat /\ Burst >= Token /\ Token \in Nat
    BY Limits DEF GInv, LimiterInv, LimiterTypes
  <2>2. now \in Int /\ now >= promise[a]
    BY <2>1
  <2>3. CASE a \in DOMAIN Swept(now)
    <3>1. a \in DOMAIN buckets
      BY <2>1, <2>2, <2>3, SweepDrops
    <3>2. /\ LevelAt(a, now) \in Int /\ LevelAt(a, promise[a]) \in Int
          /\ LevelAt(a, now) >= LevelAt(a, promise[a])
      BY <2>1, <2>2, <3>1, LevelShift
    <3>3. LevelAt(a, promise[a]) >= Token
      BY <2>1, <3>1 DEF Promised
    <3>4. Tokens(a, now) = Min({Burst, LevelAt(a, now)})
      BY <2>3 DEF Tokens, Refill, LevelAt
    <3>5. Tokens(a, now) = IF Burst <= LevelAt(a, now) THEN Burst ELSE LevelAt(a, now)
      BY <2>1, <3>2, <3>4, MinOfTwo
    <3> QED
      BY <2>1, <3>2, <3>3, <3>5 DEF Enough
  <2>4. CASE a \notin DOMAIN Swept(now)
    BY <2>1, <2>4 DEF Tokens, Enough
  <2> QED
    BY <2>3, <2>4
<1> QED
  BY <1>1, GateInvariant, PTL

(* refresh.go:155-160: a lifetime and a stall after a logout, no token of  *)
(* the session is accepted, one signed by a refresh under way included.    *)
THEOREM LogoutEnds == Spec => []LogoutBites
<1>1. GInv => LogoutBites
  <2> SUFFICES ASSUME GInv, NEW s \in DOMAIN session, session[s].out # 0,
                      clock >= session[s].out + AccessTTL + Stall
               PROVE  ~ parseAccessToken(session[s].minted)
    BY DEF LogoutBites
  <2>1. session \in Seq([ends : Nat, out : Nat, minted : Nat]) /\ clock \in Nat
    BY DEF GInv, LimiterInv, LimiterTypes, TableInv, SessionTypes
  <2>2. session[s] \in [ends : Nat, out : Nat, minted : Nat]
    BY SessionRecord DEF GInv, TableInv
  <2>3. session[s].minted <= session[s].out + AccessTTL + Stall
    BY DEF GInv, TableInv, Minted
  <2> QED
    BY <2>1, <2>2, <2>3, GateAssumption DEF parseAccessToken
<1> QED
  BY <1>1, GateInvariant, PTL

(* refresh.go:147-149, 65-77: a cookie that was not logged out stays good  *)
(* for its week, whatever other requests insert, purge or revoke.          *)
THEOREM CookiesStayGood == Spec => []CookieIsGood
<1>1. GInv => CookieIsGood
  <2> SUFFICES ASSUME GInv, NEW b \in Browsers, jar[b] # 0,
                      session[jar[b]].out = 0, ~ (clock >= session[jar[b]].ends)
               PROVE  GetValid(jar[b])
    BY DEF CookieIsGood
  <2>1. session \in Seq([ends : Nat, out : Nat, minted : Nat]) /\ clock \in Nat
    BY DEF GInv, LimiterInv, LimiterTypes, TableInv, SessionTypes
  <2>2. PICK s \in DOMAIN session : s = jar[b]
    BY <2>1 DEF GInv, TableInv, SessionTypes
  <2>3. session[s] \in [ends : Nat, out : Nat, minted : Nat]
    BY SessionRecord DEF GInv, TableInv
  <2>4. s \in DOMAIN rows /\ ~ rows[s].revoked /\ rows[s].exp = session[s].ends
    <3>1. session[s].out = 0 /\ ~ (clock >= session[s].ends)
      BY <2>2
    <3>2. IF s \in DOMAIN rows
          THEN /\ rows[s].revoked <=> session[s].out # 0
               /\ rows[s].exp = session[s].ends
          ELSE session[s].out # 0 \/ clock >= session[s].ends
      BY DEF GInv, TableInv, RowsTrue
    <3> QED
      BY <3>1, <3>2
  <2>5. session[s].ends > clock
    BY <2>1, <2>2, <2>3
  <2> QED
    BY <2>2, <2>4, <2>5 DEF GetValid
<1> QED
  BY <1>1, GateInvariant, PTL
=============================================================================
