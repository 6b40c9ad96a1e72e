--------------------------- MODULE PresenceClient ---------------------------
(***************************************************************************)
(* Calls from one API node to the presence service: the circuit breaker of *)
(* internal/presence/breaker.go and Client.call of client.go around it,    *)
(* used by many goroutines at once.  A caller is a goroutine that makes    *)
(* one call after another: the heartbeat timer, or a page that asks who is *)
(* online.  Every method of the breaker holds its mutex, so each is one    *)
(* step together with the code of call next to it.                         *)
(*                                                                         *)
(* Time is discrete and only differences are kept, up to the longest one   *)
(* the code compares with.  The service is either up or down; an attempt   *)
(* may go unanswered only if the service was down during it.  Left out:    *)
(* the answers, the length of a backoff (shorter than a tick), Ping, which *)
(* skips the breaker, counters and traces.                                 *)
(***************************************************************************)
EXTENDS Naturals, FiniteSets

CONSTANTS
  Callers,
  Timeout,      \* the deadline of each caller's calls, in ticks
  Threshold,    \* breakerThreshold
  OpenFor,      \* breakerOpenFor, in ticks
  MaxAttempts,
  MaxFailures,  \* bound: no new probe once this many failures are counted
  MaxCancels    \* bound: cancelled calls

ASSUME ClientAssumption ==
  /\ Timeout \in [Callers -> Nat]
  /\ \A c \in Callers : Timeout[c] <= OpenFor
  /\ Threshold \in Nat \ {0} /\ OpenFor \in Nat /\ MaxAttempts \in Nat \ {0}
  /\ MaxFailures \in Nat /\ MaxCancels \in Nat

VARIABLES
  \* the breaker
  state, failures, probing,
  openAge,      \* now - openedAt, up to OpenFor; OpenFor before the first failure
  \* calls
  cpc,          \* where each caller is in call
  age,          \* time since its call started
  attempt,
  gone,         \* the caller's own context is cancelled: parent.Err() # nil
  cancels,      \* counts cancellations, for the bound
  \* the service (external)
  up,
  hurt,         \* the service was down at some moment of the call's attempt
  \* history
  quiet         \* time since a failure was last counted, up to OpenFor

breakerVars == <<state, failures, probing, openAge, quiet>>
callVars    == <<cpc, age, attempt, gone, cancels>>
serviceVars == <<up, hurt>>
vars == <<breakerVars, callVars, serviceVars>>

(* idle - try - (wait - try ...) - idle.                                   *)
CallerState == {"idle", "try", "wait"}

InFlight == {c \in Callers : cpc[c] # "idle"}

TypeOK ==
  /\ state \in {"closed", "open", "halfOpen"}
  /\ failures \in Nat
  /\ probing \in BOOLEAN
  /\ openAge \in 0..OpenFor /\ quiet \in 0..OpenFor
  /\ cpc \in [Callers -> CallerState]
  /\ age \in [Callers -> Nat] /\ \A c \in Callers : age[c] <= Timeout[c]
  /\ attempt \in [Callers -> 1..MaxAttempts]
  /\ \A c \in Callers : cpc[c] = "wait" => attempt[c] < MaxAttempts
  /\ gone \in [Callers -> BOOLEAN]
  /\ cancels \in 0..MaxCancels
  /\ up \in BOOLEAN
  /\ hurt \in [Callers -> BOOLEAN]

newBreaker ==
  /\ state = "closed" /\ failures = 0 /\ probing = FALSE
  /\ openAge = OpenFor /\ quiet = OpenFor

(* FromEnv waits for nothing: the service may be down when the client is   *)
(* made.                                                                   *)
Init ==
  /\ newBreaker
  /\ cpc = [c \in Callers |-> "idle"]
  /\ age = [c \in Callers |-> 0]
  /\ attempt = [c \in Callers |-> 1]
  /\ gone = [c \in Callers |-> FALSE]
  /\ cancels = 0
  /\ up \in BOOLEAN
  /\ hurt = [c \in Callers |-> FALSE]

-----------------------------------------------------------------------------
(* The breaker                                                             *)

(* Mutant: everybody goes through a half-open circuit.                     *)
MayGoWhileProbing == state = "open" => openAge = OpenFor

(* allow() answers true.                                                   *)
MayGo == \/ state = "closed"
         \/ state = "open" /\ openAge = OpenFor
         \/ state = "halfOpen" /\ ~probing

Allow ==
  /\ MayGo
  /\ state' = IF state = "open" THEN "halfOpen" ELSE state
  /\ probing' = (state # "closed")
  /\ UNCHANGED <<failures, openAge, quiet>>

Success ==
  /\ failures' = 0
  /\ probing' = FALSE
  /\ state' = "closed"
  /\ UNCHANGED <<openAge, quiet>>

(* Mutant: a failed probe does not start a new wait.                       *)
FailureKeepsWait ==
  /\ probing' = FALSE
  /\ failures' = IF state = "halfOpen" THEN failures ELSE failures + 1
  /\ state' = IF failures' >= Threshold THEN "open" ELSE state
  /\ openAge' = IF state # "halfOpen" /\ failures' >= Threshold THEN 0 ELSE openAge
  /\ quiet' = 0

(* Mutant: the count starts again with a failed probe.                     *)
FailureForgets ==
  /\ probing' = FALSE
  /\ failures' = IF state = "halfOpen" THEN 0 ELSE failures + 1
  /\ state' = IF state = "halfOpen" \/ failures' >= Threshold THEN "open" ELSE state
  /\ openAge' = IF state' = "open" THEN 0 ELSE openAge
  /\ quiet' = 0

(* A failed probe opens the circuit for another OpenFor and is not added   *)
(* to the count; any other failure is, and opens it from Threshold on.     *)
Failure ==
  /\ probing' = FALSE
  /\ failures' = IF state = "halfOpen" THEN failures ELSE failures + 1
  /\ IF state = "halfOpen" \/ failures' >= Threshold
     THEN state' = "open" /\ openAge' = 0
     ELSE UNCHANGED <<state, openAge>>
  /\ quiet' = 0

-----------------------------------------------------------------------------
(* Client.call                                                             *)

(* A refused call returns ErrCircuitOpen and changes nothing.              *)
Start(c) ==
  /\ cpc[c] = "idle"
  /\ state = "open" => failures <= MaxFailures
  /\ Allow
  /\ cpc' = [cpc EXCEPT ![c] = "try"]
  /\ hurt' = [hurt EXCEPT ![c] = ~up]
  /\ UNCHANGED <<age, attempt, gone, cancels, up>>

Return(c) ==
  /\ cpc' = [cpc EXCEPT ![c] = "idle"]
  /\ age' = [age EXCEPT ![c] = 0]
  /\ attempt' = [attempt EXCEPT ![c] = 1]
  /\ gone' = [gone EXCEPT ![c] = FALSE]
  /\ hurt' = [hurt EXCEPT ![c] = FALSE]
  /\ UNCHANGED <<cancels, up>>

(* The gRPC code an attempt ends with: a result, an error the service      *)
(* produced, or one of those nobody sent.                                  *)
Codes(c) ==
  {code \in {"ok", "invalid", "unavailable", "deadline", "canceled"} :
     /\ code = "unavailable" => hurt[c]
     /\ code = "deadline" => hurt[c] /\ age[c] = Timeout[c]
     /\ code = "canceled" => gone[c]}

answered(code) == code \notin {"unavailable", "deadline", "canceled"}

retryable(code) == code = "unavailable"

(* The attempt is answered, with the result or with an error the service   *)
(* itself produced -- also when the caller has gone meanwhile.             *)
Answered(c) ==
  /\ cpc[c] = "try"
  /\ \E code \in Codes(c) : answered(code)
  /\ Success
  /\ Return(c)

(* Mutant: a probe that timed out is not booked.                           *)
RecordSkipsProbe(c) == IF gone[c] \/ state = "halfOpen" THEN UNCHANGED breakerVars
                                                       ELSE Failure

(* Nobody answered.  A caller who gave up first is not counted.            *)
Record(c) == IF gone[c] THEN UNCHANGED breakerVars ELSE Failure

(* Unavailable with attempts and time left: back off.                      *)
BackOff(c) ==
  /\ cpc[c] = "try"
  /\ \E code \in Codes(c) : retryable(code)
  /\ attempt[c] < MaxAttempts
  /\ age[c] < Timeout[c]
  /\ cpc' = [cpc EXCEPT ![c] = "wait"]
  /\ UNCHANGED <<breakerVars, age, attempt, gone, cancels, serviceVars>>

Retry(c) ==
  /\ cpc[c] = "wait"
  /\ age[c] < Timeout[c]
  /\ cpc' = [cpc EXCEPT ![c] = "try"]
  /\ attempt' = [attempt EXCEPT ![c] = @ + 1]
  /\ hurt' = [hurt EXCEPT ![c] = ~up]
  /\ UNCHANGED <<breakerVars, age, gone, cancels, up>>

(* The last attempt was Unavailable, the deadline is too near for another  *)
(* one or passed, or the caller went away during an attempt or a wait.     *)
Unanswered(c) ==
  /\ cpc[c] # "idle"
  /\ \E code \in Codes(c) :
       /\ ~answered(code)
       /\ retryable(code) => attempt[c] = MaxAttempts \/ age[c] + 1 >= Timeout[c]
  /\ Record(c)
  /\ Return(c)

(* The user closes the tab while the call is in flight.                    *)
Cancel(c) ==
  /\ c \in InFlight
  /\ ~gone[c]
  /\ cancels < MaxCancels
  /\ cancels' = cancels + 1
  /\ gone' = [gone EXCEPT ![c] = TRUE]
  /\ UNCHANGED <<breakerVars, cpc, age, attempt, serviceVars>>

-----------------------------------------------------------------------------
(* The service and time                                                    *)

GoDown == /\ up
          /\ up' = FALSE
          /\ hurt' = [c \in Callers |-> c \in InFlight]
          /\ UNCHANGED <<breakerVars, callVars>>

ComeUp == /\ ~up
          /\ up' = TRUE
          /\ UNCHANGED <<breakerVars, callVars, hurt>>

Older(t) == IF t < OpenFor THEN t + 1 ELSE t

(* Mutant: a call has no deadline of its own.                              *)
TickPastDeadline ==
  /\ age' = [c \in Callers |-> IF c \in InFlight THEN age[c] + 1 ELSE age[c]]
  /\ openAge' = Older(openAge)
  /\ quiet' = Older(quiet)
  /\ UNCHANGED <<state, failures, probing, cpc, attempt, gone, cancels, serviceVars>>

(* A call whose deadline has passed returns before time goes on.           *)
Tick ==
  /\ \A c \in InFlight : age[c] < Timeout[c]
  /\ age' = [c \in Callers |-> IF c \in InFlight THEN age[c] + 1 ELSE age[c]]
  /\ openAge' = Older(openAge)
  /\ quiet' = Older(quiet)
  /\ UNCHANGED <<state, failures, probing, cpc, attempt, gone, cancels, serviceVars>>

-----------------------------------------------------------------------------
Call(c) ==
  \/ Start(c)
  \/ Answered(c)
  \/ BackOff(c)
  \/ Retry(c)
  \/ Unanswered(c)

Next ==
  \/ \E c \in Callers : Call(c)
  \/ \E c \in Callers : Cancel(c)
  \/ GoDown
  \/ ComeUp
  \/ Tick

Spec == Init /\ [][Next]_vars

(* Time passes, every call that was let through ends (its context has a    *)
(* deadline), and somebody goes on asking: the heartbeat timer always does.*)
Fairness ==
  /\ WF_vars(Tick)
  /\ \A c \in Callers :
       /\ WF_vars(Start(c))
       /\ WF_vars(Answered(c) \/ BackOff(c) \/ Retry(c) \/ Unanswered(c))

FairSpec == Spec /\ Fairness

-----------------------------------------------------------------------------
(* breaker.go: "Exactly one probe at a time."  While the circuit is half   *)
(* open at most one call is in flight that still has time to run: calls    *)
(* from before the circuit opened have met their deadlines, because no     *)
(* deadline is longer than OpenFor.                                        *)
OneProbe ==
  state = "halfOpen" =>
    \A c, d \in InFlight : age[c] < Timeout[c] /\ age[d] < Timeout[d] => c = d

(* failure(): a circuit that opened lets no call through until OpenFor has *)
(* passed since the last failure that was counted, late ones of calls from *)
(* before it opened included.                                              *)
WaitsAfterFailure ==
  [][probing' /\ ~probing => quiet = OpenFor]_vars

(* The circuit is closed exactly while fewer than Threshold failures were  *)
(* counted since the last answer, whatever order the calls of several      *)
(* goroutines end in.                                                      *)
ClosedByCount == state = "closed" <=> failures < Threshold

(* breaker.go: "One probe is what makes recovery automatic".  Once the     *)
(* service stays up, the circuit closes and stays closed.                  *)
Recovers == <>[]up => <>[](state = "closed")

(* It does as long as nobody who is in a call goes away while the circuit  *)
(* is half open, however often callers go away at other times and whatever *)
(* late failures and timeouts there are.                                   *)
ProbeStays == state = "halfOpen" => \A c \in Callers : ~gone[c]

RecoversIfProbeStays == []ProbeStays => Recovers
==============================================================================
