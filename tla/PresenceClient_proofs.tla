------------------------ MODULE PresenceClient_proofs ------------------------
(***************************************************************************)
(* The circuit breaker, for any number of callers, any threshold and any   *)
(* deadlines not longer than OpenFor.                                      *)
(***************************************************************************)
EXTENDS PresenceClient, TLAPS

(* What is known of the past from the breaker's state.  While it is open,  *)
(* every call in flight started before it opened, and while it is half     *)
(* open there is a probe that nobody has answered yet.                     *)
BreakerInv ==
  /\ state = "halfOpen" <=> probing
  /\ ClosedByCount
  /\ state = "open" => /\ openAge = quiet
                       /\ \A c \in InFlight : age[c] >= openAge
  /\ OneProbe

Inv == TypeOK /\ BreakerInv

-----------------------------------------------------------------------------
LEMMA InitInv == Init => Inv
<1> SUFFICES ASSUME Init PROVE Inv
  OBVIOUS
<1>1. TypeOK
  <2>1. age = [c \in Callers |-> 0] /\ \A c \in Callers : 0 <= Timeout[c]
    BY ClientAssumption DEF Init, newBreaker
  <2>2. attempt \in [Callers -> 1..MaxAttempts]
    BY ClientAssumption DEF Init, newBreaker
  <2>3. up \in BOOLEAN /\ gone \in [Callers -> BOOLEAN] /\ hurt \in [Callers -> BOOLEAN]
    BY DEF Init, newBreaker
  <2>4. /\ openAge \in 0..OpenFor /\ quiet \in 0..OpenFor
        /\ cancels \in 0..MaxCancels
    BY ClientAssumption DEF Init, newBreaker
  <2>5. probing \in BOOLEAN
    BY DEF Init, newBreaker
  <2> QED
    BY <2>1, <2>2, <2>3, <2>4, <2>5 DEF Init, newBreaker, TypeOK, CallerState
<1>2. InFlight = {}
  BY DEF Init, newBreaker, InFlight
<1>3. state = "closed" /\ ~probing /\ ClosedByCount
  BY ClientAssumption DEF Init, newBreaker, ClosedByCount
<1> QED
  BY <1>1, <1>2, <1>3 DEF Inv, BreakerInv, OneProbe

(* The call of a caller that returns has its types.                        *)
CallsTyped ==
  /\ cpc \in [Callers -> CallerState]
  /\ age \in [Callers -> Nat] /\ \A c \in Callers : age[c] <= Timeout[c]
  /\ attempt \in [Callers -> 1..MaxAttempts]
  /\ \A c \in Callers : cpc[c] = "wait" => attempt[c] < MaxAttempts
  /\ gone \in [Callers -> BOOLEAN]
  /\ cancels \in 0..MaxCancels
  /\ up \in BOOLEAN
  /\ hurt \in [Callers -> BOOLEAN]

LEMMA ReturnTyped == ASSUME TypeOK, NEW c \in Callers, Return(c) PROVE CallsTyped'
<1> USE DEF Return, TypeOK
<1>1. cpc' \in [Callers -> CallerState]
  BY DEF CallerState
<1>2. age' \in [Callers -> Nat] /\ \A d \in Callers : age'[d] <= Timeout[d]
  <2>1. \A d \in Callers : age'[d] = (IF d = c THEN 0 ELSE age[d]) /\ Timeout[d] \in Nat
    BY ClientAssumption
  <2> QED
    BY <2>1
<1>3. /\ attempt' \in [Callers -> 1..MaxAttempts]
      /\ \A d \in Callers : cpc'[d] = "wait" => attempt'[d] < MaxAttempts
  BY ClientAssumption
<1>4. gone' \in [Callers -> BOOLEAN] /\ hurt' \in [Callers -> BOOLEAN]
  OBVIOUS
<1>5. cancels' \in 0..MaxCancels /\ up' \in BOOLEAN
  OBVIOUS
<1> QED
  BY <1>1, <1>2, <1>3, <1>4, <1>5 DEF CallsTyped

LEMMA TypeStep == TypeOK /\ [Next]_vars => TypeOK'
<1> SUFFICES ASSUME TypeOK, [Next]_vars PROVE TypeOK'
  OBVIOUS
<1> USE ClientAssumption
    DEF TypeOK, CallerState, vars, breakerVars, callVars, serviceVars, InFlight
<1>1. ASSUME NEW c \in Callers, Start(c) PROVE TypeOK'
  BY <1>1 DEF Start, Allow
<1>2. ASSUME NEW c \in Callers, Answered(c) PROVE TypeOK'
  <2>1. CallsTyped'
    BY <1>2, ReturnTyped DEF Answered
  <2>2. /\ state' = "closed" /\ failures' = 0 /\ probing' = FALSE
        /\ UNCHANGED <<openAge, quiet>>
    BY <1>2 DEF Answered, Success
  <2> QED
    BY <2>1, <2>2 DEF CallsTyped
<1>3. ASSUME NEW c \in Callers, BackOff(c) PROVE TypeOK'
  BY <1>3 DEF BackOff
<1>4. ASSUME NEW c \in Callers, Retry(c) PROVE TypeOK'
  <2>1. /\ attempt' \in [Callers -> 1..MaxAttempts]
        /\ cpc' \in [Callers -> CallerState]
        /\ \A d \in Callers : cpc'[d] = "wait" => attempt'[d] < MaxAttempts
    BY <1>4 DEF Retry
  <2>2. hurt' \in [Callers -> BOOLEAN]
    BY <1>4 DEF Retry
  <2> QED
    BY <1>4, <2>1, <2>2 DEF Retry
<1>5. ASSUME NEW c \in Callers, Unanswered(c) PROVE TypeOK'
  <2>1. CallsTyped'
    BY <1>5, ReturnTyped DEF Unanswered
  <2>2. CASE gone[c]
    BY <1>5, <2>1, <2>2 DEF Unanswered, Record, CallsTyped
  <2>3. CASE ~gone[c]
    <3>1. Failure
      BY <1>5, <2>3 DEF Unanswered, Record
    <3>2. /\ state' \in {"closed", "open", "halfOpen"} /\ failures' \in Nat
          /\ openAge' \in 0..OpenFor /\ quiet' \in 0..OpenFor
      BY <3>1 DEF Failure
    <3>3. probing' \in BOOLEAN
      BY <3>1 DEF Failure
    <3> QED
      BY <2>1, <3>2, <3>3 DEF CallsTyped
  <2> QED
    BY <2>2, <2>3
<1>6. ASSUME NEW c \in Callers, Cancel(c) PROVE TypeOK'
  BY <1>6 DEF Cancel
<1>7. CASE GoDown
  <2>1. \A c \in Callers : (c \in InFlight) \in BOOLEAN
    OBVIOUS
  <2>2. hurt' \in [Callers -> BOOLEAN]
    BY <1>7, <2>1, Zenon DEF GoDown
  <2>3. up' \in BOOLEAN
    BY <1>7 DEF GoDown
  <2> QED
    BY <1>7, <2>2, <2>3 DEF GoDown
<1>8. CASE ComeUp
  BY <1>8 DEF ComeUp
<1>9. CASE Tick
  BY <1>9 DEF Tick, Older
<1>10. CASE UNCHANGED vars
  BY <1>10
<1> QED
  BY <1>1, <1>2, <1>3, <1>4, <1>5, <1>6, <1>7, <1>8, <1>9, <1>10 DEF Next, Call

(* A step that lets the breaker be and starts no call.                     *)
LEMMA BreakerIdleInv ==
  ASSUME Inv, UNCHANGED <<breakerVars, age>>, InFlight' \subseteq InFlight
  PROVE  BreakerInv'
<1> USE DEF Inv, BreakerInv, breakerVars
<1>1. ClosedByCount'
  BY DEF ClosedByCount
<1>2. OneProbe'
  BY DEF OneProbe
<1> QED
  BY <1>1, <1>2

(* The call that just ended is not in flight, the others are as they were. *)
LEMMA ReturnEnds ==
  ASSUME TypeOK, NEW c \in Callers, Return(c)
  PROVE  /\ InFlight' = InFlight \ {c}
         /\ \A d \in InFlight' : age'[d] = age[d]
  BY DEF TypeOK, Return, InFlight

LEMMA StartInv == ASSUME Inv, NEW c \in Callers, Start(c) PROVE BreakerInv'
<1> USE DEF Inv
<1>1. InFlight' = InFlight \cup {c} /\ UNCHANGED <<age, failures, openAge, quiet>>
  BY DEF Start, Allow, TypeOK, InFlight
<1>2. CASE state = "closed"
  <2>1. state' = "closed" /\ probing' = FALSE
    BY <1>2 DEF Start, Allow
  <2> QED
    BY <1>1, <1>2, <2>1 DEF BreakerInv, ClosedByCount, OneProbe
<1>3. CASE state = "open" /\ openAge = OpenFor
  <2>1. state' = "halfOpen" /\ probing' = TRUE
    BY <1>3 DEF Start, Allow
  <2>2. \A d \in InFlight : ~(age[d] < Timeout[d])
    BY <1>3, ClientAssumption DEF BreakerInv, TypeOK, InFlight
  <2>3. OneProbe'
    BY <1>1, <2>2 DEF OneProbe
  <2> QED
    BY <1>1, <1>3, <2>1, <2>3 DEF BreakerInv, ClosedByCount
<1> QED
  BY <1>2, <1>3 DEF Start, Allow, MayGo, BreakerInv, TypeOK

LEMMA SuccessInv == ASSUME Inv, Success PROVE BreakerInv'
<1>1. state' = "closed" /\ probing' = FALSE /\ failures' = 0
  BY DEF Success
<1> QED
  BY <1>1, ClientAssumption DEF BreakerInv, ClosedByCount, OneProbe

LEMMA FailureInv ==
  ASSUME Inv, NEW c \in Callers, Failure, Return(c) PROVE BreakerInv'
<1> USE DEF Inv
<1>1. probing' = FALSE /\ quiet' = 0
  BY DEF Failure
<1>2. \A d \in InFlight' : age'[d] >= 0
  BY ReturnEnds DEF TypeOK, InFlight
<1>3. CASE state = "halfOpen" \/ failures' >= Threshold
  <2>1. state' = "open" /\ openAge' = 0
    BY <1>3 DEF Failure
  <2>2. failures' >= Threshold
    BY <1>3, ClientAssumption DEF Failure, BreakerInv, ClosedByCount, TypeOK
  <2>3. ClosedByCount' /\ OneProbe'
    BY <2>1, <2>2, ClientAssumption DEF ClosedByCount, OneProbe, Failure, TypeOK
  <2> QED
    BY <1>1, <1>2, <2>1, <2>3 DEF BreakerInv
<1>4. CASE ~(state = "halfOpen" \/ failures' >= Threshold)
  <2>1. state' = state /\ failures' = failures + 1 /\ failures' < Threshold
    BY <1>4, ClientAssumption DEF Failure, TypeOK
  <2>2. state = "closed"
    BY <1>4, <2>1, ClientAssumption DEF BreakerInv, ClosedByCount, TypeOK
  <2>3. ClosedByCount' /\ OneProbe'
    BY <2>1, <2>2 DEF ClosedByCount, OneProbe
  <2> QED
    BY <1>1, <2>1, <2>2, <2>3 DEF BreakerInv
<1> QED
  BY <1>3, <1>4

LEMMA UnansweredInv == ASSUME Inv, NEW c \in Callers, Unanswered(c) PROVE BreakerInv'
<1>1. Record(c) /\ Return(c)
  BY DEF Unanswered
<1>2. CASE gone[c]
  <2>1. UNCHANGED breakerVars
    BY <1>1, <1>2 DEF Record
  <2>2. InFlight' = InFlight \ {c} /\ \A d \in InFlight' : age'[d] = age[d]
    BY <1>1, ReturnEnds DEF Inv
  <2>3. ClosedByCount'
    BY <2>1 DEF Inv, BreakerInv, ClosedByCount, breakerVars
  <2>4. OneProbe'
    BY <2>1, <2>2 DEF Inv, BreakerInv, OneProbe, breakerVars
  <2> QED
    BY <2>1, <2>2, <2>3, <2>4 DEF Inv, BreakerInv, breakerVars
<1>3. CASE ~gone[c]
  BY <1>1, <1>3, FailureInv DEF Record
<1> QED
  BY <1>2, <1>3

LEMMA TickInv == ASSUME Inv, Tick PROVE BreakerInv'
<1> USE DEF Inv
<1>1. /\ UNCHANGED <<state, failures, probing>> /\ InFlight' = InFlight
      /\ openAge' = Older(openAge) /\ quiet' = Older(quiet)
      /\ \A c \in InFlight : age'[c] = age[c] + 1 /\ age[c] < Timeout[c] /\ age[c] \in Nat
  BY DEF Tick, InFlight, TypeOK
<1>2. ClosedByCount'
  BY <1>1 DEF BreakerInv, ClosedByCount
<1>3. state = "open" => openAge' = quiet' /\ \A c \in InFlight' : age'[c] >= openAge'
  BY <1>1, ClientAssumption DEF BreakerInv, Older, TypeOK
<1>4. OneProbe'
  <2> SUFFICES ASSUME state = "halfOpen", NEW c \in InFlight, NEW d \in InFlight,
                      age'[c] < Timeout[c], age'[d] < Timeout[d]
               PROVE  c = d
    BY <1>1 DEF OneProbe
  <2> QED
    BY <1>1 DEF BreakerInv, OneProbe
<1> QED
  BY <1>1, <1>2, <1>3, <1>4 DEF BreakerInv

(* The circuit breaker keeps its count, its clock and its single probe.    *)
THEOREM BreakerCorrect == Spec => []Inv
<1>1. Inv /\ [Next]_vars => Inv'
  <2> SUFFICES ASSUME Inv, [Next]_vars PROVE Inv'
    OBVIOUS
  <2> USE DEF vars, breakerVars, callVars, serviceVars
  <2>1. TypeOK'
    BY TypeStep DEF Inv
  <2>2. ASSUME NEW c \in Callers, Call(c) PROVE BreakerInv'
    <3>1. CASE Start(c)
      BY <3>1, StartInv
    <3>2. CASE Answered(c)
      BY <3>2, SuccessInv DEF Answered
    <3>3. CASE BackOff(c)
      BY <3>3, BreakerIdleInv DEF BackOff, InFlight, Inv, TypeOK
    <3>4. CASE Retry(c)
      BY <3>4, BreakerIdleInv DEF Retry, InFlight, Inv, TypeOK
    <3>5. CASE Unanswered(c)
      BY <3>5, UnansweredInv
    <3> QED
      BY <2>2, <3>1, <3>2, <3>3, <3>4, <3>5 DEF Call
  <2>3. ASSUME NEW c \in Callers, Cancel(c) PROVE BreakerInv'
    BY <2>3, BreakerIdleInv DEF Cancel, InFlight
  <2>4. CASE GoDown \/ ComeUp
    <3>1. UNCHANGED <<breakerVars, callVars>>
      BY <2>4 DEF GoDown, ComeUp
    <3> QED
      BY <2>1, <3>1, BreakerIdleInv DEF InFlight, Inv
  <2>5. CASE Tick
    BY <2>1, <2>5, TickInv DEF Inv
  <2>6. CASE UNCHANGED vars
    BY <2>1, <2>6, BreakerIdleInv DEF InFlight, Inv
  <2> QED
    BY <2>1, <2>2, <2>3, <2>4, <2>5, <2>6 DEF Next, Inv
<1> QED
  BY InitInv, <1>1, PTL DEF Spec

(* Every variable of the client keeps its type.                            *)
THEOREM ClientTypes == Spec => []TypeOK
  BY BreakerCorrect, PTL DEF Inv

(* breaker.go: at most one call with time left to run is in flight while   *)
(* the circuit is half open.                                               *)
THEOREM SingleProbe == Spec => []OneProbe
  BY BreakerCorrect, PTL DEF Inv, BreakerInv

(* breaker.go: the circuit is closed exactly below the threshold.          *)
THEOREM CountsToThreshold == Spec => []ClosedByCount
  BY BreakerCorrect, PTL DEF Inv, BreakerInv

(* breaker.go, failure(): nothing goes through for OpenFor after a failure *)
(* that left the circuit open.                                             *)
THEOREM WaitsOut == Spec => WaitsAfterFailure
<1>1. Inv /\ [Next]_vars => [probing' /\ ~probing => quiet = OpenFor]_vars
  <2> SUFFICES ASSUME Inv, Next, probing', ~probing PROVE quiet = OpenFor
    OBVIOUS
  <2>1. PICK c \in Callers : Start(c)
    BY DEF Next, Call, Answered, Success, BackOff, Retry, Unanswered, Record, Failure,
           Cancel, GoDown, ComeUp, Tick, breakerVars
  <2>2. state = "open" /\ openAge = OpenFor
    BY <2>1 DEF Start, Allow, MayGo, Inv, BreakerInv, TypeOK
  <2> QED
    BY <2>2 DEF Inv, BreakerInv
<1> QED
  BY <1>1, BreakerCorrect, PTL DEF Spec, WaitsAfterFailure
==============================================================================
