-------------------------- MODULE CircuitBreakerProofs -------------------------
(***************************************************************************)
(* Theorems about CircuitBreaker, for any requests, threshold and number   *)
(* of attempts.                                                            *)
(***************************************************************************)
EXTENDS CircuitBreaker, TLAPS

USE ThresholdAssumption, AttemptsAssumption, PermitAssumption

LEMMA InvInit ==
    ASSUME Init
    PROVE  Inv
<1>1. TypeOK
  <2>1. 0 \in 0 .. RetryAttempts - 1 /\ 0 < FailureThreshold
    OBVIOUS
  <2>2. /\ pc \in [Request -> {"idle", "asking", "sent", "delay"}]
        /\ attempt \in [Request -> 0 .. RetryAttempts - 1]
        /\ permit \in [Request -> Permit \cup {None}]
    BY <2>1 DEF Init
  <2> QED
    BY <2>1, <2>2 DEF Init, TypeOK
<1>2. \A r \in Request : pc[r] = "idle" /\ permit[r] = None
  BY DEF Init
<1>3. Current = {} /\ Probing = {}
  BY <1>2 DEF Current, Probing
<1>4. PermitsInv
  BY <1>2, <1>3 DEF Init, PermitsInv
<1> QED
  BY <1>1, <1>4 DEF Inv

\* What Inv says of a request on its way.
LEMMA OnItsWay ==
    ASSUME Inv, NEW r \in Request, pc[r] = "sent"
    PROVE  permit[r] \in Permit /\ permit[r].generation <= generation
BY DEF Inv, TypeOK, PermitsInv

\* Nothing of the breaker, and nobody on its way, is concerned.
LEMMA AsideKeeps ==
    ASSUME Inv, UNCHANGED <<breaker, permit>>,
           pc' \in [Request -> {"idle", "asking", "sent", "delay"}],
           \A r \in Request : pc'[r] = "sent" <=> pc[r] = "sent",
           attempt' \in [Request -> 0 .. RetryAttempts - 1],
           odoo' \in {"up", "down"}
    PROVE  Inv' /\ Probing' = Probing
<1>1. TypeOK'
  BY DEF Inv, TypeOK, breaker
<1>2. Current' = Current /\ Probing' = Probing
  BY DEF Current, Probing, breaker
<1>3. PermitsInv'
  BY <1>2 DEF Inv, PermitsInv, breaker
<1> QED
  BY <1>1, <1>2, <1>3 DEF Inv

\* acquire() lets r go ahead.
LEMMA SendsKeeps ==
    ASSUME Inv, NEW r \in Request, pc[r] = "asking", NEW probe \in BOOLEAN,
           Sends(r, probe),
           \/ ~ opened /\ ~ probe /\ probeInFlight' = probeInFlight
           \/ opened /\ rested /\ ~ probeInFlight /\ probe /\ probeInFlight' = TRUE
    PROVE  Inv' /\ Probing' = IF probe THEN {r} ELSE Probing
<1>1. /\ permit' = [permit EXCEPT ![r] = [generation |-> generation, probe |-> probe]]
      /\ pc' = [pc EXCEPT ![r] = "sent"]
      /\ UNCHANGED <<failures, opened, rested, generation, attempt, odoo>>
  BY DEF Sends
<1> DEFINE new == [generation |-> generation, probe |-> probe]
<1>2. new \in Permit /\ new.generation = generation /\ new.probe = probe /\ new # None
  BY DEF Inv, TypeOK, Permit
<1> HIDE DEF new
<1>3. /\ pc'[r] = "sent" /\ permit'[r] = new
      /\ \A s \in Request \ {r} : pc'[s] = pc[s] /\ permit'[s] = permit[s]
  BY <1>1 DEF Inv, TypeOK, new
<1>4. TypeOK'
  <2>1. permit' \in [Request -> Permit \cup {None}]
    BY <1>1, <1>2 DEF Inv, TypeOK, new
  <2> QED
    BY <1>1, <2>1 DEF Inv, TypeOK
<1>5. r \notin Current
  BY DEF Current
<1>6. Current' = Current \cup {r}
  <2>1. ASSUME NEW s \in Request
        PROVE  s \in Current' <=> s \in Current \/ s = r
    <3>1. generation' = generation
      BY <1>1
    <3>2. CASE s = r
      BY <1>2, <1>3, <3>1, <3>2 DEF Current
    <3>3. CASE s # r
      BY <1>3, <3>1, <3>3 DEF Current
    <3> QED
      BY <3>2, <3>3
  <2>2. Current' \subseteq Request /\ Current \subseteq Request
    BY DEF Current
  <2> QED
    BY <2>1, <2>2
<1>7. Probing' = IF probe THEN Probing \cup {r} ELSE Probing
  <2>1. ASSUME NEW s \in Current' PROVE permit'[s].probe = IF s = r THEN probe ELSE permit[s].probe
    BY <1>2, <1>3, <2>1 DEF Current
  <2>2. CASE probe
    BY <1>5, <1>6, <2>1, <2>2 DEF Probing
  <2>3. CASE ~ probe
    BY <1>5, <1>6, <2>1, <2>3 DEF Probing
  <2> QED
    BY <2>2, <2>3
<1>8. probe => Probing = {}
  BY DEF Inv, PermitsInv
<1>9. PermitsInv'
  <2>1. /\ \A s \in Request : permit'[s] = None <=> pc'[s] # "sent"
        /\ \A s \in Request : pc'[s] = "sent" => permit'[s].generation <= generation'
    BY <1>1, <1>2, <1>3 DEF Inv, TypeOK, PermitsInv
  <2>2. IF opened' THEN Current' = Probing' ELSE Probing' = {}
    BY <1>1, <1>6, <1>7 DEF Inv, PermitsInv
  <2>3. /\ \A s, u \in Probing' : s = u
        /\ probeInFlight' <=> Probing' # {}
        /\ (rested' => opened') /\ (probeInFlight' => rested')
    BY <1>1, <1>7, <1>8 DEF Inv, PermitsInv
  <2> QED
    BY <2>1, <2>2, <2>3 DEF PermitsInv
<1> QED
  BY <1>4, <1>7, <1>8, <1>9 DEF Inv

\* An attempt that is no probe is settled, and at most counted.
LEMMA CountedKeeps ==
    ASSUME Inv, NEW r \in Request, pc[r] = "sent", Settled(r),
           UNCHANGED <<opened, rested, probeInFlight, generation>>,
           failures' \in Nat, ~ opened => failures' < FailureThreshold,
           r \notin Probing, NEW c \in {"idle", "delay"}, pc' = [pc EXCEPT ![r] = c],
           attempt' \in [Request -> 0 .. RetryAttempts - 1]
    PROVE  Inv' /\ Probing' = Probing
<1>1. /\ permit'[r] = None /\ pc'[r] # "sent"
      /\ \A s \in Request \ {r} : pc'[s] = pc[s] /\ permit'[s] = permit[s]
  BY DEF Settled, Inv, TypeOK
<1>2. TypeOK'
  BY DEF Inv, TypeOK, Settled
<1>3. Current' = Current \ {r} /\ Probing' = Probing
  BY <1>1 DEF Current, Probing
<1>4. PermitsInv'
  <2>1. \A s \in Request : /\ permit'[s] = None <=> pc'[s] # "sent"
                           /\ pc'[s] = "sent" => permit'[s].generation <= generation'
    BY <1>1 DEF Inv, PermitsInv
  <2> QED
    BY <1>3, <2>1 DEF Inv, PermitsInv
<1> QED
  BY <1>2, <1>3, <1>4 DEF Inv

\* The probe ends without an outcome.
LEMMA AbandonedKeeps ==
    ASSUME Inv, NEW r \in Probing, Settled(r), pc' = [pc EXCEPT ![r] = "idle"],
           probeInFlight' = FALSE, UNCHANGED <<failures, opened, rested, generation, attempt>>
    PROVE  Inv' /\ Probing' = {}
<1>1. r \in Request /\ opened /\ Current = {r}
  BY DEF Inv, PermitsInv, Probing, Current
<1>2. /\ permit'[r] = None /\ pc'[r] = "idle"
      /\ \A s \in Request \ {r} : pc'[s] = pc[s] /\ permit'[s] = permit[s]
  BY <1>1 DEF Settled, Inv, TypeOK
<1>3. TypeOK'
  BY <1>1 DEF Inv, TypeOK, Settled
<1>4. Current' = {} /\ Probing' = {}
  BY <1>1, <1>2 DEF Current, Probing
<1>5. PermitsInv'
  <2>1. \A s \in Request : /\ permit'[s] = None <=> pc'[s] # "sent"
                           /\ pc'[s] = "sent" => permit'[s].generation <= generation'
    BY <1>2 DEF Inv, PermitsInv
  <2> QED
    BY <1>4, <2>1 DEF Inv, PermitsInv
<1> QED
  BY <1>3, <1>4, <1>5 DEF Inv

\* An attempt is settled and a new generation begins: nobody is current.
LEMMA GenerationKeeps ==
    ASSUME Inv, NEW r \in Request, pc[r] = "sent", Settled(r),
           generation' = generation + 1, probeInFlight' = FALSE,
           NEW c \in {"idle", "delay"}, pc' = [pc EXCEPT ![r] = c],
           attempt' \in [Request -> 0 .. RetryAttempts - 1],
           failures' \in Nat, opened' \in BOOLEAN, rested' = FALSE,
           ~ opened' => failures' < FailureThreshold
    PROVE  Inv' /\ Probing' = {}
<1>1. /\ permit'[r] = None /\ pc'[r] # "sent"
      /\ \A s \in Request \ {r} : pc'[s] = pc[s] /\ permit'[s] = permit[s]
  BY DEF Settled, Inv, TypeOK
<1>2. TypeOK'
  <2>1. /\ pc' \in [Request -> {"idle", "asking", "sent", "delay"}]
        /\ permit' \in [Request -> Permit \cup {None}] /\ odoo' \in {"up", "down"}
    BY DEF Inv, TypeOK, Settled
  <2>2. generation' \in Nat
    BY DEF Inv, TypeOK
  <2>3. rested' \in BOOLEAN /\ probeInFlight' \in BOOLEAN
    OBVIOUS
  <2> QED
    BY <2>1, <2>2, <2>3 DEF TypeOK
<1>3. \A s \in Request : pc'[s] = "sent" => permit'[s].generation <= generation
  BY <1>1 DEF Inv, PermitsInv
<1>4. \A s \in Request : pc'[s] = "sent" => permit'[s].generation \in Nat
  BY <1>1, OnItsWay DEF Permit
<1>5. Current' = {} /\ Probing' = {}
  BY <1>3, <1>4 DEF Current, Probing, Inv, TypeOK
<1>6. PermitsInv'
  <2>1. \A s \in Request : /\ permit'[s] = None <=> pc'[s] # "sent"
                           /\ pc'[s] = "sent" => permit'[s].generation <= generation'
    BY <1>1, <1>3, <1>4 DEF Inv, TypeOK, PermitsInv
  <2> QED
    BY <1>5, <2>1 DEF PermitsInv
<1> QED
  BY <1>2, <1>5, <1>6 DEF Inv
-------------------------------------------------------------------------------
(***************************************************************************)
(* What the three ways to settle a permit do to the breaker.               *)
(***************************************************************************)

\* The state of the abstract circuit breaker.
CState == IF ~ opened THEN "closed" ELSE IF probeInFlight THEN "half_open" ELSE "open"

LEMMA AnsweredStep ==
    ASSUME Inv, NEW r \in Request, Answered(r)
    PROVE  Inv' /\ [Circuit!Next]_<<CState, Probing, rested>>
<1>1. /\ pc[r] = "sent" /\ RecordSuccess(permit[r]) /\ Settled(r)
      /\ pc' = [pc EXCEPT ![r] = "idle"] /\ attempt' = attempt
  BY DEF Answered
<1>2. permit[r] \in Permit /\ attempt \in [Request -> 0 .. RetryAttempts - 1]
  BY <1>1, OnItsWay DEF Inv, TypeOK
<1>3. CASE permit[r].generation # generation
  <2>1. UNCHANGED breaker /\ r \notin Probing
    BY <1>1, <1>3 DEF RecordSuccess, Probing, Current
  <2>2. Inv' /\ Probing' = Probing
    BY <1>1, <1>2, <2>1, CountedKeeps DEF breaker, Inv, TypeOK
  <2> QED
    BY <2>1, <2>2 DEF CState, breaker
<1>4. CASE permit[r].generation = generation /\ permit[r].probe
  <2>1. /\ failures' = 0 /\ opened' = FALSE /\ rested' = FALSE
        /\ probeInFlight' = FALSE /\ generation' = generation + 1
    BY <1>1, <1>4 DEF RecordSuccess
  <2>2. Inv' /\ Probing' = {}
    <3>1. failures' \in Nat /\ failures' < FailureThreshold
      BY <2>1
    <3>2. opened' \in BOOLEAN
      BY <2>1
    <3>3. attempt' \in [Request -> 0 .. RetryAttempts - 1]
      BY <1>1, <1>2
    <3> QED
      BY <1>1, <2>1, <3>1, <3>2, <3>3, GenerationKeeps
  <2>3. r \in Probing /\ opened /\ probeInFlight
    BY <1>1, <1>4 DEF Probing, Current, Inv, PermitsInv
  <2>4. Circuit!Closes
    BY <2>1, <2>2, <2>3 DEF Circuit!Closes
  <2> QED
    BY <2>2, <2>4 DEF Circuit!Next, CState
<1>5. CASE permit[r].generation = generation /\ ~ permit[r].probe
  <2>1. r \in Current /\ r \notin Probing
    BY <1>1, <1>5 DEF Current, Probing
  <2>2. ~ opened /\ ~ probeInFlight /\ ~ rested
    BY <2>1 DEF Inv, PermitsInv
  <2>3. /\ failures' = 0 /\ opened' = FALSE /\ rested' = FALSE
        /\ probeInFlight' = FALSE /\ generation' = generation
    BY <1>1, <1>5 DEF RecordSuccess
  <2>4. UNCHANGED <<opened, rested, probeInFlight, generation>>
    BY <2>2, <2>3 DEF Inv, TypeOK
  <2>5. Inv' /\ Probing' = Probing
    <3>1. /\ failures' \in Nat /\ failures' < FailureThreshold
          /\ attempt' \in [Request -> 0 .. RetryAttempts - 1]
      BY <1>1, <1>2, <2>3
    <3> QED
      BY <1>1, <2>1, <2>4, <3>1, CountedKeeps
  <2> QED
    BY <2>4, <2>5 DEF CState
<1> QED
  BY <1>3, <1>4, <1>5

LEMMA FailsStep ==
    ASSUME Inv, NEW r \in Request, Fails(r)
    PROVE  Inv' /\ [Circuit!Next]_<<CState, Probing, rested>>
<1>1. pc[r] = "sent" /\ RecordFailure(permit[r]) /\ Settled(r)
  BY DEF Fails
<1>2. permit[r] \in Permit
  BY <1>1, OnItsWay
<1>3. /\ attempt' \in [Request -> 0 .. RetryAttempts - 1]
      /\ \E c \in {"idle", "delay"} : pc' = [pc EXCEPT ![r] = c]
  <2>1. CASE MayRetry(r)
    BY <2>1 DEF Fails, MayRetry, Inv, TypeOK
  <2>2. CASE ~ MayRetry(r)
    BY <2>2 DEF Fails, Inv, TypeOK
  <2> QED
    BY <2>1, <2>2
<1>4. PICK c \in {"idle", "delay"} : pc' = [pc EXCEPT ![r] = c]
  BY <1>3
<1>5. CASE permit[r].generation # generation
  <2>1. UNCHANGED breaker /\ r \notin Probing
    BY <1>1, <1>5 DEF RecordFailure, Probing, Current
  <2>2. Inv' /\ Probing' = Probing
    BY <1>1, <1>3, <1>4, <2>1, CountedKeeps DEF breaker, Inv, TypeOK
  <2> QED
    BY <2>1, <2>2 DEF CState, breaker
<1>6. CASE permit[r].generation = generation
  <2>1. r \in Current /\ (r \in Probing <=> permit[r].probe)
    BY <1>1, <1>6 DEF Current, Probing
  <2>2. failures' = failures + 1 /\ failures' \in Nat
    BY <1>1, <1>6 DEF RecordFailure, Inv, TypeOK
  <2>3. CASE permit[r].probe \/ failures' >= FailureThreshold
    <3>1. /\ opened' = TRUE /\ rested' = FALSE
          /\ probeInFlight' = FALSE /\ generation' = generation + 1
      BY <1>1, <1>6, <2>3 DEF RecordFailure
    <3>2. Inv' /\ Probing' = {}
      BY <1>1, <1>3, <1>4, <2>2, <3>1, GenerationKeeps
    <3>3. CASE permit[r].probe
      <4>1. opened /\ probeInFlight
        BY <2>1, <3>3 DEF Inv, PermitsInv
      <4> QED
        BY <3>1, <3>2, <4>1 DEF CState, Circuit!Next, Circuit!Reopens
    <3>4. CASE ~ permit[r].probe
      <4>1. ~ opened /\ ~ probeInFlight /\ ~ rested /\ Probing = {}
        BY <2>1, <3>4 DEF Inv, PermitsInv
      <4>2. rested' = rested
        BY <3>1, <4>1 DEF Inv, TypeOK
      <4> QED
        BY <3>1, <3>2, <4>1, <4>2 DEF CState, Circuit!Next, Circuit!Trips
    <3> QED
      BY <3>2, <3>3, <3>4
  <2>4. CASE ~ (permit[r].probe \/ failures' >= FailureThreshold)
    <3>1. UNCHANGED <<opened, rested, probeInFlight, generation>>
      BY <1>1, <1>6, <2>4 DEF RecordFailure
    <3>2. failures' < FailureThreshold
      BY <2>2, <2>4
    <3>3. Inv' /\ Probing' = Probing
      BY <1>1, <1>3, <1>4, <2>1, <2>2, <2>4, <3>1, <3>2, CountedKeeps
    <3> QED
      BY <3>1, <3>3 DEF CState
  <2> QED
    BY <2>3, <2>4
<1> QED
  BY <1>5, <1>6

LEMMA CancelledStep ==
    ASSUME Inv, NEW r \in Request, Cancelled(r)
    PROVE  Inv' /\ [Circuit!Next]_<<CState, Probing, rested>>
<1>1. /\ pc[r] = "sent" /\ Release(permit[r]) /\ Settled(r)
      /\ pc' = [pc EXCEPT ![r] = "idle"] /\ attempt' = attempt
      /\ UNCHANGED <<failures, opened, rested, generation>>
  BY DEF Cancelled, Release
<1>2. permit[r] \in Permit /\ attempt \in [Request -> 0 .. RetryAttempts - 1]
  BY <1>1, OnItsWay DEF Inv, TypeOK
<1>3. CASE r \in Probing
  <2>1. probeInFlight' = FALSE /\ probeInFlight /\ opened
    BY <1>1, <1>3 DEF Release, Probing, Current, Inv, PermitsInv
  <2>2. Inv' /\ Probing' = {}
    BY <1>1, <1>3, <2>1, AbandonedKeeps
  <2> QED
    BY <1>1, <2>1, <2>2 DEF CState, Circuit!Next, Circuit!Abandoned
<1>4. CASE r \notin Probing
  <2>1. probeInFlight' = probeInFlight
    BY <1>1, <1>4 DEF Release, Probing, Current, Inv, TypeOK
  <2>2. Inv' /\ Probing' = Probing
    BY <1>1, <1>2, <1>4, <2>1, CountedKeeps DEF Inv, TypeOK
  <2> QED
    BY <1>1, <2>1, <2>2 DEF CState
<1> QED
  BY <1>3, <1>4

LEMMA AsksStep ==
    ASSUME Inv, NEW r \in Request, Asks(r)
    PROVE  Inv' /\ [Circuit!Next]_<<CState, Probing, rested>>
<1>1. CASE Admitted(r)
  <2>1. Inv' /\ Probing' = Probing
    BY <1>1, SendsKeeps DEF Admitted
  <2> QED
    BY <1>1, <2>1 DEF Admitted, Sends, CState
<1>2. CASE Probes(r)
  <2>1. Inv' /\ Probing' = {r}
    BY <1>2, SendsKeeps DEF Probes
  <2>2. Circuit!Admits(r)
    BY <1>2, <2>1 DEF Probes, Sends, Circuit!Admits
  <2> QED
    BY <2>1, <2>2 DEF Circuit!Next
<1>3. CASE Refused(r)
  <2>1. Inv' /\ Probing' = Probing
    BY <1>3, AsideKeeps DEF Refused, Inv, TypeOK
  <2> QED
    BY <1>3, <2>1 DEF Refused, CState, breaker
<1> QED
  BY <1>1, <1>2, <1>3 DEF Asks

LEMMA InvStep ==
    ASSUME Inv, [Next]_vars
    PROVE  Inv' /\ [Circuit!Next]_<<CState, Probing, rested>>
<1> DEFINE Quiet == Inv' /\ Probing' = Probing /\ UNCHANGED breaker
<1>1. CASE UNCHANGED vars
  BY <1>1, AsideKeeps DEF vars, Inv, TypeOK, CState, breaker
<1>2. ASSUME NEW r \in Request, Calls(r) \/ Retries(r) \/ GivesUp(r)
      PROVE  Quiet
  <2>1. attempt' \in [Request -> 0 .. RetryAttempts - 1]
    BY <1>2 DEF Calls, Retries, GivesUp, Inv, TypeOK
  <2> QED
    BY <1>2, <2>1, AsideKeeps DEF Calls, Retries, GivesUp, Inv, TypeOK
<1>3. CASE Elapses
  <2>1. TypeOK'
    BY <1>3 DEF Elapses, Inv, TypeOK
  <2>2. Current' = Current /\ Probing' = Probing
    BY <1>3 DEF Elapses, Current, Probing
  <2>3. PermitsInv'
    BY <1>3, <2>2 DEF Elapses, Inv, PermitsInv
  <2>4. opened /\ ~ probeInFlight
    BY <1>3 DEF Elapses, Inv, PermitsInv
  <2>5. Circuit!Rests
    BY <1>3, <2>2, <2>4 DEF Elapses, Circuit!Rests
  <2> QED
    BY <2>1, <2>3, <2>5 DEF Inv, Circuit!Next
<1>4. CASE GoesDown \/ ComesUp
  <2>1. Quiet
    BY <1>4, AsideKeeps DEF GoesDown, ComesUp, Inv, TypeOK
  <2> QED
    BY <2>1 DEF CState, breaker
<1>5. ASSUME NEW r \in Request, Quiet
      PROVE  [Circuit!Next]_<<CState, Probing, rested>>
  BY <1>5 DEF CState, breaker
<1> QED
  BY <1>1, <1>2, <1>3, <1>4, <1>5, AnsweredStep, FailsStep, CancelledStep, AsksStep DEF Next
-------------------------------------------------------------------------------
\* The breaker and the permits of CircuitBreaker always agree.
THEOREM Invariance == Spec => []Inv
<1>1. Init => Inv
  BY InvInit
<1>2. Inv /\ [Next]_vars => Inv'
  BY InvStep
<1> QED
  BY <1>1, <1>2, PTL DEF Spec

\* Types, and a closed breaker has counted fewer failures than the threshold
\* (record_failure).
THEOREM TypeCorrect == Spec => []TypeOK
<1>1. Inv => TypeOK
  BY DEF Inv
<1> QED
  BY <1>1, Invariance, PTL

\* The probe's place is taken exactly as long as one request with a permit of
\* this generation is on its way (acquire, record_success, record_failure,
\* release of CircuitBreaker): it is never lost, and never given twice.
THEOREM PermitsHold == Spec => []PermitsInv
<1>1. Inv => PermitsInv
  BY DEF Inv
<1> QED
  BY <1>1, Invariance, PTL

\* The breaker of client.py implements CircuitStates: it opens, admits one
\* probe after the interval, and only that probe closes or reopens it.
THEOREM ImplementsCircuitStates == Spec => IsACircuitBreaker
<1>1. Init => Circuit!Init
  <2>1. Init => Probing = {}
    BY DEF Init, Probing, Current
  <2> QED
    BY <2>1 DEF Init, Circuit!Init
<1>2. Inv /\ [Next]_vars => [Circuit!Next]_Circuit!vars
  BY InvStep DEF Circuit!vars, CState
<1> QED
  BY <1>1, <1>2, Invariance, PTL DEF Spec, IsACircuitBreaker, Circuit!Spec
===============================================================================
