----------------------------- MODULE CircuitBreaker ----------------------------
(***************************************************************************)
(* The transport circuit breaker and the retry loop around it (client.py): *)
(* the attempts of concurrent _request_json() calls, each of which takes a *)
(* CircuitPermit before it is sent and settles it once.                    *)
(*                                                                         *)
(* The bodies of "async with self._lock" never await: each is one step.    *)
(* Any number of steps of others may lie between the permit and what is    *)
(* recorded with it, so a permit may be older than the last opening.       *)
(*                                                                         *)
(* opened_at is a flag and the monotonic clock another one, which says if  *)
(* reset_seconds have gone by since.  Whatever settles an attempt as a     *)
(* success (an answer of any status but 502, 503, 504, one that is no      *)
(* JSON, one that is too large) is one action, and whatever settles it as  *)
(* a failure is one; which of the two Odoo and the network decide.         *)
(***************************************************************************)
EXTENDS Naturals

CONSTANTS
    Request,            \* calls of _request_json that may be under way
    Safe,               \* those of a SAFE_OPERATIONS operation
    FailureThreshold,   \* CONNECT_MCP_CIRCUIT_FAILURE_THRESHOLD
    RetryAttempts,      \* CONNECT_MCP_RETRY_ATTEMPTS
    MaxGeneration,      \* bound: no attempt fails from this generation on
    None                \* no permit

Permit == [generation : Nat, probe : BOOLEAN]

ASSUME ThresholdAssumption == FailureThreshold \in Nat \ {0}
ASSUME AttemptsAssumption == RetryAttempts \in Nat \ {0}
ASSUME PermitAssumption == None \notin Permit

VARIABLES
    failures,           \* self.failures
    opened,             \* self.opened_at is not None
    rested,             \* reset_seconds have elapsed since opened_at
    probeInFlight,      \* self._probe_in_flight
    generation,         \* self._generation
    pc,                 \* where each _request_json is
    attempt,            \* its loop variable
    permit,             \* the permit of the attempt that is on its way
    odoo                \* "up", or "down" for the network, a proxy, Odoo

breaker == <<failures, opened, rested, probeInFlight, generation>>
vars == <<breaker, pc, attempt, permit, odoo>>

\* Types; while the breaker is closed the limit has not been reached.
TypeOK ==
    /\ failures \in Nat /\ (~ opened => failures < FailureThreshold)
    /\ opened \in BOOLEAN /\ rested \in BOOLEAN /\ probeInFlight \in BOOLEAN
    /\ generation \in Nat
    /\ pc \in [Request -> {"idle", "asking", "sent", "delay"}]
    /\ attempt \in [Request -> 0 .. RetryAttempts - 1]
    /\ permit \in [Request -> Permit \cup {None}]
    /\ odoo \in {"up", "down"}

Init ==
    /\ failures = 0 /\ opened = FALSE /\ rested = FALSE
    /\ probeInFlight = FALSE /\ generation = 0
    /\ pc = [r \in Request |-> "idle"]
    /\ attempt = [r \in Request |-> 0]
    /\ permit = [r \in Request |-> None]
    /\ odoo = "up"
-------------------------------------------------------------------------------
\* Mutant: a late answer is believed, whenever its request was sent.
X_RecordSuccess(p) ==
    /\ failures' = 0 /\ opened' = FALSE /\ rested' = FALSE /\ probeInFlight' = FALSE
    /\ generation' = IF p.probe THEN generation + 1 ELSE generation

RecordSuccess(p) ==
    IF p.generation # generation THEN UNCHANGED breaker
    ELSE /\ failures' = 0
         /\ opened' = FALSE /\ rested' = FALSE
         /\ probeInFlight' = FALSE
         /\ generation' = IF p.probe THEN generation + 1 ELSE generation

\* Mutant: the breaker opens one failure late.
X_RecordFailure(p) ==
    IF p.generation # generation THEN UNCHANGED breaker
    ELSE /\ failures' = failures + 1
         /\ IF p.probe \/ failures' > FailureThreshold
            THEN /\ opened' = TRUE /\ rested' = FALSE
                 /\ probeInFlight' = FALSE
                 /\ generation' = generation + 1
            ELSE UNCHANGED <<opened, rested, probeInFlight, generation>>

RecordFailure(p) ==
    IF p.generation # generation THEN UNCHANGED breaker
    ELSE /\ failures' = failures + 1
         /\ IF p.probe \/ failures' >= FailureThreshold
            THEN /\ opened' = TRUE /\ rested' = FALSE
                 /\ probeInFlight' = FALSE
                 /\ generation' = generation + 1
            ELSE UNCHANGED <<opened, rested, probeInFlight, generation>>

\* Mutant: an attempt that ends without an outcome keeps the probe's place.
X_Release(p) == UNCHANGED breaker

\* release(): the attempt ends without an outcome.
Release(p) ==
    /\ probeInFlight' = (probeInFlight /\ ~ (p.generation = generation /\ p.probe))
    /\ UNCHANGED <<failures, opened, rested, generation>>

\* acquire() lets r go ahead.
Sends(r, probe) ==
    /\ permit' = [permit EXCEPT ![r] = [generation |-> generation, probe |-> probe]]
    /\ pc' = [pc EXCEPT ![r] = "sent"]
    /\ UNCHANGED <<failures, opened, rested, generation, attempt, odoo>>

\* A tool, or the readiness check, makes a request.
Calls(r) ==
    /\ pc[r] = "idle"
    /\ pc' = [pc EXCEPT ![r] = "asking"]
    /\ attempt' = [attempt EXCEPT ![r] = 0]
    /\ UNCHANGED <<breaker, permit, odoo>>

Admitted(r) ==
    /\ pc[r] = "asking" /\ ~ opened
    /\ Sends(r, FALSE)
    /\ UNCHANGED probeInFlight

Probes(r) ==
    /\ pc[r] = "asking" /\ opened /\ rested /\ ~ probeInFlight
    /\ Sends(r, TRUE)
    /\ probeInFlight' = TRUE

\* CircuitOpenError, which no attempt that follows makes up for.
Refused(r) ==
    /\ pc[r] = "asking" /\ opened /\ (~ rested \/ probeInFlight)
    /\ pc' = [pc EXCEPT ![r] = "idle"]
    /\ UNCHANGED <<breaker, attempt, permit, odoo>>

Settled(r) == permit' = [permit EXCEPT ![r] = None] /\ UNCHANGED odoo

Answered(r) ==
    /\ pc[r] = "sent" /\ RecordSuccess(permit[r]) /\ Settled(r)
    /\ pc' = [pc EXCEPT ![r] = "idle"]
    /\ UNCHANGED attempt

MayRetry(r) == r \in Safe /\ attempt[r] + 1 < RetryAttempts

\* A gateway error or an httpx.TransportError.
Fails(r) ==
    /\ pc[r] = "sent" /\ odoo = "down" /\ generation < MaxGeneration
    /\ RecordFailure(permit[r]) /\ Settled(r)
    /\ IF MayRetry(r)
       THEN /\ pc' = [pc EXCEPT ![r] = "delay"]
            /\ attempt' = [attempt EXCEPT ![r] = @ + 1]
       ELSE pc' = [pc EXCEPT ![r] = "idle"] /\ UNCHANGED attempt

Retries(r) ==
    /\ pc[r] = "delay"
    /\ pc' = [pc EXCEPT ![r] = "asking"]
    /\ UNCHANGED <<breaker, attempt, permit, odoo>>

\* The MCP request is cancelled, or something httpx does not call a
\* TransportError goes wrong: the finally clause releases the permit.
Cancelled(r) ==
    /\ pc[r] = "sent" /\ Release(permit[r]) /\ Settled(r)
    /\ pc' = [pc EXCEPT ![r] = "idle"]
    /\ UNCHANGED attempt

\* The same during _retry_delay, when no permit is held.
GivesUp(r) ==
    /\ pc[r] = "delay"
    /\ pc' = [pc EXCEPT ![r] = "idle"]
    /\ UNCHANGED <<breaker, attempt, permit, odoo>>

Elapses ==
    /\ opened /\ ~ rested /\ rested' = TRUE
    /\ UNCHANGED <<failures, opened, probeInFlight, generation, pc, attempt, permit, odoo>>

GoesDown == odoo = "up" /\ odoo' = "down" /\ UNCHANGED <<breaker, pc, attempt, permit>>
ComesUp == odoo = "down" /\ odoo' = "up" /\ UNCHANGED <<breaker, pc, attempt, permit>>

Asks(r) == Admitted(r) \/ Probes(r) \/ Refused(r)

Next ==
    \/ \E r \in Request : \/ Calls(r) \/ Asks(r) \/ Retries(r)
                          \/ Answered(r) \/ Fails(r) \/ Cancelled(r) \/ GivesUp(r)
    \/ Elapses \/ GoesDown \/ ComesUp

Spec == Init /\ [][Next]_vars

\* The event loop goes on, the clock ticks, and an attempt that nobody
\* cancels ends: httpx times out when no data arrives.  Nothing makes clients
\* call, keeps them from cancelling, or Odoo from being down.
FairSpec ==
    /\ Spec /\ WF_vars(Elapses)
    /\ \A r \in Request : /\ WF_vars(Asks(r)) /\ WF_vars(Retries(r))
                          /\ WF_vars(Answered(r) \/ Fails(r) \/ Cancelled(r))
-------------------------------------------------------------------------------
\* The requests on their way that the present state of the breaker lets through.
Current == {r \in Request : pc[r] = "sent" /\ permit[r].generation = generation}
Probing == {r \in Current : permit[r].probe}

\* Why: the probe in flight is one request, and while the breaker is not
\* closed nobody else's outcome counts.
PermitsInv ==
    /\ \A r \in Request : permit[r] = None <=> pc[r] # "sent"
    /\ \A r \in Request : pc[r] = "sent" => permit[r].generation <= generation
    /\ IF opened THEN Current = Probing ELSE Probing = {}
    /\ \A r, s \in Probing : r = s
    /\ probeInFlight <=> Probing # {}
    /\ rested => opened
    /\ probeInFlight => rested

Inv == TypeOK /\ PermitsInv

\* Permits of any age, retries, cancelled and abandoned probes: through all
\* of it the breaker is what a circuit breaker should be.
Circuit == INSTANCE CircuitStates WITH
    state <- IF ~ opened THEN "closed" ELSE IF probeInFlight THEN "half_open" ELSE "open",
    probes <- Probing
IsACircuitBreaker == Circuit!Spec

\* Odoo back for good, clients that keep calling, the probe not always
\* cancelled: then the breaker closes in the end and stays closed.
Recovers ==
    /\ <>[](odoo = "up")
    /\ <>[][\A r \in Request : ~ Cancelled(r)]_vars
    /\ []<>(\E r \in Request : pc[r] = "asking")
    => <>[](~ opened)
===============================================================================
