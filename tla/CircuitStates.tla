------------------------------ MODULE CircuitStates ----------------------------
(***************************************************************************)
(* What a circuit breaker promises (connect_mcp_server_spec.md, "Retry And *)
(* Circuit Breaker"): it is closed, open, or half open; once it has been   *)
(* open for the reset interval it admits one probe, and only the outcome   *)
(* of that probe closes it or opens it again.                              *)
(***************************************************************************)
CONSTANT Request

VARIABLES
    state,          \* "closed", "open" or "half_open"
    probes,         \* the requests admitted to find out
    rested          \* the reset interval has elapsed since it opened

vars == <<state, probes, rested>>

Init == state = "closed" /\ probes = {} /\ rested = FALSE

Trips == state = "closed" /\ state' = "open" /\ UNCHANGED <<probes, rested>>

Rests == state = "open" /\ rested' = TRUE /\ UNCHANGED <<state, probes>>

Admits(r) == /\ state = "open" /\ rested
             /\ state' = "half_open" /\ probes' = {r} /\ UNCHANGED rested

\* The probe got an answer; it failed; nobody will know.
Closes == state = "half_open" /\ state' = "closed" /\ probes' = {} /\ rested' = FALSE
Reopens == state = "half_open" /\ state' = "open" /\ probes' = {} /\ rested' = FALSE
Abandoned == state = "half_open" /\ state' = "open" /\ probes' = {} /\ UNCHANGED rested

Next == \/ Trips \/ Rests \/ Closes \/ Reopens \/ Abandoned
        \/ \E r \in Request : Admits(r)

Spec == Init /\ [][Next]_vars
===============================================================================
