-------------------------------- MODULE Sidecar --------------------------------
(***************************************************************************)
(* The sidecar between an agent and Odoo: tool calls of one user about one *)
(* change plan, from the check of the API key (auth.py) through the queue  *)
(* (WaitingLine) and the HTTP client (client.py) to the transactions of    *)
(* Odoo, and what the agent is told in the end (server.py).                *)
(*                                                                         *)
(* Odoo does not notice that the sidecar has given up: an execution goes on *)
(* after a timeout, a broken connection or a cancellation, and overlaps    *)
(* with those of the calls that are served next.                           *)
(*                                                                         *)
(* Only what a call does to the plan is kept of ChangeControl, and only    *)
(* that it may refuse of the circuit breaker.                              *)
(***************************************************************************)
EXTENDS Naturals, Sequences, SequencesExt

CONSTANTS
    Call,           \* tool calls; each is made once
    Nobody,         \* not a call
    RetryAttempts,  \* CONNECT_MCP_RETRY_ATTEMPTS
    RequestTimeout, \* the longest a request for the identity may take (httpx bounds
                    \* each of its phases by CONNECT_MCP_REQUEST_TIMEOUT_SECONDS)
    CacheTTL,       \* CONNECT_MCP_IDENTITY_CACHE_SECONDS, 0 for no cache
    MaxQueueSize,   \* CONNECT_MCP_QUEUE_MAX_SIZE
    MaxTime         \* bound: the clock stops

ASSUME CallsAssumption == Nobody \notin Call
ASSUME LimitsAssumption ==
    /\ RetryAttempts \in Nat \ {0} /\ MaxQueueSize \in Nat \ {0}
    /\ RequestTimeout \in Nat /\ CacheTTL \in Nat /\ MaxTime \in Nat

VARIABLES
    now,            \* the clock
    revoked,        \* when the key or the access was withdrawn, if it was
    cached,         \* expires_at of the cached identity, if there is one
    plan,           \* the committed state of the plan and who executed it
    pc,             \* how far a call is in the sidecar
    asked,          \* when its request for the identity was sent
    identity,       \* what Odoo has answered to it
    work,           \* work[c][n]: what has become of the n-th request of c
    line,           \* the queue; the first in line talks to Odoo
    safe,           \* the calls that only read (changes.status); others execute
    told,           \* what the agent has been told
    later           \* the calls made after the agent was told of the execution

odoo == <<plan, revoked, now, safe>>
auth == <<cached, asked, identity>>
vars == <<now, revoked, cached, plan, pc, asked, identity, work, line, told, later, safe>>

\* The queue of the user, or of all users; the others' turns are not seen.
User == "user"
Line == INSTANCE WaitingLine WITH Task <- Call, Queue <- {User}

Step == {"new", "asking", "accepted", "queued", "sending", "delay", "done"}
Answer == {"executed", "not_executed", "refused", "unclear"}
Told == {"nothing", "executed", "not_executed", "refused", "error"}
Served == {"sending", "delay"}
InLine(c) == \E i \in DOMAIN line[User] : line[User][i] = c

TypeOK ==
    /\ now \in Nat
    /\ revoked = {} \/ \E t \in 0 .. now : revoked = {t}
    /\ cached = {} \/ \E t \in 0 .. now + CacheTTL : cached = {t}
    /\ plan \in [state : {"pending", "approved", "executed"}, by : Call \cup {Nobody}]
    /\ plan.state = "executed" <=> plan.by # Nobody
    /\ pc \in [Call -> Step]
    /\ asked \in [Call -> 0 .. now]
    /\ identity \in [Call -> {"awaited", "valid", "invalid"}]
    /\ work \in [Call -> Seq({"travelling", "running", "unheard"} \cup Answer)]
    /\ told \in [Call -> Told]
    /\ later \subseteq Call /\ safe \subseteq Call
    /\ line \in [{User} -> Seq(Call)]
    /\ \A c \in Call : pc[c] \in Served => line[User] # <<>> /\ c = Head(line[User])
    /\ \A c \in Call : InLine(c) <=> pc[c] \in Served \cup {"queued"}
    /\ \A c \in Call : pc[c] = "done" <=> told[c] # "nothing"

Init ==
    /\ now = 0 /\ revoked = {} /\ cached = {}
    /\ plan = [state |-> "pending", by |-> Nobody]
    /\ pc = [c \in Call |-> "new"]
    /\ asked = [c \in Call |-> 0]
    /\ identity = [c \in Call |-> "awaited"]
    /\ work = [c \in Call |-> <<>>]
    /\ Line!Init
    /\ safe \in SUBSET Call
    /\ told = [c \in Call |-> "nothing"]
    /\ later = {}
-------------------------------------------------------------------------------
(***************************************************************************)
(* verify_token                                                            *)
(***************************************************************************)
Goes(c, step) == pc' = [pc EXCEPT ![c] = step]

\* The call is made: by an agent that knows of the execution, or does not.
Knows == \E c \in Call : told[c] = "executed"
Notes(c) == later' = IF Knows THEN later \cup {c} ELSE later

\* Mutant: an identity is still used at the moment it expires.
X_Fresh == \E t \in cached : now <= t

\* Expired identities are dropped first.
Fresh == \E t \in cached : now < t

Hits(c) ==
    /\ pc[c] = "new" /\ Fresh
    /\ Goes(c, "accepted") /\ Notes(c)
    /\ UNCHANGED <<odoo, auth, work, line, told>>

Asks(c) ==
    /\ pc[c] = "new" /\ ~ Fresh
    /\ Goes(c, "asking") /\ Notes(c)
    /\ asked' = [asked EXCEPT ![c] = now]
    /\ cached' = {}
    /\ UNCHANGED <<odoo, identity, work, line, told>>

\* Odoo: _check_mcp_credentials and _for_user.
Identifies(c) ==
    /\ pc[c] = "asking" /\ identity[c] = "awaited"
    /\ identity' = [identity EXCEPT ![c] = IF revoked = {} THEN "valid" ELSE "invalid"]
    /\ UNCHANGED <<odoo, cached, asked, pc, work, line, told, later>>

\* verify_token returns: its local variables are gone.
Returns(c) ==
    /\ asked' = [asked EXCEPT ![c] = 0]
    /\ identity' = [identity EXCEPT ![c] = "awaited"]

\* The answer arrives in time and is cached.
Accepts(c) ==
    /\ pc[c] = "asking" /\ identity[c] = "valid"
    /\ now <= asked[c] + RequestTimeout
    /\ Goes(c, "accepted") /\ Returns(c)
    /\ cached' = IF CacheTTL > 0 THEN {now + CacheTTL} ELSE cached
    /\ UNCHANGED <<odoo, work, line, told, later>>

Tells(c, what) == Goes(c, "done") /\ told' = [told EXCEPT ![c] = what]

\* 401 and 403, any other status, or no answer in time.
Rejects(c) ==
    /\ pc[c] = "asking"
    /\ \/ identity[c] = "invalid" /\ Tells(c, "refused")
       \/ Tells(c, "error")
    /\ Returns(c)
    /\ UNCHANGED <<odoo, cached, work, line, later>>
-------------------------------------------------------------------------------
(***************************************************************************)
(* _execute: the queue and the HTTP client                                 *)
(***************************************************************************)
Queues(c) ==
    /\ pc[c] = "accepted"
    /\ \/ Line!Join(User, c) /\ Goes(c, "queued") /\ UNCHANGED told
       \/ Len(line[User]) > MaxQueueSize /\ Tells(c, "refused") /\ UNCHANGED line
    /\ UNCHANGED <<odoo, auth, work, later>>

\* Mutant: a call that was being served gives its turn back only if it has
\* got an answer.
X_LeavesLine(c) ==
    IF work[c] # <<>> /\ Last(work[c]) \notin Answer THEN UNCHANGED line
    ELSE \E i \in DOMAIN line[User] : line[User][i] = c /\ Line!Leave(User, i)

LeavesLine(c) == \E i \in DOMAIN line[User] : line[User][i] = c /\ Line!Leave(User, i)

\* The call is over for the sidecar, and the next one has its turn.
Ends(c, what) ==
    /\ Tells(c, what) /\ LeavesLine(c)
    /\ UNCHANGED <<odoo, auth, work, later>>

\* It has waited too long, or is cancelled.
GivesUp(c) == pc[c] = "queued" /\ Ends(c, "refused")

\* A request is sent, unless the circuit breaker is open.
Sends(c) ==
    /\ pc[c] = "delay" \/ (pc[c] = "queued" /\ c = Head(line[User]))
    /\ \/ /\ Goes(c, "sending")
          /\ work' = [work EXCEPT ![c] = Append(@, "travelling")]
          /\ UNCHANGED <<odoo, auth, line, told, later>>
       \/ Ends(c, "refused")

\* Mutant: whatever the operation, it is tried again.
X_Attempts(c) == RetryAttempts
Attempts(c) == IF c \in safe THEN RetryAttempts ELSE 1

\* A transport error, a timeout or a gateway's 502-504: another attempt, or an
\* error.
Fails(c) ==
    /\ pc[c] = "sending"
    /\ IF Len(work[c]) < Attempts(c)
       THEN Goes(c, "delay") /\ UNCHANGED <<odoo, auth, work, line, told, later>>
       ELSE Ends(c, "error")

\* The answer to the last request; earlier ones go unheard.
Receives(c) ==
    /\ pc[c] = "sending" /\ Last(work[c]) \in Answer
    /\ Ends(c, IF Last(work[c]) = "unclear" THEN "error" ELSE Last(work[c]))

\* The MCP request is cancelled, or the answer is too large for the sidecar.
Cancelled(c) == pc[c] \in Served /\ Ends(c, "error")
-------------------------------------------------------------------------------
(***************************************************************************)
(* Odoo                                                                    *)
(***************************************************************************)
Becomes(c, n, what) ==
    /\ work' = [work EXCEPT ![c][n] = what]
    /\ UNCHANGED <<now, revoked, safe, auth, pc, line, told, later>>

\* Nobody hears the answer if the sidecar has given up the request.
Answers(c, n, answer) ==
    Becomes(c, n, IF pc[c] = "sending" /\ n = Len(work[c]) THEN answer ELSE "unheard")

\* A request, if it is not lost, is let in: key and access are checked again
\* (the page of a 401 is not the JSON that the client expects).
Arrives(c, n) ==
    /\ work[c][n] = "travelling"
    /\ IF revoked = {} THEN Becomes(c, n, "running")
       ELSE \E answer \in {"refused", "unclear"} : Answers(c, n, answer)
    /\ UNCHANGED plan

\* The answer that says how the plan is.  A body that is too large is replaced
\* by a 413, whatever has been done.
Says(answer) == {answer, "unclear"}
PlanSays == IF plan.state = "executed" THEN "executed" ELSE "not_executed"

\* changes.status
Reads(c, n) ==
    /\ work[c][n] = "running" /\ c \in safe
    /\ \E answer \in Says(PlanSays) : Answers(c, n, answer)
    /\ UNCHANGED plan

\* changes.execute commits: an approved plan is executed, one that has been
\* executed is answered again.
Executes(c, n) ==
    /\ work[c][n] = "running" /\ c \notin safe
    /\ IF plan.state = "approved"
       THEN /\ plan' = [state |-> "executed", by |-> c]
            /\ \E answer \in Says("executed") : Answers(c, n, answer)
       ELSE /\ \E answer \in Says(PlanSays) : Answers(c, n, answer)
            /\ UNCHANGED plan

\* The quota, the policy, Odoo or a conflict: all is rolled back.
Refuses(c, n) ==
    /\ work[c][n] = "running"
    /\ Answers(c, n, "refused")
    /\ UNCHANGED plan

\* A manager approves the plan, or withdraws the key or the access.
Approves ==
    /\ plan.state = "pending" /\ plan' = [plan EXCEPT !.state = "approved"]
    /\ UNCHANGED <<now, revoked, safe, auth, pc, work, line, told, later>>
Revokes ==
    /\ revoked = {} /\ revoked' = {now}
    /\ UNCHANGED <<now, plan, safe, auth, pc, work, line, told, later>>
Ticks ==
    /\ now < MaxTime /\ now' = now + 1
    /\ UNCHANGED <<plan, revoked, safe, auth, pc, work, line, told, later>>

Verifies(c) == Hits(c) \/ Asks(c) \/ Accepts(c) \/ Rejects(c)
Serves(c) == Queues(c) \/ Sends(c) \/ Fails(c) \/ Receives(c)
Works(c, n) == Arrives(c, n) \/ Reads(c, n) \/ Executes(c, n) \/ Refuses(c, n)

Next ==
    \/ \E c \in Call : \/ Verifies(c) \/ Identifies(c)
                       \/ Serves(c) \/ GivesUp(c) \/ Cancelled(c)
                       \/ \E n \in DOMAIN work[c] : Works(c, n)
    \/ Approves \/ Revokes \/ Ticks

Spec == Init /\ [][Next]_vars

\* The event loop runs, httpx gives up on what does not answer, and the delay
\* of a retry ends.  Nothing is assumed of Odoo, of the network, of the agents.
FairSpec == Spec /\ \A c \in Call : WF_vars(Accepts(c) \/ Rejects(c)) /\ WF_vars(Serves(c))
-------------------------------------------------------------------------------
\* A call is let in on an identity that Odoo has confirmed, at the latest,
\* RequestTimeout + CacheTTL ago: so long may a withdrawn key still be
\* accepted by the sidecar, however verifications and withdrawal overlap.
IdentityIsFresh ==
    [][\A c \in Call, r \in revoked :
          pc[c] # "accepted" /\ pc'[c] = "accepted" => now < r + RequestTimeout + CacheTTL
                                                       \/ now <= r + RequestTimeout]_vars

\* What the agent is told is true.  Told that the plan is executed, it is; told
\* that a call was refused or found the plan not executed, that call has not
\* executed it and will not, although executions go on unattended in Odoo; and
\* who was told of the execution once is never told the contrary.
AnswersAreTrue ==
    \A c \in Call :
        /\ told[c] = "executed" => plan.state = "executed"
        /\ told[c] \in {"refused", "not_executed"} =>
              /\ plan.by # c
              /\ c \notin safe => \A n \in DOMAIN work[c] : work[c][n] \notin {"travelling", "running"}
        /\ c \in later => told[c] # "not_executed"

\* Every call ends, although Odoo may never answer.
CallsEnd == \A c \in Call : pc[c] # "new" ~> pc[c] = "done"
================================================================================
