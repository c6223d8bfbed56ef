----------------------------- MODULE ChangeControl -----------------------------
(***************************************************************************)
(* The change workflow of the Odoo addon (models/approval.py and the       *)
(* changes.* operations of models/service.py) for one MCP access           *)
(* assignment, down to the database transactions it runs in.               *)
(*                                                                         *)
(* A session is an Odoo worker: a Caller serves MCP requests, a Manager    *)
(* serves the Approve and Reject buttons, a Cleaner the daily clean-up.     *)
(* Every session works in one transaction at a time, on a REPEATABLE READ  *)
(* snapshot (view), and its writes are seen by others when it commits.     *)
(* The rows it writes are locked until then.  Two kinds of row matter: the *)
(* approval row of a key, and the access row, which every MCP request      *)
(* updates (_record_use) and every approval event increments               *)
(* (_publish_resource_update).                                             *)
(*                                                                         *)
(* PostgreSQL and Odoo are outside the repository; what the code relies on *)
(* is modelled as follows: a row locked by another transaction is waited   *)
(* for, except by lock_for_update, which fails at once; writing or locking *)
(* a row that another transaction changed since the snapshot is a          *)
(* serialization failure; of two transactions waiting for each other one   *)
(* fails; Odoo runs a request that failed so again, a bounded number of    *)
(* times; a worker may die at any moment.                                  *)
(***************************************************************************)
EXTENDS Naturals, FiniteSets

CONSTANTS
    Key,            \* idempotency keys of the access assignment
    Payload,        \* canonical payloads a preview may normalise to
    AutoApproved,   \* payloads that the profile's auto_approve_low_risk covers
    NoPayload,      \* the payload of an absent row
    Caller,         \* workers serving MCP requests of this access
    Manager,        \* workers serving an MCP manager
    Cleaner,        \* workers running the autovacuum job
    Mortal,         \* the sessions that may die in the middle of a transaction
    AccessRow,      \* the connect.mcp.access row
    Nobody,         \* the owner of an unlocked row
    TTL,            \* profile.approval_ttl_minutes
    Retention,      \* connect_mcp.approval_retention_days, at least one day
    MaxTries,       \* how often Odoo runs a request that lost a conflict
    MaxTime,        \* bound of the model: the clock stops here
    MaxVersion      \* bound of the model: no request starts at this version

Session == Caller \cup Manager \cup Cleaner
Row == Key \cup {AccessRow}

ASSUME SessionAssumption ==
    /\ Caller \cap Manager = {}
    /\ Cleaner \cap (Caller \cup Manager) = {}
    /\ Nobody \notin Session
    /\ Mortal \subseteq Session
ASSUME RowAssumption == AccessRow \notin Key /\ IsFiniteSet(Key)
ASSUME PayloadAssumption == AutoApproved \subseteq Payload /\ NoPayload \notin Payload
ASSUME TimeAssumption ==
    /\ TTL \in Nat \ {0} /\ Retention \in Nat \ {0} /\ MaxTries \in Nat \ {0}
    /\ MaxTime \in Nat /\ MaxVersion \in Nat

VARIABLES
    now,            \* the wall clock (fields.Datetime.now)
    plan,           \* plan[k]: the committed approval row of key k
    effects,        \* effects[k]: committed executions of that row's change
    version,        \* committed event_version of the access row
    bus,            \* bus[k]: version of the newest event sent for row k
    owner,          \* owner[r]: the session that holds the lock of row r
    pc,             \* how far the session's transaction is
    req,            \* the request the session serves
    tries,          \* runs of that request so far
    view,           \* view[s]: the approval rows as session s sees them
    dirty,          \* the approval rows session s has written
    stale,          \* rows others have committed since the snapshot of s
    ver,            \* event_version as session s sees it once it locked it
    sent,           \* sent[s][k]: version of the last event s queued for k
    acted           \* the business change of the request has been made

rowVars == <<plan, effects, version, bus>>
txVars == <<view, dirty, stale, ver, sent, acted>>
vars == <<now, plan, effects, version, bus, owner, pc, req, tries,
          view, dirty, stale, ver, sent, acted>>
-------------------------------------------------------------------------------
State == {"none", "pending", "approved", "rejected",
          "executing", "executed", "expired", "failed"}

\* The columns of connect.mcp.approval that decide anything.
PlanRow == [state : State,
            payload : Payload \cup {NoPayload},
            approvedBy : {"nobody", "auto", "manager"},
            expires : Nat,
            created : Nat]

NoPlan == [state |-> "none", payload |-> NoPayload, approvedBy |-> "nobody",
           expires |-> 0, created |-> 0]

\* What a session may be asked to do; only a preview carries a payload.
CallerRequest == [op : {"preview"}, key : Key, payload : Payload]
                 \cup [op : {"status", "execute"}, key : Key, payload : {NoPayload}]
ManagerRequest == [op : {"approve", "reject"}, key : Key, payload : {NoPayload}]
CleanupRequest == [op : {"cleanup"}, key : Key, payload : {NoPayload}]
Request == CallerRequest \cup ManagerRequest \cup CleanupRequest
NoRequest == [op |-> "none"]

Requests(s) == IF s \in Caller THEN CallerRequest
               ELSE IF s \in Manager THEN ManagerRequest
               ELSE CleanupRequest

NoView == [k \in Key |-> NoPlan]
Nothing == [k \in Key |-> 0]

TypeOK ==
    /\ now \in Nat /\ version \in Nat
    /\ plan \in [Key -> PlanRow]
    /\ effects \in [Key -> Nat]
    /\ bus \in [Key -> Nat]
    /\ owner \in [Row -> Session \cup {Nobody}]
    /\ pc \in [Session -> {"idle", "begun", "locked", "executing", "flush",
                           "answered", "refused", "failed"}]
    /\ req \in [Session -> Request \cup {NoRequest}]
    /\ tries \in [Session -> Nat]
    /\ view \in [Session -> [Key -> PlanRow]]
    /\ dirty \in [Session -> SUBSET Key]
    /\ stale \in [Session -> SUBSET Row]
    /\ ver \in [Session -> Nat]
    /\ sent \in [Session -> [Key -> Nat]]
    /\ acted \in [Session -> BOOLEAN]
    /\ \A s \in Session : pc[s] # "idle" => req[s] \in Requests(s)

Init ==
    /\ now = 0 /\ version = 0
    /\ plan = NoView
    /\ effects = Nothing
    /\ bus = Nothing
    /\ owner = [r \in Row |-> Nobody]
    /\ pc = [s \in Session |-> "idle"]
    /\ req = [s \in Session |-> NoRequest]
    /\ tries = [s \in Session |-> 0]
    /\ view = [s \in Session |-> NoView]
    /\ dirty = [s \in Session |-> {}]
    /\ stale = [s \in Session |-> {}]
    /\ ver = [s \in Session |-> 0]
    /\ sent = [s \in Session |-> Nothing]
    /\ acted = [s \in Session |-> FALSE]
-------------------------------------------------------------------------------
(***************************************************************************)
(* Transactions.                                                           *)
(***************************************************************************)
Free(s, r) == owner[r] \in {s, Nobody}
CanWrite(s, r) == Free(s, r) /\ r \notin stale[s]
Mine(s) == view[s][req[s].key]

Unlocked(s) == [r \in Row |-> IF owner[r] = s THEN Nobody ELSE owner[r]]
Locked(s, rows) == [r \in Row |-> IF r \in rows THEN s ELSE owner[r]]

\* The writes of the transaction are undone and its locks are released.
Undo(s, snapshot) ==
    /\ owner' = Unlocked(s)
    /\ view' = [view EXCEPT ![s] = snapshot]
    /\ dirty' = [dirty EXCEPT ![s] = {}]
    /\ ver' = [ver EXCEPT ![s] = 0]
    /\ sent' = [sent EXCEPT ![s] = Nothing]
    /\ acted' = [acted EXCEPT ![s] = FALSE]

\* A request arrives and its transaction takes its snapshot.
Begin(s, r) ==
    /\ pc[s] = "idle"
    /\ s \in Cleaner \/ version < MaxVersion
    /\ pc' = [pc EXCEPT ![s] = "begun"]
    /\ req' = [req EXCEPT ![s] = r]
    /\ tries' = [tries EXCEPT ![s] = 1]
    /\ view' = [view EXCEPT ![s] = plan]
    /\ stale' = [stale EXCEPT ![s] = {}]
    /\ UNCHANGED <<now, rowVars, owner, dirty, ver, sent, acted>>

\* The transaction ends without a trace.
Rollback(s) ==
    /\ pc' = [pc EXCEPT ![s] = "idle"]
    /\ req' = [req EXCEPT ![s] = NoRequest]
    /\ tries' = [tries EXCEPT ![s] = 0]
    /\ Undo(s, NoView)
    /\ stale' = [stale EXCEPT ![s] = {}]
    /\ UNCHANGED <<now, rowVars>>

\* Odoo rolls the request back and runs it again on a new snapshot.
RunAgain(s) ==
    /\ tries[s] < MaxTries
    /\ tries' = [tries EXCEPT ![s] = @ + 1]
    /\ pc' = [pc EXCEPT ![s] = "begun"]
    /\ Undo(s, plan)
    /\ stale' = [stale EXCEPT ![s] = {}]
    /\ UNCHANGED <<now, rowVars, req>>

\* execute_request catches every exception of the operation: the savepoint
\* around _dispatch is undone, the request goes on to be audited.
SavepointRollback(s, outcome) ==
    /\ pc' = [pc EXCEPT ![s] = outcome]
    /\ Undo(s, NoView)
    /\ UNCHANGED <<now, rowVars, req, tries, stale>>

\* _system_write of the row of k and the event of its new state:
\* UPDATE ... RETURNING locks the access row until the transaction ends.
\* Mutant: the version is read before the UPDATE instead of RETURNING it.
X_Version(s) == version

Version(s) == IF owner[AccessRow] = s THEN ver[s] ELSE version

\* Mutant: the write without its _publish_resource_update event.
X_SystemWrite(s, k, row) ==
    /\ CanWrite(s, AccessRow)
    /\ owner' = Locked(s, {AccessRow})
    /\ ver' = [ver EXCEPT ![s] = Version(s) + 1]
    /\ view' = [view EXCEPT ![s][k] = row]
    /\ dirty' = [dirty EXCEPT ![s] = @ \cup {k}]
    /\ UNCHANGED <<now, rowVars, req, tries, stale, sent>>

SystemWrite(s, k, row) ==
    /\ CanWrite(s, AccessRow)
    /\ owner' = Locked(s, {AccessRow})
    /\ ver' = [ver EXCEPT ![s] = Version(s) + 1]
    /\ sent' = [sent EXCEPT ![s][k] = Version(s) + 1]
    /\ view' = [view EXCEPT ![s][k] = row]
    /\ dirty' = [dirty EXCEPT ![s] = @ \cup {k}]
    /\ UNCHANGED <<now, rowVars, req, tries, stale>>

Goto(s, next) == pc' = [pc EXCEPT ![s] = next]
AnswerUnchanged(s) ==
    Goto(s, "answered") /\ UNCHANGED <<now, rowVars, owner, req, tries, txVars>>

Serves(s, op, where) == pc[s] = where /\ req[s].op = op

\* lock_for_update of the row of the request.
LockPlan(s) ==
    /\ Mine(s).state # "none"
    /\ CanWrite(s, req[s].key)
    /\ owner' = Locked(s, {req[s].key})
    /\ Goto(s, "locked")
    /\ UNCHANGED <<now, rowVars, req, tries, txVars>>
-------------------------------------------------------------------------------
(***************************************************************************)
(* changes.preview                                                         *)
(***************************************************************************)
\* The key is known and bound to the same payload: the plan is returned.
PreviewReplays(s) ==
    /\ Serves(s, "preview", "begun")
    /\ Mine(s).state # "none"
    /\ Mine(s).payload = req[s].payload
    /\ AnswerUnchanged(s)

\* Mutant: the sign of the lifetime is wrong.
X_NewPlan(payload) ==
    [state |-> "pending", payload |-> payload, approvedBy |-> "nobody",
     expires |-> now - TTL, created |-> now]

NewPlan(payload) ==
    [state |-> IF payload \in AutoApproved THEN "approved" ELSE "pending",
     payload |-> payload,
     approvedBy |-> IF payload \in AutoApproved THEN "auto" ELSE "nobody",
     expires |-> now + TTL,
     created |-> now]

\* INSERT waits for another insertion of the same (access_id, idempotency_key).
PreviewCreates(s) ==
    LET k == req[s].key IN
    /\ Serves(s, "preview", "begun")
    /\ Mine(s).state = "none"
    /\ plan[k].state = "none"
    /\ Free(s, k)
    /\ owner' = Locked(s, {k})
    /\ view' = [view EXCEPT ![s][k] = NewPlan(req[s].payload)]
    /\ dirty' = [dirty EXCEPT ![s] = {k}]
    /\ Goto(s, "answered")
    /\ UNCHANGED <<now, rowVars, req, tries, stale, ver, sent, acted>>
-------------------------------------------------------------------------------
(***************************************************************************)
(* changes.status                                                          *)
(***************************************************************************)
Open(row) == row.state \in {"pending", "approved"}
Expired(row) == row.expires <= now
Expire(row) == [row EXCEPT !.state = "expired"]

StatusReads(s) ==
    /\ Serves(s, "status", "begun")
    /\ Mine(s).state # "none"
    /\ ~ (Open(Mine(s)) /\ Expired(Mine(s)))
    /\ AnswerUnchanged(s)

\* The approval row is written to the ORM's cache, the event is counted in
\* the access row at once; the cached write reaches the database later.
StatusExpires(s) ==
    /\ Serves(s, "status", "begun")
    /\ Open(Mine(s)) /\ Expired(Mine(s))
    /\ SystemWrite(s, req[s].key, Expire(Mine(s)))
    /\ Goto(s, "flush")
    /\ UNCHANGED acted

StatusFlushes(s) ==
    /\ Serves(s, "status", "flush")
    /\ CanWrite(s, req[s].key)
    /\ owner' = Locked(s, {req[s].key})
    /\ Goto(s, "answered")
    /\ UNCHANGED <<now, rowVars, req, tries, txVars>>
-------------------------------------------------------------------------------
(***************************************************************************)
(* changes.execute                                                         *)
(***************************************************************************)
ExecuteLocks(s) == Serves(s, "execute", "begun") /\ LockPlan(s)

\* Executed already, or not approved (and not yet expired): nothing is done.
ExecuteReturns(s) ==
    /\ Serves(s, "execute", "locked")
    /\ \/ Mine(s).state = "executed"
       \/ ~ Expired(Mine(s)) /\ Mine(s).state # "approved"
    /\ AnswerUnchanged(s)

\* Mutant: the expiry is checked before the "executed" early return.
X_ExecuteExpires(s) ==
    /\ Serves(s, "execute", "locked")
    /\ Expired(Mine(s))
    /\ SystemWrite(s, req[s].key, Expire(Mine(s)))
    /\ Goto(s, "answered")
    /\ UNCHANGED acted

\* Whatever the state was, a plan past its expiry becomes "expired".
ExecuteExpires(s) ==
    /\ Serves(s, "execute", "locked")
    /\ Mine(s).state # "executed"
    /\ Expired(Mine(s))
    /\ SystemWrite(s, req[s].key, Expire(Mine(s)))
    /\ Goto(s, "answered")
    /\ UNCHANGED acted

ExecuteStarts(s) ==
    /\ Serves(s, "execute", "locked")
    /\ Mine(s).state = "approved"
    /\ ~ Expired(Mine(s))
    /\ SystemWrite(s, req[s].key, [Mine(s) EXCEPT !.state = "executing"])
    /\ Goto(s, "executing")
    /\ UNCHANGED acted

\* The business change, the state "executed" with its event, and the event
\* of the changed record; the access row is locked since ExecuteStarts.
ExecuteSucceeds(s) ==
    LET k == req[s].key IN
    /\ Serves(s, "execute", "executing")
    /\ acted' = [acted EXCEPT ![s] = TRUE]
    /\ view' = [view EXCEPT ![s][k].state = "executed"]
    /\ sent' = [sent EXCEPT ![s][k] = ver[s] + 1]
    /\ ver' = [ver EXCEPT ![s] = @ + 2]
    /\ Goto(s, "answered")
    /\ UNCHANGED <<now, rowVars, owner, req, tries, dirty, stale>>

\* The change fails (policy, postcondition, validation, a conflict on a
\* business row): the state "failed" is written, the exception is raised
\* again, and the savepoint of execute_request undoes that write too.
ExecuteFails(s) ==
    /\ Serves(s, "execute", "executing")
    /\ SavepointRollback(s, "failed")
-------------------------------------------------------------------------------
(***************************************************************************)
(* action_approve and action_reject                                        *)
(***************************************************************************)
ManagerLocks(s) == s \in Manager /\ pc[s] = "begun" /\ LockPlan(s)

\* Mutant: an executed plan can still be rejected.
X_Rejectable(row) == row.state \in {"pending", "approved", "executed"}

Approvable(row) == row.state = "pending" /\ ~ Expired(row)
Rejectable(row) == row.state \in {"pending", "approved"}

Approves(s) ==
    /\ Serves(s, "approve", "locked")
    /\ Approvable(Mine(s))
    /\ SystemWrite(s, req[s].key,
                   [Mine(s) EXCEPT !.state = "approved", !.approvedBy = "manager"])
    /\ Goto(s, "answered")
    /\ UNCHANGED acted

Rejects(s) ==
    /\ Serves(s, "reject", "locked")
    /\ Rejectable(Mine(s))
    /\ SystemWrite(s, req[s].key, [Mine(s) EXCEPT !.state = "rejected"])
    /\ Goto(s, "answered")
    /\ UNCHANGED acted
-------------------------------------------------------------------------------
(***************************************************************************)
(* _gc_approvals                                                           *)
(***************************************************************************)
\* Mutants: the clean-up expires whatever is past its expiry; only what is
\* pending; and gives all its events one version.
X_OverdueSettled(s) == {k \in Key : view[s][k].state # "none" /\ view[s][k].expires < now}
X_OverduePending(s) ==
    {k \in Key : view[s][k].state = "pending" /\ view[s][k].expires < now}
X_Ranking(S) == {[k \in S |-> 1]}

Overdue(s) == {k \in Key : Open(view[s][k]) /\ view[s][k].expires < now}
Forgettable(s) ==
    {k \in Key : /\ view[s][k].state \in {"executed", "rejected", "expired", "failed"}
                 /\ view[s][k].created + Retention < now}
Ranking(S) == {f \in [S -> 1 .. Cardinality(S)] : \A a, b \in S : a # b => f[a] # f[b]}

\* Every open plan past its expiry is expired, with one event each.
CleanupExpires(s) ==
    /\ Serves(s, "cleanup", "begun")
    /\ Overdue(s) # {}
    /\ CanWrite(s, AccessRow)
    /\ \E rank \in Ranking(Overdue(s)) :
          sent' = [sent EXCEPT ![s] =
                     [k \in Key |-> IF k \in Overdue(s) THEN version + rank[k] ELSE 0]]
    /\ owner' = Locked(s, {AccessRow})
    /\ ver' = [ver EXCEPT ![s] = version + Cardinality(Overdue(s))]
    /\ view' = [view EXCEPT ![s] =
                  [k \in Key |-> IF k \in Overdue(s) THEN Expire(@[k]) ELSE @[k]]]
    /\ dirty' = [dirty EXCEPT ![s] = Overdue(s)]
    /\ Goto(s, "flush")
    /\ UNCHANGED <<now, rowVars, req, tries, stale, acted>>

CleanupSkips(s) ==
    /\ Serves(s, "cleanup", "begun")
    /\ Overdue(s) = {}
    /\ Goto(s, "flush")
    /\ UNCHANGED <<now, rowVars, owner, req, tries, txVars>>

\* The writes reach the database, then the settled plans past their
\* retention are deleted, those that were expired a moment ago included.
CleanupForgets(s) ==
    LET rows == dirty[s] \cup Forgettable(s) IN
    /\ Serves(s, "cleanup", "flush")
    /\ \A k \in rows : CanWrite(s, k)
    /\ owner' = Locked(s, rows \cup {r \in Row : owner[r] = s})
    /\ view' = [view EXCEPT ![s] =
                  [k \in Key |-> IF k \in Forgettable(s) THEN NoPlan ELSE @[k]]]
    /\ dirty' = [dirty EXCEPT ![s] = rows]
    /\ Goto(s, "answered")
    /\ UNCHANGED <<now, rowVars, req, tries, stale, ver, sent, acted>>
-------------------------------------------------------------------------------
(***************************************************************************)
(* Conflicts.  Needs(s) are the rows the next statement of s locks.        *)
(***************************************************************************)
LocksPlanNext(s) == pc[s] = "begun" /\ req[s].op \in {"execute", "approve", "reject"}

SendsEventNext(s) ==
    \/ Serves(s, "status", "begun") /\ Open(Mine(s)) /\ Expired(Mine(s))
    \/ Serves(s, "cleanup", "begun") /\ Overdue(s) # {}
    \/ /\ Serves(s, "execute", "locked")
       /\ Mine(s).state # "executed"
       /\ Expired(Mine(s)) \/ Mine(s).state = "approved"
    \/ Serves(s, "approve", "locked") /\ Approvable(Mine(s))
    \/ Serves(s, "reject", "locked") /\ Rejectable(Mine(s))

RecordsUseNext(s) == s \in Caller /\ pc[s] \in {"answered", "refused", "failed"}

Needs(s) ==
    CASE LocksPlanNext(s)                        -> {req[s].key}
      [] SendsEventNext(s) \/ RecordsUseNext(s)  -> {AccessRow}
      [] Serves(s, "status", "flush")            -> {req[s].key}
      [] Serves(s, "cleanup", "flush")           -> dirty[s] \cup Forgettable(s)
      [] OTHER                                   -> {}

\* A row this session needs was committed by another one since its snapshot.
Conflict(s) == Needs(s) \cap stale[s] # {}

WaitsFor(s, u) == u # s /\ \E r \in Needs(s) : owner[r] = u
\* Mutant: nobody breaks a deadlock.
X_Deadlocked(s) == FALSE
Deadlocked(s) == \E u \in Session : WaitsFor(s, u) /\ WaitsFor(u, s)

\* Mutant: no foreign key guards the plan the audit row names.
X_RowGone(s) == FALSE

\* The plan an answer names was deleted meanwhile: the audit row's foreign
\* key cannot be checked on the snapshot.
RowGone(s) ==
    /\ pc[s] = "answered"
    /\ req[s].key \notin dirty[s]
    /\ plan[req[s].key].state = "none"

\* The key is bound to another payload (409).
KeyConflict(s) ==
    /\ Serves(s, "preview", "begun")
    /\ Mine(s).state # "none" /\ Mine(s).payload # req[s].payload
\* UNIQUE(access_id, idempotency_key): inserted by another since the snapshot.
DuplicateKey(s) ==
    /\ Serves(s, "preview", "begun")
    /\ Mine(s).state = "none" /\ plan[req[s].key].state # "none"
\* No such plan for this access (404).
NotFound(s) ==
    /\ pc[s] = "begun" /\ req[s].op \in {"status", "execute"}
    /\ Mine(s).state = "none"
\* lock_for_update does not wait.  The foreign key of an audit row holds a
\* share lock of the plan it names: that too makes it fail.
PlanBusy(s) ==
    /\ LocksPlanNext(s)
    /\ \/ ~ Free(s, req[s].key)
       \/ \E u \in Caller : pc[u] = "answered" /\ req[u].key = req[s].key

\* An exception inside _dispatch, whatever its class, is turned into an
\* error body; the request goes on.
DispatchRaises(s) ==
    /\ s \in Caller
    /\ pc[s] \in {"begun", "locked", "flush"}
    /\ \/ KeyConflict(s) \/ DuplicateKey(s) \/ NotFound(s)
       \/ PlanBusy(s) \/ Conflict(s) \/ Deadlocked(s)
    /\ SavepointRollback(s, "refused")

\* _check_quota refuses any request before it is dispatched, and
\* _prepare_action what a preview asks for: policy, fields, limits, ids.
\* Nothing may count on it, so it is no part of Progress below.
Denies(s) == s \in Caller /\ pc[s] = "begun" /\ SavepointRollback(s, "refused")

\* A manager's click ends in a UserError and leaves no trace: the plan is
\* busy or gone, already decided, or expired (the "expired" that
\* action_approve writes before it raises is rolled back with the rest).
ManagerRefused(s) ==
    /\ s \in Manager
    /\ \/ PlanBusy(s)
       \/ pc[s] = "begun" /\ Mine(s).state = "none"
       \/ Serves(s, "approve", "locked") /\ ~ Approvable(Mine(s))
       \/ Serves(s, "reject", "locked") /\ ~ Rejectable(Mine(s))
    /\ Rollback(s)

\* Outside _dispatch a lost conflict reaches Odoo, which runs the whole
\* request again, or gives up.
LosesConflict(s) ==
    /\ \/ s \in Manager /\ pc[s] \in {"begun", "locked"}
       \/ s \in Caller /\ pc[s] \in {"answered", "refused", "failed"}
    /\ Conflict(s) \/ Deadlocked(s) \/ RowGone(s)

Retries(s) == LosesConflict(s) /\ RunAgain(s)
GivesUp(s) == LosesConflict(s) /\ tries[s] = MaxTries /\ Rollback(s)

\* The autovacuum runner logs the failure and leaves the job for another day.
CleanupFails(s) ==
    /\ s \in Cleaner
    /\ pc[s] \in {"begun", "flush"}
    /\ Conflict(s) \/ Deadlocked(s)
    /\ Rollback(s)

\* The worker dies, or its connection does, before COMMIT.
Crash(s) == s \in Mortal /\ pc[s] # "idle" /\ Rollback(s)
-------------------------------------------------------------------------------
(***************************************************************************)
(* A request of a caller ends with its audit row and _record_use, which    *)
(* updates the access row whatever the operation did; every other          *)
(* transaction has locked what it writes.  Events leave with the commit.   *)
(***************************************************************************)
\* Mutant: the use of the access is not recorded in the same transaction.
X_Committable(s) ==
    /\ pc[s] \in {"answered", "refused", "failed"}
    /\ s \in Caller => ~ RowGone(s)

Committable(s) ==
    /\ pc[s] \in {"answered", "refused", "failed"}
    /\ s \in Caller => CanWrite(s, AccessRow)
    /\ s \in Caller => ~ RowGone(s)

Written(s) ==
    dirty[s] \cup IF s \in Caller \/ owner[AccessRow] = s THEN {AccessRow} ELSE {}

CountEffect(s, k) ==
    IF k \notin dirty[s] THEN effects[k]
    ELSE IF view[s][k].state = "none" THEN 0
    ELSE IF acted[s] THEN effects[k] + 1
    ELSE effects[k]

Commit(s) ==
    /\ Committable(s)
    /\ plan' = [k \in Key |-> IF k \in dirty[s] THEN view[s][k] ELSE plan[k]]
    /\ effects' = [k \in Key |-> CountEffect(s, k)]
    /\ version' = Version(s)
    /\ bus' = [k \in Key |-> IF sent[s][k] # 0 THEN sent[s][k] ELSE bus[k]]
    /\ stale' = [u \in Session |->
                   IF u = s \/ pc[u] = "idle" THEN {} ELSE stale[u] \cup Written(s)]
    /\ pc' = [pc EXCEPT ![s] = "idle"]
    /\ req' = [req EXCEPT ![s] = NoRequest]
    /\ tries' = [tries EXCEPT ![s] = 0]
    /\ Undo(s, NoView)
    /\ UNCHANGED now

Tick == now < MaxTime /\ now' = now + 1 /\ UNCHANGED <<rowVars, owner, pc, req, tries, txVars>>

\* The model's bound: nothing starts any more.
Bound ==
    /\ now = MaxTime /\ version >= MaxVersion
    /\ \A s \in Session : pc[s] = "idle"
    /\ UNCHANGED vars
-------------------------------------------------------------------------------
Arrives(s) == \E r \in Requests(s) : Begin(s, r)

Preview(s) == PreviewReplays(s) \/ PreviewCreates(s)
Status(s) == StatusReads(s) \/ StatusExpires(s) \/ StatusFlushes(s)
Execute(s) == \/ ExecuteLocks(s) \/ ExecuteReturns(s) \/ ExecuteExpires(s)
              \/ ExecuteStarts(s) \/ ExecuteSucceeds(s) \/ ExecuteFails(s)
Decide(s) == ManagerLocks(s) \/ Approves(s) \/ Rejects(s) \/ ManagerRefused(s)
Cleanup(s) == CleanupExpires(s) \/ CleanupSkips(s) \/ CleanupForgets(s) \/ CleanupFails(s)

\* What a session does by itself once a request has arrived.
Progress(s) == \/ Preview(s) \/ Status(s) \/ Execute(s) \/ Decide(s) \/ Cleanup(s)
               \/ DispatchRaises(s) \/ Retries(s) \/ GivesUp(s) \/ Commit(s)

Next == \/ \E s \in Session : Arrives(s) \/ Progress(s) \/ Denies(s) \/ Crash(s)
        \/ Tick
        \/ Bound

Spec == Init /\ [][Next]_vars
-------------------------------------------------------------------------------
(***************************************************************************)
(* Fairness.  A worker runs its request to the end unless it dies; what    *)
(* blocks it is a row lock, which PostgreSQL hands to its waiters in the   *)
(* order they came, so a lock that is free again and again is granted:     *)
(* strong fairness.  Nothing is assumed about arrivals or about crashes.   *)
(***************************************************************************)
FairSpec == Spec /\ \A s \in Session : SF_vars(Progress(s))

\* The clock runs, and the clean-up is started every day.
DailySpec == FairSpec /\ WF_vars(Tick) /\ \A s \in Cleaner : WF_vars(Arrives(s))
-------------------------------------------------------------------------------
(***************************************************************************)
(* Safety.                                                                 *)
(***************************************************************************)
Seen(row) == [state |-> row.state, payload |-> row.payload,
              approvedBy |-> row.approvedBy]
Life == INSTANCE ChangePlan WITH life <- [k \in Key |-> Seen(plan[k])]

\* The change of a plan is committed exactly once if the plan says
\* "executed", and never otherwise: not for a plan that was rejected or
\* expired meanwhile, not a second time by a repeated or concurrent
\* changes.execute, and not half-way by a crash.
ExecutedOnce ==
    \A k \in Key : effects[k] = IF plan[k].state = "executed" THEN 1 ELSE 0

\* An answer that leaves with its transaction tells the state the plan is
\* in at that moment, although it was read on an older snapshot and
\* changes.status and changes.preview lock no approval row: recording the
\* use of the access is what makes a stale answer impossible.
AnswersAreCurrent ==
    \A s \in Caller :
        pc[s] = "answered" /\ Committable(s) =>
            req[s].key \in dirty[s] \/ Mine(s) = plan[req[s].key]

\* A preview that would be the second row of a key never commits, so the
\* first plan keeps its payload and its decision: seen from outside, every
\* plan lives the life ChangePlan describes.
PlanLife == Life!Spec

\* Event versions follow the order of commits: whenever a transaction
\* commits, the events it sends have versions above those of all events sent
\* before, and different ones, so a consumer that drops version <= last drops
\* no news.
EventsInOrder ==
    [][\A s \in Session : Commit(s) =>
          \A k, j \in Key : sent[s][k] # 0 =>
              sent[s][k] > bus[j] /\ (j # k => sent[s][k] # sent[s][j])]_vars

\* Every committed change of an existing plan's state is announced by an
\* event that leaves with that very commit.
NoSilentChange ==
    [][\A k \in Key :
          plan[k].state # "none" /\ plan'[k].state \notin {"none", plan[k].state}
             => bus'[k] > bus[k]]_vars
-------------------------------------------------------------------------------
(***************************************************************************)
(* Why the safety properties hold: the inductive invariant.  What a        *)
(* session has written to a row it has locked, or that nobody has changed  *)
(* since its snapshot, is a legal move from the committed row.             *)
(***************************************************************************)
LegalMove(old, new, executed) ==
    IF executed
    THEN /\ old.state = "approved"
         /\ new = [old EXCEPT !.state = "executed"]
    ELSE /\ \/ Life!Propose(Seen(old), Seen(new))
            \/ Life!Approve(Seen(old), Seen(new))
            \/ Life!Reject(Seen(old), Seen(new))
            \/ Life!Expire(Seen(old), Seen(new))
            \/ Life!Forget(Seen(old), Seen(new))
         /\ new.state = "none" => new = NoPlan

\* A transaction that has written nothing holds nothing.
CleanInv(s) ==
    pc[s] \in {"idle", "begun", "refused", "failed"} =>
        /\ dirty[s] = {}
        /\ ~ acted[s]
        /\ \A r \in Row : owner[r] # s

\* What it has not written it sees as committed, unless it is stale.
SnapshotInv(s) ==
    pc[s] \in {"begun", "flush"} =>
        \A k \in Key : k \notin dirty[s] /\ k \notin stale[s] => view[s][k] = plan[k]

LockedInv(s) ==
    /\ pc[s] = "locked" =>
          /\ owner[req[s].key] = s
          /\ view[s][req[s].key] = plan[req[s].key]
          /\ plan[req[s].key].state # "none"
          /\ dirty[s] = {}
          /\ ~ acted[s]
    /\ pc[s] = "executing" =>
          /\ owner[req[s].key] = s
          /\ plan[req[s].key].state = "approved"
          /\ view[s][req[s].key] = [plan[req[s].key] EXCEPT !.state = "executing"]
          /\ dirty[s] = {req[s].key}
          /\ ~ acted[s]

WriteInv(s) ==
    /\ pc[s] = "flush" => ~ acted[s]
    /\ pc[s] = "flush" /\ req[s].op = "status" => dirty[s] = {req[s].key}
    /\ pc[s] = "answered" => \A k \in dirty[s] : owner[k] = s
    /\ pc[s] \in {"flush", "answered"} =>
          \A k \in dirty[s] :
              owner[k] = s \/ k \notin stale[s] =>
                  LegalMove(plan[k], view[s][k], acted[s])

SessionInv(s) == CleanInv(s) /\ SnapshotInv(s) /\ LockedInv(s) /\ WriteInv(s)

\* "executing" and "failed" never leave the transaction that writes them.
RowInv ==
    \A k \in Key : /\ plan[k].state = "none" => plan[k] = NoPlan
                   /\ plan[k].state \notin {"executing", "failed"}

Inv ==
    /\ TypeOK
    /\ RowInv
    /\ ExecutedOnce
    /\ \A s \in Session : SessionInv(s)

(***************************************************************************)
(* Why the answers are current and the events in order: whoever sends an   *)
(* event holds the access row until it commits, so versions are counted by *)
(* one session at a time, and whoever commits without counting either is a *)
(* caller, who records its use of that row, or only deletes plans.         *)
(***************************************************************************)
\* The events a session has queued, the last of its versions being ver.
EventsInv(s) ==
    /\ owner[AccessRow] = s => version <= ver[s]
    /\ pc[s] = "executing" => owner[AccessRow] = s
    /\ \A k \in Key : sent[s][k] # 0 =>
          /\ owner[AccessRow] = s
          /\ version < sent[s][k] /\ sent[s][k] <= ver[s]
          /\ \A j \in Key : sent[s][j] = sent[s][k] => j = k

\* Only a new plan, or the end of one, is written without an event.
AnnouncedInv(s) ==
    \A k \in dirty[s] :
        \/ sent[s][k] # 0
        \/ view[s][k].state = "none"
        \/ s \in Caller /\ owner[k] = s /\ plan[k].state = "none"

\* Unless the access row has changed, the snapshot is out of date at most
\* about plans that have been deleted.
CurrentInv(s) ==
    pc[s] \notin {"idle", "refused", "failed"} /\ AccessRow \notin stale[s] =>
        \A k \in Key : \/ k \in dirty[s]
                       \/ view[s][k] = plan[k]
                       \/ plan[k].state = "none"

NewsInv ==
    /\ \A k \in Key : bus[k] <= version
    /\ \A s \in Session : EventsInv(s) /\ AnnouncedInv(s) /\ CurrentInv(s)
-------------------------------------------------------------------------------
(***************************************************************************)
(* Liveness.                                                               *)
(***************************************************************************)
\* Every request ends: lock waits, deadlocks, lost conflicts and retries
\* included, no session stays in a transaction for ever.
RequestsEnd == \A s \in Session : []<>(pc[s] = "idle")

\* No plan stays open for ever: what nobody executes, rejects or asks for
\* is expired by the clean-up, if its expiry is within the model's clock.
\* The clean-up is never retried and loses every conflict it meets, so this
\* is promised only once callers and managers leave the database alone.
Quiet == \A s \in Caller \cup Manager : pc[s] = "idle"
PlansSettle ==
    <>[]Quiet => \A k \in Key :
        Open(plan[k]) /\ plan[k].expires < MaxTime ~> ~ Open(plan[k])
-------------------------------------------------------------------------------
(***************************************************************************)
(* What the repository says and the code does not do (runs that expect a   *)
(* violation).                                                             *)
(***************************************************************************)
\* service.py writes the state "failed" when an execution raises, and the
\* views filter on it: the commit that ends a failed execution should leave
\* the plan "failed".
FailureIsRecorded ==
    [][\A s \in Caller :
          pc[s] = "failed" /\ Commit(s) => plan'[req[s].key].state = "failed"]_vars

\* "Approval records are immutable outside system transitions": a decision
\* of a manager to reject is final until the record is deleted.
RejectionIsFinal ==
    [][\A k \in Key :
          plan[k].state = "rejected" => plan'[k].state \in {"rejected", "none"}]_vars
===============================================================================
