--------------------------------- MODULE Quota ---------------------------------
(***************************************************************************)
(* The quota of one access assignment (access.py: _check_quota,            *)
(* _record_use), counted in the audit log (audit.py) by concurrent requests *)
(* (service.py: execute_request).                                          *)
(*                                                                         *)
(* A request is a transaction on a snapshot (REPEATABLE READ).  It counts  *)
(* the audit rows it can see, works, adds its own row and increments the   *)
(* counters of the access row.  That last update is what makes the quota   *)
(* more than a guess: two requests that overlap both write the access row, *)
(* so PostgreSQL lets only one of them commit and Odoo runs the other one  *)
(* again.                                                                  *)
(*                                                                         *)
(* The lock of the access row is left out: who waits for it fails when its *)
(* holder commits.  PostgreSQL and Odoo's retries are external.            *)
(***************************************************************************)
EXTENDS Naturals, Sequences, FiniteSets

CONSTANTS
    Session,        \* the workers that may serve requests of the access
    RateLimit,      \* rate_limit_per_minute
    DailyQuota,     \* daily_quota, 0 for none
    Minute, Day,    \* their lengths in ticks of the clock
    RetentionDays,  \* connect_mcp.audit_retention_days
    MaxTries,       \* how often Odoo runs a transaction that loses a conflict
    MaxTime,        \* bound: the clock stops
    MaxRows         \* bound: no request starts when so many have been made

ASSUME LimitsAssumption == RateLimit \in Nat \ {0} /\ DailyQuota \in Nat
ASSUME TimesAssumption ==
    Minute \in Nat /\ Day \in Nat \ {0} /\ Minute <= Day /\ RetentionDays \in Nat
ASSUME BoundsAssumption == MaxTries \in Nat \ {0} /\ MaxTime \in Nat /\ MaxRows \in Nat

VARIABLES
    now,            \* the clock
    log,            \* every audit row ever committed, in the order of commits
    kept,           \* which of them are still in the table
    counters,       \* request_count and failure_count of the access row
    pc,             \* how far the request of a session is
    begun,          \* when its transaction started: the create_date of its row
    seen,           \* its snapshot of the audit log
    base,           \* its snapshot of the counters
    checked,        \* when it looked at the clock to check the quota
    verdict,        \* what it found
    stale,          \* the access row has been committed since its snapshot
    tries           \* how often its transaction has been started

vars == <<now, log, kept, counters, pc, begun, seen, base, checked, verdict, stale, tries>>

Verdicts == {"admitted", "rate_limit_exceeded", "daily_quota_exceeded"}
Outcome == {"success", "denied", "error"}
Row == [at : Nat, checked : Nat, verdict : Verdicts, outcome : Outcome]

TypeOK ==
    /\ now \in Nat
    /\ log \in Seq(Row)
    /\ kept \subseteq DOMAIN log
    /\ counters \in [request : Nat, failure : Nat]
    /\ counters.failure <= counters.request
    /\ pc \in [Session -> {"idle", "begun", "checked"}]
    /\ begun \in [Session -> Nat]
    /\ seen \in [Session -> SUBSET DOMAIN log]
    /\ base \in [Session -> [request : Nat, failure : Nat]]
    /\ checked \in [Session -> Nat]
    /\ verdict \in [Session -> Verdicts]
    /\ stale \in [Session -> BOOLEAN]
    /\ tries \in [Session -> 0 .. MaxTries]

Init ==
    /\ now = 0 /\ log = <<>> /\ kept = {}
    /\ counters = [request |-> 0, failure |-> 0]
    /\ pc = [s \in Session |-> "idle"]
    /\ begun = [s \in Session |-> 0]
    /\ seen = [s \in Session |-> {}]
    /\ base = [s \in Session |-> counters]
    /\ checked = [s \in Session |-> 0]
    /\ verdict = [s \in Session |-> "admitted"]
    /\ stale = [s \in Session |-> FALSE]
    /\ tries = [s \in Session |-> 0]
-------------------------------------------------------------------------------
\* A transaction starts: its time, its snapshot.
Starts(s) ==
    /\ pc' = [pc EXCEPT ![s] = "begun"]
    /\ begun' = [begun EXCEPT ![s] = now]
    /\ seen' = [seen EXCEPT ![s] = kept]
    /\ base' = [base EXCEPT ![s] = counters]
    /\ stale' = [stale EXCEPT ![s] = FALSE]
    /\ tries' = [tries EXCEPT ![s] = @ + 1]
    /\ UNCHANGED <<now, log, kept, counters, checked, verdict>>

\* The request is over; what it knew is forgotten.
Ends(s) ==
    /\ pc' = [pc EXCEPT ![s] = "idle"]
    /\ begun' = [begun EXCEPT ![s] = 0]
    /\ seen' = [seen EXCEPT ![s] = {}]
    /\ base' = [base EXCEPT ![s] = [request |-> 0, failure |-> 0]]
    /\ checked' = [checked EXCEPT ![s] = 0]
    /\ verdict' = [verdict EXCEPT ![s] = "admitted"]
    /\ tries' = [tries EXCEPT ![s] = 0]

Arrives(s) == pc[s] = "idle" /\ Len(log) < MaxRows /\ Starts(s)

\* The times since which rows count.  Before the clock's start there are none.
MinuteStart(t) == IF t < Minute THEN 0 ELSE t - Minute
DayStart(t) == t - (t % Day)

Counted(s, since) == Cardinality({i \in seen[s] : log[i].at >= since})

\* Mutant: the daily limit is off by one.
X_QuotaError(s) ==
    IF Counted(s, MinuteStart(now)) >= RateLimit THEN "rate_limit_exceeded"
    ELSE IF DailyQuota > 0 /\ Counted(s, DayStart(now)) > DailyQuota
    THEN "daily_quota_exceeded" ELSE "admitted"

\* _check_quota: what the request can see, refused requests included.
QuotaError(s) ==
    IF Counted(s, MinuteStart(now)) >= RateLimit THEN "rate_limit_exceeded"
    ELSE IF DailyQuota > 0 /\ Counted(s, DayStart(now)) >= DailyQuota
    THEN "daily_quota_exceeded" ELSE "admitted"

\* The clock is read after the transaction has started.
Checks(s) ==
    /\ pc[s] = "begun"
    /\ pc' = [pc EXCEPT ![s] = "checked"]
    /\ checked' = [checked EXCEPT ![s] = now]
    /\ verdict' = [verdict EXCEPT ![s] = QuotaError(s)]
    /\ UNCHANGED <<now, log, kept, counters, begun, seen, base, stale, tries>>

\* How a request may come out; the audit row's outcome tells it for 429 only.
Outcomes(s) == IF verdict[s] = "admitted" THEN {"success", "error"} ELSE {"denied"}

\* Mutants: the counters of the access row are not written (or by an UPDATE
\* that does not conflict); a refusal is not a failure.
X_Committable(s) == pc[s] = "checked"
X_RecordUse(s, outcome) ==
    [request |-> base[s].request + 1,
     failure |-> base[s].failure + (IF outcome = "error" THEN 1 ELSE 0)]
X_RecordUseOnce(s, outcome) ==
    IF outcome = "success" THEN [base[s] EXCEPT !.request = @ + 1]
    ELSE [base[s] EXCEPT !.failure = @ + 1]

\* The update of the access row succeeds only on the latest version of it.
Committable(s) == ~ stale[s]

\* _record_use, on the values of the snapshot.
RecordUse(s, outcome) ==
    [request |-> base[s].request + 1,
     failure |-> base[s].failure + (IF outcome = "success" THEN 0 ELSE 1)]

\* The operation, _audit, _record_use and the commit.
Commits(s, outcome) ==
    /\ pc[s] = "checked" /\ Committable(s)
    /\ outcome \in Outcomes(s)
    /\ log' = Append(log, [at |-> begun[s], checked |-> checked[s],
                           verdict |-> verdict[s], outcome |-> outcome])
    /\ kept' = kept \cup {Len(log) + 1}
    /\ counters' = RecordUse(s, outcome)
    /\ stale' = [t \in Session |-> t # s /\ pc[t] # "idle"]
    /\ Ends(s)
    /\ UNCHANGED now

\* Another request, or a manager's decision on a plan, has committed the
\* access row: the transaction is rolled back and run again, or given up.
Conflicts(s) ==
    /\ pc[s] = "checked" /\ ~ Committable(s)
    /\ \/ tries[s] < MaxTries /\ Starts(s)
       \/ /\ tries[s] = MaxTries
          /\ stale' = [stale EXCEPT ![s] = FALSE]
          /\ Ends(s)
          /\ UNCHANGED <<now, log, kept, counters>>

\* The worker dies.
Crashes(s) ==
    /\ pc[s] # "idle"
    /\ stale' = [stale EXCEPT ![s] = FALSE]
    /\ Ends(s)
    /\ UNCHANGED <<now, log, kept, counters>>

\* A manager, or the clean-up of plans, publishes an event: event_version is
\* in the access row too.
Publishes ==
    /\ stale' = [s \in Session |-> pc[s] # "idle"]
    /\ UNCHANGED <<now, log, kept, counters, pc, begun, seen, base, checked, verdict, tries>>

\* Mutant: the configured number of days is taken as it is.
X_DaysKept == RetentionDays

DaysKept == IF RetentionDays > 1 THEN RetentionDays ELSE 1

\* _gc_audit_logs, once a day (its limit of 10000 rows is not reached).
Cleans ==
    /\ kept' = {i \in kept : log[i].at + DaysKept * Day >= now}
    /\ kept' # kept
    /\ UNCHANGED <<now, log, counters, pc, begun, seen, base, checked, verdict, stale, tries>>

Ticks ==
    /\ now < MaxTime /\ now' = now + 1
    /\ UNCHANGED <<log, kept, counters, pc, begun, seen, base, checked, verdict, stale, tries>>

Serves(s) == \/ Arrives(s) \/ Checks(s)
             \/ \E outcome \in Outcomes(s) : Commits(s, outcome)
             \/ Conflicts(s) \/ Crashes(s)

Next == (\E s \in Session : Serves(s)) \/ Publishes \/ Cleans \/ Ticks

Spec == Init /\ [][Next]_vars
-------------------------------------------------------------------------------
Rows == DOMAIN log
Admitted == {i \in Rows : log[i].verdict = "admitted"}

\* No minute sees more than rate_limit_per_minute admitted requests, however
\* many run at the same time: no two of them count each other out, none is
\* counted that is rolled back, and the clean-up takes no row that still
\* counts.  (A request belongs to a period if it starts and checks its quota
\* in it.)
RateLimited ==
    \A t \in 0 .. now :
        Cardinality({i \in Admitted : t <= log[i].at /\ log[i].checked <= t + Minute})
            <= RateLimit

\* The same for the days of the calendar.  A request that starts before
\* midnight and is checked after it counts against neither day.
DailyLimited ==
    DailyQuota > 0 =>
        \A t \in 0 .. now :
            Cardinality({i \in Admitted : DayStart(t) <= log[i].at
                                          /\ DayStart(log[i].checked) = DayStart(t)})
                <= DailyQuota

\* The counters the manager sees are those of the log, rows removed since
\* included: no update is lost and none is made twice by a retry.
CountersExact ==
    /\ counters.request = Len(log)
    /\ counters.failure = Cardinality({i \in Rows : log[i].outcome # "success"})

\* Retention, whatever its setting, removes no row that a quota counts.
CountedRowsKept ==
    \A i \in Rows : log[i].at >= MinuteStart(now) \/ log[i].at >= DayStart(now) => i \in kept
================================================================================
