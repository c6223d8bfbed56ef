# Verification of connect_mcp

connect_mcp lets an MCP client (an assistant) work in an Odoo database. It has
two programs. The **addon** (`src/addons/connect_mcp`) runs inside Odoo: it
authenticates API keys, applies a manager's profile, carries out operations and
keeps an audit log and the plans of changes. The **sidecar**
(`src/addons/connect_mcp/deploy/connect_mcp_server`) is an asyncio server that
speaks MCP to clients and HTTP and WebSocket to Odoo.

This directory models the parts of both that are hard to test: what happens
when database transactions, tasks of the event loop, timeouts, cancellations
and crashes interleave. TLC checks the models on small instances; TLAPS proves
the main results for every size. Paths below are relative to
`src/addons/connect_mcp`; `sidecar/` stands for
`deploy/connect_mcp_server/src/connect_mcp_server/`, while `docs/` and `specs/` are
those of the repository.

## 1. The system

| component | state it keeps | operations | interacts with |
|---|---|---|---|
| Change plans, `models/approval.py`, `models/service.py:426-544` | one row per (access, idempotency key): state, payload, expiry | `changes.preview`, `.status`, `.execute`; Approve and Reject buttons; daily `_gc_approvals` | row locks of PostgreSQL, event counter of the access row |
| Request pipeline, `service.py:30-162` | the transaction of a request | `execute_request`: quota, savepoint, dispatch, audit, record of use | everything in the addon |
| Access assignment and quota, `models/access.py` | `event_version`, use counters | `_record_use`, `_publish_resource_update`, `_check_quota` | updated by every request of the user |
| Audit log, `models/audit.py` | append-only rows | `_audit`, retention job | foreign key to the plan |
| Profiles and policies, `models/profile.py` | allowed models, fields, domains, limits | read by every operation | plans (`_prepare_action` at preview and again at execute) |
| Read operations, `service.py:187-425` | none | search, read, count, aggregate, attachments, reports | profiles |
| HTTP controllers, `controllers/api.py` | none | identity, capabilities, execute, event ticket | pipeline |
| Event tickets, `models/event_ticket.py` | hashed tickets with an absolute expiry | issue, check, clean-up | event bridge |
| Operation queue, `sidecar/concurrency.py` | one entry per queue key: the slot, the FIFO of futures | `acquire`, `_discard_waiter`, `_release` | tools of the sidecar |
| Odoo client, `sidecar/client.py` | failures, opening time, generation, probe flag | `_request_json`: permit, attempts, delays | Odoo over HTTP |
| Identity cache, `sidecar/auth.py` | identities by digest of the key, with an expiry | `verify_token` | Odoo's `identity` endpoint |
| Event bridge, `sidecar/subscriptions.py` | watcher task, reference count and last versions per subject | listen, ensure watcher, watch, handle message, teardown | event tickets, Odoo's bus, MCP subscriptions |
| Tools, resources, prompts, `sidecar/server.py` | none | validate and forward | queue, then client |
| Configuration, views, security rules, packaging | static | | |

A change takes this way: the assistant calls `odoo_preview_change`; the sidecar
takes the user's slot in the queue and a permit of the circuit breaker and
posts `changes.preview`; the addon normalises the action against the profile
and stores a plan with an expiry. A manager approves or rejects it in Odoo, or
the profile approves it at once. `odoo_execute_change` then carries it out.
Every transition of a plan increments `event_version` of the access row and
queues a bus message, which the sidecar's watcher turns into an MCP resource
notification.

What is hard about it, and what would make each part correct:

* **Plans.** Clients retry, two workers may serve one user, managers click
  meanwhile, the clean-up runs at any time, workers die. A change must be made
  once and only if approved; answers must not be stale; every change of state
  is announced, in the order of commits; requests end in spite of two
  different lock orders; no plan stays open for ever.
* **Queue.** A future may be granted to a task that has just timed out or been
  cancelled. The slot must neither be lost nor given twice, and nobody who
  still waits may be overtaken.
* **Circuit breaker.** Answers of old attempts arrive in any later state. Only
  the outcome of the probe may close an open breaker, and a lost probe must not
  block it.
* **Event bridge.** Teardown races arrival, reconnects replay, tickets expire.
  Subscribers must see every change once and must not fall silent unnoticed.
* **Queue, client and Odoo together.** Requests of a user are to be serialized,
  but Odoo goes on executing when the client gives up, and the answer to what
  has been done may be lost. What an agent is told must be true all the same.
* **Identity cache.** Revocation must take effect within the cache time.
* **Policy.** The profile is read at the preview and again at the execution, and
  may have been edited between them; four places say what is allowed and must
  agree; a page, a count or a diff must not tell of what is not shown; and a client
  that follows the pages of a search must not miss what it could have read.
* **Quota.** It counts rows that concurrent requests have not committed yet, and
  a job deletes rows that may still count. The limits must hold nevertheless.

`PROJECT.json` lists each hazard with its line and the properties that
cover it.

## 2. The modules

| module | what it is |
|---|---|
| `ChangePlan` | abstract: the life of one plan as seen when transactions commit |
| `ChangeControl` | plans, requests and transactions of one access assignment; implements `ChangePlan` |
| `ChangeControlProofs` | its theorems |
| `WaitingLine` | abstract: a line per user, nobody overtakes |
| `OperationQueue` | the sidecar's queue with futures; implements `WaitingLine` |
| `OperationQueueProofs` | its theorems |
| `CircuitStates` | abstract: closed, open, half open |
| `CircuitBreaker` | breaker with generations, permits, retries, outages; implements `CircuitStates` |
| `CircuitBreakerProofs` | its theorems |
| `EventBridge` | listeners, watcher and bus of one subject |
| `EventBridgeProofs` | its theorems |
| `Quota` | the quota of one access assignment, counted in the audit log |
| `QuotaProofs` | its theorems |
| `Policy` | operators: what a profile allows, what reads reveal, what changes prepare and do |
| `PolicyControl` | one plan and the reads while profile, rights and records change under them |
| `PolicyControlProofs` | theorems about both |
| `Sidecar` | identity cache, queue (an INSTANCE of `WaitingLine`), client and Odoo composed, up to what the agent is told |
| `SidecarProofs` | its theorems |
| `Ascending` | a finite set of numbers as a sequence: the order of the waiters |
| `SequenceLemmas` | lemmas about sequences and `Ascending`, for the queue, the sidecar and the policy |
| `MCChangeControl`, `MCQuota`, `MCPolicyControl` | symmetry sets and configurations for TLC |

The operators named `X_...` are plausible bugs (a dropped guard, a swapped
order); they are used nowhere. Each is listed in `PROJECT.json` with the
property that finds it.

### ChangeControl

A session is an Odoo worker in one transaction: `Caller` (MCP requests),
`Manager` (buttons), `Cleaner` (autovacuum). `plan`, `effects`, `version` and
`bus` are what is committed; `view`, `dirty`, `sent`, `ver`, `acted` are the
uncommitted work of a session; `owner` are the row locks; `stale[s]` are the
rows somebody else has committed since the snapshot of `s`. `pc` is the place
where other sessions may step in:

| pc | the code is |
|---|---|
| `begun` | at the start of `_dispatch` or of a button, on its snapshot |
| `locked` | after `lock_for_update` (`service.py:496`, `approval.py:89,106`) |
| `executing` | after the `executing` write (`service.py:502-510`) |
| `flush` | with a write in the ORM's cache that has not reached the database |
| `answered` | done, the audit row and `_record_use` to follow |
| `refused`, `failed` | in an `except` clause of `execute_request`, savepoint undone |

| action | code |
|---|---|
| `PreviewReplays`, `PreviewCreates` | `_op_change_preview` |
| `StatusReads`, `StatusExpires`, `StatusFlushes` | `_op_change_status` |
| `ExecuteLocks`, `ExecuteReturns`, `ExecuteExpires`, `ExecuteStarts`, `ExecuteSucceeds`, `ExecuteFails` | `_op_change_execute` and `_publish_execution_updates` |
| `ManagerLocks`, `Approves`, `Rejects`, `ManagerRefused` | `action_approve`, `action_reject` |
| `CleanupExpires`, `CleanupSkips`, `CleanupForgets`, `CleanupFails` | `_gc_approvals` |
| `DispatchRaises`, `Denies` | the `except` clauses of `execute_request`, `_check_quota` |
| `Commit` | `_audit`, `_record_use`, the end of the request |
| `Retries`, `GivesUp`, `Crash` | Odoo and PostgreSQL |

What is abstracted, and why that is enough:

* A payload is a model value. Two previews conflict if their payloads differ,
  which is all the hash comparison decides.
* The business change is one step that succeeds or fails for any reason,
  the failed comparison of the integrity hash among them. It happens inside the
  transaction, so others see it with the commit or never.
* `_publish_execution_updates` sends one event per changed record; the model
  sends one. They share the access row with the plan's own event.
* The audit row's foreign key takes a share lock of the plan. Two effects of it
  are modelled: `lock_for_update` fails meanwhile (`PlanBusy`), and a plan
  deleted since cannot be named (`RowGone`).
* `action_approve` and `action_reject` loop over a selection in one
  transaction; the model decides one plan at a time.
* The limit of 5000 rows per clean-up is not modelled; the rest is left for
  the next day.
* Deadlocks of two sessions are detected. The only rows involved are one plan
  and the access row, so longer cycles do not arise.
* PostgreSQL and Odoo (isolation, lock queues, `retrying`, autovacuum, crash)
  are outside the repository: they are modelled from what the code relies on
  and marked `external` in the map.

### OperationQueue

One step per section between two awaits. `pc` of a task is `waiting` (future
pending), `granted` (future settled, task not resumed), `abandoned` (future
cancelled or timed out, not resumed), `revoked` (granted, then cancelled) or
`running`. `Enters` and `Queues` are the two outcomes of `acquire` under the
registry lock (the third, `operation_queue_full`, changes nothing);
`Discards` is `_discard_waiter`; `Release` is `_release_locked`. `_Entry` objects keep
their identity, since a task may hold a reference to an entry that has left the
registry. In Python 3.11 `wait_for` may return the result to a task that was
cancelled after the grant, from 3.12 on it raises; `pyproject.toml` admits both,
so `revoked` may go on to `Resumes` or to `Discards`.

### CircuitBreaker

`Request` are concurrent calls of `_request_json`. `asking` is before
`acquire`, `sent` has a permit, `delay` is `_retry_delay`. Every answer that
calls `record_success` is `Answered`, every gateway or transport error `Fails`, a
cancellation or another exception `Cancelled` (the `finally` clause).
`opened_at` and the clock become two flags, `opened` and `rested`. Requests
fail only while Odoo is `down`; an answer may still arrive then. Not modelled: a
transport error while a response that was already counted is being closed, the
`Retry-After` arithmetic, and decoding of the body.

### EventBridge

One Odoo subject; subjects share nothing but the loop. `log` is what Odoo has
committed: the n-th event has version n, which is what
`ChangeControl!EventsInOrder` establishes.

| variable | code |
|---|---|
| `references`, `watcher`, `versions` | `_references`, `_watchers`, `_versions` of the subject |
| `closing`, `gathered` | `_closed` and how far `aclose()` is |
| `stream[l]`, `counted[l]` | a `subscriptions/listen` request, and whether `watch_subscription` counted it |
| `attached[l]` | its `ListenHandler` is the one in the publisher's registry |
| `since[l]`, `heard[l]` | what the client may expect and what it was told (history) |
| `task[w]`, `cursor[w]` | a `_watch` task: `minting`, `looping` (not connected), `connected`, `cancelled` (the loop has not got round to it), `ended` (its callback has not run) |

| action | code |
|---|---|
| `Listens`, `Opens` | entry of `watch_subscription` with `ensure_watcher`; the handler |
| `LeavesOthers`, `TearsDown`, `LeavesUncounted` | its `finally` clause, or its early return |
| `Mints`, `MintFails`, `Connects`, `Drops`, `Retires`, `Dies` | `_watch` from one await to the next |
| `Receives` | `_handle_message` |
| `IsReaped` | `_watcher_done` |
| `Closes`, `Closed` | `aclose()` before and after `gather` |

What is abstracted: a message is a batch of events up to some version, and
malformed ones change nothing; the ticket's expiry and the answers 401 and
403 are one action, `Retires`, that may happen whenever the watcher is not
connected, and the end of a connection's lifetime is one of the ways of
`Drops`. `publish` calls plain functions of the MCP library, so a message is
handled in one step. Events are taken to be enabled. Odoo's bus delivers in
order and keeps events for a while (`Forgets`); it and the `ListenHandler` are
external. The identity cache appears only as far as it says when an identity is
verified (`Verifies`). The access assignment is not deleted and made anew:
then its versions would start at 0 under a subject that remembers higher ones
(a hazard without a property yet).

### Quota

Every request of an access assignment is one transaction on a snapshot.

| variable | code |
|---|---|
| `log`, `kept` | the rows of `connect.mcp.audit` ever committed, and which are still there |
| `counters` | `request_count`, `failure_count` of the access row |
| `begun[s]`, `seen[s]`, `base[s]` | start of the transaction (the `create_date` of its audit row) and its snapshot |
| `checked[s]`, `verdict[s]` | when `_check_quota` looked at the clock and what it found |
| `stale[s]` | somebody has committed the access row since the snapshot |

| action | code |
|---|---|
| `Arrives`, `Checks` | `execute_request` up to `_check_quota` (`access.py:74-91`) |
| `Commits` | the operation, `_audit`, `_record_use` (`access.py:93-101`), the commit |
| `Conflicts`, `Crashes` | Odoo's `retrying`, a dying worker |
| `Publishes` | `_publish_resource_update` by a manager or the clean-up |
| `Cleans` | `_gc_audit_logs` (`audit.py`) |

`_check_quota` takes no lock, and reads a count that concurrent requests do
not see. What bounds the requests nevertheless is `_record_use`: it writes the
access row *after* the count, so of two overlapping requests one fails and is
run again on a new snapshot. The model keeps exactly that; waiting for the row
lock ends in the same conflict and is left out. A request that starts before
midnight and is checked after it counts in neither day (its row has
yesterday's `create_date`), and the same holds at the edge of a minute: the
properties speak of the requests that start and are checked in a period, and exempt
those that straddle its edge. The
limit of 10000 rows per clean-up is not modelled.

### Policy and PolicyControl

`Policy` has operators only. `c` is what a manager and an administrator have
configured for one profile and one model; `rs` are the records.

| operator | code |
|---|---|
| `AllowablePolicy`, `Allowable` | the constraints of the tables of `profile.py` |
| `OfExplicit`, `GlobalPolicy`, `GetPolicy`, `ModelPolicy` | `ConnectMcpModelPolicy`, `GlobalModelPolicy`, `_get_policy`, `_model_policy` |
| `ModelsList`, `Describe`, `Capabilities` | `models.list`, `models.describe`, `_capabilities` |
| `IsCondition`, `IsOrder` | what a client's domain and order may be: anything that depends on the id and on the fields they name |
| `Governed`, `InPolicy`, `Matching` | `_forced_domain`, `_records_in_policy`, `_combined_domain` |
| `Arrangements`, `Found`, `Page`, `Pages` | the order of `Model.search`, ties open, and the paging of `records.search` |
| `Named`, `Reader` | `_read_fields` and `_parse_order`: the fields that must be readable |
| `Search`, `Count`, `Read`, `Aggregate`, `ReadAttachment`, `RenderReport` | the read operations, each as the set of answers that are possible |
| `Seen`, `Diff` | the diff of a preview |
| `Prepare...`, `Risk`, `AutoApproved` | `_prepare_action` and its parts, the automatic approval |
| `Outcomes`, `Postcondition`, `Execute` | `_execute_action` |

`PolicyControl` makes one plan pass through preview, approval and execution
(`Previews`, `Approves`, `Begins`, then `Commits`, `Conflicts` or `Refuses`) while a
manager edits the profile (`Edits`) and other users the records
(`OthersChange`). The execution works on the snapshot `view`; `dirty` are the
records others have committed since. A conflict on a record that is written
undoes it; a conflict on one that is only *read* is not noticed by PostgreSQL,
which is why `ChangesStayInPolicy` speaks of the profile when the execution
began. The properties compare the code's operators with `Granted`, `Scope`,
`Shown` and `Changeable`, which say in the words of the forms what was configured.

`PagesAreComplete` follows `has_more` from page to page. Neither the client's order
nor `_order` is completed by the id, and each page is sorted anew, so all the code
can promise of records that tie is that the number of rows is right: one may
come twice and another not at all, on different pages. `_offset` refuses more than
100000 (`MaxOffset`), whatever `has_more` has said; a client is then stopped
early, having seen more rows than that.

`ReadsStayInPolicy` has two parts. `ReadsAreGranted`: what is answered needs the
grant, the switch and fields that are shown. `HiddenStaysHidden`: a record that is
out of the scope, or whose change is in fields not shown, makes no difference to any
answer. What the code lets through all the same is named there:

* the client's condition may be about any field (`_combined_domain`,
  `service.py:897-903`, does not compare it with the readable ones), so a search, a
  count or an aggregate depends on the fields that the condition names;
* without an order a search, and a read always, lists records in the model's
  `_order`, whose fields need not be shown;
* the diff of an update has the old values of the fields that are written, which
  may be writable and not readable; only names that look sensitive are redacted;
* an attachment has any content, a report prints whatever its template takes from
  the database: `ReadAttachment` and `RenderReport` answer with the records as they
  are, and only whose they are is limited (`ReadsAreGranted`).

`Outcomes` lets a business method change any records in any way, whatever it is
called on: `_execute_action` (`service.py:838-854`) checks which method is called and on
which records, and nothing afterwards. `ChangesStayInPolicy` claims no more of it.
That what is executed is what the manager saw is not claimed either.

Left out: default field lists, the formulas and the number of groups of an aggregate,
companies, record rules and groups of fields (Odoo's, they only restrict
further), what overridden `create`, `write` and `unlink` do to other records
(recomputations, cascades), validation of names, types and lengths, the size of
contents. Things
the model shows and no property calls wrong: an archived explicit policy counts
as none, so that the fallback applies again; `models.describe` marks as writable
only fields that are readable as well, and may mark one of an explicit policy
that `_write_values` refuses because Odoo calls it read-only.

### Sidecar

Tool calls of one user about one plan, from the API key to the answer.

| variable | code |
|---|---|
| `pc[c]` | `asking` (a request of `verify_token` is out), `accepted`, `queued` (in `acquire`), `sending`, `delay` (`_retry_delay`), `done` |
| `cached`, `asked[c]`, `identity[c]` | the entry of the identity cache, when Odoo was asked, what it has answered |
| `line` | the queue as `WaitingLine` promises it, which `OperationQueue` implements |
| `work[c][n]` | the n-th request of `c`: on its way, running in Odoo, its answer, or over unheard |
| `plan` | the committed plan; the rest of its life is `ChangeControl`'s |
| `safe`, `told`, `later` | which calls only read; what the agent was told; the calls it made knowing of the execution (history) |

| action | code |
|---|---|
| `Hits`, `Asks`, `Identifies`, `Accepts`, `Rejects` | `verify_token` (`auth.py`), `_check_mcp_credentials` |
| `Queues`, `GivesUp`, `Sends`, `Fails`, `Receives`, `Cancelled` | `_execute` of `server.py`, `acquire`, `_request_json` |
| `Arrives`, `Reads`, `Executes`, `Refuses` | a request in Odoo, as `ChangeControl` commits it |
| `Approves`, `Revokes`, `Ticks` | a manager, the clock |

Odoo is not told of a timeout, a broken connection or a cancellation: `Executes`
may commit long after `Fails` or `Cancelled` has given the slot to the next
call. So "operations for one user are serialized" (`specs/connect_mcp_server_spec.md:61`)
holds for the calls the sidecar serves (`WaitingLine`), not for what Odoo
executes; `AnswersAreTrue` states what the agent can rely on in spite of that. An
answer that the sidecar cannot interpret is `unclear`: a 401 page, and a 413 that
replaces the body of an execution that has been made (`controllers/api.py:195`). The
agent is then told of an error, which promises nothing; asking for the status may meet
the same 413 again.

## 3. The runs

| run | question | instance |
|---|---|---|
| `change_control` | exactly-once execution, current answers, event order, refinement of `ChangePlan` | 2 workers, 1 manager, 1 key, 2 payloads, all may crash |
| `change_cleanup` | the same with the retention job on two plans, and no silent change | 1 worker, the job, 2 keys |
| `change_ends` | every request ends, open plans are settled | worker, manager, job; worker and manager may crash |
| `failure_is_recorded` | violation: finding 1 | worker and manager |
| `rejection_is_final` | violation: finding 2 | worker and manager |
| `operation_queue` | exclusion, no lost slot, order and limit, whoever waits is served or leaves | 4 tasks, 2 users, 3 entries, limit 2 |
| `circuit_breaker` | refinement of `CircuitStates`, the probe's place, recovery once Odoo is back | 4 requests (2 retried), threshold 2, 3 attempts, 3 generations |
| `event_bridge` | at most one watcher, nobody cut off, nothing told twice, what is sent arrives | 2 listeners, 2 watcher tasks, 1 resource, 2 events |
| `watcher_ensured` | violation: finding 3 | 1 listener, 2 watcher tasks |
| `quota` | both limits, exact counters, rows that count are kept | 2 workers, limits of 1, 3 requests around midnight |
| `policy` | what is said, read and changed is what was granted | about 150 configurations, 3 records, 5 fields, 6 searches, 4 configurations that are edited, 10 changes |
| `sidecar` | true answers, withdrawn keys, every call ends | 2 calls, 2 attempts, cache and timeout of 1 |

Bounds, and why the interesting cases happen within them:

* `MaxTime`: the clock stops. In the runs with the clean-up (`TTL = 1`,
  `Retention = 2`, `MaxTime = 3`) a plan can be created, expire on one day, be
  deleted on the next and be proposed anew; the two limits differ, since with equal
  ones the job deletes what it expires in the same transaction.
* `MaxVersion`: no request of a caller or a manager *starts* at this version;
  requests under way go on. Two commits suffice for a decision between
  the snapshot and the commit of another session. The two violation runs allow three.
* `MaxTries`: 2 instead of Odoo's 5: lost once and run again, lost twice and
  given up.
* Two callers and one key: all conflicts are between two sessions on one plan
  and the access row. Two keys are needed only where one transaction writes
  several plans (the clean-up).
* Four tasks and a limit of two: a holder, a full queue with a dead and a live
  waiter, and a newcomer; with two users an entry can be dropped while
  another lives, and three entries are the least for a task to keep one that
  has left the registry while both users have a newer one.
* `MaxGeneration`: no attempt fails from there on, so the counters stay
  finite; a permit may be up to that many openings old.
* Two listeners, two watcher tasks: one may be cancelled or ended and not
  reaped while the other is at work; tasks are used again, so any number of
  watchers may follow each other. Two events on one resource are the least that
  can be told twice or out of order.
* `quota`: `MaxTime = 4` with a day of 3 ticks and a minute of one has a midnight,
  minutes on both sides of it and a tick after which the first day's rows may go
  (`RetentionDays = 0`, the worst setting). With limits of 1, two overlapping
  requests suffice to exceed one, and `MaxRows = 3` leaves a third for the next period.
* `policy`: the grid has every kind of model and three explicit policies (or none), as
  far as the tables admit them, under five settings of the default access and of
  global create and delete, with the other switches and the rights all on or some of
  them off; they are judged before there is a plan (`Anew`), plans are made and
  edited under the four of `MCLive` only, and others change one record (`Contended`)
  meanwhile. Three records, pages of one and two and `MaxOffset = 1` are the least for a
  page between two others, for ties on both sides of its edge and for a client
  that is stopped by the largest offset. Two values differ in a hidden field only, by
  which the model sorts, and one is out of the scope of the restricted policy.
* `sidecar`: two calls, executing or reading in any combination, of which one may
  be made after the other was told; two attempts, so that a first request may be
  executed after the second was answered; `MaxTime = 2` lets an identity be
  cached, the key be withdrawn and the identity expire. With two
  calls the queue is never full: `Queues` refuses none here (three calls are too
  many states), and only the theorems cover that; `GivesUp` tells the same after a wait.
* Symmetry is used only in runs whose properties are safety properties and name
  no member of the symmetric sets.

A deadlock is looked for in every run but `sidecar`, where all calls are done in the
end and the clock stops (`CHECK_DEADLOCK FALSE`; `CallsEnd` says that they are).
`Bound` in `ChangeControl` is the stop
at the model's own bounds: a state without successors that is not at the
bounds would be reported.

`RequestsEnd` is `[]<>` of being idle and `EveryoneServed` `[]<>` of running or
being idle, for every session and task: nothing stays open for ever, from any state.

## 4. Fairness

* `ChangeControl!FairSpec`: strong fairness of `Progress(s)` for each session.
  A worker runs its request to the end. What can disable its step again and
  again is a row lock, and PostgreSQL grants a lock to its waiters in the order
  they came. Arrivals, crashes and refusals by the quota are not in `Progress`: nothing
  depends on them.
* `DailySpec` adds that the clock runs and the clean-up is started again.
  `PlansSettle` has `<>[]Quiet` as a premise: the clean-up is
  never retried and loses every conflict, so the code promises nothing while
  others keep changing the rows it works on.
* `OperationQueue!FairSpec`: the event loop resumes tasks that are ready, and an
  operation ends (httpx times out without data and stops at
  `max_response_bytes`). No timeout of the wait is assumed: it may be disabled.
* `CircuitBreaker!FairSpec`: the loop runs, the clock goes on, an attempt ends.
  `Recovers` states its premises itself: Odoo is up from some time on, clients
  keep calling, and cancellations stop in the end.
* `EventBridge!FairSpec`: the loop goes on with each watcher task (weak
  fairness). `Connects` and the delivery of all that Odoo has are strongly
  fair: the watcher tries again at most a second after each failure and Odoo
  sends the replay in one message, so a network that works now and then suffices.
  Connections may break for ever, Odoo may forget, the watcher may lose its
  ticket, listeners need not come or leave; `NewsArrive` excepts exactly these.
* `Sidecar!FairSpec`: the loop runs, httpx gives up on what does not answer, and
  the delay of a retry ends (weak fairness of a call's own steps). Nothing is
  assumed of Odoo, of the network or of agents; `CallsEnd` holds although no
  request may ever be answered.
* `Quota` and `PolicyControl` state safety only.

## 5. The proofs

All theorems hold for any sets of sessions, keys, payloads, tasks, users,
requests, listeners, workers, calls, profiles and records, and for any limits,
that satisfy the named ASSUMEs, which are no more than that kinds of identifiers are
distinct, `Key`, `Listener` and `Record` are finite, limits are natural numbers,
positive where the code needs it, and profiles are such as the constraints of
the tables admit (`Allowable`).

**ChangeControl** (`TypeCorrect`, `Invariance`, `ExecutedOnceHolds`,
`PlanLifeHolds`). `ExecutedOnce` speaks of committed rows, but what a commit
writes was decided earlier on a snapshot, so it is not inductive. `Inv` adds for
each session: a transaction that has written nothing holds no lock
(`CleanInv`); what it has not written it sees as committed unless the row is
stale (`SnapshotInv`); while it holds the plan's lock the plan is as it read it
(`LockedInv`); and whatever it has written is a legal move *from the committed
row* as long as it holds the row or nobody has committed it since
(`WriteInv`). The last is the heart: a commit requires locks and no staleness, so
every committed change is a legal move, which gives `ExecutedOnce` and the
step simulation of `ChangePlan`. Each action has its lemma; `OthersKeep` says
once what an action of one session does not disturb for the others.

A second invariant, `NewsInv`, rests on the first and is about versions and
snapshots (`NewsInvariance`, `AnswersAreCurrentHolds`, `EventsInOrderHolds`,
`NoSilentChangeHolds`). The three properties look at a commit, but its
events and its answer were made earlier, from a row another session could have
moved since. `EventsInv`: who has an event to send owns the access row, and the
versions it will send are above the committed one, which bounds all that the
bus has seen; the row lock makes the order of the events the order of the commits.
`AnnouncedInv`: what is written and not announced is a new plan or the deletion of
one. `CurrentInv`: as long as nobody has committed the access row since the
snapshot, every plan in it is as committed or has been deleted, because every
other commit to a plan also writes that row (its event); and a request that
answers writes it too (`_record_use`), so it fails if the snapshot is old. The
audit row's foreign key excludes the deleted plan.

**OperationQueue** (`TypeCorrect`, `Invariance`, `OneAtATimeHolds`,
`NoSlotLeaksHolds`). `Inv` relates registry, entries, futures and tasks:
an entry is active exactly if it is in the registry, once (`EntriesInv`); a
queued future belongs to a task that waits in this entry or has abandoned it, and
is queued once (`WaitersInv`); an active entry has exactly one holder.
Facts about `RemoveAt` and suffixes of sequences are lemmas.
`InLineHolds` is the refinement of `WaitingLine`. The line of a key (`LineOf`)
is the holder of the slot and, behind it, those in the deque whose futures are
still pending. `InOrderAppend`, `InOrderAbandon`, `InOrderRemove` and
`InOrderGrant` say what a step makes of the latter: a newcomer is the last; who gives
up leaves from where it is, though its future stays in the deque; the future it leaves
behind may be removed at any time, or be skipped by a release, and nothing
changes; the waiter that a release grants the slot is the first. `Inv` supplies
the rest: exactly one holder of an entry in the registry, nobody waiting in another
one, a new entry whose deque holds no live future. `LineStep` puts it together:
every step is a `Join`, a `Leave` or changes no line.

**CircuitBreaker** (`Invariance`, `TypeCorrect`, `PermitsHold`,
`ImplementsCircuitStates`). The invariant says that of the requests on their
way only one with the current generation can be a probe, that it exists
exactly while `probeInFlight`, and that an open breaker has no other
current permit. Late outcomes then are stutters of `CircuitStates`.

**EventBridge** (`Invariance`, `TypeCorrect`, `OneWatcherHolds`,
`NobodyCutOffHolds`, `NoNewsTwiceHolds`). Until the shutdown, `references` is the
number of streams (`OneWatcher` with `HeardInv`), so whoever finds no reference
remaining is the last one (`LastOne`) and its teardown takes nothing from others;
a watcher is started only when the registered task has ended, and only the
registered one can be at work. Whatever a stream has heard is at most the
remembered version of its resource, and that never goes back while anybody
listens, which makes every publication new.

**Quota** (`Invariance`, `TypeCorrect`, `RateLimitedHolds`,
`DailyLimitedHolds`, `CountersExactHolds`, `CountedRowsKeptHolds`). The limits
bound committed rows, a request looks at a snapshot. They meet in a session that is
not stale: its counters are the current ones, every row that may still count is
in its snapshot (the clean-up spares them, since it keeps a day at least), and if
it was admitted there is room for one more row in the minute and the day of its
check (`HasRoom`). Only such a session commits, and its commit makes all others
stale. The theorems are about sets of rows that fit a period; each commit adds one
row to them, and only where there was room.

**Sidecar** (`Invariance`, `TypeCorrect`, `AnswersAreTrueHolds`,
`IdentityIsFreshHolds`). `CallInv` follows each request: a call that executes
is sent once (`Attempts`), so when it is told `refused` or `not_executed` this was
the answer to its only request, or nothing was ever sent, and nothing of it can
still be under way in Odoo; `executed` is never undone, and a request of a call made
after the agent was told of it cannot find the contrary. `KeyInv`: whatever is
cached or valid was asked before the key was withdrawn. `LineInv`: the calls in the
queue are those that wait or are served, each once.

**PolicyControl** (`Invariance`, `TypeCorrect`, `AnswersAgreeHolds`,
`ChangesStayInPolicyHolds`, `ManagersDecideHolds`). `PolicyIffGranted` and
`PolicyWithin` prove the rules of `profile.py` equal to what was granted, for any
configuration the tables admit; `PreparedWithin` and `OutcomeFacts` say what a
prepared action may do. The invariant adds that a profile approves messages and
activities only, and that the snapshot of an execution agrees with what is
committed on every record that nobody else has changed.
`ChangesStayInPolicyHolds` combines them: what is written was nobody else's, so it is
as the action left it and as the postcondition found it.
`PagesAreCompleteHolds` and `ReadsStayInPolicyHolds` need no invariant but the types:
they are about what the read operations compute, for any profile, records, condition,
order, limit and offset. `ArrangementFacts` says that an arrangement lists every record
once, `UntiedPlace` that a record that ties with no other has the same place in all
of them, `PageFacts` which places a page shows and when there is more, `PagesApart` and
`PageOf` that each place is on one page. `Following` counts: the rows that are
followed correspond to the places, all of them if the last page says so, more than
`MaxOffset` otherwise. For the reads, `Alike` relates two states of the records in
which the same are in the scope and agree in some fields; `AlikeListings` and
`AlikeRows` carry it from conditions and orders to rows, `AlikeAnswers` to every
answer.

**Sorting.** `Ascending`, by which the queue lists its waiters, is a CHOOSE over functions. That the choice exists and is
unique for every finite set of numbers (`ListingExists`, `AscendingIs` in
`SequenceLemmas`) is an induction over its size, which the library's
induction theorems state for an operator that the installed provers cannot
instantiate. `LeastNumber` replaces them: a nonempty set of numbers has a
least one (from the well-founded order of the naturals, with a set and no
operator). Each induction then is the least counterexample.

Every invariant and every action property of the runs that pass is thus a
theorem, and so are the three refinements (`ChangePlan`, `WaitingLine`,
`CircuitStates`). Model-checked only are the liveness properties
(`RequestsEnd`, `PlansSettle`, `EveryoneServed`, `Recovers`, `NewsArrive`,
`CallsEnd`): reasoning about fairness needs ENABLED, which is beyond the prover. The
three findings are counterexamples of TLC. `TypeOK` of the queue includes the
limit on the queued futures, which is therefore proved.

The refinements hold the project together: `Sidecar` takes its queue to be a
`WaitingLine`, which `InLineHolds` justifies, and `EventBridge` takes the n-th
event to have version n and to be sent in order, which rests on
`EventsInOrderHolds`.

## 6. Findings

1. **A failed execution is not recorded** (`failure_is_recorded`).
   `service.py:524-526` writes `failed` and the error message and raises
   again; `execute_request` runs the operation in a savepoint and catches the
   exception outside it, so the write is undone and the plan stays
   `approved`. The state bar and the filter of `views/approval_views.xml:45,97`
   can never show it. The plan can be executed again, which is why `ExecutedOnce` does
   not suffer.
2. **A rejection can be overwritten** (`rejection_is_final`).
   `_op_change_execute` tests the expiry before the state, so
   `changes.execute` turns a rejected plan into an expired one once its time is
   over; `docs/admin-guide.md:311` makes execute available for approved
   plans only and `specs/connect_mcp_spec.md:111` calls the records immutable
   outside system transitions. `ChangePlan!Expire` admits the step, as the code does.
3. **A watcher is not started again** (`watcher_ensured`).
   `specs/connect_mcp_server_spec.md:81-89` ensures a watcher after every
   successful identity verification, in particular after the ticket of the
   last one has expired. `server.py:111-114` makes the verifier without
   `on_verified`, and `ensure_watcher` is called from `watch_subscription` only:
   an open subscription falls silent when the ticket (600 s by default) expires or
   none could be had, and stays so until the client subscribes again.

## 7. Plan and what is not modelled

All modules of section 2 are done. What remains, in this order:

1. An abstract specification of the bridge (a subscriber is told of each newer
   version and of nothing twice) over several assignments of a subject, so that
   versions that start at 0 again are covered. Deleting and re-creating an
   assignment while somebody listens is the one listed hazard without a property
   (`subscriptions.py:132`).
2. Event tickets (`models/event_ticket.py`) with their clock: a connection outlives
   the check of its ticket.
3. Proofs: that what the bridge publishes to one stream implements that specification.
4. `ChangeControl` and `PolicyControl` on several access assignments of a user.

Not modelled, and why:

* The tools, resources and prompts of `server.py` and `schemas.py`: they validate
  arguments and forward them; what they do in order is `Sidecar`.
* The controllers beyond what `Sidecar` and `ChangeControl` keep of them: their
  guards precede every change of state and keep none.
* Configuration of both programs: read once, the limits are CONSTANTS here.
* Views, security rules, manifests, packaging, CI: declarative.
* The internals of Odoo, PostgreSQL, httpx and FastMCP: external, modelled from
  how this code uses them.
* Clean-up limits (5000 plans, 10000 audit rows a day): the rest is left for the next
  day. Ids are used again in `PolicyControl`, since records are few.
