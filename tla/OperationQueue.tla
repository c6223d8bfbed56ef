---------------------------- MODULE OperationQueue ----------------------------
(***************************************************************************)
(* The sidecar's FIFO queue of Odoo operations (concurrency.py): the tasks *)
(* of one asyncio event loop, each inside                                  *)
(*     async with operation_queue.acquire(subject)                         *)
(*                                                                         *)
(* The bodies of "async with self._registry_lock" never await, so the lock *)
(* is never contended and every one of them is a single step.  What does   *)
(* interleave is the time between a future being settled and its task      *)
(* being resumed: the slot may be granted to a task that has been          *)
(* cancelled or timed out before it notices, and the other way round.      *)
(*                                                                         *)
(* _Entry objects are modelled with their identity: _release_locked drops  *)
(* the entry of its key from the registry, whichever object that is, while *)
(* tasks keep a reference to the object they queued in.                    *)
(*                                                                         *)
(* asyncio is external.  A pending future that is cancelled (by the caller *)
(* or by the timer of wait_for) is "abandoned" until its task resumes; a   *)
(* task cancelled after its future was granted is "revoked": from Python   *)
(* 3.12 on, wait_for raises in it, before, it returned the result and lost *)
(* the cancellation.  pyproject.toml admits both, so both are allowed.     *)
(***************************************************************************)
EXTENDS Naturals, Sequences, SequencesExt, Ascending

CONSTANTS
    Task,           \* operations that tools have asked for
    Subject,        \* authenticated Odoo users
    Scope,          \* CONNECT_MCP_QUEUE_SCOPE
    Global,         \* the key of the only queue if Scope = "global"
    MaxQueueSize,   \* CONNECT_MCP_QUEUE_MAX_SIZE
    Entry,          \* identities of _Entry objects (garbage is reused)
    None            \* an absent registry key, a local variable not yet set

ASSUME ScopeAssumption == Scope \in {"global", "user"} /\ None \notin Subject \cup {Global}
ASSUME SizeAssumption == MaxQueueSize \in Nat \ {0}
ASSUME EntryAssumption == None \notin Entry

Queue == IF Scope = "global" THEN {Global} ELSE Subject

VARIABLES
    entries,        \* self._entries
    active,         \* active[e]: the slot of entry e is taken
    waiters,        \* waiters[e]: the queued futures, named by their tasks
    pc,             \* how far acquire() is in each task
    key,            \* the queue key of the task
    mine            \* the entry object the task holds a reference to

vars == <<entries, active, waiters, pc, key, mine>>

Holding == {"granted", "revoked", "running"}
Working == {"waiting", "abandoned"} \cup Holding

\* Types, and the limit on the futures queued in an entry, dead ones included.
TypeOK ==
    /\ entries \in [Queue -> Entry \cup {None}]
    /\ active \in [Entry -> BOOLEAN]
    /\ waiters \in [Entry -> Seq(Task)]
    /\ \A e \in Entry : Len(waiters[e]) <= MaxQueueSize
    /\ pc \in [Task -> {"idle"} \cup Working]
    /\ key \in [Task -> Queue \cup {None}]
    /\ mine \in [Task -> Entry \cup {None}]

Init ==
    /\ entries = [q \in Queue |-> None]
    /\ active = [e \in Entry |-> FALSE]
    /\ waiters = [e \in Entry |-> <<>>]
    /\ pc = [t \in Task |-> "idle"]
    /\ key = [t \in Task |-> None]
    /\ mine = [t \in Task |-> None]
-------------------------------------------------------------------------------
Garbage == {e \in Entry : /\ \A q \in Queue : entries[q] # e
                          /\ \A t \in Task : mine[t] # e}
EntryOf(q) == IF entries[q] = None THEN Garbage ELSE {entries[q]}

\* The slot is free: it is taken at once.
Enters(t, q) ==
    /\ pc[t] = "idle"
    /\ \E e \in EntryOf(q) :
          /\ ~ active[e]
          /\ entries' = [entries EXCEPT ![q] = e]
          /\ active' = [active EXCEPT ![e] = TRUE]
          /\ mine' = [mine EXCEPT ![t] = e]
    /\ pc' = [pc EXCEPT ![t] = "running"]
    /\ key' = [key EXCEPT ![t] = q]
    /\ UNCHANGED waiters

\* Mutant: the limit is off by one.
X_Queues(t, q) ==
    /\ pc[t] = "idle"
    /\ \E e \in EntryOf(q) :
          /\ active[e]
          /\ Len(waiters[e]) <= MaxQueueSize
          /\ waiters' = [waiters EXCEPT ![e] = Append(@, t)]
          /\ mine' = [mine EXCEPT ![t] = e]
    /\ pc' = [pc EXCEPT ![t] = "waiting"]
    /\ key' = [key EXCEPT ![t] = q]
    /\ UNCHANGED <<entries, active>>

\* The slot is taken: wait, if there is room; operation_queue_full otherwise.
Queues(t, q) ==
    /\ pc[t] = "idle"
    /\ \E e \in EntryOf(q) :
          /\ active[e]
          /\ Len(waiters[e]) < MaxQueueSize
          /\ waiters' = [waiters EXCEPT ![e] = Append(@, t)]
          /\ mine' = [mine EXCEPT ![t] = e]
    /\ pc' = [pc EXCEPT ![t] = "waiting"]
    /\ key' = [key EXCEPT ![t] = q]
    /\ UNCHANGED <<entries, active>>

\* Mutants: the slot goes to the newest waiter; only the first future is
\* looked at, and the slot is given up if it is done.
X_PendingNewest(e) ==
    LET live == {i \in 1 .. Len(waiters[e]) : pc[waiters[e][i]] = "waiting"} IN
    {i \in live : \A j \in live : j <= i}
X_PendingFirst(e) ==
    {i \in 1 .. Len(waiters[e]) : i = 1 /\ pc[waiters[e][i]] = "waiting"}

Pending(e) == {i \in 1 .. Len(waiters[e]) : pc[waiters[e][i]] = "waiting"}

\* Where the future of t is queued.
Place(t) == {i \in 1 .. Len(waiters[mine[t]]) : waiters[mine[t]][i] = t}

\* acquire() is left: its local variables are gone.
Forgets(t) == key' = [key EXCEPT ![t] = None] /\ mine' = [mine EXCEPT ![t] = None]

\* _release_locked(key, entry) on behalf of task t, which is done: the first
\* waiter whose future is still pending gets the slot, those before it are
\* dropped; without one the entry leaves the registry.
Release(t) ==
    LET e == mine[t] IN
    /\ IF Pending(e) = {}
       THEN /\ pc' = [pc EXCEPT ![t] = "idle"]
            /\ waiters' = [waiters EXCEPT ![e] = <<>>]
            /\ active' = [active EXCEPT ![e] = FALSE]
            /\ entries' = [entries EXCEPT ![key[t]] = None]
       ELSE \E i \in Pending(e) :
            /\ \A j \in Pending(e) : i <= j
            /\ pc' = [pc EXCEPT ![t] = "idle", ![waiters[e][i]] = "granted"]
            /\ waiters' = [waiters EXCEPT ![e] = SubSeq(@, i + 1, Len(@))]
            /\ UNCHANGED <<active, entries>>
    /\ Forgets(t)

\* The wait of t times out, or t is cancelled while it waits.
Abandons(t) ==
    /\ pc[t] \in {"waiting", "granted"}
    /\ pc' = [pc EXCEPT ![t] = IF @ = "waiting" THEN "abandoned" ELSE "revoked"]
    /\ UNCHANGED <<entries, active, waiters, key, mine>>

\* _discard_waiter: a waiter that is still queued leaves the queue (its
\* future is in there once).
LeavesQueue(t) ==
    /\ \E i \in Place(t) :
          waiters' = [waiters EXCEPT ![mine[t]] = RemoveAt(@, i)]
    /\ pc' = [pc EXCEPT ![t] = "idle"]
    /\ Forgets(t)
    /\ UNCHANGED <<entries, active>>

\* Nothing to do: the task is not in the queue any more.
JustLeaves(t) ==
    /\ pc' = [pc EXCEPT ![t] = "idle"]
    /\ Forgets(t)
    /\ UNCHANGED <<entries, active, waiters>>

\* Mutants: a waiter that a release has skipped gives back a slot it never
\* had; one that was granted the slot keeps it for ever.
X_DiscardsAlways(t) ==
    /\ pc[t] \in {"abandoned", "revoked"}
    /\ IF Place(t) # {} THEN LeavesQueue(t) ELSE Release(t)
X_DiscardsOnly(t) ==
    /\ pc[t] \in {"abandoned", "revoked"}
    /\ IF Place(t) # {} THEN LeavesQueue(t) ELSE JustLeaves(t)

\* If a release has given it the slot meanwhile it passes the slot on; if a
\* release has skipped it, it owns nothing.
Discards(t) ==
    /\ pc[t] \in {"abandoned", "revoked"}
    /\ \/ LeavesQueue(t)
       \/ Place(t) = {} /\ pc[t] = "revoked" /\ Release(t)
       \/ Place(t) = {} /\ pc[t] = "abandoned" /\ JustLeaves(t)

Resumes(t) ==
    /\ pc[t] \in {"granted", "revoked"}
    /\ pc' = [pc EXCEPT ![t] = "running"]
    /\ UNCHANGED <<entries, active, waiters, key, mine>>

\* The operation ends, by an answer, an error or a cancellation.
Finishes(t) == pc[t] = "running" /\ Release(t)

Arrives(t) == \E q \in Queue : Enters(t, q) \/ Queues(t, q)
Wakes(t) == Discards(t) \/ Resumes(t)

Next == \E t \in Task : Arrives(t) \/ Abandons(t) \/ Wakes(t) \/ Finishes(t)

Spec == Init /\ [][Next]_vars

\* The event loop resumes every task that is ready, and no operation lasts
\* for ever: the HTTP client gives up after request_timeout_seconds without
\* data and after max_response_bytes.  Nothing makes a wait time out.
FairSpec == Spec /\ \A t \in Task : WF_vars(Wakes(t)) /\ WF_vars(Finishes(t))
-------------------------------------------------------------------------------
Holders(q) == {t \in Task : pc[t] \in Holding /\ key[t] = q}

\* Two tasks of a queue never hold its slot at the same time: not when a
\* cancelled waiter is granted the slot, not when an abandoned one is
\* skipped, not when an entry is dropped and created anew.
OneAtATime == \A q \in Queue : \A t, u \in Holders(q) : t = u

\* A taken slot is always somebody's, who will give it back, and everybody
\* who waits or holds a slot does so in the entry newcomers will find: no
\* slot leaks and no waiter is left behind in a dropped entry.
NoSlotLeaks ==
    /\ \A q \in Queue : entries[q] # None => Holders(q) # {}
    /\ \A t \in Task : pc[t] \in Holding \cup {"waiting"} => entries[key[t]] = mine[t]

\* Why: what the registry, the entries and the tasks know of each other.
TasksInv ==
    \A t \in Task : IF pc[t] = "idle" THEN key[t] = None /\ mine[t] = None
                    ELSE key[t] \in Queue /\ mine[t] \in Entry
EntriesInv ==
    /\ \A e \in Entry : active[e] <=> \E q \in Queue : entries[q] = e
    /\ \A p, q \in Queue : entries[p] # None /\ entries[p] = entries[q] => p = q
WaitersInv ==
    /\ \A e \in Entry : \A i \in 1 .. Len(waiters[e]) :
          /\ pc[waiters[e][i]] \in {"waiting", "abandoned"}
          /\ mine[waiters[e][i]] = e
          /\ \A j \in 1 .. Len(waiters[e]) : waiters[e][i] = waiters[e][j] => i = j
    /\ \A t \in Task : pc[t] = "waiting" => Place(t) # {}

Inv == /\ TypeOK
       /\ TasksInv /\ EntriesInv /\ WaitersInv
       /\ OneAtATime /\ NoSlotLeaks

\* The queued futures w whose tasks, being at c, still wait, in order.
Waiting(w, c) == {i \in 1 .. Len(w) : c[w[i]] = "waiting"}
InOrder(w, c) == [i \in 1 .. Cardinality(Waiting(w, c)) |-> w[Ascending(Waiting(w, c))[i]]]

LineOf(q) == SetToSeq(Holders(q)) \o
             (IF entries[q] = None THEN <<>> ELSE InOrder(waiters[entries[q]], pc))

\* First come, first served, and no more waiters than the limit: the queue
\* implements WaitingLine if those who have given up waiting do not count.
Line == INSTANCE WaitingLine WITH line <- [q \in Queue |-> LineOf(q)]
InLine == Line!Spec

\* Whoever waits is served in the end, or stops waiting.
EveryoneServed == \A t \in Task : []<>(pc[t] \in {"running", "idle"})
===============================================================================
