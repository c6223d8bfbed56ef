------------------------------ MODULE EventBridge ------------------------------
(***************************************************************************)
(* The sidecar's event bridge (subscriptions.py) for one Odoo subject: the *)
(* MCP subscriptions of its clients, the watcher task they share, and the  *)
(* bus of Odoo the watcher reads through its event ticket.                 *)
(*                                                                         *)
(* Everything happens in tasks of one event loop: a step reaches from one  *)
(* await that suspends to the next.  Entering watch_subscription, with     *)
(* ensure_watcher, never suspends; leaving it suspends only when all is    *)
(* done; publishing an event calls plain functions (SubscriptionPublisher  *)
(* .subscribe).  What does interleave: a watcher that was cancelled, or    *)
(* has ended, and the loop has not got round to it; listeners that come    *)
(* while others leave; connections that break and replay the bus; the      *)
(* shutdown.                                                               *)
(*                                                                         *)
(* Event versions are the order of commits in Odoo (ChangeControl!         *)
(* EventsInOrder), so the n-th event has version n.  External: Odoo's bus, *)
(* which delivers in that order and keeps events for some time, and the    *)
(* ListenHandler of the MCP library, which sends what is published while a *)
(* stream is open.                                                         *)
(***************************************************************************)
EXTENDS Naturals, Sequences, FiniteSets

CONSTANTS
    Listener,       \* subscriptions/listen requests of the subject
    Watch,          \* asyncio tasks that run _watch (finished ones are reused)
    Uri,            \* resources that events are about
    CachesIdentity, \* CONNECT_MCP_IDENTITY_CACHE_SECONDS is not 0
    MaxVersion,     \* bound: no event is sent after this one
    None            \* no watcher

ASSUME WatchAssumption == None \notin Watch
ASSUME ListenerAssumption == IsFiniteSet(Listener)
ASSUME CacheAssumption == CachesIdentity \in BOOLEAN
ASSUME BoundAssumption == MaxVersion \in Nat

VARIABLES
    log,            \* log[n]: the resource of the event with version n
    forgotten,      \* how many of them Odoo's bus does not keep any more
    references,     \* self._references[subject], 0 if there is none
    watcher,        \* self._watchers[subject]
    versions,       \* versions[u]: self._versions[subject, u], 0 if none
    closing,        \* how far aclose() is
    gathered,       \* the watcher aclose() waits for
    cached,         \* the subject's identity is in the verifier's cache
    stream,         \* how far each subscriptions/listen request is
    counted,        \* it is inside of watch_subscription
    attached,       \* its ListenHandler is the one publish() reaches
    since,          \* events sent before its stream was open
    heard,          \* versions its stream was told
    task,           \* how far each watcher task is
    cursor          \* the last version read through its present connection

odoo == <<log, forgotten>>
registry == <<references, watcher, versions>>
shutdown == <<closing, gathered>>
streams == <<stream, counted, attached, since, heard>>
tasks == <<task, cursor>>
vars == <<odoo, registry, shutdown, cached, streams, tasks>>

AtWork == {"minting", "looping", "connected"}

TypeOK ==
    /\ log \in Seq(Uri)
    /\ forgotten \in 0 .. Len(log)
    /\ references \in 0 .. Cardinality(Listener)
    /\ watcher \in Watch \cup {None}
    /\ versions \in [Uri -> Nat]
    /\ closing \in {"open", "closing", "closed"}
    /\ gathered \in Watch \cup {None}
    /\ cached \in BOOLEAN
    /\ stream \in [Listener -> {"off", "entering", "open"}]
    /\ counted \in [Listener -> BOOLEAN]
    /\ attached \in [Listener -> BOOLEAN]
    /\ since \in [Listener -> Nat]
    /\ heard \in [Listener -> SUBSET Nat]
    /\ task \in [Watch -> {"none", "cancelled", "ended"} \cup AtWork]
    /\ cursor \in [Watch -> Nat]

Init ==
    /\ log = <<>> /\ forgotten = 0
    /\ references = 0 /\ watcher = None /\ versions = [u \in Uri |-> 0]
    /\ closing = "open" /\ gathered = None
    /\ cached = FALSE
    /\ stream = [l \in Listener |-> "off"]
    /\ counted = [l \in Listener |-> FALSE]
    /\ attached = [l \in Listener |-> FALSE]
    /\ since = [l \in Listener |-> 0]
    /\ heard = [l \in Listener |-> {}]
    /\ task = [w \in Watch |-> "none"]
    /\ cursor = [w \in Watch |-> 0]
-------------------------------------------------------------------------------
(***************************************************************************)
(* Odoo and the identity cache.                                            *)
(***************************************************************************)
\* A transaction that queued an event for u commits.
Sends(u) ==
    /\ Len(log) < MaxVersion
    /\ log' = Append(log, u)
    /\ UNCHANGED <<forgotten, registry, shutdown, cached, streams, tasks>>

\* The oldest event is too old to be replayed to a new connection.
Forgets ==
    /\ forgotten < Len(log)
    /\ forgotten' = forgotten + 1
    /\ UNCHANGED <<log, registry, shutdown, cached, streams, tasks>>

\* verify_token() lets another request of the subject through and keeps its
\* identity.  create_server() gives the verifier no on_verified.
Verifies ==
    /\ CachesIdentity /\ ~ cached /\ cached' = TRUE
    /\ UNCHANGED <<odoo, registry, shutdown, streams, tasks>>

IdentityExpires ==
    /\ cached /\ cached' = FALSE
    /\ UNCHANGED <<odoo, registry, shutdown, streams, tasks>>
-------------------------------------------------------------------------------
(***************************************************************************)
(* subscriptions/listen                                                    *)
(***************************************************************************)
Watched == watcher # None /\ task[watcher] # "ended"

\* asyncio.create_task(self._watch(...)), put in the registry.
StartsWatcher ==
    \E w \in Watch :
        /\ task[w] = "none"
        /\ watcher' = w
        /\ task' = [task EXCEPT ![w] = "minting"]

\* _handler(): the stream gets the subject's ListenHandler, a new one if
\* there is none.
Attaches(l) == attached' = [attached EXCEPT ![l] = TRUE]

\* remove_subject() or close(): handler and bus are gone.
DetachesAll == attached' = [l \in Listener |-> FALSE]

\* An authenticated listen request enters watch_subscription and calls the
\* handler.
Listens(l) ==
    /\ stream[l] = "off"
    /\ cached' = CachesIdentity
    /\ stream' = [stream EXCEPT ![l] = "entering"]
    /\ Attaches(l)
    /\ IF closing = "open"
       THEN /\ counted' = [counted EXCEPT ![l] = TRUE]
            /\ references' = references + 1
            /\ IF Watched THEN UNCHANGED <<watcher, task>> ELSE StartsWatcher
       ELSE UNCHANGED <<counted, references, watcher, task>>
    /\ UNCHANGED <<odoo, versions, shutdown, since, heard, cursor>>

\* Its stream is open: it will be told what is published from now on.
Opens(l) ==
    /\ stream[l] = "entering"
    /\ stream' = [stream EXCEPT ![l] = "open"]
    /\ since' = [since EXCEPT ![l] = Len(log)]
    /\ UNCHANGED <<odoo, registry, shutdown, cached, counted, attached, heard, tasks>>

\* task.cancel() of the registered watcher, if it has not finished.
CancelsWatcher ==
    /\ task' = [w \in Watch |-> IF w = watcher /\ task[w] \in AtWork THEN "cancelled"
                                ELSE task[w]]
    /\ cursor' = [w \in Watch |-> IF w = watcher THEN 0 ELSE cursor[w]]

Off(l) ==
    /\ stream' = [stream EXCEPT ![l] = "off"]
    /\ counted' = [counted EXCEPT ![l] = FALSE]
    /\ since' = [since EXCEPT ![l] = 0]
    /\ heard' = [heard EXCEPT ![l] = {}]
    /\ UNCHANGED <<odoo, shutdown, cached>>

\* Mutants: whoever leaves takes the subject's bus down; nobody does.
X_Remaining == 0
X_RemainingKept == references

\* self._references.get(subject, 1) - 1
Remaining == IF references = 0 THEN 0 ELSE references - 1

\* The client disconnects, or its handler was closed: the finally clause.
\* Others are left: they keep the watcher.
LeavesOthers(l) ==
    /\ stream[l] # "off" /\ counted[l] /\ Remaining > 0
    /\ Off(l)
    /\ references' = Remaining
    /\ attached' = [attached EXCEPT ![l] = FALSE]
    /\ UNCHANGED <<watcher, versions, tasks>>

\* The last one takes the subject's watcher, versions, handler and bus down.
TearsDown(l) ==
    /\ stream[l] # "off" /\ counted[l] /\ Remaining = 0
    /\ Off(l)
    /\ references' = 0 /\ watcher' = None /\ versions' = [u \in Uri |-> 0]
    /\ DetachesAll
    /\ CancelsWatcher

\* It came after aclose() had begun and was never counted.
LeavesUncounted(l) ==
    /\ stream[l] # "off" /\ ~ counted[l]
    /\ Off(l)
    /\ attached' = [attached EXCEPT ![l] = FALSE]
    /\ UNCHANGED <<registry, tasks>>
-------------------------------------------------------------------------------
(***************************************************************************)
(* The watcher                                                             *)
(***************************************************************************)
Goes(w, from, to) ==
    /\ task[w] = from
    /\ task' = [task EXCEPT ![w] = to]
    /\ cursor' = [cursor EXCEPT ![w] = 0]
    /\ UNCHANGED <<odoo, registry, shutdown, cached, streams>>

\* _mint_ticket has an answer; or none it can use.
Mints(w) == Goes(w, "minting", "looping")
MintFails(w) == Goes(w, "minting", "ended")

\* Mutant: a new connection asks for new events only.
X_Connects(w) ==
    /\ task[w] = "looping"
    /\ task' = [task EXCEPT ![w] = "connected"]
    /\ cursor' = [cursor EXCEPT ![w] = Len(log)]
    /\ UNCHANGED <<odoo, registry, shutdown, cached, streams>>

\* The ticket is good; {"event_name": "subscribe", "data": {"last": 0}} asks
\* for all that is kept.
Connects(w) ==
    /\ task[w] = "looping"
    /\ task' = [task EXCEPT ![w] = "connected"]
    /\ cursor' = [cursor EXCEPT ![w] = forgotten]
    /\ UNCHANGED <<odoo, registry, shutdown, cached, streams>>

\* The connection's lifetime is over, or it breaks: back to the loop.
Drops(w) == Goes(w, "connected", "looping")

\* The ticket has expired, or Odoo answers 401 or 403 to it.
Retires(w) == Goes(w, "looping", "ended")

\* A cancellation reaches the task.
Dies(w) == Goes(w, "cancelled", "ended")

\* The next version the connection delivers; forgotten ones are skipped.
Incoming(w) == (IF cursor[w] < forgotten THEN forgotten ELSE cursor[w]) + 1

\* Mutant: a replayed event counts as news.
X_News(w, last) == {n \in Incoming(w) .. last : n >= versions[log[n]]}

\* Of the events of a message, those later than the last of their resource.
News(w, last) == {n \in Incoming(w) .. last : n > versions[log[n]]}

\* The last version of each resource is remembered.
Remembers(news) ==
    /\ versions' \in [Uri -> 0 .. Len(log)]
    /\ \A u \in Uri :
          LET latest == {n \in news : log[n] = u} IN
          IF latest = {} THEN versions'[u] = versions[u]
          ELSE versions'[u] \in latest /\ \A n \in latest : n <= versions'[u]

\* _handle_message: the events up to version "last" arrive in one message;
\* those that are news are published to the streams, the others dropped.
Receives(w, last) ==
    /\ task[w] = "connected" /\ last \in Incoming(w) .. Len(log)
    /\ cursor' = [cursor EXCEPT ![w] = last]
    /\ Remembers(News(w, last))
    /\ heard' = [l \in Listener |->
                   IF stream[l] = "open" /\ attached[l] THEN heard[l] \cup News(w, last)
                   ELSE heard[l]]
    /\ UNCHANGED <<odoo, references, watcher, shutdown, cached,
                   stream, counted, attached, since, task>>

\* Mutant: the callback of an old task removes whatever is registered.
X_Unregisters(w) == watcher' = None

Unregisters(w) == watcher' = IF watcher = w THEN None ELSE watcher

\* _watcher_done, called by the loop some time after the task has ended.
IsReaped(w) ==
    /\ task[w] = "ended" /\ task' = [task EXCEPT ![w] = "none"]
    /\ Unregisters(w)
    /\ UNCHANGED <<odoo, references, versions, shutdown, cached, streams, cursor>>
-------------------------------------------------------------------------------
(***************************************************************************)
(* aclose()                                                                *)
(***************************************************************************)
Closes ==
    /\ closing = "open" /\ closing' = "closing"
    /\ gathered' = watcher
    /\ CancelsWatcher
    /\ UNCHANGED <<odoo, registry, cached, streams>>

Closed ==
    /\ closing = "closing" /\ closing' = "closed"
    /\ gathered # None => task[gathered] # "cancelled"
    /\ gathered' = None
    /\ references' = 0 /\ watcher' = None /\ versions' = [u \in Uri |-> 0]
    /\ DetachesAll
    /\ UNCHANGED <<odoo, cached, stream, counted, since, heard, tasks>>
-------------------------------------------------------------------------------
\* What the loop does by itself with a watcher task.
Runs(w) == \/ Mints(w) \/ MintFails(w) \/ Connects(w) \/ Retires(w) \/ Dies(w) \/ IsReaped(w)
           \/ \E last \in 1 .. Len(log) : Receives(w, last)

Next ==
    \/ \E u \in Uri : Sends(u)
    \/ Forgets \/ Verifies \/ IdentityExpires \/ Closes \/ Closed
    \/ \E l \in Listener : \/ Listens(l) \/ Opens(l)
                           \/ LeavesOthers(l) \/ TearsDown(l) \/ LeavesUncounted(l)
    \/ \E w \in Watch : Runs(w) \/ Drops(w)

Spec == Init /\ [][Next]_vars

\* The loop goes on.  The watcher tries again and again, at most a second
\* apart, and Odoo sends what it has in one message: so a network that works
\* now and then lets it connect and get that message.  Connections may break
\* all the time, nothing makes Odoo keep its events, and nothing makes
\* listeners come or leave.
FairSpec ==
    /\ Spec
    /\ \A w \in Watch : /\ WF_vars(Runs(w))
                        /\ SF_vars(Connects(w)) /\ SF_vars(Receives(w, Len(log)))
-------------------------------------------------------------------------------
\* At most one watcher is at work, the registered one, and none when nobody
\* listens: callbacks of finished tasks, cancelled tasks that have not ended and
\* the shutdown included.
OneWatcher ==
    /\ closing = "open" =>
          /\ references = Cardinality({l \in Listener : counted[l]})
          /\ watcher # None => references > 0
    /\ \A w \in Watch : task[w] \in AtWork => w = watcher /\ closing = "open"

\* Whoever leaves never cuts the others off: each stream hangs on the
\* handler that events are published to, until the shutdown.
NobodyCutOff ==
    closing = "open" => \A l \in Listener : stream[l] # "off" => attached[l]

\* A stream is told of each event once, and of those of a resource in
\* their order, however often connections replay the bus.
NoNewsTwice ==
    [][\A w \in Watch : \A last \in 1 .. Len(log) : Receives(w, last) =>
          \A l \in Listener : stream[l] = "open" =>
              \A n \in News(w, last), m \in heard[l] :
                  m # n /\ (log[m] = log[n] => m < n)]_vars

\* Why: a stream has heard what the bridge remembers to have published.
HeardInv ==
    closing = "open" =>
        \A l \in Listener :
            /\ stream[l] # "off" <=> counted[l]
            /\ \A n \in heard[l] : n \in 1 .. Len(log) /\ n <= versions[log[n]]
            /\ stream[l] # "open" => heard[l] = {}
TasksInv ==
    /\ closing = "open" /\ watcher # None => task[watcher] \in AtWork \cup {"ended"}
    /\ \A w \in Watch : task[w] # "connected" => cursor[w] = 0
    /\ gathered # None => closing = "closing"

Inv == TypeOK /\ OneWatcher /\ NobodyCutOff /\ HeardInv /\ TasksInv

\* An event sent while a stream is open reaches it, whatever breaks in
\* between, unless Odoo's bus forgets it first or the watcher ends.
Due(l, n) == stream[l] = "open" /\ since[l] < n /\ n <= Len(log) /\ n \notin heard[l]
NewsArrive ==
    \A l \in Listener, n \in 1 .. MaxVersion :
        Due(l, n) ~> ~ Due(l, n) \/ n <= forgotten \/ ~ \E w \in Watch : task[w] \in AtWork

\* "After successful identity verification, an in-process watcher is ensured
\* for the subject": at least if one of its subscriptions is open.
WatcherEnsured ==
    [][Verifies /\ closing = "open" /\ (\E l \in Listener : stream[l] = "open")
          => (\E w \in Watch : task[w] \in AtWork)']_vars
===============================================================================
