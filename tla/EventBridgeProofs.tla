---------------------------- MODULE EventBridgeProofs ---------------------------
(***************************************************************************)
(* Theorems about EventBridge, for any listeners, tasks and resources.     *)
(***************************************************************************)
EXTENDS EventBridge, FiniteSetTheorems, TLAPS

USE WatchAssumption, ListenerAssumption, CacheAssumption, BoundAssumption

Counted == {l \in Listener : counted[l]}

\* The subset that is counted is finite, and no larger than all of them.
LEMMA CountedIsFinite ==
    ASSUME NEW S \in SUBSET Listener
    PROVE  IsFiniteSet(S) /\ Cardinality(S) \in 0 .. Cardinality(Listener)
<1>1. IsFiniteSet(S) /\ Cardinality(S) <= Cardinality(Listener)
  BY FS_Subset
<1>2. Cardinality(S) \in Nat /\ Cardinality(Listener) \in Nat
  BY <1>1, FS_CardinalityType
<1> QED
  BY <1>1, <1>2

LEMMA InvInit ==
    ASSUME Init
    PROVE  Inv
<1>1. Cardinality(Listener) \in Nat
  BY FS_CardinalityType
<1>2. TypeOK
  <2>1. log \in Seq(Uri) /\ Len(log) = 0
    BY DEF Init
  <2>2. 0 \in 0 .. Cardinality(Listener)
    BY <1>1
  <2>3. /\ stream \in [Listener -> {"off", "entering", "open"}]
        /\ counted \in [Listener -> BOOLEAN] /\ attached \in [Listener -> BOOLEAN]
        /\ since \in [Listener -> Nat] /\ heard \in [Listener -> SUBSET Nat]
    BY DEF Init
  <2>4. /\ task \in [Watch -> {"none", "cancelled", "ended"} \cup AtWork]
        /\ cursor \in [Watch -> Nat] /\ versions \in [Uri -> Nat]
    BY DEF Init
  <2>5. forgotten \in 0 .. Len(log) /\ references \in 0 .. Cardinality(Listener)
    BY <2>1, <2>2 DEF Init
  <2>6. /\ watcher \in Watch \cup {None} /\ gathered \in Watch \cup {None}
        /\ closing \in {"open", "closing", "closed"} /\ cached \in BOOLEAN
    BY DEF Init
  <2> QED
    BY <2>1, <2>3, <2>4, <2>5, <2>6 DEF TypeOK
<1>3. OneWatcher
  <2>1. {l \in Listener : counted[l]} = {}
    BY DEF Init
  <2>2. Cardinality({}) = 0
    BY FS_EmptySet
  <2> QED
    BY <2>1, <2>2 DEF Init, OneWatcher, AtWork
<1>4. NobodyCutOff /\ HeardInv /\ TasksInv
  BY DEF Init, NobodyCutOff, HeardInv, TasksInv
<1> QED
  BY <1>2, <1>3, <1>4 DEF Inv

\* Odoo commits or forgets an event: what was heard stays what it was.
LEMMA OdooKeeps ==
    ASSUME Inv, (\E u \in Uri : Sends(u)) \/ Forgets
    PROVE  Inv'
<1>1. UNCHANGED <<registry, shutdown, cached, streams, tasks>>
  BY DEF Sends, Forgets
<1>2. /\ log' \in Seq(Uri) /\ forgotten' \in 0 .. Len(log')
      /\ Len(log) <= Len(log') /\ \A n \in 1 .. Len(log) : log'[n] = log[n]
  <2>1. CASE \E u \in Uri : Sends(u)
    BY <2>1 DEF Sends, Inv, TypeOK
  <2>2. CASE Forgets
    BY <2>2 DEF Forgets, Inv, TypeOK
  <2> QED
    BY <2>1, <2>2
<1>3. Len(log) \in Nat /\ Len(log') \in Nat
  BY <1>2 DEF Inv, TypeOK
<1>4. TypeOK' /\ OneWatcher' /\ NobodyCutOff' /\ TasksInv'
  BY <1>1, <1>2 DEF Inv, TypeOK, OneWatcher, NobodyCutOff, TasksInv,
                    registry, shutdown, streams, tasks
<1>5. HeardInv'
  BY <1>1, <1>2, <1>3 DEF Inv, HeardInv, registry, shutdown, streams
<1> QED
  BY <1>4, <1>5 DEF Inv

\* The identity cache.
LEMMA CacheKeeps ==
    ASSUME Inv, Verifies \/ IdentityExpires
    PROVE  Inv'
<1>1. cached' \in BOOLEAN /\ UNCHANGED <<odoo, registry, shutdown, streams, tasks>>
  BY DEF Verifies, IdentityExpires
<1>2. TypeOK'
  BY <1>1 DEF Inv, TypeOK, odoo, registry, shutdown, streams, tasks
<1>3. OneWatcher' /\ TasksInv'
  BY <1>1 DEF Inv, OneWatcher, TasksInv, registry, shutdown, streams, tasks
<1>4. NobodyCutOff' /\ HeardInv'
  BY <1>1 DEF Inv, NobodyCutOff, HeardInv, odoo, registry, shutdown, streams
<1> QED
  BY <1>2, <1>3, <1>4 DEF Inv

\* A task only goes on in the registry's watcher; an ended one was replaced.
LEMMA StartKeeps ==
    ASSUME Inv, closing = "open", ~ Watched, StartsWatcher
    PROVE  /\ watcher' \in Watch
           /\ task' \in [Watch -> {"none", "cancelled", "ended"} \cup AtWork]
           /\ \A w \in Watch : task'[w] \in AtWork => w = watcher'
           /\ task'[watcher'] \in AtWork
           /\ \A w \in Watch : task'[w] # "connected" => cursor[w] = 0
<1>1. PICK w \in Watch : /\ task[w] = "none" /\ watcher' = w
                         /\ task' = [task EXCEPT ![w] = "minting"]
  BY DEF StartsWatcher
<1>2. \A v \in Watch : task[v] \notin AtWork
  BY DEF Watched, Inv, OneWatcher, AtWork
<1> QED
  BY <1>1, <1>2 DEF Inv, TypeOK, TasksInv, AtWork

LEMMA ListensKeeps ==
    ASSUME Inv, NEW l \in Listener, Listens(l)
    PROVE  Inv'
<1>1. /\ stream[l] = "off" /\ cached' = CachesIdentity
      /\ stream' = [stream EXCEPT ![l] = "entering"]
      /\ attached' = [attached EXCEPT ![l] = TRUE]
      /\ UNCHANGED <<odoo, versions, shutdown, since, heard, cursor>>
  BY DEF Listens, Attaches
<1>2. CASE closing # "open"
  <2>1. UNCHANGED <<counted, references, watcher, task>>
    BY <1>2 DEF Listens
  <2>2. closing' # "open"
    BY <1>1, <1>2 DEF shutdown
  <2>3. TypeOK' /\ TasksInv' /\ OneWatcher'
    BY <1>1, <1>2, <2>1 DEF Inv, TypeOK, TasksInv, OneWatcher, odoo, shutdown
  <2> QED
    BY <2>2, <2>3 DEF Inv, NobodyCutOff, HeardInv
<1>3. CASE closing = "open"
  <2>1. /\ counted' = [counted EXCEPT ![l] = TRUE] /\ references' = references + 1
        /\ closing' = "open"
    BY <1>1, <1>3 DEF Listens, shutdown
  <2>2. /\ watcher' \in Watch
        /\ task' \in [Watch -> {"none", "cancelled", "ended"} \cup AtWork]
        /\ \A w \in Watch : task'[w] \in AtWork => w = watcher'
        /\ task'[watcher'] \in AtWork
        /\ \A w \in Watch : task'[w] # "connected" => cursor[w] = 0
    <3>1. CASE Watched
      <4>1. watcher' = watcher /\ task' = task
        BY <1>3, <3>1 DEF Listens
      <4>2. watcher \in Watch /\ task[watcher] \in AtWork
        BY <1>3, <3>1 DEF Watched, Inv, TypeOK, TasksInv
      <4> QED
        BY <4>1, <4>2 DEF Inv, TypeOK, OneWatcher, TasksInv
    <3>2. CASE ~ Watched
      <4>1. StartsWatcher
        BY <1>3, <3>2 DEF Listens
      <4> QED
        BY <1>3, <3>2, <4>1, StartKeeps
    <3> QED
      BY <3>1, <3>2
  <2>3. ~ counted[l]
    BY <1>1, <1>3 DEF Inv, HeardInv
  <2>4. Counted' = Counted \cup {l} /\ l \notin Counted
    BY <2>1, <2>3 DEF Counted, Inv, TypeOK
  <2>5. Cardinality(Counted') = Cardinality(Counted) + 1
    <3>1. IsFiniteSet(Counted)
      BY CountedIsFinite DEF Counted
    <3> QED
      BY <2>4, <3>1, FS_AddElement
  <2>6. /\ references = Cardinality(Counted)
        /\ references \in Nat
    BY <1>3 DEF Inv, OneWatcher, Counted, TypeOK
  <2>7. references' = Cardinality(Counted') /\ references' > 0
    BY <2>1, <2>5, <2>6
  <2>8. references' \in 0 .. Cardinality(Listener)
    <3>1. Counted' \in SUBSET Listener
      BY DEF Counted
    <3> QED
      BY <2>7, <3>1, CountedIsFinite
  <2>9. TypeOK'
    BY <1>1, <2>1, <2>2, <2>8 DEF Inv, TypeOK, odoo, shutdown
  <2>10. OneWatcher'
    BY <2>1, <2>2, <2>7 DEF OneWatcher, Counted
  <2>11. NobodyCutOff' /\ HeardInv'
    BY <1>1, <1>3, <2>1 DEF Inv, TypeOK, NobodyCutOff, HeardInv, odoo
  <2>12. TasksInv'
    BY <1>1, <1>3, <2>1, <2>2 DEF Inv, TasksInv, shutdown
  <2> QED
    BY <2>9, <2>10, <2>11, <2>12 DEF Inv
<1> QED
  BY <1>2, <1>3

LEMMA OpensKeeps ==
    ASSUME Inv, NEW l \in Listener, Opens(l)
    PROVE  Inv'
<1>1. /\ stream[l] = "entering" /\ stream' = [stream EXCEPT ![l] = "open"]
      /\ since' = [since EXCEPT ![l] = Len(log)]
      /\ UNCHANGED <<odoo, registry, shutdown, cached, counted, attached, heard, tasks>>
  BY DEF Opens
<1>2. TypeOK'
  BY <1>1 DEF Inv, TypeOK, odoo, registry, shutdown, tasks
<1>3. OneWatcher' /\ TasksInv'
  BY <1>1 DEF Inv, OneWatcher, TasksInv, registry, shutdown, tasks
<1>4. NobodyCutOff' /\ HeardInv'
  BY <1>1 DEF Inv, TypeOK, NobodyCutOff, HeardInv, odoo, registry, shutdown
<1> QED
  BY <1>2, <1>3, <1>4 DEF Inv

\* What a cancellation of the registered watcher leaves.
LEMMA CancelKeeps ==
    ASSUME Inv, CancelsWatcher
    PROVE  /\ task' \in [Watch -> {"none", "cancelled", "ended"} \cup AtWork]
           /\ cursor' \in [Watch -> Nat]
           /\ \A w \in Watch : task'[w] \notin AtWork
           /\ \A w \in Watch : task'[w] # "connected" => cursor'[w] = 0
<1>1. \A w \in Watch : task[w] \in AtWork => w = watcher
  BY DEF Inv, OneWatcher
<1>2. \A w \in Watch :
        /\ task'[w] = IF w = watcher /\ task[w] \in AtWork THEN "cancelled" ELSE task[w]
        /\ cursor'[w] = IF w = watcher THEN 0 ELSE cursor[w]
  BY DEF CancelsWatcher
<1>3. "cancelled" \notin AtWork
  BY DEF AtWork
<1>4. /\ task' \in [Watch -> {"none", "cancelled", "ended"} \cup AtWork]
      /\ cursor' \in [Watch -> Nat]
  BY DEF CancelsWatcher, Inv, TypeOK
<1>5. \A w \in Watch : task'[w] \notin AtWork
  BY <1>1, <1>2, <1>3
<1>6. \A w \in Watch : task'[w] # "connected" => cursor'[w] = 0
  BY <1>1, <1>2 DEF Inv, TasksInv, AtWork
<1> QED
  BY <1>4, <1>5, <1>6

LEMMA LeavesOthersKeeps ==
    ASSUME Inv, NEW l \in Listener, LeavesOthers(l)
    PROVE  Inv'
<1>1. /\ counted[l] /\ Remaining > 0 /\ Off(l) /\ references' = Remaining
      /\ attached' = [attached EXCEPT ![l] = FALSE]
      /\ UNCHANGED <<watcher, versions, tasks>>
  BY DEF LeavesOthers
<1>2. Cardinality(Listener) \in Nat
  BY FS_CardinalityType
<1>3. references' = references - 1 /\ references' > 0 /\ references \in Nat
  BY <1>1, <1>2 DEF Inv, TypeOK, Remaining
<1>4. references' \in 0 .. Cardinality(Listener)
  BY <1>2, <1>3 DEF Inv, TypeOK
<1>5. TypeOK'
  BY <1>1, <1>4 DEF Off, Inv, TypeOK, odoo, shutdown, tasks
<1>6. closing = "open" => references' = Cardinality(Counted')
  <2>1. Counted' = Counted \ {l} /\ l \in Counted
    BY <1>1 DEF Counted, Off, Inv, TypeOK
  <2>2. IsFiniteSet(Counted)
    BY CountedIsFinite DEF Counted
  <2>3. Cardinality(Counted') = Cardinality(Counted) - 1
    BY <2>1, <2>2, FS_RemoveElement
  <2>4. closing = "open" => references = Cardinality(Counted)
    BY DEF Inv, OneWatcher, Counted
  <2> QED
    BY <1>3, <2>3, <2>4
<1>7. OneWatcher'
  BY <1>1, <1>3, <1>6 DEF Off, Inv, OneWatcher, Counted, shutdown, tasks
<1>8. NobodyCutOff' /\ HeardInv'
  BY <1>1 DEF Off, Inv, TypeOK, NobodyCutOff, HeardInv, odoo, shutdown
<1>9. TasksInv'
  BY <1>1 DEF Off, Inv, TasksInv, shutdown, tasks
<1> QED
  BY <1>5, <1>7, <1>8, <1>9 DEF Inv

\* Until the shutdown, who takes the bus down is the only one on it.
LEMMA LastOne ==
    ASSUME Inv, NEW l \in Listener, counted[l], Remaining = 0, closing = "open"
    PROVE  \A k \in Listener \ {l} : ~ counted[k] /\ stream[k] = "off" /\ heard[k] = {}
<1>1. references = Cardinality(Counted) /\ l \in Counted
  BY DEF Inv, OneWatcher, Counted
<1>2. IsFiniteSet(Counted) /\ Cardinality(Counted) \in Nat
  <2>1. IsFiniteSet(Counted)
    BY CountedIsFinite DEF Counted
  <2> QED
    BY <2>1, FS_CardinalityType
<1>3. Cardinality(Counted) <= 1
  BY <1>1, <1>2 DEF Remaining
<1>4. Cardinality(Counted \ {l}) = Cardinality(Counted) - 1 /\ IsFiniteSet(Counted \ {l})
  BY <1>1, <1>2, FS_RemoveElement
<1>5. Cardinality(Counted \ {l}) \in Nat
  BY <1>4, FS_CardinalityType
<1>6. Cardinality(Counted \ {l}) = 0
  BY <1>2, <1>3, <1>4, <1>5
<1>7. Counted \ {l} = {}
  BY <1>4, <1>6, FS_EmptySet
<1>8. \A k \in Listener \ {l} : ~ counted[k]
  BY <1>7 DEF Counted
<1> QED
  BY <1>8 DEF Inv, HeardInv

LEMMA TearsDownKeeps ==
    ASSUME Inv, NEW l \in Listener, TearsDown(l)
    PROVE  Inv'
<1>1. /\ counted[l] /\ Remaining = 0 /\ Off(l) /\ CancelsWatcher
      /\ references' = 0 /\ watcher' = None /\ versions' = [u \in Uri |-> 0]
      /\ attached' = [k \in Listener |-> FALSE]
  BY DEF TearsDown, DetachesAll
<1>2. /\ task' \in [Watch -> {"none", "cancelled", "ended"} \cup AtWork]
      /\ cursor' \in [Watch -> Nat]
      /\ \A w \in Watch : task'[w] \notin AtWork
      /\ \A w \in Watch : task'[w] # "connected" => cursor'[w] = 0
  BY <1>1, CancelKeeps
<1>3. Cardinality(Listener) \in Nat
  BY FS_CardinalityType
<1>4. /\ UNCHANGED <<odoo, shutdown, cached>>
      /\ stream' = [stream EXCEPT ![l] = "off"] /\ counted' = [counted EXCEPT ![l] = FALSE]
      /\ since' = [since EXCEPT ![l] = 0] /\ heard' = [heard EXCEPT ![l] = {}]
  BY <1>1 DEF Off
<1>5. TypeOK'
  BY <1>1, <1>2, <1>3, <1>4 DEF Inv, TypeOK, odoo, shutdown
<1>6. closing = "open" =>
        \A k \in Listener : ~ counted'[k] /\ stream'[k] = "off" /\ heard'[k] = {}
  BY <1>1, <1>4, LastOne DEF Inv, TypeOK
<1>7. OneWatcher'
  <2>1. closing = "open" => Counted' = {}
    BY <1>6 DEF Counted
  <2>2. closing = "open" => Cardinality(Counted') = 0
    BY <2>1, FS_EmptySet
  <2> QED
    BY <1>1, <1>2, <1>4, <2>2 DEF OneWatcher, Counted, shutdown
<1>8. NobodyCutOff' /\ HeardInv'
  BY <1>4, <1>6 DEF NobodyCutOff, HeardInv, shutdown
<1>9. TasksInv'
  BY <1>1, <1>2, <1>4 DEF Inv, TasksInv, shutdown
<1> QED
  BY <1>5, <1>7, <1>8, <1>9 DEF Inv

\* While the bridge is open, every stream is counted.
LEMMA LeavesUncountedKeeps ==
    ASSUME Inv, NEW l \in Listener, LeavesUncounted(l)
    PROVE  Inv'
<1>1. /\ stream[l] # "off" /\ ~ counted[l] /\ Off(l)
      /\ attached' = [attached EXCEPT ![l] = FALSE]
      /\ UNCHANGED <<registry, tasks>>
  BY DEF LeavesUncounted
<1>2. closing # "open" /\ closing' # "open"
  BY <1>1 DEF Inv, HeardInv, Off, shutdown
<1>3. TypeOK'
  BY <1>1 DEF Off, Inv, TypeOK, odoo, registry, shutdown, tasks
<1>4. OneWatcher' /\ NobodyCutOff' /\ HeardInv'
  BY <1>1, <1>2 DEF Inv, OneWatcher, NobodyCutOff, HeardInv, tasks
<1>5. TasksInv'
  BY <1>1, <1>2 DEF Off, Inv, TasksInv, registry, shutdown, tasks
<1> QED
  BY <1>3, <1>4, <1>5 DEF Inv

\* A task that goes from one await to the next, and hears nothing.
LEMMA GoesKeeps ==
    ASSUME Inv, NEW w \in Watch, NEW to, NEW at \in Nat,
           task' = [task EXCEPT ![w] = to], cursor' = [cursor EXCEPT ![w] = at],
           UNCHANGED <<odoo, registry, shutdown, cached, streams>>,
           \/ task[w] \in AtWork /\ to \in AtWork
           \/ to = "ended" /\ at = 0,
           to # "connected" => at = 0
    PROVE  Inv'
<1>1. /\ task'[w] = to /\ cursor'[w] = at /\ to \in AtWork \cup {"ended"}
      /\ \A v \in Watch \ {w} : task'[v] = task[v] /\ cursor'[v] = cursor[v]
  BY DEF Inv, TypeOK
<1>2. TypeOK'
  BY <1>1 DEF Inv, TypeOK, odoo, registry, shutdown, streams
<1>3. OneWatcher'
  <2>1. ASSUME NEW v \in Watch, task'[v] \in AtWork
        PROVE  v = watcher /\ closing = "open"
    <3>1. task[v] \in AtWork
      BY <1>1, <2>1 DEF AtWork
    <3> QED
      BY <3>1 DEF Inv, OneWatcher
  <2> QED
    BY <2>1 DEF Inv, OneWatcher, registry, shutdown, streams
<1>4. NobodyCutOff' /\ HeardInv'
  BY DEF Inv, NobodyCutOff, HeardInv, odoo, registry, shutdown, streams
<1>5. TasksInv'
  BY <1>1 DEF Inv, TypeOK, TasksInv, registry, shutdown
<1> QED
  BY <1>2, <1>3, <1>4, <1>5 DEF Inv

\* An answer, a connection, its end, the end of the task.
LEMMA AwaitsKeeps ==
    ASSUME Inv, NEW w \in Watch,
           Mints(w) \/ MintFails(w) \/ Connects(w) \/ Drops(w) \/ Retires(w) \/ Dies(w)
    PROVE  Inv'
<1>1. 0 \in Nat /\ forgotten \in Nat
  BY DEF Inv, TypeOK
<1>2. CASE Mints(w)
  BY <1>1, <1>2, GoesKeeps DEF Mints, Goes, AtWork
<1>3. CASE MintFails(w) \/ Retires(w) \/ Dies(w)
  BY <1>1, <1>3, GoesKeeps DEF MintFails, Retires, Dies, Goes
<1>4. CASE Connects(w)
  BY <1>1, <1>4, GoesKeeps DEF Connects, AtWork
<1>5. CASE Drops(w)
  BY <1>1, <1>5, GoesKeeps DEF Drops, Goes, AtWork
<1> QED
  BY <1>2, <1>3, <1>4, <1>5

\* The events of a message exist, and the bridge remembers to have told them.
LEMMA RemembersKeeps ==
    ASSUME Inv, NEW w \in Watch, NEW last \in 1 .. Len(log), Receives(w, last)
    PROVE  /\ versions' \in [Uri -> Nat]
           /\ \A u \in Uri : versions[u] <= versions'[u]
           /\ \A n \in News(w, last) : n \in 1 .. Len(log) /\ n <= versions'[log[n]]
<1> DEFINE new == News(w, last)
<1>1. Len(log) \in Nat /\ log \in Seq(Uri) /\ versions \in [Uri -> Nat]
  BY DEF Inv, TypeOK
<1>2. ASSUME NEW n \in new
      PROVE  n \in 1 .. Len(log) /\ n > versions[log[n]] /\ log[n] \in Uri
  <2>1. Incoming(w) \in Nat \ {0}
    BY DEF Inv, TypeOK, Incoming
  <2>2. n \in Incoming(w) .. last /\ n > versions[log[n]]
    BY DEF News
  <2>3. n \in 1 .. Len(log)
    BY <1>1, <2>1, <2>2
  <2> QED
    BY <1>1, <2>2, <2>3
<1>3. /\ versions' \in [Uri -> 0 .. Len(log)]
      /\ \A u \in Uri :
            LET latest == {n \in new : log[n] = u} IN
            IF latest = {} THEN versions'[u] = versions[u]
            ELSE versions'[u] \in latest /\ \A n \in latest : n <= versions'[u]
  BY DEF Receives, Remembers
<1> HIDE DEF new
<1>4. ASSUME NEW u \in Uri
      PROVE  versions[u] <= versions'[u]
  <2>1. CASE \E n \in new : log[n] = u
    <3>1. versions'[u] \in new /\ log[versions'[u]] = u
      BY <1>3, <2>1
    <3> QED
      BY <1>1, <1>2, <3>1
  <2>2. CASE ~ \E n \in new : log[n] = u
    <3>1. versions'[u] = versions[u]
      BY <1>3, <2>2
    <3> QED
      BY <1>1, <3>1
  <2> QED
    BY <2>1, <2>2
<1>5. ASSUME NEW n \in new
      PROVE  n <= versions'[log[n]]
  BY <1>2, <1>3
<1>6. versions' \in [Uri -> Nat]
  BY <1>1, <1>3
<1> QED
  BY <1>2, <1>4, <1>5, <1>6 DEF new

LEMMA ReceivesKeeps ==
    ASSUME Inv, NEW w \in Watch, NEW last \in 1 .. Len(log), Receives(w, last)
    PROVE  Inv'
<1>1. /\ cursor' = [cursor EXCEPT ![w] = last]
      /\ heard' = [l \in Listener |->
                     IF stream[l] = "open" /\ attached[l] THEN heard[l] \cup News(w, last)
                     ELSE heard[l]]
      /\ UNCHANGED <<odoo, references, watcher, shutdown, cached,
                     stream, counted, attached, since, task>>
      /\ task[w] = "connected"
  BY DEF Receives
<1>2. /\ versions' \in [Uri -> Nat]
      /\ \A u \in Uri : versions[u] <= versions'[u]
      /\ \A n \in News(w, last) : n \in 1 .. Len(log) /\ n <= versions'[log[n]]
  BY RemembersKeeps
<1>3. Len(log) \in Nat /\ log \in Seq(Uri) /\ log' = log
  BY <1>1 DEF Inv, TypeOK, odoo
<1>4. TypeOK'
  <2>1. heard' \in [Listener -> SUBSET Nat]
    BY <1>1, <1>2, <1>3 DEF Inv, TypeOK
  <2>2. cursor' \in [Watch -> Nat]
    BY <1>1, <1>3 DEF Inv, TypeOK
  <2> QED
    BY <1>1, <1>2, <2>1, <2>2 DEF Inv, TypeOK, odoo, shutdown
<1>5. OneWatcher' /\ NobodyCutOff'
  BY <1>1 DEF Inv, OneWatcher, NobodyCutOff, shutdown
<1>6. HeardInv'
  <2>1. ASSUME closing = "open", NEW l \in Listener, NEW n \in heard'[l]
        PROVE  n \in 1 .. Len(log) /\ n <= versions'[log[n]]
    <3>1. CASE n \in News(w, last)
      BY <1>2, <3>1
    <3>2. CASE n \in heard[l]
      <4>1. n \in 1 .. Len(log) /\ n <= versions[log[n]]
        BY <2>1, <3>2 DEF Inv, HeardInv
      <4>2. log[n] \in Uri /\ n \in Nat
        BY <1>3, <4>1
      <4>3. versions[log[n]] \in Nat /\ versions'[log[n]] \in Nat
        BY <1>2, <4>2 DEF Inv, TypeOK
      <4>4. versions[log[n]] <= versions'[log[n]]
        BY <1>2, <4>2
      <4> QED
        BY <4>1, <4>2, <4>3, <4>4
    <3> QED
      BY <1>1, <3>1, <3>2
  <2>2. ASSUME closing = "open", NEW l \in Listener, stream[l] # "open"
        PROVE  heard'[l] = {}
    BY <1>1, <2>2 DEF Inv, HeardInv
  <2>3. ASSUME closing = "open", NEW l \in Listener
        PROVE  stream[l] # "off" <=> counted[l]
    BY <2>3 DEF Inv, HeardInv
  <2>4. closing' = closing /\ stream' = stream /\ counted' = counted
    BY <1>1 DEF shutdown
  <2> QED
    BY <1>3, <2>1, <2>2, <2>3, <2>4 DEF HeardInv
<1>7. TasksInv'
  BY <1>1 DEF Inv, TypeOK, TasksInv, shutdown
<1> QED
  BY <1>4, <1>5, <1>6, <1>7 DEF Inv

\* The callback of a finished task leaves a watcher at work registered.
LEMMA IsReapedKeeps ==
    ASSUME Inv, NEW w \in Watch, IsReaped(w)
    PROVE  Inv'
<1>1. /\ task[w] = "ended" /\ task' = [task EXCEPT ![w] = "none"]
      /\ watcher' = IF watcher = w THEN None ELSE watcher
      /\ UNCHANGED <<odoo, references, versions, shutdown, cached, streams, cursor>>
  BY DEF IsReaped, Unregisters
<1>2. task'[w] = "none" /\ \A v \in Watch \ {w} : task'[v] = task[v]
  BY <1>1 DEF Inv, TypeOK
<1>3. TypeOK'
  BY <1>1 DEF Inv, TypeOK, odoo, shutdown, streams
<1>4. OneWatcher'
  <2>1. ASSUME NEW v \in Watch, task'[v] \in AtWork
        PROVE  v = watcher' /\ closing = "open"
    <3>1. v # w /\ task[v] \in AtWork
      BY <1>2, <2>1 DEF AtWork
    <3>2. v = watcher /\ closing = "open"
      BY <3>1 DEF Inv, OneWatcher
    <3> QED
      BY <1>1, <3>1, <3>2
  <2>2. watcher' # None => watcher' = watcher
    BY <1>1
  <2> QED
    BY <1>1, <2>1, <2>2 DEF Inv, OneWatcher, shutdown, streams
<1>5. NobodyCutOff' /\ HeardInv'
  BY <1>1 DEF Inv, NobodyCutOff, HeardInv, odoo, shutdown, streams
<1>6. TasksInv'
  BY <1>1, <1>2 DEF Inv, TypeOK, TasksInv, shutdown
<1> QED
  BY <1>3, <1>4, <1>5, <1>6 DEF Inv

LEMMA ClosesKeeps ==
    ASSUME Inv, Closes
    PROVE  Inv'
<1>1. /\ closing' = "closing" /\ gathered' = watcher /\ CancelsWatcher
      /\ UNCHANGED <<odoo, registry, cached, streams>>
  BY DEF Closes
<1>2. /\ task' \in [Watch -> {"none", "cancelled", "ended"} \cup AtWork]
      /\ cursor' \in [Watch -> Nat]
      /\ \A w \in Watch : task'[w] \notin AtWork
      /\ \A w \in Watch : task'[w] # "connected" => cursor'[w] = 0
  BY <1>1, CancelKeeps
<1>3. TypeOK'
  BY <1>1, <1>2 DEF Inv, TypeOK, odoo, registry, streams
<1>4. OneWatcher' /\ NobodyCutOff' /\ HeardInv' /\ TasksInv'
  BY <1>1, <1>2 DEF OneWatcher, NobodyCutOff, HeardInv, TasksInv
<1> QED
  BY <1>3, <1>4 DEF Inv

LEMMA ClosedKeeps ==
    ASSUME Inv, Closed
    PROVE  Inv'
<1>1. /\ closing = "closing" /\ closing' = "closed" /\ gathered' = None
      /\ references' = 0 /\ watcher' = None /\ versions' = [u \in Uri |-> 0]
      /\ attached' = [l \in Listener |-> FALSE]
      /\ UNCHANGED <<odoo, cached, stream, counted, since, heard, tasks>>
  BY DEF Closed, DetachesAll
<1>2. Cardinality(Listener) \in Nat
  BY FS_CardinalityType
<1>3. TypeOK'
  BY <1>1, <1>2 DEF Inv, TypeOK, odoo, tasks
<1>4. OneWatcher' /\ NobodyCutOff' /\ HeardInv' /\ TasksInv'
  BY <1>1 DEF Inv, OneWatcher, NobodyCutOff, HeardInv, TasksInv, tasks
<1> QED
  BY <1>3, <1>4 DEF Inv

LEMMA InvStep ==
    ASSUME Inv, [Next]_vars
    PROVE  Inv'
<1>1. CASE (\E u \in Uri : Sends(u)) \/ Forgets
  BY <1>1, OdooKeeps
<1>2. CASE Verifies \/ IdentityExpires
  BY <1>2, CacheKeeps
<1>3. CASE Closes
  BY <1>3, ClosesKeeps
<1>4. CASE Closed
  BY <1>4, ClosedKeeps
<1>5. ASSUME NEW l \in Listener, Listens(l) PROVE Inv'
  BY <1>5, ListensKeeps
<1>6. ASSUME NEW l \in Listener, Opens(l) PROVE Inv'
  BY <1>6, OpensKeeps
<1>7. ASSUME NEW l \in Listener, LeavesOthers(l) PROVE Inv'
  BY <1>7, LeavesOthersKeeps
<1>8. ASSUME NEW l \in Listener, TearsDown(l) PROVE Inv'
  BY <1>8, TearsDownKeeps
<1>9. ASSUME NEW l \in Listener, LeavesUncounted(l) PROVE Inv'
  BY <1>9, LeavesUncountedKeeps
<1>10. ASSUME NEW w \in Watch, Runs(w) \/ Drops(w) PROVE Inv'
  <2>1. CASE Mints(w) \/ MintFails(w) \/ Connects(w) \/ Drops(w) \/ Retires(w) \/ Dies(w)
    BY <2>1, AwaitsKeeps
  <2>2. CASE IsReaped(w)
    BY <2>2, IsReapedKeeps
  <2>3. ASSUME NEW last \in 1 .. Len(log), Receives(w, last) PROVE Inv'
    BY <2>3, ReceivesKeeps
  <2> QED
    BY <1>10, <2>1, <2>2, <2>3 DEF Runs
<1>11. CASE UNCHANGED vars
  BY <1>11 DEF Inv, TypeOK, OneWatcher, NobodyCutOff, HeardInv, TasksInv,
               vars, odoo, registry, shutdown, streams, tasks
<1> QED
  BY <1>1, <1>2, <1>3, <1>4, <1>5, <1>6, <1>7, <1>8, <1>9, <1>10, <1>11 DEF Next

\* The inductive invariant holds in every behaviour of the bridge.
THEOREM Invariance == Spec => []Inv
<1>1. Init => Inv
  BY InvInit
<1>2. Inv /\ [Next]_vars => Inv'
  BY InvStep
<1> QED
  BY <1>1, <1>2, PTL DEF Spec

\* Every variable keeps to its type; references never counts more than
\* there are listeners.
THEOREM TypeCorrect == Spec => []TypeOK
<1>1. Inv => TypeOK
  BY DEF Inv
<1> QED
  BY <1>1, Invariance, PTL

\* references counts the listeners, and at most the registered watcher is at
\* work: ensure_watcher, the finally clause, _watcher_done and aclose
\* together.
THEOREM OneWatcherHolds == Spec => []OneWatcher
<1>1. Inv => OneWatcher
  BY DEF Inv
<1> QED
  BY <1>1, Invariance, PTL

\* remove_subject never takes the handler of a stream that is left.
THEOREM NobodyCutOffHolds == Spec => []NobodyCutOff
<1>1. Inv => NobodyCutOff
  BY DEF Inv
<1> QED
  BY <1>1, Invariance, PTL

\* _handle_message publishes nothing a stream has heard, and the events of
\* a resource in their order, through any number of replays.
THEOREM NoNewsTwiceHolds == Spec => NoNewsTwice
<1>1. ASSUME Inv, NEW w \in Watch, NEW last \in 1 .. Len(log), Receives(w, last),
             NEW l \in Listener, NEW n \in News(w, last), NEW m \in heard[l]
      PROVE  m # n /\ (log[m] = log[n] => m < n)
  <2>1. closing = "open"
    BY <1>1 DEF Receives, Inv, OneWatcher, AtWork
  <2>2. m \in 1 .. Len(log) /\ m <= versions[log[m]]
    BY <1>1, <2>1 DEF Inv, HeardInv
  <2>3. n \in 1 .. Len(log) /\ n > versions[log[n]]
    <3>1. n \in 1 .. Len(log)
      BY <1>1, RemembersKeeps
    <3> QED
      BY <3>1 DEF News
  <2>4. Len(log) \in Nat /\ versions[log[m]] \in Nat /\ versions[log[n]] \in Nat
    BY <1>1, <2>2, <2>3 DEF Inv, TypeOK
  <2> QED
    BY <2>2, <2>3, <2>4
<1>2. Inv /\ [Next]_vars =>
        [\A w \in Watch : \A last \in 1 .. Len(log) : Receives(w, last) =>
           \A l \in Listener : stream[l] = "open" =>
               \A n \in News(w, last), m \in heard[l] :
                   m # n /\ (log[m] = log[n] => m < n)]_vars
  BY <1>1
<1> QED
  BY <1>2, Invariance, PTL DEF Spec, NoNewsTwice
===============================================================================
