-------------------------- MODULE OperationQueueProofs --------------------------
(***************************************************************************)
(* Theorems about OperationQueue, for any tasks, users, scope and limits.  *)
(***************************************************************************)
EXTENDS OperationQueue, SequenceLemmas, TLAPS

USE ScopeAssumption, SizeAssumption, EntryAssumption

(***************************************************************************)
(* The inductive invariant.                                                *)
(***************************************************************************)
LEMMA InvInit ==
    ASSUME Init
    PROVE  Inv
BY DEF Init, Inv, TypeOK, TasksInv, EntriesInv, WaitersInv, OneAtATime, NoSlotLeaks,
       Holders, Holding, Working, Place

\* What Inv says of a task that is at work.
LEMMA AtWork ==
    ASSUME Inv, NEW t \in Task, pc[t] # "idle"
    PROVE  key[t] \in Queue /\ mine[t] \in Entry /\ waiters[mine[t]] \in Seq(Task)
BY DEF Inv, TypeOK, TasksInv

\* A holder of the slot is not queued any more.
LEMMA HolderNotQueued ==
    ASSUME Inv, NEW t \in Task, pc[t] \in Holding, NEW e \in Entry,
           NEW i \in 1 .. Len(waiters[e])
    PROVE  waiters[e][i] # t
BY DEF Inv, WaitersInv, Holding

LEMMA EntersKeeps ==
    ASSUME Inv, NEW t \in Task, NEW q \in Queue, Enters(t, q)
    PROVE  Inv'
<1>1. PICK e \in EntryOf(q) :
          /\ ~ active[e]
          /\ entries' = [entries EXCEPT ![q] = e]
          /\ active' = [active EXCEPT ![e] = TRUE]
          /\ mine' = [mine EXCEPT ![t] = e]
  BY DEF Enters
<1>2. /\ pc[t] = "idle" /\ pc' = [pc EXCEPT ![t] = "running"]
      /\ key' = [key EXCEPT ![t] = q] /\ waiters' = waiters
  BY DEF Enters
<1>3. entries[q] = None /\ e \in Entry /\ e # None
      /\ (\A p \in Queue : entries[p] # e) /\ (\A u \in Task : mine[u] # e)
  <2>1. entries[q] = None
    <3>1. SUFFICES ASSUME entries[q] # None PROVE FALSE
      OBVIOUS
    <3>2. e = entries[q] /\ e \in Entry
      BY <1>1, <3>1 DEF EntryOf, Inv, TypeOK
    <3> QED
      BY <1>1, <3>2 DEF Inv, EntriesInv
  <2> QED
    BY <1>1, <2>1, EntryAssumption DEF EntryOf, Garbage
<1>4. TypeOK'
  BY <1>1, <1>2, <1>3 DEF Inv, TypeOK, Working, Holding
<1>5. TasksInv'
  BY <1>1, <1>2, <1>3 DEF Inv, TypeOK, TasksInv
<1>6. EntriesInv'
  BY <1>1, <1>3 DEF Inv, TypeOK, EntriesInv
<1>7. WaitersInv'
  <2>1. \A f \in Entry : \A i \in 1 .. Len(waiters[f]) : waiters[f][i] \in Task \ {t}
    BY <1>2 DEF Inv, TypeOK, WaitersInv
  <2>2. \A u \in Task \ {t} : pc'[u] = pc[u] /\ mine'[u] = mine[u]
    BY <1>1, <1>2 DEF Inv, TypeOK
  <2>3. ASSUME NEW f \in Entry, NEW i \in 1 .. Len(waiters'[f])
        PROVE  /\ pc'[waiters'[f][i]] \in {"waiting", "abandoned"}
               /\ mine'[waiters'[f][i]] = f
               /\ \A j \in 1 .. Len(waiters'[f]) :
                     waiters'[f][i] = waiters'[f][j] => i = j
    <3>1. waiters' = waiters /\ waiters[f][i] \in Task \ {t}
      BY <1>2, <2>1, <2>3
    <3>2. /\ pc[waiters[f][i]] \in {"waiting", "abandoned"}
          /\ mine[waiters[f][i]] = f
          /\ \A j \in 1 .. Len(waiters[f]) : waiters[f][i] = waiters[f][j] => i = j
      BY <2>3, <3>1 DEF Inv, WaitersInv
    <3> QED
      BY <2>2, <3>1, <3>2
  <2>4. ASSUME NEW u \in Task, pc'[u] = "waiting" PROVE Place(u)' # {}
    <3>1. u # t
      BY <1>2, <2>4 DEF Inv, TypeOK
    <3> QED
      BY <1>2, <2>2, <2>4, <3>1 DEF Inv, WaitersInv, Place
  <2> QED
    BY <2>3, <2>4 DEF WaitersInv
<1>8. \A u \in Task : pc[u] \in Holding => key[u] # q
  BY <1>3, AtWork DEF Inv, NoSlotLeaks, Holding
<1>9. OneAtATime'
  BY <1>2, <1>8 DEF Inv, TypeOK, OneAtATime, Holders
<1>10. NoSlotLeaks'
  <2>1. \A p \in Queue : entries'[p] # None => Holders(p)' # {}
    <3>1. t \in Holders(q)'
      BY <1>2 DEF Inv, TypeOK, Holders, Holding
    <3>2. ASSUME NEW p \in Queue, p # q, entries'[p] # None PROVE Holders(p)' # {}
      <4>1. PICK u \in Task : pc[u] \in Holding /\ key[u] = p
        BY <1>1, <3>2 DEF Inv, TypeOK, NoSlotLeaks, Holders
      <4>2. u # t
        BY <1>2, <4>1 DEF Holding
      <4> QED
        BY <1>2, <4>1, <4>2 DEF Inv, TypeOK, Holders
    <3> QED
      BY <3>1, <3>2
  <2>2. \A u \in Task : pc'[u] \in Holding \cup {"waiting"} => entries'[key'[u]] = mine'[u]
    <3>1. ASSUME NEW u \in Task \ {t}, pc[u] \in Holding \cup {"waiting"}
          PROVE  entries'[key[u]] = mine[u]
      BY <1>1, <1>3, <3>1, AtWork DEF Inv, TypeOK, NoSlotLeaks, Holding
    <3> QED
      BY <1>1, <1>2, <1>3, <3>1 DEF Inv, TypeOK
  <2> QED
    BY <2>1, <2>2 DEF NoSlotLeaks
<1> QED
  BY <1>4, <1>5, <1>6, <1>7, <1>9, <1>10 DEF Inv

LEMMA QueuesKeeps ==
    ASSUME Inv, NEW t \in Task, NEW q \in Queue, Queues(t, q)
    PROVE  Inv'
<1>1. PICK e \in EntryOf(q) :
          /\ active[e]
          /\ Len(waiters[e]) < MaxQueueSize
          /\ waiters' = [waiters EXCEPT ![e] = Append(@, t)]
          /\ mine' = [mine EXCEPT ![t] = e]
  BY DEF Queues
<1>2. /\ pc[t] = "idle" /\ pc' = [pc EXCEPT ![t] = "waiting"]
      /\ key' = [key EXCEPT ![t] = q] /\ UNCHANGED <<entries, active>>
  BY DEF Queues
<1>3. e \in Entry /\ entries[q] = e
  BY <1>1, EntryAssumption DEF EntryOf, Garbage, Inv, TypeOK, EntriesInv
<1>4. /\ waiters[e] \in Seq(Task) /\ Append(waiters[e], t) \in Seq(Task)
      /\ Len(waiters[e]) \in Nat /\ Len(Append(waiters[e], t)) = Len(waiters[e]) + 1
      /\ Append(waiters[e], t)[Len(waiters[e]) + 1] = t
      /\ \A i \in 1 .. Len(waiters[e]) : Append(waiters[e], t)[i] = waiters[e][i]
  <2>1. waiters[e] \in Seq(Task)
    BY <1>3 DEF Inv, TypeOK
  <2> QED
    BY <2>1, AppendProperties, LenProperties
<1>5. TypeOK'
  <2>1. Len(waiters[e]) < MaxQueueSize
    BY <1>1
  <2>2. \A f \in Entry : Len(waiters'[f]) <= MaxQueueSize
    BY <1>1, <1>3, <1>4, <2>1 DEF Inv, TypeOK
  <2>3. waiters' \in [Entry -> Seq(Task)]
    BY <1>1, <1>3, <1>4 DEF Inv, TypeOK
  <2> QED
    BY <1>1, <1>2, <1>3, <2>2, <2>3 DEF Inv, TypeOK, Working, Holding
<1>6. TasksInv'
  BY <1>1, <1>2, <1>3 DEF Inv, TypeOK, TasksInv
<1>7. EntriesInv'
  BY <1>2 DEF Inv, EntriesInv
<1>8. WaitersInv'
  <2>1. \A f \in Entry : \A i \in 1 .. Len(waiters[f]) : waiters[f][i] # t
    BY <1>2 DEF Inv, WaitersInv
  <2>2. /\ \A f \in Entry \ {e} : waiters'[f] = waiters[f]
        /\ waiters'[e] = Append(waiters[e], t)
    BY <1>1, <1>3 DEF Inv, TypeOK
  <2>3. \A u \in Task \ {t} : pc'[u] = pc[u] /\ mine'[u] = mine[u]
    BY <1>1, <1>2 DEF Inv, TypeOK
  <2>4. pc'[t] = "waiting" /\ mine'[t] = e
    BY <1>1, <1>2 DEF Inv, TypeOK
  <2>5. \A f \in Entry : \A i \in 1 .. Len(waiters[f]) : waiters[f][i] \in Task \ {t}
    BY <2>1 DEF Inv, TypeOK
  <2>6. ASSUME NEW f \in Entry, NEW i \in 1 .. Len(waiters'[f])
        PROVE  /\ pc'[waiters'[f][i]] \in {"waiting", "abandoned"}
               /\ mine'[waiters'[f][i]] = f
               /\ \A j \in 1 .. Len(waiters'[f]) :
                     waiters'[f][i] = waiters'[f][j] => i = j
    <3>1. CASE f # e
      <4>1. waiters'[f] = waiters[f] /\ waiters[f][i] \in Task \ {t}
        BY <2>2, <2>5, <2>6, <3>1
      <4>2. /\ pc[waiters[f][i]] \in {"waiting", "abandoned"}
            /\ mine[waiters[f][i]] = f
            /\ \A j \in 1 .. Len(waiters[f]) : waiters[f][i] = waiters[f][j] => i = j
        BY <2>6, <4>1 DEF Inv, WaitersInv
      <4> QED
        BY <2>3, <4>1, <4>2
    <3>2. CASE f = e
      <4>1. CASE i \in 1 .. Len(waiters[e])
        <5>1. waiters'[e][i] = waiters[e][i] /\ waiters[e][i] \in Task \ {t}
          BY <1>3, <1>4, <2>2, <2>5, <4>1
        <5>2. /\ pc[waiters[e][i]] \in {"waiting", "abandoned"}
              /\ mine[waiters[e][i]] = e
              /\ \A j \in 1 .. Len(waiters[e]) : waiters[e][i] = waiters[e][j] => i = j
          BY <1>3, <4>1 DEF Inv, WaitersInv
        <5>3. ASSUME NEW j \in 1 .. Len(waiters'[e]), waiters'[e][i] = waiters'[e][j]
              PROVE  i = j
          <6>1. j \in 1 .. Len(waiters[e]) \/ j = Len(waiters[e]) + 1
            BY <1>4, <2>2, <5>3
          <6> QED
            BY <1>4, <2>2, <5>1, <5>2, <5>3, <6>1
        <5> QED
          BY <2>3, <3>2, <5>1, <5>2, <5>3
      <4>2. CASE i = Len(waiters[e]) + 1
        <5>1. waiters'[e][i] = t
          BY <1>4, <2>2, <4>2
        <5>2. ASSUME NEW j \in 1 .. Len(waiters'[e]), waiters'[e][i] = waiters'[e][j]
              PROVE  i = j
          <6>1. j \in 1 .. Len(waiters[e]) \/ j = Len(waiters[e]) + 1
            BY <1>4, <2>2, <5>2
          <6>2. j \in 1 .. Len(waiters[e]) => waiters'[e][j] # t
            BY <1>3, <1>4, <2>2, <2>5
          <6> QED
            BY <4>2, <5>1, <5>2, <6>1, <6>2
        <5> QED
          BY <2>4, <3>2, <5>1, <5>2
      <4>3. i \in 1 .. Len(waiters[e]) + 1
        BY <1>4, <2>2, <2>6, <3>2
      <4>4. i \in 1 .. Len(waiters[e]) \/ i = Len(waiters[e]) + 1
        BY <1>4, <4>3
      <4> QED
        BY ONLY <4>1, <4>2, <4>4
    <3> QED
      BY <3>1, <3>2
  <2>7. ASSUME NEW u \in Task, pc'[u] = "waiting" PROVE Place(u)' # {}
    <3>1. CASE u = t
      BY <1>4, <2>2, <2>4, <3>1 DEF Place
    <3>2. CASE u # t
      <4>1. PICK i \in 1 .. Len(waiters[mine[u]]) : waiters[mine[u]][i] = u
        BY <2>3, <2>7, <3>2 DEF Inv, WaitersInv, Place
      <4>2. mine[u] \in Entry /\ mine'[u] = mine[u]
        BY <2>3, <2>7, <3>2, AtWork
      <4>3. i \in 1 .. Len(waiters'[mine[u]]) /\ waiters'[mine[u]][i] = u
        <5>1. CASE mine[u] = e
          BY <1>4, <2>2, <4>1, <5>1
        <5>2. CASE mine[u] # e
          BY <2>2, <4>1, <4>2, <5>2
        <5> QED
          BY <5>1, <5>2
      <4> QED
        BY <4>2, <4>3 DEF Place
    <3> QED
      BY <3>1, <3>2
  <2> QED
    BY <2>6, <2>7 DEF WaitersInv
<1>9. \A u \in Task : pc'[u] \in Holding <=> pc[u] \in Holding
  BY <1>2 DEF Inv, TypeOK, Holding
<1>10. \A p \in Queue : Holders(p)' = Holders(p)
  BY <1>2, <1>9 DEF Inv, TypeOK, Holders, Holding
<1>11. OneAtATime'
  BY <1>10 DEF Inv, OneAtATime
<1>12. NoSlotLeaks'
  <2>1. \A u \in Task : pc'[u] \in Holding \cup {"waiting"} => entries'[key'[u]] = mine'[u]
    BY <1>1, <1>2, <1>3 DEF Inv, TypeOK, NoSlotLeaks
  <2> QED
    BY <1>2, <1>10, <2>1 DEF Inv, NoSlotLeaks
<1> QED
  BY <1>5, <1>6, <1>7, <1>8, <1>11, <1>12 DEF Inv

(***************************************************************************)
(* The slot is given back.                                                 *)
(***************************************************************************)
LEMMA HolderFacts ==
    ASSUME Inv, NEW t \in Task, pc[t] \in Holding
    PROVE  /\ key[t] \in Queue /\ mine[t] \in Entry /\ waiters[mine[t]] \in Seq(Task)
           /\ entries[key[t]] = mine[t]
           /\ \A u \in Task : pc[u] \in Holding /\ key[u] = key[t] => u = t
           /\ \A f \in Entry : \A i \in 1 .. Len(waiters[f]) : waiters[f][i] \in Task \ {t}
<1>1. pc[t] # "idle"
  BY DEF Holding
<1>2. \A f \in Entry : \A i \in 1 .. Len(waiters[f]) : waiters[f][i] \in Task
  BY DEF Inv, TypeOK
<1> QED
  BY <1>1, <1>2, AtWork, HolderNotQueued DEF Inv, NoSlotLeaks, OneAtATime, Holders

\* Nobody waits: the entry leaves the registry.
LEMMA LastReleaseKeeps ==
    ASSUME Inv, NEW t \in Task, pc[t] \in Holding, Release(t), Pending(mine[t]) = {}
    PROVE  Inv'
<1> DEFINE e == mine[t]
           q == key[t]
<1>1. /\ pc' = [pc EXCEPT ![t] = "idle"]
      /\ waiters' = [waiters EXCEPT ![e] = <<>>]
      /\ active' = [active EXCEPT ![e] = FALSE]
      /\ entries' = [entries EXCEPT ![q] = None]
      /\ key' = [key EXCEPT ![t] = None] /\ mine' = [mine EXCEPT ![t] = None]
  BY DEF Release, Forgets
<1>2. /\ q \in Queue /\ e \in Entry /\ entries[q] = e
      /\ \A u \in Task : pc[u] \in Holding /\ key[u] = q => u = t
      /\ \A f \in Entry : \A i \in 1 .. Len(waiters[f]) : waiters[f][i] \in Task \ {t}
  BY HolderFacts
<1>3. \A u \in Task \ {t} : pc'[u] = pc[u] /\ key'[u] = key[u] /\ mine'[u] = mine[u]
  BY <1>1 DEF Inv, TypeOK
<1>4. pc'[t] = "idle" /\ key'[t] = None /\ mine'[t] = None
  BY <1>1 DEF Inv, TypeOK
<1>5. ASSUME NEW u \in Task, pc[u] = "waiting" PROVE mine[u] # e
  <2>1. PICK i \in 1 .. Len(waiters[mine[u]]) : waiters[mine[u]][i] = u
    BY <1>5 DEF Inv, WaitersInv, Place
  <2> QED
    BY <1>5, <2>1 DEF Pending
<1>6. TypeOK'
  BY <1>1, <1>2 DEF Inv, TypeOK
<1>7. TasksInv'
  BY <1>3, <1>4 DEF Inv, TasksInv
<1>8. EntriesInv'
  <2>1. \A p \in Queue : entries'[p] = IF p = q THEN None ELSE entries[p]
    BY <1>1 DEF Inv, TypeOK
  <2>2. \A f \in Entry : active'[f] = IF f = e THEN FALSE ELSE active[f]
    BY <1>1 DEF Inv, TypeOK
  <2>3. \A p \in Queue \ {q} : entries[p] # e
    BY <1>2, EntryAssumption DEF Inv, EntriesInv
  <2>4. ASSUME NEW f \in Entry PROVE active'[f] <=> \E p \in Queue : entries'[p] = f
    <3>1. CASE f = e
      BY <1>2, <2>1, <2>2, <2>3, <3>1, EntryAssumption
    <3>2. CASE f # e
      <4>1. active[f] <=> \E p \in Queue : entries[p] = f
        BY DEF Inv, EntriesInv
      <4>2. \A p \in Queue : entries'[p] = f <=> entries[p] = f
        BY <1>2, <2>1, <3>2, EntryAssumption
      <4> QED
        BY <2>2, <3>2, <4>1, <4>2
    <3> QED
      BY <3>1, <3>2
  <2>5. \A p, r \in Queue : entries'[p] # None /\ entries'[p] = entries'[r] => p = r
    BY <2>1 DEF Inv, EntriesInv
  <2> QED
    BY <2>4, <2>5 DEF EntriesInv
<1>9. WaitersInv'
  <2>1. \A f \in Entry : waiters'[f] = IF f = e THEN <<>> ELSE waiters[f]
    BY <1>1 DEF Inv, TypeOK
  <2>2. ASSUME NEW f \in Entry, NEW i \in 1 .. Len(waiters'[f])
        PROVE  /\ pc'[waiters'[f][i]] \in {"waiting", "abandoned"}
               /\ mine'[waiters'[f][i]] = f
               /\ \A j \in 1 .. Len(waiters'[f]) :
                     waiters'[f][i] = waiters'[f][j] => i = j
    <3>1. f # e
      BY <2>1, <2>2
    <3>2. waiters'[f] = waiters[f] /\ waiters[f][i] \in Task \ {t}
      BY <1>2, <2>1, <2>2, <3>1
    <3>3. /\ pc[waiters[f][i]] \in {"waiting", "abandoned"}
          /\ mine[waiters[f][i]] = f
          /\ \A j \in 1 .. Len(waiters[f]) : waiters[f][i] = waiters[f][j] => i = j
      BY <2>2, <3>2 DEF Inv, WaitersInv
    <3> QED
      BY <1>3, <3>2, <3>3
  <2>3. ASSUME NEW u \in Task, pc'[u] = "waiting" PROVE Place(u)' # {}
    <3>1. u # t /\ pc[u] = "waiting"
      BY <1>3, <1>4, <2>3
    <3>2. mine[u] # e /\ mine[u] \in Entry /\ mine'[u] = mine[u]
      BY <1>3, <1>5, <3>1, AtWork
    <3>3. waiters'[mine[u]] = waiters[mine[u]] /\ Place(u) # {}
      BY <2>1, <3>1, <3>2 DEF Inv, WaitersInv
    <3> QED
      BY <3>2, <3>3 DEF Place
  <2> QED
    BY <2>2, <2>3 DEF WaitersInv
<1>10. OneAtATime'
  <2>1. \A p \in Queue : Holders(p)' \subseteq Holders(p)
    BY <1>3, <1>4 DEF Holders, Holding
  <2> QED
    BY <2>1 DEF Inv, OneAtATime
<1>11. NoSlotLeaks'
  <2>1. ASSUME NEW p \in Queue, entries'[p] # None PROVE Holders(p)' # {}
    <3>1. p # q /\ entries[p] # None
      BY <1>1, <1>2, <2>1 DEF Inv, TypeOK
    <3>2. PICK u \in Task : pc[u] \in Holding /\ key[u] = p
      BY <3>1 DEF Inv, NoSlotLeaks, Holders
    <3> QED
      BY <1>3, <3>1, <3>2 DEF Holders
  <2>2. ASSUME NEW u \in Task, pc'[u] \in Holding \cup {"waiting"}
        PROVE  entries'[key'[u]] = mine'[u]
    <3>1. u # t /\ pc[u] \in Holding \cup {"waiting"} /\ pc[u] # "idle"
      BY <1>3, <1>4, <2>2 DEF Holding
    <3>2. key[u] \in Queue /\ entries[key[u]] = mine[u]
      BY <3>1, AtWork DEF Inv, NoSlotLeaks
    <3>3. key[u] # q
      BY <1>2, <1>5, <3>1, <3>2
    <3> QED
      BY <1>1, <1>3, <3>1, <3>2, <3>3 DEF Inv, TypeOK
  <2> QED
    BY <2>1, <2>2 DEF NoSlotLeaks
<1> QED
  BY <1>6, <1>7, <1>8, <1>9, <1>10, <1>11 DEF Inv

\* The first waiter that still wants it is granted the slot.
LEMMA GrantingReleaseKeeps ==
    ASSUME Inv, NEW t \in Task, pc[t] \in Holding, Release(t), Pending(mine[t]) # {}
    PROVE  Inv'
<1> DEFINE e == mine[t]
           q == key[t]
<1>1. PICK i \in Pending(e) :
          /\ \A j \in Pending(e) : i <= j
          /\ pc' = [pc EXCEPT ![t] = "idle", ![waiters[e][i]] = "granted"]
          /\ waiters' = [waiters EXCEPT ![e] = SubSeq(@, i + 1, Len(@))]
          /\ UNCHANGED <<active, entries>>
          /\ key' = [key EXCEPT ![t] = None] /\ mine' = [mine EXCEPT ![t] = None]
  BY DEF Release, Forgets
<1> DEFINE w == waiters[e][i]
<1>2. /\ q \in Queue /\ e \in Entry /\ entries[q] = e /\ waiters[e] \in Seq(Task)
      /\ \A u \in Task : pc[u] \in Holding /\ key[u] = q => u = t
      /\ \A f \in Entry : \A j \in 1 .. Len(waiters[f]) : waiters[f][j] \in Task \ {t}
  BY HolderFacts
<1>3. i \in 1 .. Len(waiters[e]) /\ w \in Task \ {t} /\ pc[w] = "waiting"
  BY <1>2 DEF Pending
<1>4. mine[w] = e /\ key[w] = q
  <2>1. mine[w] = e
    BY <1>2, <1>3 DEF Inv, WaitersInv
  <2>2. key[w] \in Queue /\ entries[key[w]] = e
    BY <1>3, <2>1, AtWork DEF Inv, NoSlotLeaks
  <2> QED
    BY <1>2, <2>1, <2>2, EntryAssumption DEF Inv, EntriesInv
<1>5. /\ pc'[t] = "idle" /\ key'[t] = None /\ mine'[t] = None
      /\ pc'[w] = "granted" /\ key'[w] = q /\ mine'[w] = e
  BY <1>1, <1>3, <1>4 DEF Inv, TypeOK
<1>6. \A u \in Task \ {t, w} : pc'[u] = pc[u] /\ key'[u] = key[u] /\ mine'[u] = mine[u]
  BY <1>1 DEF Inv, TypeOK
<1>7. /\ waiters'[e] = SubSeq(waiters[e], i + 1, Len(waiters[e]))
      /\ \A f \in Entry \ {e} : waiters'[f] = waiters[f]
  BY <1>1, <1>2 DEF Inv, TypeOK
<1>8. /\ waiters'[e] \in Seq(Task) /\ Len(waiters'[e]) = Len(waiters[e]) - i
      /\ \A j \in 1 .. Len(waiters[e]) - i : waiters'[e][j] = waiters[e][i + j]
  <2>1. waiters[e] \in Seq(Task) /\ i \in 1 .. Len(waiters[e])
    BY <1>2, <1>3
  <2>2. /\ SubSeq(waiters[e], i + 1, Len(waiters[e])) \in Seq(Task)
        /\ Len(SubSeq(waiters[e], i + 1, Len(waiters[e]))) = Len(waiters[e]) - i
        /\ \A j \in 1 .. Len(waiters[e]) - i :
              SubSeq(waiters[e], i + 1, Len(waiters[e]))[j] = waiters[e][i + j]
    <3> HIDE DEF e
    <3> QED
      BY <2>1, SuffixFacts
  <2> QED
    BY ONLY <1>7, <2>2
<1>9. Len(waiters[e]) \in Nat /\ i \in Nat /\ i >= 1
  <2>1. Len(waiters[e]) \in Nat
    BY <1>2, LenProperties
  <2> QED
    BY <1>3, <2>1
<1> HIDE DEF w
<1>10. TypeOK'
  <2>1. waiters' \in [Entry -> Seq(Task)]
    BY <1>1, <1>2, <1>7, <1>8 DEF Inv, TypeOK
  <2>2. \A f \in Entry : Len(waiters'[f]) <= MaxQueueSize
    <3>1. Len(waiters'[e]) <= MaxQueueSize
      BY <1>2, <1>8, <1>9 DEF Inv, TypeOK
    <3> QED
      BY <1>7, <3>1 DEF Inv, TypeOK
  <2>3. pc' \in [Task -> {"idle"} \cup Working]
    BY <1>1, <1>3 DEF Inv, TypeOK, Working, Holding
  <2> QED
    BY <1>1, <2>1, <2>2, <2>3 DEF Inv, TypeOK
<1>11. TasksInv'
  <2>1. ASSUME NEW u \in Task
        PROVE  IF pc'[u] = "idle" THEN key'[u] = None /\ mine'[u] = None
               ELSE key'[u] \in Queue /\ mine'[u] \in Entry
    BY <1>2, <1>5, <1>6 DEF Inv, TasksInv
  <2> QED
    BY <2>1 DEF TasksInv
<1>12. EntriesInv'
  BY <1>1 DEF Inv, EntriesInv
<1>13. WaitersInv'
  <2>1. \A f \in Entry : \A j \in 1 .. Len(waiters[f]) :
            waiters[f][j] = w => f = e /\ j = i
    BY <1>2, <1>3, <1>4 DEF Inv, WaitersInv, w
  <2>2. ASSUME NEW f \in Entry, NEW j \in 1 .. Len(waiters'[f])
        PROVE  /\ pc'[waiters'[f][j]] \in {"waiting", "abandoned"}
               /\ mine'[waiters'[f][j]] = f
               /\ \A k \in 1 .. Len(waiters'[f]) :
                     waiters'[f][j] = waiters'[f][k] => j = k
    <3>1. CASE f # e
      <4>1. waiters'[f] = waiters[f] /\ waiters[f][j] \in Task \ {t, w}
        BY <1>2, <1>7, <2>1, <2>2, <3>1
      <4>2. /\ pc[waiters[f][j]] \in {"waiting", "abandoned"}
            /\ mine[waiters[f][j]] = f
            /\ \A k \in 1 .. Len(waiters[f]) : waiters[f][j] = waiters[f][k] => j = k
        BY <2>2, <4>1 DEF Inv, WaitersInv
      <4> QED
        BY <1>6, <4>1, <4>2
    <3>2. CASE f = e
      <4>1. i + j \in 1 .. Len(waiters[e]) /\ i + j # i
        BY <1>8, <1>9, <2>2, <3>2
      <4>2. waiters'[e][j] = waiters[e][i + j] /\ waiters[e][i + j] \in Task \ {t, w}
        BY <1>2, <1>8, <2>1, <2>2, <3>2, <4>1
      <4>3. /\ pc[waiters[e][i + j]] \in {"waiting", "abandoned"}
            /\ mine[waiters[e][i + j]] = e
            /\ \A k \in 1 .. Len(waiters[e]) : waiters[e][i + j] = waiters[e][k] => i + j = k
        BY <1>2, <4>1 DEF Inv, WaitersInv
      <4>4. ASSUME NEW k \in 1 .. Len(waiters'[e]), waiters'[e][j] = waiters'[e][k]
            PROVE  j = k
        <5>1. i + k \in 1 .. Len(waiters[e]) /\ waiters'[e][k] = waiters[e][i + k]
          BY <1>8, <1>9, <4>4
        <5>2. i + j = i + k
          BY <4>2, <4>3, <4>4, <5>1
        <5> QED
          BY <1>9, <2>2, <3>2, <5>2, <4>4, <1>8
      <4> QED
        BY <1>6, <3>2, <4>2, <4>3, <4>4
    <3> QED
      BY <3>1, <3>2
  <2>3. ASSUME NEW u \in Task, pc'[u] = "waiting" PROVE Place(u)' # {}
    <3>1. u \in Task \ {t, w} /\ pc[u] = "waiting" /\ mine'[u] = mine[u]
      BY <1>5, <1>6, <2>3
    <3>2. mine[u] \in Entry
      BY <3>1, AtWork
    <3>3. PICK k \in 1 .. Len(waiters[mine[u]]) : waiters[mine[u]][k] = u
      BY <3>1 DEF Inv, WaitersInv, Place
    <3>4. CASE mine[u] # e
      BY <1>7, <3>1, <3>2, <3>3, <3>4 DEF Place
    <3>5. CASE mine[u] = e
      <4>1. k \in Pending(e)
        BY <3>1, <3>3, <3>5 DEF Pending
      <4>2. i <= k /\ k # i
        BY <1>1, <3>1, <3>3, <3>5, <4>1 DEF w
      <4>3. k - i \in 1 .. Len(waiters[e]) - i /\ i + (k - i) = k
        BY <1>9, <3>3, <3>5, <4>2
      <4>4. k - i \in 1 .. Len(waiters'[e]) /\ waiters'[e][k - i] = u
        BY <1>8, <3>3, <3>5, <4>3
      <4> QED
        BY <3>1, <3>5, <4>4 DEF Place
    <3> QED
      BY <3>4, <3>5
  <2> QED
    BY <2>2, <2>3 DEF WaitersInv
<1>14. \A u \in Task : pc'[u] \in Holding <=> u # t /\ (u = w \/ pc[u] \in Holding)
  BY <1>3, <1>5, <1>6 DEF Holding
<1>15. OneAtATime'
  <2>1. ASSUME NEW p \in Queue, NEW u \in Holders(p)', NEW v \in Holders(p)'
        PROVE  u = v
    <3>1. CASE p = q
      BY <1>2, <1>5, <1>6, <1>14, <3>1 DEF Holders
    <3>2. CASE p # q
      <4>1. u \in Holders(p) /\ v \in Holders(p)
        BY <1>5, <1>6, <1>14, <3>2 DEF Holders
      <4> QED
        BY <4>1 DEF Inv, OneAtATime
    <3> QED
      BY <3>1, <3>2
  <2> QED
    BY <2>1 DEF OneAtATime
<1>16. NoSlotLeaks'
  <2>1. ASSUME NEW p \in Queue, entries'[p] # None PROVE Holders(p)' # {}
    <3>1. CASE p = q
      BY <1>3, <1>5, <1>14, <3>1 DEF Holders
    <3>2. CASE p # q
      <4>1. PICK u \in Task : pc[u] \in Holding /\ key[u] = p
        BY <1>1, <2>1 DEF Inv, NoSlotLeaks, Holders
      <4>2. u \notin {t, w}
        BY <1>4, <3>2, <4>1
      <4> QED
        BY <1>6, <1>14, <4>1, <4>2 DEF Holders
    <3> QED
      BY <3>1, <3>2
  <2>2. ASSUME NEW u \in Task, pc'[u] \in Holding \cup {"waiting"}
        PROVE  entries'[key'[u]] = mine'[u]
    <3>1. CASE u = w
      BY <1>1, <1>2, <1>5, <3>1
    <3>2. CASE u # w
      <4>1. u \in Task \ {t, w} /\ pc[u] \in Holding \cup {"waiting"}
        BY <1>5, <1>6, <2>2, <3>2 DEF Holding
      <4> QED
        BY <1>1, <1>6, <4>1 DEF Inv, NoSlotLeaks
    <3> QED
      BY <3>1, <3>2
  <2> QED
    BY <2>1, <2>2 DEF NoSlotLeaks
<1> QED
  BY <1>10, <1>11, <1>12, <1>13, <1>15, <1>16 DEF Inv
-------------------------------------------------------------------------------
(***************************************************************************)
(* A waiter gives up.                                                      *)
(***************************************************************************)

\* What the departure of an abandoned waiter leaves as it was.
LEMMA DepartureFacts ==
    ASSUME Inv, NEW t \in Task, pc[t] = "abandoned",
           pc' = [pc EXCEPT ![t] = "idle"], Forgets(t), UNCHANGED <<entries, active>>
    PROVE  /\ pc'[t] = "idle" /\ key'[t] = None /\ mine'[t] = None
           /\ \A u \in Task \ {t} : pc'[u] = pc[u] /\ key'[u] = key[u] /\ mine'[u] = mine[u]
           /\ pc' \in [Task -> {"idle"} \cup Working]
           /\ key' \in [Task -> Queue \cup {None}] /\ mine' \in [Task -> Entry \cup {None}]
           /\ TasksInv' /\ EntriesInv' /\ OneAtATime' /\ NoSlotLeaks'
<1>1. /\ pc'[t] = "idle" /\ key'[t] = None /\ mine'[t] = None
      /\ \A u \in Task \ {t} : pc'[u] = pc[u] /\ key'[u] = key[u] /\ mine'[u] = mine[u]
      /\ pc' \in [Task -> {"idle"} \cup Working]
      /\ key' \in [Task -> Queue \cup {None}] /\ mine' \in [Task -> Entry \cup {None}]
  BY DEF Inv, TypeOK, Forgets
<1>2. TasksInv'
  BY <1>1 DEF Inv, TasksInv
<1>3. EntriesInv'
  BY DEF Inv, EntriesInv
<1>4. \A p \in Queue : Holders(p)' = Holders(p)
  BY <1>1 DEF Holders, Holding
<1>5. OneAtATime'
  BY <1>4 DEF Inv, OneAtATime
<1>6. NoSlotLeaks'
  <2>1. ASSUME NEW u \in Task, pc'[u] \in Holding \cup {"waiting"}
        PROVE  entries'[key'[u]] = mine'[u]
    <3>1. u # t
      BY <1>1, <2>1 DEF Holding
    <3> QED
      BY <1>1, <2>1, <3>1 DEF Inv, NoSlotLeaks
  <2> QED
    BY <1>4, <2>1 DEF Inv, NoSlotLeaks
<1> QED
  BY <1>1, <1>2, <1>3, <1>5, <1>6

LEMMA LeavesQueueKeeps ==
    ASSUME Inv, NEW t \in Task, pc[t] \in {"abandoned", "revoked"}, LeavesQueue(t)
    PROVE  Inv'
<1> DEFINE e == mine[t]
<1>1. PICK i \in Place(t) : waiters' = [waiters EXCEPT ![e] = RemoveAt(@, i)]
  BY DEF LeavesQueue
<1>2. e \in Entry /\ waiters[e] \in Seq(Task)
  BY AtWork
<1>3. i \in 1 .. Len(waiters[e]) /\ waiters[e][i] = t
  BY DEF Place
<1>4. pc[t] = "abandoned"
  BY <1>2, <1>3 DEF Inv, WaitersInv
<1>5. /\ pc'[t] = "idle" /\ key'[t] = None /\ mine'[t] = None
      /\ \A u \in Task \ {t} : pc'[u] = pc[u] /\ key'[u] = key[u] /\ mine'[u] = mine[u]
      /\ pc' \in [Task -> {"idle"} \cup Working]
      /\ key' \in [Task -> Queue \cup {None}] /\ mine' \in [Task -> Entry \cup {None}]
      /\ TasksInv' /\ EntriesInv' /\ OneAtATime' /\ NoSlotLeaks'
  <2>1. pc' = [pc EXCEPT ![t] = "idle"] /\ Forgets(t) /\ UNCHANGED <<entries, active>>
    BY DEF LeavesQueue
  <2> QED
    BY <1>4, <2>1, DepartureFacts
<1>6. /\ waiters'[e] = RemoveAt(waiters[e], i)
      /\ \A f \in Entry \ {e} : waiters'[f] = waiters[f]
  BY <1>1, <1>2 DEF Inv, TypeOK
<1>7. /\ waiters'[e] \in Seq(Task) /\ Len(waiters'[e]) = Len(waiters[e]) - 1
      /\ \A j \in 1 .. Len(waiters[e]) - 1 :
            waiters'[e][j] = IF j < i THEN waiters[e][j] ELSE waiters[e][j + 1]
  <2> HIDE DEF e
  <2> DEFINE seq == waiters[e]
  <2>1. seq \in Seq(Task) /\ i \in 1 .. Len(seq)
    BY <1>2, <1>3
  <2> HIDE DEF seq
  <2>2. /\ RemoveAt(seq, i) \in Seq(Task) /\ Len(RemoveAt(seq, i)) = Len(seq) - 1
        /\ \A j \in 1 .. Len(seq) - 1 :
              RemoveAt(seq, i)[j] = IF j < i THEN seq[j] ELSE seq[j + 1]
    BY <2>1, RemoveAtFacts
  <2> QED
    BY <1>6, <2>2 DEF seq
<1>8. Len(waiters[e]) \in Nat /\ i \in Nat /\ i >= 1
  BY <1>2, <1>3, LenProperties
<1> HIDE DEF e
<1>9. TypeOK'
  <2>1. waiters' \in [Entry -> Seq(Task)]
    BY <1>1, <1>2, <1>6, <1>7 DEF Inv, TypeOK
  <2>2. \A f \in Entry : Len(waiters'[f]) <= MaxQueueSize
    <3>1. Len(waiters'[e]) <= MaxQueueSize
      BY <1>2, <1>7, <1>8 DEF Inv, TypeOK
    <3> QED
      BY <1>6, <3>1 DEF Inv, TypeOK
  <2>3. entries' = entries /\ active' = active
    BY DEF LeavesQueue
  <2> QED
    BY <1>5, <2>1, <2>2, <2>3 DEF Inv, TypeOK
<1>10. \A f \in Entry : \A j \in 1 .. Len(waiters[f]) :
            waiters[f][j] = t => f = e /\ j = i
  BY <1>2, <1>3 DEF Inv, WaitersInv
<1>11. WaitersInv'
  <2>1. \A f \in Entry : \A j \in 1 .. Len(waiters[f]) : waiters[f][j] \in Task
    BY DEF Inv, TypeOK
  <2>2. ASSUME NEW f \in Entry, NEW j \in 1 .. Len(waiters'[f])
        PROVE  /\ pc'[waiters'[f][j]] \in {"waiting", "abandoned"}
               /\ mine'[waiters'[f][j]] = f
               /\ \A k \in 1 .. Len(waiters'[f]) :
                     waiters'[f][j] = waiters'[f][k] => j = k
    <3>1. CASE f # e
      <4>1. waiters'[f] = waiters[f] /\ waiters[f][j] \in Task \ {t}
        BY <1>6, <1>10, <2>1, <2>2, <3>1
      <4>2. /\ pc[waiters[f][j]] \in {"waiting", "abandoned"}
            /\ mine[waiters[f][j]] = f
            /\ \A k \in 1 .. Len(waiters[f]) : waiters[f][j] = waiters[f][k] => j = k
        BY <2>2, <4>1 DEF Inv, WaitersInv
      <4> QED
        BY <1>5, <4>1, <4>2
    <3>2. CASE f = e
      <4> DEFINE Old(k) == IF k < i THEN k ELSE k + 1
      <4>1. ASSUME NEW k \in 1 .. Len(waiters'[e])
            PROVE  /\ Old(k) \in 1 .. Len(waiters[e]) /\ Old(k) # i
                   /\ waiters'[e][k] = waiters[e][Old(k)]
        <5>1. k \in 1 .. Len(waiters[e]) - 1
          BY <1>7
        <5>2. Old(k) \in 1 .. Len(waiters[e]) /\ Old(k) # i
          BY <1>8, <5>1
        <5> QED
          BY <1>7, <5>1, <5>2
      <4>2. \A k, l \in 1 .. Len(waiters'[e]) : Old(k) = Old(l) => k = l
        BY <1>7, <1>8
      <4> HIDE DEF Old
      <4>3. j \in 1 .. Len(waiters'[e]) /\ waiters[e][Old(j)] \in Task \ {t}
        BY <1>2, <1>10, <2>1, <2>2, <3>2, <4>1
      <4>4. /\ pc[waiters[e][Old(j)]] \in {"waiting", "abandoned"}
            /\ mine[waiters[e][Old(j)]] = e
            /\ \A k \in 1 .. Len(waiters[e]) : waiters[e][Old(j)] = waiters[e][k] => Old(j) = k
        BY <1>2, <4>1, <4>3 DEF Inv, WaitersInv
      <4>5. ASSUME NEW k \in 1 .. Len(waiters'[e]), waiters'[e][j] = waiters'[e][k]
            PROVE  j = k
        <5>1. Old(j) = Old(k)
          BY <4>1, <4>3, <4>4, <4>5
        <5> QED
          BY <4>2, <4>3, <5>1
      <4> QED
        BY <1>5, <3>2, <4>1, <4>3, <4>4, <4>5
    <3> QED
      BY <3>1, <3>2
  <2>3. ASSUME NEW u \in Task, pc'[u] = "waiting" PROVE Place(u)' # {}
    <3>1. u \in Task \ {t} /\ pc[u] = "waiting" /\ mine'[u] = mine[u]
      BY <1>5, <2>3
    <3>2. mine[u] \in Entry
      BY <3>1, AtWork
    <3>3. PICK k \in 1 .. Len(waiters[mine[u]]) : waiters[mine[u]][k] = u
      BY <3>1 DEF Inv, WaitersInv, Place
    <3>4. CASE mine[u] # e
      BY <1>6, <3>1, <3>2, <3>3, <3>4 DEF Place
    <3>5. CASE mine[u] = e
      <4>1. k # i
        BY <1>3, <3>1, <3>3, <3>5
      <4>2. \E j \in 1 .. Len(waiters'[e]) : waiters'[e][j] = u
        <5>1. CASE k < i
          <6>1. k \in 1 .. Len(waiters[e]) - 1
            BY <1>3, <1>8, <3>3, <3>5, <5>1
          <6> QED
            BY <1>7, <3>3, <3>5, <5>1, <6>1
        <5>2. CASE ~ (k < i)
          <6>1. k - 1 \in 1 .. Len(waiters[e]) - 1 /\ ~ (k - 1 < i) /\ k - 1 + 1 = k
            BY <1>3, <1>8, <3>3, <3>5, <4>1, <5>2
          <6>2. waiters'[e][k - 1] = waiters[e][k]
            BY <1>7, <6>1
          <6> QED
            BY <1>7, <3>3, <3>5, <6>1, <6>2
        <5> QED
          BY <5>1, <5>2
      <4> QED
        BY <3>1, <3>5, <4>2 DEF Place
    <3> QED
      BY <3>4, <3>5
  <2> QED
    BY <2>2, <2>3 DEF WaitersInv
<1> QED
  BY <1>5, <1>9, <1>11 DEF Inv

LEMMA JustLeavesKeeps ==
    ASSUME Inv, NEW t \in Task, pc[t] = "abandoned", Place(t) = {}, JustLeaves(t)
    PROVE  Inv'
<1>1. /\ pc' = [pc EXCEPT ![t] = "idle"] /\ Forgets(t)
      /\ UNCHANGED <<entries, active>> /\ waiters' = waiters
  BY DEF JustLeaves
<1>2. /\ pc'[t] = "idle" /\ key'[t] = None /\ mine'[t] = None
      /\ \A u \in Task \ {t} : pc'[u] = pc[u] /\ key'[u] = key[u] /\ mine'[u] = mine[u]
      /\ pc' \in [Task -> {"idle"} \cup Working]
      /\ key' \in [Task -> Queue \cup {None}] /\ mine' \in [Task -> Entry \cup {None}]
      /\ TasksInv' /\ EntriesInv' /\ OneAtATime' /\ NoSlotLeaks'
  BY <1>1, DepartureFacts
<1>3. TypeOK'
  BY <1>1, <1>2 DEF Inv, TypeOK
<1>4. \A f \in Entry : \A i \in 1 .. Len(waiters[f]) : waiters[f][i] \in Task \ {t}
  <2>1. ASSUME NEW f \in Entry, NEW i \in 1 .. Len(waiters[f]), waiters[f][i] = t
        PROVE  FALSE
    <3>1. mine[t] = f
      BY <2>1 DEF Inv, WaitersInv
    <3> QED
      BY <2>1, <3>1 DEF Place
  <2>2. \A f \in Entry : waiters[f] \in Seq(Task)
    BY DEF Inv, TypeOK
  <2> QED
    BY <2>1, <2>2
<1>5. WaitersInv'
  <2>1. ASSUME NEW f \in Entry, NEW i \in 1 .. Len(waiters[f])
        PROVE  pc'[waiters[f][i]] \in {"waiting", "abandoned"} /\ mine'[waiters[f][i]] = f
    <3>1. waiters[f][i] \in Task \ {t}
      BY <1>4
    <3>2. pc[waiters[f][i]] \in {"waiting", "abandoned"} /\ mine[waiters[f][i]] = f
      BY DEF Inv, WaitersInv
    <3> QED
      BY <1>2, <3>1, <3>2
  <2>2. ASSUME NEW u \in Task, pc'[u] = "waiting" PROVE Place(u)' # {}
    <3>1. u # t
      BY <1>2, <2>2
    <3> QED
      BY <1>1, <1>2, <2>2, <3>1 DEF Inv, WaitersInv, Place
  <2> QED
    BY <1>1, <2>1, <2>2 DEF Inv, WaitersInv
<1> QED
  BY <1>2, <1>3, <1>5 DEF Inv

\* A change of pc that leaves waiting tasks waiting or abandoned and holders
\* holders.
LEMMA AsideKeeps ==
    ASSUME Inv, NEW t \in Task, NEW c, pc' = [pc EXCEPT ![t] = c],
           \/ pc[t] = "waiting" /\ c = "abandoned"
           \/ pc[t] \in Holding /\ c \in Holding,
           UNCHANGED <<entries, active, waiters, key, mine>>
    PROVE  Inv'
<1>1. /\ pc'[t] = c /\ pc[t] # "idle" /\ c \notin {"idle", "waiting"}
      /\ \A u \in Task \ {t} : pc'[u] = pc[u]
  BY DEF Inv, TypeOK, Holding
<1>2. TypeOK'
  BY DEF Inv, TypeOK, Working, Holding
<1>3. TasksInv' /\ EntriesInv'
  BY <1>1 DEF Inv, TasksInv, EntriesInv
<1>4. WaitersInv'
  <2>1. ASSUME NEW f \in Entry, NEW i \in 1 .. Len(waiters[f])
        PROVE  pc'[waiters[f][i]] \in {"waiting", "abandoned"}
    <3>1. pc[waiters[f][i]] \in {"waiting", "abandoned"} /\ waiters[f][i] \in Task
      BY DEF Inv, TypeOK, WaitersInv
    <3>2. CASE waiters[f][i] = t
      BY <1>1, <3>1, <3>2 DEF Holding
    <3>3. CASE waiters[f][i] # t
      BY <1>1, <3>1, <3>3
    <3> QED
      BY <3>2, <3>3
  <2>2. ASSUME NEW u \in Task, pc'[u] = "waiting" PROVE Place(u)' # {}
    <3>1. pc[u] = "waiting" /\ Place(u)' = Place(u)
      BY <1>1, <2>2 DEF Place
    <3> QED
      BY <3>1 DEF Inv, WaitersInv
  <2> QED
    BY <2>1, <2>2 DEF Inv, WaitersInv
<1>5. \A p \in Queue : Holders(p)' = Holders(p)
  BY <1>1 DEF Holders, Holding
<1>6. OneAtATime' /\ NoSlotLeaks'
  <2>1. \A u \in Task : pc'[u] \in Holding \cup {"waiting"}
                       => pc[u] \in Holding \cup {"waiting"}
    BY <1>1
  <2> QED
    BY <1>5, <2>1 DEF Inv, OneAtATime, NoSlotLeaks
<1> QED
  BY <1>2, <1>3, <1>4, <1>6 DEF Inv

LEMMA ReleaseKeeps ==
    ASSUME Inv, NEW t \in Task, pc[t] \in Holding, Release(t)
    PROVE  Inv'
BY LastReleaseKeeps, GrantingReleaseKeeps

LEMMA DiscardsKeeps ==
    ASSUME Inv, NEW t \in Task, Discards(t)
    PROVE  Inv'
<1>1. pc[t] \in {"abandoned", "revoked"}
  BY DEF Discards
<1>2. CASE LeavesQueue(t)
  BY <1>1, <1>2, LeavesQueueKeeps
<1>3. CASE Place(t) = {} /\ pc[t] = "revoked" /\ Release(t)
  BY <1>3, ReleaseKeeps DEF Holding
<1>4. CASE Place(t) = {} /\ pc[t] = "abandoned" /\ JustLeaves(t)
  BY <1>4, JustLeavesKeeps
<1> QED
  BY <1>2, <1>3, <1>4 DEF Discards

LEMMA InvStep ==
    ASSUME Inv, [Next]_vars
    PROVE  Inv'
<1>1. CASE UNCHANGED vars
  BY <1>1 DEF vars, Inv, TypeOK, TasksInv, EntriesInv, WaitersInv, OneAtATime, NoSlotLeaks,
              Holders, Place
<1>2. ASSUME NEW t \in Task, Arrives(t) PROVE Inv'
  BY <1>2, EntersKeeps, QueuesKeeps DEF Arrives
<1>3. ASSUME NEW t \in Task, Abandons(t) PROVE Inv'
  <2>1. CASE pc[t] = "waiting"
    BY <1>3, <2>1, AsideKeeps DEF Abandons
  <2>2. CASE pc[t] = "granted"
    BY <1>3, <2>2, AsideKeeps DEF Abandons, Holding
  <2> QED
    BY <1>3, <2>1, <2>2 DEF Abandons
<1>4. ASSUME NEW t \in Task, Wakes(t) PROVE Inv'
  <2>1. CASE Resumes(t)
    BY <2>1, AsideKeeps DEF Resumes, Holding
  <2> QED
    BY <1>4, <2>1, DiscardsKeeps DEF Wakes
<1>5. ASSUME NEW t \in Task, Finishes(t) PROVE Inv'
  BY <1>5, ReleaseKeeps DEF Finishes, Holding
<1> QED
  BY <1>1, <1>2, <1>3, <1>4, <1>5 DEF Next
-------------------------------------------------------------------------------
\* The inductive invariant holds: what the registry, the entries, the queued
\* futures and the tasks of OperationQueue know of each other is consistent.
THEOREM Invariance == Spec => []Inv
<1>1. Init => Inv
  BY InvInit
<1>2. Inv /\ [Next]_vars => Inv'
  BY InvStep
<1> QED
  BY <1>1, <1>2, PTL DEF Spec

\* The state is well typed and no entry ever queues more than MaxQueueSize
\* futures, those of tasks that gave up included (acquire()).
THEOREM TypeCorrect == Spec => []TypeOK
<1>1. Inv => TypeOK
  BY DEF Inv
<1> QED
  BY <1>1, Invariance, PTL

\* Operations of one queue are serialised: no two tasks are ever inside
\* "async with operation_queue.acquire()" of the same key, or on their way in.
THEOREM OneAtATimeHolds == Spec => []OneAtATime
<1>1. Inv => OneAtATime
  BY DEF Inv
<1> QED
  BY <1>1, Invariance, PTL

\* _release_locked and _discard_waiter never lose the slot of a queue, and
\* never leave a waiter behind in an entry newcomers do not find.
THEOREM NoSlotLeaksHolds == Spec => []NoSlotLeaks
<1>1. Inv => NoSlotLeaks
  BY DEF Inv
<1> QED
  BY <1>1, Invariance, PTL
-------------------------------------------------------------------------------
(***************************************************************************)
(* Those who still wait, in order: what each step makes of them.           *)
(***************************************************************************)
LEMMA WaitingFacts ==
    ASSUME NEW w \in Seq(Task), NEW c
    PROVE  LET W == Waiting(w, c)
               a == Ascending(W)
               n == Cardinality(W)
           IN /\ W \subseteq 1 .. Len(w) /\ Len(w) \in Nat /\ n \in Nat /\ n <= Len(w)
              /\ a \in [1 .. n -> W] /\ Increasing(a)
              /\ \A i \in W : \E k \in 1 .. n : a[k] = i
              /\ InOrder(w, c) \in Seq(Task) /\ Len(InOrder(w, c)) = n
              /\ \A k \in 1 .. n : InOrder(w, c)[k] = w[a[k]]
<1> DEFINE W == Waiting(w, c)
           a == Ascending(W)
           n == Cardinality(W)
<1>1. Len(w) \in Nat /\ W \in SUBSET (1 .. Len(w))
  BY DEF Waiting
<1>2. IsFiniteSet(1 .. Len(w)) /\ Cardinality(1 .. Len(w)) = Len(w)
  BY <1>1, FS_Interval
<1>3. IsFiniteSet(W) /\ n <= Len(w) /\ W \subseteq Nat
  BY <1>1, <1>2, FS_Subset
<1>4. /\ n \in Nat /\ a \in [1 .. n -> W] /\ Increasing(a)
      /\ \A i \in W : \E k \in 1 .. n : a[k] = i
  BY <1>3, AscendingFacts
<1>5. InOrder(w, c) = [k \in 1 .. n |-> w[a[k]]]
  BY DEF InOrder
<1> HIDE DEF W, a, n
<1>6. /\ InOrder(w, c) \in [1 .. n -> Task]
      /\ \A k \in 1 .. n : InOrder(w, c)[k] = w[a[k]]
  <2>1. \A k \in 1 .. n : a[k] \in W
    BY <1>4
  <2>2. \A k \in 1 .. n : a[k] \in 1 .. Len(w)
    BY <1>1, <2>1
  <2>3. \A k \in 1 .. n : w[a[k]] \in Task
    BY <2>2
  <2> QED
    BY <1>5, <2>3
<1>7. InOrder(w, c) \in Seq(Task) /\ Len(InOrder(w, c)) = n
  BY <1>4, <1>6
<1> QED
  BY <1>1, <1>3, <1>4, <1>6, <1>7, Zenon DEF W, a, n

\* Whatever lists the places of those who wait.
LEMMA InOrderIs ==
    ASSUME NEW w \in Seq(Task), NEW c, NEW n, NEW s, Lists(s, n, Waiting(w, c))
    PROVE  /\ InOrder(w, c) \in Seq(Task) /\ Len(InOrder(w, c)) = n
           /\ \A k \in 1 .. n : InOrder(w, c)[k] = w[s[k]]
<1>1. Waiting(w, c) \subseteq Nat
  BY WaitingFacts
<1>2. Cardinality(Waiting(w, c)) = n /\ Ascending(Waiting(w, c)) = s
  BY <1>1, AscendingIs
<1>3. /\ InOrder(w, c) \in Seq(Task) /\ Len(InOrder(w, c)) = Cardinality(Waiting(w, c))
      /\ \A k \in 1 .. Cardinality(Waiting(w, c)) :
            InOrder(w, c)[k] = w[Ascending(Waiting(w, c))[k]]
  BY WaitingFacts
<1> QED
  BY <1>2, <1>3

\* Nothing changes for those who wait.
LEMMA InOrderSame ==
    ASSUME NEW w \in Seq(Task), NEW c, NEW d,
           \A i \in 1 .. Len(w) : c[w[i]] = "waiting" <=> d[w[i]] = "waiting"
    PROVE  InOrder(w, d) = InOrder(w, c)
<1>1. Waiting(w, d) = Waiting(w, c)
  BY DEF Waiting
<1> QED
  BY <1>1 DEF InOrder

\* At c and at d the same ones wait.
SameWait(w, c, d) == \A i \in 1 .. Len(w) : c[w[i]] = "waiting" <=> d[w[i]] = "waiting"

\* A newcomer is the last.
LEMMA InOrderAppend ==
    ASSUME NEW w \in Seq(Task), NEW c, NEW d, NEW t \in Task, d[t] = "waiting", SameWait(w, c, d)
    PROVE  InOrder(Append(w, t), d) = Append(InOrder(w, c), t)
<1> DEFINE W == Waiting(w, c)
           a == Ascending(W)
           n == Cardinality(W)
           v == Append(w, t)
           s == [k \in 1 .. n + 1 |-> IF k <= n THEN a[k] ELSE Len(w) + 1]
           old == InOrder(w, c)
<1>1. /\ W \subseteq 1 .. Len(w) /\ Len(w) \in Nat /\ n \in Nat
      /\ a \in [1 .. n -> W] /\ Increasing(a)
      /\ \A i \in W : \E k \in 1 .. n : a[k] = i
      /\ old \in Seq(Task) /\ Len(old) = n /\ \A k \in 1 .. n : old[k] = w[a[k]]
  BY WaitingFacts
<1>2. /\ v \in Seq(Task) /\ Len(v) = Len(w) + 1 /\ v[Len(w) + 1] = t
      /\ \A i \in 1 .. Len(w) : v[i] = w[i]
  BY <1>1, AppendProperties
<1> HIDE DEF v
<1>3. Waiting(v, d) = W \cup {Len(w) + 1}
  <2>1. ASSUME NEW i \in 1 .. Len(w)
        PROVE  i \in Waiting(v, d) <=> i \in W
    BY <1>1, <1>2 DEF Waiting, SameWait
  <2>2. Len(w) + 1 \in Waiting(v, d)
    BY <1>1, <1>2 DEF Waiting
  <2>3. Waiting(v, d) \subseteq 1 .. Len(w) + 1
    BY <1>2 DEF Waiting
  <2>4. 1 .. Len(w) + 1 = 1 .. Len(w) \cup {Len(w) + 1}
    <3>1. Len(w) \in Nat
      BY <1>1
    <3> QED
      BY ONLY <3>1
  <2> HIDE DEF W
  <2> QED
    BY <1>1, <2>1, <2>2, <2>3, <2>4, Zenon
<1> HIDE DEF W, a, n, old
<1>0. \A k \in 1 .. n : a[k] \in W /\ a[k] \in 1 .. Len(w)
  <2>1. \A k \in 1 .. n : a[k] \in W
    BY <1>1
  <2> QED
    BY <1>1, <2>1
<1>4. s \in [1 .. n + 1 -> Waiting(v, d)]
  BY <1>1, <1>3
<1>5. Increasing(s)
  <2>1. ASSUME NEW i \in 1 .. n + 1, NEW j \in 1 .. n + 1, i < j
        PROVE  s[i] < s[j]
    <3>1. i \in 1 .. n /\ s[i] = a[i] /\ a[i] \in 1 .. Len(w)
      <4>1. i \in 1 .. n /\ i <= n
        BY <1>1, <2>1
      <4> QED
        BY <1>0, <4>1
    <3>2. CASE j <= n
      <4>1. j \in 1 .. n /\ s[j] = a[j]
        BY <1>1, <3>2
      <4>2. a[i] < a[j]
        BY <1>1, <2>1, <3>1, <4>1 DEF Increasing
      <4> QED
        BY <3>1, <4>1, <4>2
    <3>3. CASE ~ (j <= n)
      <4>1. s[j] = Len(w) + 1
        BY <3>3
      <4>2. Len(w) \in Nat
        OBVIOUS
      <4> QED
        BY <3>1, <4>1, <4>2
    <3> QED
      BY <3>2, <3>3
  <2>2. DOMAIN s = 1 .. n + 1
    OBVIOUS
  <2> HIDE DEF s
  <2> QED
    BY <2>1, <2>2 DEF Increasing
<1>6. \A i \in Waiting(v, d) : \E k \in 1 .. n + 1 : s[k] = i
  <2>1. ASSUME NEW i \in W
        PROVE  \E k \in 1 .. n + 1 : s[k] = i
    <3>1. PICK k \in 1 .. n : a[k] = i
      BY <1>1
    <3>2. k \in 1 .. n + 1 /\ s[k] = i
      BY <1>1, <3>1
    <3> QED
      BY <3>2
  <2>2. n + 1 \in 1 .. n + 1 /\ s[n + 1] = Len(w) + 1
    BY <1>1
  <2> QED
    BY <1>3, <2>1, <2>2
<1>7. ASSUME NEW k \in 1 .. n
      PROVE  s[k] = a[k] /\ a[k] \in 1 .. Len(w)
  <2>1. k \in 1 .. n + 1 /\ k <= n
    BY <1>1
  <2> QED
    BY <1>0, <2>1
<1>8. s[n + 1] = Len(w) + 1 /\ n + 1 \in Nat
  BY <1>1
<1> HIDE DEF s
<1> DEFINE new == InOrder(v, d)
<1>9. new \in Seq(Task) /\ Len(new) = n + 1 /\ \A k \in 1 .. n + 1 : new[k] = v[s[k]]
  <2>1. Lists(s, n + 1, Waiting(v, d))
    BY <1>4, <1>5, <1>6, <1>8 DEF Lists
  <2> QED
    BY <1>2, <2>1, InOrderIs
<1> HIDE DEF new
<1>10. /\ Append(old, t) \in Seq(Task) /\ Len(Append(old, t)) = n + 1
       /\ Append(old, t)[n + 1] = t
       /\ \A k \in 1 .. n : Append(old, t)[k] = old[k]
  BY <1>1, AppendProperties
<1>11. ASSUME NEW k \in 1 .. n + 1
       PROVE  new[k] = Append(old, t)[k]
  <2>1. CASE k \in 1 .. n
    <3>1. s[k] = a[k] /\ a[k] \in 1 .. Len(w)
      BY <1>7, <2>1
    <3>2. new[k] = w[a[k]]
      BY <1>2, <1>9, <3>1
    <3>3. Append(old, t)[k] = w[a[k]]
      BY <1>1, <1>10, <2>1
    <3> QED
      BY <3>2, <3>3
  <2>2. CASE k = n + 1
    <3>1. new[k] = v[Len(w) + 1]
      BY <1>8, <1>9, <2>2
    <3> QED
      BY <1>2, <1>10, <2>2, <3>1
  <2>3. k \in 1 .. n \/ k = n + 1
    BY <1>1
  <2> QED
    BY <2>1, <2>2, <2>3
<1>12. new = Append(old, t)
  BY <1>9, <1>10, <1>11, SeqEqual
<1> QED
  BY <1>12 DEF new, old, v

\* From c to d only the one at place p stops to wait.
GivesUp(w, c, d, p) ==
    /\ d[w[p]] # "waiting"
    /\ \A i \in 1 .. Len(w) : i # p => (c[w[i]] = "waiting" <=> d[w[i]] = "waiting")

\* Who gives up leaves a gap that closes.
LEMMA InOrderAbandon ==
    ASSUME NEW w \in Seq(Task), NEW c, NEW d, NEW p \in Waiting(w, c), GivesUp(w, c, d, p)
    PROVE  \E k \in 1 .. Len(InOrder(w, c)) : InOrder(w, d) = RemoveAt(InOrder(w, c), k)
<1> DEFINE W == Waiting(w, c)
           a == Ascending(W)
           n == Cardinality(W)
           old == InOrder(w, c)
<1>1. /\ W \subseteq 1 .. Len(w) /\ Len(w) \in Nat /\ n \in Nat
      /\ a \in [1 .. n -> W] /\ Increasing(a)
      /\ \A i \in W : \E k \in 1 .. n : a[k] = i
      /\ old \in Seq(Task) /\ Len(old) = n /\ \A k \in 1 .. n : old[k] = w[a[k]]
  BY WaitingFacts, SMTT(30)
<1>2. Waiting(w, d) = W \ {p}
  BY DEF Waiting, GivesUp
<1>3. p \in W
  OBVIOUS
<1> HIDE DEF W, a, n, old
<1>4. PICK m \in 1 .. n : a[m] = p
  BY <1>1, <1>3
<1> DEFINE s == [k \in 1 .. n - 1 |-> IF k < m THEN a[k] ELSE a[k + 1]]
           Old(k) == IF k < m THEN k ELSE k + 1
<1>5. ASSUME NEW k \in 1 .. n - 1
      PROVE  Old(k) \in 1 .. n /\ Old(k) # m /\ s[k] = a[Old(k)]
  BY <1>1
<1>6. \A i, j \in 1 .. n - 1 : i < j => Old(i) < Old(j)
  BY <1>1
<1>7. \A i \in 1 .. n : i # m => \E k \in 1 .. n - 1 : Old(k) = i
  <2>1. ASSUME NEW i \in 1 .. n, i < m
        PROVE  i \in 1 .. n - 1 /\ Old(i) = i
    BY <1>1, <2>1
  <2>2. ASSUME NEW i \in 1 .. n, m < i
        PROVE  i - 1 \in 1 .. n - 1 /\ Old(i - 1) = i
    BY <1>1, <2>2
  <2>3. \A i \in 1 .. n : i < m \/ m < i \/ i = m
    BY <1>1
  <2> HIDE DEF Old
  <2> QED
    BY <2>1, <2>2, <2>3
<1>8. DOMAIN s = 1 .. n - 1 /\ n - 1 \in Nat
  BY <1>1
<1>9. \A i, j \in 1 .. n : a[i] = a[j] => i = j
  <2>1. ASSUME NEW i \in 1 .. n, NEW j \in 1 .. n, a[i] = a[j]
        PROVE  i = j
    <3>1. a[i] \in Nat /\ ~ (a[i] < a[j]) /\ ~ (a[j] < a[i])
      <4>1. a[i] \in W /\ W \subseteq Nat
        BY <1>1
      <4>2. a[i] \in Nat
        BY <4>1
      <4> QED
        BY <2>1, <4>2
    <3>2. ~ (i < j) /\ ~ (j < i)
      BY <1>1, <3>1 DEF Increasing
    <3> QED
      BY <1>1, <3>2
  <2> QED
    BY <2>1
<1> HIDE DEF Old
<1>10. \A k \in 1 .. n - 1 : s[k] \in Waiting(w, d)
  BY <1>1, <1>2, <1>4, <1>5, <1>9
<1>11. s \in [1 .. n - 1 -> Waiting(w, d)]
  BY <1>10
<1> HIDE DEF s
<1>12. Increasing(s)
  <2>1. ASSUME NEW i \in 1 .. n - 1, NEW j \in 1 .. n - 1, i < j
        PROVE  s[i] < s[j]
    <3>1. Old(i) \in 1 .. n /\ Old(j) \in 1 .. n /\ Old(i) < Old(j)
      BY <1>5, <1>6, <2>1
    <3>2. a[Old(i)] < a[Old(j)]
      BY <1>1, <3>1 DEF Increasing
    <3> QED
      BY <1>5, <3>2
  <2> QED
    BY <1>8, <2>1 DEF Increasing
<1>13. \A i \in Waiting(w, d) : \E k \in 1 .. n - 1 : s[k] = i
  <2>1. ASSUME NEW i \in Waiting(w, d)
        PROVE  \E k \in 1 .. n - 1 : s[k] = i
    <3>1. PICK j \in 1 .. n : a[j] = i
      BY <1>1, <1>2
    <3>2. PICK k \in 1 .. n - 1 : Old(k) = j
      BY <1>2, <1>4, <1>7, <3>1
    <3> QED
      BY <1>5, <3>1, <3>2
  <2> QED
    BY <2>1
<1> DEFINE new == InOrder(w, d)
<1>14. new \in Seq(Task) /\ Len(new) = n - 1 /\ \A k \in 1 .. n - 1 : new[k] = w[s[k]]
  <2>1. Lists(s, n - 1, Waiting(w, d))
    BY <1>8, <1>11, <1>12, <1>13 DEF Lists
  <2> QED
    BY <2>1, InOrderIs
<1> HIDE DEF new
<1>15. /\ RemoveAt(old, m) \in Seq(Task) /\ Len(RemoveAt(old, m)) = n - 1
       /\ \A k \in 1 .. n - 1 : RemoveAt(old, m)[k] = IF k < m THEN old[k] ELSE old[k + 1]
  <2>1. old \in Seq(Task) /\ m \in 1 .. Len(old) /\ Len(old) = n
    BY <1>1
  <2>2. /\ RemoveAt(old, m) \in Seq(Task) /\ Len(RemoveAt(old, m)) = Len(old) - 1
        /\ \A k \in 1 .. Len(old) - 1 :
              RemoveAt(old, m)[k] = IF k < m THEN old[k] ELSE old[k + 1]
    BY <2>1, RemoveAtFacts
  <2> QED
    BY <2>1, <2>2
<1>16. ASSUME NEW k \in 1 .. n - 1
       PROVE  new[k] = RemoveAt(old, m)[k]
  <2>1. RemoveAt(old, m)[k] = old[Old(k)]
    BY <1>15 DEF Old
  <2>2. Old(k) \in 1 .. n /\ s[k] = a[Old(k)]
    BY <1>5
  <2>3. old[Old(k)] = w[a[Old(k)]]
    BY <1>1, <2>2
  <2> QED
    BY <1>14, <2>1, <2>2, <2>3
<1>17. new = RemoveAt(old, m)
  BY <1>14, <1>15, <1>16, SeqEqual
<1> QED
  BY <1>1, <1>17 DEF new, old

\* One who has given up is removed.
LEMMA InOrderRemove ==
    ASSUME NEW w \in Seq(Task), NEW c, NEW d, NEW p \in 1 .. Len(w), c[w[p]] # "waiting",
           \A i \in 1 .. Len(w) : i # p => (c[w[i]] = "waiting" <=> d[w[i]] = "waiting")
    PROVE  InOrder(RemoveAt(w, p), d) = InOrder(w, c)
<1> DEFINE W == Waiting(w, c)
           a == Ascending(W)
           n == Cardinality(W)
           old == InOrder(w, c)
           v == RemoveAt(w, p)
           New(i) == IF i < p THEN i ELSE i - 1
           s == [k \in 1 .. n |-> New(a[k])]
<1>1. /\ W \subseteq 1 .. Len(w) /\ Len(w) \in Nat /\ n \in Nat
      /\ a \in [1 .. n -> W] /\ Increasing(a)
      /\ \A i \in W : \E k \in 1 .. n : a[k] = i
      /\ old \in Seq(Task) /\ Len(old) = n /\ \A k \in 1 .. n : old[k] = w[a[k]]
  BY WaitingFacts
<1>2. /\ v \in Seq(Task) /\ Len(v) = Len(w) - 1
      /\ \A j \in 1 .. Len(w) - 1 : v[j] = IF j < p THEN w[j] ELSE w[j + 1]
  BY RemoveAtFacts
<1>3. p \notin W /\ \A i \in 1 .. Len(w) : i \in W <=> c[w[i]] = "waiting"
  BY DEF Waiting
<1> HIDE DEF W, a, n, old, v
<1>4. ASSUME NEW i \in 1 .. Len(w), i # p
      PROVE  New(i) \in 1 .. Len(v) /\ v[New(i)] = w[i]
  BY <1>1, <1>2, <1>4
<1>5. \A i, j \in 1 .. Len(w) : i # p /\ j # p /\ i < j => New(i) < New(j)
  BY <1>1
<1>6. \A j \in 1 .. Len(v) : \E i \in 1 .. Len(w) : i # p /\ New(i) = j
  <2>1. ASSUME NEW j \in 1 .. Len(v)
        PROVE  \E i \in 1 .. Len(w) : i # p /\ New(i) = j
    <3>1. CASE j < p
      <4>1. j \in 1 .. Len(w) /\ j # p /\ New(j) = j
        BY <1>1, <1>2, <3>1
      <4> QED
        BY <4>1
    <3>2. CASE ~ (j < p)
      <4>1. j + 1 \in 1 .. Len(w) /\ j + 1 # p /\ New(j + 1) = j
        BY <1>1, <1>2, <3>2
      <4> HIDE DEF New
      <4> QED
        BY <4>1
    <3> QED
      BY <3>1, <3>2
  <2> QED
    BY <2>1
<1>7. ASSUME NEW k \in 1 .. n
      PROVE  a[k] \in W /\ a[k] \in 1 .. Len(w) /\ a[k] # p
  <2>1. a[k] \in W
    BY <1>1
  <2> QED
    BY <1>1, <1>3, <2>1
<1>8. DOMAIN s = 1 .. n /\ \A k \in 1 .. n : s[k] = New(a[k])
  OBVIOUS
<1>9. s = [k \in 1 .. n |-> s[k]]
  OBVIOUS
<1> HIDE DEF New, s
<1>10. \A j \in 1 .. Len(v) : \A i \in 1 .. Len(w) :
            i # p /\ New(i) = j => (j \in Waiting(v, d) <=> i \in W)
  BY <1>3, <1>4 DEF Waiting
<1>11. s \in [1 .. n -> Waiting(v, d)]
  <2>1. \A k \in 1 .. n : s[k] \in Waiting(v, d)
    BY <1>4, <1>7, <1>8, <1>10
  <2> QED
    BY <1>9, <2>1
<1>12. Increasing(s)
  <2>1. \A i, j \in 1 .. n : i < j => a[i] < a[j]
    BY <1>1 DEF Increasing
  <2>2. \A i, j \in 1 .. n : i < j => s[i] < s[j]
    BY <1>5, <1>7, <1>8, <2>1
  <2> QED
    BY <1>8, <2>2 DEF Increasing
<1>13. \A j \in Waiting(v, d) : \E k \in 1 .. n : s[k] = j
  <2>1. ASSUME NEW j \in Waiting(v, d)
        PROVE  \E k \in 1 .. n : s[k] = j
    <3>1. j \in 1 .. Len(v)
      BY DEF Waiting
    <3>2. PICK i \in 1 .. Len(w) : i # p /\ New(i) = j
      BY <1>6, <3>1
    <3>3. i \in W
      BY <1>10, <3>1, <3>2
    <3>4. PICK k \in 1 .. n : a[k] = i
      BY <1>1, <3>3
    <3> QED
      BY <1>8, <3>2, <3>4
  <2> QED
    BY <2>1
<1> DEFINE new == InOrder(v, d)
<1>14. new \in Seq(Task) /\ Len(new) = n /\ \A k \in 1 .. n : new[k] = v[s[k]]
  <2>1. Lists(s, n, Waiting(v, d))
    BY <1>1, <1>11, <1>12, <1>13 DEF Lists
  <2> QED
    BY <1>2, <2>1, InOrderIs
<1> HIDE DEF new
<1>15. ASSUME NEW k \in 1 .. n
       PROVE  new[k] = old[k]
  <2>1. new[k] = v[New(a[k])]
    BY <1>8, <1>14
  <2>2. v[New(a[k])] = w[a[k]]
    BY <1>4, <1>7
  <2> QED
    BY <1>1, <2>1, <2>2
<1>16. new = old
  BY <1>1, <1>14, <1>15, SeqEqual
<1> QED
  BY <1>16 DEF new, old, v

\* The first who still waits gets the slot; those before are dropped.
LEMMA InOrderGrant ==
    ASSUME NEW w \in Seq(Task), NEW c, NEW d,
           NEW p \in Waiting(w, c), \A i \in Waiting(w, c) : p <= i,
           \A i \in p + 1 .. Len(w) : c[w[i]] = "waiting" <=> d[w[i]] = "waiting"
    PROVE  InOrder(w, c) = Cons(w[p], InOrder(SubSeq(w, p + 1, Len(w)), d))
<1> DEFINE W == Waiting(w, c)
           a == Ascending(W)
           n == Cardinality(W)
           old == InOrder(w, c)
           v == SubSeq(w, p + 1, Len(w))
           s == [k \in 1 .. n - 1 |-> a[k + 1] - p]
<1>1. /\ W \subseteq 1 .. Len(w) /\ Len(w) \in Nat /\ n \in Nat
      /\ a \in [1 .. n -> W] /\ Increasing(a)
      /\ \A i \in W : \E k \in 1 .. n : a[k] = i
      /\ old \in Seq(Task) /\ Len(old) = n /\ \A k \in 1 .. n : old[k] = w[a[k]]
  BY WaitingFacts
<1>2. p \in W /\ (\A i \in W : p <= i) /\ \A i \in 1 .. Len(w) : i \in W <=> c[w[i]] = "waiting"
  BY DEF Waiting
<1>3. p \in 1 .. Len(w)
  BY <1>1, <1>2
<1>4. /\ v \in Seq(Task) /\ Len(v) = Len(w) - p
      /\ \A j \in 1 .. Len(w) - p : v[j] = w[p + j]
  BY ONLY w \in Seq(Task), <1>3, SuffixFacts
<1> HIDE DEF W, a, n, old, v
<1>5. \A k \in 1 .. n : a[k] \in W /\ a[k] \in 1 .. Len(w)
  <2>1. \A k \in 1 .. n : a[k] \in W
    BY <1>1
  <2> QED
    BY <1>1, <2>1
<1>6. \A i, j \in 1 .. n : i < j => a[i] < a[j]
  BY <1>1 DEF Increasing
<1>7. 1 \in 1 .. n /\ a[1] = p
  <2>1. PICK k \in 1 .. n : a[k] = p
    BY <1>1, <1>2
  <2>2. 1 \in 1 .. n /\ (1 = k \/ 1 < k)
    BY <1>1, <2>1
  <2>3. p <= a[1] /\ a[1] \in Nat
    BY <1>2, <1>5, <2>2
  <2>4. ~ (a[1] < a[k])
    BY <1>3, <2>1, <2>3
  <2> QED
    BY <1>6, <2>1, <2>2, <2>4
<1>8. \A k \in 1 .. n - 1 : k + 1 \in 1 .. n /\ p < a[k + 1]
  <2>1. ASSUME NEW k \in 1 .. n - 1
        PROVE  k + 1 \in 1 .. n /\ p < a[k + 1]
    <3>1. k + 1 \in 1 .. n /\ 1 < k + 1
      BY <1>1, <2>1
    <3> QED
      BY <1>6, <1>7, <3>1
  <2> QED
    BY <2>1
<1>9. \A j \in 1 .. Len(v) : j \in Waiting(v, d) <=> p + j \in W
  <2>1. ASSUME NEW j \in 1 .. Len(v)
        PROVE  j \in Waiting(v, d) <=> p + j \in W
    <3>1. p + j \in p + 1 .. Len(w) /\ p + j \in 1 .. Len(w) /\ v[j] = w[p + j]
      BY <1>1, <1>3, <1>4, <2>1
    <3>2. c[w[p + j]] = "waiting" <=> d[w[p + j]] = "waiting"
      BY <3>1
    <3>3. j \in Waiting(v, d) <=> d[v[j]] = "waiting"
      BY DEF Waiting
    <3> QED
      BY <1>2, <3>1, <3>2, <3>3
  <2> QED
    BY <2>1
<1>10. ASSUME NEW k \in 1 .. n - 1
       PROVE  /\ s[k] = a[k + 1] - p /\ s[k] \in Waiting(v, d) /\ s[k] \in 1 .. Len(v)
              /\ p + s[k] = a[k + 1] /\ v[s[k]] = w[a[k + 1]]
  <2>1. k + 1 \in 1 .. n /\ p < a[k + 1] /\ a[k + 1] \in W /\ a[k + 1] \in 1 .. Len(w)
    BY <1>5, <1>8, <1>10
  <2>2. s[k] = a[k + 1] - p
    OBVIOUS
  <2> HIDE DEF s
  <2>3. s[k] \in 1 .. Len(v) /\ p + s[k] = a[k + 1]
    BY <1>1, <1>3, <1>4, <2>1, <2>2
  <2> QED
    BY <1>4, <1>9, <2>1, <2>2, <2>3
<1>11. DOMAIN s = 1 .. n - 1 /\ s = [k \in 1 .. n - 1 |-> s[k]] /\ n - 1 \in Nat
  BY <1>1, <1>7
<1> HIDE DEF s
<1>12. s \in [1 .. n - 1 -> Waiting(v, d)]
  BY <1>10, <1>11
<1>13. Increasing(s)
  <2>1. ASSUME NEW i \in 1 .. n - 1, NEW j \in 1 .. n - 1, i < j
        PROVE  s[i] < s[j]
    <3>1. i + 1 \in 1 .. n /\ j + 1 \in 1 .. n /\ i + 1 < j + 1
      BY <1>1, <2>1
    <3>2. a[i + 1] < a[j + 1] /\ a[i + 1] \in Nat /\ a[j + 1] \in Nat
      BY <1>5, <1>6, <3>1
    <3>3. s[i] = a[i + 1] - p /\ s[j] = a[j + 1] - p
      BY <1>10
    <3> QED
      BY <1>3, <3>2, <3>3
  <2> QED
    BY <1>11, <2>1 DEF Increasing
<1>14. \A j \in Waiting(v, d) : \E k \in 1 .. n - 1 : s[k] = j
  <2>1. ASSUME NEW j \in Waiting(v, d)
        PROVE  \E k \in 1 .. n - 1 : s[k] = j
    <3>1. j \in 1 .. Len(v) /\ p + j \in W
      BY <1>9 DEF Waiting
    <3>2. PICK k \in 1 .. n : a[k] = p + j
      BY <1>1, <3>1
    <3>3. k # 1
      BY <1>3, <1>4, <1>7, <3>1, <3>2
    <3>4. k - 1 \in 1 .. n - 1 /\ k - 1 + 1 = k
      BY <1>1, <3>2, <3>3
    <3>5. s[k - 1] = a[k] - p
      BY <1>10, <3>4
    <3>6. s[k - 1] = j
      BY <1>3, <1>4, <3>1, <3>2, <3>5
    <3> QED
      BY <3>4, <3>6
  <2> QED
    BY <2>1
<1> DEFINE new == InOrder(v, d)
<1>15. new \in Seq(Task) /\ Len(new) = n - 1 /\ \A k \in 1 .. n - 1 : new[k] = v[s[k]]
  <2>1. Lists(s, n - 1, Waiting(v, d))
    BY <1>11, <1>12, <1>13, <1>14 DEF Lists
  <2> QED
    BY <1>4, <2>1, InOrderIs
<1> HIDE DEF new
<1> DEFINE line == Cons(w[p], new)
<1>16. /\ line \in Seq(Task) /\ Len(line) = n /\ line[1] = w[p]
       /\ \A k \in 2 .. n : line[k] = new[k - 1]
  <2> DEFINE h == w[p]
  <2>1. h \in Task /\ new \in Seq(Task) /\ Len(new) + 1 = n
    BY <1>1, <1>3, <1>7, <1>15
  <2> HIDE DEF h
  <2>2. Cons(h, new) \in Seq(Task) /\ Len(Cons(h, new)) = Len(new) + 1
    BY <2>1, ConsFacts
  <2>3. /\ Cons(h, new)[1] = h
        /\ \A k \in 2 .. Len(new) + 1 : Cons(h, new)[k] = new[k - 1]
    BY <2>1, ConsElements
  <2> QED
    BY <2>1, <2>2, <2>3 DEF h
<1> HIDE DEF line
<1>17. ASSUME NEW k \in 1 .. n
       PROVE  old[k] = line[k]
  <2>1. CASE k = 1
    BY <1>1, <1>7, <1>16, <2>1
  <2>2. CASE k # 1
    <3>1. k - 1 \in 1 .. n - 1 /\ k \in 2 .. n /\ k - 1 + 1 = k
      BY <1>1, <2>2
    <3>2. line[k] = v[s[k - 1]]
      BY <1>15, <1>16, <3>1
    <3>3. v[s[k - 1]] = w[a[k]]
      BY <1>10, <3>1
    <3> QED
      BY <1>1, <3>2, <3>3
  <2> QED
    BY <2>1, <2>2
<1>18. old = line
  BY <1>1, <1>16, <1>17, SeqEqual
<1> QED
  BY <1>18 DEF old, line, new, v

LEMMA InOrderEmpty ==
    ASSUME NEW w \in Seq(Task), NEW c, Waiting(w, c) = {}
    PROVE  InOrder(w, c) = <<>>
<1>1. Len(InOrder(w, c)) = Cardinality({}) /\ InOrder(w, c) \in Seq(Task)
  BY WaitingFacts
<1>2. Len(InOrder(w, c)) = 0
  BY <1>1, FS_EmptySet
<1> QED
  BY <1>1, <1>2
-------------------------------------------------------------------------------
(***************************************************************************)
(* The lines: the holder of the slot and those who wait for it.            *)
(***************************************************************************)
LEMMA SeqOfFew ==
    /\ SetToSeq({}) = <<>>
    /\ \A h : SetToSeq({h}) = <<h>>
<1>1. SetToSeq({}) = <<>>
  <2>1. Cardinality({}) = 0
    BY FS_EmptySet
  <2>2. SetToSeq({}) = CHOOSE f \in [1 .. 0 -> {}] : IsInjective(f)
    BY <2>1 DEF SetToSeq
  <2>3. \A f \in [1 .. 0 -> {}] : f = <<>>
    OBVIOUS
  <2>4. <<>> \in [1 .. 0 -> {}] /\ IsInjective(<<>>)
    BY DEF IsInjective
  <2> QED
    BY <2>2, <2>3, <2>4
<1>2. ASSUME NEW h
      PROVE  SetToSeq({h}) = <<h>>
  <2>1. Cardinality({h}) = 1
    BY FS_Singleton
  <2>2. SetToSeq({h}) = CHOOSE f \in [1 .. 1 -> {h}] : IsInjective(f)
    BY <2>1 DEF SetToSeq
  <2>3. \A f \in [1 .. 1 -> {h}] : f = <<h>>
    OBVIOUS
  <2>4. <<h>> \in [1 .. 1 -> {h}] /\ IsInjective(<<h>>)
    BY DEF IsInjective
  <2> QED
    BY <2>2, <2>3, <2>4
<1> QED
  BY <1>1, <1>2

LineIs ==
    \A q \in Queue :
        IF entries[q] = None
        THEN Holders(q) = {} /\ LineOf(q) = <<>>
        ELSE /\ entries[q] \in Entry /\ waiters[entries[q]] \in Seq(Task)
             /\ \E h \in Task : /\ Holders(q) = {h}
                                /\ LineOf(q) = Cons(h, InOrder(waiters[entries[q]], pc))

LEMMA LineFacts == Inv => LineIs
<1>1. ASSUME Inv, NEW q \in Queue, entries[q] = None
      PROVE  Holders(q) = {} /\ LineOf(q) = <<>>
  <2>1. Holders(q) = {}
    BY <1>1, HolderFacts, EntryAssumption DEF Holders
  <2> QED
    BY <1>1, <2>1, SeqOfFew DEF LineOf
<1>2. ASSUME Inv, NEW q \in Queue, entries[q] # None
      PROVE  /\ entries[q] \in Entry /\ waiters[entries[q]] \in Seq(Task)
             /\ \E h \in Task : /\ Holders(q) = {h}
                                /\ LineOf(q) = Cons(h, InOrder(waiters[entries[q]], pc))
  <2>1. PICK h \in Task : h \in Holders(q)
    BY <1>2 DEF Inv, NoSlotLeaks, Holders
  <2>2. Holders(q) = {h}
    BY <1>2, <2>1 DEF Inv, OneAtATime
  <2>3. LineOf(q) = Cons(h, InOrder(waiters[entries[q]], pc))
    BY <1>2, <2>2, SeqOfFew DEF LineOf, Cons
  <2> QED
    BY <1>2, <2>2, <2>3 DEF Inv, TypeOK
<1> QED
  BY <1>1, <1>2, Zenon DEF LineIs

LEMMA LineFactsNext == Inv' => LineIs'
BY LineFacts, PTL

\* Everybody in line is at work, and there is room for as many as may queue.
LEMMA LineMembers ==
    ASSUME Inv, NEW q \in Queue
    PROVE  /\ LineOf(q) \in Seq(Task)
           /\ Len(LineOf(q)) <= IF entries[q] = None THEN 0 ELSE Len(waiters[entries[q]]) + 1
           /\ \A k \in 1 .. Len(LineOf(q)) : pc[LineOf(q)[k]] # "idle"
<1>1. LineIs
  BY LineFacts
<1>2. CASE entries[q] = None
  <2>1. LineOf(q) = <<>>
    BY <1>1, <1>2 DEF LineIs
  <2>2. <<>> \in Seq(Task) /\ Len(<<>>) = 0 /\ 1 .. 0 = {}
    OBVIOUS
  <2>3. Len(LineOf(q)) <= 0 /\ 1 .. Len(LineOf(q)) = {}
    BY <2>1, <2>2
  <2> QED
    BY <1>2, <2>1, <2>2, <2>3
<1>3. CASE entries[q] # None
  <2> DEFINE w == waiters[entries[q]]
             W == Waiting(w, pc)
             a == Ascending(W)
             n == Cardinality(W)
             queued == InOrder(w, pc)
             line == LineOf(q)
  <2>1. PICK h \in Task : Holders(q) = {h} /\ line = Cons(h, queued) /\ w \in Seq(Task)
    BY <1>1, <1>3 DEF LineIs
  <2>2. pc[h] # "idle"
    BY <2>1 DEF Holders, Holding
  <2>3. /\ W \subseteq 1 .. Len(w) /\ Len(w) \in Nat /\ n \in Nat /\ n <= Len(w)
        /\ a \in [1 .. n -> W]
        /\ queued \in Seq(Task) /\ Len(queued) = n /\ \A k \in 1 .. n : queued[k] = w[a[k]]
    BY <2>1, WaitingFacts
  <2>4. \A i \in W : pc[w[i]] = "waiting"
    BY DEF Waiting
  <2> HIDE DEF w, W, a, n, queued, line
  <2>5. \A k \in 1 .. n : pc[queued[k]] = "waiting"
    <3>1. ASSUME NEW k \in 1 .. n
          PROVE  pc[queued[k]] = "waiting"
      <4>1. a[k] \in W /\ queued[k] = w[a[k]]
        BY <2>3
      <4> QED
        BY <2>4, <4>1
    <3> QED
      BY <3>1
  <2>6. /\ line \in Seq(Task) /\ Len(line) = n + 1 /\ line[1] = h
        /\ \A k \in 2 .. n + 1 : line[k] = queued[k - 1]
    <3>1. Cons(h, queued) \in Seq(Task) /\ Len(Cons(h, queued)) = n + 1
      BY <2>3, ConsFacts
    <3>2. /\ Cons(h, queued)[1] = h
          /\ \A k \in 2 .. Len(queued) + 1 : Cons(h, queued)[k] = queued[k - 1]
      BY <2>3, ConsElements
    <3> QED
      BY <2>1, <2>3, <3>1, <3>2
  <2>7. ASSUME NEW k \in 1 .. Len(line)
        PROVE  pc[line[k]] # "idle"
    <3>1. CASE k = 1
      BY <2>2, <2>6, <3>1
    <3>2. CASE k # 1
      <4>1. k - 1 \in 1 .. n /\ k \in 2 .. n + 1
        BY <2>3, <2>6, <3>2
      <4>2. line[k] = queued[k - 1]
        BY <2>6, <4>1
      <4> QED
        BY <2>5, <4>1, <4>2
    <3> QED
      BY <3>1, <3>2
  <2>8. Len(line) <= Len(w) + 1
    BY <2>3, <2>6
  <2> QED
    BY <1>3, <2>6, <2>7, <2>8 DEF line, w
<1> QED
  BY <1>2, <1>3

\* A line that a step leaves as it is.
LEMMA SameLine ==
    ASSUME Inv, NEW q \in Queue, entries'[q] = entries[q], Holders(q)' = Holders(q),
           entries[q] # None =>
               /\ waiters'[entries[q]] = waiters[entries[q]]
               /\ \A i \in 1 .. Len(waiters[entries[q]]) :
                     pc[waiters[entries[q]][i]] = "waiting" <=> pc'[waiters[entries[q]][i]] = "waiting"
    PROVE  LineOf(q)' = LineOf(q)
<1>1. CASE entries[q] = None
  BY <1>1 DEF LineOf
<1>2. CASE entries[q] # None
  <2> DEFINE w == waiters[entries[q]]
  <2>1. w \in Seq(Task)
    BY <1>2 DEF Inv, TypeOK
  <2>2. InOrder(w, pc') = InOrder(w, pc)
    BY <1>2, <2>1, InOrderSame
  <2> QED
    BY <1>2, <2>2 DEF LineOf
<1> QED
  BY <1>1, <1>2

\* The line of a queue that a step has nothing to do with.
LEMMA OtherLine ==
    ASSUME Inv, NEW p \in Queue, entries'[p] = entries[p],
           entries[p] # None => waiters'[entries[p]] = waiters[entries[p]],
           \A u \in Task : \/ pc'[u] = pc[u] /\ key'[u] = key[u]
                           \/ /\ key[u] # p /\ key'[u] # p
                              /\ pc[u] = "abandoned" => pc'[u] # "waiting"
    PROVE  LineOf(p)' = LineOf(p)
<1>1. Holders(p)' = Holders(p)
  <2>1. \A u \in Task : pc'[u] \in Holding /\ key'[u] = p <=> pc[u] \in Holding /\ key[u] = p
    OBVIOUS
  <2>2. Holders(p)' = {u \in Task : pc'[u] \in Holding /\ key'[u] = p}
    BY DEF Holders, Holding
  <2> QED
    BY <2>1, <2>2 DEF Holders
<1>2. ASSUME entries[p] # None, NEW i \in 1 .. Len(waiters[entries[p]])
      PROVE  pc[waiters[entries[p]][i]] = "waiting" <=> pc'[waiters[entries[p]][i]] = "waiting"
  <2> DEFINE e == entries[p]
             u == waiters[e][i]
  <2>1. e \in Entry /\ u \in Task
    BY <1>2 DEF Inv, TypeOK
  <2>2. pc[u] \in {"waiting", "abandoned"} /\ mine[u] = e
    BY <1>2, <2>1 DEF Inv, WaitersInv
  <2>3. pc[u] = "waiting" => key[u] = p
    <3>1. SUFFICES ASSUME pc[u] = "waiting" PROVE key[u] = p
      OBVIOUS
    <3>2. key[u] \in Queue /\ entries[key[u]] = e
      BY <2>1, <2>2, <3>1, AtWork DEF Inv, NoSlotLeaks
    <3> QED
      BY <1>2, <3>2 DEF Inv, EntriesInv
  <2> HIDE DEF u
  <2> QED
    BY <2>1, <2>2, <2>3 DEF u
<1> QED
  BY <1>1, <1>2, SameLine

\* What the lines are after a step that leaves a holder.
LEMMA LineNext ==
    ASSUME NEW q \in Queue, NEW h \in Task, Inv', entries'[q] # None, h \in Holders(q)'
    PROVE  LineOf(q)' = Cons(h, InOrder(waiters'[entries'[q]], pc'))
<1>1. Holders(q)' = {h}
  BY DEF Inv, OneAtATime
<1>2. LineOf(q)' = SetToSeq(Holders(q)') \o InOrder(waiters'[entries'[q]], pc')
  BY DEF LineOf
<1> QED
  BY <1>1, <1>2, SeqOfFew DEF Cons
-------------------------------------------------------------------------------
(***************************************************************************)
(* Every step is one of WaitingLine's, or changes no line.                 *)
(***************************************************************************)
OnlyLine(q) == \A p \in Queue \ {q} : LineOf(p)' = LineOf(p)

Joins(q, t) ==
    /\ \A p \in Queue : t \notin Range(LineOf(p))
    /\ Len(LineOf(q)) <= MaxQueueSize
    /\ LineOf(q)' = Append(LineOf(q), t)
    /\ OnlyLine(q)

Leaves(q, i) ==
    /\ i \in 1 .. Len(LineOf(q))
    /\ LineOf(q)' = RemoveAt(LineOf(q), i)
    /\ OnlyLine(q)

SameLines == \A q \in Queue : LineOf(q)' = LineOf(q)

\* Who arrives is in no line yet.
LEMMA NotInLine ==
    ASSUME Inv, NEW t \in Task, pc[t] = "idle"
    PROVE  \A p \in Queue : t \notin Range(LineOf(p))
<1>1. ASSUME NEW p \in Queue PROVE t \notin Range(LineOf(p))
  <2>1. LineOf(p) \in Seq(Task) /\ \A k \in 1 .. Len(LineOf(p)) : pc[LineOf(p)[k]] # "idle"
    BY LineMembers
  <2>2. DOMAIN LineOf(p) = 1 .. Len(LineOf(p))
    BY <2>1
  <2> QED
    BY <2>1, <2>2 DEF Range
<1> QED
  BY <1>1

LEMMA EntersJoins ==
    ASSUME Inv, NEW t \in Task, NEW q \in Queue, Enters(t, q)
    PROVE  Joins(q, t)
<1>1. PICK e \in EntryOf(q) :
          /\ ~ active[e]
          /\ entries' = [entries EXCEPT ![q] = e]
          /\ active' = [active EXCEPT ![e] = TRUE]
          /\ mine' = [mine EXCEPT ![t] = e]
  BY DEF Enters
<1>2. /\ pc[t] = "idle" /\ pc' = [pc EXCEPT ![t] = "running"]
      /\ key' = [key EXCEPT ![t] = q] /\ waiters' = waiters
  BY DEF Enters
<1>3. entries[q] = None /\ e \in Entry /\ e # None /\ \A u \in Task : mine[u] # e
  <2>1. entries[q] = None
    <3>1. SUFFICES ASSUME entries[q] # None PROVE FALSE
      OBVIOUS
    <3>2. e = entries[q] /\ e \in Entry
      BY <1>1, <3>1 DEF EntryOf, Inv, TypeOK
    <3> QED
      BY <1>1, <3>2 DEF Inv, EntriesInv
  <2> QED
    BY <1>1, <2>1, EntryAssumption DEF EntryOf, Garbage
<1>4. Inv'
  BY EntersKeeps
<1>5. entries'[q] = e /\ \A p \in Queue \ {q} : entries'[p] = entries[p]
  BY <1>1 DEF Inv, TypeOK
<1>6. /\ pc'[t] = "running" /\ key'[t] = q /\ key[t] = None
      /\ \A u \in Task \ {t} : pc'[u] = pc[u] /\ key'[u] = key[u]
  BY <1>2 DEF Inv, TypeOK, TasksInv
<1>7. OnlyLine(q)
  <2>1. ASSUME NEW p \in Queue \ {q} PROVE LineOf(p)' = LineOf(p)
    <3>1. p # None
      BY DEF Queue
    <3> QED
      BY <1>2, <1>5, <1>6, <3>1, OtherLine
  <2> QED
    BY <2>1 DEF OnlyLine
<1>8. LineOf(q) = <<>>
  BY <1>3, LineFacts DEF LineIs
<1>9. LineOf(q)' = <<t>>
  <2>1. waiters[e] \in Seq(Task) /\ waiters'[entries'[q]] = waiters[e]
    BY <1>2, <1>3, <1>5 DEF Inv, TypeOK
  <2>2. Waiting(waiters[e], pc') = {}
    <3>1. \A i \in 1 .. Len(waiters[e]) : waiters[e][i] \in Task /\ mine[waiters[e][i]] = e
      BY <1>3, <2>1 DEF Inv, WaitersInv
    <3> QED
      BY <1>3, <3>1 DEF Waiting
  <2>3. InOrder(waiters'[entries'[q]], pc') = <<>>
    BY <2>1, <2>2, InOrderEmpty
  <2>4. t \in Holders(q)'
    BY <1>6 DEF Holders, Holding
  <2>5. LineOf(q)' = Cons(t, <<>>)
    BY <1>3, <1>4, <1>5, <2>3, <2>4, LineNext
  <2> QED
    BY <2>5 DEF Cons
<1>10. LineOf(q)' = Append(LineOf(q), t) /\ Len(LineOf(q)) <= MaxQueueSize
  BY <1>8, <1>9
<1> QED
  BY <1>2, <1>7, <1>10, NotInLine DEF Joins

LEMMA QueuesJoins ==
    ASSUME Inv, NEW t \in Task, NEW q \in Queue, Queues(t, q)
    PROVE  Joins(q, t)
<1>1. PICK e \in EntryOf(q) :
          /\ active[e]
          /\ Len(waiters[e]) < MaxQueueSize
          /\ waiters' = [waiters EXCEPT ![e] = Append(@, t)]
          /\ mine' = [mine EXCEPT ![t] = e]
  BY DEF Queues
<1>2. /\ pc[t] = "idle" /\ pc' = [pc EXCEPT ![t] = "waiting"]
      /\ key' = [key EXCEPT ![t] = q] /\ UNCHANGED <<entries, active>>
  BY DEF Queues
<1>3. e \in Entry /\ entries[q] = e /\ e # None
  BY <1>1, EntryAssumption DEF EntryOf, Garbage, Inv, TypeOK, EntriesInv
<1>4. Inv'
  BY QueuesKeeps
<1>5. /\ pc'[t] = "waiting" /\ key'[t] = q /\ key[t] = None
      /\ \A u \in Task \ {t} : pc'[u] = pc[u] /\ key'[u] = key[u]
  BY <1>2 DEF Inv, TypeOK, TasksInv
<1>6. waiters'[e] = Append(waiters[e], t) /\ \A f \in Entry \ {e} : waiters'[f] = waiters[f]
  BY <1>1, <1>3 DEF Inv, TypeOK
<1>7. OnlyLine(q)
  <2>1. ASSUME NEW p \in Queue \ {q} PROVE LineOf(p)' = LineOf(p)
    <3>1. p # None
      BY DEF Queue
    <3>2. entries'[p] = entries[p]
      BY <1>2
    <3>3. entries[p] # None => entries[p] \in Entry \ {e}
      BY <1>3 DEF Inv, TypeOK, EntriesInv
    <3>4. entries[p] # None => waiters'[entries[p]] = waiters[entries[p]]
      BY <1>6, <3>3
    <3>5. \A u \in Task : \/ pc'[u] = pc[u] /\ key'[u] = key[u]
                          \/ /\ key[u] # p /\ key'[u] # p
                             /\ pc[u] = "abandoned" => pc'[u] # "waiting"
      BY <1>2, <1>5, <3>1
    <3> QED
      BY <3>2, <3>4, <3>5, OtherLine
  <2> QED
    BY <2>1 DEF OnlyLine
<1>8. PICK h \in Task : /\ Holders(q) = {h} /\ waiters[e] \in Seq(Task)
                        /\ LineOf(q) = Cons(h, InOrder(waiters[e], pc))
  BY <1>3, LineFacts DEF LineIs
<1>9. LineOf(q)' = Append(LineOf(q), t)
  <2>1. \A i \in 1 .. Len(waiters[e]) : waiters[e][i] \in Task \ {t}
    <3>1. \A i \in 1 .. Len(waiters[e]) : pc[waiters[e][i]] \in {"waiting", "abandoned"}
      BY <1>3 DEF Inv, WaitersInv
    <3>2. \A i \in 1 .. Len(waiters[e]) : waiters[e][i] \in Task
      BY <1>8
    <3> QED
      BY <1>2, <3>1, <3>2
  <2>2. InOrder(Append(waiters[e], t), pc') = Append(InOrder(waiters[e], pc), t)
    <3>1. \A i \in 1 .. Len(waiters[e]) :
             pc[waiters[e][i]] = "waiting" <=> pc'[waiters[e][i]] = "waiting"
      BY <1>5, <2>1
    <3> DEFINE c == pc
               d == pc'
               w == waiters[e]
    <3> HIDE DEF w, c, d
    <3>2. w \in Seq(Task) /\ d[t] = "waiting"
      BY <1>5, <1>8 DEF w, d
    <3>3. SameWait(w, c, d)
      BY <3>1 DEF w, c, d, SameWait
    <3>4. InOrder(Append(w, t), d) = Append(InOrder(w, c), t)
      BY <3>2, <3>3, InOrderAppend, ZenonT(30)
    <3> QED
      BY <3>4 DEF w, c, d
  <2>3. h \in Holders(q)'
    BY <1>2, <1>5, <1>8 DEF Holders, Holding
  <2>4. LineOf(q)' = Cons(h, Append(InOrder(waiters[e], pc), t))
    BY <1>2, <1>3, <1>4, <1>6, <2>2, <2>3, LineNext
  <2>5. InOrder(waiters[e], pc) \in Seq(Task)
    BY <1>8, WaitingFacts
  <2> QED
    BY <1>8, <2>4, <2>5, ConsAppend
<1>10. Len(LineOf(q)) <= MaxQueueSize
  <2>1. LineOf(q) \in Seq(Task) /\ Len(LineOf(q)) <= Len(waiters[e]) + 1
    BY <1>3, LineMembers
  <2>2. Len(LineOf(q)) \in Nat /\ Len(waiters[e]) \in Nat
    BY <1>8, <2>1
  <2> QED
    BY <1>1, <2>1, <2>2
<1> QED
  BY <1>2, <1>7, <1>9, <1>10, NotInLine DEF Joins

\* A waiter that gives up leaves the line; one that has the slot keeps it.
LEMMA AbandonsLeaves ==
    ASSUME Inv, NEW t \in Task, Abandons(t)
    PROVE  SameLines \/ \E q \in Queue : \E i \in 1 .. Len(LineOf(q)) : Leaves(q, i)
<1>1. /\ pc[t] \in {"waiting", "granted"}
      /\ pc' = [pc EXCEPT ![t] = IF @ = "waiting" THEN "abandoned" ELSE "revoked"]
      /\ UNCHANGED <<entries, active, waiters, key, mine>>
  BY DEF Abandons
<1>2. /\ pc'[t] = IF pc[t] = "waiting" THEN "abandoned" ELSE "revoked"
      /\ \A u \in Task \ {t} : pc'[u] = pc[u]
  BY <1>1 DEF Inv, TypeOK
<1>3. \A p \in Queue : Holders(p)' = Holders(p)
  BY <1>1, <1>2 DEF Holders, Holding
<1>4. CASE pc[t] = "granted"
  <2>1. \A u \in Task : pc[u] = "waiting" <=> pc'[u] = "waiting"
    BY <1>2, <1>4
  <2>2. ASSUME NEW p \in Queue PROVE LineOf(p)' = LineOf(p)
    <3>1. entries[p] # None =>
             \A i \in 1 .. Len(waiters[entries[p]]) : waiters[entries[p]][i] \in Task
      BY DEF Inv, TypeOK
    <3> QED
      BY <1>1, <1>3, <2>1, <3>1, SameLine
  <2> QED
    BY <2>2 DEF SameLines
<1>5. CASE pc[t] = "waiting"
  <2> PICK q \in Queue : q = key[t]
    BY <1>5, AtWork
  <2> DEFINE e == mine[t]
             w == waiters[e]
  <2>1. e \in Entry /\ w \in Seq(Task) /\ entries[q] = e /\ e # None
    BY <1>5, AtWork, EntryAssumption DEF Inv, NoSlotLeaks
  <2>2. PICK p \in 1 .. Len(w) : w[p] = t
    BY <1>5 DEF Inv, WaitersInv, Place
  <2>3. p \in Waiting(w, pc) /\ pc'[w[p]] # "waiting"
    BY <1>2, <1>5, <2>2 DEF Waiting
  <2>4. \A i \in 1 .. Len(w) : i # p => w[i] \in Task \ {t}
    <3>1. \A i \in 1 .. Len(w) : w[i] = w[p] => i = p
      BY <2>1, <2>2 DEF Inv, WaitersInv
    <3>2. \A i \in 1 .. Len(w) : w[i] \in Task
      BY <2>1
    <3> QED
      BY <2>2, <3>1, <3>2
  <2>5. \A i \in 1 .. Len(w) : i # p => (pc[w[i]] = "waiting" <=> pc'[w[i]] = "waiting")
    BY <1>2, <2>4
  <2>6. PICK k \in 1 .. Len(InOrder(w, pc)) : InOrder(w, pc') = RemoveAt(InOrder(w, pc), k)
    <3> DEFINE c == pc
               d == pc'
    <3> HIDE DEF w, c, d
    <3>1. w \in Seq(Task) /\ p \in Waiting(w, c) /\ d[w[p]] # "waiting"
      BY <2>1, <2>3 DEF c, d
    <3>2. \A i \in 1 .. Len(w) : i # p => (c[w[i]] = "waiting" <=> d[w[i]] = "waiting")
      BY <2>5 DEF c, d
    <3>3. GivesUp(w, c, d, p)
      BY <3>1, <3>2 DEF GivesUp
    <3>4. \E k \in 1 .. Len(InOrder(w, c)) : InOrder(w, d) = RemoveAt(InOrder(w, c), k)
      BY <3>1, <3>3, InOrderAbandon
    <3> QED
      BY <3>4 DEF c, d
  <2>7. PICK h \in Task : Holders(q) = {h} /\ LineOf(q) = Cons(h, InOrder(w, pc))
    BY <2>1, LineFacts DEF LineIs
  <2>8. LineOf(q)' = Cons(h, InOrder(w, pc'))
    <3>1. LineOf(q)' = SetToSeq(Holders(q)') \o InOrder(waiters'[entries'[q]], pc')
      BY <1>1, <2>1 DEF LineOf
    <3>2. Holders(q)' = {h} /\ waiters'[entries'[q]] = w
      BY <1>1, <1>3, <2>1, <2>7
    <3> QED
      BY <3>1, <3>2, SeqOfFew DEF Cons
  <2>9. /\ k + 1 \in 1 .. Len(LineOf(q)) /\ LineOf(q)' = RemoveAt(LineOf(q), k + 1)
    <3> DEFINE queued == InOrder(w, pc)
    <3>1. queued \in Seq(Task) /\ Len(queued) \in Nat
      BY <2>1, WaitingFacts
    <3>2. k \in 1 .. Len(queued) /\ LineOf(q) = Cons(h, queued)
          /\ LineOf(q)' = Cons(h, RemoveAt(queued, k))
      BY <2>6, <2>7, <2>8
    <3> HIDE DEF queued
    <3>3. /\ Len(Cons(h, queued)) = Len(queued) + 1
          /\ \A j \in 1 .. Len(queued) :
                RemoveAt(Cons(h, queued), j + 1) = Cons(h, RemoveAt(queued, j))
      BY <3>1, ConsFacts, ConsRemove
    <3>4. RemoveAt(Cons(h, queued), k + 1) = Cons(h, RemoveAt(queued, k))
      BY <3>2, <3>3, Zenon
    <3> DEFINE n == Len(queued)
               m == Len(Cons(h, queued))
    <3>5. k + 1 \in 1 .. m
      <4>1. n \in Nat /\ k \in 1 .. n /\ m = n + 1
        BY <3>1, <3>2, <3>3
      <4> HIDE DEF n, m
      <4> QED
        BY <4>1
    <3> QED
      BY <3>2, <3>4, <3>5, Zenon
  <2>10. OnlyLine(q)
    <3>1. ASSUME NEW r \in Queue \ {q} PROVE LineOf(r)' = LineOf(r)
      <4>1. \A u \in Task : \/ pc'[u] = pc[u] /\ key'[u] = key[u]
                            \/ /\ key[u] # r /\ key'[u] # r
                               /\ pc[u] = "abandoned" => pc'[u] # "waiting"
        BY <1>1, <1>2, <1>5
      <4> QED
        BY <1>1, <4>1, OtherLine
    <3> QED
      BY <3>1 DEF OnlyLine
  <2>11. Leaves(q, k + 1)
    BY <2>9, <2>10 DEF Leaves
  <2> QED
    BY <2>1, <2>9, <2>11
<1> QED
  BY <1>1, <1>4, <1>5

LEMMA ResumesSame ==
    ASSUME Inv, NEW t \in Task, Resumes(t)
    PROVE  SameLines
<1>1. /\ pc[t] \in {"granted", "revoked"}
      /\ pc' = [pc EXCEPT ![t] = "running"]
      /\ UNCHANGED <<entries, active, waiters, key, mine>>
  BY DEF Resumes
<1>2. pc'[t] = "running" /\ \A u \in Task \ {t} : pc'[u] = pc[u]
  BY <1>1 DEF Inv, TypeOK
<1>3. \A p \in Queue : Holders(p)' = Holders(p)
  BY <1>1, <1>2 DEF Holders, Holding
<1>4. \A u \in Task : pc[u] = "waiting" <=> pc'[u] = "waiting"
  BY <1>1, <1>2
<1>5. ASSUME NEW p \in Queue PROVE LineOf(p)' = LineOf(p)
  <2>1. entries[p] # None =>
           \A i \in 1 .. Len(waiters[entries[p]]) : waiters[entries[p]][i] \in Task
    BY DEF Inv, TypeOK
  <2> QED
    BY <1>1, <1>3, <1>4, <2>1, SameLine
<1> QED
  BY <1>5 DEF SameLines

\* Who has given up waiting has left the line before it leaves the queue.
LEMMA DepartureSame ==
    ASSUME Inv, NEW t \in Task, pc[t] = "abandoned", LeavesQueue(t) \/ JustLeaves(t)
    PROVE  SameLines
<1>1. /\ pc' = [pc EXCEPT ![t] = "idle"] /\ Forgets(t) /\ UNCHANGED <<entries, active>>
  BY DEF LeavesQueue, JustLeaves
<1>2. /\ pc'[t] = "idle" /\ key'[t] = None
      /\ \A u \in Task \ {t} : pc'[u] = pc[u] /\ key'[u] = key[u]
  BY <1>1, DepartureFacts
<1>3. \A p \in Queue : Holders(p)' = Holders(p)
  BY <1>2 DEF Holders, Holding
<1>4. \A u \in Task : pc[u] = "waiting" <=> pc'[u] = "waiting"
  BY <1>2
<1> DEFINE e == mine[t]
           w == waiters[e]
<1>5. e \in Entry /\ w \in Seq(Task)
  BY AtWork
<1>6. \/ waiters' = waiters
      \/ \E i \in 1 .. Len(w) : w[i] = t /\ waiters' = [waiters EXCEPT ![e] = RemoveAt(@, i)]
  BY DEF LeavesQueue, JustLeaves, Place
<1>7. \A f \in Entry \ {e} : waiters'[f] = waiters[f]
  BY <1>5, <1>6 DEF Inv, TypeOK
<1>8. ASSUME NEW p \in Queue PROVE LineOf(p)' = LineOf(p)
  <2>1. entries[p] # None =>
           \A i \in 1 .. Len(waiters[entries[p]]) : waiters[entries[p]][i] \in Task
    BY DEF Inv, TypeOK
  <2>2. CASE entries[p] = None \/ waiters'[entries[p]] = waiters[entries[p]]
    BY <1>1, <1>3, <1>4, <2>1, <2>2, SameLine
  <2>3. CASE entries[p] # None /\ waiters'[entries[p]] # waiters[entries[p]]
    <3>1. entries[p] = e
      BY <1>7, <2>3 DEF Inv, TypeOK
    <3>2. PICK i \in 1 .. Len(w) :
             w[i] = t /\ waiters' = [waiters EXCEPT ![e] = RemoveAt(@, i)]
      BY <1>6, <2>3
    <3>3. waiters'[e] = RemoveAt(w, i)
      BY <1>5, <3>2 DEF Inv, TypeOK
    <3>4. InOrder(RemoveAt(w, i), pc') = InOrder(w, pc)
      <4>1. pc[w[i]] # "waiting"
        BY <3>2
      <4>2. \A j \in 1 .. Len(w) : j # i => (pc[w[j]] = "waiting" <=> pc'[w[j]] = "waiting")
        BY <1>4, <1>5
      <4> HIDE DEF w
      <4> QED
        BY <1>5, <4>1, <4>2, InOrderRemove
    <3>5. LineOf(p)' = SetToSeq(Holders(p)') \o InOrder(RemoveAt(w, i), pc')
      BY <1>1, <2>3, <3>1, <3>3 DEF LineOf
    <3>6. LineOf(p) = SetToSeq(Holders(p)) \o InOrder(w, pc)
      BY <2>3, <3>1 DEF LineOf
    <3> QED
      BY <1>3, <3>4, <3>5, <3>6
  <2> QED
    BY <2>2, <2>3
<1> QED
  BY <1>8 DEF SameLines

\* The slot is given back and nobody takes it over.
LEMMA LastReleaseLeaves ==
    ASSUME Inv, NEW t \in Task, pc[t] \in Holding, Release(t), Pending(mine[t]) = {}
    PROVE  \E q \in Queue : \E i \in 1 .. Len(LineOf(q)) : Leaves(q, i)
<1> PICK q \in Queue : q = key[t]
  BY HolderFacts
<1> PICK e \in Entry : e = mine[t]
  BY HolderFacts
<1>1. /\ pc' = [pc EXCEPT ![t] = "idle"]
      /\ waiters' = [waiters EXCEPT ![e] = <<>>]
      /\ entries' = [entries EXCEPT ![q] = None]
      /\ key' = [key EXCEPT ![t] = None]
  BY DEF Release, Forgets
<1>2. entries[q] = e /\ e # None /\ q # None /\ waiters[e] \in Seq(Task)
  BY HolderFacts, EntryAssumption DEF Queue
<1>3. LineOf(q) = Cons(t, <<>>)
  <2>1. PICK h \in Task : Holders(q) = {h} /\ LineOf(q) = Cons(h, InOrder(waiters[e], pc))
    BY <1>2, LineFacts DEF LineIs
  <2>2. h = t
    BY <2>1 DEF Holders
  <2>3. Waiting(waiters[e], pc) = {}
    BY DEF Waiting, Pending
  <2>4. InOrder(waiters[e], pc) = <<>>
    BY <1>2, <2>3, InOrderEmpty
  <2> QED
    BY <2>1, <2>2, <2>4
<1>4. entries'[q] = None /\ \A p \in Queue \ {q} : entries'[p] = entries[p]
  BY <1>1 DEF Inv, TypeOK
<1>5. LineOf(q)' = <<>>
  <2>1. Inv'
    BY LastReleaseKeeps
  <2> QED
    BY <1>4, <2>1, LineFactsNext DEF LineIs
<1>6. 1 \in 1 .. Len(LineOf(q)) /\ LineOf(q)' = RemoveAt(LineOf(q), 1)
  <2> DEFINE nobody == <<>>
  <2>1. nobody \in Seq(Task) /\ Len(nobody) = 0
    OBVIOUS
  <2>2. LineOf(q) = Cons(t, nobody) /\ LineOf(q)' = nobody
    BY <1>3, <1>5
  <2> HIDE DEF nobody
  <2>3. RemoveAt(Cons(t, nobody), 1) = nobody
    BY <2>1, ConsRemove
  <2>4. Len(Cons(t, nobody)) = Len(nobody) + 1
    BY <2>1, ConsFacts
  <2> QED
    BY <2>1, <2>2, <2>3, <2>4
<1>7. OnlyLine(q)
  <2>1. ASSUME NEW p \in Queue \ {q} PROVE LineOf(p)' = LineOf(p)
    <3>1. entries[p] # None => waiters'[entries[p]] = waiters[entries[p]]
      <4>1. entries[p] # None => entries[p] \in Entry \ {e}
        BY <1>2 DEF Inv, TypeOK, EntriesInv
      <4> QED
        BY <1>1, <4>1 DEF Inv, TypeOK
    <3>2. \A u \in Task \ {t} : pc'[u] = pc[u] /\ key'[u] = key[u]
      BY <1>1 DEF Inv, TypeOK
    <3>3. pc'[t] = "idle" /\ key'[t] = None
      BY <1>1 DEF Inv, TypeOK
    <3>4. p # None
      BY DEF Queue
    <3> QED
      BY <1>4, <3>1, <3>2, <3>3, <3>4, OtherLine
  <2> QED
    BY <2>1 DEF OnlyLine
<1> QED
  BY <1>6, <1>7 DEF Leaves

\* The first that still waits becomes the first of the line.
LEMMA GrantingReleaseLeaves ==
    ASSUME Inv, NEW t \in Task, pc[t] \in Holding, Release(t), Pending(mine[t]) # {}
    PROVE  \E q \in Queue : \E i \in 1 .. Len(LineOf(q)) : Leaves(q, i)
<1> PICK q \in Queue : q = key[t]
  BY HolderFacts
<1> PICK e \in Entry : e = mine[t]
  BY HolderFacts
<1>1. PICK i \in Pending(e) :
          /\ \A j \in Pending(e) : i <= j
          /\ pc' = [pc EXCEPT ![t] = "idle", ![waiters[e][i]] = "granted"]
          /\ waiters' = [waiters EXCEPT ![e] = SubSeq(@, i + 1, Len(@))]
          /\ UNCHANGED <<active, entries>>
          /\ key' = [key EXCEPT ![t] = None]
  BY DEF Release, Forgets
<1> DEFINE w == waiters[e]
           u == w[i]
<1>2. /\ entries[q] = e /\ e # None /\ q # None /\ w \in Seq(Task)
      /\ \A j \in 1 .. Len(w) : w[j] \in Task \ {t}
  BY HolderFacts, EntryAssumption DEF Queue
<1>3. i \in 1 .. Len(w) /\ u \in Task \ {t} /\ pc[u] = "waiting"
  BY <1>2 DEF Pending
<1>4. key[u] = q
  <2>1. mine[u] = e
    BY <1>2, <1>3 DEF Inv, WaitersInv
  <2>2. key[u] \in Queue /\ entries[key[u]] = e
    BY <1>3, <2>1, AtWork DEF Inv, NoSlotLeaks
  <2> QED
    BY <1>2, <2>2 DEF Inv, EntriesInv
<1>5. /\ pc'[t] = "idle" /\ key'[t] = None /\ pc'[u] = "granted" /\ key'[u] = q
      /\ \A x \in Task \ {t, u} : pc'[x] = pc[x] /\ key'[x] = key[x]
  <2>1. u \in Task \ {t}
    BY <1>3
  <2> HIDE DEF u
  <2>2. pc' = [pc EXCEPT ![t] = "idle", ![u] = "granted"]
    BY <1>1 DEF u
  <2> QED
    BY <1>1, <1>4, <2>1, <2>2 DEF Inv, TypeOK
<1>6. /\ waiters'[e] = SubSeq(w, i + 1, Len(w))
      /\ \A f \in Entry \ {e} : waiters'[f] = waiters[f]
  BY <1>1 DEF Inv, TypeOK
<1>7. Inv'
  BY GrantingReleaseKeeps
<1> DEFINE rest == InOrder(SubSeq(w, i + 1, Len(w)), pc')
<1>8. InOrder(w, pc) = Cons(u, rest)
  <2>1. i \in Waiting(w, pc) /\ \A j \in Waiting(w, pc) : i <= j
    BY <1>1, <1>3 DEF Waiting, Pending
  <2>2. ASSUME NEW j \in i + 1 .. Len(w)
        PROVE  pc[w[j]] = "waiting" <=> pc'[w[j]] = "waiting"
    <3>1. j \in 1 .. Len(w) /\ i # j
      BY <1>2, <1>3
    <3>2. w[j] # u /\ w[j] \in Task \ {t}
      BY <1>2, <1>3, <3>1 DEF Inv, WaitersInv
    <3> QED
      BY <1>5, <3>2
  <2> DEFINE c == pc
             d == pc'
  <2> HIDE DEF w, c, d
  <2>3. w \in Seq(Task) /\ i \in Waiting(w, c) /\ \A j \in Waiting(w, c) : i <= j
    BY <1>2, <2>1 DEF c
  <2>4. \A j \in i + 1 .. Len(w) : c[w[j]] = "waiting" <=> d[w[j]] = "waiting"
    BY <2>2 DEF c, d
  <2>5. InOrder(w, c) = Cons(w[i], InOrder(SubSeq(w, i + 1, Len(w)), d))
    BY <2>3, <2>4, InOrderGrant
  <2> QED
    BY <2>5 DEF c, d
<1>9. rest \in Seq(Task)
  <2>1. waiters'[e] \in Seq(Task)
    BY <1>7 DEF Inv, TypeOK
  <2>2. SubSeq(w, i + 1, Len(w)) \in Seq(Task)
    BY <1>6, <2>1
  <2> QED
    BY <2>2, WaitingFacts
<1>10. LineOf(q) = Cons(t, Cons(u, rest))
  <2>1. PICK h \in Task : Holders(q) = {h} /\ LineOf(q) = Cons(h, InOrder(w, pc))
    BY <1>2, LineFacts DEF LineIs
  <2>2. h = t
    BY <2>1 DEF Holders
  <2> QED
    BY <1>8, <2>1, <2>2
<1>11. LineOf(q)' = Cons(u, rest)
  <2>1. u \in Holders(q)'
    BY <1>3, <1>5 DEF Holders, Holding
  <2>2. entries'[q] = e
    BY <1>1, <1>2
  <2>3. LineOf(q)' = Cons(u, InOrder(waiters'[e], pc'))
    BY <1>2, <1>3, <1>7, <2>1, <2>2, LineNext
  <2> QED
    BY <1>6, <2>3
<1>12. 1 \in 1 .. Len(LineOf(q)) /\ LineOf(q)' = RemoveAt(LineOf(q), 1)
  <2> DEFINE line == Cons(u, rest)
  <2>1. line \in Seq(Task) /\ Len(line) \in Nat
    <3> HIDE DEF u, rest
    <3>1. u \in Task /\ rest \in Seq(Task)
      BY <1>3, <1>9
    <3> QED
      BY <3>1, ConsFacts
  <2>2. LineOf(q) = Cons(t, line) /\ LineOf(q)' = line
    BY <1>10, <1>11
  <2> HIDE DEF line
  <2>3. RemoveAt(Cons(t, line), 1) = line
    BY <2>1, ConsRemove
  <2>4. Len(Cons(t, line)) = Len(line) + 1
    BY <2>1, ConsFacts
  <2> QED
    BY <2>1, <2>2, <2>3, <2>4
<1>13. OnlyLine(q)
  <2>1. ASSUME NEW p \in Queue \ {q} PROVE LineOf(p)' = LineOf(p)
    <3>1. entries[p] # None => waiters'[entries[p]] = waiters[entries[p]]
      <4>1. entries[p] # None => entries[p] \in Entry \ {e}
        BY <1>2 DEF Inv, TypeOK, EntriesInv
      <4> QED
        BY <1>6, <4>1
    <3>2. p # None /\ p # q /\ entries'[p] = entries[p]
      BY <1>1 DEF Queue
    <3>3. ASSUME NEW x \in Task
          PROVE  \/ pc'[x] = pc[x] /\ key'[x] = key[x]
                 \/ /\ key[x] # p /\ key'[x] # p
                    /\ pc[x] = "abandoned" => pc'[x] # "waiting"
      BY <1>4, <1>5, <3>2
    <3> QED
      BY <3>1, <3>2, <3>3, OtherLine
  <2> QED
    BY <2>1 DEF OnlyLine
<1> QED
  BY <1>12, <1>13 DEF Leaves
-------------------------------------------------------------------------------
(***************************************************************************)
(* The queue implements WaitingLine.                                       *)
(***************************************************************************)
LineChanges ==
    \/ SameLines
    \/ \E q \in Queue : \E t \in Task : Joins(q, t)
    \/ \E q \in Queue : \E i \in 1 .. Len(LineOf(q)) : Leaves(q, i)

LEMMA LineStep ==
    ASSUME Inv, [Next]_vars
    PROVE  LineChanges
<1>1. CASE UNCHANGED vars
  <2>1. \A q \in Queue : Holders(q)' = Holders(q)
    BY <1>1 DEF vars, Holders
  <2>2. \A q \in Queue : LineOf(q)' = LineOf(q)
    BY <1>1, <2>1 DEF vars, LineOf
  <2> QED
    BY <2>2 DEF LineChanges, SameLines
<1>2. ASSUME NEW t \in Task, Arrives(t) PROVE LineChanges
  BY <1>2, EntersJoins, QueuesJoins DEF Arrives, LineChanges
<1>3. ASSUME NEW t \in Task, Abandons(t) PROVE LineChanges
  BY <1>3, AbandonsLeaves DEF LineChanges
<1>4. ASSUME NEW t \in Task, pc[t] \in Holding, Release(t) PROVE LineChanges
  BY <1>4, LastReleaseLeaves, GrantingReleaseLeaves DEF LineChanges
<1>5. ASSUME NEW t \in Task, Wakes(t) PROVE LineChanges
  <2>1. CASE Resumes(t)
    BY <2>1, ResumesSame DEF LineChanges
  <2>2. CASE LeavesQueue(t) /\ pc[t] \in {"abandoned", "revoked"}
    <3>1. PICK i \in 1 .. Len(waiters[mine[t]]) : waiters[mine[t]][i] = t
      BY <2>2 DEF LeavesQueue, Place
    <3>2. pc[t] = "abandoned"
      BY <2>2, <3>1, AtWork, HolderNotQueued DEF Holding
    <3> QED
      BY <2>2, <3>2, DepartureSame DEF LineChanges
  <2>3. CASE pc[t] = "revoked" /\ Release(t)
    BY <1>4, <2>3 DEF Holding
  <2>4. CASE pc[t] = "abandoned" /\ JustLeaves(t)
    BY <2>4, DepartureSame DEF LineChanges
  <2> QED
    BY <1>5, <2>1, <2>2, <2>3, <2>4 DEF Wakes, Discards
<1>6. ASSUME NEW t \in Task, Finishes(t) PROVE LineChanges
  BY <1>4, <1>6 DEF Finishes, Holding
<1> QED
  BY <1>1, <1>2, <1>3, <1>5, <1>6 DEF Next

\* The operation queue of the sidecar is first come, first served: whatever
\* releases, timeouts, cancellations and dropped entries do, the holder of the
\* slot and those who still wait behind it are a line that newcomers join at
\* its end if there is room and in which nobody overtakes (acquire,
\* _release_locked and _discard_waiter implement WaitingLine).
THEOREM InLineHolds == Spec => InLine
<1> DEFINE lines == [q \in Queue |-> LineOf(q)]
<1>1. Init => Line!Init
  <2>1. SUFFICES ASSUME Init PROVE \A q \in Queue : LineOf(q) = <<>>
    BY DEF Line!Init
  <2>2. \A q \in Queue : entries[q] = None
    BY <2>1 DEF Init
  <2> QED
    BY <2>1, <2>2, InvInit, LineFacts DEF LineIs
<1>2. Inv /\ [Next]_vars => [Line!Next]_lines
  <2>1. SUFFICES ASSUME Inv, [Next]_vars PROVE Line!Next \/ lines' = lines
    OBVIOUS
  <2>2. LineChanges
    BY <2>1, LineStep
  <2>3. CASE SameLines
    BY <2>3 DEF SameLines
  <2> \A s, i : Line!RemoveAt(s, i) = RemoveAt(s, i)
    BY DEF Line!RemoveAt, RemoveAt
  <2> \A s : Line!Range(s) = Range(s)
    BY DEF Line!Range, Range
  <2>4. ASSUME NEW q \in Queue, NEW t \in Task, Joins(q, t)
        PROVE  Line!Join(q, t)
    <3>1. \A p \in Queue : lines[p] = LineOf(p) /\ t \notin Range(lines[p])
      BY <2>4 DEF Joins
    <3>2. Len(lines[q]) <= MaxQueueSize
      BY <2>4 DEF Joins
    <3>3. lines' = [lines EXCEPT ![q] = Append(@, t)]
      BY <2>4 DEF Joins, OnlyLine
    <3> QED
      BY <3>1, <3>2, <3>3, Zenon DEF Line!Join
  <2>5. ASSUME NEW q \in Queue, NEW i \in 1 .. Len(LineOf(q)), Leaves(q, i)
        PROVE  Line!Leave(q, i) /\ i \in 1 .. Len(lines[q])
    <3>1. lines' = [lines EXCEPT ![q] = RemoveAt(@, i)]
      BY <2>5 DEF Leaves, OnlyLine
    <3> QED
      BY <2>5, <3>1 DEF Line!Leave
  <2> QED
    BY <2>2, <2>3, <2>4, <2>5 DEF LineChanges, Line!Next
<1> QED
  BY <1>1, <1>2, Invariance, PTL DEF Spec, InLine, Line!Spec
===============================================================================
