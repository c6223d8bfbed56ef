------------------------------- MODULE QuotaProofs ------------------------------
(***************************************************************************)
(* Theorems about Quota, for any workers, limits and settings.             *)
(***************************************************************************)
EXTENDS Quota, FiniteSetTheorems, TLAPS

USE LimitsAssumption, TimesAssumption, BoundsAssumption

(***************************************************************************)
(* The invariant.  What the limits bound are rows; what a request looks at *)
(* is a snapshot.  They meet in a request that is not stale: nothing has   *)
(* been committed since its snapshot, so its counters are the current ones, *)
(* every row that may still count is in the snapshot, and if it was        *)
(* admitted there is still room for its own row.                           *)
(***************************************************************************)
Recent == {i \in Rows : log[i].at + DaysKept * Day >= now}

After(since) == {i \in Rows : log[i].at >= since}

HasRoom(t) ==
    /\ Cardinality(After(MinuteStart(t))) < RateLimit
    /\ DailyQuota > 0 => Cardinality(After(DayStart(t))) < DailyQuota

InMinute(t) == {i \in Admitted : t <= log[i].at /\ log[i].checked <= t + Minute}
InDay(t) == {i \in Admitted : DayStart(t) <= log[i].at /\ DayStart(log[i].checked) = DayStart(t)}

Within ==
    \A t \in Nat : /\ Cardinality(InMinute(t)) <= RateLimit
                   /\ DailyQuota > 0 => Cardinality(InDay(t)) <= DailyQuota

LogInv == CountersExact /\ Within /\ Recent \subseteq kept

SessionInv(s) ==
    /\ base[s].failure <= base[s].request
    /\ pc[s] = "idle" => tries[s] = 0
    /\ pc[s] # "idle" /\ ~ stale[s] => base[s] = counters /\ Recent \subseteq seen[s]
    /\ pc[s] = "checked" /\ ~ stale[s] /\ verdict[s] = "admitted" => HasRoom(checked[s])

Inv == TypeOK /\ LogInv /\ \A s \in Session : SessionInv(s)

(***************************************************************************)
(* Times and rows.                                                         *)
(***************************************************************************)
\* _gc_audit_logs keeps at least one day.
LEMMA KeepsADay == DaysKept * Day \in Nat /\ DaysKept * Day >= Day
<1>1. DaysKept \in Nat /\ DaysKept >= 1
  BY DEF DaysKept
<1>2. \A k, d \in Nat : k >= 1 => k * d \in Nat /\ k * d >= d
  OBVIOUS
<1> QED
  BY <1>1, <1>2

\* The rows _check_quota counts are no older than what is kept.
LEMMA PeriodsAreKept ==
    ASSUME NEW t \in Nat
    PROVE  /\ MinuteStart(t) \in Nat /\ MinuteStart(t) + DaysKept * Day >= t
           /\ DayStart(t) \in Nat /\ DayStart(t) + DaysKept * Day >= t
<1>1. t % Day \in 0 .. Day - 1 /\ t % Day <= t
  OBVIOUS
<1>2. MinuteStart(t) \in Nat /\ MinuteStart(t) + Day >= t
  BY DEF MinuteStart
<1>3. DayStart(t) \in Nat /\ DayStart(t) + Day >= t
  BY <1>1 DEF DayStart
<1> QED
  BY <1>2, <1>3, KeepsADay

\* A set of rows is finite.
LEMMA RowsAreFinite ==
    ASSUME TypeOK, NEW S \in SUBSET Rows
    PROVE  IsFiniteSet(S) /\ Cardinality(S) \in Nat
<1>1. Rows = 1 .. Len(log) /\ Len(log) \in Nat
  BY DEF TypeOK, Rows
<1>2. IsFiniteSet(1 .. Len(log))
  BY <1>1, FS_Interval
<1>3. IsFiniteSet(S)
  BY <1>1, <1>2, FS_Subset
<1> QED
  BY <1>3, FS_CardinalityType

\* A row is added at the end, if at all, and counts for one.
LEMMA OneMore ==
    ASSUME TypeOK, NEW S \in SUBSET Rows
    PROVE  Cardinality(S \cup {Len(log) + 1}) = Cardinality(S) + 1
<1>1. IsFiniteSet(S) /\ Cardinality(S) \in Nat
  BY RowsAreFinite
<1>2. Len(log) + 1 \notin S
  BY DEF TypeOK, Rows
<1> QED
  BY <1>1, <1>2, FS_AddElement

\* More rows are not fewer.
LEMMA FewerRows ==
    ASSUME TypeOK, NEW S \in SUBSET Rows, NEW T \in SUBSET S
    PROVE  Cardinality(T) <= Cardinality(S)
  BY RowsAreFinite, FS_Subset

\* What is in a row.
LEMMA RowIsARow ==
    ASSUME TypeOK, NEW i \in Rows
    PROVE  /\ log[i] \in Row /\ log[i].at \in Nat /\ log[i].checked \in Nat
<1>1. \A r \in Row : r.at \in Nat /\ r.checked \in Nat
  BY DEF Row
<1>2. log[i] \in Row
  BY DEF TypeOK, Rows
<1> QED
  BY <1>1, <1>2

(***************************************************************************)
(* The steps.                                                              *)
(***************************************************************************)
LEMMA InvInit ==
    ASSUME Init
    PROVE  Inv
<1>1. log \in Seq(Row) /\ Rows = {} /\ Len(log) = 0
  BY DEF Init, Rows
<1>2. TypeOK
  <2>1. now \in Nat /\ kept \subseteq DOMAIN log /\ counters \in [request : Nat, failure : Nat]
        /\ counters.failure <= counters.request
    BY <1>1 DEF Init, Rows
  <2>2. /\ pc \in [Session -> {"idle", "begun", "checked"}] /\ begun \in [Session -> Nat]
        /\ seen \in [Session -> SUBSET DOMAIN log]
        /\ base \in [Session -> [request : Nat, failure : Nat]]
    BY <2>1 DEF Init
  <2>3. /\ checked \in [Session -> Nat] /\ verdict \in [Session -> Verdicts]
        /\ stale \in [Session -> BOOLEAN] /\ tries \in [Session -> 0 .. MaxTries]
    BY DEF Init, Verdicts
  <2> QED
    BY <1>1, <2>1, <2>2, <2>3 DEF TypeOK
<1>3. LogInv
  <2>1. Cardinality({}) = 0
    BY FS_EmptySet
  <2>2. CountersExact
    <3>1. {i \in Rows : log[i].outcome # "success"} = {}
      BY <1>1
    <3> QED
      BY <1>1, <2>1, <3>1 DEF Init, CountersExact
  <2>3. Within
    <3>1. ASSUME NEW t \in Nat
          PROVE  InMinute(t) = {} /\ InDay(t) = {}
      BY <1>1 DEF InMinute, InDay, Admitted
    <3> QED
      BY <2>1, <3>1 DEF Within
  <2>4. Recent \subseteq kept
    BY <1>1 DEF Recent
  <2> QED
    BY <2>2, <2>3, <2>4 DEF LogInv
<1>4. ASSUME NEW s \in Session
      PROVE  SessionInv(s)
  BY DEF Init, SessionInv
<1> QED
  BY <1>2, <1>3, <1>4 DEF Inv

\* As long as nothing is committed, the limits and the counters hold.
LEMMA LogKeeps ==
    ASSUME LogInv, UNCHANGED <<log, counters>>, Recent' \subseteq kept'
    PROVE  LogInv'
<1>1. CountersExact'
  BY DEF LogInv, CountersExact, Rows
<1>2. Within'
  BY DEF LogInv, Within, InMinute, InDay, Admitted, Rows
<1> QED
  BY <1>1, <1>2 DEF LogInv

\* What a step of another session, of the clock or of the clean-up leaves of
\* what a session knows.
LEMMA OthersKeep ==
    ASSUME TypeOK, NEW s \in Session, SessionInv(s),
           pc'[s] = pc[s], base'[s] = base[s], seen'[s] = seen[s], tries'[s] = tries[s],
           checked'[s] = checked[s], verdict'[s] = verdict[s], stale[s] => stale'[s],
           now' \in Nat, now' >= now,
           \/ pc[s] = "idle" \/ stale'[s]
           \/ UNCHANGED <<log, counters>>
    PROVE  SessionInv(s)'
<1>1. CASE pc[s] = "idle" \/ stale'[s]
  BY <1>1 DEF SessionInv
<1>2. CASE UNCHANGED <<log, counters>>
  <2>1. Recent' \subseteq Recent
    <3>1. ASSUME NEW i \in Rows, log[i].at + DaysKept * Day >= now'
          PROVE  log[i].at + DaysKept * Day >= now
      <4>1. log[i].at \in Nat /\ now \in Nat
        BY RowIsARow DEF TypeOK
      <4> QED
        BY <3>1, <4>1, KeepsADay
    <3> QED
      BY <1>2, <3>1 DEF Recent, Rows
  <2>2. HasRoom(checked[s])' <=> HasRoom(checked[s])
    BY <1>2 DEF HasRoom, After, Rows
  <2> QED
    BY <1>2, <2>1, <2>2 DEF SessionInv
<1> QED
  BY <1>1, <1>2

\* A transaction starts: its snapshot is what is committed.
LEMMA StartsKeeps ==
    ASSUME Inv, NEW s \in Session, Starts(s), tries[s] < MaxTries
    PROVE  Inv'
<1>1. TypeOK'
  <2>1. /\ pc' \in [Session -> {"idle", "begun", "checked"}] /\ begun' \in [Session -> Nat]
        /\ seen' \in [Session -> SUBSET DOMAIN log']
        /\ base' \in [Session -> [request : Nat, failure : Nat]]
    BY DEF Inv, TypeOK, Starts
  <2>2. stale' \in [Session -> BOOLEAN] /\ tries' \in [Session -> 0 .. MaxTries]
    BY DEF Inv, TypeOK, Starts
  <2> QED
    BY <2>1, <2>2 DEF Inv, TypeOK, Starts
<1>2. LogInv'
  <2>1. Recent' \subseteq kept'
    BY DEF Inv, LogInv, Recent, Rows, Starts
  <2> QED
    BY <2>1, LogKeeps DEF Inv, Starts
<1>3. SessionInv(s)'
  <2>1. /\ pc'[s] = "begun" /\ base'[s] = counters /\ seen'[s] = kept
        /\ UNCHANGED <<counters, kept, log, now>>
    BY DEF Inv, TypeOK, Starts
  <2>2. Recent' \subseteq kept
    BY <2>1 DEF Inv, LogInv, Recent, Rows
  <2> QED
    BY <2>1, <2>2 DEF Inv, TypeOK, SessionInv
<1>4. ASSUME NEW t \in Session, t # s
      PROVE  SessionInv(t)'
  <2>1. /\ pc'[t] = pc[t] /\ base'[t] = base[t] /\ seen'[t] = seen[t] /\ tries'[t] = tries[t]
        /\ checked'[t] = checked[t] /\ verdict'[t] = verdict[t] /\ stale'[t] = stale[t]
    BY <1>4 DEF Inv, TypeOK, Starts
  <2>2. UNCHANGED <<log, counters, now>> /\ now \in Nat
    BY DEF Inv, TypeOK, Starts
  <2> QED
    BY <2>1, <2>2, OthersKeep DEF Inv
<1> QED
  BY <1>1, <1>2, <1>3, <1>4 DEF Inv

\* A request ends without a commit.
LEMMA EndsKeeps ==
    ASSUME Inv, NEW s \in Session, Ends(s),
           stale' = [stale EXCEPT ![s] = FALSE], UNCHANGED <<now, log, kept, counters>>
    PROVE  Inv'
<1>1. TypeOK'
  <2>1. /\ pc' \in [Session -> {"idle", "begun", "checked"}] /\ begun' \in [Session -> Nat]
        /\ seen' \in [Session -> SUBSET DOMAIN log']
        /\ base' \in [Session -> [request : Nat, failure : Nat]]
    BY DEF Inv, TypeOK, Ends
  <2>2. /\ checked' \in [Session -> Nat] /\ verdict' \in [Session -> Verdicts]
        /\ stale' \in [Session -> BOOLEAN] /\ tries' \in [Session -> 0 .. MaxTries]
    BY DEF Inv, TypeOK, Ends, Verdicts
  <2> QED
    BY <2>1, <2>2 DEF Inv, TypeOK
<1>2. LogInv'
  <2>1. Recent' \subseteq kept'
    BY DEF Inv, LogInv, Recent, Rows
  <2> QED
    BY <2>1, LogKeeps DEF Inv
<1>3. SessionInv(s)'
  <2>1. pc'[s] = "idle" /\ tries'[s] = 0 /\ base'[s] = [request |-> 0, failure |-> 0]
    BY DEF Inv, TypeOK, Ends
  <2> QED
    BY <2>1 DEF SessionInv
<1>4. ASSUME NEW t \in Session, t # s
      PROVE  SessionInv(t)'
  <2>1. /\ pc'[t] = pc[t] /\ base'[t] = base[t] /\ seen'[t] = seen[t] /\ tries'[t] = tries[t]
        /\ checked'[t] = checked[t] /\ verdict'[t] = verdict[t] /\ stale'[t] = stale[t]
    BY <1>4 DEF Inv, TypeOK, Ends
  <2>2. now' \in Nat /\ now' >= now
    BY DEF Inv, TypeOK
  <2> QED
    BY <2>1, <2>2, OthersKeep DEF Inv
<1> QED
  BY <1>1, <1>2, <1>3, <1>4 DEF Inv

\* _check_quota: with what it sees it knows of every row that counts, if
\* nothing has been committed since.
LEMMA ChecksKeeps ==
    ASSUME Inv, NEW s \in Session, Checks(s)
    PROVE  Inv'
<1>1. TypeOK'
  <2>1. QuotaError(s) \in Verdicts
    BY DEF QuotaError, Verdicts
  <2> QED
    BY <2>1 DEF Inv, TypeOK, Checks
<1>2. LogInv'
  <2>1. Recent' \subseteq kept'
    BY DEF Inv, LogInv, Recent, Rows, Checks
  <2> QED
    BY <2>1, LogKeeps DEF Inv, Checks
<1>3. SessionInv(s)'
  <2>1. /\ pc[s] = "begun" /\ pc'[s] = "checked" /\ checked'[s] = now
        /\ verdict'[s] = QuotaError(s)
        /\ base'[s] = base[s] /\ seen'[s] = seen[s] /\ tries'[s] = tries[s]
        /\ stale'[s] = stale[s] /\ UNCHANGED <<log, counters, now>>
    BY DEF Inv, TypeOK, Checks
  <2>2. ASSUME ~ stale[s], QuotaError(s) = "admitted"
        PROVE  HasRoom(now)
    <3>1. Recent \subseteq seen[s] /\ seen[s] \subseteq Rows /\ now \in Nat
      BY <2>1, <2>2 DEF Inv, TypeOK, SessionInv, Rows
    <3>2. ASSUME NEW since \in Nat, since + DaysKept * Day >= now
          PROVE  Cardinality(After(since)) <= Counted(s, since)
      <4>1. ASSUME NEW i \in After(since)
            PROVE  i \in Recent
        <5>1. i \in Rows /\ log[i].at >= since /\ log[i].at \in Nat
          BY <4>1, RowIsARow DEF After, Inv
        <5> QED
          BY <5>1, <3>1, <3>2, KeepsADay DEF Recent
      <4>2. After(since) \subseteq {i \in seen[s] : log[i].at >= since}
        BY <4>1, <3>1 DEF After
      <4>3. {i \in seen[s] : log[i].at >= since} \subseteq Rows
        BY <3>1
      <4> QED
        BY <4>2, <4>3, FewerRows DEF Inv, Counted
    <3>3. ASSUME NEW since \in Nat
          PROVE  Counted(s, since) \in Nat /\ Cardinality(After(since)) \in Nat
      <4>1. {i \in seen[s] : log[i].at >= since} \subseteq Rows /\ After(since) \subseteq Rows
        BY <3>1 DEF After
      <4> QED
        BY <4>1, RowsAreFinite DEF Inv, Counted
    <3>4. Counted(s, MinuteStart(now)) < RateLimit
      BY <2>2, <3>1, <3>3, PeriodsAreKept DEF QuotaError
    <3>5. DailyQuota > 0 => Counted(s, DayStart(now)) < DailyQuota
      BY <2>2, <3>1, <3>3, PeriodsAreKept DEF QuotaError
    <3>6. /\ Cardinality(After(MinuteStart(now))) <= Counted(s, MinuteStart(now))
          /\ Cardinality(After(DayStart(now))) <= Counted(s, DayStart(now))
      BY <3>1, <3>2, PeriodsAreKept
    <3>7. /\ Cardinality(After(MinuteStart(now))) \in Nat /\ Counted(s, MinuteStart(now)) \in Nat
          /\ Cardinality(After(DayStart(now))) \in Nat /\ Counted(s, DayStart(now)) \in Nat
      BY <3>1, <3>3, PeriodsAreKept
    <3> QED
      BY <3>4, <3>5, <3>6, <3>7 DEF HasRoom
  <2>3. Recent' = Recent
    BY <2>1 DEF Recent, Rows
  <2>4. HasRoom(checked[s])' <=> HasRoom(now)
    BY <2>1 DEF HasRoom, After, Rows
  <2> QED
    BY <2>1, <2>2, <2>3, <2>4 DEF SessionInv, Inv
<1>4. ASSUME NEW t \in Session, t # s
      PROVE  SessionInv(t)'
  <2>1. /\ pc'[t] = pc[t] /\ base'[t] = base[t] /\ seen'[t] = seen[t] /\ tries'[t] = tries[t]
        /\ checked'[t] = checked[t] /\ verdict'[t] = verdict[t] /\ stale'[t] = stale[t]
    BY <1>4 DEF Inv, TypeOK, Checks
  <2>2. UNCHANGED <<log, counters>> /\ now' \in Nat /\ now' >= now
    BY DEF Inv, TypeOK, Checks
  <2> QED
    BY <2>1, <2>2, OthersKeep DEF Inv
<1> QED
  BY <1>1, <1>2, <1>3, <1>4 DEF Inv

\* A commit: the row that is added was counted by nobody who may still commit,
\* and there was room for it.
LEMMA CommitKeepsLog ==
    ASSUME Inv, NEW s \in Session, NEW outcome, Commits(s, outcome)
    PROVE  LogInv'
<1> DEFINE new == Len(log) + 1
           row == [at |-> begun[s], checked |-> checked[s],
                   verdict |-> verdict[s], outcome |-> outcome]
<1>1. /\ pc[s] = "checked" /\ ~ stale[s] /\ log' = Append(log, row) /\ kept' = kept \cup {new}
      /\ now' = now /\ counters' = RecordUse(s, outcome)
  BY DEF Commits, Committable
<1>2. base[s] = counters /\ TypeOK /\ LogInv
  BY <1>1 DEF Inv, SessionInv
<1>3. /\ Rows' = Rows \cup {new} /\ Len(log') = new /\ new \notin Rows /\ Len(log) \in Nat
      /\ log'[new] = row /\ \A i \in Rows : log'[i] = log[i]
  BY <1>1, <1>2 DEF TypeOK, Rows
<1>4. CountersExact'
  <2> DEFINE failed == {i \in Rows : log[i].outcome # "success"}
  <2>1. counters.request = Len(log) /\ counters.failure = Cardinality(failed)
    BY <1>2 DEF LogInv, CountersExact
  <2>2. counters'.request = Len(log')
    BY <1>1, <1>2, <1>3, <2>1 DEF RecordUse
  <2>3. CASE outcome = "success"
    <3>1. {i \in Rows : log[i].outcome # "success"}' = failed
      BY <1>3, <2>3
    <3>2. counters'.failure = counters.failure
      BY <1>1, <1>2, <2>3 DEF RecordUse, TypeOK
    <3> QED
      BY <2>1, <2>2, <3>1, <3>2 DEF CountersExact
  <2>4. CASE outcome # "success"
    <3>1. {i \in Rows : log[i].outcome # "success"}' = failed \cup {new}
      BY <1>3, <2>4
    <3>2. counters'.failure = counters.failure + 1
      BY <1>1, <1>2, <2>4 DEF RecordUse
    <3>3. Cardinality(failed \cup {new}) = Cardinality(failed) + 1
      BY <1>2, OneMore
    <3> QED
      BY <2>1, <2>2, <3>1, <3>2, <3>3 DEF CountersExact
  <2> QED
    BY <2>3, <2>4
<1>5. ASSUME NEW t \in Nat
      PROVE  Cardinality(InMinute(t)') <= RateLimit
  <2>1. Cardinality(InMinute(t)) <= RateLimit /\ InMinute(t) \subseteq Rows
    BY <1>2 DEF LogInv, Within, InMinute, Admitted
  <2>2. CASE /\ verdict[s] = "admitted" /\ t <= begun[s] /\ checked[s] <= t + Minute
    <3>1. InMinute(t)' = InMinute(t) \cup {new}
      BY <1>3, <2>2 DEF InMinute, Admitted
    <3>2. Cardinality(InMinute(t)') = Cardinality(InMinute(t)) + 1
      BY <1>2, <2>1, <3>1, OneMore
    <3>3. checked[s] \in Nat /\ MinuteStart(checked[s]) <= t /\ MinuteStart(checked[s]) \in Nat
      BY <1>2, <2>2 DEF TypeOK, MinuteStart
    <3>4. InMinute(t) \subseteq After(MinuteStart(checked[s]))
      <4>1. ASSUME NEW i \in InMinute(t)
            PROVE  i \in Rows /\ log[i].at >= MinuteStart(checked[s])
        <5>1. i \in Rows /\ t <= log[i].at
          BY DEF InMinute, Admitted
        <5>2. log[i].at \in Nat
          BY <1>2, <5>1, RowIsARow
        <5> QED
          BY <3>3, <5>1, <5>2
      <4> QED
        BY <4>1 DEF After
    <3>5. Cardinality(After(MinuteStart(checked[s]))) < RateLimit
      BY <1>1, <2>2 DEF Inv, SessionInv, HasRoom
    <3>6. /\ Cardinality(InMinute(t)) \in Nat
          /\ Cardinality(After(MinuteStart(checked[s]))) \in Nat
          /\ Cardinality(InMinute(t)) <= Cardinality(After(MinuteStart(checked[s])))
      BY <1>2, <2>1, <3>4, RowsAreFinite, FewerRows DEF After
    <3> QED
      BY <3>2, <3>5, <3>6
  <2>3. CASE ~ (verdict[s] = "admitted" /\ t <= begun[s] /\ checked[s] <= t + Minute)
    <3>1. InMinute(t)' = InMinute(t)
      BY <1>3, <2>3 DEF InMinute, Admitted
    <3> QED
      BY <2>1, <3>1
  <2> QED
    BY <2>2, <2>3
<1>6. ASSUME NEW t \in Nat, DailyQuota > 0
      PROVE  Cardinality(InDay(t)') <= DailyQuota
  <2>1. Cardinality(InDay(t)) <= DailyQuota /\ InDay(t) \subseteq Rows
    BY <1>2, <1>6 DEF LogInv, Within, InDay, Admitted
  <2>2. CASE /\ verdict[s] = "admitted" /\ DayStart(t) <= begun[s]
             /\ DayStart(checked[s]) = DayStart(t)
    <3>1. InDay(t)' = InDay(t) \cup {new}
      BY <1>3, <2>2 DEF InDay, Admitted
    <3>2. Cardinality(InDay(t)') = Cardinality(InDay(t)) + 1
      BY <1>2, <2>1, <3>1, OneMore
    <3>3. InDay(t) \subseteq After(DayStart(checked[s]))
      BY <2>2 DEF InDay, Admitted, After
    <3>4. Cardinality(After(DayStart(checked[s]))) < DailyQuota
      BY <1>1, <1>6, <2>2 DEF Inv, SessionInv, HasRoom
    <3>5. /\ Cardinality(InDay(t)) \in Nat
          /\ Cardinality(After(DayStart(checked[s]))) \in Nat
          /\ Cardinality(InDay(t)) <= Cardinality(After(DayStart(checked[s])))
      BY <1>2, <2>1, <3>3, RowsAreFinite, FewerRows DEF After
    <3> QED
      BY <3>2, <3>4, <3>5
  <2>3. CASE ~ (/\ verdict[s] = "admitted" /\ DayStart(t) <= begun[s]
                /\ DayStart(checked[s]) = DayStart(t))
    <3>1. InDay(t)' = InDay(t)
      BY <1>3, <2>3 DEF InDay, Admitted
    <3> QED
      BY <2>1, <3>1
  <2> QED
    BY <2>2, <2>3
<1>7. Recent' \subseteq kept'
  BY <1>1, <1>2, <1>3 DEF LogInv, Recent
<1> QED
  BY <1>4, <1>5, <1>6, <1>7 DEF LogInv, Within

LEMMA CommitsKeeps ==
    ASSUME Inv, NEW s \in Session, NEW outcome, Commits(s, outcome)
    PROVE  Inv'
<1>1. /\ pc[s] = "checked" /\ ~ stale[s] /\ outcome \in Outcome
      /\ now' = now /\ counters' = RecordUse(s, outcome)
      /\ base[s] = counters /\ TypeOK
  BY DEF Commits, Committable, Outcomes, Outcome, Inv, SessionInv
<1>2. TypeOK'
  <2>1. log' \in Seq(Row) /\ kept' \subseteq DOMAIN log' /\ DOMAIN log \subseteq DOMAIN log'
    <3>1. [at |-> begun[s], checked |-> checked[s],
           verdict |-> verdict[s], outcome |-> outcome] \in Row
      BY <1>1 DEF TypeOK, Row
    <3> QED
      BY <1>1, <3>1 DEF Commits, TypeOK
  <2>2. counters' \in [request : Nat, failure : Nat] /\ counters'.failure <= counters'.request
    BY <1>1 DEF RecordUse, TypeOK
  <2>3. /\ pc' \in [Session -> {"idle", "begun", "checked"}] /\ begun' \in [Session -> Nat]
        /\ seen' \in [Session -> SUBSET DOMAIN log]
        /\ base' \in [Session -> [request : Nat, failure : Nat]]
    BY <1>1 DEF TypeOK, Commits, Ends
  <2>4. /\ checked' \in [Session -> Nat] /\ verdict' \in [Session -> Verdicts]
        /\ stale' \in [Session -> BOOLEAN] /\ tries' \in [Session -> 0 .. MaxTries]
    BY <1>1 DEF TypeOK, Commits, Ends, Verdicts
  <2>5. seen' \in [Session -> SUBSET DOMAIN log']
    BY <2>1, <2>3
  <2> QED
    BY <1>1, <2>1, <2>2, <2>3, <2>4, <2>5 DEF TypeOK
<1>3. LogInv'
  BY CommitKeepsLog
<1>4. SessionInv(s)'
  <2>1. pc'[s] = "idle" /\ tries'[s] = 0 /\ base'[s] = [request |-> 0, failure |-> 0]
    BY <1>1 DEF TypeOK, Commits, Ends
  <2> QED
    BY <2>1 DEF SessionInv
<1>5. ASSUME NEW t \in Session, t # s
      PROVE  SessionInv(t)'
  <2>1. /\ pc'[t] = pc[t] /\ base'[t] = base[t] /\ tries'[t] = tries[t]
        /\ stale'[t] = (pc[t] # "idle")
    BY <1>1, <1>5 DEF TypeOK, Commits, Ends
  <2> QED
    BY <2>1 DEF Inv, SessionInv
<1> QED
  BY <1>2, <1>3, <1>4, <1>5 DEF Inv

LEMMA ConflictsKeeps ==
    ASSUME Inv, NEW s \in Session, Conflicts(s)
    PROVE  Inv'
<1>1. CASE tries[s] < MaxTries /\ Starts(s)
  BY <1>1, StartsKeeps
<1>2. CASE ~ (tries[s] < MaxTries /\ Starts(s))
  BY <1>2, EndsKeeps DEF Conflicts
<1> QED
  BY <1>1, <1>2

LEMMA ArrivesKeeps ==
    ASSUME Inv, NEW s \in Session, Arrives(s)
    PROVE  Inv'
<1>1. Starts(s) /\ tries[s] < MaxTries
  BY DEF Arrives, Inv, SessionInv
<1> QED
  BY <1>1, StartsKeeps

\* An event, the clean-up and the clock: nobody's counters or rows change.
LEMMA EnvironmentKeeps ==
    ASSUME Inv, Publishes \/ Cleans \/ Ticks
    PROVE  Inv'
<1>1. /\ UNCHANGED <<log, counters, pc, begun, seen, base, checked, verdict, tries>>
      /\ now' \in Nat /\ now' >= now /\ now \in Nat
  BY DEF Publishes, Cleans, Ticks, Inv, TypeOK
<1>2. kept' \subseteq kept /\ stale' \in [Session -> BOOLEAN]
  BY DEF Publishes, Cleans, Ticks, Inv, TypeOK
<1>3. TypeOK'
  BY <1>1, <1>2 DEF Inv, TypeOK
<1>4. Recent' \subseteq kept'
  <2>1. CASE Publishes
    BY <2>1 DEF Inv, LogInv, Recent, Rows, Publishes
  <2>2. CASE Cleans
    BY <2>2 DEF Inv, LogInv, Recent, Rows, Cleans
  <2>3. CASE Ticks
    <3>1. ASSUME NEW i \in Rows, log[i].at + DaysKept * Day >= now'
          PROVE  i \in kept
      <4>1. log[i].at \in Nat
        BY RowIsARow DEF Inv
      <4>2. i \in Recent
        BY <1>1, <3>1, <4>1, KeepsADay DEF Recent
      <4> QED
        BY <4>2 DEF Inv, LogInv
    <3> QED
      BY <2>3, <3>1 DEF Recent, Rows, Ticks
  <2> QED
    BY <2>1, <2>2, <2>3
<1>5. LogInv'
  BY <1>1, <1>4, LogKeeps DEF Inv
<1>6. ASSUME NEW s \in Session
      PROVE  SessionInv(s)'
  <2>1. stale[s] => stale'[s] \/ pc[s] = "idle"
    BY DEF Publishes, Cleans, Ticks
  <2>2. CASE pc[s] = "idle"
    BY <1>1, <2>2 DEF Inv, SessionInv
  <2>3. CASE pc[s] # "idle"
    BY <1>1, <2>1, <2>3, OthersKeep DEF Inv
  <2> QED
    BY <2>2, <2>3
<1> QED
  BY <1>3, <1>5, <1>6 DEF Inv

LEMMA InvStep ==
    ASSUME Inv, [Next]_vars
    PROVE  Inv'
<1>1. ASSUME NEW s \in Session, Serves(s)
      PROVE  Inv'
  <2>1. CASE Arrives(s)
    BY <2>1, ArrivesKeeps
  <2>2. CASE Checks(s)
    BY <2>2, ChecksKeeps
  <2>3. CASE \E outcome \in Outcomes(s) : Commits(s, outcome)
    BY <2>3, CommitsKeeps
  <2>4. CASE Conflicts(s)
    BY <2>4, ConflictsKeeps
  <2>5. CASE Crashes(s)
    BY <2>5, EndsKeeps DEF Crashes
  <2> QED
    BY <1>1, <2>1, <2>2, <2>3, <2>4, <2>5 DEF Serves
<1>2. CASE Publishes \/ Cleans \/ Ticks
  BY <1>2, EnvironmentKeeps
<1>3. CASE UNCHANGED vars
  <2>1. TypeOK'
    BY <1>3 DEF Inv, TypeOK, vars
  <2>2. LogInv'
    <3>1. Recent' \subseteq kept'
      BY <1>3 DEF Inv, LogInv, Recent, Rows, vars
    <3> QED
      BY <1>3, <3>1, LogKeeps DEF Inv, vars
  <2>3. ASSUME NEW s \in Session
        PROVE  SessionInv(s)'
    <3>1. /\ UNCHANGED <<log, counters, pc, base, seen, tries, checked, verdict, stale>>
          /\ now' \in Nat /\ now' >= now
      BY <1>3 DEF Inv, TypeOK, vars
    <3> QED
      BY <3>1, OthersKeep DEF Inv
  <2> QED
    BY <2>1, <2>2, <2>3 DEF Inv
<1> QED
  BY <1>1, <1>2, <1>3 DEF Next

(***************************************************************************)
(* The theorems.                                                           *)
(***************************************************************************)
\* Every reachable state satisfies the invariant.
THEOREM Invariance == Spec => []Inv
<1>1. Init => Inv
  BY InvInit
<1>2. Inv /\ [Next]_vars => Inv'
  BY InvStep
<1> QED
  BY <1>1, <1>2, PTL DEF Spec

\* Every variable keeps to its type, and no more requests fail than are made.
THEOREM TypeCorrect == Spec => []TypeOK
<1>1. Inv => TypeOK
  BY DEF Inv
<1> QED
  BY <1>1, Invariance, PTL

\* _check_quota bounds the admitted requests of any minute by
\* rate_limit_per_minute, however many workers serve the user.
THEOREM RateLimitedHolds == Spec => []RateLimited
<1>1. Inv => RateLimited
  <2>1. ASSUME Inv, NEW t \in 0 .. now
        PROVE  Cardinality({i \in Admitted : t <= log[i].at /\ log[i].checked <= t + Minute})
                   <= RateLimit
    <3>1. t \in Nat
      BY <2>1 DEF Inv, TypeOK
    <3> QED
      BY <2>1, <3>1 DEF Inv, LogInv, Within, InMinute
  <2> QED
    BY <2>1 DEF RateLimited
<1> QED
  BY <1>1, Invariance, PTL

\* The same for the days of the calendar and daily_quota.
THEOREM DailyLimitedHolds == Spec => []DailyLimited
<1>1. Inv => DailyLimited
  <2>1. ASSUME Inv, DailyQuota > 0, NEW t \in 0 .. now
        PROVE  Cardinality({i \in Admitted : DayStart(t) <= log[i].at
                                             /\ DayStart(log[i].checked) = DayStart(t)})
                   <= DailyQuota
    <3>1. t \in Nat
      BY <2>1 DEF Inv, TypeOK
    <3> QED
      BY <2>1, <3>1 DEF Inv, LogInv, Within, InDay
  <2> QED
    BY <2>1 DEF DailyLimited
<1> QED
  BY <1>1, Invariance, PTL

\* _record_use neither loses an increment nor makes one twice.
THEOREM CountersExactHolds == Spec => []CountersExact
<1>1. Inv => CountersExact
  BY DEF Inv, LogInv
<1> QED
  BY <1>1, Invariance, PTL

\* _gc_audit_logs removes no row that _check_quota counts.
THEOREM CountedRowsKeptHolds == Spec => []CountedRowsKept
<1>1. ASSUME Inv, NEW i \in Rows, log[i].at >= MinuteStart(now) \/ log[i].at >= DayStart(now)
      PROVE  i \in kept
  <2>1. now \in Nat /\ log[i].at \in Nat
    BY <1>1, RowIsARow DEF Inv, TypeOK
  <2>2. log[i].at + DaysKept * Day >= now
    BY <1>1, <2>1, PeriodsAreKept, KeepsADay
  <2> QED
    BY <1>1, <2>2 DEF Inv, LogInv, Recent
<1>2. Inv => CountedRowsKept
  BY <1>1 DEF CountedRowsKept
<1> QED
  BY <1>2, Invariance, PTL
================================================================================
