-------------------------- MODULE ChangeControlProofs --------------------------
(***************************************************************************)
(* Theorems about ChangeControl, for every number of callers, managers,    *)
(* clean-up jobs and keys, any payloads, lifetimes, clock and bounds.      *)
(***************************************************************************)
EXTENDS ChangeControl, FiniteSetTheorems, TLAPS

USE SessionAssumption, RowAssumption, PayloadAssumption, TimeAssumption

(***************************************************************************)
(* Types.                                                                  *)
(***************************************************************************)
\* The request of a session that is at work is a proper one.
LEMMA RequestType ==
    ASSUME TypeOK, NEW s \in Session, pc[s] # "idle"
    PROVE  req[s] \in Request /\ req[s].key \in Key
BY DEF TypeOK, Requests, Request, CallerRequest, ManagerRequest, CleanupRequest

LEMMA NoPlanType == NoPlan \in PlanRow /\ NoView \in [Key -> PlanRow]
BY DEF NoPlan, NoView, PlanRow, State

\* Undoing a transaction onto a well-typed snapshot keeps the types.
LEMMA UndoType ==
    ASSUME TypeOK, NEW s \in Session, NEW snapshot \in [Key -> PlanRow],
           Undo(s, snapshot)
    PROVE  /\ owner' \in [Row -> Session \cup {Nobody}]
           /\ view' \in [Session -> [Key -> PlanRow]]
           /\ dirty' \in [Session -> SUBSET Key]
           /\ ver' \in [Session -> Nat]
           /\ sent' \in [Session -> [Key -> Nat]]
           /\ acted' \in [Session -> BOOLEAN]
BY DEF TypeOK, Undo, Unlocked, Nothing

LEMMA SystemWriteType ==
    ASSUME TypeOK, NEW s \in Session, NEW k \in Key, NEW row \in PlanRow,
           SystemWrite(s, k, row)
    PROVE  /\ owner' \in [Row -> Session \cup {Nobody}]
           /\ view' \in [Session -> [Key -> PlanRow]]
           /\ dirty' \in [Session -> SUBSET Key]
           /\ ver' \in [Session -> Nat]
           /\ sent' \in [Session -> [Key -> Nat]]
BY DEF TypeOK, SystemWrite, Version, Locked

LEMMA RollbackType ==
    ASSUME TypeOK, NEW s \in Session, Rollback(s)
    PROVE  TypeOK'
<1>1. Undo(s, NoView)
  BY DEF Rollback
<1> QED
  BY <1>1, UndoType, NoPlanType DEF TypeOK, Rollback, rowVars

LEMMA SavepointRollbackType ==
    ASSUME TypeOK, NEW s \in Session, NEW outcome \in {"refused", "failed"},
           pc[s] # "idle", SavepointRollback(s, outcome)
    PROVE  TypeOK'
<1>1. Undo(s, NoView)
  BY DEF SavepointRollback
<1> QED
  BY <1>1, UndoType, NoPlanType DEF TypeOK, SavepointRollback, rowVars

\* A step that only answers.
LEMMA AnswerType ==
    ASSUME TypeOK, NEW s \in Session, pc[s] # "idle", AnswerUnchanged(s)
    PROVE  TypeOK'
BY DEF TypeOK, AnswerUnchanged, Goto, rowVars, txVars

LEMMA LockPlanType ==
    ASSUME TypeOK, NEW s \in Session, pc[s] # "idle", LockPlan(s)
    PROVE  TypeOK'
BY RequestType DEF TypeOK, LockPlan, Goto, Locked, rowVars, txVars

\* A step that writes a row, sends its event and goes on.
LEMMA WriteType ==
    ASSUME TypeOK, NEW s \in Session, pc[s] # "idle", NEW k \in Key,
           NEW row \in PlanRow, NEW next \in {"flush", "executing", "answered"},
           SystemWrite(s, k, row), Goto(s, next), UNCHANGED acted
    PROVE  TypeOK'
<1>1. UNCHANGED <<now, rowVars, req, tries, stale>>
  BY DEF SystemWrite
<1> QED
  BY <1>1, SystemWriteType DEF TypeOK, Goto, rowVars

LEMMA BeginType ==
    ASSUME TypeOK, NEW s \in Session, Arrives(s)
    PROVE  TypeOK'
<1>1. PICK r \in Requests(s) : Begin(s, r)
  BY DEF Arrives
<1>2. r \in Request
  BY <1>1 DEF Requests, Request
<1> QED
  BY <1>1, <1>2 DEF TypeOK, Begin, rowVars

LEMMA PreviewType ==
    ASSUME TypeOK, NEW s \in Session, Preview(s)
    PROVE  TypeOK'
<1>1. CASE PreviewReplays(s)
  BY <1>1, AnswerType DEF PreviewReplays, Serves
<1>2. CASE PreviewCreates(s)
  <2>1. pc[s] # "idle" /\ req[s].op = "preview"
    BY <1>2 DEF PreviewCreates, Serves
  <2>2. req[s].key \in Key /\ req[s].payload \in Payload
    BY <2>1 DEF TypeOK, Requests, CallerRequest, ManagerRequest, CleanupRequest
  <2>3. NewPlan(req[s].payload) \in PlanRow
    BY <2>2 DEF NewPlan, PlanRow, State, TypeOK
  <2> QED
    BY <1>2, <2>1, <2>2, <2>3 DEF TypeOK, PreviewCreates, Goto, Locked, rowVars
<1> QED
  BY <1>1, <1>2 DEF Preview

LEMMA RowType ==
    ASSUME NEW row \in PlanRow, NEW st \in State
    PROVE  /\ [row EXCEPT !.state = st] \in PlanRow
           /\ [row EXCEPT !.state = "approved", !.approvedBy = "manager"] \in PlanRow
BY DEF PlanRow, State

LEMMA ExpireType == \A row \in PlanRow : Expire(row) \in PlanRow
BY DEF PlanRow, State, Expire

LEMMA MineType ==
    ASSUME TypeOK, NEW s \in Session, pc[s] # "idle"
    PROVE  Mine(s) \in PlanRow /\ Mine(s) = view[s][req[s].key]
BY RequestType DEF TypeOK, Mine

LEMMA StatusType ==
    ASSUME TypeOK, NEW s \in Session, Status(s)
    PROVE  TypeOK'
<1>0. pc[s] # "idle"
  BY DEF Status, StatusReads, StatusExpires, StatusFlushes, Serves
<1>1. CASE StatusReads(s)
  BY <1>0, <1>1, AnswerType DEF StatusReads
<1>2. CASE StatusExpires(s)
  <2>1. Expire(Mine(s)) \in PlanRow
    BY <1>0, MineType, ExpireType
  <2> QED
    BY <1>0, <1>2, <2>1, WriteType, RequestType DEF StatusExpires
<1>3. CASE StatusFlushes(s)
  BY <1>0, <1>3, RequestType DEF TypeOK, StatusFlushes, Goto, Locked, rowVars, txVars
<1> QED
  BY <1>1, <1>2, <1>3 DEF Status

LEMMA ExecuteType ==
    ASSUME TypeOK, NEW s \in Session, Execute(s)
    PROVE  TypeOK'
<1>0. pc[s] # "idle"
  BY DEF Execute, ExecuteLocks, ExecuteReturns, ExecuteExpires, ExecuteStarts,
         ExecuteSucceeds, ExecuteFails, Serves
<1>1. /\ Mine(s) \in PlanRow
      /\ Expire(Mine(s)) \in PlanRow
      /\ [Mine(s) EXCEPT !.state = "executing"] \in PlanRow
      /\ [Mine(s) EXCEPT !.state = "executed"] \in PlanRow
      /\ req[s].key \in Key
  BY <1>0, MineType, RowType, ExpireType, RequestType DEF State
<1>2. CASE ExecuteLocks(s)
  BY <1>0, <1>2, LockPlanType DEF ExecuteLocks
<1>3. CASE ExecuteReturns(s)
  BY <1>0, <1>3, AnswerType DEF ExecuteReturns
<1>4. CASE ExecuteExpires(s)
  BY <1>0, <1>1, <1>4, WriteType DEF ExecuteExpires
<1>5. CASE ExecuteStarts(s)
  BY <1>0, <1>1, <1>5, WriteType DEF ExecuteStarts
<1>6. CASE ExecuteSucceeds(s)
  <2>1. view' \in [Session -> [Key -> PlanRow]]
    BY <1>1, <1>6 DEF TypeOK, ExecuteSucceeds, Mine
  <2> QED
    BY <1>0, <1>1, <1>6, <2>1 DEF TypeOK, ExecuteSucceeds, Goto, rowVars
<1>7. CASE ExecuteFails(s)
  BY <1>0, <1>7, SavepointRollbackType DEF ExecuteFails
<1> QED
  BY <1>2, <1>3, <1>4, <1>5, <1>6, <1>7 DEF Execute

LEMMA DecideType ==
    ASSUME TypeOK, NEW s \in Session, Decide(s)
    PROVE  TypeOK'
<1>1. CASE ManagerLocks(s)
  BY <1>1, LockPlanType DEF ManagerLocks
<1>2. CASE Approves(s)
  <2>1. pc[s] # "idle"
    BY <1>2 DEF Approves, Serves
  <2>2. [Mine(s) EXCEPT !.state = "approved", !.approvedBy = "manager"] \in PlanRow
    BY <2>1, MineType, RowType DEF State
  <2> QED
    BY <1>2, <2>1, <2>2, WriteType, RequestType DEF Approves
<1>3. CASE Rejects(s)
  <2>1. pc[s] # "idle"
    BY <1>3 DEF Rejects, Serves
  <2>2. [Mine(s) EXCEPT !.state = "rejected"] \in PlanRow
    BY <2>1, MineType, RowType DEF State
  <2> QED
    BY <1>3, <2>1, <2>2, WriteType, RequestType DEF Rejects
<1>4. CASE ManagerRefused(s)
  BY <1>4, RollbackType DEF ManagerRefused
<1> QED
  BY <1>1, <1>2, <1>3, <1>4 DEF Decide

LEMMA CleanupType ==
    ASSUME TypeOK, NEW s \in Session, Cleanup(s)
    PROVE  TypeOK'
<1>0. pc[s] # "idle" \/ CleanupFails(s)
  BY DEF Cleanup, CleanupExpires, CleanupSkips, CleanupForgets, Serves
<1>1. CASE CleanupExpires(s)
  <2>1. pc[s] # "idle"
    BY <1>1 DEF CleanupExpires, Serves
  <2>2. PICK rank \in Ranking(Overdue(s)) :
          sent' = [sent EXCEPT ![s] =
                     [k \in Key |-> IF k \in Overdue(s) THEN version + rank[k] ELSE 0]]
    BY <1>1 DEF CleanupExpires
  <2>3. IsFiniteSet(Overdue(s)) /\ Overdue(s) \subseteq Key
    <3>1. Overdue(s) \subseteq Key
      BY DEF Overdue
    <3> QED
      BY <3>1, FS_Subset
  <2>4. Cardinality(Overdue(s)) \in Nat
    BY <2>3, FS_CardinalityType
  <2>5. \A k \in Overdue(s) : rank[k] \in Nat
    BY <2>2, <2>4 DEF Ranking
  <2>6. sent' \in [Session -> [Key -> Nat]]
    BY <2>2, <2>3, <2>5 DEF TypeOK
  <2>7. view' \in [Session -> [Key -> PlanRow]]
    <3>1. \A k \in Key : view[s][k] \in PlanRow
      BY DEF TypeOK
    <3>2. \A k \in Key : Expire(view[s][k]) \in PlanRow
      BY <3>1, ExpireType
    <3> QED
      BY <1>1, <3>1, <3>2 DEF TypeOK, CleanupExpires
  <2>8. ver' \in [Session -> Nat] /\ dirty' \in [Session -> SUBSET Key]
    BY <1>1, <2>3, <2>4 DEF TypeOK, CleanupExpires
  <2> QED
    BY <1>1, <2>1, <2>6, <2>7, <2>8 DEF TypeOK, CleanupExpires, Goto, Locked, rowVars
<1>2. CASE CleanupSkips(s)
  BY <1>2 DEF TypeOK, CleanupSkips, Serves, Goto, rowVars, txVars
<1>3. CASE CleanupForgets(s)
  <2>1. pc[s] # "idle"
    BY <1>3 DEF CleanupForgets, Serves
  <2>2. view' \in [Session -> [Key -> PlanRow]]
    BY <1>3, NoPlanType DEF TypeOK, CleanupForgets
  <2>3. Forgettable(s) \subseteq Key
    BY DEF Forgettable
  <2>4. dirty' \in [Session -> SUBSET Key]
    BY <1>3, <2>3 DEF TypeOK, CleanupForgets
  <2>5. owner' \in [Row -> Session \cup {Nobody}]
    BY <1>3 DEF TypeOK, CleanupForgets, Locked
  <2> QED
    BY <1>3, <2>1, <2>2, <2>4, <2>5 DEF TypeOK, CleanupForgets, Goto, rowVars
<1>4. CASE CleanupFails(s)
  BY <1>4, RollbackType DEF CleanupFails
<1> QED
  BY <1>1, <1>2, <1>3, <1>4 DEF Cleanup

LEMMA RetriesType ==
    ASSUME TypeOK, NEW s \in Session, Retries(s)
    PROVE  TypeOK'
<1>1. pc[s] # "idle" /\ RunAgain(s)
  BY DEF Retries, LosesConflict, Conflict, Deadlocked, RowGone
<1>2. plan \in [Key -> PlanRow] /\ Undo(s, plan)
  BY <1>1 DEF TypeOK, RunAgain
<1> QED
  BY <1>1, <1>2, UndoType DEF TypeOK, RunAgain, rowVars

LEMMA CommitType ==
    ASSUME TypeOK, NEW s \in Session, Commit(s)
    PROVE  TypeOK'
<1>1. Undo(s, NoView)
  BY DEF Commit
<1>2. plan' \in [Key -> PlanRow]
  BY DEF Commit, TypeOK
<1>3. effects' \in [Key -> Nat]
  BY DEF Commit, TypeOK, CountEffect
<1>4. bus' \in [Key -> Nat]
  BY DEF Commit, TypeOK
<1>5. version' \in Nat
  BY DEF Commit, TypeOK, Version
<1>6. stale' \in [Session -> SUBSET Row]
  <2>1. Written(s) \subseteq Row
    BY DEF Written, Row, TypeOK
  <2> QED
    BY <2>1 DEF Commit, TypeOK
<1> QED
  BY <1>1, <1>2, <1>3, <1>4, <1>5, <1>6, UndoType, NoPlanType DEF TypeOK, Commit

LEMMA TypeStep ==
    ASSUME TypeOK, [Next]_vars
    PROVE  TypeOK'
<1>1. ASSUME NEW s \in Session, Arrives(s) PROVE TypeOK'
  BY <1>1, BeginType
<1>2. ASSUME NEW s \in Session, Progress(s) PROVE TypeOK'
  <2>1. CASE DispatchRaises(s)
    BY <2>1, SavepointRollbackType DEF DispatchRaises
  <2>2. CASE GivesUp(s)
    BY <2>2, RollbackType DEF GivesUp
  <2> QED
    BY <1>2, <2>1, <2>2, PreviewType, StatusType, ExecuteType, DecideType,
       CleanupType, RetriesType, CommitType DEF Progress
<1>3. ASSUME NEW s \in Session, Denies(s) \/ Crash(s) PROVE TypeOK'
  BY <1>3, RollbackType, SavepointRollbackType DEF Denies, Crash
<1>4. CASE Tick
  BY <1>4 DEF TypeOK, Tick, rowVars, txVars
<1>5. CASE UNCHANGED vars
  BY <1>5 DEF TypeOK, vars
<1> QED
  BY <1>1, <1>2, <1>3, <1>4, <1>5 DEF Next, Bound

LEMMA TypeInit ==
    ASSUME Init
    PROVE  TypeOK
BY NoPlanType DEF Init, TypeOK, Nothing, Session

\* Every variable keeps its type, whatever conflicts, retries and crashes.
THEOREM TypeCorrect == Spec => []TypeOK
BY TypeInit, TypeStep, PTL DEF Spec
-------------------------------------------------------------------------------
(***************************************************************************)
(* The inductive invariant.  A step of a session s that is not its commit  *)
(* changes no committed row and takes no lock from another session, so the *)
(* others keep their part of the invariant.                                *)
(***************************************************************************)
OnlyTouches(s) ==
    /\ UNCHANGED <<plan, effects>>
    /\ \A u \in Session \ {s} :
          /\ pc'[u] = pc[u] /\ req'[u] = req[u] /\ view'[u] = view[u]
          /\ dirty'[u] = dirty[u] /\ stale'[u] = stale[u] /\ acted'[u] = acted[u]
          /\ \A r \in Row : owner'[r] = u <=> owner[r] = u

LEMMA OthersKeep ==
    ASSUME Inv, NEW s \in Session, OnlyTouches(s), TypeOK', SessionInv(s)'
    PROVE  Inv'
<1>1. ASSUME NEW u \in Session \ {s} PROVE SessionInv(u)'
  <2>1. SessionInv(u)
    BY DEF Inv
  <2>2. /\ plan' = plan /\ pc'[u] = pc[u] /\ req'[u] = req[u] /\ view'[u] = view[u]
        /\ dirty'[u] = dirty[u] /\ stale'[u] = stale[u] /\ acted'[u] = acted[u]
        /\ \A r \in Row : owner'[r] = u <=> owner[r] = u
    BY <1>1 DEF OnlyTouches
  <2>3. dirty[u] \subseteq Row /\ dirty[u] \subseteq Key
    BY <1>1 DEF Inv, TypeOK, Row
  <2>4. CleanInv(u)'
    BY <2>1, <2>2 DEF SessionInv, CleanInv
  <2>5. SnapshotInv(u)'
    BY <2>1, <2>2 DEF SessionInv, SnapshotInv
  <2>6. LockedInv(u)'
    <3>1. pc[u] # "idle" => req[u].key \in Row
      BY RequestType DEF Inv, Row
    <3> QED
      BY <2>1, <2>2, <3>1 DEF SessionInv, LockedInv
  <2>7. WriteInv(u)'
    BY <2>1, <2>2, <2>3 DEF SessionInv, WriteInv
  <2> QED
    BY <2>4, <2>5, <2>6, <2>7 DEF SessionInv
<1>2. RowInv' /\ ExecutedOnce'
  BY DEF Inv, OnlyTouches, RowInv, ExecutedOnce
<1> QED
  BY <1>1, <1>2 DEF Inv

\* An undone transaction is clean, whatever snapshot it restarts from.
LEMMA UndoKeeps ==
    ASSUME Inv, NEW s \in Session, NEW snapshot, TypeOK',
           Undo(s, snapshot), UNCHANGED <<plan, effects>>,
           NEW p \in {"idle", "begun", "refused", "failed"}, pc' = [pc EXCEPT ![s] = p],
           p = "begun" => snapshot = plan,
           \A u \in Session \ {s} : req'[u] = req[u] /\ stale'[u] = stale[u]
    PROVE  Inv'
<1>1. OnlyTouches(s)
  BY DEF OnlyTouches, Undo, Unlocked, Inv, TypeOK
<1>2. /\ pc'[s] = p /\ dirty'[s] = {} /\ acted'[s] = FALSE /\ view'[s] = snapshot
      /\ \A r \in Row : owner'[r] # s
  BY DEF Undo, Unlocked, Inv, TypeOK
<1>3. SessionInv(s)'
  BY <1>2 DEF SessionInv, CleanInv, SnapshotInv, LockedInv, WriteInv
<1> QED
  BY <1>1, <1>3, OthersKeep

LEMMA RollbackKeeps ==
    ASSUME Inv, NEW s \in Session, Rollback(s)
    PROVE  Inv'
<1>1. TypeOK'
  BY RollbackType DEF Inv
<1>2. /\ Undo(s, NoView) /\ UNCHANGED <<plan, effects>>
      /\ pc' = [pc EXCEPT ![s] = "idle"]
      /\ \A u \in Session \ {s} : req'[u] = req[u] /\ stale'[u] = stale[u]
  BY DEF Rollback, rowVars, Inv, TypeOK
<1> QED
  BY <1>1, <1>2, UndoKeeps

LEMMA SavepointRollbackKeeps ==
    ASSUME Inv, NEW s \in Session, NEW outcome \in {"refused", "failed"},
           pc[s] # "idle", SavepointRollback(s, outcome)
    PROVE  Inv'
<1>1. TypeOK'
  BY SavepointRollbackType DEF Inv
<1>2. /\ Undo(s, NoView) /\ UNCHANGED <<plan, effects>>
      /\ pc' = [pc EXCEPT ![s] = outcome]
      /\ \A u \in Session \ {s} : req'[u] = req[u] /\ stale'[u] = stale[u]
  BY DEF SavepointRollback, rowVars
<1> QED
  BY <1>1, <1>2, UndoKeeps

LEMMA RetriesKeeps ==
    ASSUME Inv, NEW s \in Session, Retries(s)
    PROVE  Inv'
<1>1. TypeOK'
  BY RetriesType DEF Inv
<1>2. RunAgain(s)
  BY DEF Retries
<1>3. /\ Undo(s, plan) /\ UNCHANGED <<plan, effects>>
      /\ pc' = [pc EXCEPT ![s] = "begun"]
      /\ \A u \in Session \ {s} : req'[u] = req[u] /\ stale'[u] = stale[u]
  BY <1>2 DEF RunAgain, rowVars, Inv, TypeOK
<1> QED
  BY <1>1, <1>3, UndoKeeps

LEMMA BeginKeeps ==
    ASSUME Inv, NEW s \in Session, Arrives(s)
    PROVE  Inv'
<1>1. PICK r \in Requests(s) : Begin(s, r)
  BY DEF Arrives
<1>2. OnlyTouches(s)
  BY <1>1 DEF OnlyTouches, Begin, rowVars, Inv, TypeOK
<1>3. SessionInv(s)'
  <2>1. CleanInv(s) /\ pc[s] = "idle"
    BY <1>1 DEF Begin, Inv, SessionInv
  <2>2. /\ pc'[s] = "begun" /\ view'[s] = plan /\ plan' = plan
        /\ dirty' = dirty /\ acted' = acted /\ owner' = owner
    BY <1>1 DEF Begin, rowVars, Inv, TypeOK
  <2> QED
    BY <2>1, <2>2 DEF SessionInv, CleanInv, SnapshotInv, LockedInv, WriteInv
<1> QED
  BY <1>2, <1>3, BeginType, OthersKeep DEF Inv

\* Answering without a write, from a transaction that has written nothing.
LEMMA AnswerKeeps ==
    ASSUME Inv, NEW s \in Session, pc[s] \in {"begun", "locked"}, AnswerUnchanged(s)
    PROVE  Inv'
<1>1. TypeOK'
  BY AnswerType DEF Inv
<1>2. OnlyTouches(s)
  BY DEF OnlyTouches, AnswerUnchanged, Goto, rowVars, txVars, Inv, TypeOK
<1>3. SessionInv(s)'
  <2>1. dirty[s] = {}
    BY DEF Inv, SessionInv, CleanInv, LockedInv
  <2>2. pc'[s] = "answered" /\ dirty' = dirty
    BY DEF AnswerUnchanged, Goto, txVars, Inv, TypeOK
  <2> QED
    BY <2>1, <2>2 DEF SessionInv, CleanInv, SnapshotInv, LockedInv, WriteInv
<1> QED
  BY <1>1, <1>2, <1>3, OthersKeep

LEMMA LockPlanKeeps ==
    ASSUME Inv, NEW s \in Session, pc[s] = "begun", LockPlan(s)
    PROVE  Inv'
<1>1. TypeOK' /\ req[s].key \in Key
  BY LockPlanType, RequestType DEF Inv
<1>2. OnlyTouches(s)
  BY <1>1 DEF OnlyTouches, LockPlan, CanWrite, Free, Locked, Goto, rowVars, txVars, Inv, TypeOK
<1>3. SessionInv(s)'
  <2>1. CleanInv(s) /\ SnapshotInv(s)
    BY DEF Inv, SessionInv
  <2>2. /\ view[s][req[s].key] = plan[req[s].key]
        /\ plan[req[s].key].state # "none"
        /\ dirty[s] = {} /\ ~ acted[s]
    BY <1>1, <2>1 DEF CleanInv, SnapshotInv, LockPlan, CanWrite, Mine
  <2>3. /\ pc'[s] = "locked" /\ dirty' = dirty /\ acted' = acted /\ view' = view
        /\ req' = req /\ plan' = plan /\ owner'[req[s].key] = s
    BY <1>1 DEF LockPlan, Goto, Locked, rowVars, txVars, Inv, TypeOK, Row
  <2> QED
    BY <2>2, <2>3 DEF SessionInv, CleanInv, SnapshotInv, LockedInv, WriteInv
<1> QED
  BY <1>1, <1>2, <1>3, OthersKeep
-------------------------------------------------------------------------------
(***************************************************************************)
(* The moves the transactions write.                                       *)
(***************************************************************************)
LEMMA ExpireMove ==
    ASSUME NEW row \in PlanRow,
           row.state \in {"pending", "approved", "rejected", "expired"}
    PROVE  LegalMove(row, Expire(row), FALSE) /\ Expire(row).state = "expired"
<1>1. Seen(Expire(row)) = [Seen(row) EXCEPT !.state = "expired"]
  BY DEF PlanRow, Expire, Seen
<1>2. Expire(row).state = "expired" /\ Seen(row).state = row.state
  BY DEF PlanRow, Expire, Seen
<1> QED
  BY <1>1, <1>2 DEF LegalMove, Life!Expire

LEMMA ApproveMove ==
    ASSUME NEW row \in PlanRow, row.state = "pending"
    PROVE  LegalMove(row, [row EXCEPT !.state = "approved", !.approvedBy = "manager"], FALSE)
<1> DEFINE new == [row EXCEPT !.state = "approved", !.approvedBy = "manager"]
<1>1. /\ new.state = "approved" /\ new.approvedBy = "manager"
      /\ new.payload = row.payload
  BY DEF PlanRow
<1> QED
  BY <1>1 DEF Seen, LegalMove, Life!Approve

LEMMA RejectMove ==
    ASSUME NEW row \in PlanRow, Rejectable(row)
    PROVE  LegalMove(row, [row EXCEPT !.state = "rejected"], FALSE)
<1> DEFINE new == [row EXCEPT !.state = "rejected"]
<1>1. Seen(new) = [Seen(row) EXCEPT !.state = "rejected"]
  BY DEF PlanRow, Seen
<1>2. new.state = "rejected" /\ Seen(row).state = row.state
  BY DEF PlanRow, Seen
<1> QED
  BY <1>1, <1>2 DEF LegalMove, Rejectable, Life!Reject

LEMMA ProposeMove ==
    ASSUME NEW payload \in Payload
    PROVE  LegalMove(NoPlan, NewPlan(payload), FALSE)
BY DEF NoPlan, NewPlan, LegalMove, Seen, Life!Propose, Life!Absent

LEMMA ForgetMove ==
    ASSUME NEW row \in PlanRow, row.state # "none"
    PROVE  LegalMove(row, NoPlan, FALSE)
BY DEF PlanRow, NoPlan, LegalMove, Seen, Life!Forget, Life!Absent

\* What a legal move tells of the rows it relates.
LEMMA MoveFacts ==
    ASSUME NEW old \in PlanRow, NEW new \in PlanRow, NEW executed \in BOOLEAN,
           LegalMove(old, new, executed)
    PROVE  /\ new.state = "none" => new = NoPlan
           /\ new.state \notin {"executing", "failed"}
           /\ new.state = "executed" <=> executed
           /\ executed => old.state = "approved"
           /\ old.state = "executed" => new.state = "none"
           /\ new.state \in {"expired", "rejected"} => old.state # "none"
BY DEF PlanRow, LegalMove, Seen, Life!Propose, Life!Approve, Life!Reject,
       Life!Expire, Life!Forget, Life!Absent
-------------------------------------------------------------------------------
(***************************************************************************)
(* The steps that write.                                                   *)
(***************************************************************************)
LEMMA WriteTouches ==
    ASSUME Inv, NEW s \in Session, NEW k \in Key, NEW row, NEW next,
           SystemWrite(s, k, row), Goto(s, next), UNCHANGED acted
    PROVE  /\ OnlyTouches(s)
           /\ pc'[s] = next /\ dirty'[s] = dirty[s] \cup {k}
           /\ view'[s] = [view[s] EXCEPT ![k] = row]
           /\ UNCHANGED <<plan, req, stale>>
           /\ \A r \in Row : owner[r] = s => owner'[r] = s
<1>1. UNCHANGED <<plan, effects, req, stale>>
  BY DEF SystemWrite, rowVars
<1>2. \A u \in Session \ {s}, r \in Row : owner'[r] = u <=> owner[r] = u
  BY DEF SystemWrite, CanWrite, Free, Locked, Inv, TypeOK
<1> QED
  BY <1>1, <1>2 DEF OnlyTouches, SystemWrite, Goto, Locked, Inv, TypeOK

\* A write to the locked plan of the request, by which the request is answered.
LEMMA LockedWriteKeeps ==
    ASSUME Inv, NEW s \in Session, pc[s] = "locked", NEW row \in PlanRow,
           SystemWrite(s, req[s].key, row), Goto(s, "answered"), UNCHANGED acted,
           LegalMove(Mine(s), row, FALSE)
    PROVE  Inv'
<1>1. TypeOK' /\ req[s].key \in Key /\ req[s].key \in Row
  BY WriteType, RequestType DEF Inv, Row
<1>2. LockedInv(s)
  BY DEF Inv, SessionInv
<1>3. /\ OnlyTouches(s) /\ pc'[s] = "answered" /\ dirty'[s] = {req[s].key}
      /\ view'[s][req[s].key] = row /\ plan' = plan /\ ~ acted'[s]
      /\ owner'[req[s].key] = s
  BY <1>1, <1>2, WriteTouches DEF LockedInv, Inv, TypeOK
<1>4. LegalMove(plan[req[s].key], row, FALSE)
  BY <1>2 DEF LockedInv, Mine
<1>5. SessionInv(s)'
  <2>1. acted'[s] = FALSE
    BY <1>1, <1>3 DEF TypeOK
  <2>2. WriteInv(s)'
    BY <1>3, <1>4, <2>1 DEF WriteInv
  <2> QED
    BY <1>3, <2>2 DEF SessionInv, CleanInv, SnapshotInv, LockedInv
<1> QED
  BY <1>1, <1>3, <1>5, OthersKeep

LEMMA PreviewKeeps ==
    ASSUME Inv, NEW s \in Session, Preview(s)
    PROVE  Inv'
<1>1. CASE PreviewReplays(s)
  BY <1>1, AnswerKeeps DEF PreviewReplays, Serves
<1>2. CASE PreviewCreates(s)
  <2> DEFINE k == req[s].key
  <2>1. pc[s] = "begun" /\ req[s].op = "preview"
    BY <1>2 DEF PreviewCreates, Serves
  <2>2. k \in Key /\ k \in Row /\ req[s].payload \in Payload
    BY <2>1 DEF Inv, TypeOK, Row, Requests, CallerRequest, ManagerRequest, CleanupRequest
  <2>3. /\ OnlyTouches(s) /\ pc'[s] = "answered" /\ dirty'[s] = {k}
        /\ owner'[k] = s /\ plan' = plan /\ acted' = acted
        /\ view'[s][k] = NewPlan(req[s].payload)
    BY <1>2, <2>2 DEF OnlyTouches, PreviewCreates, Free, Locked, Goto, rowVars, Inv, TypeOK
  <2>4. plan[k] = NoPlan
    BY <1>2, <2>2 DEF PreviewCreates, Inv, RowInv
  <2>5. acted[s] = FALSE
    BY <2>1 DEF Inv, TypeOK, SessionInv, CleanInv
  <2>6. LegalMove(plan'[k], view'[s][k], acted'[s])
    BY <2>2, <2>3, <2>4, <2>5, ProposeMove
  <2>7. SessionInv(s)'
    BY <2>3, <2>6 DEF SessionInv, CleanInv, SnapshotInv, LockedInv, WriteInv
  <2> QED
    BY <2>3, <2>7, PreviewType, OthersKeep DEF Inv
<1> QED
  BY <1>1, <1>2 DEF Preview

LEMMA StatusKeeps ==
    ASSUME Inv, NEW s \in Session, Status(s)
    PROVE  Inv'
<1> DEFINE k == req[s].key
<1>1. CASE StatusReads(s)
  BY <1>1, AnswerKeeps DEF StatusReads, Serves
<1>2. CASE StatusExpires(s)
  <2>1. pc[s] = "begun" /\ req[s].op = "status" /\ Open(Mine(s))
    BY <1>2 DEF StatusExpires, Serves
  <2>2. k \in Key /\ k \in Row /\ Mine(s) \in PlanRow /\ Mine(s) = view[s][k]
    BY <2>1, RequestType, MineType DEF Inv, Row
  <2>3. CleanInv(s) /\ SnapshotInv(s)
    BY DEF Inv, SessionInv
  <2>4. /\ OnlyTouches(s) /\ pc'[s] = "flush" /\ dirty'[s] = {k}
        /\ view'[s] = [view[s] EXCEPT ![k] = Expire(Mine(s))]
        /\ UNCHANGED <<plan, req, stale, acted>>
    BY <1>2, <2>1, <2>2, <2>3, WriteTouches DEF StatusExpires, CleanInv
  <2>5. owner'[k] # s
    BY <1>2, <2>1, <2>2, <2>3 DEF CleanInv, StatusExpires, SystemWrite, Locked,
       Inv, TypeOK, Row
  <2>6. LegalMove(Mine(s), Expire(Mine(s)), FALSE)
    BY <2>1, <2>2, ExpireMove DEF Open
  <2>7. acted[s] = FALSE
    BY <2>1, <2>3 DEF CleanInv, Inv, TypeOK
  <2>8. k \notin stale[s] => plan[k] = Mine(s)
    BY <2>1, <2>2, <2>3 DEF SnapshotInv, CleanInv
  <2>9. view[s] \in [Key -> PlanRow]
    BY DEF Inv, TypeOK
  <2>10. WriteInv(s)'
    <3>1. view'[s][k] = Expire(Mine(s)) /\ stale'[s] = stale[s] /\ plan'[k] = plan[k]
          /\ acted'[s] = FALSE /\ req'[s].key = k
      BY <2>2, <2>4, <2>7, <2>9
    <3>2. k \notin stale'[s] => LegalMove(plan'[k], view'[s][k], acted'[s])
      BY <2>6, <2>8, <3>1
    <3> QED
      BY <2>4, <2>5, <3>1, <3>2 DEF WriteInv
  <2>11. SnapshotInv(s)'
    BY <2>1, <2>2, <2>3, <2>4, <2>9 DEF SnapshotInv, CleanInv
  <2>12. SessionInv(s)'
    BY <2>4, <2>10, <2>11 DEF SessionInv, CleanInv, LockedInv
  <2> QED
    BY <1>2, <2>4, <2>12, StatusType, OthersKeep DEF Inv
<1>3. CASE StatusFlushes(s)
  <2>1. pc[s] = "flush" /\ req[s].op = "status"
    BY <1>3 DEF StatusFlushes, Serves
  <2>2. k \in Key /\ k \in Row
    BY <2>1, RequestType DEF Inv, Row
  <2>3. dirty[s] = {k} /\ k \notin stale[s] /\ LegalMove(plan[k], view[s][k], acted[s])
    BY <1>3, <2>1, <2>2 DEF Inv, SessionInv, WriteInv, StatusFlushes, CanWrite
  <2>4. /\ OnlyTouches(s) /\ pc'[s] = "answered" /\ owner'[k] = s
        /\ UNCHANGED <<plan, dirty, view, acted>>
    BY <1>3, <2>2 DEF OnlyTouches, StatusFlushes, CanWrite, Free, Locked, Goto,
       rowVars, txVars, Inv, TypeOK
  <2>5. SessionInv(s)'
    BY <2>3, <2>4 DEF SessionInv, CleanInv, SnapshotInv, LockedInv, WriteInv
  <2> QED
    BY <1>3, <2>4, <2>5, StatusType, OthersKeep DEF Inv
<1> QED
  BY <1>1, <1>2, <1>3 DEF Status

LEMMA ExecuteKeeps ==
    ASSUME Inv, NEW s \in Session, Execute(s)
    PROVE  Inv'
<1> DEFINE k == req[s].key
<1>0. pc[s] # "idle"
  BY DEF Execute, ExecuteLocks, ExecuteReturns, ExecuteExpires, ExecuteStarts,
         ExecuteSucceeds, ExecuteFails, Serves
<1>1. k \in Key /\ k \in Row /\ Mine(s) \in PlanRow /\ Mine(s) = view[s][k]
  BY <1>0, RequestType, MineType DEF Inv, Row
<1>2. CASE ExecuteLocks(s)
  BY <1>2, LockPlanKeeps DEF ExecuteLocks, Serves
<1>3. CASE ExecuteReturns(s)
  BY <1>3, AnswerKeeps DEF ExecuteReturns, Serves
<1>4. CASE ExecuteExpires(s)
  <2>1. pc[s] = "locked" /\ Mine(s) = plan[k] /\ Mine(s).state \in State
    BY <1>1, <1>4 DEF ExecuteExpires, Serves, Inv, SessionInv, LockedInv, PlanRow
  <2>2. Mine(s).state \in {"pending", "approved", "rejected", "expired"}
    <3>1. plan[k].state \notin {"none", "executing", "failed"}
      BY <1>1, <2>1 DEF Inv, SessionInv, LockedInv, RowInv
    <3> QED
      BY <1>4, <2>1, <3>1 DEF ExecuteExpires, State
  <2>3. LegalMove(Mine(s), Expire(Mine(s)), FALSE) /\ Expire(Mine(s)) \in PlanRow
    BY <1>1, <2>2, ExpireMove, ExpireType
  <2> QED
    BY <1>4, <2>1, <2>3, LockedWriteKeeps DEF ExecuteExpires
<1>5. CASE ExecuteStarts(s)
  <2>1. pc[s] = "locked" /\ LockedInv(s)
    BY <1>5 DEF ExecuteStarts, Serves, Inv, SessionInv
  <2>2. [Mine(s) EXCEPT !.state = "executing"] \in PlanRow
    BY <1>1, RowType DEF State
  <2>3. TypeOK'
    BY <1>5, ExecuteType DEF Inv, Execute
  <2>4. /\ OnlyTouches(s) /\ pc'[s] = "executing" /\ dirty'[s] = {k}
        /\ view'[s][k] = [plan[k] EXCEPT !.state = "executing"]
        /\ owner'[k] = s /\ UNCHANGED <<plan, req, acted>>
    <3> DEFINE row == [Mine(s) EXCEPT !.state = "executing"]
    <3>1. SystemWrite(s, k, row) /\ Goto(s, "executing") /\ UNCHANGED acted
      BY <1>5 DEF ExecuteStarts
    <3>2. /\ OnlyTouches(s) /\ pc'[s] = "executing" /\ dirty'[s] = dirty[s] \cup {k}
          /\ view'[s] = [view[s] EXCEPT ![k] = row]
          /\ UNCHANGED <<plan, req>>
          /\ owner[k] = s => owner'[k] = s
      BY <1>1, <3>1, WriteTouches
    <3>3. owner[k] = s /\ dirty[s] = {} /\ Mine(s) = plan[k] /\ view[s] \in [Key -> PlanRow]
      BY <1>1, <2>1 DEF LockedInv, Inv, TypeOK
    <3> QED
      BY <1>1, <3>1, <3>2, <3>3
  <2>5. plan[k].state = "approved" /\ ~ acted[s]
    BY <1>5, <2>1 DEF ExecuteStarts, LockedInv, Mine
  <2>6. SessionInv(s)'
    BY <2>4, <2>5 DEF SessionInv, CleanInv, SnapshotInv, LockedInv, WriteInv
  <2> QED
    BY <2>3, <2>4, <2>6, OthersKeep
<1>6. CASE ExecuteSucceeds(s)
  <2>1. pc[s] = "executing" /\ LockedInv(s)
    BY <1>6 DEF ExecuteSucceeds, Serves, Inv, SessionInv
  <2>2. TypeOK'
    BY <1>6, ExecuteType DEF Inv, Execute
  <2>3. /\ OnlyTouches(s) /\ pc'[s] = "answered" /\ acted'[s] = TRUE
        /\ view'[s][k] = [view[s][k] EXCEPT !.state = "executed"]
        /\ UNCHANGED <<plan, req, owner, dirty>>
    BY <1>1, <1>6 DEF OnlyTouches, ExecuteSucceeds, Goto, rowVars, Inv, TypeOK
  <2>4. view'[s][k] = [plan[k] EXCEPT !.state = "executed"]
    <3>1. view[s][k] = [plan[k] EXCEPT !.state = "executing"] /\ plan[k] \in PlanRow
      BY <1>1, <2>1 DEF LockedInv, Inv, TypeOK
    <3> QED
      BY <2>3, <3>1 DEF PlanRow
  <2>5. LegalMove(plan'[k], view'[s][k], acted'[s])
    BY <2>1, <2>3, <2>4 DEF LegalMove, LockedInv
  <2>6. SessionInv(s)'
    BY <2>1, <2>3, <2>5 DEF SessionInv, CleanInv, SnapshotInv, LockedInv, WriteInv
  <2> QED
    BY <2>2, <2>3, <2>6, OthersKeep
<1>7. CASE ExecuteFails(s)
  BY <1>0, <1>7, SavepointRollbackKeeps DEF ExecuteFails
<1> QED
  BY <1>2, <1>3, <1>4, <1>5, <1>6, <1>7 DEF Execute

LEMMA DecideKeeps ==
    ASSUME Inv, NEW s \in Session, Decide(s)
    PROVE  Inv'
<1>1. CASE ManagerLocks(s)
  BY <1>1, LockPlanKeeps DEF ManagerLocks
<1>2. CASE Approves(s)
  <2>1. pc[s] = "locked" /\ Mine(s).state = "pending"
    BY <1>2 DEF Approves, Serves, Approvable
  <2>2. Mine(s) \in PlanRow
    BY <2>1, MineType DEF Inv
  <2>3. [Mine(s) EXCEPT !.state = "approved", !.approvedBy = "manager"] \in PlanRow
    BY <2>2, RowType DEF State
  <2> QED
    BY <1>2, <2>1, <2>2, <2>3, ApproveMove, LockedWriteKeeps DEF Approves
<1>3. CASE Rejects(s)
  <2>1. pc[s] = "locked" /\ Rejectable(Mine(s))
    BY <1>3 DEF Rejects, Serves
  <2>2. Mine(s) \in PlanRow
    BY <2>1, MineType DEF Inv
  <2>3. [Mine(s) EXCEPT !.state = "rejected"] \in PlanRow
    BY <2>2, RowType DEF State
  <2> QED
    BY <1>3, <2>1, <2>2, <2>3, RejectMove, LockedWriteKeeps DEF Rejects
<1>4. CASE ManagerRefused(s)
  BY <1>4, RollbackKeeps DEF ManagerRefused
<1> QED
  BY <1>1, <1>2, <1>3, <1>4 DEF Decide

LEMMA CleanupKeeps ==
    ASSUME Inv, NEW s \in Session, Cleanup(s)
    PROVE  Inv'
<1>1. CASE CleanupExpires(s)
  <2>1. pc[s] = "begun" /\ req[s].op = "cleanup" /\ CleanInv(s) /\ SnapshotInv(s)
    BY <1>1 DEF CleanupExpires, Serves, Inv, SessionInv
  <2>2. Overdue(s) \subseteq Key /\ view[s] \in [Key -> PlanRow] /\ dirty[s] = {}
        /\ acted[s] = FALSE
    BY <2>1 DEF Overdue, CleanInv, Inv, TypeOK
  <2>3. /\ OnlyTouches(s) /\ pc'[s] = "flush" /\ dirty'[s] = Overdue(s)
        /\ \A k \in Key : view'[s][k] = IF k \in Overdue(s) THEN Expire(view[s][k])
                                        ELSE view[s][k]
        /\ UNCHANGED <<plan, req, stale, acted>>
    BY <1>1 DEF OnlyTouches, CleanupExpires, CanWrite, Free, Locked, Goto, rowVars,
       Inv, TypeOK
  <2>4. \A k \in Key : owner'[k] # s
    BY <1>1, <2>1 DEF CleanInv, CleanupExpires, Locked, Inv, TypeOK, Row
  <2>5. \A k \in Overdue(s) : LegalMove(view[s][k], Expire(view[s][k]), FALSE)
    BY <2>2, ExpireMove DEF Overdue, Open
  <2>6. \A k \in Key : k \notin stale[s] => view[s][k] = plan[k]
    BY <2>1, <2>2 DEF SnapshotInv
  <2>7. WriteInv(s)'
    BY <2>1, <2>2, <2>3, <2>4, <2>5, <2>6 DEF WriteInv
  <2>8. SnapshotInv(s)'
    BY <2>3, <2>6 DEF SnapshotInv
  <2>9. SessionInv(s)'
    BY <2>3, <2>7, <2>8 DEF SessionInv, CleanInv, LockedInv
  <2> QED
    BY <1>1, <2>3, <2>9, CleanupType, OthersKeep DEF Cleanup, Inv
<1>2. CASE CleanupSkips(s)
  <2>1. pc[s] = "begun" /\ req[s].op = "cleanup" /\ CleanInv(s) /\ SnapshotInv(s)
    BY <1>2 DEF CleanupSkips, Serves, Inv, SessionInv
  <2>2. /\ OnlyTouches(s) /\ pc'[s] = "flush"
        /\ UNCHANGED <<plan, req, stale, acted, dirty, view, owner>>
    BY <1>2 DEF OnlyTouches, CleanupSkips, Goto, rowVars, txVars, Inv, TypeOK
  <2>3. SessionInv(s)'
    BY <2>1, <2>2 DEF SessionInv, CleanInv, SnapshotInv, LockedInv, WriteInv
  <2> QED
    BY <1>2, <2>2, <2>3, CleanupType, OthersKeep DEF Cleanup, Inv
<1>3. CASE CleanupForgets(s)
  <2> DEFINE rows == dirty[s] \cup Forgettable(s)
  <2>1. pc[s] = "flush" /\ SnapshotInv(s) /\ WriteInv(s)
    BY <1>3 DEF CleanupForgets, Serves, Inv, SessionInv
  <2>2. rows \subseteq Key /\ rows \subseteq Row /\ acted[s] = FALSE
        /\ \A k \in rows : k \notin stale[s] /\ owner[k] \in {s, Nobody}
    BY <1>3, <2>1 DEF CleanupForgets, CanWrite, Free, Forgettable, WriteInv, Inv, TypeOK, Row
  <2>3. /\ OnlyTouches(s) /\ pc'[s] = "answered" /\ dirty'[s] = rows
        /\ \A k \in Key : view'[s][k] = IF k \in Forgettable(s) THEN NoPlan
                                        ELSE view[s][k]
        /\ UNCHANGED <<plan, req, stale, acted>>
        /\ \A k \in rows : owner'[k] = s
    BY <1>3, <2>2 DEF OnlyTouches, CleanupForgets, Locked, Goto, rowVars, Inv, TypeOK
  <2>4. ASSUME NEW k \in rows PROVE LegalMove(plan[k], view'[s][k], FALSE)
    <3>1. k \in Key /\ plan[k] \in PlanRow /\ view[s][k] \in PlanRow
      BY <2>2, <2>4 DEF Inv, TypeOK
    <3>2. k \in dirty[s] => LegalMove(plan[k], view[s][k], FALSE)
      <4>1. k \notin stale[s] /\ acted[s] = FALSE
        BY <2>2, <2>4
      <4>2. k \in dirty[s] => LegalMove(plan[k], view[s][k], acted[s])
        BY <2>1, <4>1 DEF WriteInv
      <4> QED
        BY <4>1, <4>2
    <3>3. CASE k \in Forgettable(s)
      <4>1. view[s][k].state \in {"executed", "rejected", "expired", "failed"}
        BY <3>3 DEF Forgettable
      <4>2. plan[k].state # "none"
        <5>1. CASE k \in dirty[s]
          BY <3>1, <3>2, <4>1, <5>1, MoveFacts
        <5>2. CASE k \notin dirty[s]
          BY <2>1, <2>2, <2>4, <3>1, <4>1, <5>2 DEF SnapshotInv
        <5> QED
          BY <5>1, <5>2
      <4>3. view'[s][k] = NoPlan
        BY <2>3, <3>1, <3>3
      <4> QED
        BY <3>1, <4>2, <4>3, ForgetMove
    <3>4. CASE k \notin Forgettable(s)
      BY <2>3, <3>1, <3>2, <3>4
    <3> QED
      BY <3>3, <3>4
  <2>5. WriteInv(s)'
    <3>1. acted'[s] = FALSE /\ plan' = plan /\ pc'[s] = "answered" /\ dirty'[s] = rows
      BY <2>2, <2>3
    <3>2. ASSUME NEW k \in dirty'[s]
          PROVE  owner'[k] = s /\ LegalMove(plan'[k], view'[s][k], acted'[s])
      <4>1. k \in rows
        BY <3>1
      <4>2. owner'[k] = s
        BY <2>3, <4>1
      <4>3. LegalMove(plan[k], view'[s][k], FALSE)
        BY <2>4, <4>1
      <4> QED
        BY ONLY <3>1, <4>2, <4>3
    <3> QED
      BY <3>1, <3>2 DEF WriteInv
  <2>6. SessionInv(s)'
    BY <2>3, <2>5 DEF SessionInv, CleanInv, SnapshotInv, LockedInv
  <2> QED
    BY <1>3, <2>3, <2>6, CleanupType, OthersKeep DEF Cleanup, Inv
<1>4. CASE CleanupFails(s)
  BY <1>4, RollbackKeeps DEF CleanupFails
<1> QED
  BY <1>1, <1>2, <1>3, <1>4 DEF Cleanup
-------------------------------------------------------------------------------
(***************************************************************************)
(* Commit.  The rows a transaction commits are locked by it, so no other   *)
(* session has locked them, and whoever saw them before finds them stale.  *)
(***************************************************************************)
LEMMA CommittedMoves ==
    ASSUME Inv, NEW s \in Session, Committable(s), NEW k \in dirty[s]
    PROVE  k \in Key /\ owner[k] = s /\ LegalMove(plan[k], view[s][k], acted[s])
<1>1. pc[s] = "answered"
  BY DEF Committable, Inv, SessionInv, CleanInv
<1>2. k \in Key /\ WriteInv(s)
  BY DEF Inv, TypeOK, SessionInv
<1> QED
  BY <1>1, <1>2 DEF WriteInv

LEMMA CommitEffect ==
    ASSUME Inv, NEW s \in Session, Commit(s), NEW k \in Key
    PROVE  /\ plan'[k] = IF k \in dirty[s] THEN view[s][k] ELSE plan[k]
           /\ effects'[k] = CountEffect(s, k)
           /\ plan'[k] \in PlanRow /\ plan[k] \in PlanRow
BY CommitType DEF Commit, Inv, TypeOK

LEMMA CommitRows ==
    ASSUME Inv, NEW s \in Session, Commit(s)
    PROVE  RowInv' /\ ExecutedOnce'
<1>1. ASSUME NEW k \in Key
      PROVE  /\ plan'[k].state = "none" => plan'[k] = NoPlan
             /\ plan'[k].state \notin {"executing", "failed"}
             /\ effects'[k] = IF plan'[k].state = "executed" THEN 1 ELSE 0
  <2>1. /\ plan[k].state = "none" => plan[k] = NoPlan
        /\ plan[k].state \notin {"executing", "failed"}
        /\ effects[k] = IF plan[k].state = "executed" THEN 1 ELSE 0
    BY <1>1 DEF Inv, RowInv, ExecutedOnce
  <2>2. CASE k \notin dirty[s]
    BY <1>1, <2>1, <2>2, CommitEffect DEF CountEffect
  <2>3. CASE k \in dirty[s]
    <3>1. LegalMove(plan[k], view[s][k], acted[s])
      BY <2>3, CommittedMoves DEF Commit
    <3>2. plan[k] \in PlanRow /\ plan'[k] \in PlanRow /\ plan'[k] = view[s][k]
          /\ acted[s] \in BOOLEAN
      BY <1>1, <2>3, CommitEffect DEF Inv, TypeOK
    <3>3. /\ plan'[k].state = "none" => plan'[k] = NoPlan
          /\ plan'[k].state \notin {"executing", "failed"}
          /\ plan'[k].state = "executed" <=> acted[s]
          /\ acted[s] => plan[k].state = "approved"
          /\ plan[k].state = "executed" => plan'[k].state = "none"
      BY <3>1, <3>2, MoveFacts
    <3>4. effects'[k] = IF plan'[k].state = "none" THEN 0
                        ELSE IF acted[s] THEN effects[k] + 1 ELSE effects[k]
      BY <1>1, <2>3, <3>2, CommitEffect DEF CountEffect
    <3> QED
      BY <2>1, <3>3, <3>4
  <2> QED
    BY <2>2, <2>3
<1> QED
  BY <1>1 DEF RowInv, ExecutedOnce

LEMMA CommitKeeps ==
    ASSUME Inv, NEW s \in Session, Commit(s)
    PROVE  Inv'
<1>1. TypeOK'
  BY CommitType DEF Inv
<1>2. \A k \in dirty[s] : k \in Key /\ owner[k] = s
  BY CommittedMoves DEF Commit
<1>3. SessionInv(s)'
  <2>1. pc'[s] = "idle" /\ dirty'[s] = {} /\ acted'[s] = FALSE
        /\ \A r \in Row : owner'[r] # s
    BY DEF Commit, Undo, Unlocked, Inv, TypeOK
  <2> QED
    BY <2>1 DEF SessionInv, CleanInv, SnapshotInv, LockedInv, WriteInv
<1>4. ASSUME NEW u \in Session \ {s} PROVE SessionInv(u)'
  <2>1. /\ pc'[u] = pc[u] /\ req'[u] = req[u] /\ view'[u] = view[u]
        /\ dirty'[u] = dirty[u] /\ acted'[u] = acted[u]
        /\ \A r \in Row : owner'[r] = u <=> owner[r] = u
    BY <1>4 DEF Commit, Undo, Unlocked, Inv, TypeOK
  <2>2. pc[u] # "idle" => stale[u] \cup dirty[s] \subseteq stale'[u]
    BY <1>4 DEF Commit, Written
  <2>3. \A k \in Key : k \notin dirty[s] => plan'[k] = plan[k]
    BY CommitEffect
  <2>4. \A k \in Key : owner[k] = u => k \notin dirty[s]
    BY <1>2, <1>4
  <2>5. SessionInv(u)
    BY DEF Inv
  <2>6. CleanInv(u)'
    BY <2>1, <2>5 DEF SessionInv, CleanInv
  <2>7. SnapshotInv(u)'
    BY <2>1, <2>2, <2>3, <2>5 DEF SessionInv, SnapshotInv
  <2>8. LockedInv(u)'
    <3>1. pc[u] # "idle" => req[u].key \in Key /\ req[u].key \in Row
      BY RequestType DEF Inv, Row
    <3> QED
      BY <2>1, <2>3, <2>4, <2>5, <3>1 DEF SessionInv, LockedInv
  <2>9. WriteInv(u)'
    <3>1. dirty[u] \subseteq Key /\ dirty[u] \subseteq Row
      BY <1>4 DEF Inv, TypeOK, Row
    <3>2. ASSUME pc[u] \in {"flush", "answered"}, NEW k \in dirty[u],
                 owner[k] = u \/ k \notin stale'[u]
          PROVE  LegalMove(plan'[k], view[u][k], acted[u])
      <4>1. k \in Key /\ k \notin dirty[s] /\ (owner[k] = u \/ k \notin stale[u])
        BY <2>2, <2>4, <3>1, <3>2
      <4>2. plan'[k] = plan[k]
        BY <2>3, <4>1
      <4> QED
        BY <2>5, <3>2, <4>1, <4>2 DEF SessionInv, WriteInv
    <3> QED
      BY <2>1, <2>5, <3>1, <3>2 DEF SessionInv, WriteInv
  <2> QED
    BY <2>6, <2>7, <2>8, <2>9 DEF SessionInv
<1> QED
  BY <1>1, <1>3, <1>4, CommitRows DEF Inv

LEMMA InvInit ==
    ASSUME Init
    PROVE  Inv
<1>1. TypeOK
  BY TypeInit
<1>2. RowInv /\ ExecutedOnce
  BY DEF Init, RowInv, ExecutedOnce, NoView, Nothing, NoPlan
<1>3. \A s \in Session : SessionInv(s)
  BY DEF Init, SessionInv, CleanInv, SnapshotInv, LockedInv, WriteInv
<1> QED
  BY <1>1, <1>2, <1>3 DEF Inv

LEMMA InvStep ==
    ASSUME Inv, [Next]_vars
    PROVE  Inv'
<1>1. ASSUME NEW s \in Session, Arrives(s) PROVE Inv'
  BY <1>1, BeginKeeps
<1>2. ASSUME NEW s \in Session, Progress(s) PROVE Inv'
  <2>1. CASE DispatchRaises(s)
    BY <2>1, SavepointRollbackKeeps DEF DispatchRaises
  <2>2. CASE GivesUp(s)
    BY <2>2, RollbackKeeps DEF GivesUp
  <2> QED
    BY <1>2, <2>1, <2>2, PreviewKeeps, StatusKeeps, ExecuteKeeps, DecideKeeps,
       CleanupKeeps, RetriesKeeps, CommitKeeps DEF Progress
<1>3. ASSUME NEW s \in Session, Denies(s) \/ Crash(s) PROVE Inv'
  BY <1>3, RollbackKeeps, SavepointRollbackKeeps DEF Denies, Crash
<1>4. CASE Tick
  <2>1. TypeOK'
    BY <1>4, TypeStep DEF Inv, Next
  <2> QED
    BY <1>4, <2>1 DEF Tick, Inv, RowInv, ExecutedOnce, SessionInv, CleanInv,
       SnapshotInv, LockedInv, WriteInv, rowVars, txVars
<1>5. CASE UNCHANGED vars
  <2>1. TypeOK'
    BY <1>5, TypeStep DEF Inv
  <2> QED
    BY <1>5, <2>1 DEF vars, Inv, RowInv, ExecutedOnce, SessionInv, CleanInv,
       SnapshotInv, LockedInv, WriteInv
<1> QED
  BY <1>1, <1>2, <1>3, <1>4, <1>5 DEF Next, Bound

\* The invariant that carries everything below.
THEOREM Invariance == Spec => []Inv
BY InvInit, InvStep, PTL DEF Spec

\* The change of a plan is committed exactly once if the plan says
\* "executed" and never otherwise, for any number of concurrent sessions
\* that lock, lose conflicts, are retried, fail and die.
THEOREM ExecutedOnceHolds == Spec => []ExecutedOnce
<1>1. Inv => ExecutedOnce
  BY DEF Inv
<1> QED
  BY <1>1, Invariance, PTL
-------------------------------------------------------------------------------
(***************************************************************************)
(* Seen from outside, every plan lives the life ChangePlan describes: only *)
(* commits are visible, and what a commit does to a row is a legal move.   *)
(***************************************************************************)
LEMMA LifeInit ==
    ASSUME Init
    PROVE  Life!Init
BY DEF Init, Life!Init, NoView, Nothing, NoPlan, Seen, Life!Absent

\* A legal move of the committed row, with its count, is a move of the plan.
LEMMA MoveLives ==
    ASSUME NEW old \in PlanRow, NEW new \in PlanRow, NEW executed \in BOOLEAN,
           LegalMove(old, new, executed)
    PROVE  IF executed THEN Life!Execute(Seen(old), Seen(new)) /\ new.state # "none"
           ELSE \/ Life!Forget(Seen(old), Seen(new)) /\ new.state = "none"
                \/ /\ \/ Life!Propose(Seen(old), Seen(new))
                      \/ Life!Approve(Seen(old), Seen(new))
                      \/ Life!Reject(Seen(old), Seen(new))
                      \/ Life!Expire(Seen(old), Seen(new))
                   /\ new.state # "none"
<1>1. CASE executed
  <2>1. Seen(new) = [Seen(old) EXCEPT !.state = "executed"] /\ new.state = "executed"
    BY <1>1 DEF LegalMove, Seen, PlanRow
  <2> QED
    BY <1>1, <2>1 DEF LegalMove, Life!Execute, Seen
<1>2. CASE ~ executed
  BY <1>2 DEF LegalMove, Seen, PlanRow, Life!Propose, Life!Approve, Life!Reject,
     Life!Expire, Life!Forget, Life!Absent
<1> QED
  BY <1>1, <1>2

LEMMA LifeCommit ==
    ASSUME Inv, NEW s \in Session, Commit(s)
    PROVE  Life!Next
<1> DEFINE life == [k \in Key |-> Seen(plan[k])]
<1>1. life' = [k \in Key |-> life'[k]]
  OBVIOUS
<1>2. effects' = [k \in Key |-> effects'[k]]
  BY DEF Commit
<1>3. ASSUME NEW k \in Key PROVE Life!Moves(k)
  <2>1. life[k] = Seen(plan[k]) /\ life'[k] = Seen(plan'[k])
    BY <1>3
  <2>2. CASE k \notin dirty[s]
    <3>1. plan'[k] = plan[k] /\ effects'[k] = effects[k]
      BY <1>3, <2>2, CommitEffect DEF CountEffect
    <3> QED
      BY <1>3, <2>1, <3>1 DEF Life!Moves
  <2>3. CASE k \in dirty[s]
    <3>1. LegalMove(plan[k], plan'[k], acted[s])
      BY <1>3, <2>3, CommittedMoves, CommitEffect DEF Commit
    <3>2. plan[k] \in PlanRow /\ plan'[k] \in PlanRow /\ acted[s] \in BOOLEAN
      BY <1>3, CommitEffect DEF Inv, TypeOK
    <3>3. effects'[k] = IF plan'[k].state = "none" THEN 0
                        ELSE IF acted[s] THEN effects[k] + 1 ELSE effects[k]
      BY <1>3, <2>3, CommitEffect DEF CountEffect
    <3>4. CASE acted[s]
      BY <1>3, <2>1, <3>1, <3>2, <3>3, <3>4, MoveLives DEF Life!Moves
    <3>5. CASE ~ acted[s]
      BY <1>3, <2>1, <3>1, <3>2, <3>3, <3>5, MoveLives DEF Life!Moves
    <3> QED
      BY <3>4, <3>5
  <2> QED
    BY <2>2, <2>3
<1> QED
  BY <1>1, <1>2, <1>3 DEF Life!Next

\* Steps that commit nothing are invisible.
LEMMA Invisible ==
    ASSUME Next, \A s \in Session : ~ Commit(s)
    PROVE  UNCHANGED <<plan, effects>>
<1>1. ASSUME NEW s \in Session, Arrives(s) PROVE UNCHANGED <<plan, effects>>
  BY <1>1 DEF Arrives, Begin, rowVars
<1>2. ASSUME NEW s \in Session, Progress(s) PROVE UNCHANGED <<plan, effects>>
  BY <1>2 DEF Progress, Preview, PreviewReplays, PreviewCreates, Status,
     StatusReads, StatusExpires, StatusFlushes, Execute, ExecuteLocks,
     ExecuteReturns, ExecuteExpires, ExecuteStarts, ExecuteSucceeds, ExecuteFails,
     Decide, ManagerLocks, Approves, Rejects, ManagerRefused, Cleanup,
     CleanupExpires, CleanupSkips, CleanupForgets, CleanupFails, DispatchRaises,
     Retries, GivesUp, LockPlan, AnswerUnchanged, SystemWrite, Rollback, RunAgain,
     SavepointRollback, rowVars
<1>3. ASSUME NEW s \in Session, Denies(s) \/ Crash(s) PROVE UNCHANGED <<plan, effects>>
  BY <1>3 DEF Denies, Crash, Rollback, SavepointRollback, rowVars
<1> QED
  BY <1>1, <1>2, <1>3 DEF Next, Tick, Bound, rowVars, vars

LEMMA LifeStep ==
    ASSUME Inv, [Next]_vars
    PROVE  [Life!Next]_(Life!vars)
<1>1. CASE \E s \in Session : Commit(s)
  BY <1>1, LifeCommit
<1>2. CASE Next /\ \A s \in Session : ~ Commit(s)
  BY <1>2, Invisible DEF Life!vars
<1>3. CASE UNCHANGED vars
  BY <1>3 DEF vars, Life!vars
<1> QED
  BY <1>1, <1>2, <1>3

\* ChangeControl implements ChangePlan: whatever happens inside and between
\* transactions, plans are proposed, approved, rejected, expired, executed
\* and forgotten only the way ChangePlan allows, one execution each.
THEOREM PlanLifeHolds == Spec => PlanLife
<1>1. Spec => Life!Init /\ [][Life!Next]_(Life!vars)
  BY LifeInit, LifeStep, Invariance, PTL DEF Spec
<1> QED
  BY <1>1 DEF PlanLife, Life!Spec
-------------------------------------------------------------------------------
(***************************************************************************)
(* The second invariant: event versions and snapshots.  Again a step that  *)
(* is not a commit concerns one session only.                              *)
(***************************************************************************)
News(s) == EventsInv(s) /\ AnnouncedInv(s) /\ CurrentInv(s)

OnlyConcerns(s) ==
    /\ OnlyTouches(s)
    /\ UNCHANGED <<version, bus>>
    /\ \A u \in Session \ {s} : ver'[u] = ver[u] /\ sent'[u] = sent[u]

LEMMA OthersKeepNews ==
    ASSUME TypeOK, NewsInv, NEW s \in Session, OnlyConcerns(s), News(s)'
    PROVE  NewsInv'
<1>1. ASSUME NEW u \in Session \ {s} PROVE News(u)'
  <2>1. News(u)
    BY DEF NewsInv, News
  <2>2. /\ plan' = plan /\ version' = version
        /\ pc'[u] = pc[u] /\ view'[u] = view[u] /\ dirty'[u] = dirty[u]
        /\ stale'[u] = stale[u] /\ ver'[u] = ver[u] /\ sent'[u] = sent[u]
        /\ \A r \in Row : owner'[r] = u <=> owner[r] = u
    BY <1>1 DEF OnlyConcerns, OnlyTouches
  <2>3. AccessRow \in Row /\ dirty[u] \subseteq Row
    BY <1>1 DEF TypeOK, Row
  <2>4. EventsInv(u)'
    BY <2>1, <2>2, <2>3 DEF News, EventsInv
  <2>5. AnnouncedInv(u)'
    BY <2>1, <2>2, <2>3 DEF News, AnnouncedInv
  <2>6. CurrentInv(u)'
    BY <2>1, <2>2 DEF News, CurrentInv
  <2> QED
    BY <2>4, <2>5, <2>6 DEF News
<1>2. \A k \in Key : bus'[k] <= version'
  BY DEF OnlyConcerns, NewsInv
<1> QED
  BY <1>1, <1>2 DEF NewsInv, News

\* An undone transaction has no events and, if it starts again, the newest rows.
LEMMA UndoNews ==
    ASSUME TypeOK, NewsInv, NEW s \in Session, NEW snapshot,
           Undo(s, snapshot), UNCHANGED rowVars,
           NEW p \in {"idle", "begun", "refused", "failed"}, pc' = [pc EXCEPT ![s] = p],
           p = "begun" => snapshot = plan,
           \A u \in Session \ {s} : req'[u] = req[u] /\ stale'[u] = stale[u]
    PROVE  NewsInv'
<1>1. OnlyConcerns(s)
  BY DEF OnlyConcerns, OnlyTouches, Undo, Unlocked, rowVars, TypeOK
<1>2. /\ pc'[s] = p /\ dirty'[s] = {} /\ view'[s] = snapshot /\ plan' = plan
      /\ \A k \in Key : sent'[s][k] = 0
      /\ \A r \in Row : owner'[r] # s
  BY DEF Undo, Unlocked, Nothing, rowVars, TypeOK
<1>3. News(s)'
  <2>1. AccessRow \in Row
    BY DEF Row
  <2> QED
    BY <1>2, <2>1 DEF News, EventsInv, AnnouncedInv, CurrentInv
<1> QED
  BY <1>1, <1>3, OthersKeepNews

LEMMA RollbackNews ==
    ASSUME TypeOK, NewsInv, NEW s \in Session, Rollback(s)
    PROVE  NewsInv'
<1>1. /\ Undo(s, NoView) /\ UNCHANGED rowVars
      /\ pc' = [pc EXCEPT ![s] = "idle"]
      /\ \A u \in Session \ {s} : req'[u] = req[u] /\ stale'[u] = stale[u]
  BY DEF Rollback, TypeOK
<1> QED
  BY <1>1, UndoNews

LEMMA SavepointRollbackNews ==
    ASSUME TypeOK, NewsInv, NEW s \in Session, NEW outcome \in {"refused", "failed"},
           SavepointRollback(s, outcome)
    PROVE  NewsInv'
<1>1. /\ Undo(s, NoView) /\ UNCHANGED rowVars
      /\ pc' = [pc EXCEPT ![s] = outcome]
      /\ \A u \in Session \ {s} : req'[u] = req[u] /\ stale'[u] = stale[u]
  BY DEF SavepointRollback
<1> QED
  BY <1>1, UndoNews

LEMMA RetriesNews ==
    ASSUME TypeOK, NewsInv, NEW s \in Session, Retries(s)
    PROVE  NewsInv'
<1>1. RunAgain(s)
  BY DEF Retries
<1>2. /\ Undo(s, plan) /\ UNCHANGED rowVars
      /\ pc' = [pc EXCEPT ![s] = "begun"]
      /\ \A u \in Session \ {s} : req'[u] = req[u] /\ stale'[u] = stale[u]
  BY <1>1 DEF RunAgain, TypeOK
<1> QED
  BY <1>2, UndoNews

LEMMA BeginNews ==
    ASSUME Inv, NewsInv, NEW s \in Session, Arrives(s)
    PROVE  NewsInv'
<1>0. TypeOK /\ CleanInv(s)
  BY DEF Inv, SessionInv
<1>1. PICK r \in Requests(s) : Begin(s, r)
  BY DEF Arrives
<1>2. OnlyConcerns(s)
  BY <1>0, <1>1 DEF OnlyConcerns, OnlyTouches, Begin, rowVars, TypeOK
<1>3. /\ pc'[s] = "begun" /\ view'[s] = plan /\ dirty' = dirty /\ dirty[s] = {}
      /\ UNCHANGED <<plan, version, owner, ver, sent>>
  BY <1>0, <1>1 DEF CleanInv, Begin, rowVars, TypeOK
<1>4. News(s)'
  BY <1>3 DEF NewsInv, News, EventsInv, AnnouncedInv, CurrentInv
<1> QED
  BY <1>0, <1>2, <1>4, OthersKeepNews

\* A step that writes no row, takes at most locks of plans and goes on.
LEMMA LockingNews ==
    ASSUME TypeOK, NewsInv, NEW s \in Session, NEW next,
           pc[s] \notin {"idle", "refused", "failed"}, next # "executing",
           Goto(s, next), UNCHANGED <<rowVars, view, dirty, stale, ver, sent, req, acted>>,
           NEW rows \in SUBSET Key, \A k \in rows : Free(s, k),
           owner' = Locked(s, rows)
    PROVE  NewsInv'
<1>1. AccessRow \in Row /\ AccessRow \notin rows /\ rows \subseteq Row
  BY DEF Row
<1>2. \A r \in Row : owner'[r] = IF r \in rows THEN s ELSE owner[r]
  BY DEF Locked
<1>3. OnlyConcerns(s)
  BY <1>1, <1>2 DEF OnlyConcerns, OnlyTouches, Goto, Free, rowVars, TypeOK
<1>4. pc'[s] # "executing" /\ owner'[AccessRow] = owner[AccessRow]
  BY <1>1, <1>2 DEF Goto, TypeOK
<1>5. dirty[s] \subseteq Row /\ News(s)
  BY DEF TypeOK, Row, NewsInv, News
<1>6. News(s)'
  <2>1. UNCHANGED <<plan, version, view, dirty, stale, ver, sent>>
    BY DEF rowVars
  <2>2. EventsInv(s)'
    BY <1>4, <1>5, <2>1 DEF News, EventsInv
  <2>3. AnnouncedInv(s)'
    <3>1. \A r \in Row : owner[r] = s => owner'[r] = s
      BY <1>2
    <3> QED
      BY <1>5, <2>1, <3>1 DEF News, AnnouncedInv
  <2>4. CurrentInv(s)'
    BY <1>5, <2>1 DEF News, CurrentInv
  <2> QED
    BY <2>2, <2>3, <2>4 DEF News
<1> QED
  BY <1>3, <1>6, OthersKeepNews

LEMMA AnswerNews ==
    ASSUME TypeOK, NewsInv, NEW s \in Session, pc[s] \in {"begun", "locked"},
           AnswerUnchanged(s)
    PROVE  NewsInv'
<1>1. owner' = Locked(s, {})
  BY DEF AnswerUnchanged, Locked, TypeOK
<1> QED
  BY <1>1, LockingNews DEF AnswerUnchanged, txVars

LEMMA LockPlanNews ==
    ASSUME TypeOK, NewsInv, NEW s \in Session, pc[s] = "begun", LockPlan(s)
    PROVE  NewsInv'
<1>1. req[s].key \in Key
  BY RequestType
<1> QED
  BY <1>1, LockingNews DEF LockPlan, CanWrite, txVars

\* A row is written and its event counted: the access row is held from now on.
LEMMA WriteNews ==
    ASSUME Inv, NewsInv, NEW s \in Session, NEW k \in Key, NEW row, NEW next,
           pc[s] \notin {"idle", "refused", "failed"},
           SystemWrite(s, k, row), Goto(s, next), UNCHANGED acted
    PROVE  NewsInv'
<1>0. TypeOK
  BY DEF Inv
<1>1. AccessRow \in Row /\ k # AccessRow /\ News(s)
  BY DEF Row, NewsInv, News
<1>2. /\ \A r \in Row : owner'[r] = IF r = AccessRow THEN s ELSE owner[r]
      /\ owner[AccessRow] \in {s, Nobody}
      /\ ver'[s] = Version(s) + 1
      /\ \A j \in Key : sent'[s][j] = IF j = k THEN Version(s) + 1 ELSE sent[s][j]
      /\ \A j \in Key : j # k => view'[s][j] = view[s][j]
      /\ dirty'[s] = dirty[s] \cup {k}
      /\ UNCHANGED <<plan, version, bus, stale>>
  BY <1>0 DEF SystemWrite, CanWrite, Free, Locked, rowVars, TypeOK
<1>3. OnlyConcerns(s)
  <2>1. OnlyTouches(s)
    BY WriteTouches
  <2> QED
    BY <1>0, <1>2, <2>1 DEF OnlyConcerns, SystemWrite, TypeOK
<1>4. /\ version \in Nat /\ ver[s] \in Nat /\ Version(s) \in Nat
      /\ \A j \in Key : sent[s][j] \in Nat
  BY <1>0 DEF TypeOK, Version
<1>5. version <= Version(s)
  BY <1>1, <1>4 DEF News, EventsInv, Version
<1>6. \A j \in Key : sent[s][j] # 0 => version < sent[s][j] /\ sent[s][j] <= Version(s)
  BY <1>1 DEF News, EventsInv, Version
<1>7. EventsInv(s)'
  <2>1. ASSUME NEW i \in Key, sent'[s][i] # 0
        PROVE  version < sent'[s][i] /\ sent'[s][i] <= ver'[s]
    BY <1>2, <1>4, <1>5, <1>6, <2>1
  <2>2. ASSUME NEW i \in Key, NEW j \in Key, sent'[s][i] # 0, sent'[s][j] = sent'[s][i]
        PROVE  j = i
    <3>1. CASE i = k \/ j = k
      BY <1>2, <1>4, <1>6, <2>2, <3>1
    <3>2. CASE i # k /\ j # k
      BY <1>1, <1>2, <2>2, <3>2 DEF News, EventsInv
    <3> QED
      BY <3>1, <3>2
  <2>3. owner'[AccessRow] = s /\ version <= ver'[s] /\ version' = version
    BY <1>1, <1>2, <1>4, <1>5
  <2> QED
    BY <2>1, <2>2, <2>3 DEF EventsInv
<1>8. AnnouncedInv(s)'
  <2>1. ASSUME NEW j \in dirty'[s], j # k
        PROVE  \/ sent'[s][j] # 0
               \/ view'[s][j].state = "none"
               \/ s \in Caller /\ owner'[j] = s /\ plan'[j].state = "none"
    <3>1. j \in dirty[s] /\ j \in Key /\ j \in Row /\ j # AccessRow
      BY <1>0, <1>2, <2>1 DEF TypeOK, Row
    <3> QED
      BY <1>1, <1>2, <2>1, <3>1 DEF News, AnnouncedInv
  <2>2. sent'[s][k] # 0
    BY <1>2, <1>4
  <2> QED
    BY <2>1, <2>2 DEF AnnouncedInv
<1>9. CurrentInv(s)'
  BY <1>1, <1>2 DEF News, CurrentInv
<1> QED
  BY <1>0, <1>3, <1>7, <1>8, <1>9, OthersKeepNews DEF News

LEMMA PreviewNews ==
    ASSUME Inv, NewsInv, NEW s \in Session, Preview(s)
    PROVE  NewsInv'
<1>0. TypeOK
  BY DEF Inv
<1>1. CASE PreviewReplays(s)
  BY <1>0, <1>1, AnswerNews DEF PreviewReplays, Serves
<1>2. CASE PreviewCreates(s)
  <2> DEFINE k == req[s].key
  <2>1. pc[s] = "begun" /\ req[s].op = "preview"
    BY <1>2 DEF PreviewCreates, Serves
  <2>2. k \in Key /\ k \in Row /\ AccessRow \in Row /\ k # AccessRow /\ s \in Caller
    BY <1>0, <2>1 DEF TypeOK, Row, Requests, CallerRequest, ManagerRequest, CleanupRequest
  <2>3. dirty[s] = {} /\ News(s)
    BY <2>1 DEF Inv, SessionInv, CleanInv, NewsInv, News
  <2>4. /\ OnlyConcerns(s) /\ pc'[s] = "answered" /\ dirty'[s] = {k}
        /\ owner'[k] = s /\ owner'[AccessRow] = owner[AccessRow]
        /\ \A j \in Key : j # k => view'[s][j] = view[s][j]
        /\ UNCHANGED <<plan, version, stale, ver, sent>>
    BY <1>0, <1>2, <2>2 DEF OnlyConcerns, OnlyTouches, PreviewCreates, Free, Locked,
       Goto, rowVars, TypeOK
  <2>5. plan[k].state = "none"
    BY <1>2 DEF PreviewCreates
  <2>6. EventsInv(s)'
    BY <2>3, <2>4 DEF News, EventsInv
  <2>7. AnnouncedInv(s)'
    BY <2>2, <2>4, <2>5 DEF AnnouncedInv
  <2>8. CurrentInv(s)'
    BY <2>1, <2>3, <2>4 DEF News, CurrentInv
  <2> QED
    BY <1>0, <2>4, <2>6, <2>7, <2>8, OthersKeepNews DEF News
<1> QED
  BY <1>1, <1>2 DEF Preview

LEMMA StatusNews ==
    ASSUME Inv, NewsInv, NEW s \in Session, Status(s)
    PROVE  NewsInv'
<1>0. TypeOK
  BY DEF Inv
<1>1. CASE StatusReads(s)
  BY <1>0, <1>1, AnswerNews DEF StatusReads, Serves
<1>2. CASE StatusExpires(s)
  <2>1. pc[s] = "begun" /\ req[s].key \in Key
    BY <1>0, <1>2, RequestType DEF StatusExpires, Serves
  <2> QED
    BY <1>2, <2>1, WriteNews DEF StatusExpires
<1>3. CASE StatusFlushes(s)
  <2>1. pc[s] = "flush" /\ req[s].key \in Key
    BY <1>0, <1>3, RequestType DEF StatusFlushes, Serves
  <2> QED
    BY <1>0, <1>3, <2>1, LockingNews DEF StatusFlushes, CanWrite, txVars
<1> QED
  BY <1>1, <1>2, <1>3 DEF Status

LEMMA ExecuteNews ==
    ASSUME Inv, NewsInv, NEW s \in Session, Execute(s)
    PROVE  NewsInv'
<1> DEFINE k == req[s].key
<1>0. TypeOK /\ pc[s] \in {"begun", "locked", "executing"}
  BY DEF Inv, Execute, ExecuteLocks, ExecuteReturns, ExecuteExpires, ExecuteStarts,
         ExecuteSucceeds, ExecuteFails, Serves
<1>1. k \in Key
  BY <1>0, RequestType
<1>2. CASE ExecuteLocks(s)
  BY <1>0, <1>2, LockPlanNews DEF ExecuteLocks, Serves
<1>3. CASE ExecuteReturns(s)
  BY <1>0, <1>3, AnswerNews DEF ExecuteReturns, Serves
<1>4. CASE ExecuteExpires(s)
  BY <1>0, <1>1, <1>4, WriteNews DEF ExecuteExpires
<1>5. CASE ExecuteStarts(s)
  BY <1>0, <1>1, <1>5, WriteNews DEF ExecuteStarts
<1>6. CASE ExecuteSucceeds(s)
  <2>1. /\ pc[s] = "executing" /\ dirty[s] = {k} /\ News(s)
        /\ owner[AccessRow] = s
    BY <1>6 DEF ExecuteSucceeds, Serves, Inv, SessionInv, LockedInv, NewsInv, News, EventsInv
  <2>2. /\ OnlyConcerns(s) /\ pc'[s] = "answered"
        /\ ver'[s] = ver[s] + 2
        /\ \A j \in Key : sent'[s][j] = IF j = k THEN ver[s] + 1 ELSE sent[s][j]
        /\ \A j \in Key : j # k => view'[s][j] = view[s][j]
        /\ UNCHANGED <<plan, version, owner, dirty, stale>>
    BY <1>0, <1>1, <1>6 DEF OnlyConcerns, OnlyTouches, ExecuteSucceeds, Goto, rowVars, TypeOK
  <2>3. /\ version \in Nat /\ ver[s] \in Nat /\ version <= ver[s]
        /\ \A j \in Key : sent[s][j] \in Nat
        /\ \A j \in Key : sent[s][j] # 0 => version < sent[s][j] /\ sent[s][j] <= ver[s]
    BY <1>0, <2>1 DEF TypeOK, News, EventsInv
  <2>4. EventsInv(s)'
    <3>1. ASSUME NEW i \in Key, sent'[s][i] # 0
          PROVE  version < sent'[s][i] /\ sent'[s][i] <= ver'[s]
      BY <2>2, <2>3, <3>1
    <3>2. ASSUME NEW i \in Key, NEW j \in Key, sent'[s][i] # 0, sent'[s][j] = sent'[s][i]
          PROVE  j = i
      <4>1. CASE i = k \/ j = k
        BY <2>2, <2>3, <3>2, <4>1
      <4>2. CASE i # k /\ j # k
        BY <2>1, <2>2, <3>2, <4>2 DEF News, EventsInv
      <4> QED
        BY <4>1, <4>2
    <3> QED
      BY <2>1, <2>2, <2>3, <3>1, <3>2 DEF EventsInv
  <2>5. AnnouncedInv(s)'
    BY <1>1, <2>1, <2>2, <2>3 DEF AnnouncedInv
  <2>6. CurrentInv(s)'
    BY <2>1, <2>2 DEF News, CurrentInv
  <2> QED
    BY <1>0, <2>2, <2>4, <2>5, <2>6, OthersKeepNews DEF News
<1>7. CASE ExecuteFails(s)
  BY <1>0, <1>7, SavepointRollbackNews DEF ExecuteFails
<1> QED
  BY <1>2, <1>3, <1>4, <1>5, <1>6, <1>7 DEF Execute

LEMMA DecideNews ==
    ASSUME Inv, NewsInv, NEW s \in Session, Decide(s)
    PROVE  NewsInv'
<1>0. TypeOK
  BY DEF Inv
<1>1. CASE ManagerLocks(s)
  BY <1>0, <1>1, LockPlanNews DEF ManagerLocks
<1>2. CASE Approves(s)
  <2>1. pc[s] = "locked" /\ req[s].key \in Key
    BY <1>0, <1>2, RequestType DEF Approves, Serves
  <2> QED
    BY <1>2, <2>1, WriteNews DEF Approves
<1>3. CASE Rejects(s)
  <2>1. pc[s] = "locked" /\ req[s].key \in Key
    BY <1>0, <1>3, RequestType DEF Rejects, Serves
  <2> QED
    BY <1>3, <2>1, WriteNews DEF Rejects
<1>4. CASE ManagerRefused(s)
  BY <1>0, <1>4, RollbackNews DEF ManagerRefused
<1> QED
  BY <1>1, <1>2, <1>3, <1>4 DEF Decide

LEMMA CleanupNews ==
    ASSUME Inv, NewsInv, NEW s \in Session, Cleanup(s)
    PROVE  NewsInv'
<1>0. TypeOK /\ SessionInv(s) /\ News(s) /\ AccessRow \in Row
  BY DEF Inv, NewsInv, News, Row
<1>1. CASE CleanupExpires(s)
  <2>1. pc[s] = "begun"
    BY <1>1 DEF CleanupExpires, Serves
  <2>2. PICK rank \in Ranking(Overdue(s)) :
          sent' = [sent EXCEPT ![s] =
                     [k \in Key |-> IF k \in Overdue(s) THEN version + rank[k] ELSE 0]]
    BY <1>1 DEF CleanupExpires
  <2>3. Overdue(s) \subseteq Key /\ IsFiniteSet(Overdue(s))
    BY FS_Subset DEF Overdue
  <2>4. Cardinality(Overdue(s)) \in Nat
    BY <2>3, FS_CardinalityType
  <2>5. /\ \A k \in Overdue(s) : rank[k] \in 1 .. Cardinality(Overdue(s))
        /\ \A j, k \in Overdue(s) : rank[j] = rank[k] => j = k
    BY <2>2 DEF Ranking
  <2>6. /\ OnlyConcerns(s) /\ pc'[s] = "flush" /\ dirty'[s] = Overdue(s)
        /\ owner'[AccessRow] = s /\ ver'[s] = version + Cardinality(Overdue(s))
        /\ \A k \in Key : sent'[s][k] = IF k \in Overdue(s) THEN version + rank[k] ELSE 0
        /\ \A k \in Key : k \notin Overdue(s) => view'[s][k] = view[s][k]
        /\ UNCHANGED <<plan, version, stale>>
    BY <1>0, <1>1, <2>2 DEF OnlyConcerns, OnlyTouches, CleanupExpires, CanWrite, Free,
       Locked, Goto, rowVars, TypeOK
  <2>7. version \in Nat /\ dirty[s] = {}
    BY <1>0, <2>1 DEF TypeOK, SessionInv, CleanInv
  <2>8. EventsInv(s)'
    <3>1. ASSUME NEW k \in Key, sent'[s][k] # 0
          PROVE  /\ version < sent'[s][k] /\ sent'[s][k] <= ver'[s]
                 /\ \A j \in Key : sent'[s][j] = sent'[s][k] => j = k
      <4>1. k \in Overdue(s)
        BY <2>6, <3>1
      <4>2. \A j \in Key : sent'[s][j] = sent'[s][k] => j \in Overdue(s) /\ rank[j] = rank[k]
        BY <2>4, <2>5, <2>6, <2>7, <3>1, <4>1
      <4> QED
        BY <2>4, <2>5, <2>6, <2>7, <4>1, <4>2
    <3> QED
      BY <2>4, <2>6, <2>7, <3>1 DEF EventsInv
  <2>9. AnnouncedInv(s)'
    BY <2>3, <2>4, <2>5, <2>6, <2>7 DEF AnnouncedInv
  <2>10. CurrentInv(s)'
    BY <1>0, <2>1, <2>6, <2>7 DEF News, CurrentInv
  <2> QED
    BY <1>0, <2>6, <2>8, <2>9, <2>10, OthersKeepNews DEF News
<1>2. CASE CleanupSkips(s)
  <2>1. pc[s] = "begun" /\ owner' = Locked(s, {})
    BY <1>0, <1>2 DEF CleanupSkips, Serves, Locked, TypeOK
  <2> QED
    BY <1>0, <1>2, <2>1, LockingNews DEF CleanupSkips, txVars
<1>3. CASE CleanupForgets(s)
  <2> DEFINE rows == dirty[s] \cup Forgettable(s)
  <2>1. pc[s] = "flush" /\ rows \subseteq Key /\ rows \subseteq Row
    BY <1>0, <1>3 DEF CleanupForgets, Serves, Forgettable, TypeOK, Row
  <2>2. /\ OnlyConcerns(s) /\ pc'[s] = "answered" /\ dirty'[s] = rows
        /\ owner'[AccessRow] = owner[AccessRow]
        /\ \A k \in Key : view'[s][k] = IF k \in Forgettable(s) THEN NoPlan
                                        ELSE view[s][k]
        /\ \A k \in Key : owner[k] = s => owner'[k] = s
        /\ UNCHANGED <<plan, version, stale, ver, sent>>
    <3>1. \A k \in rows : owner[k] \in {s, Nobody}
      BY <1>3 DEF CleanupForgets, CanWrite, Free
    <3>2. AccessRow \notin rows
      BY <2>1
    <3>3. \A r \in Row : owner'[r] = IF r \in rows \/ owner[r] = s THEN s ELSE owner[r]
      BY <1>3 DEF CleanupForgets, Locked
    <3>4. \A u \in Session \ {s}, r \in Row : owner'[r] = u <=> owner[r] = u
      BY <3>1, <3>3
    <3>5. UNCHANGED <<plan, effects, version, bus, req, stale, ver, sent, acted>>
      BY <1>3 DEF CleanupForgets, rowVars
    <3>6. OnlyConcerns(s)
      BY <1>0, <1>3, <3>4, <3>5 DEF OnlyConcerns, OnlyTouches, CleanupForgets, Goto, TypeOK
    <3>7. pc'[s] = "answered" /\ dirty'[s] = rows
      BY <1>0, <1>3 DEF CleanupForgets, Goto, TypeOK
    <3>8. \A k \in Key : view'[s][k] = IF k \in Forgettable(s) THEN NoPlan ELSE view[s][k]
      BY <1>0, <1>3 DEF CleanupForgets, TypeOK
    <3>9. \A k \in Key : k \in Row
      BY DEF Row
    <3> QED
      BY <1>0, <3>2, <3>3, <3>5, <3>6, <3>7, <3>8, <3>9
  <2>3. EventsInv(s)'
    BY <1>0, <2>2 DEF News, EventsInv
  <2>4. AnnouncedInv(s)'
    <3>1. ASSUME NEW k \in rows
          PROVE  \/ sent'[s][k] # 0
                 \/ view'[s][k].state = "none"
                 \/ s \in Caller /\ owner'[k] = s /\ plan'[k].state = "none"
      <4>1. CASE k \in Forgettable(s)
        BY <2>1, <2>2, <4>1 DEF NoPlan
      <4>2. CASE k \notin Forgettable(s)
        <5>1. k \in dirty[s] /\ k \in Key
          BY <2>1, <4>2
        <5> QED
          BY <1>0, <2>2, <4>2, <5>1 DEF News, AnnouncedInv
      <4> QED
        BY <4>1, <4>2
    <3> QED
      BY <2>2, <3>1 DEF AnnouncedInv
  <2>5. CurrentInv(s)'
    BY <1>0, <2>1, <2>2 DEF News, CurrentInv
  <2> QED
    BY <1>0, <2>2, <2>3, <2>4, <2>5, OthersKeepNews DEF News
<1>4. CASE CleanupFails(s)
  BY <1>0, <1>4, RollbackNews DEF CleanupFails
<1> QED
  BY <1>1, <1>2, <1>3, <1>4 DEF Cleanup

\* A commit that leaves the access row alone only deletes plans.
LEMMA SilentCommit ==
    ASSUME Inv, NewsInv, NEW s \in Session, Commit(s), AccessRow \notin Written(s),
           NEW k \in dirty[s]
    PROVE  view[s][k].state = "none"
<1>1. s \notin Caller /\ owner[AccessRow] # s
  BY DEF Written
<1>2. k \in Key /\ EventsInv(s) /\ AnnouncedInv(s)
  BY DEF Inv, TypeOK, NewsInv
<1> QED
  BY <1>1, <1>2 DEF EventsInv, AnnouncedInv

\* The version a commit leaves: nobody else has queued events meanwhile.
LEMMA CommitVersion ==
    ASSUME TypeOK, NewsInv, NEW s \in Session, Commit(s)
    PROVE  /\ version \in Nat /\ version' \in Nat /\ version <= version'
           /\ \A k \in Key : bus'[k] = IF sent[s][k] # 0 THEN sent[s][k] ELSE bus[k]
           /\ \A k \in Key : sent[s][k] # 0 => sent[s][k] <= version'
           /\ \A u \in Session \ {s} : owner[AccessRow] = u => version' = version
<1>1. EventsInv(s)
  BY DEF NewsInv
<1>2. version' = Version(s) /\ version \in Nat /\ ver[s] \in Nat
  BY DEF Commit, TypeOK
<1>3. \A k \in Key : bus'[k] = IF sent[s][k] # 0 THEN sent[s][k] ELSE bus[k]
  BY DEF Commit
<1> QED
  BY <1>1, <1>2, <1>3 DEF EventsInv, Version

LEMMA CommitNews ==
    ASSUME Inv, NewsInv, NEW s \in Session, Commit(s)
    PROVE  NewsInv'
<1>0. TypeOK /\ AccessRow \in Row
  BY DEF Inv, Row
<1>1. \A k \in Key : bus'[k] <= version'
  <2>1. ASSUME NEW k \in Key PROVE bus'[k] <= version'
    <3>1. bus[k] \in Nat /\ sent[s][k] \in Nat /\ bus[k] <= version
      BY <1>0, <2>1 DEF TypeOK, NewsInv
    <3> QED
      BY <1>0, <2>1, <3>1, CommitVersion
  <2> QED
    BY <2>1
<1>2. News(s)'
  <2>1. /\ pc'[s] = "idle" /\ dirty'[s] = {} /\ \A k \in Key : sent'[s][k] = 0
        /\ owner'[AccessRow] # s
    BY <1>0 DEF Commit, Undo, Unlocked, Nothing, TypeOK
  <2> QED
    BY <2>1 DEF News, EventsInv, AnnouncedInv, CurrentInv
<1>3. ASSUME NEW u \in Session \ {s} PROVE News(u)'
  <2>1. /\ pc'[u] = pc[u] /\ view'[u] = view[u] /\ dirty'[u] = dirty[u]
        /\ ver'[u] = ver[u] /\ sent'[u] = sent[u]
        /\ \A r \in Row : owner'[r] = u <=> owner[r] = u
    BY <1>0, <1>3 DEF Commit, Undo, Unlocked, TypeOK
  <2>2. News(u)
    BY DEF NewsInv, News
  <2>3. pc[u] # "idle" => stale'[u] = stale[u] \cup Written(s)
    BY <1>3 DEF Commit
  <2>4. \A k \in dirty[s] : k \in Key /\ owner[k] = s
    BY CommittedMoves DEF Commit
  <2>5. \A k \in Key : plan'[k] = IF k \in dirty[s] THEN view[s][k] ELSE plan[k]
    BY CommitEffect
  <2>6. EventsInv(u)'
    BY <1>0, <1>3, <2>1, <2>2, CommitVersion DEF News, EventsInv
  <2>7. AnnouncedInv(u)'
    <3>1. dirty[u] \subseteq Key /\ dirty[u] \subseteq Row
      BY <1>0, <1>3 DEF TypeOK, Row
    <3>2. \A k \in Key : owner[k] = u => plan'[k] = plan[k]
      BY <1>3, <2>4, <2>5
    <3> QED
      BY <2>1, <2>2, <3>1, <3>2 DEF News, AnnouncedInv
  <2>8. CurrentInv(u)'
    <3>1. SUFFICES ASSUME pc[u] \notin {"idle", "refused", "failed"},
                          AccessRow \notin stale'[u], NEW k \in Key, k \notin dirty[u]
                   PROVE  view[u][k] = plan'[k] \/ plan'[k].state = "none"
      BY <2>1 DEF CurrentInv
    <3>2. AccessRow \notin stale[u] /\ AccessRow \notin Written(s)
      BY <2>3, <3>1
    <3>3. CASE k \in dirty[s]
      BY <2>5, <3>2, <3>3, SilentCommit
    <3>4. CASE k \notin dirty[s]
      BY <2>2, <2>5, <3>1, <3>2, <3>4 DEF News, CurrentInv
    <3> QED
      BY <3>3, <3>4
  <2> QED
    BY <2>6, <2>7, <2>8 DEF News
<1> QED
  BY <1>1, <1>2, <1>3 DEF NewsInv, News

LEMMA NewsInit ==
    ASSUME Init
    PROVE  NewsInv
<1>1. AccessRow \in Row
  BY DEF Row
<1> QED
  BY <1>1 DEF Init, NewsInv, EventsInv, AnnouncedInv, CurrentInv, Nothing, Session

LEMMA NewsStep ==
    ASSUME Inv, NewsInv, [Next]_vars
    PROVE  NewsInv'
<1>0. TypeOK
  BY DEF Inv
<1>1. ASSUME NEW s \in Session, Arrives(s) PROVE NewsInv'
  BY <1>1, BeginNews
<1>2. ASSUME NEW s \in Session, Progress(s) PROVE NewsInv'
  <2>1. CASE DispatchRaises(s)
    BY <1>0, <2>1, SavepointRollbackNews DEF DispatchRaises
  <2>2. CASE GivesUp(s)
    BY <1>0, <2>2, RollbackNews DEF GivesUp
  <2> QED
    BY <1>0, <1>2, <2>1, <2>2, PreviewNews, StatusNews, ExecuteNews, DecideNews,
       CleanupNews, RetriesNews, CommitNews DEF Progress
<1>3. ASSUME NEW s \in Session, Denies(s) \/ Crash(s) PROVE NewsInv'
  BY <1>0, <1>3, RollbackNews, SavepointRollbackNews DEF Denies, Crash
<1>4. CASE Tick
  BY <1>4 DEF Tick, NewsInv, EventsInv, AnnouncedInv, CurrentInv, rowVars, txVars
<1>5. CASE UNCHANGED vars
  BY <1>5 DEF vars, NewsInv, EventsInv, AnnouncedInv, CurrentInv
<1> QED
  BY <1>1, <1>2, <1>3, <1>4, <1>5 DEF Next, Bound

\* The invariant of versions and snapshots, which rests on the first one.
THEOREM NewsInvariance == Spec => [](Inv /\ NewsInv)
<1>1. Init => Inv /\ NewsInv
  BY InvInit, NewsInit
<1>2. Inv /\ NewsInv /\ [Next]_vars => Inv' /\ NewsInv'
  BY InvStep, NewsStep
<1> QED
  BY <1>1, <1>2, PTL DEF Spec

\* Whatever is answered by a transaction that commits was true when it
\* committed: changes.status and changes.preview need no lock for that, since
\* whoever changes a plan and does not delete it writes the access row too.
THEOREM AnswersAreCurrentHolds == Spec => []AnswersAreCurrent
<1>1. ASSUME NewsInv, NEW s \in Caller, pc[s] = "answered", Committable(s),
             req[s].key \in Key
      PROVE  req[s].key \in dirty[s] \/ Mine(s) = plan[req[s].key]
  <2>1. CurrentInv(s)
    BY <1>1 DEF NewsInv, Session
  <2>2. AccessRow \notin stale[s] /\ ~ RowGone(s)
    BY <1>1 DEF Committable, CanWrite
  <2> QED
    BY <1>1, <2>1, <2>2 DEF CurrentInv, RowGone, Mine
<1>2. Inv /\ NewsInv => AnswersAreCurrent
  <2>1. SUFFICES ASSUME Inv, NewsInv PROVE AnswersAreCurrent
    OBVIOUS
  <2>2. \A s \in Caller : pc[s] = "answered" => req[s].key \in Key
    BY <2>1, RequestType DEF Inv, Session
  <2> QED
    BY <1>1, <2>1, <2>2 DEF AnswersAreCurrent
<1> QED
  BY <1>2, NewsInvariance, PTL

\* The events of a commit have versions above those of all events sent before
\* and different ones, although a session counts its versions long before it
\* commits: a consumer that drops version <= last drops no news.
THEOREM EventsInOrderHolds == Spec => EventsInOrder
<1> DEFINE Ordered == \A s \in Session : Commit(s) =>
                        \A k, j \in Key : sent[s][k] # 0 =>
                            sent[s][k] > bus[j] /\ (j # k => sent[s][k] # sent[s][j])
<1>1. ASSUME Inv, NewsInv, NEW s \in Session, NEW k \in Key, NEW j \in Key,
             sent[s][k] # 0
      PROVE  sent[s][k] > bus[j] /\ (j # k => sent[s][k] # sent[s][j])
  <2>1. /\ sent[s][k] \in Nat /\ bus[j] \in Nat /\ version \in Nat
        /\ bus[j] <= version /\ EventsInv(s)
    BY <1>1 DEF Inv, TypeOK, NewsInv
  <2> QED
    BY <1>1, <2>1 DEF EventsInv
<1>2. Inv /\ NewsInv /\ [Next]_vars => [Ordered]_vars
  BY <1>1
<1>3. Spec => [][Ordered]_vars
  BY <1>2, NewsInvariance, PTL DEF Spec
<1> QED
  BY <1>3 DEF EventsInOrder

\* A plan that exists never changes its state without an event of its own that
\* leaves with the same commit, with a version its consumers have not seen.
THEOREM NoSilentChangeHolds == Spec => NoSilentChange
<1> DEFINE Announced ==
             \A k \in Key :
                 plan[k].state # "none" /\ plan'[k].state \notin {"none", plan[k].state}
                     => bus'[k] > bus[k]
<1>1. ASSUME Inv, NewsInv, NEW s \in Session, Commit(s), NEW k \in Key,
             plan[k].state # "none", plan'[k].state \notin {"none", plan[k].state}
      PROVE  bus'[k] > bus[k]
  <2>1. k \in dirty[s] /\ plan'[k] = view[s][k]
    BY <1>1, CommitEffect
  <2>2. EventsInv(s) /\ AnnouncedInv(s)
    BY <1>1 DEF NewsInv
  <2>3. sent[s][k] # 0
    BY <1>1, <2>1, <2>2 DEF AnnouncedInv
  <2>4. sent[s][k] \in Nat /\ bus[k] \in Nat /\ version \in Nat /\ bus[k] <= version
    BY <1>1 DEF Inv, TypeOK, NewsInv
  <2>5. bus'[k] = sent[s][k]
    BY <1>1, <2>3, CommitVersion DEF Inv
  <2> QED
    BY <1>1, <2>2, <2>3, <2>4, <2>5 DEF EventsInv
<1>2. ASSUME Next, \A s \in Session : ~ Commit(s) PROVE Announced
  BY <1>2, Invisible
<1>3. Inv /\ NewsInv /\ [Next]_vars => [Announced]_vars
  BY <1>1, <1>2
<1>4. Spec => [][Announced]_vars
  BY <1>3, NewsInvariance, PTL DEF Spec
<1> QED
  BY <1>4 DEF NoSilentChange
===============================================================================
