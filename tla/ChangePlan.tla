------------------------------ MODULE ChangePlan ------------------------------
(***************************************************************************)
(* What the change workflow promises about every plan, whatever the        *)
(* transactions, locks and crashes underneath: the life of one             *)
(* connect.mcp.approval row, seen only when a transaction commits.         *)
(*                                                                         *)
(*   none -> pending -> approved -> executed                               *)
(*                                                                         *)
(* A plan is carried out at most once, only from "approved", and only for  *)
(* the payload that was previewed; "executing" and "failed" are never      *)
(* visible outside a transaction.  Several plans may move in one step (the *)
(* retention job works on a batch), so a step is a move of each plan that  *)
(* changes.  The ChangeControl module implements this specification.       *)
(***************************************************************************)
EXTENDS Naturals

CONSTANTS
    Key,            \* idempotency keys of one access assignment
    Payload,        \* canonical payloads a preview may normalise to
    AutoApproved,   \* the payloads the profile approves without a manager
    NoPayload       \* the payload of a key that has no plan

VARIABLES
    life,           \* life[k]: what the committed row of key k says
    effects         \* effects[k]: committed executions of the row of key k

vars == <<life, effects>>

Absent == [state |-> "none", payload |-> NoPayload, approvedBy |-> "nobody"]

Init == /\ life = [k \in Key |-> Absent]
        /\ effects = [k \in Key |-> 0]

(***************************************************************************)
(* The moves of one plan, from the value "old" to the value "new".         *)
(***************************************************************************)
Propose(old, new) ==
    /\ old = Absent
    /\ \E p \in Payload :
          \/ new = [state |-> "pending", payload |-> p, approvedBy |-> "nobody"]
          \/ /\ p \in AutoApproved
             /\ new = [state |-> "approved", payload |-> p, approvedBy |-> "auto"]

Approve(old, new) ==
    /\ old.state = "pending"
    /\ new = [state |-> "approved", payload |-> old.payload, approvedBy |-> "manager"]

Reject(old, new) ==
    /\ old.state \in {"pending", "approved"}
    /\ new = [old EXCEPT !.state = "rejected"]

Expire(old, new) ==
    /\ old.state \in {"pending", "approved", "rejected", "expired"}
    /\ new = [old EXCEPT !.state = "expired"]

Execute(old, new) ==
    /\ old.state = "approved"
    /\ new = [old EXCEPT !.state = "executed"]

\* One clean-up transaction may expire a plan and delete it at once.
Forget(old, new) ==
    /\ old.state # "none"
    /\ new = Absent

(***************************************************************************)
(* A step moves some plans and counts the executions among the moves.      *)
(***************************************************************************)
Moves(k) ==
    \/ /\ \/ Propose(life[k], life'[k])
          \/ Approve(life[k], life'[k])
          \/ Reject(life[k], life'[k])
          \/ Expire(life[k], life'[k])
       /\ effects'[k] = effects[k]
    \/ Execute(life[k], life'[k]) /\ effects'[k] = effects[k] + 1
    \/ Forget(life[k], life'[k]) /\ effects'[k] = 0
    \/ life'[k] = life[k] /\ effects'[k] = effects[k]

Next == /\ life' = [k \in Key |-> life'[k]]
        /\ effects' = [k \in Key |-> effects'[k]]
        /\ \A k \in Key : Moves(k)

Spec == Init /\ [][Next]_vars
===============================================================================
