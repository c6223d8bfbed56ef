------------------------------ MODULE WaitingLine ------------------------------
(***************************************************************************)
(* What the sidecar's queue promises: one line of operations per queue key. *)
(* The first in line is the one that talks to Odoo; a newcomer goes to the *)
(* end, if there is room; anybody may leave, and nobody overtakes.         *)
(* The OperationQueue module implements this specification.                *)
(***************************************************************************)
EXTENDS Naturals, Sequences, SequencesExt

CONSTANTS
    Task,           \* operations that tools have asked for
    Queue,          \* the keys of the queues
    MaxQueueSize    \* how many may wait behind the first in line

VARIABLE line       \* line[q]: the tasks of queue q, the first one is served

Init == line = [q \in Queue |-> <<>>]

Join(q, t) ==
    /\ \A p \in Queue : t \notin Range(line[p])
    /\ Len(line[q]) <= MaxQueueSize
    /\ line' = [line EXCEPT ![q] = Append(@, t)]

Leave(q, i) == line' = [line EXCEPT ![q] = RemoveAt(@, i)]

Next == \E q \in Queue : \/ \E t \in Task : Join(q, t)
                         \/ \E i \in 1 .. Len(line[q]) : Leave(q, i)

Spec == Init /\ [][Next]_line
===============================================================================
