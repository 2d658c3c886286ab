----------------------------- MODULE CountedFifo -----------------------------
(***************************************************************************)
(* What SEC_OSAL_Queue promises its callers: a FIFO of at most Capacity    *)
(* items that carries, beside its contents, a count.  The count decides    *)
(* whether an item may be taken; a caller may overwrite it (SetElemNum),   *)
(* and from then on it lags behind the contents: items stay in place, in   *)
(* order, and are not handed out until the count grows again.              *)
(***************************************************************************)
EXTENDS Integers, Sequences

CONSTANTS Data,            \* the pointers callers enqueue
          NoData,          \* the NULL pointer
          Capacity,        \* number of items the FIFO holds at most
          SettableCounts   \* the values SetElemNum is called with

VARIABLES items,    \* the queued items, oldest first
          count,    \* the count callers see
          result    \* what the last call returned

vars == <<items, count, result>>

Init == /\ items = <<>>
        /\ count = 0
        /\ result = NoData

Put(v) == /\ Len(items) < Capacity
          /\ items' = Append(items, v)
          /\ count' = count + 1
          /\ result' = "queued"

\* A call is turned away exactly when the FIFO is full.
Refuse == /\ Len(items) = Capacity
          /\ result' = "refused"
          /\ UNCHANGED <<items, count>>

Take == /\ items # <<>>
        /\ count > 0
        /\ items' = Tail(items)
        /\ count' = count - 1
        /\ result' = Head(items)

Nothing == /\ items = <<>> \/ count <= 0
           /\ result' = NoData
           /\ UNCHANGED <<items, count>>

SetCount(n) == /\ count' = n
               /\ result' = "set"
               /\ UNCHANGED items

Next == \/ \E v \in Data : Put(v)
        \/ Refuse
        \/ Take
        \/ Nothing
        \/ \E n \in SettableCounts : SetCount(n)

Spec == Init /\ [][Next]_vars
=============================================================================
