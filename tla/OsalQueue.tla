------------------------------ MODULE OsalQueue ------------------------------
(***************************************************************************)
(* SEC_OSAL_Queue.c: the queue behind messageQ (commands) and bufferQ      *)
(* (buffers) of every OMX component.  A ring of preallocated elements,     *)
(* linked by qNext, with a read pointer, a write pointer and a separate    *)
(* element counter.  Every operation holds qMutex from its first read to   *)
(* its last write, so each is one action here.                             *)
(***************************************************************************)
EXTENDS Integers, Sequences

CONSTANTS Data,                 \* the pointers callers enqueue
          NoData,               \* NULL: an element that holds nothing
          MAX_QUEUE_ELEMENTS,   \* the configured size (10 in the code)
          SettableCounts        \* values passed to SetElemNum: {0} for a
                                \* bufferQ, {} for a messageQ

\* QueueCreate allocates one element and then MAX_QUEUE_ELEMENTS - 2 more.
NodeCount == MAX_QUEUE_ELEMENTS - 1
Nodes == 0 .. NodeCount - 1

ASSUME QueueAssumption ==
  /\ MAX_QUEUE_ELEMENTS \in Nat
  /\ MAX_QUEUE_ELEMENTS >= 2
  /\ NoData \notin Data
  /\ SettableCounts \subseteq {0}

VARIABLES data,      \* element -> the pointer it holds
          first,     \* the element Dequeue reads
          last,      \* the element Queue writes
          numElem,   \* the counter
          result     \* what the last call returned

vars == <<data, first, last, numElem, result>>

\* The last element allocated is linked back to the first.
qNext == [i \in Nodes |-> IF i = NodeCount - 1 THEN 0 ELSE i + 1]

QueueCreate == /\ data = [i \in Nodes |-> NoData]
               /\ first = 0
               /\ last = 0
               /\ numElem = 0
               /\ result = NoData

Init == QueueCreate

\* A slip: only the counter is consulted.
Full_ByCountOnly == numElem >= MAX_QUEUE_ELEMENTS

Full == data[last] # NoData \/ numElem >= MAX_QUEUE_ELEMENTS

Queue(v) ==
  /\ ~Full
  /\ data' = [data EXCEPT ![last] = v]
  /\ last' = qNext[last]
  /\ numElem' = numElem + 1
  /\ result' = "queued"
  /\ UNCHANGED first

QueueRefused ==
  /\ Full
  /\ result' = "refused"
  /\ UNCHANGED <<data, first, last, numElem>>

Empty == data[first] = NoData \/ numElem <= 0

\* A slip: the element keeps its pointer after it was handed out.
Dequeue_KeepsPointer ==
  /\ ~Empty
  /\ result' = data[first]
  /\ first' = qNext[first]
  /\ numElem' = numElem - 1
  /\ UNCHANGED <<data, last>>

Dequeue ==
  /\ ~Empty
  /\ result' = data[first]
  /\ data' = [data EXCEPT ![first] = NoData]
  /\ first' = qNext[first]
  /\ numElem' = numElem - 1
  /\ UNCHANGED last

DequeueNothing ==
  /\ Empty
  /\ result' = NoData
  /\ UNCHANGED <<data, first, last, numElem>>

SetElemNum(n) ==
  /\ numElem' = n
  /\ result' = "set"
  /\ UNCHANGED <<data, first, last>>

Next == \/ \E v \in Data : Queue(v)
        \/ QueueRefused
        \/ Dequeue
        \/ DequeueNothing
        \/ \E n \in SettableCounts : SetElemNum(n)

Spec == Init /\ [][Next]_vars
-----------------------------------------------------------------------------
\* The pointers are elements, the elements hold data or NULL, and the counter
\* never leaves what the ring can hold.
TypeOK == /\ data \in [Nodes -> Data \cup {NoData}]
          /\ first \in Nodes
          /\ last \in Nodes
          /\ numElem \in 0 .. NodeCount
          /\ result \in Data \cup {NoData, "queued", "refused", "set"}

\* The elements from the read pointer up to the write pointer, going round
\* the ring; when the pointers meet, the ring is full or empty and only the
\* element under them tells which.
InWindow(i) ==
  IF first < last THEN first <= i /\ i < last
  ELSE IF first > last THEN first <= i \/ i < last
  ELSE data[first] # NoData

Occupied == IF first < last THEN last - first
            ELSE IF first > last THEN NodeCount - first + last
            ELSE IF data[first] = NoData THEN 0 ELSE NodeCount

\* Exactly the elements between the read and the write pointer hold data
\* (the NULL checks of Queue and Dequeue rely on it), and the counter never
\* claims more than that, also after FlushPort has reset it to 0 while an
\* element was being queued.
RingInv == /\ \A i \in Nodes : data[i] # NoData <=> InWindow(i)
           /\ numElem <= Occupied

\* Without SetElemNum the counter is exact.  This is what GetElemNum, the
\* loop condition of FlushPort, is trusted for.
CountExact == SettableCounts = {} => numElem = Occupied

At(k) == IF first + k - 1 < NodeCount THEN first + k - 1
                                      ELSE first + k - 1 - NodeCount

Contents == [k \in 1 .. Occupied |-> data[At(k)]]

\* The ring behaves as a bounded FIFO with a count, whatever the order of
\* calls: nothing is lost, duplicated or reordered, a call is refused only
\* when all NodeCount elements are in use.
Fifo == INSTANCE CountedFifo WITH items <- Contents, count <- numElem,
                                  Capacity <- NodeCount
RefinesFifo == Fifo!Spec
=============================================================================
