------------------------------ MODULE CodecPool ------------------------------
(***************************************************************************)
(* What the resource manager promises, without its lock, its threads and   *)
(* its messages: Max codecs, each of which is free or held; a free one is  *)
(* granted, a held one is taken from the least important holder for a more *)
(* important component, or given back by its holder, in which case the     *)
(* first waiter leaves the line.  Holders are counted: the manager does    *)
(* not ask whether a component that comes for a codec has one already.     *)
(***************************************************************************)
EXTENDS Naturals, Sequences

CONSTANTS Components, Priority, \* a greater number is less important
          Max

VARIABLES holders, \* how many codecs each component holds
          free,    \* how many codecs nobody holds
          waiters  \* sequence of components

vars == <<holders, free, waiters>>

Init == holders = [c \in Components |-> 0] /\ free = Max /\ waiters = <<>>

Grant(c) ==
  /\ free > 0
  /\ holders' = [holders EXCEPT ![c] = @ + 1]
  /\ free' = free - 1
  /\ UNCHANGED waiters

Preempt(c, v) ==
  /\ free = 0
  /\ holders[v] > 0 /\ Priority[v] > Priority[c]
  /\ \A w \in Components : holders[w] > 0 => Priority[w] <= Priority[v]
  /\ holders' = [holders EXCEPT ![v] = @ - 1, ![c] = @ + 1]
  /\ UNCHANGED <<free, waiters>>

Return(c) ==
  /\ holders[c] > 0
  /\ holders' = [holders EXCEPT ![c] = @ - 1]
  /\ free' = free + 1
  /\ waiters' = IF waiters = <<>> THEN waiters ELSE Tail(waiters)

Enter(c) == waiters' = Append(waiters, c) /\ UNCHANGED <<holders, free>>

\* The first entry of c leaves the line.
Leave(c) ==
  /\ \E i \in DOMAIN waiters :
       /\ waiters[i] = c /\ \A j \in 1 .. i - 1 : waiters[j] # c
       /\ waiters' = SubSeq(waiters, 1, i - 1)
                       \o SubSeq(waiters, i + 1, Len(waiters))
  /\ UNCHANGED <<holders, free>>

Next == \E c \in Components :
          \/ Grant(c) \/ Return(c) \/ Enter(c) \/ Leave(c)
          \/ \E v \in Components : Preempt(c, v)

Spec == Init /\ [][Next]_vars
=============================================================================
