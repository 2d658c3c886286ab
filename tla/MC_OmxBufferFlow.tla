-------------------------- MODULE MC_OmxBufferFlow --------------------------
(* Instances of OmxBufferFlow: the commands a client may send in each run. *)
EXTENDS OmxBufferFlow, TLC

CONSTANTS i1, i2, o1, o2, none

OneIn == {i1}
TwoIn == {i1, i2}
OneOut == {o1}
TwoOut == {o1, o2}

\* No step tells two buffers of a port apart; used for invariants only.
BufferSymmetry ==
  Permutations(InBuffers) \cup Permutations(OutBuffers)
    \cup {f @@ g : f \in Permutations(InBuffers), g \in Permutations(OutBuffers)}

Both == <<INPUT, OUTPUT>>
Play == {StateSet("Executing")}
PlayFlush == Play \cup {Flush(<<INPUT>>), Flush(Both)}
\* Every kind of command, those to ports with both of them.
Everything ==
  {StateSet(s) : s \in {"Idle", "Executing", "Pause", "Loaded"}}
    \cup {Flush(Both), PortDisable(Both), PortEnable(Both)}
=============================================================================
