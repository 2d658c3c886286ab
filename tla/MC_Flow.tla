------------------------------- MODULE MC_Flow -------------------------------
(* Two instances of OmxBufferFlow for its invariants: every command in every    *)
(* order, with one buffer a port, frames in pieces and incomplete frames; and   *)
(* flushes while two buffers a port circulate, with calls and commands one      *)
(* after the other.                                                             *)
EXTENDS OmxBufferFlow, TLC

CONSTANTS i1, i2, o1, o2, FlushCommands      \* the bound of the second instance
VARIABLE about                               \* "flush" or "everything"

\* Two buffers a port, room for both, and one command after the other.
ASSUME FlushAssumption ==
  /\ {i1, i2} \cap {o1, o2} = {} /\ NoBuffer \notin {i1, i2, o1, o2}
  /\ QueueCapacity >= 2 /\ FlushCommands \in Nat /\ MaxPending <= 1

In1 == {i1}
Out1 == {o1}
Everything == {c \in AllCommands : c.ports # <<OUTPUT>>}
PlayFlush == {c \in Everything : c.op = "Flush" \/ c.dest = "Executing"}

Flushing == INSTANCE OmxBufferFlow WITH
  InBuffers <- {i1, i2}, OutBuffers <- {o1, o2}, Commands <- PlayFlush,
  MaxCommands <- FlushCommands, Discipline <- "serial", FrameCounts <- {0, 1, 2},
  MaxPieces <- 1, Fragments <- FALSE

Frames == {0, 2}

MCInit ==
  \/ about = "flush" /\ Flushing!Init
  \/ about = "everything" /\ Init
MCNext ==
  \/ about = "flush" /\ Flushing!Next /\ UNCHANGED about
  \/ about = "everything" /\ Next /\ UNCHANGED about
MCSpec == MCInit /\ [][MCNext]_<<vars, about>>

\* No step of a flushing instance tells two buffers of a port apart.
Ins == Permutations({i1, i2})
Outs == Permutations({o1, o2})
BufferSymmetry == Ins \cup Outs \cup {f @@ g : f \in Ins, g \in Outs}

\* With two buffers a port each is in one place and has its token, and nothing keeps
\* the component from running after its flushes.
FlushingSound ==
  about = "flush" => Flushing!OneHolder /\ TokenPerBuffer /\ RunsWhenExecuting
=============================================================================
