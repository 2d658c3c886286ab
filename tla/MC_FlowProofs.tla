---------------------------- MODULE MC_FlowProofs ----------------------------
(* What OmxBufferFlowProofs proves for every set of buffers and commands, of    *)
(* the second instance of MC_Flow: two buffers a port circulate while ports are *)
(* flushed, in queues of any length that has room for them.                     *)
EXTENDS MC_Flow, FiniteSetTheorems, TLAPS

Flow == INSTANCE OmxBufferFlowProofs WITH
  InBuffers <- {i1, i2}, OutBuffers <- {o1, o2}, Commands <- PlayFlush,
  MaxCommands <- FlushCommands, Discipline <- "serial", FrameCounts <- {0, 1, 2},
  MaxPieces <- 1, Fragments <- FALSE

\* The instances count their sets in the same way.
LEMMA SameSets ==
  ASSUME NEW S
  PROVE  /\ Flow!IsFiniteSet(S) <=> IsFiniteSet(S)
         /\ Flow!Cardinality(S) = Cardinality(S) /\ Flushing!Cardinality(S) = Cardinality(S)
  BY DEF Flow!IsFiniteSet, Flushing!IsFiniteSet, IsFiniteSet, Flow!Cardinality, Flushing!Cardinality,
         Cardinality

\* The instance is one the theorems are about: its queues have room, and its client plays
\* and flushes.
LEMMA TheoremsApply ==
  Flow!FlowAssumption /\ Flow!CapacitySuffices /\ Flow!PlaysAndFlushes
  <1>1. PlayFlush \subseteq Flow!AllCommands
    BY DEF PlayFlush, Everything, AllCommands, StateSet, Flush, PortDisable, PortEnable, PortSeqs,
           INPUT, OUTPUT, Flow!AllCommands, Flow!StateSet, Flow!Flush, Flow!PortDisable,
           Flow!PortEnable, Flow!PortSeqs, Flow!INPUT, Flow!OUTPUT
  <1>2. Flow!FlowAssumption
    BY <1>1, FlowAssumption, FlushAssumption DEF FlowAssumption, FlushAssumption, Flow!FlowAssumption
  <1>3. \A x, y : IsFiniteSet({x, y}) /\ Cardinality({x, y}) <= 2
    <2> SUFFICES ASSUME NEW x, NEW y PROVE IsFiniteSet({x, y}) /\ Cardinality({x, y}) <= 2
      OBVIOUS
    <2>1. {x, y} = {x} \cup {y} /\ IsFiniteSet({x}) /\ Cardinality({x}) = 1
      BY FS_Singleton
    <2>2. CASE y = x
      BY <2>1, <2>2
    <2>3. CASE y # x
      BY <2>1, <2>3, FS_AddElement
    <2> QED BY <2>2, <2>3
  <1>4. Flow!CapacitySuffices
    <2>1. \A p \in Flow!Ports : Flow!Buffers[p] = {i1, i2} \/ Flow!Buffers[p] = {o1, o2}
      BY DEF Flow!Buffers, Flow!Ports, Flow!INPUT, Flow!OUTPUT
    <2>2. ASSUME NEW p \in Flow!Ports
          PROVE  Flow!IsFiniteSet(Flow!Buffers[p]) /\ Flow!Cardinality(Flow!Buffers[p]) <= QueueCapacity
      <3>1. IsFiniteSet(Flow!Buffers[p]) /\ Cardinality(Flow!Buffers[p]) <= 2
        BY <1>3, <2>1
      <3>2. Cardinality(Flow!Buffers[p]) \in Nat
        BY <3>1, FS_CardinalityType
      <3>3. Cardinality(Flow!Buffers[p]) <= QueueCapacity
        BY <3>1, <3>2, FlowAssumption, FlushAssumption DEF FlowAssumption, FlushAssumption
      <3> QED BY <3>1, <3>3, SameSets
    <2> QED BY <2>2 DEF Flow!CapacitySuffices
  <1>5. Flow!PlaysAndFlushes
    BY FlushAssumption DEF FlushAssumption, PlayFlush, Flow!PlaysAndFlushes, Flow!Playing
  <1> QED BY <1>2, <1>4, <1>5

\* Both instances of OmxBufferFlow have the same values for its constants.
LEMMA SameInit == Flushing!Init => Flow!Init
  BY DEF Flushing!INPUT, Flow!INPUT, Flushing!OUTPUT, Flow!OUTPUT, Flushing!Ports, Flow!Ports,
         Flushing!Buffers, Flow!Buffers, Flushing!StateSet, Flow!StateSet, Flushing!Threads,
         Flow!Threads, Flushing!Init, Flow!Init

LEMMA SameNext == Flushing!Next => Flow!Next
  BY DEF Flushing!INPUT, Flow!INPUT, Flushing!OUTPUT, Flow!OUTPUT, Flushing!Ports, Flow!Ports,
         Flushing!Buffers, Flow!Buffers, Flushing!stateVars, Flow!stateVars, Flushing!portVars,
         Flow!portVars, Flushing!controlVars, Flow!controlVars, Flushing!queueVars,
         Flow!queueVars, Flushing!slotVars, Flow!slotVars, Flushing!dataVars, Flow!dataVars,
         Flushing!streamVars, Flow!streamVars, Flushing!handlerVars, Flow!handlerVars,
         Flushing!resourceVars, Flow!resourceVars, Flushing!clientVars, Flow!clientVars,
         Flushing!restVars, Flow!restVars, Flushing!allButPc, Flow!allButPc, Flushing!Goto,
         Flow!Goto, Flushing!NoneFlushed, Flow!NoneFlushed, Flushing!CompletionSent,
         Flow!CompletionSent, Flushing!Pending, Flow!Pending, Flushing!CallAccepted,
         Flow!CallAccepted, Flushing!StartCall, Flow!StartCall, Flushing!QueueBuffer,
         Flow!QueueBuffer, Flushing!PostBuffer, Flow!PostBuffer, Flushing!FreeBuffers,
         Flow!FreeBuffers, Flushing!UseBuffers, Flow!UseBuffers, Flushing!MaySend, Flow!MaySend,
         Flushing!CommandQueue, Flow!CommandQueue, Flushing!SendStateSet, Flow!SendStateSet,
         Flushing!PortsOf, Flow!PortsOf, Flushing!SendFlush, Flow!SendFlush, Flushing!Blocked,
         Flow!Blocked, Flushing!Changed, Flow!Changed, Flushing!SendPortCommand,
         Flow!SendPortCommand, Flushing!Client, Flow!Client, Flushing!GiveBack, Flow!GiveBack,
         Flushing!ReturnPort, Flow!ReturnPort, Flushing!ReturnAt, Flow!ReturnAt, Flushing!ResetAt,
         Flow!ResetAt, Flushing!WaitAt, Flow!WaitAt, Flushing!AfterReturn, Flow!AfterReturn,
         Flushing!ClearSlot, Flow!ClearSlot, Flushing!ReturnNow, Flow!ReturnNow,
         Flushing!ReturnPauses, Flow!ReturnPauses, Flushing!ReturnSignalReset,
         Flow!ReturnSignalReset, Flushing!ReturnSignalWait, Flow!ReturnSignalWait,
         Flushing!BufferReturn, Flow!BufferReturn, Flushing!Check_BufferProcess_State,
         Flow!Check_BufferProcess_State, Flushing!ShouldPause, Flow!ShouldPause,
         Flushing!OuterLoop, Flow!OuterLoop, Flushing!LoopSignalReset, Flow!LoopSignalReset,
         Flushing!LoopSignalWait, Flow!LoopSignalWait, Flushing!InnerLoop, Flow!InnerLoop,
         Flushing!CheckOutput, Flow!CheckOutput, Flushing!GetAt, Flow!GetAt, Flushing!TokenAt,
         Flow!TokenAt, Flushing!DequeueAt, Flow!DequeueAt, Flushing!GetQueue, Flow!GetQueue,
         Flushing!GetToken, Flow!GetToken, Flushing!QueueEmpty, Flow!QueueEmpty,
         Flushing!DequeueBuffer, Flow!DequeueBuffer, Flushing!ChooseStage, Flow!ChooseStage,
         Flushing!PreprocessTo, Flow!PreprocessTo, Flushing!Preprocess, Flow!Preprocess,
         Flushing!PreprocessDone, Flow!PreprocessDone, Flushing!DecodeLock, Flow!DecodeLock,
         Flushing!DecodeReady, Flow!DecodeReady, Flushing!Decode, Flow!Decode,
         Flushing!DecodeDone, Flow!DecodeDone, Flushing!PostprocessTo, Flow!PostprocessTo,
         Flushing!Postprocess, Flow!Postprocess, Flushing!PostprocessDone, Flow!PostprocessDone,
         Flushing!BufferProcess, Flow!BufferProcess, Flushing!FirstStep, Flow!FirstStep,
         Flushing!TakeCommand, Flow!TakeCommand, Flushing!FlushBegin, Flow!FlushBegin,
         Flushing!FlushLock, Flow!FlushLock, Flushing!FlushQueue, Flow!FlushQueue,
         Flushing!FlushToken, Flow!FlushToken, Flushing!FlushSlot, Flow!FlushSlot, Flushing!Drain,
         Flow!Drain, Flushing!DrainToken, Flow!DrainToken, Flushing!Unflush, Flow!Unflush,
         Flushing!ResetFlags, Flow!ResetFlags, Flushing!NextPort, Flow!NextPort,
         Flushing!DisablePort, Flow!DisablePort, Flushing!DisableUnloaded, Flow!DisableUnloaded,
         Flushing!EnablePort, Flow!EnablePort, Flushing!EnableLoaded, Flow!EnableLoaded,
         Flushing!Refused, Flow!Refused, Flushing!RefuseStateSet, Flow!RefuseStateSet,
         Flushing!ToExecuting, Flow!ToExecuting, Flushing!SignalExecuting, Flow!SignalExecuting,
         Flushing!ToPause, Flow!ToPause, Flushing!ToIdle, Flow!ToIdle, Flushing!UnloadExit,
         Flow!UnloadExit, Flushing!UnloadSignal, Flow!UnloadSignal, Flushing!UnloadJoin,
         Flow!UnloadJoin, Flushing!UnloadWait, Flow!UnloadWait, Flushing!MessageHandler,
         Flow!MessageHandler, Flushing!Next, Flow!Next

LEMMA SameVars == UNCHANGED vars => UNCHANGED Flow!vars
  BY DEF stateVars, Flow!stateVars, portVars, Flow!portVars, controlVars, Flow!controlVars,
         queueVars, Flow!queueVars, slotVars, Flow!slotVars, dataVars, Flow!dataVars, streamVars,
         Flow!streamVars, handlerVars, Flow!handlerVars, resourceVars, Flow!resourceVars,
         clientVars, Flow!clientVars, restVars, Flow!restVars, allButPc, Flow!allButPc, vars,
         Flow!vars

\* A behaviour stays about what it is about.
AboutFlush == about = "flush"
LEMMA StepsFlush ==
  [MCNext]_<<vars, about>> => /\ AboutFlush => [Flow!Next]_Flow!vars
                              /\ AboutFlush' <=> AboutFlush
  <1>1. /\ MCNext => about' = about
        /\ about = "flush" /\ MCNext => Flow!Next
    BY SameNext DEF MCNext
  <1>2. UNCHANGED <<vars, about>> => UNCHANGED vars /\ UNCHANGED about
    OBVIOUS
  <1> QED BY <1>1, <1>2, SameVars DEF AboutFlush

\* Two buffers a port are each in one place, queued only with the token that takes them out,
\* and no flush leaves a component behind that does not run, for any number of flushes and
\* starts of a client that makes one call or command after the other:
\* SEC_OMX_BufferFlushProcess of the handler against SEC_OMX_BufferProcess of the thread.
THEOREM FlushesAreSound == MCSpec => []FlushingSound
  <1>1. Flow!Spec => [](Flow!OneHolder /\ Flow!TokenPerBuffer /\ Flow!RunsWhenExecuting)
    BY TheoremsApply, Flow!EachHasOneHolder, Flow!TokensSuffice, PTL
  <1>2. Flow!OneHolder /\ Flow!TokenPerBuffer /\ Flow!RunsWhenExecuting => FlushingSound
    <2>1. Flow!OneHolder => Flushing!OneHolder
      <3>1. \A S : Flow!Cardinality(S) = Flushing!Cardinality(S)
        BY SameSets
      <3>2. Flow!Ports = Flushing!Ports /\ Flow!Buffers = Flushing!Buffers
        BY DEF Flow!INPUT, Flushing!INPUT, Flow!OUTPUT, Flushing!OUTPUT, Flow!Ports,
               Flushing!Ports, Flow!Buffers, Flushing!Buffers
      <3>3. \A p, b : Flow!Holders(p, b) = Flushing!Holders(p, b)
        BY DEF Flow!INPUT, Flushing!INPUT, Flow!OUTPUT, Flushing!OUTPUT, Flow!ReturnPort,
               Flushing!ReturnPort, Flow!ReturnLabels, Flushing!ReturnLabels, Flow!Returning,
               Flushing!Returning, Flow!Holders, Flushing!Holders
      <3> QED BY <3>1, <3>2, <3>3 DEF Flow!OneHolder, Flushing!OneHolder
    <2>2. Flow!TokenPerBuffer => TokenPerBuffer
      BY DEF Flow!INPUT, INPUT, Flow!OUTPUT, OUTPUT, Flow!Ports, Ports, Flow!ReturnLabels,
             ReturnLabels, Flow!DequeueAt, DequeueAt, Flow!BeingFlushed, BeingFlushed,
             Flow!TokenPerBuffer, TokenPerBuffer
    <2>3. Flow!RunsWhenExecuting => RunsWhenExecuting
      BY DEF Flow!INPUT, INPUT, Flow!OUTPUT, OUTPUT, Flow!Ports, Ports, Flow!NoneFlushed,
             NoneFlushed, Flow!CompletionSent, CompletionSent, Flow!Pending, Pending,
             Flow!Check_BufferProcess_State, Check_BufferProcess_State, Flow!ShouldPause,
             ShouldPause, Flow!RunsWhenExecuting, RunsWhenExecuting
    <2> QED BY <2>1, <2>2, <2>3 DEF FlushingSound
  <1>3. MCSpec /\ AboutFlush => Flow!Spec
    <2>1. MCInit /\ AboutFlush => Flow!Init
      BY SameInit DEF MCInit, AboutFlush
    <2> QED BY <2>1, StepsFlush, PTL DEF MCSpec, Flow!Spec
  <1>4. MCSpec /\ ~AboutFlush => []~AboutFlush
    BY StepsFlush, PTL DEF MCSpec
  <1>5. ~AboutFlush => FlushingSound
    BY DEF FlushingSound, AboutFlush
  <1> QED BY <1>1, <1>2, <1>3, <1>4, <1>5, PTL
==============================================================================
