------------------------- MODULE OmxBufferFlowProofs -------------------------
(***************************************************************************)
(* For every set of buffers and commands, every queue capacity and every   *)
(* discipline of the client: the types of OmxBufferFlow, the exclusion of  *)
(* its two threads from each other's sections, and that no mark outlives   *)
(* its command.  Where a queue holds the buffers of its port, each buffer  *)
(* has one holder.  For a quiet client: the counters are right and a flush *)
(* and the way to Idle return every buffer.  For a client that plays and   *)
(* flushes: every queued buffer has its token.                             *)
(***************************************************************************)
EXTENDS OmxBufferFlow, FiniteSetTheorems, TLAPS

\* The places at which the handler works on the first port of todo.
PortSteps ==
  {"flush", "flushLock", "flushQueue", "flushToken", "flushSlot", "drain",
   "drainToken", "unflush", "resetFlags", "disable", "disableWait", "enable",
   "enableWait"} \cup ReturnLabels

\* A buffer call that is about to queue its buffer has one, and the handler
\* working on a port has one.
HandsFull ==
  /\ \A p \in Ports : pc[p] = "queue" => call[p] \in AllBuffers
  /\ pc["handler"] \in PortSteps => todo \in PortSeqs

\* A thread in a section holds the mutex of the section's port.
Locked ==
  \A p \in Ports, t \in {"bp", "handler"} : Inside(t, p) => mutex[p] = t

IInv == TypeOK /\ HandsFull /\ Locked

-----------------------------------------------------------------------------
(* Ports, commands, labels and sequences.                                  *)

\* The two ports are client threads of their own, apart from the two threads of
\* the component.
LEMMA PortNames ==
  /\ INPUT # OUTPUT /\ Ports = {INPUT, OUTPUT}
  /\ \A p \in Ports : p \in Threads /\ p # "bp" /\ p # "handler"
  /\ "bp" \in Threads /\ "handler" \in Threads
  BY DEF INPUT, OUTPUT, Ports, Threads

\* While a loop over ports runs there is a first port, and a rest.
LEMMA FirstPort ==
  ASSUME NEW s \in PortSeqs
  PROVE  /\ Head(s) \in Ports
         /\ Tail(s) \in PortSeqs \cup {<<>>}
         /\ Len(s) > 1 => Tail(s) \in PortSeqs
  <1>1. CASE s = <<INPUT>>
    BY <1>1 DEF Ports
  <1>2. CASE s = <<OUTPUT>>
    BY <1>2 DEF Ports
  <1>3. CASE s = <<INPUT, OUTPUT>>
    BY <1>3 DEF Ports, PortSeqs
  <1> QED BY <1>1, <1>2, <1>3 DEF PortSeqs

\* Every command names the ports its loop visits.
LEMMA CommandPorts ==
  ASSUME NEW c \in AllCommands PROVE c.ports \in PortSeqs
  BY DEF AllCommands, StateSet, Flush, PortDisable, PortEnable, PortSeqs

\* A thread that goes to a label of its own program.
LEMMA GotoType ==
  ASSUME PcTypes, NEW t \in Threads, NEW l, Goto(t, l),
         t = "bp" => l \in BpLabels,
         t = "handler" => l \in HandlerLabels,
         t \in Ports => l \in ClientLabels
  PROVE  PcTypes'
  BY DEF PcTypes, Goto, Threads, Ports, INPUT, OUTPUT

LEMMA GotoBp ==
  ASSUME PcTypes, NEW l \in BpLabels, Goto("bp", l) PROVE PcTypes'
  BY GotoType, PortNames DEF Threads

LEMMA GotoHandler ==
  ASSUME PcTypes, NEW l \in HandlerLabels, Goto("handler", l) PROVE PcTypes'
  BY GotoType, PortNames DEF Threads

LEMMA GotoClient ==
  ASSUME PcTypes, NEW p \in Ports, NEW l \in ClientLabels, Goto(p, l) PROVE PcTypes'
  BY GotoType, PortNames DEF Threads

\* The labels of the two threads in sections: Inside.
BpSections == ReturnLabels \cup {"preDone", "decode", "postDone"}
HandlerSections ==
  ReturnLabels \cup {"flushQueue", "flushToken", "flushSlot", "drain", "drainToken"}

-----------------------------------------------------------------------------
(* What a step that moves one thread or changes one mutex leaves true.     *)

USE DEF IInv, TypeOK, allButPc, controlVars, stateVars, portVars, streamVars, queueVars,
        slotVars, dataVars, restVars, handlerVars, clientVars, resourceVars

\* Moves of the buffer process thread leave calls and loops alone.
LEMMA BpKeepsHands ==
  ASSUME HandsFull, PcTypes, NEW l, Goto("bp", l), UNCHANGED <<todo, call>>
  PROVE  HandsFull'
  BY PortNames DEF HandsFull, PcTypes, Goto

\* Nobody enters a section and no mutex changes.
LEMMA LockKept ==
  ASSUME IInv, UNCHANGED mutex,
         \A p \in Ports, t \in {"bp", "handler"} : Inside(t, p)' => Inside(t, p)
  PROVE  Locked'
  BY DEF Locked

\* A thread leaves its section and frees the mutex.
LEMMA LockReleased ==
  ASSUME IInv, NEW q \in Ports, NEW u \in {"bp", "handler"}, Inside(u, q),
         mutex' = [mutex EXCEPT ![q] = "free"],
         \A p \in Ports, t \in {"bp", "handler"} :
           Inside(t, p)' => Inside(t, p) /\ (t = u => p # q)
  PROVE  Locked'
  BY DEF Locked, StreamTypes

\* A thread takes a free mutex and enters.
LEMMA LockTaken ==
  ASSUME IInv, NEW q \in Ports, NEW u \in {"bp", "handler"}, mutex[q] = "free",
         mutex' = [mutex EXCEPT ![q] = u],
         \A p \in Ports, t \in {"bp", "handler"} :
           Inside(t, p)' => Inside(t, p) \/ (t = u /\ p = q)
  PROVE  Locked'
  BY DEF Locked, StreamTypes

\* The buffer process thread moves outside the sections.
LEMMA BpMoves ==
  ASSUME IInv, NEW l \in BpLabels \ BpSections, Goto("bp", l),
         UNCHANGED <<mutex, todo, call>>
  PROVE  PcTypes' /\ HandsFull' /\ Locked'
  <1>1. PcTypes' /\ HandsFull'
    BY GotoBp, BpKeepsHands
  <1>2. \A p \in Ports, t \in {"bp", "handler"} : Inside(t, p)' => Inside(t, p)
    BY PortNames DEF PcTypes, Goto, Inside, BpSections, ReturnLabels
  <1> QED BY <1>1, <1>2, LockKept

\* The message handler moves outside the sections.
LEMMA HandlerMoves ==
  ASSUME IInv, NEW l \in HandlerLabels \ HandlerSections, Goto("handler", l),
         UNCHANGED <<mutex, call>>,
         l \in PortSteps => todo' \in PortSeqs
  PROVE  PcTypes' /\ HandsFull' /\ Locked'
  <1>1. PcTypes'
    BY GotoHandler
  <1>2. HandsFull'
    BY PortNames DEF HandsFull, PcTypes, Goto
  <1>3. \A p \in Ports, t \in {"bp", "handler"} : Inside(t, p)' => Inside(t, p)
    BY PortNames DEF PcTypes, Goto, Inside, HandlerSections
  <1> QED BY <1>1, <1>2, <1>3, LockKept

\* A client moves within a buffer call.
LEMMA ClientMoves ==
  ASSUME IInv, NEW q \in Ports, NEW l \in ClientLabels, Goto(q, l),
         UNCHANGED <<mutex, todo>>,
         \A p \in Ports : pc'[p] = "queue" => call'[p] \in AllBuffers
  PROVE  PcTypes' /\ HandsFull' /\ Locked'
  <1>1. PcTypes'
    BY GotoClient
  <1>2. HandsFull'
    BY PortNames DEF HandsFull, PcTypes, Goto
  <1>3. \A p \in Ports, t \in {"bp", "handler"} : Inside(t, p)' => Inside(t, p)
    BY PortNames DEF PcTypes, Goto, Inside
  <1> QED BY <1>1, <1>2, <1>3, LockKept

\* Flags change, no thread moves.
LEMMA NobodyMoves ==
  ASSUME IInv, UNCHANGED <<pc, mutex, todo, call>>
  PROVE  PcTypes' /\ HandsFull' /\ Locked'
  BY LockKept DEF PcTypes, HandsFull, Inside

\* The handler, inside a section, holds the mutex of its first port.
LEMMA SectionOf ==
  ASSUME IInv, pc["handler"] \in HandlerSections
  PROVE  Head(todo) \in Ports /\ mutex[Head(todo)] = "handler"
  BY FirstPort DEF HandsFull, Locked, Inside, PortSteps, HandlerSections

\* Ends and rests of a sequence.
LEMMA SeqParts ==
  ASSUME NEW S, NEW s \in Seq(S)
  PROVE  /\ \A e \in S : Append(s, e) \in Seq(S)
         /\ s # <<>> => Head(s) \in S /\ Tail(s) \in Seq(S)
  OBVIOUS

\* What each outcome of Preprocess sets.
LEMMA PreprocessResult ==
  ASSUME NEW done, NEW data, NEW frames, PreprocessTo(done, data, frames)
  PROVE  /\ ret' = done /\ inputData' = data /\ left' = frames
         /\ mutex' = [mutex EXCEPT ![INPUT] = "bp"]
         /\ \/ pc' = [pc EXCEPT !["bp"] = "inReturn"]
            \/ pc' = [pc EXCEPT !["bp"] = "preDone"]
         /\ owned' = owned \/ (slot[INPUT] # NoBuffer /\ GiveBack(INPUT, slot[INPUT]))
  BY DEF PreprocessTo, Goto

\* What each outcome of Postprocess sets.
LEMMA PostprocessResult ==
  ASSUME NEW done, NEW pieces, NEW give, PostprocessTo(done, pieces, give)
  PROVE  /\ ret' = done /\ outputData' = pieces
         /\ mutex' = [mutex EXCEPT ![OUTPUT] = "bp"]
         /\ \/ pc' = [pc EXCEPT !["bp"] = "outReturn"]
            \/ pc' = [pc EXCEPT !["bp"] = "postDone"]
         /\ owned' = owned \/ (give /\ GiveBack(OUTPUT, slot[OUTPUT]))
  BY DEF PostprocessTo, Goto

LEMMA KeepsControl ==
  ASSUME ControlTypes, UNCHANGED controlVars PROVE ControlTypes'
  BY DEF ControlTypes

LEMMA KeepsStream ==
  ASSUME StreamTypes, UNCHANGED streamVars PROVE StreamTypes'
  BY DEF StreamTypes

LEMMA KeepsRest ==
  ASSUME RestTypes, UNCHANGED restVars PROVE RestTypes'
  BY DEF RestTypes

-----------------------------------------------------------------------------
(* The client's steps.                                                     *)

LEMMA StartCall_Step ==
  ASSUME IInv, NEW p \in Ports, NEW b \in owned[p], StartCall(p, b) PROVE IInv'
  <1>1. RestTypes'
    BY DEF RestTypes, StartCall
  <1>2. (PcTypes /\ HandsFull /\ Locked)'
    BY ClientMoves, PortNames DEF StartCall, ClientLabels, HandsFull, PcTypes,
         RestTypes, Goto
  <1> QED BY <1>1, <1>2, KeepsControl, KeepsStream DEF StartCall

LEMMA QueueBuffer_Step ==
  ASSUME IInv, NEW p \in Ports, QueueBuffer(p) PROVE IInv'
  <1>1. StreamTypes'
    <2>1. call[p] \in AllBuffers
      BY DEF HandsFull, QueueBuffer
    <2>2. CASE Len(items[p]) < QueueCapacity
      <3>1. Append(items[p], call[p]) \in Seq(AllBuffers)
        <4>1. items[p] \in Seq(AllBuffers)
          BY DEF StreamTypes
        <4> QED BY <2>1, <4>1, SeqParts
      <3>2. items' = [items EXCEPT ![p] = Append(items[p], call[p])]
        BY <2>2 DEF QueueBuffer
      <3>3. items' \in [Ports -> Seq(AllBuffers)]
        BY <3>1, <3>2 DEF StreamTypes
      <3>4. count' \in [Ports -> Nat]
        BY <2>2 DEF StreamTypes, QueueBuffer
      <3> QED BY <3>3, <3>4 DEF StreamTypes, QueueBuffer
    <2>3. CASE ~(Len(items[p]) < QueueCapacity)
      BY <2>3 DEF StreamTypes, QueueBuffer
    <2> QED BY <2>2, <2>3
  <1>2. RestTypes'
    BY DEF RestTypes, QueueBuffer
  <1>3. (PcTypes /\ HandsFull /\ Locked)'
    BY ClientMoves, PortNames DEF QueueBuffer, ClientLabels, HandsFull, PcTypes,
         RestTypes, Goto
  <1> QED BY <1>1, <1>2, <1>3, KeepsControl DEF QueueBuffer

LEMMA PostBuffer_Step ==
  ASSUME IInv, NEW p \in Ports, PostBuffer(p) PROVE IInv'
  <1>1. StreamTypes'
    BY DEF StreamTypes, PostBuffer
  <1>2. (PcTypes /\ HandsFull /\ Locked)'
    BY ClientMoves, PortNames DEF PostBuffer, ClientLabels, HandsFull, PcTypes,
         RestTypes, Goto
  <1> QED BY <1>1, <1>2, KeepsControl, KeepsRest DEF PostBuffer

LEMMA FreeBuffers_Step ==
  ASSUME IInv, NEW p \in Ports, FreeBuffers(p) PROVE IInv'
  <1>1. ControlTypes'
    BY DEF ControlTypes, FreeBuffers
  <1>2. RestTypes'
    BY DEF RestTypes, FreeBuffers
  <1>3. (PcTypes /\ HandsFull /\ Locked)'
    BY NobodyMoves DEF FreeBuffers
  <1> QED BY <1>1, <1>2, <1>3, KeepsStream DEF FreeBuffers

LEMMA UseBuffers_Step ==
  ASSUME IInv, NEW p \in Ports, UseBuffers(p) PROVE IInv'
  <1>1. ControlTypes'
    BY DEF ControlTypes, UseBuffers
  <1>2. RestTypes'
    BY DEF RestTypes, UseBuffers
  <1>3. (PcTypes /\ HandsFull /\ Locked)'
    BY NobodyMoves DEF UseBuffers
  <1> QED BY <1>1, <1>2, <1>3, KeepsStream DEF UseBuffers, PcTypes

LEMMA SendStateSet_Step ==
  ASSUME IInv, NEW c \in Commands, SendStateSet(c) PROVE IInv'
  <1>1. ControlTypes'
    BY FlowAssumption DEF ControlTypes, SendStateSet, MaySend, CommandQueue
  <1>2. RestTypes'
    BY FlowAssumption DEF RestTypes, SendStateSet, MaySend, CommandQueue
  <1>3. (PcTypes /\ HandsFull /\ Locked)'
    BY NobodyMoves DEF SendStateSet, MaySend, CommandQueue
  <1> QED BY <1>1, <1>2, <1>3, KeepsStream DEF SendStateSet, MaySend, CommandQueue,
       PcTypes

LEMMA SendFlush_Step ==
  ASSUME IInv, NEW c \in Commands, SendFlush(c) PROVE IInv'
  <1>1. ControlTypes'
    BY FlowAssumption DEF ControlTypes, SendFlush, MaySend, CommandQueue
  <1>2. RestTypes'
    BY FlowAssumption DEF RestTypes, SendFlush, MaySend, CommandQueue
  <1>3. (PcTypes /\ HandsFull /\ Locked)'
    BY NobodyMoves DEF SendFlush, MaySend, CommandQueue
  <1> QED BY <1>1, <1>2, <1>3, KeepsStream DEF SendFlush, MaySend, CommandQueue, PcTypes

LEMMA SendPortCommand_Step ==
  ASSUME IInv, NEW c \in Commands, SendPortCommand(c) PROVE IInv'
  <1>1. ControlTypes'
    BY FlowAssumption DEF ControlTypes, SendPortCommand, MaySend, CommandQueue
  <1>2. RestTypes'
    <2>1. sent' \in 0 .. MaxCommands
      BY FlowAssumption DEF RestTypes, SendPortCommand, MaySend, CommandQueue
    <2>2. messageQ' \in Seq(AllCommands)
      <3>1. c \in AllCommands /\ messageQ \in Seq(AllCommands)
        BY FlowAssumption DEF RestTypes
      <3>2. messageQ' = Append(messageQ, c) \/ messageQ' = messageQ
        BY DEF SendPortCommand, CommandQueue
      <3> QED BY <3>1, <3>2
    <2> QED BY <2>1, <2>2 DEF RestTypes, SendPortCommand
  <1>3. (PcTypes /\ HandsFull /\ Locked)'
    BY NobodyMoves DEF SendPortCommand, MaySend, CommandQueue
  <1> QED BY <1>1, <1>2, <1>3, KeepsStream DEF SendPortCommand, MaySend, CommandQueue,
       PcTypes

-----------------------------------------------------------------------------
(* The steps of the buffer process thread.                                 *)

LEMMA OuterLoop_Step ==
  ASSUME IInv, OuterLoop PROVE IInv'
  <1>1. (PcTypes /\ HandsFull /\ Locked)'
    BY BpMoves DEF OuterLoop, BpLabels, BpSections, ReturnLabels
  <1> QED BY <1>1, KeepsControl, KeepsStream, KeepsRest DEF OuterLoop

LEMMA LoopSignalReset_Step ==
  ASSUME IInv, LoopSignalReset PROVE IInv'
  <1>1. ControlTypes'
    BY DEF ControlTypes, LoopSignalReset
  <1>2. (PcTypes /\ HandsFull /\ Locked)'
    BY BpMoves DEF LoopSignalReset, BpLabels, BpSections, ReturnLabels
  <1> QED BY <1>1, <1>2, KeepsStream, KeepsRest DEF LoopSignalReset

LEMMA LoopSignalWait_Step ==
  ASSUME IInv, LoopSignalWait PROVE IInv'
  <1>1. (PcTypes /\ HandsFull /\ Locked)'
    BY BpMoves DEF LoopSignalWait, BpLabels, BpSections, ReturnLabels
  <1> QED BY <1>1, KeepsControl, KeepsStream, KeepsRest DEF LoopSignalWait

LEMMA InnerLoop_Step ==
  ASSUME IInv, InnerLoop PROVE IInv'
  <1>1. (PcTypes /\ HandsFull /\ Locked)'
    BY BpMoves DEF InnerLoop, BpLabels, BpSections, ReturnLabels
  <1> QED BY <1>1, KeepsControl, KeepsStream, KeepsRest DEF InnerLoop

LEMMA CheckOutput_Step ==
  ASSUME IInv, CheckOutput PROVE IInv'
  <1>1. (PcTypes /\ HandsFull /\ Locked)'
    BY BpMoves DEF CheckOutput, BpLabels, BpSections, ReturnLabels
  <1> QED BY <1>1, KeepsControl, KeepsStream, KeepsRest DEF CheckOutput

LEMMA GetQueue_Step ==
  ASSUME IInv, NEW p \in Ports, GetQueue(p) PROVE IInv'
  <1>1. (PcTypes /\ HandsFull /\ Locked)'
    BY BpMoves DEF GetQueue, TokenAt, GetAt, BpLabels, BpSections, ReturnLabels
  <1> QED BY <1>1, KeepsControl, KeepsStream, KeepsRest DEF GetQueue, TokenAt, GetAt

LEMMA GetToken_Step ==
  ASSUME IInv, NEW p \in Ports, GetToken(p) PROVE IInv'
  <1>1. StreamTypes'
    BY DEF StreamTypes, GetToken, TokenAt, DequeueAt
  <1>2. (PcTypes /\ HandsFull /\ Locked)'
    BY BpMoves DEF GetToken, TokenAt, DequeueAt, BpLabels, BpSections, ReturnLabels
  <1> QED BY <1>1, <1>2, KeepsControl, KeepsRest DEF GetToken, TokenAt, DequeueAt

LEMMA DequeueBuffer_Step ==
  ASSUME IInv, NEW p \in Ports, DequeueBuffer(p) PROVE IInv'
  <1>1. StreamTypes'
    <2>1. CASE slot[p] # NoBuffer \/ QueueEmpty(p)
      BY <2>1 DEF StreamTypes, DequeueBuffer
    <2>2. CASE ~(slot[p] # NoBuffer \/ QueueEmpty(p))
      <3>1. /\ items[p] \in Seq(AllBuffers)
            /\ items[p] # <<>>
            /\ count[p] \in Nat
            /\ count[p] # 0
        BY <2>2 DEF StreamTypes, QueueEmpty
      <3>2. /\ Head(items[p]) \in AllBuffers
            /\ Tail(items[p]) \in Seq(AllBuffers)
            /\ count[p] - 1 \in Nat
        BY <3>1
      <3>3. left' \in Nat
        BY <2>2, FlowAssumption DEF StreamTypes, DequeueBuffer
      <3> QED BY <2>2, <3>2, <3>3 DEF StreamTypes, DequeueBuffer
    <2> QED BY <2>1, <2>2
  <1>2. (PcTypes /\ HandsFull /\ Locked)'
    BY BpMoves DEF DequeueBuffer, DequeueAt, QueueEmpty, BpLabels, BpSections,
         ReturnLabels
  <1> QED BY <1>1, <1>2, KeepsControl, KeepsRest DEF DequeueBuffer, DequeueAt,
       QueueEmpty

LEMMA ChooseStage_Step ==
  ASSUME IInv, ChooseStage PROVE IInv'
  <1>1. (PcTypes /\ HandsFull /\ Locked)'
    BY BpMoves DEF ChooseStage, BpLabels, BpSections, ReturnLabels
  <1> QED BY <1>1, KeepsControl, KeepsStream, KeepsRest DEF ChooseStage

LEMMA Preprocess_Step ==
  ASSUME IInv, Preprocess PROVE IInv'
  <1>1. StreamTypes'
    <2>1. left' \in Nat
      BY DEF StreamTypes, Preprocess, PreprocessTo
    <2>2. inputData' \in BOOLEAN
      BY ZenonT(60), PreprocessResult DEF StreamTypes, Preprocess
    <2>3. mutex' = [mutex EXCEPT ![INPUT] = "bp"]
      BY PreprocessResult DEF Preprocess
    <2> QED BY <2>1, <2>2, <2>3 DEF StreamTypes, Preprocess
  <1>2. RestTypes'
    <2>1. ret' \in BOOLEAN
      BY ZenonT(60), PreprocessResult DEF Preprocess
    <2>2. owned' = owned \/ (slot[INPUT] # NoBuffer /\ GiveBack(INPUT, slot[INPUT]))
      BY ZenonT(60), PreprocessResult DEF Preprocess
    <2>3. owned' \in [Ports -> SUBSET AllBuffers]
      BY <2>2, PortNames DEF RestTypes, StreamTypes, GiveBack
    <2> QED BY <2>1, <2>3 DEF RestTypes, Preprocess
  <1>3. PcTypes'
    BY GotoBp, FlowAssumption DEF Preprocess, PreprocessTo, GiveBack, BpLabels,
         ReturnLabels
  <1>4. HandsFull'
    <2>1. \/ pc' = [pc EXCEPT !["bp"] = "inReturn"]
          \/ pc' = [pc EXCEPT !["bp"] = "preDone"]
      BY ZenonT(60), PreprocessResult DEF Preprocess
    <2> QED BY <2>1, BpKeepsHands DEF Goto, Preprocess
  <1>5. Locked'
    <2>1. \/ pc' = [pc EXCEPT !["bp"] = "inReturn"]
          \/ pc' = [pc EXCEPT !["bp"] = "preDone"]
      BY ZenonT(60), PreprocessResult DEF Preprocess
    <2>2. mutex[INPUT] = "free" /\ mutex' = [mutex EXCEPT ![INPUT] = "bp"]
      BY PreprocessResult DEF Preprocess
    <2>3. \A p \in Ports : Inside("bp", p)' => p = INPUT
      BY <2>1, PortNames DEF PcTypes, Inside, Threads
    <2>4. todo' = todo /\ pc'["handler"] = pc["handler"]
      BY <2>1, PortNames DEF PcTypes, Preprocess
    <2>5. \A p \in Ports : Inside("handler", p)' => Inside("handler", p)
      BY <2>4 DEF Inside
    <2> QED BY <2>2, <2>3, <2>5, PortNames, LockTaken
  <1> QED BY <1>1, <1>2, <1>3, <1>4, <1>5, KeepsControl DEF Preprocess, PreprocessTo,
       GiveBack

LEMMA PreprocessDone_Step ==
  ASSUME IInv, PreprocessDone PROVE IInv'
  <1>1. StreamTypes'
    BY DEF StreamTypes, PreprocessDone
  <1>2. PcTypes'
    BY GotoBp DEF PreprocessDone, BpLabels, ReturnLabels
  <1>3. HandsFull'
    BY BpKeepsHands DEF PreprocessDone
  <1>4. Locked'
    <2>1. Inside("bp", INPUT) /\ mutex' = [mutex EXCEPT ![INPUT] = "free"]
      BY DEF PreprocessDone, Inside
    <2>2. \A p \in Ports : ~Inside("bp", p)'
      BY PortNames DEF PcTypes, PreprocessDone, Goto, Inside, BpLabels, Threads
    <2>3. \A p \in Ports : Inside("handler", p)' => Inside("handler", p)
      BY PortNames DEF PcTypes, PreprocessDone, Goto, Inside
    <2> QED BY <2>1, <2>2, <2>3, PortNames, LockReleased
  <1> QED BY <1>1, <1>2, <1>3, <1>4, KeepsControl, KeepsRest DEF PreprocessDone

LEMMA DecodeLock_Step ==
  ASSUME IInv, DecodeLock PROVE IInv'
  <1>1. StreamTypes'
    BY DEF StreamTypes, DecodeLock
  <1>2. PcTypes'
    BY GotoBp DEF DecodeLock, BpLabels, ReturnLabels
  <1>3. HandsFull'
    BY BpKeepsHands DEF DecodeLock
  <1>4. Locked'
    BY PortNames DEF Locked, Inside, ReturnLabels, PcTypes, StreamTypes, Goto,
         DecodeLock
  <1> QED BY <1>1, <1>2, <1>3, <1>4, KeepsControl, KeepsRest DEF DecodeLock

LEMMA Decode_Step ==
  ASSUME IInv, NEW r \in DecodeResults, Decode(r) PROVE IInv'
  <1>1. StreamTypes'
    <2>1. outputData' \in 0 .. MaxPieces
      BY DEF StreamTypes, Decode
    <2>2. inputData' \in BOOLEAN
      BY Zenon DEF Decode
    <2> QED BY <2>1, <2>2 DEF StreamTypes, Decode
  <1>5. RestTypes'
    <2>1. ret' \in BOOLEAN
      BY Zenon DEF Decode
    <2> QED BY <2>1 DEF RestTypes, Decode
  <1>2. PcTypes'
    BY GotoBp, FlowAssumption DEF Decode, BpLabels, ReturnLabels
  <1>3. HandsFull'
    BY BpKeepsHands DEF Decode
  <1>4. Locked'
    <2>1. Inside("bp", INPUT) /\ mutex' = [mutex EXCEPT ![INPUT] = "free"]
      BY DEF Decode, Inside
    <2>2. \A p \in Ports : ~Inside("bp", p)'
      BY PortNames DEF PcTypes, Decode, Goto, Inside, BpLabels, Threads
    <2>3. \A p \in Ports : Inside("handler", p)' => Inside("handler", p)
      BY PortNames DEF PcTypes, Decode, Goto, Inside
    <2> QED BY <2>1, <2>2, <2>3, PortNames, LockReleased
  <1> QED BY <1>1, <1>5, <1>2, <1>3, <1>4, KeepsControl DEF Decode

LEMMA DecodeDone_Step ==
  ASSUME IInv, DecodeDone PROVE IInv'
  <1>1. StreamTypes'
    BY DEF StreamTypes, RestTypes, DecodeDone
  <1>2. (PcTypes /\ HandsFull /\ Locked)'
    BY BpMoves DEF DecodeDone, BpLabels, BpSections, ReturnLabels
  <1> QED BY <1>1, <1>2, KeepsControl, KeepsRest DEF DecodeDone

LEMMA Postprocess_Step ==
  ASSUME IInv, Postprocess PROVE IInv'
  <1>1. StreamTypes'
    <2>1. outputData' \in 0 .. MaxPieces
      BY FlowAssumption DEF StreamTypes, Postprocess, PostprocessTo
    <2>2. mutex' = [mutex EXCEPT ![OUTPUT] = "bp"]
      BY PostprocessResult DEF Postprocess
    <2> QED BY <2>1, <2>2 DEF StreamTypes, Postprocess
  <1>2. RestTypes'
    <2>1. ret' \in BOOLEAN
      BY ZenonT(60), PostprocessResult DEF Postprocess
    <2>2. owned' = owned \/ (slot[OUTPUT] # NoBuffer /\ GiveBack(OUTPUT, slot[OUTPUT]))
      BY ZenonT(60), PostprocessResult DEF Postprocess
    <2>3. owned' \in [Ports -> SUBSET AllBuffers]
      BY <2>2, PortNames DEF RestTypes, StreamTypes, GiveBack
    <2> QED BY <2>1, <2>3 DEF RestTypes, Postprocess
  <1>3. PcTypes'
    BY GotoBp, FlowAssumption DEF Postprocess, PostprocessTo, GiveBack, BpLabels,
         ReturnLabels
  <1>4. HandsFull'
    <2>1. \/ pc' = [pc EXCEPT !["bp"] = "outReturn"]
          \/ pc' = [pc EXCEPT !["bp"] = "postDone"]
      BY ZenonT(60), PostprocessResult DEF Postprocess
    <2> QED BY <2>1, BpKeepsHands DEF Goto, Postprocess
  <1>5. Locked'
    <2>1. \/ pc' = [pc EXCEPT !["bp"] = "outReturn"]
          \/ pc' = [pc EXCEPT !["bp"] = "postDone"]
      BY ZenonT(60), PostprocessResult DEF Postprocess
    <2>2. mutex[OUTPUT] = "free" /\ mutex' = [mutex EXCEPT ![OUTPUT] = "bp"]
      BY PostprocessResult DEF Postprocess
    <2>3. \A p \in Ports : Inside("bp", p)' => p = OUTPUT
      BY <2>1, PortNames DEF PcTypes, Inside, Threads
    <2>4. todo' = todo /\ pc'["handler"] = pc["handler"]
      BY <2>1, PortNames DEF PcTypes, Postprocess
    <2>5. \A p \in Ports : Inside("handler", p)' => Inside("handler", p)
      BY <2>4 DEF Inside
    <2> QED BY <2>2, <2>3, <2>5, PortNames, LockTaken
  <1> QED BY <1>1, <1>2, <1>3, <1>4, <1>5, KeepsControl DEF Postprocess, PostprocessTo,
       GiveBack

LEMMA PostprocessDone_Step ==
  ASSUME IInv, PostprocessDone PROVE IInv'
  <1>1. StreamTypes'
    BY DEF StreamTypes, PostprocessDone
  <1>2. PcTypes'
    BY GotoBp DEF PostprocessDone, BpLabels, ReturnLabels
  <1>3. HandsFull'
    BY BpKeepsHands DEF PostprocessDone
  <1>4. Locked'
    <2>1. Inside("bp", OUTPUT) /\ mutex' = [mutex EXCEPT ![OUTPUT] = "free"]
      BY DEF PostprocessDone, Inside
    <2>2. \A p \in Ports : ~Inside("bp", p)'
      BY PortNames DEF PcTypes, PostprocessDone, Goto, Inside, BpLabels, Threads
    <2>3. \A p \in Ports : Inside("handler", p)' => Inside("handler", p)
      BY PortNames DEF PcTypes, PostprocessDone, Goto, Inside
    <2> QED BY <2>1, <2>2, <2>3, PortNames, LockReleased
  <1> QED BY <1>1, <1>2, <1>3, <1>4, KeepsControl, KeepsRest DEF PostprocessDone

LEMMA ReturnNow_bp_Step ==
  ASSUME IInv, ReturnNow("bp") PROVE IInv'
  <1>1. StreamTypes'
    BY DEF StreamTypes, ReturnNow, ClearSlot, AfterReturn, ReturnPort
  <1>2. PcTypes'
    BY GotoBp DEF ReturnNow, ClearSlot, AfterReturn, ReturnPort, BpLabels,
         ReturnLabels
  <1>3. HandsFull'
    BY BpKeepsHands DEF ReturnNow, ClearSlot, AfterReturn, ReturnPort
  <1>4. Locked'
    BY PortNames DEF Locked, Inside, ReturnLabels, PcTypes, StreamTypes, Goto,
         ReturnNow, ClearSlot, AfterReturn, ReturnPort
  <1> QED BY <1>1, <1>2, <1>3, <1>4, KeepsControl, KeepsRest DEF ReturnNow, ClearSlot,
       AfterReturn, ReturnPort

LEMMA ReturnPauses_bp_Step ==
  ASSUME IInv, ReturnPauses("bp") PROVE IInv'
  <1>1. PcTypes'
    BY GotoBp DEF ReturnPauses, ResetAt, ReturnPort, BpLabels, ReturnLabels
  <1>2. HandsFull'
    BY BpKeepsHands DEF ReturnPauses, ResetAt, ReturnPort
  <1>3. Locked'
    BY PortNames DEF Locked, Inside, ReturnLabels, PcTypes, StreamTypes, Goto,
         ReturnPauses, ResetAt, ReturnPort
  <1> QED BY <1>1, <1>2, <1>3, KeepsControl, KeepsStream, KeepsRest DEF ReturnPauses,
       ResetAt, ReturnPort

LEMMA ReturnSignalReset_bp_Step ==
  ASSUME IInv, ReturnSignalReset("bp") PROVE IInv'
  <1>1. ControlTypes'
    BY DEF ControlTypes, ReturnSignalReset, WaitAt, ReturnPort
  <1>2. PcTypes'
    BY GotoBp DEF ReturnSignalReset, WaitAt, ReturnPort, BpLabels, ReturnLabels
  <1>3. HandsFull'
    BY BpKeepsHands DEF ReturnSignalReset, WaitAt, ReturnPort
  <1>4. Locked'
    BY PortNames DEF Locked, Inside, ReturnLabels, PcTypes, StreamTypes, Goto,
         ReturnSignalReset, WaitAt, ReturnPort
  <1> QED BY <1>1, <1>2, <1>3, <1>4, KeepsStream, KeepsRest DEF ReturnSignalReset,
       WaitAt,
       ReturnPort

LEMMA ReturnSignalWait_bp_Step ==
  ASSUME IInv, ReturnSignalWait("bp") PROVE IInv'
  <1>1. StreamTypes'
    BY DEF StreamTypes, ReturnSignalWait, ClearSlot, AfterReturn, ReturnPort
  <1>2. PcTypes'
    BY GotoBp DEF ReturnSignalWait, ClearSlot, AfterReturn, ReturnPort, BpLabels,
         ReturnLabels
  <1>3. HandsFull'
    BY BpKeepsHands DEF ReturnSignalWait, ClearSlot, AfterReturn, ReturnPort
  <1>4. Locked'
    BY PortNames DEF Locked, Inside, ReturnLabels, PcTypes, StreamTypes, Goto,
         ReturnSignalWait, ClearSlot, AfterReturn, ReturnPort
  <1> QED BY <1>1, <1>2, <1>3, <1>4, KeepsControl, KeepsRest DEF ReturnSignalWait,
       ClearSlot, AfterReturn, ReturnPort

-----------------------------------------------------------------------------
(* The steps of the message handler thread.                                *)

LEMMA TakeCommand_Step ==
  ASSUME IInv, TakeCommand PROVE IInv'
  <1>1. RestTypes'
    <2>1. messageQ \in Seq(AllCommands) /\ messageQ # <<>>
      BY DEF RestTypes, TakeCommand
    <2>2. Head(messageQ) \in AllCommands /\ Tail(messageQ) \in Seq(AllCommands)
      BY <2>1, SeqParts
    <2> QED BY <2>2, CommandPorts DEF RestTypes, TakeCommand
  <1>2. (PcTypes /\ HandsFull /\ Locked)'
    <2>1. messageQ \in Seq(AllCommands) /\ messageQ # <<>>
      BY DEF RestTypes, TakeCommand
    <2>2. todo' \in PortSeqs
      BY <2>1, SeqParts, CommandPorts DEF TakeCommand
    <2>3. PICK l \in {"flush", "enable", "stateSet"} : Goto("handler", l)
      BY DEF TakeCommand, FirstStep
    <2>4. l \in HandlerLabels \ HandlerSections
      BY DEF HandlerLabels, HandlerSections, ReturnLabels
    <2> QED BY <2>2, <2>3, <2>4, HandlerMoves DEF TakeCommand
  <1> QED BY <1>1, <1>2, KeepsControl, KeepsStream DEF TakeCommand

LEMMA FlushBegin_Step ==
  ASSUME IInv, FlushBegin PROVE IInv'
  <1>1. ControlTypes'
    BY DEF ControlTypes, FlushBegin
  <1>2. (PcTypes /\ HandsFull /\ Locked)'
    BY HandlerMoves DEF FlushBegin, HandlerLabels, HandlerSections, ReturnLabels,
         HandsFull, PortSteps
  <1> QED BY <1>1, <1>2, KeepsStream, KeepsRest DEF FlushBegin

LEMMA FlushLock_Step ==
  ASSUME IInv, FlushLock PROVE IInv'
  <1>1. StreamTypes'
    BY DEF StreamTypes, FlushLock
  <1>2. PcTypes'
    BY GotoHandler DEF FlushLock, HandlerLabels, ReturnLabels
  <1>3. HandsFull'
    BY PortNames DEF HandsFull, PcTypes, RestTypes, Goto, PortSteps, ReturnLabels,
         FlushLock
  <1>4. Locked'
    BY PortNames DEF Locked, Inside, ReturnLabels, PcTypes, StreamTypes, Goto,
         FlushLock
  <1> QED BY <1>1, <1>2, <1>3, <1>4, KeepsControl, KeepsRest DEF FlushLock

LEMMA FlushQueue_Step ==
  ASSUME IInv, FlushQueue PROVE IInv'
  <1>1. StreamTypes'
    <2>1. Head(todo) \in Ports
      BY SectionOf DEF HandlerSections, FlushQueue
    <2>2. sem' = [sem EXCEPT ![Head(todo)] = 1] \/ sem' = sem
      BY DEF FlushQueue
    <2>3. sem' \in [Ports -> Nat]
      <3>1. sem \in [Ports -> Nat]
        BY DEF StreamTypes
      <3> QED BY <2>1, <2>2, <3>1
    <2> QED BY <2>3 DEF StreamTypes, FlushQueue
  <1>2. PcTypes'
    BY GotoHandler DEF FlushQueue, HandlerLabels, ReturnLabels
  <1>3. HandsFull'
    BY PortNames DEF HandsFull, PcTypes, RestTypes, Goto, PortSteps, ReturnLabels,
         FlushQueue
  <1>4. Locked'
    <2>1. \/ pc' = [pc EXCEPT !["handler"] = "flushToken"]
          \/ pc' = [pc EXCEPT !["handler"] = "flushSlot"]
      BY DEF FlushQueue, Goto
    <2>2. pc'["bp"] = pc["bp"]
      BY <2>1, PortNames DEF PcTypes
    <2>4. \A p \in Ports : Inside("bp", p)' => Inside("bp", p)
      BY <2>2 DEF Inside
    <2>3. \A p \in Ports : Inside("handler", p)' => Inside("handler", p)
      BY PortNames DEF FlushQueue, Inside
    <2> QED BY <2>3, <2>4, LockKept DEF FlushQueue
  <1> QED BY <1>1, <1>2, <1>3, <1>4, KeepsControl, KeepsRest DEF FlushQueue

LEMMA FlushToken_Step ==
  ASSUME IInv, FlushToken PROVE IInv'
  <1>1. StreamTypes'
    <2> DEFINE p == Head(todo)
    <2>1. p \in Ports /\ sem[p] \in Nat /\ sem[p] > 0
      BY SectionOf DEF HandlerSections, StreamTypes, FlushToken
    <2>2. sem' \in [Ports -> Nat]
      BY <2>1 DEF StreamTypes, FlushToken
    <2>3. CASE QueueEmpty(p)
      BY <2>2, <2>3 DEF StreamTypes, FlushToken
    <2>4. CASE ~QueueEmpty(p)
      <3>1. /\ items[p] \in Seq(AllBuffers)
            /\ items[p] # <<>>
            /\ count[p] \in Nat
            /\ count[p] # 0
        BY <2>1, <2>4 DEF StreamTypes, QueueEmpty
      <3>2. Tail(items[p]) \in Seq(AllBuffers) /\ count[p] - 1 \in Nat
        BY <3>1
      <3> QED BY <2>1, <2>2, <2>4, <3>2 DEF StreamTypes, FlushToken
    <2> QED BY <2>3, <2>4
  <1>2. RestTypes'
    <2> DEFINE p == Head(todo)
    <2>1. p \in Ports
      BY SectionOf DEF HandlerSections, FlushToken
    <2>2. CASE QueueEmpty(p)
      BY <2>2 DEF RestTypes, FlushToken
    <2>3. CASE ~QueueEmpty(p)
      <3>1. Head(items[p]) \in AllBuffers
        <4>1. items[p] \in Seq(AllBuffers) /\ items[p] # <<>>
          BY <2>1, <2>3 DEF StreamTypes, QueueEmpty
        <4> QED BY <4>1, SeqParts
      <3>2. GiveBack(p, Head(items[p]))
        BY <2>3 DEF FlushToken
      <3>3. owned' \in [Ports -> SUBSET AllBuffers]
        BY <2>1, <3>1, <3>2 DEF RestTypes, GiveBack
      <3> QED BY <3>3 DEF RestTypes, FlushToken
    <2> QED BY <2>2, <2>3
  <1>3. PcTypes'
    BY GotoHandler DEF FlushToken, GiveBack, QueueEmpty, ReturnAt, HandlerLabels,
         ReturnLabels
  <1>4. HandsFull'
    BY PortNames DEF HandsFull, PcTypes, RestTypes, Goto, PortSteps, ReturnLabels,
         FlushToken, GiveBack, QueueEmpty, ReturnAt
  <1>5. Locked'
    BY PortNames DEF Locked, Inside, ReturnLabels, PcTypes, StreamTypes, Goto,
         FlushToken, GiveBack, QueueEmpty, ReturnAt
  <1> QED BY <1>1, <1>2, <1>3, <1>4, <1>5, KeepsControl DEF FlushToken, GiveBack,
       QueueEmpty, ReturnAt

LEMMA FlushSlot_Step ==
  ASSUME IInv, FlushSlot PROVE IInv'
  <1>1. RestTypes'
    <2>1. Head(todo) \in Ports
      BY SectionOf DEF HandlerSections, FlushSlot
    <2>2. CASE slot[Head(todo)] = NoBuffer
      BY <2>2 DEF RestTypes, FlushSlot
    <2>3. CASE slot[Head(todo)] # NoBuffer
      <3>1. slot[Head(todo)] \in AllBuffers
        BY <2>1, <2>3 DEF StreamTypes
      <3>2. GiveBack(Head(todo), slot[Head(todo)])
        BY <2>3 DEF FlushSlot
      <3>3. owned' \in [Ports -> SUBSET AllBuffers]
        BY <2>1, <3>1, <3>2 DEF RestTypes, GiveBack
      <3> QED BY <3>3 DEF RestTypes, FlushSlot
    <2> QED BY <2>2, <2>3
  <1>2. PcTypes'
    BY GotoHandler DEF FlushSlot, GiveBack, QueueEmpty, ReturnAt, HandlerLabels,
         ReturnLabels
  <1>3. HandsFull'
    BY PortNames DEF HandsFull, PcTypes, RestTypes, Goto, PortSteps, ReturnLabels,
         FlushSlot, GiveBack, QueueEmpty, ReturnAt
  <1>4. Locked'
    <2>1. \E l \in HandlerLabels : pc' = [pc EXCEPT !["handler"] = l]
      BY DEF FlushSlot, Goto, ReturnAt, HandlerLabels, ReturnLabels
    <2>2. \A p \in Ports : Inside("bp", p)' => Inside("bp", p)
      BY <2>1, PortNames DEF PcTypes, Inside
    <2>3. \A p \in Ports : Inside("handler", p)' => Inside("handler", p)
      BY PortNames DEF FlushSlot, Inside
    <2> QED BY <2>2, <2>3, LockKept DEF FlushSlot
  <1> QED BY <1>1, <1>2, <1>3, <1>4, KeepsControl, KeepsStream DEF FlushSlot, GiveBack,
       QueueEmpty, ReturnAt

LEMMA ReturnNow_handler_Step ==
  ASSUME IInv, ReturnNow("handler") PROVE IInv'
  <1>1. StreamTypes'
    BY DEF StreamTypes, ReturnNow, ClearSlot, AfterReturn, ReturnPort
  <1>2. PcTypes'
    BY GotoHandler DEF ReturnNow, ClearSlot, AfterReturn, ReturnPort, HandlerLabels,
         ReturnLabels
  <1>3. HandsFull'
    BY PortNames DEF HandsFull, PcTypes, RestTypes, Goto, PortSteps, ReturnLabels,
         ReturnNow, ClearSlot, AfterReturn, ReturnPort
  <1>4. Locked'
    BY PortNames DEF Locked, Inside, ReturnLabels, PcTypes, StreamTypes, Goto,
         ReturnNow, ClearSlot, AfterReturn, ReturnPort
  <1> QED BY <1>1, <1>2, <1>3, <1>4, KeepsControl, KeepsRest DEF ReturnNow, ClearSlot,
       AfterReturn, ReturnPort

LEMMA ReturnPauses_handler_Step ==
  ASSUME IInv, ReturnPauses("handler") PROVE IInv'
  <1>1. PcTypes'
    BY GotoHandler DEF ReturnPauses, ResetAt, ReturnPort, HandlerLabels,
         ReturnLabels
  <1>2. HandsFull'
    BY PortNames DEF HandsFull, PcTypes, RestTypes, Goto, PortSteps, ReturnLabels,
         ReturnPauses, ResetAt, ReturnPort
  <1>3. Locked'
    BY PortNames DEF Locked, Inside, ReturnLabels, PcTypes, StreamTypes, Goto,
         ReturnPauses, ResetAt, ReturnPort
  <1> QED BY <1>1, <1>2, <1>3, KeepsControl, KeepsStream, KeepsRest DEF ReturnPauses,
       ResetAt, ReturnPort

LEMMA ReturnSignalReset_handler_Step ==
  ASSUME IInv, ReturnSignalReset("handler") PROVE IInv'
  <1>1. ControlTypes'
    BY DEF ControlTypes, ReturnSignalReset, WaitAt, ReturnPort
  <1>2. PcTypes'
    BY GotoHandler DEF ReturnSignalReset, WaitAt, ReturnPort, HandlerLabels,
         ReturnLabels
  <1>3. HandsFull'
    BY PortNames DEF HandsFull, PcTypes, RestTypes, Goto, PortSteps, ReturnLabels,
         ReturnSignalReset, WaitAt, ReturnPort
  <1>4. Locked'
    BY PortNames DEF Locked, Inside, ReturnLabels, PcTypes, StreamTypes, Goto,
         ReturnSignalReset, WaitAt, ReturnPort
  <1> QED BY <1>1, <1>2, <1>3, <1>4, KeepsStream, KeepsRest DEF ReturnSignalReset,
       WaitAt,
       ReturnPort

LEMMA ReturnSignalWait_handler_Step ==
  ASSUME IInv, ReturnSignalWait("handler") PROVE IInv'
  <1>1. StreamTypes'
    BY DEF StreamTypes, ReturnSignalWait, ClearSlot, AfterReturn, ReturnPort
  <1>2. PcTypes'
    BY GotoHandler DEF ReturnSignalWait, ClearSlot, AfterReturn, ReturnPort,
         HandlerLabels, ReturnLabels
  <1>3. HandsFull'
    BY PortNames DEF HandsFull, PcTypes, RestTypes, Goto, PortSteps, ReturnLabels,
         ReturnSignalWait, ClearSlot, AfterReturn, ReturnPort
  <1>4. Locked'
    BY PortNames DEF Locked, Inside, ReturnLabels, PcTypes, StreamTypes, Goto,
         ReturnSignalWait, ClearSlot, AfterReturn, ReturnPort
  <1> QED BY <1>1, <1>2, <1>3, <1>4, KeepsControl, KeepsRest DEF ReturnSignalWait,
       ClearSlot, AfterReturn, ReturnPort

LEMMA Drain_Step ==
  ASSUME IInv, Drain PROVE IInv'
  <1>1. StreamTypes'
    <2>1. Head(todo) \in Ports
      BY SectionOf DEF HandlerSections, Drain
    <2>2. CASE sem[Head(todo)] > 0
      BY <2>2 DEF StreamTypes, Drain
    <2>3. CASE ~(sem[Head(todo)] > 0)
      <3>1. /\ count' = [count EXCEPT ![Head(todo)] = 0]
            /\ mutex' = [mutex EXCEPT ![Head(todo)] = "free"]
        BY <2>3 DEF Drain
      <3>2. outputData' \in 0 .. MaxPieces
        BY <2>3, FlowAssumption DEF StreamTypes, Drain
      <3>3. inputData' \in BOOLEAN
        BY <2>3 DEF StreamTypes, Drain
      <3> QED BY <2>1, <3>1, <3>2, <3>3 DEF StreamTypes, Drain
    <2> QED BY <2>2, <2>3
  <1>2. PcTypes'
    BY GotoHandler DEF Drain, HandlerLabels, ReturnLabels
  <1>3. HandsFull'
    BY PortNames DEF HandsFull, PcTypes, RestTypes, Goto, PortSteps, ReturnLabels,
         Drain
  <1>4. Locked'
    <2>1. Head(todo) \in Ports /\ Inside("handler", Head(todo))
      BY SectionOf DEF HandlerSections, Drain, Inside
    <2>2. /\ todo' = todo
          /\ \/ pc' = [pc EXCEPT !["handler"] = "drainToken"]
             \/ pc' = [pc EXCEPT !["handler"] = "unflush"]
      BY DEF Drain, Goto
    <2>3. \A p \in Ports : Inside("bp", p)' => Inside("bp", p)
      <3>1. pc'["bp"] = pc["bp"]
        BY <2>2, PortNames DEF PcTypes
      <3> QED BY <3>1 DEF Inside
    <2>4. \A p \in Ports : Inside("handler", p)' => Inside("handler", p)
      BY <2>2, PortNames DEF Drain, Inside
    <2>5. CASE sem[Head(todo)] > 0
      BY <2>3, <2>4, <2>5, LockKept DEF Drain
    <2>6. CASE ~(sem[Head(todo)] > 0)
      <3>1. /\ mutex' = [mutex EXCEPT ![Head(todo)] = "free"]
            /\ pc' = [pc EXCEPT !["handler"] = "unflush"]
        BY <2>6 DEF Drain, Goto
      <3>2. \A p \in Ports : ~Inside("handler", p)'
        BY <3>1, PortNames DEF PcTypes, Inside, Threads, ReturnLabels
      <3> QED BY <2>1, <2>3, <3>1, <3>2, LockReleased
    <2> QED BY <2>5, <2>6
  <1> QED BY <1>1, <1>2, <1>3, <1>4, KeepsControl, KeepsRest DEF Drain

LEMMA DrainToken_Step ==
  ASSUME IInv, DrainToken PROVE IInv'
  <1>1. StreamTypes'
    <2>1. Head(todo) \in Ports
      BY SectionOf DEF HandlerSections, DrainToken
    <2> QED BY <2>1 DEF StreamTypes, DrainToken
  <1>2. PcTypes'
    BY GotoHandler DEF DrainToken, HandlerLabels, ReturnLabels
  <1>3. HandsFull'
    BY PortNames DEF HandsFull, PcTypes, RestTypes, Goto, PortSteps, ReturnLabels,
         DrainToken
  <1>4. Locked'
    BY PortNames DEF Locked, Inside, ReturnLabels, PcTypes, StreamTypes, Goto,
         DrainToken
  <1> QED BY <1>1, <1>2, <1>3, <1>4, KeepsControl, KeepsRest DEF DrainToken

LEMMA Unflush_Step ==
  ASSUME IInv, Unflush PROVE IInv'
  <1>1. ControlTypes'
    BY DEF ControlTypes, Unflush
  <1>2. (PcTypes /\ HandsFull /\ Locked)'
    BY HandlerMoves DEF Unflush, HandlerLabels, HandlerSections, ReturnLabels,
         HandsFull, PortSteps
  <1> QED BY <1>1, <1>2, KeepsStream, KeepsRest DEF Unflush

LEMMA ResetFlags_Step ==
  ASSUME IInv, ResetFlags PROVE IInv'
  <1>1. StreamTypes'
    BY DEF StreamTypes, ResetFlags
  <1>2. RestTypes'
    <2>1. todo \in PortSeqs
      BY DEF HandsFull, ResetFlags, PortSteps
    <2> QED BY <2>1, FirstPort, CommandPorts DEF RestTypes, ResetFlags, NextPort
  <1>3. (PcTypes /\ HandsFull /\ Locked)'
    <2>1. todo \in PortSeqs
      BY DEF HandsFull, ResetFlags, PortSteps
    <2>2. PICK l \in {"flush", "disable", "idle", "setIdle"} :
            Goto("handler", l) /\ (l \in PortSteps => todo' \in PortSeqs)
      BY <2>1, FirstPort, CommandPorts DEF RestTypes, ResetFlags, PortSteps,
           ReturnLabels
    <2>3. l \in HandlerLabels \ HandlerSections
      BY DEF HandlerLabels, HandlerSections, ReturnLabels
    <2> QED BY <2>2, <2>3, HandlerMoves DEF ResetFlags
  <1> QED BY <1>1, <1>2, <1>3, KeepsControl DEF ResetFlags

LEMMA DisablePort_Step ==
  ASSUME IInv, DisablePort PROVE IInv'
  <1>1. ControlTypes'
    BY DEF ControlTypes, DisablePort, NextPort
  <1>2. RestTypes'
    <2>1. todo \in PortSeqs
      BY DEF HandsFull, DisablePort, PortSteps
    <2> QED BY <2>1, FirstPort, CommandPorts DEF RestTypes, DisablePort, NextPort
  <1>3. (PcTypes /\ HandsFull /\ Locked)'
    <2>1. todo \in PortSeqs
      BY DEF HandsFull, DisablePort, PortSteps
    <2>2. PICK l \in {"disableWait", "disable", "idle"} :
            Goto("handler", l) /\ (l \in PortSteps => todo' \in PortSeqs)
      BY <2>1, FirstPort, CommandPorts DEF RestTypes, DisablePort, NextPort,
           PortSteps, ReturnLabels
    <2>3. l \in HandlerLabels \ HandlerSections
      BY DEF HandlerLabels, HandlerSections, ReturnLabels
    <2> QED BY <2>2, <2>3, HandlerMoves DEF DisablePort
  <1> QED BY <1>1, <1>2, <1>3, KeepsStream DEF DisablePort, NextPort

LEMMA DisableUnloaded_Step ==
  ASSUME IInv, DisableUnloaded PROVE IInv'
  <1>1. ControlTypes'
    BY DEF ControlTypes, DisableUnloaded, NextPort
  <1>2. RestTypes'
    <2>1. todo \in PortSeqs
      BY DEF HandsFull, DisableUnloaded, PortSteps
    <2> QED BY <2>1, FirstPort, CommandPorts DEF RestTypes, DisableUnloaded, NextPort
  <1>3. (PcTypes /\ HandsFull /\ Locked)'
    <2>1. todo \in PortSeqs
      BY DEF HandsFull, DisableUnloaded, PortSteps
    <2>2. PICK l \in {"disable", "idle"} :
            Goto("handler", l) /\ (l \in PortSteps => todo' \in PortSeqs)
      BY <2>1, FirstPort, CommandPorts DEF RestTypes, DisableUnloaded, NextPort,
           PortSteps, ReturnLabels
    <2>3. l \in HandlerLabels \ HandlerSections
      BY DEF HandlerLabels, HandlerSections, ReturnLabels
    <2> QED BY <2>2, <2>3, HandlerMoves DEF DisableUnloaded
  <1> QED BY <1>1, <1>2, <1>3, KeepsStream DEF DisableUnloaded, NextPort

LEMMA EnablePort_Step ==
  ASSUME IInv, EnablePort PROVE IInv'
  <1>1. ControlTypes'
    BY DEF ControlTypes, EnablePort
  <1>2. (PcTypes /\ HandsFull /\ Locked)'
    BY HandlerMoves DEF EnablePort, HandlerLabels, HandlerSections, ReturnLabels,
         HandsFull, PortSteps
  <1> QED BY <1>1, <1>2, KeepsStream, KeepsRest DEF EnablePort

LEMMA EnableLoaded_Step ==
  ASSUME IInv, EnableLoaded PROVE IInv'
  <1>1. ControlTypes'
    BY DEF ControlTypes, EnableLoaded, NextPort
  <1>2. RestTypes'
    <2>1. todo \in PortSeqs
      BY DEF HandsFull, EnableLoaded, PortSteps
    <2> QED BY <2>1, FirstPort, CommandPorts DEF RestTypes, EnableLoaded, NextPort
  <1>3. (PcTypes /\ HandsFull /\ Locked)'
    <2>1. todo \in PortSeqs
      BY DEF HandsFull, EnableLoaded, PortSteps
    <2>2. PICK l \in {"enable", "idle"} :
            Goto("handler", l) /\ (l \in PortSteps => todo' \in PortSeqs)
      BY <2>1, FirstPort, CommandPorts DEF RestTypes, EnableLoaded, NextPort,
           PortSteps, ReturnLabels
    <2>3. l \in HandlerLabels \ HandlerSections
      BY DEF HandlerLabels, HandlerSections, ReturnLabels
    <2> QED BY <2>2, <2>3, HandlerMoves DEF EnableLoaded
  <1> QED BY <1>1, <1>2, <1>3, KeepsStream DEF EnableLoaded, NextPort

LEMMA RefuseStateSet_Step ==
  ASSUME IInv, RefuseStateSet PROVE IInv'
  <1>1. (PcTypes /\ HandsFull /\ Locked)'
    BY HandlerMoves DEF RefuseStateSet, HandlerLabels, HandlerSections,
         ReturnLabels, HandsFull, PortSteps
  <1> QED BY <1>1, KeepsControl, KeepsStream, KeepsRest DEF RefuseStateSet

LEMMA ToExecuting_Step ==
  ASSUME IInv, ToExecuting PROVE IInv'
  <1>1. ControlTypes'
    BY DEF ControlTypes, ToExecuting
  <1>2. (PcTypes /\ HandsFull /\ Locked)'
    BY HandlerMoves DEF ToExecuting, HandlerLabels, HandlerSections, ReturnLabels,
         HandsFull, PortSteps
  <1> QED BY <1>1, <1>2, KeepsStream, KeepsRest DEF ToExecuting

LEMMA SignalExecuting_Step ==
  ASSUME IInv, SignalExecuting PROVE IInv'
  <1>1. ControlTypes'
    BY DEF ControlTypes, SignalExecuting
  <1>2. (PcTypes /\ HandsFull /\ Locked)'
    BY HandlerMoves DEF SignalExecuting, HandlerLabels, HandlerSections,
         ReturnLabels, HandsFull, PortSteps
  <1> QED BY <1>1, <1>2, KeepsStream, KeepsRest DEF SignalExecuting

LEMMA ToPause_Step ==
  ASSUME IInv, ToPause PROVE IInv'
  <1>1. ControlTypes'
    BY DEF ControlTypes, ToPause
  <1>2. (PcTypes /\ HandsFull /\ Locked)'
    BY HandlerMoves DEF ToPause, HandlerLabels, HandlerSections, ReturnLabels,
         HandsFull, PortSteps
  <1> QED BY <1>1, <1>2, KeepsStream, KeepsRest DEF ToPause

LEMMA ToIdle_Step ==
  ASSUME IInv, ToIdle PROVE IInv'
  <1>1. ControlTypes'
    BY DEF ControlTypes, ToIdle
  <1>2. (PcTypes /\ HandsFull /\ Locked)'
    BY HandlerMoves DEF ToIdle, HandlerLabels, HandlerSections, ReturnLabels,
         HandsFull, PortSteps
  <1> QED BY <1>1, <1>2, KeepsStream, KeepsRest DEF ToIdle

LEMMA UnloadExit_Step ==
  ASSUME IInv, UnloadExit PROVE IInv'
  <1>1. ControlTypes'
    BY DEF ControlTypes, UnloadExit
  <1>2. StreamTypes'
    BY DEF StreamTypes, UnloadExit
  <1>3. (PcTypes /\ HandsFull /\ Locked)'
    BY HandlerMoves DEF UnloadExit, HandlerLabels, HandlerSections, ReturnLabels,
         HandsFull, PortSteps
  <1> QED BY <1>1, <1>2, <1>3, KeepsRest DEF UnloadExit

LEMMA UnloadSignal_Step ==
  ASSUME IInv, UnloadSignal PROVE IInv'
  <1>1. ControlTypes'
    BY DEF ControlTypes, UnloadSignal
  <1>2. (PcTypes /\ HandsFull /\ Locked)'
    BY HandlerMoves DEF UnloadSignal, HandlerLabels, HandlerSections, ReturnLabels,
         HandsFull, PortSteps
  <1> QED BY <1>1, <1>2, KeepsStream, KeepsRest DEF UnloadSignal

LEMMA UnloadJoin_Step ==
  ASSUME IInv, UnloadJoin PROVE IInv'
  <1>1. (PcTypes /\ HandsFull /\ Locked)'
    BY HandlerMoves DEF UnloadJoin, HandlerLabels, HandlerSections, ReturnLabels,
         HandsFull, PortSteps
  <1> QED BY <1>1, KeepsControl, KeepsStream, KeepsRest DEF UnloadJoin

LEMMA UnloadWait_Step ==
  ASSUME IInv, UnloadWait PROVE IInv'
  <1>1. ControlTypes'
    BY DEF ControlTypes, UnloadWait
  <1>2. RestTypes'
    BY DEF RestTypes, UnloadWait
  <1>3. (PcTypes /\ HandsFull /\ Locked)'
    BY HandlerMoves DEF UnloadWait, HandlerLabels, HandlerSections, ReturnLabels,
         HandsFull, PortSteps
  <1> QED BY <1>1, <1>2, <1>3, KeepsStream DEF UnloadWait

-----------------------------------------------------------------------------
\* Every action, and a stuttering step, preserves the invariant.
LEMMA StepInv == IInv /\ [Next]_vars => IInv'
  <1> SUFFICES ASSUME IInv, [Next]_vars PROVE IInv'
    OBVIOUS
  <1>1. CASE Client
    <2>1. ASSUME NEW p \in Ports, NEW b \in owned[p], StartCall(p, b) PROVE IInv'
      BY <2>1, StartCall_Step
    <2>2. ASSUME NEW p \in Ports, QueueBuffer(p) PROVE IInv'
      BY <2>2, QueueBuffer_Step
    <2>3. ASSUME NEW p \in Ports, PostBuffer(p) PROVE IInv'
      BY <2>3, PostBuffer_Step
    <2>4. ASSUME NEW p \in Ports, FreeBuffers(p) PROVE IInv'
      BY <2>4, FreeBuffers_Step
    <2>5. ASSUME NEW p \in Ports, UseBuffers(p) PROVE IInv'
      BY <2>5, UseBuffers_Step
    <2>6. ASSUME NEW c \in Commands, SendStateSet(c) PROVE IInv'
      BY <2>6, SendStateSet_Step
    <2>7. ASSUME NEW c \in Commands, SendFlush(c) PROVE IInv'
      BY <2>7, SendFlush_Step
    <2>8. ASSUME NEW c \in Commands, SendPortCommand(c) PROVE IInv'
      BY <2>8, SendPortCommand_Step
    <2> QED BY <1>1, <2>1, <2>2, <2>3, <2>4, <2>5, <2>6, <2>7, <2>8 DEF Client,
         BufferReturn
  <1>2. CASE BufferProcess
    <2>1. CASE OuterLoop
      BY <2>1, OuterLoop_Step
    <2>2. CASE LoopSignalReset
      BY <2>2, LoopSignalReset_Step
    <2>3. CASE LoopSignalWait
      BY <2>3, LoopSignalWait_Step
    <2>4. CASE InnerLoop
      BY <2>4, InnerLoop_Step
    <2>5. CASE CheckOutput
      BY <2>5, CheckOutput_Step
    <2>6. ASSUME NEW p \in Ports, GetQueue(p) PROVE IInv'
      BY <2>6, GetQueue_Step
    <2>7. ASSUME NEW p \in Ports, GetToken(p) PROVE IInv'
      BY <2>7, GetToken_Step
    <2>8. ASSUME NEW p \in Ports, DequeueBuffer(p) PROVE IInv'
      BY <2>8, DequeueBuffer_Step
    <2>9. CASE ChooseStage
      BY <2>9, ChooseStage_Step
    <2>10. CASE Preprocess
      BY <2>10, Preprocess_Step
    <2>11. CASE PreprocessDone
      BY <2>11, PreprocessDone_Step
    <2>12. CASE DecodeLock
      BY <2>12, DecodeLock_Step
    <2>13. ASSUME NEW r \in DecodeResults, Decode(r) PROVE IInv'
      BY <2>13, Decode_Step
    <2>14. CASE Postprocess
      BY <2>14, Postprocess_Step
    <2>15. CASE PostprocessDone
      BY <2>15, PostprocessDone_Step
    <2>16. CASE ReturnNow("bp")
      BY <2>16, ReturnNow_bp_Step
    <2>17. CASE ReturnPauses("bp")
      BY <2>17, ReturnPauses_bp_Step
    <2>18. CASE ReturnSignalReset("bp")
      BY <2>18, ReturnSignalReset_bp_Step
    <2>19. CASE ReturnSignalWait("bp")
      BY <2>19, ReturnSignalWait_bp_Step
    <2>20. CASE DecodeDone
      BY <2>20, DecodeDone_Step
    <2> QED BY <1>2, <2>1, <2>2, <2>3, <2>4, <2>5, <2>6, <2>7, <2>8, <2>9, <2>10,
         <2>11, <2>12, <2>13, <2>14, <2>15, <2>16, <2>17, <2>18, <2>19, <2>20 DEF
         BufferProcess, BufferReturn
  <1>3. CASE MessageHandler
    <2>1. CASE TakeCommand
      BY <2>1, TakeCommand_Step
    <2>2. CASE FlushBegin
      BY <2>2, FlushBegin_Step
    <2>3. CASE FlushLock
      BY <2>3, FlushLock_Step
    <2>4. CASE FlushQueue
      BY <2>4, FlushQueue_Step
    <2>5. CASE FlushToken
      BY <2>5, FlushToken_Step
    <2>6. CASE FlushSlot
      BY <2>6, FlushSlot_Step
    <2>7. CASE ReturnNow("handler")
      BY <2>7, ReturnNow_handler_Step
    <2>8. CASE ReturnPauses("handler")
      BY <2>8, ReturnPauses_handler_Step
    <2>9. CASE ReturnSignalReset("handler")
      BY <2>9, ReturnSignalReset_handler_Step
    <2>10. CASE ReturnSignalWait("handler")
      BY <2>10, ReturnSignalWait_handler_Step
    <2>11. CASE Drain
      BY <2>11, Drain_Step
    <2>12. CASE DrainToken
      BY <2>12, DrainToken_Step
    <2>13. CASE Unflush
      BY <2>13, Unflush_Step
    <2>14. CASE ResetFlags
      BY <2>14, ResetFlags_Step
    <2>15. CASE DisablePort
      BY <2>15, DisablePort_Step
    <2>16. CASE DisableUnloaded
      BY <2>16, DisableUnloaded_Step
    <2>17. CASE EnablePort
      BY <2>17, EnablePort_Step
    <2>18. CASE EnableLoaded
      BY <2>18, EnableLoaded_Step
    <2>19. CASE RefuseStateSet
      BY <2>19, RefuseStateSet_Step
    <2>20. CASE ToExecuting
      BY <2>20, ToExecuting_Step
    <2>21. CASE SignalExecuting
      BY <2>21, SignalExecuting_Step
    <2>22. CASE ToPause
      BY <2>22, ToPause_Step
    <2>23. CASE ToIdle
      BY <2>23, ToIdle_Step
    <2>24. CASE UnloadExit
      BY <2>24, UnloadExit_Step
    <2>25. CASE UnloadSignal
      BY <2>25, UnloadSignal_Step
    <2>26. CASE UnloadJoin
      BY <2>26, UnloadJoin_Step
    <2>27. CASE UnloadWait
      BY <2>27, UnloadWait_Step
    <2> QED BY <1>3, <2>1, <2>2, <2>3, <2>4, <2>5, <2>6, <2>7, <2>8, <2>9, <2>10,
         <2>11, <2>12, <2>13, <2>14, <2>15, <2>16, <2>17, <2>18, <2>19, <2>20, <2>21,
         <2>22, <2>23, <2>24, <2>25, <2>26, <2>27 DEF MessageHandler, BufferReturn
  <1>4. CASE UNCHANGED vars
    BY <1>4, KeepsControl, KeepsStream, KeepsRest
       DEF IInv, TypeOK, PcTypes, HandsFull, Locked, Inside, vars, allButPc, streamVars,
           slotVars, restVars, handlerVars, clientVars
  <1> QED BY <1>1, <1>2, <1>3, <1>4 DEF Next

\* The state that Loaded-to-Idle leaves behind satisfies the invariant.
LEMMA InitInv == Init => IInv
  <1> SUFFICES ASSUME Init PROVE IInv
    OBVIOUS
  <1>1. ControlTypes
    BY DEF Init, ControlTypes
  <1>2. StreamTypes
    <2>1. <<>> \in Seq(AllBuffers)
      OBVIOUS
    <2>2. 0 \in 0 .. MaxPieces
      BY FlowAssumption
    <2> QED BY <2>1, <2>2 DEF Init, StreamTypes
  <1>3. RestTypes
    <2>1. StateSet("Idle") \in AllCommands
      BY DEF AllCommands
    <2>2. 0 \in 0 .. MaxCommands
      BY FlowAssumption
    <2>3. Buffers \in [Ports -> SUBSET AllBuffers]
      BY DEF Buffers, AllBuffers
    <2>4. <<>> \in Seq(AllCommands)
      OBVIOUS
    <2> QED BY <2>1, <2>2, <2>3, <2>4 DEF Init, RestTypes
  <1>4. PcTypes
    BY FlowAssumption, PortNames
       DEF Init, PcTypes, Threads, BpLabels, HandlerLabels, ClientLabels
  <1>5. HandsFull
    BY PortNames DEF Init, HandsFull, PortSteps, ReturnLabels
  <1>6. Locked
    BY FlowAssumption, PortNames DEF Init, Locked, Inside, ReturnLabels
  <1> QED BY <1>1, <1>2, <1>3, <1>4, <1>5, <1>6

\* Every variable keeps its type: no semaphore, element counter or frame
\* count goes below zero, no thread is at a place of another thread's
\* program, whatever the client sends.
THEOREM TypeCorrect == Spec => []TypeOK
  BY InitInv, StepInv, PTL DEF Spec, IInv

\* The buffer process thread and the message handler are never both in a
\* stretch of code that owns the slot of the same port, for every set of
\* buffers and commands.
THEOREM SlotExclusive == Spec => []SlotExclusion
  <1>1. IInv => SlotExclusion
    BY DEF Locked, SlotExclusion
  <1> QED BY <1>1, InitInv, StepInv, PTL DEF Spec

-----------------------------------------------------------------------------
(* Where a buffer is.                                                      *)

In(s, b) == \E i \in 1 .. Len(s) : s[i] = b
Distinct(s) == \A i, j \in 1 .. Len(s) : s[i] = s[j] => i = j

\* The slot counts until the callback for its buffer is made.
InSlot(p, b) == slot[p] = b /\ ~Returning(p)

\* With the client, in a buffer call, in the queue, or in the slot: in one of them.
Housed(p, b) ==
  \/ b \in owned[p] /\ call[p] # b /\ ~In(items[p], b) /\ ~InSlot(p, b)
  \/ b \notin owned[p] /\ call[p] = b /\ ~In(items[p], b) /\ ~InSlot(p, b)
  \/ b \notin owned[p] /\ call[p] # b /\ In(items[p], b) /\ ~InSlot(p, b)
  \/ b \notin owned[p] /\ call[p] # b /\ ~In(items[p], b) /\ InSlot(p, b)

PortHouses(p) ==
  /\ owned[p] \subseteq Buffers[p]
  /\ call[p] \in Buffers[p] \cup {NoBuffer} /\ (call[p] # NoBuffer <=> pc[p] = "queue")
  /\ slot[p] \in Buffers[p] \cup {NoBuffer}
  /\ items[p] \in Seq(Buffers[p]) /\ Distinct(items[p])
  /\ \A b \in Buffers[p] : Housed(p, b)

Housing == \A p \in Ports : PortHouses(p)

\* The buffers of a port fit into its queue: SEC_OSAL_Queue never refuses one.
CapacitySuffices ==
  \A p \in Ports : IsFiniteSet(Buffers[p]) /\ Cardinality(Buffers[p]) <= QueueCapacity

\* A queue with one more buffer, and with its first buffer taken.
LEMMA Appended ==
  ASSUME NEW S, NEW s \in Seq(S), NEW e \in S, Distinct(s), ~In(s, e)
  PROVE  /\ Append(s, e) \in Seq(S) /\ Distinct(Append(s, e))
         /\ \A b : In(Append(s, e), b) <=> In(s, b) \/ b = e
  <1>1. /\ Append(s, e) \in Seq(S) /\ Len(Append(s, e)) = Len(s) + 1 /\ Len(s) \in Nat
        /\ \A i \in 1 .. Len(s) : Append(s, e)[i] = s[i]
        /\ Append(s, e)[Len(s) + 1] = e
    OBVIOUS
  <1> DEFINE t == Append(s, e)
  <1>2. Distinct(t)
    BY <1>1 DEF Distinct, In
  <1>3. ASSUME NEW b PROVE In(t, b) <=> In(s, b) \/ b = e
    <2>1. ASSUME In(s, b) PROVE In(t, b)
      BY <1>1, <2>1 DEF In
    <2>2. In(t, e)
      BY <1>1 DEF In
    <2>3. ASSUME In(t, b) PROVE In(s, b) \/ b = e
      BY <1>1, <2>3 DEF In
    <2> QED BY <2>1, <2>2, <2>3
  <1> QED BY <1>1, <1>2, <1>3

LEMMA Taken ==
  ASSUME NEW S, NEW s \in Seq(S), s # <<>>, Distinct(s)
  PROVE  /\ Tail(s) \in Seq(S) /\ Distinct(Tail(s)) /\ Head(s) \in S /\ In(s, Head(s))
         /\ \A b : In(Tail(s), b) <=> In(s, b) /\ b # Head(s)
  <1>1. /\ Tail(s) \in Seq(S) /\ Len(Tail(s)) = Len(s) - 1 /\ Len(s) \in Nat \ {0}
        /\ \A i \in 1 .. Len(s) - 1 : Tail(s)[i] = s[i + 1]
        /\ Head(s) = s[1] /\ s[1] \in S
    OBVIOUS
  <1> DEFINE t == Tail(s)
  <1>2. Distinct(t)
    BY <1>1 DEF Distinct
  <1>3. ASSUME NEW b PROVE In(t, b) <=> In(s, b) /\ b # Head(s)
    <2>1. ASSUME In(t, b) PROVE In(s, b) /\ b # Head(s)
      <3>1. PICK i \in 1 .. Len(s) - 1 : s[i + 1] = b
        BY <1>1, <2>1 DEF In
      <3>2. i + 1 \in 1 .. Len(s) /\ 1 \in 1 .. Len(s) /\ i + 1 # 1
        BY <1>1
      <3> QED BY <1>1, <3>1, <3>2 DEF In, Distinct
    <2>2. ASSUME In(s, b), b # Head(s) PROVE In(t, b)
      <3>1. PICK i \in 1 .. Len(s) : s[i] = b
        BY <2>2 DEF In
      <3>2. i - 1 \in 1 .. Len(s) - 1 /\ (i - 1) + 1 = i
        BY <1>1, <2>2, <3>1
      <3> QED BY <1>1, <3>1, <3>2 DEF In
    <2> QED BY <2>1, <2>2
  <1>4. In(s, Head(s))
    BY <1>1 DEF In
  <1> QED BY <1>1, <1>2, <1>3, <1>4

\* A queue that lacks a buffer of its port is not full.
LEMMA HasRoom ==
  ASSUME CapacitySuffices, NEW p \in Ports, NEW s \in Seq(Buffers[p]), Distinct(s),
         NEW e \in Buffers[p], ~In(s, e)
  PROVE  Len(s) < QueueCapacity
  <1> DEFINE Rest == Buffers[p] \ {e}
  <1>1. IsFiniteSet(Rest) /\ Cardinality(Rest) = Cardinality(Buffers[p]) - 1
    BY FS_RemoveElement DEF CapacitySuffices
  <1>2. s \in Injection(1 .. Len(s), Rest)
    <2>1. s \in [1 .. Len(s) -> Buffers[p]]
      OBVIOUS
    <2>2. s \in [1 .. Len(s) -> Rest]
      BY <2>1 DEF In
    <2> QED BY <2>2 DEF Distinct, Injection, IsInjective
  <1>3. Cardinality(1 .. Len(s)) <= Cardinality(Rest)
    BY <1>1, <1>2, FS_Injection
  <1>4. Cardinality(1 .. Len(s)) = Len(s) /\ Len(s) \in Nat
    BY FS_Interval
  <1>5. Cardinality(Buffers[p]) \in Nat
    BY FS_CardinalityType DEF CapacitySuffices
  <1> QED BY <1>1, <1>3, <1>4, <1>5, FlowAssumption DEF CapacitySuffices

\* A thread that neither returns a buffer nor starts to leaves the returns alone.
LEMMA ReturnsKept ==
  ASSUME PcTypes, NEW t \in Threads, NEW l, Goto(t, l), l \notin ReturnLabels,
         pc[t] \notin ReturnLabels, t = "handler" \/ todo' = todo
  PROVE  \A p \in Ports : Returning(p)' = Returning(p)
  <1>1. ASSUME NEW u \in {"bp", "handler"}, NEW p \in Ports
        PROVE  (pc[u] \in ReturnLabels /\ ReturnPort(u) = p)'
                 <=> pc[u] \in ReturnLabels /\ ReturnPort(u) = p
    <2>1. CASE u = t
      BY <2>1, PortNames DEF Goto, PcTypes
    <2>2. CASE u # t
      BY <2>2, PortNames DEF Goto, PcTypes, ReturnPort
    <2> QED BY <2>1, <2>2
  <1> QED BY <1>1 DEF Returning

\* A port that nothing of this happened to.
LEMMA HouseKept ==
  ASSUME NEW p \in Ports, PortHouses(p), Returning(p)' = Returning(p),
         owned'[p] = owned[p], call'[p] = call[p], items'[p] = items[p], slot'[p] = slot[p],
         pc'[p] = "queue" <=> pc[p] = "queue"
  PROVE  PortHouses(p)'
  BY DEF PortHouses, Housed, InSlot

\* A step that moves no buffer.
LEMMA NothingMoved ==
  ASSUME Housing, PcTypes, UNCHANGED <<owned, call, items, slot>>,
         NEW t \in {"bp", "handler"}, NEW l, Goto(t, l), l \notin ReturnLabels,
         pc[t] \notin ReturnLabels, t = "handler" \/ todo' = todo
  PROVE  Housing'
  <1>1. \A p \in Ports : Returning(p)' = Returning(p)
    BY ReturnsKept, PortNames
  <1>2. \A p \in Ports : pc'[p] = pc[p]
    BY PortNames DEF Goto, PcTypes
  <1> QED BY <1>1, <1>2, HouseKept DEF Housing

\* A step that moves no thread and no buffer.
LEMMA NobodyMoved ==
  ASSUME Housing, UNCHANGED <<owned, call, items, slot, pc, todo>>
  PROVE  Housing'
  BY HouseKept DEF Housing, Returning, ReturnPort

\* The thread makes the callback for the slot of p, and is about to clear it.
LEMMA HandedBack ==
  ASSUME Housing, PcTypes, NEW p \in Ports, NEW t \in {"bp", "handler"},
         slot[p] # NoBuffer, ~Returning(p), pc[t] \notin ReturnLabels,
         GiveBack(p, slot[p]), Goto(t, ReturnAt(p)), t = "handler" => Head(todo) = p,
         RestTypes, UNCHANGED <<call, items, slot, todo>>
  PROVE  Housing'
  <1>1. \A q \in Ports : pc'[q] = pc[q]
    BY PortNames DEF Goto, PcTypes
  <1>2. Returning(p)'
    BY PortNames DEF Returning, ReturnPort, ReturnAt, ReturnLabels, Goto, PcTypes
  <1>3. ASSUME NEW q \in Ports, q # p PROVE Returning(q)' = Returning(q)
    <2>1. ReturnPort(t)' = p /\ pc'[t] \in ReturnLabels
      BY PortNames DEF ReturnPort, ReturnAt, ReturnLabels, Goto, PcTypes
    <2>2. \A u \in {"bp", "handler"} : u # t => pc'[u] = pc[u] /\ ReturnPort(u)' = ReturnPort(u)
      BY PortNames DEF ReturnPort, Goto, PcTypes
    <2> QED BY <1>3, <2>1, <2>2 DEF Returning
  <1>4. \A q \in Ports : q # p => owned'[q] = owned[q]
    BY DEF GiveBack, RestTypes
  <1>5. owned'[p] = owned[p] \cup {slot[p]}
    BY DEF GiveBack, RestTypes
  <1>6. PortHouses(p)'
    BY <1>1, <1>2, <1>5 DEF Housing, PortHouses, Housed, InSlot
  <1> QED BY <1>1, <1>3, <1>4, <1>6, HouseKept DEF Housing

\* It clears the slot, which was empty for everybody else already.
LEMMA SlotCleared ==
  ASSUME Housing, TypeOK, NEW t \in {"bp", "handler"}, pc[t] \in ReturnLabels,
         ReturnPort(t) \in Ports, ClearSlot(t), UNCHANGED <<owned, call, items, todo>>
  PROVE  Housing'
  <1> PICK p \in Ports : p = ReturnPort(t)
    OBVIOUS
  <1>1. \A q \in Ports : pc'[q] = pc[q]
    BY PortNames DEF ClearSlot, Goto, PcTypes
  <1>2. ASSUME NEW q \in Ports, q # p PROVE Returning(q)' = Returning(q)
    <2>1. pc'[t] \notin ReturnLabels
      BY PortNames DEF ClearSlot, AfterReturn, ReturnLabels, Goto, PcTypes
    <2>2. \A u \in {"bp", "handler"} : u # t => pc'[u] = pc[u] /\ ReturnPort(u)' = ReturnPort(u)
      BY PortNames DEF ClearSlot, ReturnPort, Goto, PcTypes
    <2> QED BY <1>2, <2>1, <2>2 DEF Returning
  <1>3. Returning(p)
    BY DEF Returning
  <1>4. slot'[p] = NoBuffer /\ \A q \in Ports : q # p => slot'[q] = slot[q]
    BY DEF ClearSlot, StreamTypes
  <1>5. \A b \in Buffers[p] : b # NoBuffer
    BY FlowAssumption DEF Buffers, Ports
  <1>6. PortHouses(p)'
    BY <1>1, <1>3, <1>4, <1>5 DEF Housing, PortHouses, Housed, InSlot
  <1> QED BY <1>1, <1>2, <1>4, <1>6, HouseKept DEF Housing

\* A wait between the callback and the clearing of the slot.
LEMMA StillReturning ==
  ASSUME Housing, PcTypes, NEW t \in {"bp", "handler"}, pc[t] \in ReturnLabels,
         ReturnPort(t) \in Ports, NEW l \in ReturnLabels, Goto(t, l),
         t = "bp" => ReturnPort(t)' = ReturnPort(t),
         UNCHANGED <<owned, call, items, slot, todo>>
  PROVE  Housing'
  <1>1. \A q \in Ports : pc'[q] = pc[q]
    BY PortNames DEF Goto, PcTypes
  <1>2. \A q \in Ports : Returning(q)' = Returning(q)
    <2>1. \A u \in {"bp", "handler"} : ReturnPort(u)' = ReturnPort(u)
      BY PortNames DEF ReturnPort, Goto, PcTypes
    <2>2. \A u \in {"bp", "handler"} : pc'[u] \in ReturnLabels <=> pc[u] \in ReturnLabels
      BY PortNames DEF Goto, PcTypes
    <2> QED BY <2>1, <2>2 DEF Returning
  <1> QED BY <1>1, <1>2, HouseKept DEF Housing

\* Nobody returns the buffer of a slot whose mutex is free or the handler's alone.
LEMMA NotReturning ==
  ASSUME IInv, NEW p \in Ports
  PROVE  /\ mutex[p] = "free" => ~Returning(p)
         /\ pc["handler"] \in HandlerSections \ ReturnLabels /\ Head(todo) = p => ~Returning(p)
  <1>1. ASSUME NEW t \in {"bp", "handler"}, pc[t] \in ReturnLabels, ReturnPort(t) = p
        PROVE  Inside(t, p) /\ mutex[p] = t
    <2>1. Inside(t, p)
      BY <1>1 DEF Inside, ReturnPort, ReturnLabels
    <2> QED BY <2>1 DEF Locked
  <1>2. pc["handler"] \in HandlerSections /\ Head(todo) = p => mutex[p] = "handler"
    BY SectionOf
  <1> QED BY <1>1, <1>2 DEF Returning

LEMMA StartCall_Houses ==
  ASSUME IInv, Housing, NEW p \in Ports, NEW b \in owned[p], StartCall(p, b)
  PROVE  Housing'
  <1>1. /\ pc' = [pc EXCEPT ![p] = "queue"] /\ pc[p] = "idle"
        /\ call' = [call EXCEPT ![p] = b] /\ owned' = [owned EXCEPT ![p] = @ \ {b}]
        /\ UNCHANGED <<items, slot, todo>>
    BY DEF StartCall, Goto
  <1>2. \A q \in Ports : Returning(q)' = Returning(q)
    BY <1>1, ReturnsKept, PortNames DEF Goto, ReturnLabels
  <1>3. \A q \in Ports : q # p =>
          pc'[q] = pc[q] /\ call'[q] = call[q] /\ owned'[q] = owned[q]
    BY <1>1, PortNames DEF PcTypes, RestTypes
  <1>4. PortHouses(p)'
    <2>1. call[p] = NoBuffer /\ call'[p] = b /\ owned'[p] = owned[p] \ {b} /\ pc'[p] = "queue"
          /\ b \in Buffers[p] /\ NoBuffer \notin Buffers[p]
      BY <1>1, FlowAssumption, PortNames
         DEF Housing, PortHouses, PcTypes, RestTypes, Buffers
    <2> QED BY <1>1, <1>2, <2>1 DEF Housing, PortHouses, Housed, InSlot
  <1> QED BY <1>1, <1>2, <1>3, <1>4, HouseKept DEF Housing

LEMMA QueueBuffer_Houses ==
  ASSUME IInv, Housing, CapacitySuffices, NEW p \in Ports, QueueBuffer(p)
  PROVE  Housing'
  <1> DEFINE b == call[p]
  <1>1. /\ b \in Buffers[p] /\ ~In(items[p], b) /\ Distinct(items[p])
        /\ items[p] \in Seq(Buffers[p]) /\ NoBuffer \notin Buffers[p]
    BY FlowAssumption DEF QueueBuffer, Housing, PortHouses, Housed, Buffers, Ports
  <1>2. Len(items[p]) < QueueCapacity
    BY <1>1, HasRoom
  <1>3. /\ pc' = [pc EXCEPT ![p] = "post"] /\ pc[p] = "queue"
        /\ call' = [call EXCEPT ![p] = NoBuffer]
        /\ items' = [items EXCEPT ![p] = Append(items[p], b)]
        /\ UNCHANGED <<owned, slot, todo>>
    BY <1>2 DEF QueueBuffer, Goto
  <1>4. \A q \in Ports : Returning(q)' = Returning(q)
    BY <1>3, ReturnsKept, PortNames DEF Goto, ReturnLabels
  <1>5. \A q \in Ports : q # p =>
          pc'[q] = pc[q] /\ call'[q] = call[q] /\ items'[q] = items[q]
    BY <1>3, PortNames DEF PcTypes, RestTypes, StreamTypes
  <1>6. PortHouses(p)'
    <2>1. /\ call'[p] = NoBuffer /\ items'[p] = Append(items[p], b) /\ pc'[p] = "post"
      BY <1>3, PortNames DEF PcTypes, RestTypes, StreamTypes
    <2>2. /\ Append(items[p], b) \in Seq(Buffers[p]) /\ Distinct(Append(items[p], b))
          /\ \A e : In(Append(items[p], b), e) <=> In(items[p], e) \/ e = b
      BY <1>1, Appended
    <2>3. ASSUME NEW e \in Buffers[p] PROVE Housed(p, e)'
      BY <1>1, <1>3, <1>4, <2>1, <2>2, <2>3 DEF Housing, PortHouses, Housed, InSlot
    <2> QED BY <1>3, <2>1, <2>2, <2>3 DEF Housing, PortHouses
  <1> QED BY <1>3, <1>4, <1>5, <1>6, HouseKept DEF Housing

LEMMA DequeueBuffer_Houses ==
  ASSUME IInv, Housing, NEW p \in Ports, DequeueBuffer(p)
  PROVE  Housing'
  <1>1. PICK l \in {"chooseStage", "outer"} : Goto("bp", l)
    BY DEF DequeueBuffer
  <1>2. /\ pc["bp"] \notin ReturnLabels /\ l \notin ReturnLabels /\ mutex[p] = "free"
        /\ UNCHANGED <<owned, call, todo>>
    BY DEF DequeueBuffer, DequeueAt, ReturnLabels
  <1>3. CASE slot[p] # NoBuffer \/ QueueEmpty(p)
    BY <1>1, <1>2, <1>3, NothingMoved DEF DequeueBuffer
  <1>4. CASE ~(slot[p] # NoBuffer \/ QueueEmpty(p))
    <2>1. /\ items' = [items EXCEPT ![p] = Tail(items[p])]
          /\ slot' = [slot EXCEPT ![p] = Head(items[p])]
          /\ slot[p] = NoBuffer /\ items[p] # <<>>
      BY <1>4 DEF DequeueBuffer, QueueEmpty
    <2>2. \A q \in Ports : Returning(q)' = Returning(q)
      BY <1>1, <1>2, ReturnsKept, PortNames
    <2>3. ~Returning(p)
      BY <1>2, NotReturning
    <2>4. \A q \in Ports : pc'[q] = pc[q]
      BY <1>1, PortNames DEF Goto, PcTypes
    <2>5. \A q \in Ports : q # p => items'[q] = items[q] /\ slot'[q] = slot[q]
      BY <2>1 DEF StreamTypes
    <2>6. PortHouses(p)'
      <3>1. items'[p] = Tail(items[p]) /\ slot'[p] = Head(items[p])
        BY <2>1 DEF StreamTypes
      <3>2. items[p] \in Seq(Buffers[p]) /\ Distinct(items[p])
        BY DEF Housing, PortHouses
      <3>3. /\ Tail(items[p]) \in Seq(Buffers[p]) /\ Distinct(Tail(items[p]))
            /\ Head(items[p]) \in Buffers[p] /\ In(items[p], Head(items[p]))
            /\ \A e : In(Tail(items[p]), e) <=> In(items[p], e) /\ e # Head(items[p])
        BY <2>1, <3>2, Taken
      <3>4. NoBuffer \notin Buffers[p]
        BY FlowAssumption DEF Buffers, Ports
      <3>5. ASSUME NEW e \in Buffers[p] PROVE Housed(p, e)'
        BY <1>2, <2>1, <2>2, <2>3, <3>1, <3>3, <3>4, <3>5
           DEF Housing, PortHouses, Housed, InSlot
      <3> QED BY <1>2, <2>4, <3>1, <3>3, <3>5 DEF Housing, PortHouses
    <2> QED BY <1>2, <2>2, <2>4, <2>5, <2>6, HouseKept DEF Housing
  <1> QED BY <1>3, <1>4

LEMMA Preprocess_Houses ==
  ASSUME IInv, Housing, Preprocess
  PROVE  Housing'
  <1>1. PICK done, data, frames : PreprocessTo(done, data, frames)
    BY DEF Preprocess
  <1>2. /\ pc["bp"] = "preprocess" /\ mutex[INPUT] = "free"
        /\ UNCHANGED <<call, items, slot, todo>>
    BY DEF Preprocess
  <1>3. ~Returning(INPUT)
    BY <1>2, NotReturning, PortNames
  <1>4. CASE slot[INPUT] # NoBuffer /\ frames = 0
    BY <1>1, <1>2, <1>3, <1>4, HandedBack, PortNames
       DEF PreprocessTo, ReturnAt, ReturnLabels
  <1>5. CASE ~(slot[INPUT] # NoBuffer /\ frames = 0)
    BY <1>1, <1>2, <1>5, NothingMoved DEF PreprocessTo, ReturnLabels
  <1> QED BY <1>4, <1>5

LEMMA Postprocess_Houses ==
  ASSUME IInv, Housing, Postprocess
  PROVE  Housing'
  <1>1. PICK done, pieces, give :
          PostprocessTo(done, pieces, give) /\ (give => slot[OUTPUT] # NoBuffer)
    BY DEF Postprocess
  <1>2. /\ pc["bp"] = "postprocess" /\ mutex[OUTPUT] = "free"
        /\ UNCHANGED <<call, items, slot, todo>>
    BY DEF Postprocess
  <1>3. ~Returning(OUTPUT)
    BY <1>2, NotReturning, PortNames
  <1>4. CASE give
    BY <1>1, <1>2, <1>3, <1>4, HandedBack, PortNames
       DEF PostprocessTo, ReturnAt, ReturnLabels
  <1>5. CASE ~give
    BY <1>1, <1>2, <1>5, NothingMoved DEF PostprocessTo, ReturnLabels
  <1> QED BY <1>4, <1>5

LEMMA FlushToken_Houses ==
  ASSUME IInv, Housing, FlushToken
  PROVE  Housing'
  <1>1. PICK p \in Ports : p = Head(todo)
    BY SectionOf DEF HandlerSections, FlushToken
  <1>2. /\ pc["handler"] = "flushToken" /\ Goto("handler", "flushQueue")
        /\ UNCHANGED <<call, slot, todo>>
    BY DEF FlushToken
  <1>3. CASE QueueEmpty(p)
    BY <1>1, <1>2, <1>3, NothingMoved DEF FlushToken, ReturnLabels
  <1>4. CASE ~QueueEmpty(p)
    <2>1. /\ items' = [items EXCEPT ![p] = Tail(items[p])]
          /\ owned' = [owned EXCEPT ![p] = @ \cup {Head(items[p])}] /\ items[p] # <<>>
      BY <1>1, <1>4 DEF FlushToken, QueueEmpty, GiveBack
    <2>2. \A q \in Ports : Returning(q)' = Returning(q)
      BY <1>2, ReturnsKept, PortNames DEF ReturnLabels
    <2>3. \A q \in Ports : pc'[q] = pc[q]
      BY <1>2, PortNames DEF Goto, PcTypes
    <2>4. \A q \in Ports : q # p => items'[q] = items[q] /\ owned'[q] = owned[q]
      BY <2>1 DEF StreamTypes, RestTypes
    <2>5. PortHouses(p)'
      <3>1. items'[p] = Tail(items[p]) /\ owned'[p] = owned[p] \cup {Head(items[p])}
        BY <2>1 DEF StreamTypes, RestTypes
      <3>2. items[p] \in Seq(Buffers[p]) /\ Distinct(items[p])
        BY DEF Housing, PortHouses
      <3>3. /\ Tail(items[p]) \in Seq(Buffers[p]) /\ Distinct(Tail(items[p]))
            /\ Head(items[p]) \in Buffers[p] /\ In(items[p], Head(items[p]))
            /\ \A e : In(Tail(items[p]), e) <=> In(items[p], e) /\ e # Head(items[p])
        BY <2>1, <3>2, Taken
      <3>4. ASSUME NEW e \in Buffers[p] PROVE Housed(p, e)'
        BY <1>2, <2>2, <3>1, <3>3, <3>4 DEF Housing, PortHouses, Housed, InSlot
      <3> QED BY <1>2, <2>3, <3>1, <3>3, <3>4 DEF Housing, PortHouses
    <2> QED BY <1>2, <2>2, <2>3, <2>4, <2>5, HouseKept DEF Housing
  <1> QED BY <1>3, <1>4

LEMMA FlushSlot_Houses ==
  ASSUME IInv, Housing, FlushSlot
  PROVE  Housing'
  <1>1. PICK p \in Ports : p = Head(todo)
    BY SectionOf DEF HandlerSections, FlushSlot
  <1>2. pc["handler"] = "flushSlot" /\ UNCHANGED <<call, items, slot, todo>>
    BY DEF FlushSlot
  <1>3. ~Returning(p) /\ pc["handler"] \notin ReturnLabels
    BY <1>1, <1>2, NotReturning DEF HandlerSections, ReturnLabels
  <1>4. CASE slot[p] # NoBuffer
    BY <1>1, <1>2, <1>3, <1>4, HandedBack DEF FlushSlot
  <1>5. CASE slot[p] = NoBuffer
    BY <1>1, <1>2, <1>5, NothingMoved DEF FlushSlot, ReturnLabels
  <1> QED BY <1>4, <1>5

LEMMA BufferReturn_Houses ==
  ASSUME IInv, Housing, NEW t \in {"bp", "handler"}, BufferReturn(t)
  PROVE  Housing'
  <1>1. pc[t] \in ReturnLabels /\ UNCHANGED <<owned, call, items, todo>>
    BY DEF BufferReturn, ReturnNow, ReturnPauses, ReturnSignalReset, ReturnSignalWait,
           ReturnLabels
  <1>2. ReturnPort(t) \in Ports
    BY <1>1, SectionOf, PortNames DEF HandlerSections, ReturnPort
  <1>3. CASE ClearSlot(t)
    BY <1>1, <1>2, <1>3, SlotCleared
  <1>4. CASE ~ClearSlot(t)
    <2>1. PICK l \in {ResetAt(ReturnPort(t)), WaitAt(ReturnPort(t))} :
            Goto(t, l) /\ UNCHANGED slot
      BY <1>4 DEF BufferReturn, ReturnNow, ReturnPauses, ReturnSignalReset, ReturnSignalWait
    <2>2. l \in ReturnLabels /\ (t = "bp" => ReturnPort(t)' = ReturnPort(t))
      BY <1>2, <2>1, PortNames
         DEF ResetAt, WaitAt, ReturnLabels, ReturnPort, Goto, PcTypes
    <2> QED BY <1>1, <1>2, <2>1, <2>2, StillReturning
  <1> QED BY <1>3, <1>4

LEMMA BufferProcess_Houses ==
  ASSUME IInv, Housing, BufferProcess
  PROVE  Housing'
  <1>1. CASE \/ OuterLoop \/ LoopSignalReset \/ LoopSignalWait \/ InnerLoop \/ CheckOutput
             \/ ChooseStage \/ PreprocessDone \/ DecodeLock \/ DecodeDone \/ PostprocessDone
             \/ \E r \in DecodeResults : Decode(r)
             \/ \E p \in Ports : GetQueue(p) \/ GetToken(p)
    <2>1. PICK l \in BpLabels \ ReturnLabels : Goto("bp", l)
      BY <1>1 DEF OuterLoop, LoopSignalReset, LoopSignalWait, InnerLoop, CheckOutput,
           ChooseStage, PreprocessDone, DecodeLock, DecodeDone, PostprocessDone, Decode,
           GetQueue, GetToken, TokenAt, DequeueAt, BpLabels, ReturnLabels
    <2>2. pc["bp"] \notin ReturnLabels
      BY <1>1 DEF OuterLoop, LoopSignalReset, LoopSignalWait, InnerLoop, CheckOutput,
           ChooseStage, PreprocessDone, DecodeLock, DecodeDone, PostprocessDone, Decode,
           GetQueue, GetToken, TokenAt, GetAt, ReturnLabels
    <2>3. UNCHANGED <<owned, call, items, slot, todo>>
      BY <1>1 DEF OuterLoop, LoopSignalReset, LoopSignalWait, InnerLoop, CheckOutput,
           ChooseStage, PreprocessDone, DecodeLock, DecodeDone, PostprocessDone, Decode,
           GetQueue, GetToken
    <2> QED BY <2>1, <2>2, <2>3, NothingMoved
  <1>2. CASE Preprocess \/ Postprocess \/ BufferReturn("bp") \/ \E p \in Ports : DequeueBuffer(p)
    BY <1>2, Preprocess_Houses, Postprocess_Houses, BufferReturn_Houses, DequeueBuffer_Houses
  <1> QED BY <1>1, <1>2 DEF BufferProcess

LEMMA MessageHandler_Houses ==
  ASSUME IInv, Housing, MessageHandler
  PROVE  Housing'
  <1> DEFINE Loop == \/ TakeCommand \/ FlushBegin \/ FlushLock \/ FlushQueue
                     \/ Drain \/ DrainToken \/ Unflush \/ ResetFlags
             Rest == \/ DisablePort \/ DisableUnloaded \/ EnablePort \/ EnableLoaded
                     \/ RefuseStateSet \/ ToExecuting \/ SignalExecuting \/ ToPause \/ ToIdle
                     \/ UnloadExit \/ UnloadSignal \/ UnloadJoin \/ UnloadWait
  <1>1. CASE Loop
    <2>1. PICK l \in HandlerLabels \ ReturnLabels : Goto("handler", l)
      BY <1>1 DEF TakeCommand, FirstStep, FlushBegin, FlushLock, FlushQueue, Drain,
           DrainToken, Unflush, ResetFlags, HandlerLabels, ReturnLabels
    <2>2. pc["handler"] \notin ReturnLabels /\ UNCHANGED <<owned, call, items, slot>>
      BY <1>1 DEF TakeCommand, FlushBegin, FlushLock, FlushQueue, Drain, DrainToken, Unflush,
           ResetFlags, ReturnLabels
    <2> QED BY <2>1, <2>2, NothingMoved
  <1>2. CASE Rest
    <2>1. PICK l \in HandlerLabels \ ReturnLabels : Goto("handler", l)
      BY <1>2 DEF DisablePort, DisableUnloaded, EnablePort, EnableLoaded, NextPort,
           RefuseStateSet, ToExecuting, SignalExecuting, ToPause, ToIdle, UnloadExit,
           UnloadSignal, UnloadJoin, UnloadWait, HandlerLabels, ReturnLabels
    <2>2. pc["handler"] \notin ReturnLabels /\ UNCHANGED <<owned, call, items, slot>>
      BY <1>2 DEF DisablePort, DisableUnloaded, EnablePort, EnableLoaded, RefuseStateSet,
           ToExecuting, SignalExecuting, ToPause, ToIdle, UnloadExit, UnloadSignal,
           UnloadJoin, UnloadWait, ReturnLabels
    <2> QED BY <2>1, <2>2, NothingMoved
  <1>3. CASE FlushToken \/ FlushSlot \/ BufferReturn("handler")
    BY <1>3, FlushToken_Houses, FlushSlot_Houses, BufferReturn_Houses
  <1> QED BY <1>1, <1>2, <1>3 DEF MessageHandler

LEMMA Client_Houses ==
  ASSUME IInv, Housing, CapacitySuffices, Client
  PROVE  Housing'
  <1>1. ASSUME NEW p \in Ports, PostBuffer(p) PROVE Housing'
    <2>1. /\ pc[p] = "post" /\ Goto(p, "idle") /\ UNCHANGED <<owned, call, items, slot, todo>>
      BY <1>1 DEF PostBuffer
    <2>2. \A q \in Ports : Returning(q)' = Returning(q)
      BY <2>1, ReturnsKept, PortNames DEF ReturnLabels
    <2>3. \A q \in Ports : pc'[q] = "queue" <=> pc[q] = "queue"
      BY <2>1, PortNames DEF Goto, PcTypes
    <2> QED BY <2>1, <2>2, <2>3, HouseKept DEF Housing
  <1>2. ASSUME NEW p \in Ports, FreeBuffers(p) \/ UseBuffers(p) PROVE Housing'
    BY <1>2, NobodyMoved DEF FreeBuffers, UseBuffers
  <1>3. ASSUME NEW c \in Commands, SendStateSet(c) \/ SendFlush(c) \/ SendPortCommand(c)
        PROVE  Housing'
    BY <1>3, NobodyMoved DEF SendStateSet, SendFlush, SendPortCommand
  <1> QED BY <1>1, <1>2, <1>3, StartCall_Houses, QueueBuffer_Houses DEF Client

LEMMA StepHouses ==
  ASSUME IInv, Housing, CapacitySuffices, [Next]_vars
  PROVE  Housing'
  BY NobodyMoved, Client_Houses, BufferProcess_Houses, MessageHandler_Houses DEF Next, vars

LEMMA InitHouses == Init => Housing
  <1> SUFFICES ASSUME Init, NEW p \in Ports PROVE PortHouses(p)
    BY DEF Housing
  <1>1. /\ owned[p] = Buffers[p] /\ call[p] = NoBuffer /\ slot[p] = NoBuffer /\ items[p] = <<>>
        /\ pc[p] = "idle"
    BY PortNames DEF Init, Buffers
  <1>2. \A b : ~In(items[p], b)
    BY <1>1 DEF In
  <1>3. <<>> \in Seq(Buffers[p]) /\ Distinct(<<>>)
    BY DEF Distinct
  <1>4. NoBuffer \notin Buffers[p]
    BY FlowAssumption DEF Buffers, Ports
  <1> QED BY <1>1, <1>2, <1>3, <1>4 DEF PortHouses, Housed, InSlot

\* One place, counted.
LEMMA HousedOnce ==
  ASSUME NEW p \in Ports, NEW b, Housed(p, b)
  PROVE  Cardinality(Holders(p, b)) = 1
  <1>1. \E h : Holders(p, b) = {h}
    <2>1. CASE b \in owned[p]
      <3>1. Holders(p, b) = {"client"}
        BY <2>1 DEF Housed, InSlot, In, Holders
      <3> QED BY <3>1
    <2>2. CASE call[p] = b /\ b \notin owned[p]
      <3>1. Holders(p, b) = {"call"}
        BY <2>2 DEF Housed, InSlot, In, Holders
      <3> QED BY <3>1
    <2>3. CASE In(items[p], b) /\ b \notin owned[p] /\ call[p] # b
      <3>1. Holders(p, b) = {"queue"}
        BY <2>3 DEF Housed, InSlot, In, Holders
      <3> QED BY <3>1
    <2>4. CASE InSlot(p, b) /\ b \notin owned[p] /\ call[p] # b /\ ~In(items[p], b)
      <3>1. Holders(p, b) = {"slot"}
        BY <2>4 DEF Housed, InSlot, In, Holders
      <3> QED BY <3>1
    <2> QED BY <2>1, <2>2, <2>3, <2>4 DEF Housed
  <1> QED BY <1>1, FS_Singleton

\* Every buffer of a port is in one place at any time, with the client, in a call, in the
\* queue or in the slot, and at most once in the queue: none is lost and none is returned
\* twice, by whichever of the two threads and whatever the client does meanwhile, as long as
\* the queue has room for the buffers of its port.
THEOREM EachHasOneHolder ==
  ASSUME CapacitySuffices
  PROVE  Spec => []OneHolder
  <1>1. Housing => OneHolder
    BY HousedOnce DEF Housing, PortHouses, OneHolder, Distinct
  <1>2. IInv /\ Housing /\ [Next]_vars => IInv' /\ Housing'
    BY StepInv, StepHouses
  <1> QED BY <1>1, <1>2, InitInv, InitHouses, PTL DEF Spec

-----------------------------------------------------------------------------
(* Commands: what they leave behind.                                       *)

FlushSteps ==
  {"flush", "flushLock", "flushQueue", "flushToken", "flushSlot", "drain", "drainToken",
   "unflush", "resetFlags"} \cup ReturnLabels

\* What each of the two inner threads leaves alone.
LEMMA BufferProcessFrame ==
  ASSUME PcTypes, BufferProcess
  PROVE  /\ UNCHANGED <<stateVars, portVars, call, handlerVars, resourceVars, sent>>
         /\ pc'["handler"] = pc["handler"] /\ \A p \in Ports : pc'[p] = pc[p]
  <1>1. UNCHANGED <<stateVars, portVars, call, handlerVars, resourceVars, sent>>
    BY DEF BufferProcess, OuterLoop, LoopSignalReset, LoopSignalWait, InnerLoop, CheckOutput,
         ChooseStage, PreprocessDone, DecodeLock, DecodeDone, PostprocessDone, Decode,
         GetQueue, GetToken, DequeueBuffer, Preprocess, Postprocess, BufferReturn, ReturnNow,
         ReturnPauses, ReturnSignalReset, ReturnSignalWait
  <1>2. \E l : Goto("bp", l)
    BY DEF BufferProcess, OuterLoop, LoopSignalReset, LoopSignalWait, InnerLoop, CheckOutput,
         ChooseStage, PreprocessDone, DecodeLock, DecodeDone, PostprocessDone, Decode,
         GetQueue, GetToken, DequeueBuffer, Preprocess, Postprocess, BufferReturn, ReturnNow,
         ReturnPauses, ReturnSignalReset, ReturnSignalWait, PreprocessTo, PostprocessTo,
         ClearSlot
  <1> QED BY <1>1, <1>2, PortNames DEF Goto, PcTypes

LEMMA MessageHandlerFrame ==
  ASSUME PcTypes, MessageHandler
  PROVE  UNCHANGED <<call, sent>> /\ \A p \in Ports : pc'[p] = pc[p]
  <1>1. UNCHANGED <<call, sent>>
    BY DEF MessageHandler, TakeCommand, FlushBegin, FlushLock, FlushQueue, FlushToken,
         FlushSlot, BufferReturn, ReturnNow, ReturnPauses, ReturnSignalReset,
         ReturnSignalWait, Drain, DrainToken, Unflush, ResetFlags, DisablePort,
         DisableUnloaded, EnablePort, EnableLoaded, RefuseStateSet, ToExecuting,
         SignalExecuting, ToPause, ToIdle, UnloadExit, UnloadSignal, UnloadJoin, UnloadWait
  <1>2. \E l : Goto("handler", l)
    BY DEF MessageHandler, TakeCommand, FlushBegin, FlushLock, FlushQueue, FlushToken,
         FlushSlot, BufferReturn, ReturnNow, ReturnPauses, ReturnSignalReset,
         ReturnSignalWait, Drain, DrainToken, Unflush, ResetFlags, DisablePort,
         DisableUnloaded, EnablePort, EnableLoaded, RefuseStateSet, ToExecuting,
         SignalExecuting, ToPause, ToIdle, UnloadExit, UnloadSignal, UnloadJoin, UnloadWait,
         ClearSlot, NextPort
  <1> QED BY <1>1, <1>2, PortNames DEF Goto, PcTypes

\* Only one command of the handler's loop ahead, or none.
LEMMA LoopPorts ==
  ASSUME NEW s \in PortSeqs
  PROVE  /\ Head(s) \in Ports /\ In(s, Head(s)) /\ Len(s) \in 1 .. 2
         /\ Len(s) = 1 => Tail(s) = <<>> /\ \A p : In(s, p) <=> p = Head(s)
         /\ Len(s) > 1 => /\ s = <<INPUT, OUTPUT>> /\ Tail(s) = <<OUTPUT>>
                          /\ \A p \in Ports : In(s, p)
         /\ \A p : In(s, p) <=> p = Head(s) \/ In(Tail(s), p)
         /\ ~In(Tail(s), Head(s)) /\ \A p : ~In(<<>>, p)
  <1>1. CASE s = <<INPUT>>
    BY <1>1 DEF Ports, In
  <1>2. CASE s = <<OUTPUT>>
    BY <1>2 DEF Ports, In
  <1>3. CASE s = <<INPUT, OUTPUT>>
    <2>1. /\ Len(s) = 2 /\ s[1] = INPUT /\ s[2] = OUTPUT /\ Head(s) = INPUT
          /\ Tail(s) = <<OUTPUT>> /\ Len(Tail(s)) = 1 /\ Tail(s)[1] = OUTPUT
      BY <1>3
    <2> QED BY <1>3, <2>1, PortNames DEF In
  <1> QED BY <1>1, <1>2, <1>3 DEF PortSeqs

\* What is left of the loop when its first port is done.
LEMMA LoopRest ==
  ASSUME NEW s \in PortSeqs
  PROVE  /\ Len(s) > 1 => \A p : In(s, p) <=> p = Head(s) \/ In(Tail(s), p)
         /\ ~(Len(s) > 1) => \A p : In(s, p) => p = Head(s)
  <1>1. Len(s) = 1 \/ Len(s) > 1
    BY LoopPorts
  <1> QED BY <1>1, LoopPorts

-----------------------------------------------------------------------------
(* Marks of a flush and of a disable.                                      *)

\* A command of the kind for the port is in the message queue.
Queued(o, p) ==
  \E i \in 1 .. Len(messageQ) : messageQ[i].op = o /\ p \in PortsOf(messageQ[i])

\* A port that is marked as being flushed has its flush ahead; one that is marked as being
\* disabled and is not enabled has the end of its disable ahead.
FlushMarked(p) ==
  bIsPortFlushed[p] =>
    \/ Queued("Flush", p)
    \/ pc["handler"] \in FlushSteps \ {"resetFlags"} /\ In(todo, p)
    \/ pc["handler"] = "resetFlags" /\ In(Tail(todo), p)

DisableMarked(p) ==
  bIsPortDisabled[p] /\ ~bEnabled[p] =>
    \/ Queued("PortDisable", p)
    \/ pc["handler"] \in FlushSteps /\ cmd.op = "PortDisable" /\ p \in PortsOf(cmd)
    \/ pc["handler"] \in {"disable", "disableWait"} /\ In(todo, p)

Marks == \A p \in Ports : FlushMarked(p) /\ DisableMarked(p)

\* A command that is queued stays queued until it is taken.
LEMMA QueuedMore ==
  ASSUME RestTypes, NEW c \in AllCommands, messageQ' = Append(messageQ, c),
         NEW o, NEW p
  PROVE  Queued(o, p)' <=> Queued(o, p) \/ (c.op = o /\ p \in PortsOf(c))
  <1>1. /\ messageQ \in Seq(AllCommands) /\ Len(messageQ') = Len(messageQ) + 1
        /\ Len(messageQ) \in Nat /\ messageQ'[Len(messageQ) + 1] = c
        /\ \A i \in 1 .. Len(messageQ) : messageQ'[i] = messageQ[i]
    BY DEF RestTypes
  <1>2. ASSUME Queued(o, p) PROVE Queued(o, p)'
    BY <1>1, <1>2 DEF Queued, PortsOf
  <1>3. ASSUME c.op = o, p \in PortsOf(c) PROVE Queued(o, p)'
    <2>1. Len(messageQ) + 1 \in 1 .. Len(messageQ')
      BY <1>1
    <2> QED BY <1>1, <1>3, <2>1 DEF Queued, PortsOf
  <1>4. ASSUME Queued(o, p)' PROVE Queued(o, p) \/ (c.op = o /\ p \in PortsOf(c))
    <2>1. PICK i \in 1 .. Len(messageQ') : messageQ'[i].op = o /\ p \in PortsOf(messageQ'[i])
      BY <1>4 DEF Queued, PortsOf
    <2>2. CASE i = Len(messageQ) + 1
      BY <1>1, <2>1, <2>2
    <2>3. CASE i \in 1 .. Len(messageQ)
      BY <1>1, <2>1, <2>3 DEF Queued
    <2> QED BY <1>1, <2>2, <2>3
  <1> QED BY <1>2, <1>3, <1>4

LEMMA QueuedLess ==
  ASSUME RestTypes, messageQ # <<>>, messageQ' = Tail(messageQ), NEW o, NEW p, Queued(o, p)
  PROVE  Queued(o, p)' \/ (Head(messageQ).op = o /\ In(Head(messageQ).ports, p))
  <1>1. /\ messageQ \in Seq(AllCommands) /\ Len(messageQ') = Len(messageQ) - 1
        /\ Len(messageQ) \in Nat \ {0} /\ Head(messageQ) = messageQ[1]
        /\ \A i \in 1 .. Len(messageQ) - 1 : messageQ'[i] = messageQ[i + 1]
    BY DEF RestTypes
  <1>2. PICK i \in 1 .. Len(messageQ) : messageQ[i].op = o /\ p \in PortsOf(messageQ[i])
    BY DEF Queued
  <1>3. CASE i = 1
    BY <1>1, <1>2, <1>3 DEF PortsOf, In
  <1>4. CASE i # 1
    <2>1. i - 1 \in 1 .. Len(messageQ') /\ messageQ'[i - 1] = messageQ[i]
      BY <1>1, <1>4
    <2> QED BY <1>2, <2>1 DEF Queued, PortsOf
  <1> QED BY <1>3, <1>4

LEMMA QueuedSame ==
  ASSUME UNCHANGED messageQ, NEW o, NEW p
  PROVE  Queued(o, p)' <=> Queued(o, p)
  BY DEF Queued, PortsOf

LEMMA Client_Marks ==
  ASSUME IInv, Marks, Client
  PROVE  Marks'
  <1>1. ASSUME NEW p \in Ports, NEW b, \/ StartCall(p, b) \/ QueueBuffer(p) \/ PostBuffer(p)
        PROVE  Marks'
    <2>1. UNCHANGED <<bIsPortFlushed, bIsPortDisabled, bEnabled, messageQ, cmd, todo>>
      BY <1>1 DEF StartCall, QueueBuffer, PostBuffer
    <2>2. pc'["handler"] = pc["handler"]
      BY <1>1, PortNames DEF StartCall, QueueBuffer, PostBuffer, Goto, PcTypes
    <2> QED BY <2>1, <2>2, QueuedSame DEF Marks, FlushMarked, DisableMarked, PortsOf
  <1>2. ASSUME NEW p \in Ports, FreeBuffers(p) \/ UseBuffers(p) PROVE Marks'
    <2>1. UNCHANGED <<bIsPortFlushed, bIsPortDisabled, bEnabled, messageQ, cmd, todo, pc>>
      BY <1>2 DEF FreeBuffers, UseBuffers
    <2> QED BY <2>1, QueuedSame DEF Marks, FlushMarked, DisableMarked, PortsOf
  <1>3. ASSUME NEW c \in Commands, SendStateSet(c) PROVE Marks'
    <2>1. /\ UNCHANGED <<bIsPortFlushed, bIsPortDisabled, bEnabled, cmd, todo, pc>>
          /\ messageQ' = Append(messageQ, c) /\ c \in AllCommands
      BY <1>3, FlowAssumption DEF SendStateSet, CommandQueue
    <2> QED BY <2>1, QueuedMore DEF Marks, FlushMarked, DisableMarked, PortsOf
  <1>4. ASSUME NEW c \in Commands, SendFlush(c) PROVE Marks'
    <2>1. /\ UNCHANGED <<bIsPortDisabled, bEnabled, cmd, todo, pc>>
          /\ messageQ' = Append(messageQ, c) /\ c \in AllCommands /\ c.op = "Flush"
          /\ \A p \in Ports : bIsPortFlushed'[p] => bIsPortFlushed[p] \/ p \in PortsOf(c)
      BY <1>4, FlowAssumption DEF SendFlush, CommandQueue
    <2> QED BY <2>1, QueuedMore DEF Marks, FlushMarked, DisableMarked, PortsOf
  <1>5. ASSUME NEW c \in Commands, SendPortCommand(c) PROVE Marks'
    <2>1. /\ UNCHANGED <<bIsPortFlushed, bEnabled, cmd, todo, pc>> /\ c \in AllCommands
          /\ \A p \in Ports : bIsPortDisabled'[p] =>
               bIsPortDisabled[p] \/ (c.op = "PortDisable" /\ p \in Changed(c))
          /\ IF Changed(c) = PortsOf(c) THEN messageQ' = Append(messageQ, c)
                                        ELSE messageQ' = messageQ
      BY <1>5, FlowAssumption DEF SendPortCommand, CommandQueue
    <2>2. ASSUME c.op = "PortDisable", Changed(c) # PortsOf(c), NEW p \in Changed(c)
          PROVE  bEnabled[p]
      <3>1. c.ports \in PortSeqs /\ \A q \in PortsOf(c) : Blocked(c, q) => Len(c.ports) > 1
        BY <2>1, <2>2, CommandPorts DEF Blocked
      <3>2. Len(c.ports) > 1
        <4>1. PICK q \in PortsOf(c) : q \notin Changed(c)
          BY <2>2 DEF Changed
        <4>2. PICK i \in 1 .. Len(c.ports) : q = c.ports[i]
          BY <4>1 DEF PortsOf
        <4>3. PICK j \in 1 .. i : Blocked(c, c.ports[j])
          BY <4>1, <4>2 DEF Changed
        <4>4. j \in 1 .. Len(c.ports) /\ c.ports[j] \in PortsOf(c)
          BY <3>1, <4>2, <4>3, LoopPorts DEF PortsOf
        <4> QED BY <3>1, <4>3, <4>4
      <3>3. ~Blocked(c, p)
        <4>1. PICK i \in 1 .. Len(c.ports) :
                c.ports[i] = p /\ \A j \in 1 .. i : ~Blocked(c, c.ports[j])
          BY <2>2 DEF Changed
        <4>2. i \in 1 .. i
          BY <3>1, <4>1, LoopPorts
        <4> QED BY <4>1, <4>2
      <3> QED BY <2>2, <3>2, <3>3 DEF Blocked
    <2>3. \A p \in Changed(c) : p \in PortsOf(c)
      BY DEF Changed
    <2>4. ASSUME NEW p \in Ports PROVE FlushMarked(p)' /\ DisableMarked(p)'
      <3>1. CASE Changed(c) = PortsOf(c)
        BY <2>1, <2>3, <3>1, QueuedMore DEF Marks, FlushMarked, DisableMarked, PortsOf
      <3>2. CASE Changed(c) # PortsOf(c)
        BY <2>1, <2>2, <3>2, QueuedSame DEF Marks, FlushMarked, DisableMarked, PortsOf
      <3> QED BY <3>1, <3>2
    <2> QED BY <2>4 DEF Marks
  <1> QED BY <1>1, <1>2, <1>3, <1>4, <1>5 DEF Client

\* The handler's loop over ports: flags that stay, and where it goes on.
LEMMA FlushLoop_Marks ==
  ASSUME IInv, Marks, UNCHANGED <<bIsPortFlushed, bIsPortDisabled, bEnabled, messageQ, cmd, todo>>,
         pc["handler"] \in FlushSteps \ {"resetFlags"},
         NEW l \in FlushSteps \ {"resetFlags"}, Goto("handler", l)
  PROVE  Marks'
  <1>1. pc'["handler"] = l
    BY PortNames DEF Goto, PcTypes
  <1> QED BY <1>1, QueuedSame
          DEF Marks, FlushMarked, DisableMarked, PortsOf, FlushSteps, ReturnLabels

LEMMA MessageHandler_Marks ==
  ASSUME IInv, Marks, MessageHandler
  PROVE  Marks'
  <1>p. \A l : Goto("handler", l) => pc'["handler"] = l
    BY PortNames DEF Goto, PcTypes
  <1>t. pc["handler"] \in PortSteps => todo \in PortSeqs
    BY DEF HandsFull
  <1>1. CASE TakeCommand
    <2>1. /\ messageQ # <<>> /\ messageQ' = Tail(messageQ) /\ cmd' = Head(messageQ)
          /\ todo' = Head(messageQ).ports /\ pc["handler"] = "idle"
          /\ pc'["handler"] = FirstStep(Head(messageQ))
          /\ UNCHANGED <<bIsPortFlushed, bIsPortDisabled, bEnabled>>
      BY <1>1, <1>p DEF TakeCommand
    <2>2. \A o, p : Queued(o, p) => Queued(o, p)' \/ (cmd'.op = o /\ In(todo', p))
      BY <2>1, QueuedLess
    <2>3. cmd'.op \in {"Flush", "PortDisable"} => pc'["handler"] = "flush"
      BY <2>1 DEF FirstStep
    <2>4. \A p : In(todo', p) => p \in PortsOf(cmd')
      BY <2>1 DEF In, PortsOf
    <2> QED BY <2>1, <2>2, <2>3, <2>4
            DEF Marks, FlushMarked, DisableMarked, FlushSteps, ReturnLabels, PortsOf
  <1>2. CASE FlushBegin
    <2>1. /\ pc["handler"] = "flush" /\ pc'["handler"] = "flushLock"
          /\ UNCHANGED <<bIsPortDisabled, bEnabled, messageQ, cmd, todo>>
          /\ \A p \in Ports : bIsPortFlushed'[p] => bIsPortFlushed[p] \/ p = Head(todo)
      BY <1>2, <1>p DEF FlushBegin, ControlTypes
    <2>2. In(todo, Head(todo))
      BY <2>1, <1>t, LoopPorts DEF PortSteps
    <2> QED BY <2>1, <2>2, QueuedSame DEF Marks, FlushMarked, DisableMarked, FlushSteps, PortsOf
  <1>3. CASE FlushLock \/ FlushQueue \/ FlushToken \/ FlushSlot \/ Drain \/ DrainToken
             \/ BufferReturn("handler")
    <2>1. /\ UNCHANGED <<bIsPortFlushed, bIsPortDisabled, bEnabled, messageQ, cmd, todo>>
          /\ pc["handler"] \in FlushSteps \ {"resetFlags"}
      BY <1>3 DEF FlushLock, FlushQueue, FlushToken, FlushSlot, Drain, DrainToken,
           BufferReturn, ReturnNow, ReturnPauses, ReturnSignalReset, ReturnSignalWait,
           FlushSteps, ReturnLabels
    <2>2. \E l \in FlushSteps \ {"resetFlags"} : Goto("handler", l)
      BY <1>3 DEF FlushLock, FlushQueue, FlushToken, FlushSlot, Drain, DrainToken,
           BufferReturn, ReturnNow, ReturnPauses, ReturnSignalReset, ReturnSignalWait,
           ReturnAt, ResetAt, WaitAt, ClearSlot, AfterReturn, FlushSteps, ReturnLabels
    <2> QED BY <2>1, <2>2, FlushLoop_Marks
  <1>4. CASE Unflush
    <2>1. /\ pc["handler"] = "unflush" /\ pc'["handler"] = "resetFlags"
          /\ UNCHANGED <<bIsPortDisabled, bEnabled, messageQ, cmd, todo>>
          /\ \A p \in Ports : bIsPortFlushed'[p] => bIsPortFlushed[p] /\ p # Head(todo)
      BY <1>4, <1>p DEF Unflush, ControlTypes
    <2>2. \A p : In(todo, p) <=> p = Head(todo) \/ In(Tail(todo), p)
      BY <2>1, <1>t, LoopPorts DEF PortSteps
    <2> QED BY <2>1, <2>2, QueuedSame
            DEF Marks, FlushMarked, DisableMarked, FlushSteps, PortsOf, ReturnLabels
  <1>5. CASE ResetFlags
    <2>1. /\ pc["handler"] = "resetFlags" /\ todo \in PortSeqs
          /\ UNCHANGED <<bIsPortFlushed, bIsPortDisabled, bEnabled, messageQ, cmd>>
      BY <1>5, <1>t DEF ResetFlags, PortSteps
    <2>2. CASE Len(todo) > 1
      <3>1. todo' = Tail(todo) /\ pc'["handler"] = "flush"
        BY <1>5, <1>p, <2>2 DEF ResetFlags
      <3> QED BY <2>1, <3>1, QueuedSame
              DEF Marks, FlushMarked, DisableMarked, FlushSteps, PortsOf, ReturnLabels
    <2>3. CASE ~(Len(todo) > 1)
      <3>1. \A p : ~In(Tail(todo), p)
        BY <2>1, <2>3, LoopPorts
      <3>2. cmd.op = "PortDisable" => todo' = cmd.ports /\ pc'["handler"] = "disable"
        BY <1>5, <1>p, <2>3 DEF ResetFlags
      <3>3. \A p : p \in PortsOf(cmd) => In(cmd.ports, p)
        BY DEF PortsOf, In
      <3> QED BY <2>1, <3>1, <3>2, <3>3, QueuedSame
              DEF Marks, FlushMarked, DisableMarked, FlushSteps, PortsOf, ReturnLabels
    <2> QED BY <2>2, <2>3
  <1>6. CASE DisablePort
    <2>1. /\ pc["handler"] = "disable" /\ todo \in PortSeqs
          /\ UNCHANGED <<bIsPortFlushed, bEnabled, messageQ, cmd>>
      BY <1>6, <1>t DEF DisablePort, PortSteps
    <2>2. CASE bEnabled[Head(todo)]
      <3>1. UNCHANGED <<bIsPortDisabled, todo>> /\ pc'["handler"] = "disableWait"
        BY <1>6, <1>p, <2>2 DEF DisablePort
      <3> QED BY <2>1, <3>1, QueuedSame
              DEF Marks, FlushMarked, DisableMarked, FlushSteps, PortsOf, ReturnLabels
    <2>3. CASE ~bEnabled[Head(todo)]
      <3>1. /\ \A p \in Ports : bIsPortDisabled'[p] => bIsPortDisabled[p] /\ p # Head(todo)
            /\ todo' = Tail(todo)
            /\ pc'["handler"] = IF Len(todo) > 1 THEN "disable" ELSE "idle"
        BY <1>6, <1>p, <2>3 DEF DisablePort, ControlTypes, NextPort
      <3>2. /\ Len(todo) > 1 => \A p : In(todo, p) <=> p = Head(todo) \/ In(Tail(todo), p)
            /\ ~(Len(todo) > 1) => \A p : In(todo, p) => p = Head(todo)
        BY <2>1, LoopRest
      <3> QED BY <2>1, <3>1, <3>2, QueuedSame
              DEF Marks, FlushMarked, DisableMarked, FlushSteps, PortsOf, ReturnLabels
    <2> QED BY <2>2, <2>3
  <1>7. CASE DisableUnloaded
    <2>1. /\ pc["handler"] = "disableWait" /\ todo \in PortSeqs
          /\ UNCHANGED <<bIsPortFlushed, messageQ, cmd>> /\ todo' = Tail(todo)
          /\ \A p \in Ports : bIsPortDisabled'[p] => bIsPortDisabled[p] /\ p # Head(todo)
          /\ \A p \in Ports : p # Head(todo) => bEnabled'[p] = bEnabled[p]
          /\ pc'["handler"] = IF Len(todo) > 1 THEN "disable" ELSE "idle"
      BY <1>7, <1>p, <1>t DEF DisableUnloaded, ControlTypes, NextPort, PortSteps
    <2>2. /\ Len(todo) > 1 => \A p : In(todo, p) <=> p = Head(todo) \/ In(Tail(todo), p)
          /\ ~(Len(todo) > 1) => \A p : In(todo, p) => p = Head(todo)
      BY <2>1, LoopRest
    <2> QED BY <2>1, <2>2, QueuedSame
            DEF Marks, FlushMarked, DisableMarked, FlushSteps, PortsOf, ReturnLabels
  <1>8. CASE EnablePort \/ EnableLoaded \/ RefuseStateSet \/ ToExecuting \/ SignalExecuting
             \/ ToPause \/ ToIdle \/ UnloadExit \/ UnloadSignal \/ UnloadJoin \/ UnloadWait
    <2>1. /\ UNCHANGED <<bIsPortFlushed, bIsPortDisabled, messageQ, cmd>>
          /\ \A p \in Ports : bEnabled[p] => bEnabled'[p]
          /\ pc["handler"] \notin FlushSteps \cup {"disable", "disableWait"}
      BY <1>8 DEF EnablePort, EnableLoaded, RefuseStateSet, ToExecuting, SignalExecuting,
           ToPause, ToIdle, UnloadExit, UnloadSignal, UnloadJoin, UnloadWait, ControlTypes,
           FlushSteps, ReturnLabels
    <2> QED BY <2>1, QueuedSame DEF Marks, FlushMarked, DisableMarked, FlushSteps
  <1> QED BY <1>1, <1>2, <1>3, <1>4, <1>5, <1>6, <1>7, <1>8 DEF MessageHandler

LEMMA StepMarks ==
  ASSUME IInv, Marks, [Next]_vars
  PROVE  Marks'
  <1>1. CASE BufferProcess
    BY <1>1, BufferProcessFrame, QueuedSame DEF Marks, FlushMarked, DisableMarked, PortsOf
  <1>2. CASE UNCHANGED vars
    BY <1>2, QueuedSame DEF Marks, FlushMarked, DisableMarked, PortsOf, vars
  <1> QED BY <1>1, <1>2, Client_Marks, MessageHandler_Marks DEF Next

\* No mark of a flush or a disable outlives its command, whatever commands a client sends and
\* however many of them are in the queue: a port would refuse every buffer call for ever.
THEOREM NoMarkOutlives == Spec => []NoPortLeftMarked
  <1>1. IInv /\ Marks => NoPortLeftMarked
    <2> SUFFICES ASSUME IInv, Marks, Pending = 0, NEW p \in Ports
                 PROVE  ~bIsPortFlushed[p] /\ (bIsPortDisabled[p] => bEnabled[p])
      BY DEF NoPortLeftMarked
    <2>1. Len(messageQ) = 0 /\ CompletionSent
      BY DEF Pending, RestTypes
    <2>2. \A o, q : ~Queued(o, q)
      BY <2>1 DEF Queued
    <2>3. CASE pc["handler"] = "idle"
      BY <2>2, <2>3 DEF Marks, FlushMarked, DisableMarked, FlushSteps, ReturnLabels
    <2>4. CASE pc["handler"] = "resetFlags" /\ cmd.op = "Flush" /\ Len(todo) = 1
      <3>1. ~In(Tail(todo), p)
        BY <2>4, LoopPorts DEF HandsFull, PortSteps
      <3> QED BY <2>2, <2>4, <3>1 DEF Marks, FlushMarked, DisableMarked, FlushSteps
    <2> QED BY <2>1, <2>3, <2>4 DEF CompletionSent
  <1>2. Init => Marks
    BY DEF Init, Marks, FlushMarked, DisableMarked
  <1> QED BY <1>1, <1>2, InitInv, StepInv, StepMarks, PTL DEF Spec

-----------------------------------------------------------------------------
(* A quiet client: what a flush returns.                                   *)

Vacated(p) == items[p] = <<>> /\ slot[p] = NoBuffer

\* While a command is under way no buffer call is.
CallsRest == ~(messageQ = <<>> /\ CompletionSent) => \A p \in Ports : pc[p] = "idle"

\* How far the flush of its first port is, and of the ports before it.
Emptied ==
  /\ pc["handler"] \in {"flushSlot"} \cup ReturnLabels => items[Head(todo)] = <<>>
  /\ pc["handler"] \in {"drain", "drainToken", "unflush"} => Vacated(Head(todo))
  /\ pc["handler"] = "resetFlags" /\ cmd.op = "StateSet" => Vacated(Head(todo))
  /\ pc["handler"] \in FlushSteps /\ cmd.op = "StateSet" =>
       /\ todo \in {<<INPUT, OUTPUT>>, <<OUTPUT>>}
       /\ todo = <<OUTPUT>> => Vacated(INPUT)
  /\ pc["handler"] = "setIdle" => \A p \in Ports : Vacated(p)
  /\ pc["handler"] \in FlushSteps => cmd.op # "PortEnable"

Counted == CountMatches /\ Emptied
QuietInv == CallsRest /\ Counted

\* The two inner threads queue no buffer: an empty queue stays empty, and an empty slot
\* before an empty queue.
LEMMA StaysVacated ==
  ASSUME TypeOK, BufferProcess \/ MessageHandler, NEW p \in Ports
  PROVE  /\ items[p] = <<>> => items'[p] = <<>>
         /\ Vacated(p) => Vacated(p)'
  <1>1. CASE UNCHANGED <<items, slot>>
    BY <1>1 DEF Vacated
  <1>2. ASSUME NEW q \in Ports, DequeueBuffer(q)
        PROVE  /\ items[p] = <<>> => items'[p] = <<>>
               /\ Vacated(p) => Vacated(p)'
    BY <1>2 DEF DequeueBuffer, QueueEmpty, Vacated, StreamTypes
  <1>3. CASE FlushToken
    BY <1>3 DEF FlushToken, QueueEmpty, Vacated, StreamTypes
  <1>4. ASSUME NEW t \in {"bp", "handler"}, BufferReturn(t)
        PROVE  UNCHANGED items /\ slot'[p] \in {slot[p], NoBuffer}
    BY <1>4 DEF BufferReturn, ReturnNow, ReturnPauses, ReturnSignalReset, ReturnSignalWait,
         ClearSlot, StreamTypes
  <1>5. CASE BufferProcess /\ ~(\E q \in Ports : DequeueBuffer(q)) /\ ~BufferReturn("bp")
    BY <1>1, <1>5 DEF BufferProcess, OuterLoop, LoopSignalReset, LoopSignalWait, InnerLoop,
         CheckOutput, ChooseStage, PreprocessDone, DecodeLock, DecodeDone, PostprocessDone,
         Decode, GetQueue, GetToken, Preprocess, Postprocess
  <1>6. CASE MessageHandler /\ ~FlushToken /\ ~BufferReturn("handler")
    BY <1>1, <1>6 DEF MessageHandler, TakeCommand, FlushBegin, FlushLock, FlushQueue,
         FlushSlot, Drain, DrainToken, Unflush, ResetFlags, DisablePort, DisableUnloaded,
         EnablePort, EnableLoaded, RefuseStateSet, ToExecuting, SignalExecuting, ToPause,
         ToIdle, UnloadExit, UnloadSignal, UnloadJoin, UnloadWait
  <1> QED BY <1>2, <1>3, <1>4, <1>5, <1>6 DEF Vacated

\* One buffer more or less, and one more or less in the counter.
LEMMA CountedAppend ==
  ASSUME StreamTypes, CountMatches, NEW p \in Ports, NEW b,
         items' = [items EXCEPT ![p] = Append(items[p], b)],
         count' = [count EXCEPT ![p] = @ + 1]
  PROVE  CountMatches'
  <1>1. items[p] \in Seq(AllBuffers) /\ Len(Append(items[p], b)) = Len(items[p]) + 1
    BY DEF StreamTypes
  <1> QED BY <1>1 DEF CountMatches, StreamTypes

LEMMA CountedTail ==
  ASSUME StreamTypes, CountMatches, NEW p \in Ports, ~QueueEmpty(p),
         items' = [items EXCEPT ![p] = Tail(items[p])],
         count' = [count EXCEPT ![p] = @ - 1]
  PROVE  CountMatches'
  <1>1. items[p] \in Seq(AllBuffers) /\ items[p] # <<>> /\ Len(Tail(items[p])) = Len(items[p]) - 1
    BY DEF StreamTypes, QueueEmpty
  <1> QED BY <1>1 DEF CountMatches, StreamTypes

LEMMA BufferProcess_Counted ==
  ASSUME IInv, Counted, BufferProcess
  PROVE  Counted'
  <1>1. UNCHANGED <<messageQ, cmd, todo>> /\ pc'["handler"] = pc["handler"]
    BY BufferProcessFrame
  <1>2. pc["handler"] \in PortSteps => Head(todo) \in Ports
    BY FirstPort DEF HandsFull
  <1>3. Emptied'
    <2>1. \A p \in Ports : /\ items[p] = <<>> => items'[p] = <<>>
                           /\ Vacated(p) => Vacated(p)'
      BY StaysVacated
    <2> QED BY <1>1, <1>2, <2>1, PortNames
            DEF Counted, Emptied, PortSteps, FlushSteps, ReturnLabels
  <1>4. CountMatches'
    <2>1. CASE UNCHANGED <<items, count>>
      BY <2>1 DEF Counted, CountMatches
    <2>2. ASSUME NEW p \in Ports, DequeueBuffer(p), ~UNCHANGED <<items, count>>
          PROVE  CountMatches'
      BY <2>2, CountedTail DEF DequeueBuffer, Counted
    <2> QED BY <2>1, <2>2 DEF BufferProcess, OuterLoop, LoopSignalReset, LoopSignalWait,
         InnerLoop, CheckOutput, ChooseStage, PreprocessDone, DecodeLock, DecodeDone,
         PostprocessDone, Decode, GetQueue, GetToken, Preprocess, Postprocess, BufferReturn,
         ReturnNow, ReturnPauses, ReturnSignalReset, ReturnSignalWait
  <1> QED BY <1>3, <1>4 DEF Counted

\* A quiet client calls when nothing is pending, and sends when no call is under way.
LEMMA Client_Quiet ==
  ASSUME IInv, QuietInv, Discipline = "quiet", Client
  PROVE  QuietInv'
  <1>1. ASSUME NEW p \in Ports, NEW b, StartCall(p, b) \/ QueueBuffer(p) \/ PostBuffer(p)
        PROVE  QuietInv'
    <2>1. messageQ = <<>> /\ CompletionSent
      <3>1. CASE StartCall(p, b)
        BY <1>1, <3>1 DEF StartCall, Pending, RestTypes
      <3>2. CASE QueueBuffer(p) \/ PostBuffer(p)
        BY <3>2 DEF QueueBuffer, PostBuffer, QuietInv, CallsRest
      <3> QED BY <1>1, <3>1, <3>2
    <2>2. UNCHANGED <<messageQ, cmd, todo, slot>> /\ pc'["handler"] = pc["handler"]
      BY <1>1, PortNames DEF StartCall, QueueBuffer, PostBuffer, Goto, PcTypes
    <2>3. CallsRest' /\ Emptied'
      BY <2>1, <2>2 DEF QuietInv, Counted, CallsRest, CompletionSent, Emptied, FlushSteps, ReturnLabels
    <2>4. CountMatches'
      <3>1. CASE UNCHANGED <<items, count>>
        BY <3>1 DEF QuietInv, Counted, CountMatches
      <3>2. CASE ~UNCHANGED <<items, count>>
        BY <1>1, <3>2, CountedAppend DEF StartCall, QueueBuffer, PostBuffer, QuietInv, Counted
      <3> QED BY <3>1, <3>2
    <2> QED BY <2>3, <2>4 DEF QuietInv, Counted
  <1>2. ASSUME NEW p \in Ports, FreeBuffers(p) \/ UseBuffers(p)
        PROVE  QuietInv'
    <2>1. UNCHANGED <<items, count, slot, messageQ, cmd, todo, pc>>
      BY <1>2 DEF FreeBuffers, UseBuffers
    <2> QED BY <2>1
            DEF QuietInv, Counted, CallsRest, CompletionSent, CountMatches, Emptied, Vacated
  <1>3. ASSUME NEW c \in Commands, SendStateSet(c) \/ SendFlush(c) \/ SendPortCommand(c)
        PROVE  QuietInv'
    <2>1. UNCHANGED <<items, count, slot, cmd, todo, pc>> /\ MaySend
      BY <1>3 DEF SendStateSet, SendFlush, SendPortCommand
    <2> QED BY <2>1
            DEF QuietInv, Counted, CallsRest, CompletionSent, CountMatches, Emptied, Vacated, MaySend
  <1> QED BY <1>1, <1>2, <1>3 DEF Client

\* A step of the handler's loop that changes neither the command nor the loop.
LEMMA FlushLoop_Counted ==
  ASSUME IInv, Counted, MessageHandler, UNCHANGED <<messageQ, cmd, todo>>,
         pc["handler"] \in FlushSteps \ {"resetFlags"}, NEW l \in FlushSteps, Goto("handler", l),
         l \in {"flushSlot"} \cup ReturnLabels => items[Head(todo)] = <<>>,
         l \in {"drain", "drainToken", "unflush"} => Vacated(Head(todo))',
         l = "resetFlags" => pc["handler"] = "unflush"
  PROVE  Emptied'
  <1>1. pc'["handler"] = l
    BY PortNames DEF Goto, PcTypes
  <1>2. Head(todo) \in Ports
    BY FirstPort DEF HandsFull, PortSteps, FlushSteps
  <1>3. \A p \in Ports : /\ items[p] = <<>> => items'[p] = <<>>
                         /\ Vacated(p) => Vacated(p)'
    BY StaysVacated
  <1> QED BY <1>1, <1>2, <1>3, PortNames DEF Counted, Emptied, FlushSteps, ReturnLabels

LEMMA MessageHandler_Counted ==
  ASSUME IInv, Counted, MessageHandler
  PROVE  Counted'
  <1>p. \A l : Goto("handler", l) => pc'["handler"] = l
    BY PortNames DEF Goto, PcTypes
  <1>t. pc["handler"] \in PortSteps => todo \in PortSeqs /\ Head(todo) \in Ports
    BY FirstPort DEF HandsFull
  <1>1. CASE TakeCommand
    <2>1. /\ messageQ # <<>> /\ cmd' = Head(messageQ) /\ todo' = cmd'.ports
          /\ pc'["handler"] = FirstStep(cmd') /\ UNCHANGED <<items, count, slot>>
      BY <1>1, <1>p DEF TakeCommand
    <2>2. cmd' \in AllCommands
      BY <2>1 DEF RestTypes
    <2>3. cmd'.op = "StateSet" => cmd'.ports = <<INPUT, OUTPUT>>
      BY <2>2 DEF AllCommands, StateSet, Flush, PortDisable, PortEnable
    <2>4. pc'["handler"] \in {"flush", "enable", "stateSet"}
          /\ (cmd'.op = "PortEnable" => pc'["handler"] = "enable")
      BY <2>1 DEF FirstStep
    <2>5. Emptied'
      <3>1. <<INPUT, OUTPUT>> # <<OUTPUT>>
        <4>1. Len(<<INPUT, OUTPUT>>) = 2 /\ Len(<<OUTPUT>>) = 1
          OBVIOUS
        <4> QED BY <4>1
      <3>2. cmd'.op = "StateSet" => todo' = <<INPUT, OUTPUT>> /\ todo' # <<OUTPUT>>
        BY <2>1, <2>3, <3>1
      <3>3. /\ pc'["handler"] \notin {"flushSlot"} \cup ReturnLabels
            /\ pc'["handler"] \notin {"drain", "drainToken", "unflush", "resetFlags", "setIdle"}
            /\ pc'["handler"] \in FlushSteps => cmd'.op # "PortEnable"
        BY <2>4 DEF FlushSteps, ReturnLabels
      <3> QED BY <3>2, <3>3 DEF Emptied
    <2>6. CountMatches'
      BY <2>1 DEF Counted, CountMatches
    <2> QED BY <2>5, <2>6 DEF Counted
  <1>2. CASE FlushBegin \/ FlushLock \/ FlushQueue \/ DrainToken \/ Unflush
    <2>1. /\ UNCHANGED <<items, count, slot, messageQ, cmd, todo>>
          /\ pc["handler"] \in FlushSteps \ {"resetFlags"}
      BY <1>2 DEF FlushBegin, FlushLock, FlushQueue, DrainToken, Unflush, FlushSteps
    <2>2. Head(todo) \in Ports
      BY <2>1, <1>t DEF PortSteps, FlushSteps
    <2>3. PICK l \in FlushSteps :
            /\ Goto("handler", l)
            /\ l \in {"flushSlot"} \cup ReturnLabels => items[Head(todo)] = <<>>
            /\ l \in {"drain", "drainToken", "unflush"} => pc["handler"] = "drainToken"
            /\ l = "resetFlags" => pc["handler"] = "unflush"
      <3>1. CASE FlushQueue
        <4>1. CASE count[Head(todo)] > 0
          BY <3>1, <4>1 DEF FlushQueue, FlushSteps, ReturnLabels
        <4>2. CASE ~(count[Head(todo)] > 0)
          <5>1. items[Head(todo)] = <<>>
            BY <2>2, <4>2 DEF Counted, CountMatches, StreamTypes
          <5> QED BY <3>1, <4>2, <5>1 DEF FlushQueue, FlushSteps, ReturnLabels
        <4> QED BY <4>1, <4>2
      <3>2. CASE ~FlushQueue
        BY <1>2, <3>2 DEF FlushBegin, FlushLock, DrainToken, Unflush, FlushSteps, ReturnLabels
      <3> QED BY <3>1, <3>2
    <2>4. pc["handler"] = "drainToken" => Vacated(Head(todo))'
      BY <2>1 DEF Counted, Emptied, Vacated
    <2>5. CountMatches'
      BY <2>1 DEF Counted, CountMatches
    <2> QED BY <2>1, <2>3, <2>4, <2>5, FlushLoop_Counted DEF Counted
  <1>3. CASE FlushToken
    <2>1. /\ UNCHANGED <<messageQ, cmd, todo>> /\ pc["handler"] = "flushToken"
          /\ Goto("handler", "flushQueue")
      BY <1>3 DEF FlushToken
    <2>2. CountMatches'
      <3>1. PICK p \in Ports : p = Head(todo)
        BY <2>1, <1>t DEF PortSteps
      <3>2. CASE QueueEmpty(p)
        BY <1>3, <3>1, <3>2 DEF FlushToken, Counted, CountMatches
      <3>3. CASE ~QueueEmpty(p)
        BY <1>3, <3>1, <3>3, CountedTail DEF FlushToken, Counted
      <3> QED BY <3>2, <3>3
    <2> QED BY <2>1, <2>2, FlushLoop_Counted DEF Counted, FlushSteps, ReturnLabels
  <1>4. CASE FlushSlot
    <2>1. /\ UNCHANGED <<items, count, slot, messageQ, cmd, todo>> /\ pc["handler"] = "flushSlot"
          /\ items[Head(todo)] = <<>> /\ Head(todo) \in Ports
      BY <1>4, <1>t DEF FlushSlot, Counted, Emptied, PortSteps
    <2>2. PICK l \in {"drain"} \cup ReturnLabels :
            Goto("handler", l) /\ (l = "drain" => slot[Head(todo)] = NoBuffer)
      BY <1>4 DEF FlushSlot, ReturnAt, ReturnLabels
    <2>3. CountMatches'
      BY <2>1 DEF Counted, CountMatches
    <2> QED BY <2>1, <2>2, <2>3, FlushLoop_Counted
            DEF Counted, FlushSteps, ReturnLabels, Vacated
  <1>5. CASE BufferReturn("handler")
    <2>1. /\ UNCHANGED <<items, count, messageQ, cmd, todo>> /\ pc["handler"] \in ReturnLabels
          /\ items[Head(todo)] = <<>> /\ Head(todo) \in Ports
      BY <1>5, <1>t DEF BufferReturn, ReturnNow, ReturnPauses, ReturnSignalReset,
           ReturnSignalWait, Counted, Emptied, PortSteps, ReturnLabels
    <2>2. PICK l \in {"drain"} \cup ReturnLabels :
            Goto("handler", l) /\ (l = "drain" => slot'[Head(todo)] = NoBuffer)
      BY <1>5, <2>1 DEF BufferReturn, ReturnNow, ReturnPauses, ReturnSignalReset,
           ReturnSignalWait, ClearSlot, AfterReturn, ReturnPort, ResetAt, WaitAt, ReturnLabels,
           StreamTypes
    <2>3. CountMatches'
      BY <2>1 DEF Counted, CountMatches
    <2> QED BY <2>1, <2>2, <2>3, FlushLoop_Counted
            DEF Counted, FlushSteps, ReturnLabels, Vacated
  <1>6. CASE Drain
    <2>1. /\ UNCHANGED <<items, slot, messageQ, cmd, todo>> /\ pc["handler"] = "drain"
          /\ Vacated(Head(todo)) /\ Head(todo) \in Ports
      BY <1>6, <1>t DEF Drain, Counted, Emptied, PortSteps
    <2>2. PICK l \in {"drainToken", "unflush"} : Goto("handler", l)
      BY <1>6 DEF Drain
    <2>3. CountMatches'
      <3>1. count' = count \/ count' = [count EXCEPT ![Head(todo)] = 0]
        BY <1>6 DEF Drain
      <3>2. Len(items[Head(todo)]) = 0
        BY <2>1 DEF Vacated
      <3> QED BY <2>1, <3>1, <3>2 DEF Counted, CountMatches, StreamTypes
    <2> QED BY <2>1, <2>2, <2>3, FlushLoop_Counted
            DEF Counted, FlushSteps, ReturnLabels, Vacated
  <1>7. CASE ResetFlags
    <2>1. /\ UNCHANGED <<items, count, slot, messageQ, cmd>> /\ pc["handler"] = "resetFlags"
          /\ todo \in PortSeqs /\ cmd.op # "PortEnable"
      BY <1>7, <1>t DEF ResetFlags, Counted, Emptied, PortSteps, FlushSteps
    <2>2. CountMatches'
      BY <2>1 DEF Counted, CountMatches
    <2>3. CASE Len(todo) > 1
      <3>1. /\ todo' = <<OUTPUT>> /\ pc'["handler"] = "flush" /\ todo = <<INPUT, OUTPUT>>
        BY <1>7, <1>p, <2>1, <2>3, LoopPorts DEF ResetFlags
      <3>2. cmd.op = "StateSet" => Vacated(INPUT)
        BY <2>1, <3>1 DEF Counted, Emptied
      <3>3. Emptied'
        BY <2>1, <3>1, <3>2 DEF Emptied, FlushSteps, ReturnLabels, Vacated
      <3> QED BY <2>2, <3>3 DEF Counted
    <2>4. CASE ~(Len(todo) > 1)
      <3>1. /\ pc'["handler"] \in {"disable", "idle", "setIdle"}
            /\ pc'["handler"] = "idle" => cmd.op = "Flush"
            /\ pc'["handler"] = "setIdle" => cmd.op \notin {"Flush", "PortDisable"}
            /\ cmd.op = "Flush" => pc'["handler"] = "idle"
        BY <1>7, <1>p, <2>4 DEF ResetFlags
      <3>2. cmd.op \in {"StateSet", "Flush", "PortDisable"}
        BY <2>1 DEF RestTypes, AllCommands, StateSet, Flush, PortDisable, PortEnable
      <3>3. Emptied'
        <4>1. CASE cmd.op = "StateSet"
          <5>1. todo = <<OUTPUT>> /\ Vacated(INPUT) /\ Vacated(Head(todo))
            BY <2>1, <2>4, <4>1 DEF Counted, Emptied, FlushSteps
          <5>2. \A p \in Ports : Vacated(p)
            BY <5>1, PortNames
          <5> QED BY <2>1, <3>1, <5>2 DEF Emptied, FlushSteps, ReturnLabels, Vacated
        <4>2. CASE cmd.op # "StateSet"
          BY <2>1, <3>1, <3>2, <4>2 DEF Emptied, FlushSteps, ReturnLabels
        <4> QED BY <4>1, <4>2
      <3> QED BY <2>2, <3>3 DEF Counted
    <2> QED BY <2>3, <2>4
  <1>8. CASE \/ DisablePort \/ DisableUnloaded \/ EnablePort \/ EnableLoaded
             \/ RefuseStateSet \/ ToExecuting \/ SignalExecuting \/ ToPause \/ ToIdle
             \/ UnloadExit \/ UnloadSignal \/ UnloadJoin \/ UnloadWait
    <2>1. UNCHANGED <<items, count, slot, messageQ>> /\ pc["handler"] \notin {"idle", "resetFlags"}
      BY <1>8 DEF DisablePort, DisableUnloaded, EnablePort, EnableLoaded, RefuseStateSet,
           ToExecuting, SignalExecuting, ToPause, ToIdle, UnloadExit, UnloadSignal, UnloadJoin,
           UnloadWait
    <2>2. \E l \in HandlerLabels \ (FlushSteps \cup {"setIdle"}) : Goto("handler", l)
      BY <1>8 DEF DisablePort, DisableUnloaded, EnablePort, EnableLoaded, NextPort,
           RefuseStateSet, ToExecuting, SignalExecuting, ToPause, ToIdle, UnloadExit,
           UnloadSignal, UnloadJoin, UnloadWait, HandlerLabels, FlushSteps, ReturnLabels
    <2>3. pc'["handler"] \notin FlushSteps \cup {"setIdle"}
      BY <1>p, <2>2
    <2>4. Emptied'
      BY <2>3 DEF Emptied, FlushSteps
    <2>5. CountMatches'
      BY <2>1 DEF Counted, CountMatches
    <2> QED BY <2>4, <2>5 DEF Counted
  <1> QED BY <1>1, <1>2, <1>3, <1>4, <1>5, <1>6, <1>7, <1>8 DEF MessageHandler

\* A command that is not over was not when the step began.
LEMMA Threads_Rest ==
  ASSUME IInv, CallsRest, BufferProcess \/ MessageHandler
  PROVE  CallsRest'
  <1>1. \A p \in Ports : pc'[p] = pc[p]
    BY BufferProcessFrame, MessageHandlerFrame
  <1>2. CASE BufferProcess
    BY <1>1, <1>2, BufferProcessFrame DEF CallsRest, CompletionSent
  <1>3. CASE MessageHandler /\ messageQ = <<>> /\ CompletionSent
    <2>1. pc["handler"] # "idle" \/ TakeCommand
      BY <1>3 DEF MessageHandler, FlushBegin, FlushLock,
         FlushQueue, FlushToken, FlushSlot, BufferReturn, ReturnNow, ReturnPauses,
         ReturnSignalReset, ReturnSignalWait, Drain, DrainToken, Unflush, ResetFlags, DisablePort,
         DisableUnloaded, EnablePort, EnableLoaded, RefuseStateSet, ToExecuting,
         SignalExecuting, ToPause, ToIdle, UnloadExit, UnloadSignal, UnloadJoin, UnloadWait
    <2>2. pc["handler"] = "resetFlags" /\ cmd.op = "Flush" /\ Len(todo) = 1
      BY <1>3, <2>1 DEF CompletionSent, TakeCommand
    <2>3. ResetFlags
      BY <1>3, <2>2 DEF MessageHandler, TakeCommand, FlushBegin, FlushLock,
         FlushQueue, FlushToken, FlushSlot, BufferReturn, ReturnNow, ReturnPauses,
         ReturnSignalReset, ReturnSignalWait, Drain, DrainToken, Unflush, DisablePort,
         DisableUnloaded, EnablePort, EnableLoaded, RefuseStateSet, ToExecuting,
         SignalExecuting, ToPause, ToIdle, UnloadExit, UnloadSignal, UnloadJoin, UnloadWait
    <2>4. Goto("handler", "idle") /\ messageQ' = messageQ
      BY <2>2, <2>3 DEF ResetFlags
    <2>5. messageQ' = <<>> /\ pc'["handler"] = "idle"
      BY <1>3, <2>4, PortNames DEF Goto, PcTypes
    <2> QED BY <2>5 DEF CallsRest, CompletionSent
  <1>4. CASE MessageHandler /\ ~(messageQ = <<>> /\ CompletionSent)
    BY <1>1, <1>4 DEF CallsRest
  <1> QED BY <1>2, <1>3, <1>4

LEMMA StepQuiet ==
  ASSUME IInv, QuietInv, Discipline = "quiet", [Next]_vars
  PROVE  QuietInv'
  <1>1. CASE UNCHANGED vars
    BY <1>1 DEF QuietInv, Counted, CallsRest, CompletionSent, CountMatches, Emptied, Vacated, vars
  <1>2. CASE BufferProcess \/ MessageHandler
    BY <1>2, BufferProcess_Counted, MessageHandler_Counted, Threads_Rest DEF QuietInv
  <1> QED BY <1>1, <1>2, Client_Quiet DEF Next

LEMMA InitQuiet == Init => QuietInv
  <1> SUFFICES ASSUME Init PROVE QuietInv
    OBVIOUS
  <1>1. pc["handler"] = "idle" /\ messageQ = <<>> /\ \A p \in Ports : count[p] = 0 /\ items[p] = <<>>
    BY PortNames DEF Init
  <1> QED BY <1>1 DEF QuietInv, Counted, CallsRest, CompletionSent, CountMatches, Emptied, FlushSteps,
                      ReturnLabels

\* The element counter of a queue is the number of its buffers, for a client that makes no
\* buffer call while a command is pending: no SetElemNum(0) hides a buffer, no flush leaves
\* one behind, however many commands are queued and at whatever step the buffer process
\* thread is interrupted.
THEOREM CounterRight ==
  ASSUME Discipline = "quiet"
  PROVE  Spec => []CountMatches
  <1>1. QuietInv => CountMatches
    BY DEF QuietInv, Counted
  <1>2. IInv /\ QuietInv /\ [Next]_vars => IInv' /\ QuietInv'
    BY StepInv, StepQuiet
  <1> QED BY <1>1, <1>2, InitInv, InitQuiet, PTL DEF Spec

\* A flushed port is empty when its event is sent, and a component that has come from
\* Executing or Pause to Idle has given the client every buffer of both ports back, although
\* the ports are flushed one after the other while the other thread goes on.
THEOREM FlushReturnsEverything ==
  ASSUME Discipline = "quiet", CapacitySuffices
  PROVE  Spec => []FlushReturnsAll
  <1>1. IInv /\ Housing /\ QuietInv => FlushReturnsAll
    <2> SUFFICES ASSUME IInv, Housing, QuietInv PROVE FlushReturnsAll
      OBVIOUS
    <2>1. pc["handler"] = "unflush" => items[Head(todo)] = <<>> /\ slot[Head(todo)] = NoBuffer
      BY DEF QuietInv, Counted, Emptied, Vacated
    <2>2. ASSUME pc["handler"] = "setIdle", NEW p \in Ports PROVE owned[p] = Buffers[p]
      <3>1. items[p] = <<>> /\ slot[p] = NoBuffer /\ pc[p] = "idle"
        BY <2>2 DEF QuietInv, Counted, Emptied, Vacated, CallsRest, CompletionSent
      <3>2. call[p] = NoBuffer /\ NoBuffer \notin Buffers[p]
        BY <3>1, FlowAssumption DEF Housing, PortHouses, Buffers, Ports
      <3>3. \A b : ~In(items[p], b)
        BY <3>1 DEF In
      <3>4. \A b \in Buffers[p] : b \in owned[p]
        BY <3>1, <3>2, <3>3 DEF Housing, PortHouses, Housed, InSlot
      <3> QED BY <3>4 DEF Housing, PortHouses
    <2>3. owned \in [Ports -> SUBSET AllBuffers] /\ DOMAIN Buffers = Ports
          /\ Buffers = [p \in Ports |-> Buffers[p]]
      BY DEF RestTypes, Buffers
    <2> QED BY <2>1, <2>2, <2>3 DEF FlushReturnsAll
  <1>2. IInv /\ Housing /\ QuietInv /\ [Next]_vars => IInv' /\ Housing' /\ QuietInv'
    BY StepInv, StepHouses, StepQuiet
  <1> QED BY <1>1, <1>2, InitInv, InitHouses, InitQuiet, PTL DEF Spec

-----------------------------------------------------------------------------
(* A client that plays and flushes, one call or command at a time: the tokens. *)

\* A client that plays and flushes, one call or command at a time.
Playing(c) == c.op = "Flush" \/ c.dest = "Executing"
PlaysAndFlushes ==
  /\ Discipline # "free" /\ MaxPending <= 1 /\ ~Fragments
  /\ \A c \in Commands : Playing(c)

\* One command is under way or queued, and it is one of these.
OneCommand ==
  /\ messageQ # <<>> => Len(messageQ) = 1 /\ CompletionSent
  /\ \A i \in 1 .. Len(messageQ) : Playing(messageQ[i])
  /\ pc["handler"] \in {"idle", "stateSet", "signal"} \cup FlushSteps
  /\ pc["handler"] \in FlushSteps => cmd.op = "Flush"
  /\ pc["handler"] = "stateSet" => cmd.dest = "Executing"

\* From the call to its event a flush keeps buffer calls away from its ports.
CallsAway ==
  /\ \A p \in Ports : bIsPortFlushed[p] => pc[p] = "idle"
  /\ \A p \in Ports : Queued("Flush", p) => bIsPortFlushed[p]
  /\ pc["handler"] \in FlushSteps \ {"resetFlags"} => \A p \in Ports : In(todo, p) => bIsPortFlushed[p]
  /\ pc["handler"] = "resetFlags" => \A p \in Ports : In(Tail(todo), p) => bIsPortFlushed[p]

\* The buffer process thread takes a token for an empty slot only.
SlotAwaits ==
  /\ pc["bp"] \in {"inGetQueue", "inToken", "inDequeue"} => slot[INPUT] = NoBuffer
  /\ pc["bp"] \in {"outGetQueue", "outToken", "outDequeue"} => slot[OUTPUT] = NoBuffer
  /\ pc["bp"] = "preDone" /\ ~ret => slot[INPUT] = NoBuffer

\* The state the component plays in.
Plays ==
  /\ \A p \in Ports : portState[p] = "Idle"
  /\ currentState \in {"Idle", "Executing"}
  /\ currentState = "Executing" => transientState = "Max"

PlayInv ==
  OneCommand /\ CallsAway /\ SlotAwaits /\ Plays /\ CountMatches /\ Emptied /\ TokenPerBuffer

\* With one command at most, the queue was empty when it is sent.
LEMMA SentAlone ==
  ASSUME IInv, PlaysAndFlushes, MaySend, NEW c \in Commands, messageQ' = Append(messageQ, c)
  PROVE  /\ messageQ = <<>> /\ messageQ' = <<c>> /\ CompletionSent
         /\ \A p \in Ports : pc[p] = "idle"
         /\ Len(messageQ') = 1 /\ messageQ'[1] = c
         /\ \A o, p : Queued(o, p)' => c.op = o /\ p \in PortsOf(c)
  <1>1. Len(messageQ) \in Nat /\ MaxPending \in Nat
    BY FlowAssumption DEF IInv, TypeOK, RestTypes
  <1>2. Len(messageQ) = 0 /\ CompletionSent
    BY <1>1 DEF PlaysAndFlushes, MaySend, Pending
  <1>3. messageQ = <<>>
    BY <1>2 DEF IInv, TypeOK, RestTypes
  <1>4. messageQ' = <<c>> /\ Len(messageQ') = 1 /\ messageQ'[1] = c
    BY <1>3
  <1>5. \A o, p : Queued(o, p)' => c.op = o /\ p \in PortsOf(c)
    BY <1>4 DEF Queued, PortsOf
  <1> QED BY <1>2, <1>3, <1>4, <1>5 DEF MaySend, PlaysAndFlushes

\* A step of the client that sends nothing and changes neither the queues nor the slots.
LEMMA ClientStill_Plays ==
  ASSUME IInv, PlayInv, UNCHANGED <<items, count, slot, ret, stateVars, portState, bIsPortFlushed,
                                    messageQ, cmd, todo>>,
         pc'["bp"] = pc["bp"], pc'["handler"] = pc["handler"],
         \A p \in Ports : bIsPortFlushed[p] => pc'[p] = "idle",
         sem' \in [Ports -> Nat],
         \A p \in Ports : sem'[p] + (IF pc'[p] = "post" THEN 1 ELSE 0)
                            = sem[p] + (IF pc[p] = "post" THEN 1 ELSE 0)
  PROVE  PlayInv'
  <1>1. OneCommand' /\ SlotAwaits' /\ Plays' /\ CountMatches' /\ Emptied'
    BY DEF PlayInv, OneCommand, CompletionSent, SlotAwaits, Plays, CountMatches, Emptied, Vacated,
           stateVars
  <1>2. CallsAway'
    BY QueuedSame DEF PlayInv, CallsAway
  <1>3. TokenPerBuffer'
    <2> SUFFICES ASSUME NEW p \in Ports, ~BeingFlushed(p)'
                 PROVE  Len(items[p]) <= sem'[p] + (IF pc["bp"] = DequeueAt(p) THEN 1 ELSE 0)
                                                  + (IF pc'[p] = "post" THEN 1 ELSE 0)
      BY DEF TokenPerBuffer, BeingFlushed, DequeueAt
    <2>1. ~BeingFlushed(p)
      BY DEF BeingFlushed
    <2>2. Len(items[p]) <= sem[p] + (IF pc["bp"] = DequeueAt(p) THEN 1 ELSE 0)
                                    + (IF pc[p] = "post" THEN 1 ELSE 0)
      BY <2>1 DEF PlayInv, TokenPerBuffer
    <2>3. sem[p] \in Nat /\ sem'[p] \in Nat /\ Len(items[p]) \in Nat
      BY DEF IInv, TypeOK, StreamTypes
    <2> QED BY <2>2, <2>3
  <1> QED BY <1>1, <1>2, <1>3 DEF PlayInv

LEMMA QueueBuffer_Plays ==
  ASSUME IInv, PlayInv, NEW p \in Ports, QueueBuffer(p)
  PROVE  PlayInv'
  <1>1. /\ UNCHANGED <<slot, sem, ret, stateVars, portState, bIsPortFlushed, messageQ, cmd, todo>>
        /\ pc'["bp"] = pc["bp"] /\ pc'["handler"] = pc["handler"] /\ pc[p] = "queue"
        /\ pc'[p] = "post" /\ \A q \in Ports : q # p => pc'[q] = pc[q]
    BY PortNames DEF QueueBuffer, Goto, IInv, TypeOK, PcTypes, portVars, controlVars, slotVars,
                     handlerVars
  <1>2. ~bIsPortFlushed[p]
    BY <1>1 DEF PlayInv, CallsAway
  <1>3. /\ \A q \in Ports : q # p => items'[q] = items[q]
        /\ Len(items'[p]) <= Len(items[p]) + 1
    BY DEF QueueBuffer, IInv, TypeOK, StreamTypes
  <1>4. OneCommand' /\ SlotAwaits' /\ Plays'
    BY <1>1 DEF PlayInv, OneCommand, CompletionSent, SlotAwaits, Plays, stateVars
  <1>5. CallsAway'
    BY <1>1, <1>2, QueuedSame DEF PlayInv, CallsAway
  <1>6. CountMatches'
    <2>1. CASE UNCHANGED <<items, count>>
      BY <2>1 DEF PlayInv, CountMatches
    <2> QED BY <2>1, CountedAppend DEF QueueBuffer, PlayInv, IInv, TypeOK
  <1>7. Emptied'
    <2>1. ASSUME pc["handler"] \in FlushSteps \ {"resetFlags"} PROVE Head(todo) \in Ports \ {p}
      <3>1. todo \in PortSeqs
        BY <2>1 DEF IInv, HandsFull, PortSteps, FlushSteps
      <3>2. Head(todo) \in Ports /\ In(todo, Head(todo))
        BY <3>1, LoopPorts
      <3> QED BY <1>2, <2>1, <3>2 DEF PlayInv, CallsAway
    <2>2. pc["handler"] \in FlushSteps => cmd.op = "Flush"
      BY DEF PlayInv, OneCommand
    <2>3. pc["handler"] # "setIdle"
      BY DEF PlayInv, OneCommand, FlushSteps, ReturnLabels
    <2> QED BY <1>1, <1>3, <2>1, <2>2, <2>3 DEF PlayInv, Emptied, Vacated, FlushSteps, ReturnLabels
  <1>8. TokenPerBuffer'
    <2> SUFFICES ASSUME NEW q \in Ports, ~BeingFlushed(q)'
                 PROVE  Len(items'[q]) <= sem[q] + (IF pc["bp"] = DequeueAt(q) THEN 1 ELSE 0)
                                                  + (IF pc'[q] = "post" THEN 1 ELSE 0)
      BY <1>1 DEF TokenPerBuffer, BeingFlushed, DequeueAt
    <2>1. ~BeingFlushed(q)
      BY <1>1 DEF BeingFlushed
    <2>2. Len(items[q]) <= sem[q] + (IF pc["bp"] = DequeueAt(q) THEN 1 ELSE 0)
                                    + (IF pc[q] = "post" THEN 1 ELSE 0)
      BY <2>1 DEF PlayInv, TokenPerBuffer
    <2>3. Len(items[q]) \in Nat /\ sem[q] \in Nat /\ Len(items'[q]) \in Nat
      BY StepInv DEF IInv, TypeOK, StreamTypes, QueueBuffer
    <2>4. CASE q = p
      BY <1>1, <1>3, <2>2, <2>3, <2>4
    <2>5. CASE q # p
      BY <1>1, <1>3, <2>2, <2>5
    <2> QED BY <2>4, <2>5
  <1> QED BY <1>4, <1>5, <1>6, <1>7, <1>8 DEF PlayInv

LEMMA Client_Plays ==
  ASSUME IInv, PlayInv, PlaysAndFlushes, Client
  PROVE  PlayInv'
  <1>s. sem' \in [Ports -> Nat]
    BY StepInv DEF Next, IInv, TypeOK, StreamTypes
  <1>1. ASSUME NEW p \in Ports, NEW b, StartCall(p, b) \/ PostBuffer(p) PROVE PlayInv'
    <2>1. /\ UNCHANGED <<items, count, slot, ret, stateVars, portState, bIsPortFlushed, messageQ,
                         cmd, todo>>
          /\ pc'["bp"] = pc["bp"] /\ pc'["handler"] = pc["handler"]
          /\ \A q \in Ports : q # p => pc'[q] = pc[q]
      BY <1>1, PortNames DEF StartCall, PostBuffer, Goto, IInv, TypeOK, PcTypes
    <2>2. CASE StartCall(p, b)
      <3>1. ~bIsPortFlushed[p] /\ pc[p] = "idle" /\ pc'[p] = "queue" /\ sem' = sem
        BY <2>2, PortNames DEF StartCall, CallAccepted, Goto, IInv, TypeOK, PcTypes
      <3> QED BY <1>s, <2>1, <3>1, ClientStill_Plays DEF PlayInv, CallsAway
    <2>3. CASE PostBuffer(p)
      <3>1. pc[p] = "post" /\ pc'[p] = "idle" /\ sem' = [sem EXCEPT ![p] = @ + 1]
        BY <2>3, PortNames DEF PostBuffer, Goto, IInv, TypeOK, PcTypes
      <3>2. \A q \in Ports : sem'[q] + (IF pc'[q] = "post" THEN 1 ELSE 0)
                               = sem[q] + (IF pc[q] = "post" THEN 1 ELSE 0)
        BY <2>1, <3>1 DEF IInv, TypeOK, StreamTypes
      <3> QED BY <1>s, <2>1, <3>1, <3>2, ClientStill_Plays DEF PlayInv, CallsAway
    <2> QED BY <1>1, <2>2, <2>3
  <1>2. ASSUME NEW p \in Ports, FreeBuffers(p) \/ UseBuffers(p) PROVE PlayInv'
    <2>1. UNCHANGED <<items, count, sem, slot, ret, stateVars, portState, bIsPortFlushed, messageQ,
                      cmd, todo, pc>>
      BY <1>2 DEF FreeBuffers, UseBuffers
    <2> QED BY <1>s, <2>1, ClientStill_Plays DEF PlayInv, CallsAway
  <1>3. ASSUME NEW c \in Commands, SendStateSet(c) \/ SendFlush(c) \/ SendPortCommand(c)
        PROVE  PlayInv'
    <2>1. /\ MaySend /\ c \in AllCommands /\ Playing(c)
          /\ UNCHANGED <<streamVars, cmd, todo, ret, pc, currentState>>
      BY <1>3, FlowAssumption
         DEF SendStateSet, SendFlush, SendPortCommand, PlaysAndFlushes
    <2>2. ~SendPortCommand(c)
      BY <2>1 DEF SendPortCommand, Playing, AllCommands, StateSet, Flush, PortDisable, PortEnable
    <2>3. messageQ' = Append(messageQ, c)
      BY <1>3, <2>2 DEF SendStateSet, SendFlush, CommandQueue
    <2>4. /\ CompletionSent /\ Len(messageQ') = 1 /\ messageQ'[1] = c
          /\ \A p \in Ports : pc[p] = "idle"
          /\ \A o, p : Queued(o, p)' => c.op = o /\ p \in PortsOf(c)
      BY <2>1, <2>3, SentAlone
    <2>5. OneCommand'
      BY <2>1, <2>4 DEF PlayInv, OneCommand, CompletionSent, Playing
    <2>6. \A p \in Ports : bIsPortFlushed'[p] <=> bIsPortFlushed[p] \/ (c.op = "Flush" /\ p \in PortsOf(c))
      BY <1>3, <2>2 DEF SendStateSet, SendFlush, IInv, TypeOK, ControlTypes
    <2>7. CallsAway'
      BY <2>1, <2>4, <2>6 DEF PlayInv, CallsAway
    <2>8. Plays'
      <3>1. CASE SendFlush(c)
        BY <3>1 DEF SendFlush, PlayInv, Plays, stateVars
      <3>2. CASE SendStateSet(c)
        <4>1. c.dest = "Executing"
          BY <2>1, <3>2 DEF SendStateSet, Playing
        <4> QED BY <3>2, <4>1 DEF SendStateSet, PlayInv, Plays
      <3> QED BY <1>3, <2>2, <3>1, <3>2
    <2>9. SlotAwaits' /\ CountMatches' /\ Emptied' /\ TokenPerBuffer'
      BY <2>1 DEF PlayInv, SlotAwaits, CountMatches, Emptied, Vacated, TokenPerBuffer, BeingFlushed,
                  DequeueAt, streamVars, queueVars, slotVars
    <2> QED BY <2>5, <2>7, <2>8, <2>9 DEF PlayInv
  <1> QED BY <1>1, <1>2, <1>3, QueueBuffer_Plays DEF Client

\* A token is taken for a buffer that is there, or for none: what leaves the queue has had its
\* token, and a slot that is filled is not asked for another buffer.
LEMMA BufferProcess_Plays ==
  ASSUME IInv, PlayInv, PlaysAndFlushes, BufferProcess
  PROVE  PlayInv'
  <1>1. /\ UNCHANGED <<stateVars, portVars, call, handlerVars>> /\ pc'["handler"] = pc["handler"]
        /\ \A p \in Ports : pc'[p] = pc[p]
    BY BufferProcessFrame DEF IInv, TypeOK
  <1>2. OneCommand' /\ CallsAway' /\ Plays'
    BY <1>1, QueuedSame
       DEF PlayInv, OneCommand, CompletionSent, CallsAway, Plays, handlerVars, portVars, stateVars
  <1>3. CountMatches' /\ Emptied'
    BY BufferProcess_Counted DEF PlayInv, Counted
  <1>b. \A l : Goto("bp", l) => pc'["bp"] = l
    BY PortNames DEF Goto, IInv, TypeOK, PcTypes
  <1>4. ASSUME UNCHANGED <<items, sem>>, pc["bp"] \notin {"inDequeue", "outDequeue"}
        PROVE  TokenPerBuffer'
    <2> SUFFICES ASSUME NEW p \in Ports, ~BeingFlushed(p)'
                 PROVE  Len(items[p]) <= sem[p] + (IF pc'["bp"] = DequeueAt(p) THEN 1 ELSE 0)
                                                  + (IF pc[p] = "post" THEN 1 ELSE 0)
      BY <1>1, <1>4 DEF TokenPerBuffer, BeingFlushed, DequeueAt
    <2>1. ~BeingFlushed(p)
      BY <1>1 DEF BeingFlushed, handlerVars
    <2>2. pc["bp"] # DequeueAt(p)
      BY <1>4 DEF DequeueAt
    <2>3. Len(items[p]) <= sem[p] + (IF pc[p] = "post" THEN 1 ELSE 0)
      BY <2>1, <2>2 DEF PlayInv, TokenPerBuffer, IInv, TypeOK, StreamTypes
    <2>4. Len(items[p]) \in Nat /\ sem[p] \in Nat
      BY DEF IInv, TypeOK, StreamTypes
    <2> QED BY <2>3, <2>4
  <1>5. CASE OuterLoop \/ LoopSignalReset \/ LoopSignalWait \/ InnerLoop \/ ChooseStage \/ DecodeLock
             \/ DecodeDone \/ PostprocessDone \/ \E r \in DecodeResults : Decode(r)
    <2>1. UNCHANGED <<items, sem, slot>> /\ pc["bp"] \notin {"inDequeue", "outDequeue"}
      BY <1>5 DEF OuterLoop, LoopSignalReset, LoopSignalWait, InnerLoop, ChooseStage, DecodeLock,
                  DecodeDone, PostprocessDone, Decode, streamVars, queueVars, slotVars, allButPc
    <2>2. \E l \in {"exited", "signalReset", "signalWait", "inner", "checkOutput", "outer",
                    "postprocess", "decodeLock", "preprocess", "decode", "decodeDone"} :
             Goto("bp", l)
      BY <1>5 DEF OuterLoop, LoopSignalReset, LoopSignalWait, InnerLoop, ChooseStage, DecodeLock,
                  DecodeDone, PostprocessDone, Decode
    <2>3. SlotAwaits'
      BY <1>b, <2>2 DEF SlotAwaits
    <2> QED BY <1>2, <1>3, <1>4, <2>1, <2>3 DEF PlayInv
  <1>6. CASE CheckOutput
    <2>1. /\ UNCHANGED <<items, sem, slot>> /\ pc["bp"] = "checkOutput"
          /\ \/ pc'["bp"] = "outGetQueue" /\ slot[OUTPUT] = NoBuffer
             \/ pc'["bp"] = "chooseStage"
      BY <1>6, <1>b DEF CheckOutput, allButPc, streamVars, queueVars, slotVars
    <2> QED BY <1>2, <1>3, <1>4, <2>1 DEF PlayInv, SlotAwaits
  <1>7. ASSUME NEW p \in Ports, GetQueue(p) PROVE PlayInv'
    <2>1. /\ UNCHANGED <<items, sem, slot>> /\ pc["bp"] = GetAt(p)
          /\ pc'["bp"] \in {TokenAt(p), "outer"}
      BY <1>7, <1>b DEF GetQueue, allButPc, streamVars, queueVars, slotVars
    <2> QED BY <1>2, <1>3, <1>4, <2>1, PortNames DEF PlayInv, SlotAwaits, GetAt, TokenAt
  <1>8. ASSUME NEW p \in Ports, GetToken(p) PROVE PlayInv'
    <2>1. /\ UNCHANGED <<items, slot>> /\ pc["bp"] = TokenAt(p) /\ pc'["bp"] = DequeueAt(p)
          /\ sem[p] > 0 /\ sem' = [sem EXCEPT ![p] = @ - 1]
      BY <1>8, <1>b DEF GetToken, slotVars
    <2>2. SlotAwaits'
      BY <2>1, PortNames DEF PlayInv, SlotAwaits, TokenAt, DequeueAt
    <2>3. TokenPerBuffer'
      <3> SUFFICES ASSUME NEW q \in Ports, ~BeingFlushed(q)'
                   PROVE  Len(items[q]) <= sem'[q] + (IF pc'["bp"] = DequeueAt(q) THEN 1 ELSE 0)
                                                   + (IF pc[q] = "post" THEN 1 ELSE 0)
        BY <1>1, <2>1 DEF TokenPerBuffer, BeingFlushed, DequeueAt
      <3>1. ~BeingFlushed(q)
        BY <1>1 DEF BeingFlushed, handlerVars
      <3>2. pc["bp"] # DequeueAt(q)
        BY <2>1, PortNames DEF TokenAt, DequeueAt
      <3>3. Len(items[q]) <= sem[q] + (IF pc[q] = "post" THEN 1 ELSE 0)
        BY <3>1, <3>2 DEF PlayInv, TokenPerBuffer, IInv, TypeOK, StreamTypes
      <3>4. Len(items[q]) \in Nat /\ sem[q] \in Nat /\ sem \in [Ports -> Nat]
        BY DEF IInv, TypeOK, StreamTypes
      <3>5. CASE q = p
        BY <2>1, <3>3, <3>4, <3>5
      <3>6. CASE q # p
        BY <2>1, <3>3, <3>4, <3>6
      <3> QED BY <3>5, <3>6
    <2> QED BY <1>2, <1>3, <2>2, <2>3 DEF PlayInv
  <1>9. ASSUME NEW p \in Ports, DequeueBuffer(p) PROVE PlayInv'
    <2>1. /\ pc["bp"] = DequeueAt(p) /\ pc'["bp"] \in {"chooseStage", "outer"} /\ sem' = sem
          /\ slot[p] = NoBuffer
      BY <1>9, <1>b, PortNames DEF DequeueBuffer, PlayInv, SlotAwaits, DequeueAt
    <2>2. SlotAwaits'
      BY <2>1 DEF SlotAwaits
    <2>3. /\ \A q \in Ports : q # p => items'[q] = items[q]
          /\ \/ items[p] = <<>> /\ items'[p] = <<>>
             \/ Len(items'[p]) = Len(items[p]) - 1
      <3>1. items[p] \in Seq(AllBuffers) /\ items \in [Ports -> Seq(AllBuffers)]
        BY DEF IInv, TypeOK, StreamTypes
      <3>2. QueueEmpty(p) => items[p] = <<>>
        BY <3>1 DEF QueueEmpty, PlayInv, CountMatches
      <3>3. CASE QueueEmpty(p)
        BY <1>9, <2>1, <3>2, <3>3 DEF DequeueBuffer
      <3>4. CASE ~QueueEmpty(p)
        <4>1. items' = [items EXCEPT ![p] = Tail(items[p])] /\ items[p] # <<>>
          BY <1>9, <2>1, <3>4 DEF DequeueBuffer, QueueEmpty
        <4> QED BY <3>1, <4>1
      <3> QED BY <3>3, <3>4
    <2>4. TokenPerBuffer'
      <3> SUFFICES ASSUME NEW q \in Ports, ~BeingFlushed(q)'
                   PROVE  Len(items'[q]) <= sem[q] + (IF pc'["bp"] = DequeueAt(q) THEN 1 ELSE 0)
                                                   + (IF pc[q] = "post" THEN 1 ELSE 0)
        BY <1>1, <2>1 DEF TokenPerBuffer, BeingFlushed, DequeueAt
      <3>1. ~BeingFlushed(q)
        BY <1>1 DEF BeingFlushed, handlerVars
      <3>2. Len(items[q]) <= sem[q] + (IF pc["bp"] = DequeueAt(q) THEN 1 ELSE 0)
                                    + (IF pc[q] = "post" THEN 1 ELSE 0)
        BY <3>1 DEF PlayInv, TokenPerBuffer
      <3>3. Len(items[q]) \in Nat /\ sem[q] \in Nat
        BY DEF IInv, TypeOK, StreamTypes
      <3>4. CASE q = p
        <4>1. Len(items'[p]) = 0 \/ Len(items'[p]) = Len(items[p]) - 1
          BY <2>3
        <4> QED BY <2>1, <3>2, <3>3, <3>4, <4>1
      <3>5. CASE q # p
        <4>1. pc["bp"] # DequeueAt(q)
          BY <2>1, <3>5, PortNames DEF DequeueAt
        <4> QED BY <2>3, <3>2, <3>3, <3>5, <4>1
      <3> QED BY <3>4, <3>5
    <2> QED BY <1>2, <1>3, <2>2, <2>4 DEF PlayInv
  <1>10. CASE Preprocess
    <2>1. UNCHANGED <<items, sem, slot>> /\ pc["bp"] = "preprocess"
      BY <1>10 DEF Preprocess, queueVars
    <2>2. \/ pc'["bp"] = "inReturn"
          \/ pc'["bp"] = "preDone" /\ (~ret' => slot[INPUT] = NoBuffer)
      BY <1>10, <1>b DEF Preprocess, PreprocessTo, PlaysAndFlushes
    <2> QED BY <1>2, <1>3, <1>4, <2>1, <2>2 DEF PlayInv, SlotAwaits
  <1>11. CASE PreprocessDone
    <2>1. UNCHANGED <<items, sem, slot>> /\ pc["bp"] = "preDone"
      BY <1>11 DEF PreprocessDone, queueVars
    <2>2. pc'["bp"] = "decodeLock" \/ (pc'["bp"] = "inGetQueue" /\ ~ret)
      BY <1>11, <1>b DEF PreprocessDone
    <2> QED BY <1>2, <1>3, <1>4, <2>1, <2>2 DEF PlayInv, SlotAwaits
  <1>12. CASE Postprocess
    <2>1. UNCHANGED <<items, sem, slot>> /\ pc["bp"] = "postprocess"
      BY <1>12 DEF Postprocess, queueVars
    <2>2. pc'["bp"] \in {"outReturn", "postDone"}
      BY <1>12, <1>b DEF Postprocess, PostprocessTo
    <2> QED BY <1>2, <1>3, <1>4, <2>1, <2>2 DEF PlayInv, SlotAwaits
  <1>13. CASE BufferReturn("bp")
    <2>1. /\ UNCHANGED <<items, sem>> /\ pc["bp"] \in ReturnLabels
      BY <1>13 DEF BufferReturn, ReturnNow, ReturnPauses, ReturnSignalReset, ReturnSignalWait,
                   streamVars, queueVars, allButPc, ReturnLabels
    <2>2. \/ pc'["bp"] \in ReturnLabels \cup {"postDone"}
          \/ pc'["bp"] = "preDone" /\ slot'[INPUT] = NoBuffer
      BY <1>13, <1>b
         DEF BufferReturn, ReturnNow, ReturnPauses, ReturnSignalReset, ReturnSignalWait, ClearSlot,
             AfterReturn, ReturnPort, ResetAt, WaitAt, ReturnLabels, IInv, TypeOK, StreamTypes, Ports
    <2> QED BY <1>2, <1>3, <1>4, <2>1, <2>2 DEF PlayInv, SlotAwaits, ReturnLabels
  <1> QED BY <1>5, <1>6, <1>7, <1>8, <1>9, <1>10, <1>11, <1>12, <1>13 DEF BufferProcess

\* The tokens of a port, when the handler changes at most those of the port it flushes.
LEMMA FlushedPort_Tokens ==
  ASSUME IInv, PlayInv, MessageHandler, pc'["bp"] = pc["bp"],
         NEW f \in Ports,
         \A p \in Ports : p # f => items'[p] = items[p] /\ sem'[p] = sem[p],
         \/ UNCHANGED <<items, sem>>
         \/ BeingFlushed(f) /\ (BeingFlushed(f)' \/ items'[f] = <<>>),
         \A p \in Ports : p # f => (BeingFlushed(p) => BeingFlushed(p)'),
         BeingFlushed(f) => BeingFlushed(f)' \/ items'[f] = <<>>,
         sem' \in [Ports -> Nat]
  PROVE  TokenPerBuffer'
  <1>1. \A p \in Ports : pc'[p] = pc[p]
    BY MessageHandlerFrame DEF IInv, TypeOK
  <1> SUFFICES ASSUME NEW p \in Ports, ~BeingFlushed(p)'
               PROVE  Len(items'[p]) <= sem'[p] + (IF pc["bp"] = DequeueAt(p) THEN 1 ELSE 0)
                                                + (IF pc[p] = "post" THEN 1 ELSE 0)
    BY <1>1 DEF TokenPerBuffer, BeingFlushed, DequeueAt
  <1>2. CASE BeingFlushed(p)
    <2>1. Len(items'[p]) = 0 /\ sem'[p] \in Nat
      BY <1>2
    <2> QED BY <2>1
  <1>3. CASE ~BeingFlushed(p)
    <2>1. items'[p] = items[p] /\ sem'[p] = sem[p]
      BY <1>3
    <2> QED BY <1>3, <2>1 DEF PlayInv, TokenPerBuffer
  <1> QED BY <1>2, <1>3

LEMMA Unflushed_Tokens ==
  ASSUME IInv, PlayInv, MessageHandler, pc'["bp"] = pc["bp"], UNCHANGED <<items, sem>>,
         \A p \in Ports : ~BeingFlushed(p), sem' \in [Ports -> Nat]
  PROVE  TokenPerBuffer'
  <1>1. INPUT \in Ports
    BY PortNames
  <1> QED BY <1>1, FlushedPort_Tokens

LEMMA MessageHandler_Plays ==
  ASSUME IInv, PlayInv, PlaysAndFlushes, MessageHandler
  PROVE  PlayInv'
  <1>p. \A p \in Ports : pc'[p] = pc[p]
    BY MessageHandlerFrame DEF IInv, TypeOK
  <1>g. \A l : Goto("handler", l) => pc'["handler"] = l /\ pc'["bp"] = pc["bp"]
    BY PortNames DEF Goto, IInv, TypeOK, PcTypes
  <1>t. pc["handler"] \in FlushSteps => todo \in PortSeqs /\ Head(todo) \in Ports
    BY FirstPort DEF IInv, HandsFull, PortSteps, FlushSteps
  <1>s. sem' \in [Ports -> Nat]
    BY StepInv DEF Next, IInv, TypeOK, StreamTypes
  <1>1. CountMatches' /\ Emptied'
    BY MessageHandler_Counted DEF PlayInv, Counted
  <1>2. CASE TakeCommand
    <2>1. /\ UNCHANGED <<items, sem, slot, ret, stateVars, portVars>> /\ pc["handler"] = "idle"
          /\ messageQ # <<>> /\ messageQ' = Tail(messageQ) /\ cmd' = Head(messageQ)
          /\ todo' = cmd'.ports
          /\ pc'["handler"] = FirstStep(cmd') /\ pc'["bp"] = pc["bp"]
      BY <1>2, <1>g DEF TakeCommand, controlVars, streamVars, queueVars, slotVars
    <2>2. Len(messageQ) = 1 /\ messageQ' = <<>> /\ cmd' = messageQ[1] /\ cmd' \in AllCommands
          /\ Playing(cmd')
      <3>1. Len(messageQ) = 1 /\ messageQ \in Seq(AllCommands)
        BY <2>1 DEF PlayInv, OneCommand, IInv, TypeOK, RestTypes
      <3> QED BY <2>1, <3>1 DEF PlayInv, OneCommand
    <2>3. \/ cmd'.op = "Flush" /\ pc'["handler"] = "flush"
          \/ cmd'.op = "StateSet" /\ cmd'.dest = "Executing" /\ pc'["handler"] = "stateSet"
      BY <2>1, <2>2 DEF FirstStep, Playing, AllCommands, StateSet, Flush, PortDisable, PortEnable
    <2>4. OneCommand'
      BY <2>2, <2>3 DEF OneCommand, FlushSteps, ReturnLabels
    <2>5. CallsAway'
      <3>1. \A o, p : ~Queued(o, p)'
        BY <2>2 DEF Queued
      <3>2. ASSUME cmd'.op = "Flush", NEW p \in Ports, In(todo', p) PROVE bIsPortFlushed[p]
        <4>1. Queued("Flush", p)
          BY <2>1, <2>2, <3>2 DEF Queued, PortsOf, In
        <4> QED BY <4>1 DEF PlayInv, CallsAway
      <3> QED BY <1>p, <2>1, <2>3, <3>1, <3>2 DEF PlayInv, CallsAway, portVars, FlushSteps, ReturnLabels
    <2>6. Plays' /\ SlotAwaits'
      BY <2>1 DEF PlayInv, Plays, SlotAwaits, stateVars, portVars
    <2>7. TokenPerBuffer'
      <3>1. \A p \in Ports : ~BeingFlushed(p)
        BY <2>1 DEF BeingFlushed, ReturnLabels
      <3> QED BY <1>2, <1>s, <2>1, <3>1, Unflushed_Tokens
    <2> QED BY <1>1, <2>4, <2>5, <2>6, <2>7 DEF PlayInv
  <1>3. CASE FlushBegin \/ FlushLock \/ FlushQueue \/ FlushToken \/ FlushSlot \/ BufferReturn("handler")
             \/ Drain \/ DrainToken
    <2> DEFINE f == Head(todo)
    <2>1. /\ UNCHANGED <<stateVars, portState, messageQ, cmd, todo, ret>>
          /\ pc["handler"] \in FlushSteps \ {"unflush", "resetFlags"}
          /\ \E l \in FlushSteps \ {"flush", "resetFlags"} : Goto("handler", l)
      BY <1>3 DEF FlushBegin, FlushLock, FlushQueue, FlushToken, FlushSlot, BufferReturn, ReturnNow,
                  ReturnPauses, ReturnSignalReset, ReturnSignalWait, Drain, DrainToken, ClearSlot,
                  AfterReturn, ResetAt, WaitAt, ReturnAt, FlushSteps, ReturnLabels, controlVars, portVars,
                  restVars, handlerVars, clientVars, allButPc
    <2>2. cmd.op = "Flush" /\ f \in Ports /\ todo \in PortSeqs
      BY <1>t, <2>1 DEF PlayInv, OneCommand
    <2>3. bIsPortFlushed' = bIsPortFlushed
      BY <1>3, <2>2 DEF FlushBegin, FlushLock, FlushQueue, FlushToken, FlushSlot, BufferReturn,
             ReturnNow, ReturnPauses, ReturnSignalReset, ReturnSignalWait, Drain, DrainToken, controlVars,
             portVars, allButPc
    <2>4. pc'["handler"] \in FlushSteps \ {"flush", "resetFlags"} /\ pc'["bp"] = pc["bp"]
      BY <1>g, <2>1
    <2>5. OneCommand'
      BY <2>1, <2>2, <2>4 DEF PlayInv, OneCommand, CompletionSent, FlushSteps, ReturnLabels
    <2>6. CallsAway'
      BY <1>p, <2>1, <2>3, <2>4, QueuedSame DEF PlayInv, CallsAway
    <2>7. Plays'
      BY <2>1 DEF PlayInv, Plays, stateVars
    <2>8. SlotAwaits'
      <3>1. \A p \in Ports : slot'[p] \in {slot[p], NoBuffer}
        BY <1>3 DEF FlushBegin, FlushLock, FlushQueue, FlushToken, FlushSlot, BufferReturn, ReturnNow,
                  ReturnPauses, ReturnSignalReset, ReturnSignalWait, Drain, DrainToken, ClearSlot,
                  streamVars, slotVars, allButPc, IInv, TypeOK, StreamTypes
      <3> QED BY <2>1, <2>4, <3>1, PortNames DEF PlayInv, SlotAwaits
    <2>9. TokenPerBuffer'
      <3>f. PICK q \in Ports : q = f
        BY <2>2
      <3>1. \A p \in Ports : BeingFlushed(p) => p = q
        BY <3>f DEF BeingFlushed
      <3>2. \A p \in Ports : p # q => items'[p] = items[p] /\ sem'[p] = sem[p]
        BY <1>3, <2>2, <3>f DEF FlushBegin, FlushLock, FlushQueue, FlushToken, FlushSlot, BufferReturn, ReturnNow,
                  ReturnPauses, ReturnSignalReset, ReturnSignalWait, Drain, DrainToken,
                  streamVars, queueVars, allButPc, IInv, TypeOK, StreamTypes
      <3>3. UNCHANGED <<items, sem>> \/ BeingFlushed(q)
        <4>1. CASE FlushBegin \/ FlushLock
          BY <4>1 DEF FlushBegin, FlushLock, streamVars, queueVars
        <4>2. CASE ~FlushBegin /\ ~FlushLock
          BY <1>3, <3>f, <4>2 DEF FlushQueue, FlushToken, FlushSlot, BufferReturn, ReturnNow, ReturnPauses,
                  ReturnSignalReset, ReturnSignalWait, Drain, DrainToken, BeingFlushed, ReturnLabels
        <4> QED BY <4>1, <4>2
      <3>4. BeingFlushed(q) => BeingFlushed(q)' \/ items'[q] = <<>>
        <4>1. ASSUME BeingFlushed(q), pc'["handler"] \notin {"flushQueue", "flushToken", "flushSlot", "drain",
                               "drainToken"} \cup ReturnLabels
              PROVE  items'[q] = <<>>
          <5>1. pc'["handler"] \in {"flushLock", "unflush"}
            BY <2>4, <4>1 DEF FlushSteps
          <5>2. Drain
            BY <1>3, <1>g, <4>1, <5>1
               DEF BeingFlushed, FlushBegin, FlushLock, FlushQueue, FlushToken, FlushSlot, BufferReturn,
                  ReturnNow, ReturnPauses, ReturnSignalReset, ReturnSignalWait, DrainToken, ClearSlot,
                  AfterReturn, ResetAt, WaitAt, ReturnAt, ReturnLabels
          <5> QED BY <3>f, <5>2 DEF Drain, PlayInv, Emptied, Vacated
        <4> QED BY <2>1, <3>f, <4>1 DEF BeingFlushed
      <3> HIDE DEF f
      <3> QED BY <1>s, <2>4, <3>1, <3>2, <3>3, <3>4, FlushedPort_Tokens
    <2> QED BY <1>1, <2>5, <2>6, <2>7, <2>8, <2>9 DEF PlayInv
  <1>4. CASE Unflush \/ ResetFlags
    <2>1. /\ UNCHANGED <<items, sem, slot, ret, stateVars, portState, messageQ, cmd>>
          /\ pc["handler"] \in {"unflush", "resetFlags"}
      BY <1>4 DEF Unflush, ResetFlags, controlVars, portVars, streamVars, queueVars, slotVars,
                  restVars, handlerVars
    <2>2. cmd.op = "Flush" /\ Head(todo) \in Ports /\ todo \in PortSeqs
      BY <1>t, <2>1 DEF PlayInv, OneCommand, FlushSteps
    <2>3. \/ Unflush /\ pc'["handler"] = "resetFlags" /\ todo' = todo
          \/ ResetFlags /\ Len(todo) > 1 /\ pc'["handler"] = "flush" /\ todo' = Tail(todo)
          \/ ResetFlags /\ Len(todo) = 1 /\ pc'["handler"] = "idle"
      <3>1. Len(todo) > 1 \/ Len(todo) = 1
        BY <2>2, LoopPorts
      <3> QED BY <1>4, <1>g, <2>2, <3>1 DEF Unflush, ResetFlags, restVars, handlerVars
    <2>4. pc'["bp"] = pc["bp"]
      BY <1>4, <1>g DEF Unflush, ResetFlags
    <2>5. OneCommand'
      <3>1. messageQ # <<>> => CompletionSent'
        <4>1. CASE messageQ # <<>>
          <5>1. pc["handler"] = "resetFlags" /\ Len(todo) = 1
            BY <2>1, <4>1 DEF PlayInv, OneCommand, CompletionSent
          <5> QED BY <2>3, <5>1 DEF Unflush, CompletionSent
        <4> QED BY <4>1
      <3> QED BY <2>1, <2>2, <2>3, <3>1 DEF PlayInv, OneCommand, FlushSteps, ReturnLabels
    <2>6. CallsAway'
      <3>1. CASE Unflush
        <4>1. /\ bIsPortFlushed' = [bIsPortFlushed EXCEPT ![Head(todo)] = FALSE]
              /\ pc'["handler"] = "resetFlags" /\ todo' = todo /\ messageQ = <<>>
          BY <1>g, <2>1, <2>3, <3>1 DEF Unflush, ResetFlags, PlayInv, OneCommand, CompletionSent
        <4>2. \A p \in Ports : bIsPortFlushed'[p] <=> bIsPortFlushed[p] /\ p # Head(todo)
          BY <2>2, <4>1 DEF IInv, TypeOK, ControlTypes
        <4>3. \A p \in Ports : ~Queued("Flush", p)'
          BY <2>1, <4>1 DEF Queued
        <4>4. \A p \in Ports : In(Tail(todo), p) => bIsPortFlushed'[p]
          <5>1. \A p \in Ports : In(Tail(todo), p) => In(todo, p) /\ p # Head(todo)
            BY <2>2, LoopPorts
          <5>2. \A p \in Ports : In(todo, p) => bIsPortFlushed[p]
            BY <3>1 DEF Unflush, PlayInv, CallsAway, FlushSteps
          <5> QED BY <4>2, <5>1, <5>2
        <4> QED BY <1>p, <4>1, <4>2, <4>3, <4>4 DEF PlayInv, CallsAway
      <3>2. CASE ResetFlags
        <4>1. bIsPortFlushed' = bIsPortFlushed /\ pc["handler"] = "resetFlags"
          BY <3>2 DEF ResetFlags, controlVars, portVars
        <4>2. \/ pc'["handler"] = "flush" /\ todo' = Tail(todo)
              \/ pc'["handler"] = "idle"
          BY <2>3, <4>1 DEF Unflush
        <4> QED BY <1>p, <2>1, <4>1, <4>2, QueuedSame DEF PlayInv, CallsAway, FlushSteps, ReturnLabels
      <3> QED BY <1>4, <3>1, <3>2
    <2>7. Plays' /\ SlotAwaits'
      BY <2>1, <2>4 DEF PlayInv, Plays, SlotAwaits, stateVars
    <2>8. TokenPerBuffer'
      <3>1. \A p \in Ports : ~BeingFlushed(p)
        BY <2>1 DEF BeingFlushed, ReturnLabels
      <3> QED BY <1>4, <1>s, <2>1, <2>4, <3>1, Unflushed_Tokens
    <2> QED BY <1>1, <2>5, <2>6, <2>7, <2>8 DEF PlayInv
  <1>5. CASE RefuseStateSet \/ ToExecuting \/ SignalExecuting
    <2>1. /\ UNCHANGED <<items, sem, slot, ret, portState, bIsPortFlushed, messageQ, cmd>>
          /\ pc["handler"] \in {"stateSet", "signal"} /\ pc'["handler"] \in {"idle", "signal"}
          /\ pc'["bp"] = pc["bp"]
      BY <1>5, <1>g DEF RefuseStateSet, ToExecuting, SignalExecuting, allButPc, controlVars, portVars,
                        streamVars, queueVars, slotVars, restVars, handlerVars
    <2>2. messageQ = <<>>
      BY <2>1 DEF PlayInv, OneCommand, CompletionSent
    <2>3. OneCommand'
      BY <2>1, <2>2 DEF PlayInv, OneCommand, FlushSteps, ReturnLabels
    <2>4. CallsAway'
      BY <1>p, <2>1, QueuedSame DEF PlayInv, CallsAway, FlushSteps, ReturnLabels
    <2>5. Plays'
      <3>1. CASE ToExecuting
        <4>1. currentState = "Idle"
          BY <3>1 DEF ToExecuting, Refused, PlayInv, Plays
        <4> QED BY <2>1, <3>1, <4>1 DEF ToExecuting, PlayInv, Plays
      <3>2. CASE ~ToExecuting
        BY <1>5, <2>1, <3>2 DEF RefuseStateSet, SignalExecuting, PlayInv, Plays, allButPc, controlVars,
                          stateVars
      <3> QED BY <3>1, <3>2
    <2>6. SlotAwaits'
      BY <2>1 DEF PlayInv, SlotAwaits
    <2>7. TokenPerBuffer'
      <3>1. \A p \in Ports : ~BeingFlushed(p)
        BY <2>1 DEF BeingFlushed, ReturnLabels
      <3> QED BY <1>5, <1>s, <2>1, <3>1, Unflushed_Tokens
    <2> QED BY <1>1, <2>3, <2>4, <2>5, <2>6, <2>7 DEF PlayInv
  <1>6. ~(DisablePort \/ DisableUnloaded \/ EnablePort \/ EnableLoaded \/ ToPause \/ ToIdle
           \/ UnloadExit \/ UnloadSignal \/ UnloadJoin \/ UnloadWait)
    <2>1. pc["handler"] \in {"idle", "stateSet", "signal"} \cup FlushSteps
          /\ (pc["handler"] = "stateSet" => cmd.dest = "Executing")
      BY DEF PlayInv, OneCommand
    <2> QED BY <2>1 DEF DisablePort, DisableUnloaded, EnablePort, EnableLoaded, ToPause, ToIdle,
           UnloadExit, UnloadSignal, UnloadJoin, UnloadWait, FlushSteps, ReturnLabels
  <1> QED BY <1>2, <1>3, <1>4, <1>5, <1>6 DEF MessageHandler

LEMMA StepPlays ==
  ASSUME IInv, PlayInv, PlaysAndFlushes, [Next]_vars
  PROVE  PlayInv'
  <1>1. CASE UNCHANGED vars
    <2>1. OneCommand' /\ SlotAwaits' /\ Plays' /\ CountMatches' /\ Emptied' /\ TokenPerBuffer'
      BY <1>1 DEF PlayInv, OneCommand, CompletionSent, SlotAwaits, Plays, CountMatches, Emptied, Vacated,
                  TokenPerBuffer, BeingFlushed, DequeueAt, vars, allButPc, controlVars, stateVars,
                  portVars, streamVars, queueVars, slotVars, restVars, handlerVars
    <2>2. CallsAway'
      BY <1>1, QueuedSame DEF PlayInv, CallsAway, vars, allButPc, controlVars, portVars, restVars,
                              handlerVars
    <2> QED BY <2>1, <2>2 DEF PlayInv
  <1> QED BY <1>1, Client_Plays, BufferProcess_Plays, MessageHandler_Plays DEF Next

LEMMA InitPlays == Init => PlayInv
  <1> SUFFICES ASSUME Init PROVE PlayInv
    OBVIOUS
  <1>1. /\ pc["handler"] = "idle" /\ pc["bp"] = BpStart /\ messageQ = <<>> /\ currentState = "Idle"
        /\ \A p \in Ports : /\ count[p] = 0 /\ items[p] = <<>> /\ sem[p] = 0 /\ pc[p] = "idle"
                            /\ ~bIsPortFlushed[p] /\ portState[p] = "Idle"
    BY PortNames DEF Init
  <1>2. OneCommand /\ CallsAway /\ Plays /\ CountMatches /\ Emptied /\ TokenPerBuffer
    BY <1>1 DEF OneCommand, CallsAway, Queued, Plays, CountMatches, Emptied, TokenPerBuffer,
                FlushSteps, ReturnLabels
  <1>3. SlotAwaits
    BY <1>1, FlowAssumption DEF SlotAwaits
  <1> QED BY <1>2, <1>3 DEF PlayInv

\* A client that plays and flushes, one call or command at a time but calling on while ports
\* are flushed, leaves no buffer in a queue without the token that takes it out, although the
\* flush makes, takes and drains tokens and the buffer process thread takes one before it
\* looks at the queue; the counters are right; and nothing keeps the component from running.
THEOREM TokensSuffice ==
  ASSUME PlaysAndFlushes
  PROVE  Spec => [](TokenPerBuffer /\ CountMatches /\ RunsWhenExecuting)
  <1>1. PlayInv => TokenPerBuffer /\ CountMatches /\ RunsWhenExecuting
    BY DEF PlayInv, Plays, RunsWhenExecuting, ShouldPause, Check_BufferProcess_State
  <1>2. IInv /\ PlayInv /\ [Next]_vars => IInv' /\ PlayInv'
    BY StepInv, StepPlays
  <1> QED BY <1>1, <1>2, InitInv, InitPlays, PTL DEF Spec
=============================================================================
