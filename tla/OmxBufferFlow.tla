---------------------------- MODULE OmxBufferFlow ----------------------------
(***************************************************************************)
(* The threads of one OMX video decoder between Idle, Executing and Pause: *)
(* client calls (EmptyThisBuffer, FillThisBuffer, SendCommand), the        *)
(* message handler thread (SEC_OMX_MessageHandlerThread) and the buffer    *)
(* process thread (SEC_OMX_BufferProcess), sharing two buffer queues with  *)
(* their semaphores, one data buffer per port under bufferMutex, the       *)
(* pauseEvent and a set of flags read and written without a lock.          *)
(*                                                                         *)
(* A step is one shared access, one condition over several flags, or a      *)
(* stretch of code under one mutex that the other threads cannot observe.  *)
(* The instance starts where Loaded-to-Idle left it and ends when Loaded   *)
(* is reached.  Buffer marks, tunnels and time stamps are left out.        *)
(***************************************************************************)
EXTENDS Integers, Sequences, FiniteSets

CONSTANTS InBuffers, OutBuffers, \* the buffer headers of the two ports
          NoBuffer,
          QueueCapacity,   \* what a bufferQ holds: see OsalQueue
          BpStart,         \* "outer", or "signalWait": the thread has already
                           \* reached its first wait when the client goes on
          Commands,        \* the commands the client may send
          MaxCommands,     \* bound: commands sent in one behaviour
          MaxPending,      \* commands the client leaves uncompleted
          Discipline,      \* of the client.  "free": calls and commands from
                           \* several threads; "serial": one call or command at
                           \* a time; "quiet": serial, and no buffer call until
                           \* the command before it has completed
          FrameCounts,     \* frames an input buffer may hold
          DecodeResults,   \* subset of {"done", "yet", "error"}
          MaxPieces,       \* output buffers one decoded frame may need
          Fragments        \* TRUE: input may end in an incomplete frame, or not
                           \* fit behind one

INPUT == "in"
OUTPUT == "out"
Ports == {INPUT, OUTPUT}
Buffers == [p \in Ports |-> IF p = INPUT THEN InBuffers ELSE OutBuffers]
StateSet(s) == [op |-> "StateSet", dest |-> s, ports |-> <<INPUT, OUTPUT>>]
Flush(ps) == [op |-> "Flush", dest |-> "none", ports |-> ps]
PortDisable(ps) == [op |-> "PortDisable", dest |-> "none", ports |-> ps]
PortEnable(ps) == [op |-> "PortEnable", dest |-> "none", ports |-> ps]
PortSeqs == {<<INPUT>>, <<OUTPUT>>, <<INPUT, OUTPUT>>}
AllCommands ==
  {StateSet(s) : s \in {"Idle", "Executing", "Pause", "Loaded"}}
    \cup {Flush(ps) : ps \in PortSeqs}
    \cup {PortDisable(ps) : ps \in PortSeqs} \cup {PortEnable(ps) : ps \in PortSeqs}

ASSUME FlowAssumption ==
  /\ InBuffers \cap OutBuffers = {}
  /\ NoBuffer \notin InBuffers \cup OutBuffers
  /\ QueueCapacity \in Nat \ {0}
  /\ BpStart \in {"outer", "signalWait"}
  /\ Commands \subseteq AllCommands
  /\ MaxCommands \in Nat /\ MaxPending \in Nat /\ MaxPieces \in Nat
  /\ Discipline \in {"free", "serial", "quiet"} /\ Fragments \in BOOLEAN
  /\ FrameCounts \subseteq Nat
  /\ DecodeResults \subseteq {"done", "yet", "error"}

VARIABLES
  currentState, transientState, bExitBufferProcessThread, pauseEvent,
  portState, bIsPortFlushed, bIsPortDisabled, bEnabled, bPopulated,
  items, count,      \* bufferQ: its contents and its element counter
  sem,               \* bufferSemID
  slot,              \* secDataBuffer[p].bufferHeader, NoBuffer: not dataValid
  left,              \* frames still to be read from the input slot
  mutex,             \* secDataBuffer[p].bufferMutex: its holder
  inputData,         \* processData[in].dataLen # 0
  outputData,        \* processData[out].remainDataLen, in output buffers
  remainOutputData, reInputData,
  messageQ, cmd,     \* queued commands; the one being executed
  todo,              \* ports the handler's loop has not finished
  pc,                \* thread -> where it is
  ret,               \* what Preprocess, Decode or Postprocess returned
  owned,             \* buffers the client holds
  call,              \* a client's buffer call under way, per port
  allocated,         \* the client has given the port its buffers
  loadedResource, unloadedResource,
  sent               \* commands sent so far

stateVars == <<currentState, transientState, bExitBufferProcessThread>>
portVars == <<portState, bIsPortFlushed, bIsPortDisabled, bEnabled, bPopulated>>
controlVars == <<stateVars, pauseEvent, portVars>>
queueVars == <<items, count, sem>>
slotVars == <<slot, left, mutex>>
dataVars == <<inputData, outputData, remainOutputData, reInputData>>
streamVars == <<queueVars, slotVars, dataVars>>
handlerVars == <<messageQ, cmd, todo>>
resourceVars == <<allocated, loadedResource, unloadedResource>>
clientVars == <<owned, call, resourceVars, sent>>
restVars == <<handlerVars, ret, clientVars>>
allButPc == <<controlVars, streamVars, restVars>>
vars == <<allButPc, pc>>

\* The client makes the buffer calls of a port one at a time.
Threads == {"bp", "handler"} \cup Ports
Goto(t, l) == pc' = [pc EXCEPT ![t] = l]

\* The state ComponentStateSet leaves behind on the way from Loaded to Idle:
\* transientState keeps its value, the new thread enters its loop.
Init ==
  /\ currentState = "Idle" /\ transientState = "LoadedToIdle"
  /\ bExitBufferProcessThread = FALSE /\ pauseEvent = FALSE
  /\ portState = [p \in Ports |-> "Idle"]
  /\ bIsPortFlushed = [p \in Ports |-> FALSE]
  /\ bIsPortDisabled = [p \in Ports |-> FALSE]
  /\ bEnabled = [p \in Ports |-> TRUE] /\ bPopulated = [p \in Ports |-> TRUE]
  /\ items = [p \in Ports |-> <<>>]
  /\ count = [p \in Ports |-> 0] /\ sem = [p \in Ports |-> 0]
  /\ slot = [p \in Ports |-> NoBuffer] /\ left = 0
  /\ mutex = [p \in Ports |-> "free"]
  /\ inputData = FALSE /\ outputData = 0
  /\ remainOutputData = FALSE /\ reInputData = FALSE
  /\ messageQ = <<>> /\ cmd = StateSet("Idle") /\ todo = <<>>
  /\ pc = [t \in Threads |-> IF t = "bp" THEN BpStart ELSE "idle"]
  /\ ret = FALSE
  /\ owned = Buffers /\ call = [p \in Ports |-> NoBuffer]
  /\ allocated = [p \in Ports |-> TRUE]
  /\ loadedResource = [p \in Ports |-> 0]
  /\ unloadedResource = [p \in Ports |-> 0]
  /\ sent = 0

NoneFlushed == \A p \in Ports : ~bIsPortFlushed[p]

\* The flush loop sends the event of its last port before it resets the data
\* flags; every other command completes with its last step.
CompletionSent == \/ pc["handler"] = "idle"
                  \/ pc["handler"] = "resetFlags" /\ cmd.op = "Flush" /\ Len(todo) = 1
Pending == Len(messageQ) + (IF CompletionSent THEN 0 ELSE 1)

-----------------------------------------------------------------------------
(* Client: EmptyThisBuffer (in) and FillThisBuffer (out).                  *)

\* Mutant: the flush flag is not looked at.
CallAccepted_WhileFlushed(p) ==
  /\ currentState \in {"Idle", "Executing", "Pause"}
  /\ bEnabled[p]
  /\ ~bIsPortDisabled[p]

\* The checks, made once and without a lock.
CallAccepted(p) ==
  /\ currentState \in {"Idle", "Executing", "Pause"}
  /\ bEnabled[p]
  /\ ~bIsPortFlushed[p]
  /\ ~bIsPortDisabled[p]

StartCall(p, b) ==
  /\ pc[p] = "idle"
  /\ b \in owned[p] /\ allocated[p]
  /\ CallAccepted(p)
  /\ Discipline = "quiet" => Pending = 0
  /\ call' = [call EXCEPT ![p] = b]
  /\ owned' = [owned EXCEPT ![p] = @ \ {b}]
  /\ Goto(p, "queue")
  /\ UNCHANGED <<controlVars, streamVars, handlerVars, ret, resourceVars, sent>>

\* The result of SEC_OSAL_Queue is not looked at: a buffer that is refused is
\* in nobody's hands.
QueueBuffer(p) ==
  /\ pc[p] = "queue"
  /\ IF Len(items[p]) < QueueCapacity
       THEN /\ items' = [items EXCEPT ![p] = Append(@, call[p])]
            /\ count' = [count EXCEPT ![p] = @ + 1]
       ELSE UNCHANGED <<items, count>>
  /\ call' = [call EXCEPT ![p] = NoBuffer]
  /\ Goto(p, "post")
  /\ UNCHANGED <<controlVars, sem, slotVars, dataVars, handlerVars, ret, owned,
                 resourceVars, sent>>

\* Mutant: the semaphore is binary.
PostBuffer_Binary(p) ==
  /\ pc[p] = "post"
  /\ sem' = [sem EXCEPT ![p] = 1]
  /\ Goto(p, "idle")
  /\ UNCHANGED <<controlVars, items, count, slotVars, dataVars, restVars>>

PostBuffer(p) ==
  /\ pc[p] = "post"
  /\ sem' = [sem EXCEPT ![p] = @ + 1]
  /\ Goto(p, "idle")
  /\ UNCHANGED <<controlVars, items, count, slotVars, dataVars, restVars>>

\* FreeBuffer for every buffer of a port that is being unloaded or disabled
\* (before that it is an error event, and nothing a client does): the last one
\* posts unloadedResource and takes the port's population back.
FreeBuffers(p) ==
  /\ allocated[p] /\ portState[p] = "Loaded"
  /\ pc[p] = "idle" /\ owned[p] = Buffers[p]
  /\ allocated' = [allocated EXCEPT ![p] = FALSE]
  /\ unloadedResource' = [unloadedResource EXCEPT ![p] = @ + 1]
  /\ bPopulated' = [bPopulated EXCEPT ![p] = FALSE]
  /\ UNCHANGED <<stateVars, pauseEvent, portState, bIsPortFlushed, bIsPortDisabled,
                 bEnabled, streamVars, handlerVars, ret, owned, call,
                 loadedResource, sent, pc>>

\* UseBuffer for every buffer of an empty port: the last one posts
\* loadedResource.
UseBuffers(p) ==
  /\ ~allocated[p] /\ portState[p] = "Idle"
  /\ allocated' = [allocated EXCEPT ![p] = TRUE]
  /\ bPopulated' = [bPopulated EXCEPT ![p] = TRUE]
  /\ loadedResource' = [loadedResource EXCEPT ![p] = @ + 1]
  /\ UNCHANGED <<stateVars, pauseEvent, portState, bIsPortFlushed, bIsPortDisabled,
                 bEnabled, streamVars, handlerVars, ret, owned, call,
                 unloadedResource, sent, pc>>

-----------------------------------------------------------------------------
(* Client: SendCommand.  The flags of the command are set here, on the      *)
(* client's thread, before the command is queued.                          *)

\* The client's discipline; no command is sent on the way to Loaded, where
\* this module ends.
MaySend ==
  /\ sent < MaxCommands
  /\ Pending < MaxPending
  /\ Discipline # "free" => \A p \in Ports : pc[p] = "idle"
  /\ currentState # "Loaded" /\ transientState # "IdleToLoaded"

CommandQueue(c) == /\ messageQ' = Append(messageQ, c)
                   /\ sent' = sent + 1

SendStateSet(c) ==
  /\ c.op = "StateSet" /\ MaySend /\ CommandQueue(c)
  /\ transientState' =
       CASE c.dest = "Loaded" /\ currentState = "Idle" -> "IdleToLoaded"
         [] c.dest = "Idle" /\ currentState = "Executing" -> "ExecutingToIdle"
         [] c.dest = "Executing" /\ currentState = "Idle" -> "IdleToExecuting"
         [] OTHER -> transientState
  /\ portState' = IF c.dest = "Loaded" /\ currentState = "Idle"
                    THEN [p \in Ports |-> "Loaded"] ELSE portState
  /\ UNCHANGED <<currentState, bExitBufferProcessThread, pauseEvent, bIsPortFlushed,
                 bIsPortDisabled, bEnabled, bPopulated, streamVars, cmd, todo, ret,
                 owned, call, resourceVars, pc>>

PortsOf(c) == {c.ports[i] : i \in 1 .. Len(c.ports)}

SendFlush(c) ==
  /\ c.op = "Flush" /\ MaySend /\ CommandQueue(c)
  /\ currentState \in {"Executing", "Pause"}
  /\ bIsPortFlushed' = [p \in Ports |-> bIsPortFlushed[p] \/ p \in PortsOf(c)]
  /\ UNCHANGED <<stateVars, pauseEvent, portState, bIsPortDisabled, bEnabled,
                 bPopulated, streamVars, cmd, todo, ret, owned, call, resourceVars,
                 pc>>

\* With ALL_PORTS the loop stops at the first port that cannot change and
\* returns an error, the ports before it already changed; one port is changed
\* by PortDisable whether it is enabled or not.
Blocked(c, p) == IF c.op = "PortEnable" THEN bEnabled[p]
                 ELSE Len(c.ports) > 1 /\ ~bEnabled[p]
Changed(c) == {p \in PortsOf(c) :
                 \E i \in 1 .. Len(c.ports) :
                   c.ports[i] = p /\ \A j \in 1 .. i : ~Blocked(c, c.ports[j])}

SendPortCommand(c) ==
  /\ c.op \in {"PortDisable", "PortEnable"} /\ MaySend
  /\ IF Changed(c) = PortsOf(c) THEN CommandQueue(c)
                                ELSE messageQ' = messageQ /\ sent' = sent + 1
  /\ portState' = [p \in Ports |->
       IF p \notin Changed(c) THEN portState[p]
       ELSE IF c.op = "PortEnable" THEN "Idle" ELSE "Loaded"]
  /\ bIsPortDisabled' = [p \in Ports |->
       bIsPortDisabled[p] \/ (c.op = "PortDisable" /\ p \in Changed(c))]
  /\ UNCHANGED <<stateVars, pauseEvent, bIsPortFlushed, bEnabled, bPopulated,
                 streamVars, cmd, todo, ret, owned, call, resourceVars, pc>>

Client == \/ \E p \in Ports : \/ \E b \in owned[p] : StartCall(p, b)
                              \/ QueueBuffer(p)
                              \/ PostBuffer(p)
                              \/ FreeBuffers(p)
                              \/ UseBuffers(p)
          \/ \E c \in Commands : SendStateSet(c) \/ SendFlush(c) \/ SendPortCommand(c)

-----------------------------------------------------------------------------
(* Returning the buffer of a slot: SEC_InputBufferReturn and                *)
(* SEC_OutputBufferReturn, called by either thread with the mutex held.     *)
(* The callback comes first; in Pause the caller then waits for pauseEvent  *)
(* and only afterwards clears the slot.                                     *)

\* EmptyBufferDone or FillBufferDone.
GiveBack(p, b) == owned' = [owned EXCEPT ![p] = @ \cup {b}]

\* The port a thread is returning the buffer of.
ReturnPort(t) == IF t = "handler" THEN Head(todo)
                 ELSE IF pc[t] \in {"inReturn", "inReset", "inWait"}
                   THEN INPUT ELSE OUTPUT

ReturnAt(p) == IF p = INPUT THEN "inReturn" ELSE "outReturn"
ResetAt(p) == IF p = INPUT THEN "inReset" ELSE "outReset"
WaitAt(p) == IF p = INPUT THEN "inWait" ELSE "outWait"
ReturnLabels == {"inReturn", "outReturn", "inReset", "outReset", "inWait", "outWait"}
AfterReturn(t) == IF t = "handler" THEN "drain"
                  ELSE IF ReturnPort(t) = INPUT THEN "preDone" ELSE "postDone"

\* Mutant: the slot is not cleared after the callback.
ClearSlot_Kept(t) == Goto(t, AfterReturn(t)) /\ slot' = slot

ClearSlot(t) ==
  /\ slot' = [slot EXCEPT ![ReturnPort(t)] = NoBuffer]
  /\ Goto(t, AfterReturn(t))

ReturnNow(t) ==
  /\ pc[t] \in {"inReturn", "outReturn"}
  /\ currentState # "Pause" \/ ~NoneFlushed
  /\ ClearSlot(t)
  /\ UNCHANGED <<controlVars, queueVars, left, mutex, dataVars, restVars>>

ReturnPauses(t) ==
  /\ pc[t] \in {"inReturn", "outReturn"}
  /\ currentState = "Pause" /\ NoneFlushed
  /\ Goto(t, ResetAt(ReturnPort(t)))
  /\ UNCHANGED allButPc

ReturnSignalReset(t) ==
  /\ pc[t] \in {"inReset", "outReset"}
  /\ pauseEvent' = FALSE
  /\ Goto(t, WaitAt(ReturnPort(t)))
  /\ UNCHANGED <<stateVars, portVars, streamVars, restVars>>

ReturnSignalWait(t) ==
  /\ pc[t] \in {"inWait", "outWait"}
  /\ pauseEvent
  /\ ClearSlot(t)
  /\ UNCHANGED <<controlVars, queueVars, left, mutex, dataVars, restVars>>

BufferReturn(t) == \/ ReturnNow(t) \/ ReturnPauses(t)
                   \/ ReturnSignalReset(t) \/ ReturnSignalWait(t)

-----------------------------------------------------------------------------
(* The buffer process thread: SEC_OMX_BufferProcess.                       *)

Check_BufferProcess_State ==
  /\ currentState = "Executing"
  /\ \A p \in Ports : portState[p] = "Idle"
  /\ transientState \notin {"ExecutingToIdle", "IdleToExecuting"}

ShouldPause ==
  /\ \/ currentState \in {"Pause", "Idle"}
     \/ transientState \in {"LoadedToIdle", "ExecutingToIdle"}
  /\ transientState # "IdleToLoaded"
  /\ NoneFlushed

OuterLoop ==
  /\ pc["bp"] = "outer"
  /\ Goto("bp", IF bExitBufferProcessThread THEN "exited"
                ELSE IF ShouldPause THEN "signalReset" ELSE "inner")
  /\ UNCHANGED allButPc

LoopSignalReset ==
  /\ pc["bp"] = "signalReset"
  /\ pauseEvent' = FALSE
  /\ Goto("bp", "signalWait")
  /\ UNCHANGED <<stateVars, portVars, streamVars, restVars>>

LoopSignalWait ==
  /\ pc["bp"] = "signalWait"
  /\ pauseEvent
  /\ Goto("bp", "inner")
  /\ UNCHANGED allButPc

InnerLoop ==
  /\ pc["bp"] = "inner"
  /\ Goto("bp", IF Check_BufferProcess_State /\ ~bExitBufferProcessThread
                  THEN "checkOutput" ELSE "outer")
  /\ UNCHANGED allButPc

CheckOutput ==
  /\ pc["bp"] = "checkOutput"
  /\ mutex[OUTPUT] = "free"
  /\ Goto("bp", IF slot[OUTPUT] = NoBuffer /\ ~bIsPortFlushed[OUTPUT]
                  THEN "outGetQueue" ELSE "chooseStage")
  /\ UNCHANGED allButPc

\* InputBufferGetQueue and OutputBufferGetQueue, in three steps: the state is
\* looked at, a token is waited for, the queue is read under the mutex.
GetAt(p) == IF p = INPUT THEN "inGetQueue" ELSE "outGetQueue"
TokenAt(p) == IF p = INPUT THEN "inToken" ELSE "outToken"
DequeueAt(p) == IF p = INPUT THEN "inDequeue" ELSE "outDequeue"

GetQueue(p) ==
  /\ pc["bp"] = GetAt(p)
  /\ Goto("bp", IF currentState = "Executing" THEN TokenAt(p) ELSE "outer")
  /\ UNCHANGED allButPc

GetToken(p) ==
  /\ pc["bp"] = TokenAt(p)
  /\ sem[p] > 0
  /\ sem' = [sem EXCEPT ![p] = @ - 1]
  /\ Goto("bp", DequeueAt(p))
  /\ UNCHANGED <<controlVars, items, count, slotVars, dataVars, restVars>>

QueueEmpty(p) == items[p] = <<>> \/ count[p] = 0

\* The inner loop is left unless an output buffer was wanted and both ports
\* are still to be served.
DequeueBuffer(p) ==
  /\ pc["bp"] = DequeueAt(p)
  /\ mutex[p] = "free"
  /\ IF slot[p] # NoBuffer \/ QueueEmpty(p)
       THEN UNCHANGED <<items, count, slot, left>>
       ELSE /\ items' = [items EXCEPT ![p] = Tail(@)]
            /\ count' = [count EXCEPT ![p] = @ - 1]
            /\ slot' = [slot EXCEPT ![p] = Head(items[p])]
            /\ IF p = INPUT THEN left' \in FrameCounts ELSE left' = left
  /\ Goto("bp", IF /\ p = OUTPUT
                   /\ slot[p] # NoBuffer \/ ~QueueEmpty(p)
                   /\ \A q \in Ports : portState[q] = "Idle"
                  THEN "chooseStage" ELSE "outer")
  /\ UNCHANGED <<controlVars, sem, mutex, dataVars, restVars>>

ChooseStage ==
  /\ pc["bp"] = "chooseStage"
  /\ Goto("bp", IF remainOutputData THEN "postprocess"
                ELSE IF reInputData THEN "decodeLock" ELSE "preprocess")
  /\ UNCHANGED allButPc

\* SEC_Preprocessor_InputData, under the input mutex.  From the slot it takes
\* one frame (an empty one at the end of the stream); or what follows the last
\* complete frame; or, when the data does not fit behind what was kept from
\* before, nothing.  A slot read to its end is returned.
PreprocessTo(done, data, frames) ==
  /\ ret' = done /\ inputData' = data /\ left' = frames
  /\ mutex' = [mutex EXCEPT ![INPUT] = "bp"]
  /\ IF slot[INPUT] # NoBuffer /\ frames = 0
       THEN GiveBack(INPUT, slot[INPUT]) /\ Goto("bp", "inReturn")
       ELSE owned' = owned /\ Goto("bp", "preDone")

Preprocess ==
  /\ pc["bp"] = "preprocess"
  /\ mutex[INPUT] = "free"
  /\ \/ slot[INPUT] = NoBuffer /\ PreprocessTo(FALSE, inputData, left)
     \/ slot[INPUT] # NoBuffer /\ left > 0 /\ PreprocessTo(TRUE, TRUE, left - 1)
     \/ /\ slot[INPUT] # NoBuffer /\ left = 0
        /\ \E eos \in BOOLEAN : PreprocessTo(eos, inputData \/ eos, 0)
     \/ Fragments /\ slot[INPUT] # NoBuffer /\ left = 1 /\ PreprocessTo(FALSE, TRUE, 0)
     \/ /\ Fragments /\ slot[INPUT] # NoBuffer /\ left > 0 /\ inputData
        /\ PreprocessTo(FALSE, FALSE, left)
  /\ UNCHANGED <<controlVars, queueVars, slot, outputData, remainOutputData,
                 reInputData, handlerVars, call, resourceVars, sent>>

\* Mutant: the way out to InputBufferGetQueue keeps the mutex.
PreprocessDone_KeepsLock ==
  /\ pc["bp"] = "preDone"
  /\ IF ~ret /\ ~bIsPortFlushed[INPUT]
       THEN mutex' = mutex /\ Goto("bp", "inGetQueue")
       ELSE mutex' = [mutex EXCEPT ![INPUT] = "free"] /\ Goto("bp", "decodeLock")
  /\ UNCHANGED <<controlVars, queueVars, slot, left, dataVars, restVars>>

PreprocessDone ==
  /\ pc["bp"] = "preDone"
  /\ mutex' = [mutex EXCEPT ![INPUT] = "free"]
  /\ Goto("bp", IF ~ret /\ ~bIsPortFlushed[INPUT] THEN "inGetQueue" ELSE "decodeLock")
  /\ UNCHANGED <<controlVars, queueVars, slot, left, dataVars, restVars>>

DecodeLock ==
  /\ pc["bp"] = "decodeLock"
  /\ mutex[INPUT] = "free"
  /\ mutex' = [mutex EXCEPT ![INPUT] = "bp"]
  /\ Goto("bp", "decode")
  /\ UNCHANGED <<controlVars, queueVars, slot, left, dataVars, restVars>>

\* sec_mfc_bufferProcess under both mutexes: the codec consumes the input and
\* may fill output, or wants to see the input again, or fails.
DecodeReady == /\ \A p \in Ports : bEnabled[p] /\ bPopulated[p]
               /\ Check_BufferProcess_State

Decode(result) ==
  /\ pc["bp"] = "decode"
  /\ mutex[OUTPUT] = "free"
  /\ mutex' = [mutex EXCEPT ![INPUT] = "free"]
  /\ ret' = (DecodeReady /\ result = "yet")
  /\ IF DecodeReady /\ result \in {"done", "yet"}
       THEN outputData' \in 0 .. MaxPieces
       ELSE outputData' = outputData
  /\ inputData' = (inputData /\ ~(DecodeReady /\ result = "done"))
  /\ Goto("bp", "decodeDone")
  /\ UNCHANGED <<controlVars, queueVars, slot, left, remainOutputData, reInputData,
                 handlerVars, clientVars>>

\* The flag is written when both mutexes are free again.
DecodeDone ==
  /\ pc["bp"] = "decodeDone"
  /\ reInputData' = ret
  /\ Goto("bp", "postprocess")
  /\ UNCHANGED <<controlVars, queueVars, slotVars, inputData, outputData,
                 remainOutputData, restVars>>

\* SEC_Postprocess_OutputData, under the output mutex: one buffer's worth of
\* output is handed over (none, with the flag for the end of the stream); or a
\* frame is dropped because its time stamp is not the awaited one; or there is
\* nothing to hand over.
PostprocessTo(done, pieces, give) ==
  /\ ret' = done /\ outputData' = pieces
  /\ mutex' = [mutex EXCEPT ![OUTPUT] = "bp"]
  /\ IF give THEN GiveBack(OUTPUT, slot[OUTPUT]) /\ Goto("bp", "outReturn")
             ELSE owned' = owned /\ Goto("bp", "postDone")

Postprocess ==
  /\ pc["bp"] = "postprocess"
  /\ mutex[OUTPUT] = "free"
  /\ \/ slot[OUTPUT] = NoBuffer /\ PostprocessTo(FALSE, outputData, FALSE)
     \/ slot[OUTPUT] # NoBuffer /\ PostprocessTo(TRUE, 0, FALSE)
     \/ slot[OUTPUT] # NoBuffer /\ outputData <= 1 /\ PostprocessTo(TRUE, 0, TRUE)
     \/ /\ slot[OUTPUT] # NoBuffer /\ outputData > 1
        /\ PostprocessTo(FALSE, outputData - 1, TRUE)
  /\ UNCHANGED <<controlVars, queueVars, slot, left, inputData, remainOutputData,
                 reInputData, handlerVars, call, resourceVars, sent>>

PostprocessDone ==
  /\ pc["bp"] = "postDone"
  /\ remainOutputData' = ~ret
  /\ mutex' = [mutex EXCEPT ![OUTPUT] = "free"]
  /\ Goto("bp", "inner")
  /\ UNCHANGED <<controlVars, queueVars, slot, left, inputData, outputData,
                 reInputData, restVars>>

BufferProcess ==
  \/ OuterLoop \/ LoopSignalReset \/ LoopSignalWait \/ InnerLoop \/ CheckOutput
  \/ \E p \in Ports : GetQueue(p) \/ GetToken(p) \/ DequeueBuffer(p)
  \/ ChooseStage \/ Preprocess \/ PreprocessDone \/ DecodeLock
  \/ \E r \in DecodeResults : Decode(r)
  \/ DecodeDone
  \/ Postprocess \/ PostprocessDone
  \/ BufferReturn("bp")
-----------------------------------------------------------------------------
(* The message handler thread: SEC_OMX_MessageHandlerThread.               *)

\* Every command that empties ports starts with the flush loop.
FirstStep(c) ==
  CASE c.op \in {"Flush", "PortDisable"} -> "flush"
    [] c.op = "PortEnable" -> "enable"
    [] c.op = "StateSet" /\ c.dest = "Idle" /\ currentState \in {"Executing", "Pause"}
         -> "flush"
    [] OTHER -> "stateSet"

TakeCommand ==
  /\ pc["handler"] = "idle"
  /\ messageQ # <<>>
  /\ currentState # "Loaded"
  /\ messageQ' = Tail(messageQ)
  /\ cmd' = Head(messageQ)
  /\ todo' = Head(messageQ).ports
  /\ Goto("handler", FirstStep(Head(messageQ)))
  /\ UNCHANGED <<controlVars, streamVars, ret, clientVars>>

\* One port of SEC_OMX_BufferFlushProcess (the flag was set by SendCommand),
\* SEC_OMX_BufferFlushProcessNoEvent, or SEC_OMX_PortDisableProcess, which
\* does not signal pauseEvent.
FlushBegin ==
  /\ pc["handler"] = "flush"
  /\ bIsPortFlushed' = IF cmd.op = "Flush" THEN bIsPortFlushed
                       ELSE [bIsPortFlushed EXCEPT ![Head(todo)] = TRUE]
  /\ pauseEvent' = (pauseEvent \/ cmd.op # "PortDisable")
  /\ Goto("handler", "flushLock")
  /\ UNCHANGED <<stateVars, portState, bIsPortDisabled, bEnabled, bPopulated,
                 streamVars, restVars>>

\* Mutant: the slot and the queue are emptied without waiting for the mutex.
FlushLock_NoWait ==
  /\ pc["handler"] = "flushLock"
  /\ mutex' = [mutex EXCEPT ![Head(todo)] = "handler"]
  /\ Goto("handler", "flushQueue")
  /\ UNCHANGED <<controlVars, queueVars, slot, left, dataVars, restVars>>

FlushLock ==
  /\ pc["handler"] = "flushLock"
  /\ mutex[Head(todo)] = "free"
  /\ mutex' = [mutex EXCEPT ![Head(todo)] = "handler"]
  /\ Goto("handler", "flushQueue")
  /\ UNCHANGED <<controlVars, queueVars, slot, left, dataVars, restVars>>

\* SEC_OMX_FlushPort, first loop: a token is made when there is none, taken,
\* and one buffer is returned.
FlushQueue ==
  /\ pc["handler"] = "flushQueue"
  /\ LET p == Head(todo) IN
       IF count[p] > 0
         THEN /\ sem' = IF sem[p] = 0 THEN [sem EXCEPT ![p] = 1] ELSE sem
              /\ Goto("handler", "flushToken")
         ELSE sem' = sem /\ Goto("handler", "flushSlot")
  /\ UNCHANGED <<controlVars, items, count, slotVars, dataVars, restVars>>

FlushToken ==
  /\ pc["handler"] = "flushToken"
  /\ LET p == Head(todo) IN
       /\ sem[p] > 0
       /\ sem' = [sem EXCEPT ![p] = @ - 1]
       /\ IF QueueEmpty(p)
            THEN UNCHANGED <<items, count, owned>>
            ELSE /\ items' = [items EXCEPT ![p] = Tail(@)]
                 /\ count' = [count EXCEPT ![p] = @ - 1]
                 /\ GiveBack(p, Head(items[p]))
  /\ Goto("handler", "flushQueue")
  /\ UNCHANGED <<controlVars, slotVars, dataVars, handlerVars, ret, call,
                 resourceVars, sent>>

\* Mutant: the buffer in the slot is left there.
FlushSlot_Skipped ==
  /\ pc["handler"] = "flushSlot"
  /\ Goto("handler", "drain")
  /\ UNCHANGED allButPc

FlushSlot ==
  /\ pc["handler"] = "flushSlot"
  /\ LET p == Head(todo) IN
       IF slot[p] # NoBuffer
         THEN /\ GiveBack(p, slot[p])
              /\ Goto("handler", ReturnAt(p))
         ELSE owned' = owned /\ Goto("handler", "drain")
  /\ UNCHANGED <<controlVars, streamVars, handlerVars, ret, call, resourceVars,
                 sent>>

\* Mutant: the mutex is not released.
Drain_KeepsLock ==
  /\ pc["handler"] = "drain"
  /\ LET p == Head(todo) IN
       IF sem[p] > 0
         THEN Goto("handler", "drainToken") /\ UNCHANGED <<count, inputData,
                                                           outputData>>
         ELSE /\ count' = [count EXCEPT ![p] = 0]
              /\ inputData' = (inputData /\ p # INPUT)
              /\ outputData' = IF p = OUTPUT THEN 0 ELSE outputData
              /\ Goto("handler", "unflush")
  /\ UNCHANGED <<controlVars, items, sem, slotVars, remainOutputData, reInputData,
                 restVars>>

\* Last loop: tokens are counted and waited for until none is left; then the
\* counter and the codec data of the port are reset.
Drain ==
  /\ pc["handler"] = "drain"
  /\ LET p == Head(todo) IN
       IF sem[p] > 0
         THEN /\ Goto("handler", "drainToken")
              /\ UNCHANGED <<count, mutex, inputData, outputData>>
         ELSE /\ count' = [count EXCEPT ![p] = 0]
              /\ inputData' = (inputData /\ p # INPUT)
              /\ outputData' = IF p = OUTPUT THEN 0 ELSE outputData
              /\ mutex' = [mutex EXCEPT ![p] = "free"]
              /\ Goto("handler", "unflush")
  /\ UNCHANGED <<controlVars, items, sem, slot, left, remainOutputData, reInputData,
                 restVars>>

\* Mutant: a token is taken, there or not.
DrainToken_NoWait ==
  /\ pc["handler"] = "drainToken"
  /\ sem' = [sem EXCEPT ![Head(todo)] = @ - 1]
  /\ Goto("handler", "drain")
  /\ UNCHANGED <<controlVars, items, count, slotVars, dataVars, restVars>>

DrainToken ==
  /\ pc["handler"] = "drainToken"
  /\ sem[Head(todo)] > 0
  /\ sem' = [sem EXCEPT ![Head(todo)] = @ - 1]
  /\ Goto("handler", "drain")
  /\ UNCHANGED <<controlVars, items, count, slotVars, dataVars, restVars>>

\* The flag falls, a Flush sends its event for the port, and only then are
\* the data flags reset.
Unflush ==
  /\ pc["handler"] = "unflush"
  /\ bIsPortFlushed' = [bIsPortFlushed EXCEPT ![Head(todo)] = FALSE]
  /\ Goto("handler", "resetFlags")
  /\ UNCHANGED <<stateVars, pauseEvent, portState, bIsPortDisabled, bEnabled,
                 bPopulated, streamVars, restVars>>

ResetFlags ==
  /\ pc["handler"] = "resetFlags"
  /\ LET p == Head(todo) IN
       /\ reInputData' = (reInputData /\ p # INPUT)
       /\ remainOutputData' =
            (remainOutputData /\ p # (IF cmd.op = "StateSet" THEN INPUT ELSE OUTPUT))
  /\ IF Len(todo) > 1
       THEN todo' = Tail(todo) /\ Goto("handler", "flush")
       ELSE IF cmd.op = "PortDisable"
         THEN todo' = cmd.ports /\ Goto("handler", "disable")
         ELSE /\ todo' = <<>>
              /\ Goto("handler", IF cmd.op = "Flush" THEN "idle" ELSE "setIdle")
  /\ UNCHANGED <<controlVars, queueVars, slotVars, inputData, outputData, messageQ,
                 cmd, ret, clientVars>>

NextPort(again) == /\ todo' = Tail(todo)
                   /\ Goto("handler", IF Len(todo) > 1 THEN again ELSE "idle")

\* Mutant: the mark is removed only where the port was enabled.
DisablePort_LeavesMark ==
  /\ pc["handler"] = "disable"
  /\ IF bEnabled[Head(todo)]
       THEN /\ bPopulated' = [bPopulated EXCEPT ![Head(todo)] = FALSE]
            /\ Goto("handler", "disableWait")
            /\ todo' = todo
       ELSE bPopulated' = bPopulated /\ NextPort("disable")
  /\ UNCHANGED <<stateVars, pauseEvent, portState, bIsPortFlushed, bIsPortDisabled,
                 bEnabled, streamVars, messageQ, cmd, ret, clientVars>>

\* SEC_OMX_DisablePort: an enabled port waits for its buffers to be freed.
DisablePort ==
  /\ pc["handler"] = "disable"
  /\ IF bEnabled[Head(todo)]
       THEN /\ bPopulated' = [bPopulated EXCEPT ![Head(todo)] = FALSE]
            /\ Goto("handler", "disableWait")
            /\ UNCHANGED <<bIsPortDisabled, todo>>
       ELSE /\ bIsPortDisabled' = [bIsPortDisabled EXCEPT ![Head(todo)] = FALSE]
            /\ bPopulated' = bPopulated
            /\ NextPort("disable")
  /\ UNCHANGED <<stateVars, pauseEvent, portState, bIsPortFlushed, bEnabled,
                 streamVars, messageQ, cmd, ret, clientVars>>

DisableUnloaded ==
  /\ pc["handler"] = "disableWait"
  /\ unloadedResource[Head(todo)] > 0
  /\ unloadedResource' = [unloadedResource EXCEPT ![Head(todo)] = @ - 1]
  /\ bEnabled' = [bEnabled EXCEPT ![Head(todo)] = FALSE]
  /\ bIsPortDisabled' = [bIsPortDisabled EXCEPT ![Head(todo)] = FALSE]
  /\ NextPort("disable")
  /\ UNCHANGED <<stateVars, pauseEvent, portState, bIsPortFlushed, bPopulated,
                 streamVars, messageQ, cmd, ret, owned, call, allocated,
                 loadedResource, sent>>

\* SEC_OMX_EnablePort: the port waits for its buffers.
EnablePort ==
  /\ pc["handler"] = "enable"
  /\ bEnabled' = [bEnabled EXCEPT ![Head(todo)] = TRUE]
  /\ Goto("handler", "enableWait")
  /\ UNCHANGED <<stateVars, pauseEvent, portState, bIsPortFlushed, bIsPortDisabled,
                 bPopulated, streamVars, restVars>>

EnableLoaded ==
  /\ pc["handler"] = "enableWait"
  /\ loadedResource[Head(todo)] > 0
  /\ loadedResource' = [loadedResource EXCEPT ![Head(todo)] = @ - 1]
  /\ bPopulated' = [bPopulated EXCEPT ![Head(todo)] = TRUE]
  /\ NextPort("enable")
  /\ UNCHANGED <<stateVars, pauseEvent, portState, bIsPortFlushed, bIsPortDisabled,
                 bEnabled, streamVars, messageQ, cmd, ret, owned, call, allocated,
                 unloadedResource, sent>>

-----------------------------------------------------------------------------
(* SEC_OMX_ComponentStateSet.                                              *)

\* OMX_ErrorSameState and OMX_ErrorIncorrectStateTransition: an event only.
Refused == \/ cmd.dest = currentState
           \/ cmd.dest = "Loaded" /\ currentState \in {"Executing", "Pause"}

RefuseStateSet ==
  /\ pc["handler"] = "stateSet" /\ Refused
  /\ Goto("handler", "idle")
  /\ UNCHANGED allButPc

\* Only the way from Idle resets transientState.
ToExecuting ==
  /\ pc["handler"] = "stateSet" /\ ~Refused
  /\ cmd.dest = "Executing"
  /\ transientState' = IF currentState = "Idle" THEN "Max" ELSE transientState
  /\ currentState' = "Executing"
  /\ Goto("handler", "signal")
  /\ UNCHANGED <<bExitBufferProcessThread, pauseEvent, portVars, streamVars,
                 restVars>>

SignalExecuting ==
  /\ pc["handler"] = "signal"
  /\ pauseEvent' = TRUE
  /\ Goto("handler", "idle")
  /\ UNCHANGED <<stateVars, portVars, streamVars, restVars>>

ToPause ==
  /\ pc["handler"] = "stateSet" /\ ~Refused
  /\ cmd.dest = "Pause"
  /\ currentState' = "Pause"
  /\ Goto("handler", "idle")
  /\ UNCHANGED <<transientState, bExitBufferProcessThread, pauseEvent, portVars,
                 streamVars, restVars>>

ToIdle ==
  /\ pc["handler"] = "setIdle"
  /\ currentState' = "Idle"
  /\ Goto("handler", "idle")
  /\ UNCHANGED <<transientState, bExitBufferProcessThread, pauseEvent, portVars,
                 streamVars, restVars>>

\* Idle to Loaded: the buffer process thread is told to leave, woken wherever
\* it may wait, and joined; then the client's buffers have to be freed.
UnloadExit ==
  /\ pc["handler"] = "stateSet" /\ ~Refused
  /\ cmd.dest = "Loaded"
  /\ bExitBufferProcessThread' = TRUE
  /\ sem' = [p \in Ports |-> IF sem[p] = 0 THEN 1 ELSE sem[p]]
  /\ Goto("handler", "unloadSignal")
  /\ UNCHANGED <<currentState, transientState, pauseEvent, portVars, items, count,
                 slotVars, dataVars, restVars>>

UnloadSignal ==
  /\ pc["handler"] = "unloadSignal"
  /\ pauseEvent' = TRUE
  /\ Goto("handler", "unloadJoin")
  /\ UNCHANGED <<stateVars, portVars, streamVars, restVars>>

UnloadJoin ==
  /\ pc["handler"] = "unloadJoin"
  /\ pc["bp"] = "exited"
  /\ Goto("handler", "unloadWait")
  /\ UNCHANGED allButPc

UnloadWait ==
  /\ pc["handler"] = "unloadWait"
  /\ \A p \in Ports : bEnabled[p] => unloadedResource[p] > 0
  /\ unloadedResource' = [p \in Ports |-> IF bEnabled[p] THEN unloadedResource[p] - 1
                                          ELSE unloadedResource[p]]
  /\ bPopulated' = [p \in Ports |-> bPopulated[p] /\ ~bEnabled[p]]
  /\ currentState' = "Loaded"
  /\ Goto("handler", "idle")
  /\ UNCHANGED <<transientState, bExitBufferProcessThread, pauseEvent, portState,
                 bIsPortFlushed, bIsPortDisabled, bEnabled, streamVars, handlerVars,
                 ret, owned, call, allocated, loadedResource, sent>>

MessageHandler ==
  \/ TakeCommand
  \/ FlushBegin \/ FlushLock \/ FlushQueue \/ FlushToken \/ FlushSlot
  \/ BufferReturn("handler")
  \/ Drain \/ DrainToken \/ Unflush \/ ResetFlags
  \/ DisablePort \/ DisableUnloaded \/ EnablePort \/ EnableLoaded
  \/ RefuseStateSet \/ ToExecuting \/ SignalExecuting \/ ToPause \/ ToIdle
  \/ UnloadExit \/ UnloadSignal \/ UnloadJoin \/ UnloadWait

Next == Client \/ BufferProcess \/ MessageHandler

Spec == Init /\ [][Next]_vars

\* The two threads run whenever they can; a client call that has started is
\* finished; the client frees and provides buffers when a port command waits
\* for it, and keeps the output port supplied.  A thread that waits for a
\* mutex gets it although the other, which sleeps between two rounds with the
\* mutex free, takes it again and again.  The codec sooner or later accepts
\* the input it is shown.
Fairness ==
  /\ WF_vars(BufferProcess) /\ WF_vars(MessageHandler)
  /\ \A p \in Ports : /\ WF_vars(QueueBuffer(p)) /\ WF_vars(PostBuffer(p))
                      /\ WF_vars(FreeBuffers(p)) /\ WF_vars(UseBuffers(p))
  /\ WF_vars(\E b \in owned[OUTPUT] : StartCall(OUTPUT, b))
  /\ SF_vars(FlushLock)
  /\ SF_vars(Decode("done") /\ DecodeReady)

FairSpec == Spec /\ Fairness
-----------------------------------------------------------------------------
BpLabels ==
  {"outer", "signalReset", "signalWait", "inner", "checkOutput", "chooseStage",
   "inGetQueue", "inToken", "inDequeue", "outGetQueue", "outToken", "outDequeue",
   "preprocess", "preDone", "decodeLock", "decode", "decodeDone", "postprocess",
   "postDone", "exited"} \cup ReturnLabels
HandlerLabels ==
  {"idle", "flush", "flushLock", "flushQueue", "flushToken", "flushSlot", "drain",
   "drainToken", "unflush", "resetFlags", "disable", "disableWait", "enable",
   "enableWait", "stateSet", "signal", "setIdle", "unloadSignal", "unloadJoin",
   "unloadWait"} \cup ReturnLabels
ClientLabels == {"idle", "queue", "post"}
AllBuffers == InBuffers \cup OutBuffers

ControlTypes ==
  /\ currentState \in {"Idle", "Executing", "Pause", "Loaded"}
  /\ transientState \in {"LoadedToIdle", "IdleToExecuting", "ExecutingToIdle",
                         "IdleToLoaded", "Max"}
  /\ bExitBufferProcessThread \in BOOLEAN /\ pauseEvent \in BOOLEAN
  /\ portState \in [Ports -> {"Idle", "Loaded"}]
  /\ bIsPortFlushed \in [Ports -> BOOLEAN] /\ bIsPortDisabled \in [Ports -> BOOLEAN]
  /\ bEnabled \in [Ports -> BOOLEAN] /\ bPopulated \in [Ports -> BOOLEAN]

StreamTypes ==
  /\ items \in [Ports -> Seq(AllBuffers)]
  /\ count \in [Ports -> Nat] /\ sem \in [Ports -> Nat]
  /\ slot \in [Ports -> AllBuffers \cup {NoBuffer}]
  /\ left \in Nat
  /\ mutex \in [Ports -> {"free", "bp", "handler"}]
  /\ inputData \in BOOLEAN /\ outputData \in 0 .. MaxPieces
  /\ remainOutputData \in BOOLEAN /\ reInputData \in BOOLEAN

RestTypes ==
  /\ messageQ \in Seq(AllCommands) /\ cmd \in AllCommands
  /\ todo \in PortSeqs \cup {<<>>}
  /\ ret \in BOOLEAN
  /\ owned \in [Ports -> SUBSET AllBuffers]
  /\ call \in [Ports -> AllBuffers \cup {NoBuffer}]
  /\ allocated \in [Ports -> BOOLEAN]
  /\ loadedResource \in [Ports -> Nat] /\ unloadedResource \in [Ports -> Nat]
  /\ sent \in 0 .. MaxCommands

PcTypes ==
  /\ pc \in [Threads -> BpLabels \cup HandlerLabels \cup ClientLabels]
  /\ pc["bp"] \in BpLabels /\ pc["handler"] \in HandlerLabels
  /\ pc[INPUT] \in ClientLabels /\ pc[OUTPUT] \in ClientLabels

\* Tokens, counters and frames never go below zero, and every thread is at a
\* place of its own program.
TypeOK == ControlTypes /\ StreamTypes /\ RestTypes /\ PcTypes

-----------------------------------------------------------------------------
(* Safety.                                                                 *)

\* The callback for the buffer in p's slot was made, the slot is not cleared.
Returning(p) ==
  \E t \in {"bp", "handler"} :
    /\ pc[t] \in ReturnLabels
    /\ ReturnPort(t) = p

\* t is in a stretch of code that owns p's slot.
Inside(t, p) ==
  IF t = "bp"
    THEN \/ p = INPUT /\ pc[t] \in {"inReturn", "inReset", "inWait", "preDone", "decode"}
         \/ p = OUTPUT /\ pc[t] \in {"outReturn", "outReset", "outWait", "postDone"}
    ELSE /\ pc[t] \in {"flushQueue", "flushToken", "flushSlot", "drain", "drainToken"}
                       \cup ReturnLabels
         /\ Head(todo) = p

\* The slot of a port, its return and its codec data are one thread's at a
\* time, whichever of the six ways in and out of a section is taken.
SlotExclusion == \A p \in Ports : ~(Inside("bp", p) /\ Inside("handler", p))

Holders(p, b) ==
  {h \in {"client", "call", "queue", "slot"} :
     \/ h = "client" /\ b \in owned[p]
     \/ h = "call" /\ call[p] = b
     \/ h = "queue" /\ \E i \in 1 .. Len(items[p]) : items[p][i] = b
     \/ h = "slot" /\ slot[p] = b /\ ~Returning(p)}

\* A buffer is in one place: never lost between the queue and the slot, never
\* returned twice, by the flush and by the thread it interrupts, never queued
\* twice.
OneHolder ==
  \A p \in Ports :
    /\ \A b \in Buffers[p] : Cardinality(Holders(p, b)) = 1
    /\ \A i, j \in 1 .. Len(items[p]) : items[p][i] = items[p][j] => i = j

\* The counter of a queue is the number of buffers in it: no SetElemNum(0) of
\* a flush hides a buffer that was queued meanwhile.
CountMatches == \A p \in Ports : count[p] = Len(items[p])

BeingFlushed(p) ==
  /\ pc["handler"] \in {"flushQueue", "flushToken", "flushSlot", "drain", "drainToken"}
                       \cup ReturnLabels
  /\ Head(todo) = p

\* Every queued buffer has its token: in the semaphore, in the hand of the
\* thread on its way to the queue, or about to be posted by the client.
TokenPerBuffer ==
  \A p \in Ports :
    BeingFlushed(p) \/
    Len(items[p]) <= sem[p] + (IF pc["bp"] = DequeueAt(p) THEN 1 ELSE 0)
                            + (IF pc[p] = "post" THEN 1 ELSE 0)

\* When a flush lets go of a port, and until its event, the port holds no
\* buffer; and on the way from Executing or Pause to Idle, both ports having been
\* flushed one after the other, the client has every buffer back.
FlushReturnsAll ==
  /\ pc["handler"] = "unflush" => items[Head(todo)] = <<>> /\ slot[Head(todo)] = NoBuffer
  /\ pc["handler"] = "setIdle" => owned = Buffers

\* When no command is pending no port is still marked as being flushed, and no
\* port that was disabled as being disabled: enabled again, it would refuse every
\* buffer call.  (An ALL_PORTS request that is refused at its second port leaves
\* the first one marked, and enabled.)
NoPortLeftMarked ==
  Pending = 0 => \A p \in Ports : ~bIsPortFlushed[p] /\ (bIsPortDisabled[p] => bEnabled[p])

\* In Executing, with no command pending, no state left behind by an earlier
\* request tells the buffer process thread to pause or to spin.
RunsWhenExecuting ==
  currentState = "Executing" /\ Pending = 0 => ~ShouldPause /\ Check_BufferProcess_State

-----------------------------------------------------------------------------
(* Liveness.                                                               *)

\* A flush counted a token and waits for it, holding bufferMutex; the buffer
\* process thread took it and waits for bufferMutex.
TokenTaken ==
  \E p \in Ports :
    /\ pc["handler"] \in {"flushToken", "drainToken"}
    /\ Head(todo) = p /\ sem[p] = 0
    /\ pc["bp"] = DequeueAt(p)

\* A command that is taken up completes.
CommandsComplete == pc["handler"] # "idle" ~> pc["handler"] = "idle"

\* The buffer process thread waits for pauseEvent and nobody has set it since the
\* thread reset it.
Asleep == pc["bp"] \in {"signalWait", "inWait", "outWait"} /\ ~pauseEvent

\* The handler waits for a thread that sleeps on: for the mutex it holds while it
\* returns a buffer in Pause, or for its end.  The event was set before the thread
\* reset it, or, by a disable, not at all.
SignalMissed ==
  /\ Asleep
  /\ \/ pc["handler"] = "flushLock" /\ mutex[Head(todo)] = "bp"
     \/ pc["handler"] = "unloadJoin"

\* On the way to Loaded the handler waits until the client has freed its buffers, and
\* nobody returns those it gave in Idle.
BuffersKept == pc["handler"] = "unloadWait" /\ owned # Buffers

\* A command that is taken up completes, but for these three ways to hang.
CommandsCompleteUnlessHung ==
  pc["handler"] # "idle" ~>
    pc["handler"] = "idle" \/ TokenTaken \/ SignalMissed \/ BuffersKept

\* In a component that stays in Executing with both ports enabled every buffer given
\* to EmptyThisBuffer comes back with EmptyBufferDone, unless a flush hangs or the
\* buffer process thread misses the signal to go on.
InputReturned ==
  <>[](/\ currentState = "Executing" /\ \A p \in Ports : bEnabled[p]
       /\ ~TokenTaken /\ ~Asleep) =>
    \A b \in InBuffers : call[INPUT] = b ~> b \in owned[INPUT]
=============================================================================
