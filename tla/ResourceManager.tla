--------------------------- MODULE ResourceManager ---------------------------
(***************************************************************************)
(* SEC_OMX_Resourcemanager.c and the state changes of the video components *)
(* that use it: several components, each with its message handler thread   *)
(* and its client, share MAX_RESOURCE_VIDEO codecs.  The manager keeps a   *)
(* list of holders and a list of waiters under one mutex; it preempts the  *)
(* least important holder, and wakes the first waiter when a codec is      *)
(* given back, by sending commands to components whose state it reads      *)
(* without a lock.                                                         *)
(*                                                                         *)
(* Every component is a hardware video codec.  Its ports are enabled, not  *)
(* tunnelled, and loaded and unloaded together; buffers, flushes and the   *)
(* buffer process thread are OmxBufferFlow's.  Memory does not run out for *)
(* list elements, and messageQ does not fill: there are few commands.      *)
(***************************************************************************)
EXTENDS Naturals, Sequences, FiniteSets

CONSTANTS Components,
          Priority,            \* nGroupPriority: a greater one is less important
          MaxPriority,         \* the greatest OMX_U32
          MAX_RESOURCE_VIDEO,
          InitResults,         \* outcomes of acquiring the codec and the thread
          Dests,               \* states the clients ask for
          MaxCommands          \* bound: commands the clients send

States == {"Invalid", "Loaded", "Idle", "Executing", "Pause", "WaitForResources"}

\* "noCodec": the codec does not open; "codecLeft": it opens, then its input
\* buffer or the buffer process thread cannot be created.
ASSUME PoolAssumption ==
  /\ MaxPriority \in Nat /\ Priority \in [Components -> 0 .. MaxPriority]
  /\ MAX_RESOURCE_VIDEO \in Nat \ {0}
  /\ InitResults \subseteq {"ok", "noCodec", "codecLeft"}
  /\ Dests \subseteq States
  /\ MaxCommands \in Nat

VARIABLES
  componentList,     \* gpVideoRMComponentList
  waitingList,       \* gpVideoRMWaitingList
  rmMutex,           \* ghVideoRMComponentListMutex is held between two steps
  currentState, portState,
  messageQ, cmd,     \* commands queued; the one being executed
  pc,                \* where the message handler thread is
  codec,             \* the MFC instance is open
  allocated,         \* the client has given the component its buffers
  loadedResource, unloadedResource,
  sent               \* commands sent by clients so far

listVars == <<componentList, waitingList, rmMutex>>
bufferVars == <<allocated, loadedResource, unloadedResource>>
vars == <<listVars, currentState, portState, messageQ, cmd, pc, codec, bufferVars, sent>>

Command(d, s) == [dest |-> d, sender |-> s]
AllCommands == [dest : States, sender : {"client", "manager"}]
NoCommand == Command("Loaded", "none")

Init ==
  /\ componentList = <<>> /\ waitingList = <<>> /\ rmMutex = FALSE
  /\ currentState = [c \in Components |-> "Loaded"]
  /\ portState = [c \in Components |-> "Loaded"]
  /\ messageQ = [c \in Components |-> <<>>]
  /\ cmd = [c \in Components |-> NoCommand]
  /\ pc = [c \in Components |-> "idle"]
  /\ codec = [c \in Components |-> FALSE]
  /\ allocated = [c \in Components |-> FALSE]
  /\ loadedResource = [c \in Components |-> 0]
  /\ unloadedResource = [c \in Components |-> 0]
  /\ sent = 0

Goto(c, l) == pc' = [pc EXCEPT ![c] = l]
Finish(c) == Goto(c, "idle") /\ cmd' = [cmd EXCEPT ![c] = NoCommand]
SetState(c, s) == currentState' = [currentState EXCEPT ![c] = s]

-----------------------------------------------------------------------------
(* SendCommand: the port states are set on the caller's thread, by the      *)
(* state the component is in at that moment, before the command is queued.  *)

PortStateAfter(c, d) ==
  CASE d = "Idle" /\ currentState[c] = "Loaded" -> "Idle"
    [] d = "Loaded" /\ currentState[c] = "Idle" -> "Loaded"
    [] d = "Invalid" -> "Invalid"
    [] OTHER -> portState[c]

SendCommand(c, m) ==
  /\ portState' = [portState EXCEPT ![c] = PortStateAfter(c, m.dest)]
  /\ messageQ' = [messageQ EXCEPT ![c] = Append(@, m)]

\* A client sends a component one command at a time, never for the state it
\* is in.
Send(c, d) ==
  /\ sent < MaxCommands
  /\ currentState[c] \notin {"Invalid", d}
  /\ cmd[c].sender # "client"
  /\ \A i \in DOMAIN messageQ[c] : messageQ[c][i].sender # "client"
  /\ SendCommand(c, Command(d, "client"))
  /\ sent' = sent + 1
  /\ UNCHANGED <<listVars, currentState, cmd, pc, codec, bufferVars>>

ToIdle(c) == \/ cmd[c].dest = "Idle"
             \/ \E i \in DOMAIN messageQ[c] : messageQ[c][i].dest = "Idle"

\* UseBuffer asks only for the state of the port; the client calls it while
\* the component is told to go to Idle.
UseBuffers(c) ==
  /\ ~allocated[c] /\ portState[c] = "Idle"
  /\ ToIdle(c)
  /\ allocated' = [allocated EXCEPT ![c] = TRUE]
  /\ loadedResource' = [loadedResource EXCEPT ![c] = @ + 1]
  /\ UNCHANGED <<listVars, currentState, portState, messageQ, cmd, pc, codec,
                 unloadedResource, sent>>

\* FreeBuffer never refuses.  The client frees its buffers when the ports are
\* to be unloaded, when it is told that the component loses its resources, and
\* when a way to Idle has failed.
FreeBuffers(c) ==
  /\ allocated[c]
  /\ \/ portState[c] \in {"Loaded", "Invalid"} \/ pc[c] = "unloaded"
     \/ currentState[c] = "Loaded" /\ pc[c] = "idle" /\ messageQ[c] = <<>>
  /\ allocated' = [allocated EXCEPT ![c] = FALSE]
  /\ unloadedResource' = [unloadedResource EXCEPT ![c] = @ + 1]
  /\ UNCHANGED <<listVars, currentState, portState, messageQ, cmd, pc, codec,
                 loadedResource, sent>>

-----------------------------------------------------------------------------
(* The message handler thread: SEC_OMX_ComponentStateSet.                  *)

Moves == {<<"Executing", "Idle">>, <<"Pause", "Idle">>, <<"WaitForResources", "Idle">>,
          <<"Idle", "Executing">>, <<"Pause", "Executing">>,
          <<"Idle", "Pause">>, <<"Executing", "Pause">>}

FirstStep(s, d) ==
  CASE s = "Loaded" /\ d = "Idle" -> "get"
    [] s = "Idle" /\ d = "Loaded" -> "release"
    [] s \in {"Idle", "Executing", "Pause"} /\ d = "Invalid" -> "release"
    [] s \in {"Loaded", "WaitForResources"} /\ d = "Invalid" -> "invalidate"
    [] s = "WaitForResources" /\ d = "Loaded" -> "outWait"
    [] s = "Loaded" /\ d = "WaitForResources" -> "inWait"
    [] <<s, d>> \in Moves -> "move"
    [] OTHER -> "refuse"

TakeCommand(c) ==
  /\ pc[c] = "idle" /\ messageQ[c] # <<>>
  /\ cmd' = [cmd EXCEPT ![c] = Head(messageQ[c])]
  /\ messageQ' = [messageQ EXCEPT ![c] = Tail(@)]
  /\ Goto(c, FirstStep(currentState[c], Head(messageQ[c]).dest))
  /\ UNCHANGED <<listVars, currentState, portState, codec, bufferVars, sent>>

\* ErrorSameState, ErrorInvalidState or ErrorIncorrectStateTransition.
Refuse(c) ==
  /\ pc[c] = "refuse"
  /\ Finish(c)
  /\ UNCHANGED <<listVars, currentState, portState, messageQ, codec, bufferVars, sent>>

Move(c) ==
  /\ pc[c] = "move"
  /\ SetState(c, cmd[c].dest)
  /\ Finish(c)
  /\ UNCHANGED <<listVars, portState, messageQ, codec, bufferVars, sent>>

-----------------------------------------------------------------------------
(* Loaded to Idle.                                                         *)

Listed(c) == \E i \in DOMAIN componentList : componentList[i] = c

FirstOf(list, c) == CHOOSE i \in DOMAIN list :
                      list[i] = c /\ \A j \in 1 .. i - 1 : list[j] # c
\* Mutant: the walk along the list does not stop at the first element of c.
Without_All(list, c) == SelectSeq(list, LAMBDA d : d # c)

\* removeElementList: the first element of c, if there is one.
Without(list, c) ==
  IF \E i \in DOMAIN list : list[i] = c
    THEN LET k == FirstOf(list, c) IN SubSeq(list, 1, k - 1) \o SubSeq(list, k + 1, Len(list))
    ELSE list

\* searchLowPriority: the first of the least important holders, among those
\* less important than c.
LessImportant(c) ==
  {i \in DOMAIN componentList : Priority[componentList[i]] > Priority[c]}

\* Mutant: the first less important holder, not the least important one.
Victim_First(c) ==
  componentList[CHOOSE i \in LessImportant(c) : \A j \in LessImportant(c) : i <= j]

Victim(c) ==
  LET Before(i, j) == \/ Priority[componentList[i]] > Priority[componentList[j]]
                      \/ Priority[componentList[i]] = Priority[componentList[j]] /\ i <= j
  IN componentList[CHOOSE i \in LessImportant(c) : \A j \in LessImportant(c) : Before(i, j)]

\* Mutant: one element more than there is room for.
ListFull_OneMore == Len(componentList) > MAX_RESOURCE_VIDEO

ListFull == Len(componentList) >= MAX_RESOURCE_VIDEO

GetFree(c) ==
  /\ pc[c] = "get" /\ ~rmMutex
  /\ ~ListFull
  /\ componentList' = Append(componentList, c)
  /\ Goto(c, "loaded")
  /\ UNCHANGED <<waitingList, rmMutex, currentState, portState, messageQ, cmd, codec,
                 bufferVars, sent>>

\* ErrorInsufficientResources.
GetRefused(c) ==
  /\ pc[c] = "get" /\ ~rmMutex
  /\ ListFull /\ LessImportant(c) = {}
  /\ Finish(c)
  /\ UNCHANGED <<listVars, currentState, portState, messageQ, codec, bufferVars, sent>>

\* removeElementList, then addElementList.
HandOver(v, c) == componentList' = Append(Without(componentList, v), c)

\* removeComponent of a victim that is not in Idle: nothing ("Todo").
PreemptSilently(c) ==
  /\ pc[c] = "get" /\ ~rmMutex
  /\ ListFull /\ LessImportant(c) # {}
  /\ currentState[Victim(c)] # "Idle"
  /\ HandOver(Victim(c), c)
  /\ Goto(c, "loaded")
  /\ UNCHANGED <<waitingList, rmMutex, currentState, portState, messageQ, cmd, codec,
                 bufferVars, sent>>

\* removeComponent of a victim in Idle: its client is told, with the mutex held.
PreemptTell(c) ==
  /\ pc[c] = "get" /\ ~rmMutex
  /\ ListFull /\ LessImportant(c) # {}
  /\ currentState[Victim(c)] = "Idle"
  /\ rmMutex' = TRUE
  /\ Goto(c, "preempt")
  /\ UNCHANGED <<componentList, waitingList, currentState, portState, messageQ, cmd,
                 codec, bufferVars, sent>>

\* SendCommand reads the victim's state again: it may execute meanwhile, but
\* for Invalid it would have to take the mutex.
PreemptSend(c) ==
  /\ pc[c] = "preempt"
  /\ SendCommand(Victim(c), Command("Loaded", "manager"))
  /\ HandOver(Victim(c), c)
  /\ rmMutex' = FALSE
  /\ Goto(c, "loaded")
  /\ UNCHANGED <<waitingList, currentState, cmd, codec, bufferVars, sent>>

WaitLoaded(c) ==
  /\ pc[c] = "loaded"
  /\ loadedResource[c] > 0
  /\ loadedResource' = [loadedResource EXCEPT ![c] = @ - 1]
  /\ Goto(c, "init")
  /\ UNCHANGED <<listVars, currentState, portState, messageQ, cmd, codec, allocated,
                 unloadedResource, sent>>

\* Mutant: the result of the initialisation is not looked at.
CodecInit_Unchecked(c, result) ==
  /\ pc[c] = "init"
  /\ codec' = [codec EXCEPT ![c] = @ \/ result # "noCodec"]
  /\ SetState(c, "Idle")
  /\ Finish(c)
  /\ UNCHANGED <<listVars, portState, messageQ, bufferVars, sent>>

\* A failure leaves the entry, and an open codec, behind.
CodecInit(c, result) ==
  /\ pc[c] = "init"
  /\ codec' = [codec EXCEPT ![c] = @ \/ result # "noCodec"]
  /\ IF result = "ok" THEN SetState(c, "Idle") ELSE UNCHANGED currentState
  /\ Finish(c)
  /\ UNCHANGED <<listVars, portState, messageQ, bufferVars, sent>>

-----------------------------------------------------------------------------
(* Idle to Loaded, and to Invalid.                                         *)

\* Mutant: the first waiter is taken out of the list, the last one is told.
Wake_Last ==
  /\ waitingList' = Tail(waitingList)
  /\ LET w == waitingList[Len(waitingList)]
     IN IF currentState[w] = "Invalid" THEN UNCHANGED <<portState, messageQ>>
        ELSE SendCommand(w, Command("Idle", "manager"))

\* A waiter that has become Invalid meanwhile refuses the command.
Wake ==
  /\ waitingList' = Tail(waitingList)
  /\ LET w == Head(waitingList)
     IN IF currentState[w] = "Invalid" THEN UNCHANGED <<portState, messageQ>>
        ELSE SendCommand(w, Command("Idle", "manager"))

AfterRelease(c) == IF cmd[c].dest = "Loaded" THEN "unload" ELSE "invalidate"

\* Mutant: the list element is not freed when nobody waits.
Release_OnlyToWaiters(c) ==
  /\ pc[c] = "release" /\ ~rmMutex
  /\ IF waitingList # <<>> THEN componentList' = Without(componentList, c)
                           ELSE UNCHANGED componentList
  /\ IF Listed(c) /\ waitingList # <<>> THEN Wake
                                        ELSE UNCHANGED <<waitingList, portState, messageQ>>
  /\ Goto(c, AfterRelease(c))
  /\ UNCHANGED <<rmMutex, currentState, cmd, codec, bufferVars, sent>>

\* Release_Resource.  Without an entry it is an error that is not looked at,
\* and nobody is woken.
Release(c) ==
  /\ pc[c] = "release" /\ ~rmMutex
  /\ componentList' = Without(componentList, c)
  /\ IF Listed(c) /\ waitingList # <<>> THEN Wake
                                        ELSE UNCHANGED <<waitingList, portState, messageQ>>
  /\ Goto(c, AfterRelease(c))
  /\ UNCHANGED <<rmMutex, currentState, cmd, codec, bufferVars, sent>>

\* The thread has ended and the codec is closed.
Unload(c) ==
  /\ pc[c] = "unload"
  /\ codec' = [codec EXCEPT ![c] = FALSE]
  /\ Goto(c, "unloaded")
  /\ UNCHANGED <<listVars, currentState, portState, messageQ, cmd, bufferVars, sent>>

WaitUnloaded(c) ==
  /\ pc[c] = "unloaded"
  /\ unloadedResource[c] > 0
  /\ unloadedResource' = [unloadedResource EXCEPT ![c] = @ - 1]
  /\ SetState(c, "Loaded")
  /\ Finish(c)
  /\ UNCHANGED <<listVars, portState, messageQ, codec, allocated, loadedResource, sent>>

\* A component that waits stays in the waiting list.
Invalidate(c) ==
  /\ pc[c] = "invalidate"
  /\ SetState(c, "Invalid")
  /\ Goto(c, "terminate")
  /\ UNCHANGED <<listVars, portState, messageQ, cmd, codec, bufferVars, sent>>

Terminate(c) ==
  /\ pc[c] = "terminate"
  /\ codec' = [codec EXCEPT ![c] = FALSE]
  /\ Finish(c)
  /\ UNCHANGED <<listVars, currentState, portState, messageQ, bufferVars, sent>>

-----------------------------------------------------------------------------
(* Loaded to WaitForResources and back: the list first, then the state.    *)

InWait(c) ==
  /\ pc[c] = "inWait" /\ ~rmMutex
  /\ waitingList' = Append(waitingList, c)
  /\ Goto(c, "setWait")
  /\ UNCHANGED <<componentList, rmMutex, currentState, portState, messageQ, cmd, codec,
                 bufferVars, sent>>

\* Not being in the list is an error event, but Loaded is reached.
OutWait(c) ==
  /\ pc[c] = "outWait" /\ ~rmMutex
  /\ waitingList' = Without(waitingList, c)
  /\ Goto(c, "setLoaded")
  /\ UNCHANGED <<componentList, rmMutex, currentState, portState, messageQ, cmd, codec,
                 bufferVars, sent>>

SetWaiting(c) ==
  /\ pc[c] \in {"setWait", "setLoaded"}
  /\ SetState(c, cmd[c].dest)
  /\ Finish(c)
  /\ UNCHANGED <<listVars, portState, messageQ, codec, bufferVars, sent>>

-----------------------------------------------------------------------------
Get(c) == GetFree(c) \/ GetRefused(c) \/ PreemptSilently(c) \/ PreemptTell(c) \/ PreemptSend(c)
Acquire(c) == WaitLoaded(c) \/ \E r \in InitResults : CodecInit(c, r)
GiveUp(c) == Release(c) \/ Unload(c) \/ WaitUnloaded(c) \/ Invalidate(c) \/ Terminate(c)
Waiting(c) == InWait(c) \/ OutWait(c) \/ SetWaiting(c)

Handler(c) == \/ TakeCommand(c) \/ Refuse(c) \/ Move(c)
              \/ Get(c) \/ Acquire(c) \/ GiveUp(c) \/ Waiting(c)
Client(c) == (\E d \in Dests : Send(c, d)) \/ UseBuffers(c) \/ FreeBuffers(c)

Next == \E c \in Components : Handler(c) \/ Client(c)

Spec == Init /\ [][Next]_vars

\* Handler threads run, and a client serves its buffers.
Fairness == \A c \in Components : /\ WF_vars(Handler(c))
                                  /\ WF_vars(UseBuffers(c)) /\ WF_vars(FreeBuffers(c))
FairSpec == Spec /\ Fairness

-----------------------------------------------------------------------------
(* Properties.                                                             *)

Labels == {"idle", "refuse", "move", "get", "preempt", "loaded", "init", "release",
           "unload", "unloaded", "invalidate", "terminate", "inWait", "setWait",
           "outWait", "setLoaded"}

\* The lists hold components, semaphores do not go below zero, and each
\* handler thread is at a step of its program.
TypeOK ==
  /\ componentList \in Seq(Components) /\ waitingList \in Seq(Components)
  /\ rmMutex \in BOOLEAN
  /\ currentState \in [Components -> States] /\ portState \in [Components -> States]
  /\ messageQ \in [Components -> Seq(AllCommands)]
  /\ cmd \in [Components -> AllCommands \cup {NoCommand}]
  /\ pc \in [Components -> Labels]
  /\ codec \in [Components -> BOOLEAN] /\ allocated \in [Components -> BOOLEAN]
  /\ loadedResource \in [Components -> Nat] /\ unloadedResource \in [Components -> Nat]
  /\ sent \in 0 .. MaxCommands

\* No more entries are given out than there are codecs, although an entry
\* changes hands in two steps and a component may come for a second one
\* (SEC_OMX_Get_Resource).
ListBounded == Len(componentList) <= MAX_RESOURCE_VIDEO

LeastImportantLoses ==
  \A c \in Components :
    Listed(c) /\ ~Listed(c)' /\ pc[c] # "release"
      => /\ \E d \in Components : pc[d] \in {"get", "preempt"} /\ Priority[d] < Priority[c]
         /\ \A e \in Components : Listed(e) => Priority[e] <= Priority[c]

\* A holder loses its last entry only by giving it back, or to a more important
\* component, and then no holder is less important than the one that lost.
PreemptsLeastImportant == [][LeastImportantLoses]_vars

Queued(list, c) == \E i \in DOMAIN list : list[i] = c
Quiet(c) == pc[c] = "idle" /\ messageQ[c] = <<>>

\* A component that waits for a codec is in the line, or the command that ends
\* its wait is in its queue: no order of entering the line, giving up, and being
\* woken forgets it.
WaiterNotForgotten ==
  \A c \in Components :
    currentState[c] = "WaitForResources" /\ Quiet(c) => Queued(waitingList, c)

\* Every open codec is accounted for by an entry of its component, except while
\* the component is about to close it.
CodecHasEntry ==
  \A c \in Components :
    codec[c] => Listed(c) \/ pc[c] \in {"unload", "invalidate", "terminate"}

\* Rolled back: a component that is Loaded, and not on its way to Idle, holds
\* neither an entry nor an open codec.
RolledBack ==
  \A c \in Components :
    currentState[c] = "Loaded" /\ Quiet(c) => ~codec[c] /\ ~Listed(c)

\* A component that has come to rest in Idle or beyond has its codec.
IdleHasCodec ==
  \A c \in Components :
    currentState[c] \in {"Idle", "Executing", "Pause"} /\ Quiet(c) => codec[c]

\* The ports of a component that has come to rest in Executing are in Idle,
\* without which its buffer process thread does not process.
PortsFollowState ==
  \A c \in Components :
    currentState[c] = "Executing" /\ Quiet(c) => portState[c] = "Idle"

\* The lists, without the lock and the steps under it, behave as CodecPool says.
EntriesOf(list, c) == Cardinality({i \in DOMAIN list : list[i] = c})
Pool == INSTANCE CodecPool
          WITH Max <- MAX_RESOURCE_VIDEO,
               holders <- [c \in Components |-> EntriesOf(componentList, c)],
               free <- MAX_RESOURCE_VIDEO - Len(componentList),
               waiters <- waitingList
RefinesPool == Pool!Spec

\* Every command a component accepts concludes.
CommandsFinish == \A c \in Components : []<>Quiet(c)
=============================================================================
