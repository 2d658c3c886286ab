------------------------------- MODULE HdmiCec -------------------------------
(* The CEC thread of SecHdmi (runCEC) with libcec: at each connection it takes *)
(* an address nobody on the bus answers for and reports where it hangs, then   *)
(* it answers requests.  The sink, the other players on the bus and the frames *)
(* they send are external; a poll and the taking of the address are one step,  *)
(* for two devices that poll at once are the bus's to arbitrate.               *)
EXTENDS Edid

CONSTANTS
  Sinks,                 \* the displays, each by its data
  MaxChanges,            \* bound: changes of the cable and of the other players
  MaxFailures,           \* bound: opens and sends that fail
  None

Candidates == <<4, 8, 11>>        \* laddresses, of CEC_DEVICE_PLAYER
Unregistered == 15
Broadcast == 15

VARIABLES
  sink, taken, changes,  \* what the cable leads to, the other players' addresses there
  pulled,                \* the cable was touched since the service last acted
  status,                \* the cable as setHdmiStatus last saw it
  thread,                \* the HdmiThread: "none", "running", "ended"
  first,                 \* mFirstRef: the address was taken
  fd,                    \* libcec has the device open
  adapter,               \* the address the device answers for
  laddr, paddr,          \* mCecLAddr, mCecPAddr
  sent,                  \* the last frame sent
  failures

vars == <<sink, taken, changes, pulled, status, thread, first, fd, adapter, laddr, paddr, sent, failures>>
busVars == <<sink, taken, changes, pulled>>

Init ==
  /\ sink \in {None} \cup Sinks /\ taken = {} /\ changes = 0 /\ pulled = FALSE
  /\ status = None /\ thread = "none" /\ first = FALSE /\ fd = FALSE
  /\ adapter = Unregistered /\ laddr = Unregistered /\ paddr = None
  /\ sent = None /\ failures = 0

Fails == failures < MaxFailures /\ failures' = failures + 1

\* The cable is pulled out or put into another sink; on that bus other players may hold
\* addresses already.
Plug ==
  /\ changes < MaxChanges /\ changes' = changes + 1
  /\ sink' \in ({None} \cup Sinks) \ {sink}
  /\ \E a \in SUBSET {4, 8} : taken' = (IF sink' = None THEN {} ELSE a)
  /\ pulled' = TRUE
  /\ UNCHANGED <<status, thread, first, fd, adapter, laddr, paddr, sent, failures>>

\* Another player comes: it takes the first address for which nobody answers, and we
\* answer for ours while the device is open.
Arrives ==
  /\ changes < MaxChanges /\ changes' = changes + 1 /\ sink # None
  /\ LET free == {i \in DOMAIN Candidates :
                    Candidates[i] \notin taken /\ ~(fd /\ adapter = Candidates[i])}
     IN  /\ free # {}
         /\ taken' = taken \cup {Candidates[CHOOSE i \in free : \A j \in free : i <= j]}
  /\ UNCHANGED <<sink, pulled, status, thread, first, fd, adapter, laddr, paddr, sent, failures>>

\* connect, m_runEdid(true).
Starts ==
  /\ status = None /\ sink # None /\ EDIDRead(sink) /\ status' = sink /\ pulled' = FALSE
  /\ thread = "none" /\ thread' = "running"
  /\ UNCHANGED <<sink, taken, changes, first, fd, adapter, laddr, paddr, sent, failures>>

\* MUTANT: the next thread believes the address was taken.
Stops_KeepsFirst ==
  /\ status # None /\ pulled /\ status' = None
  /\ thread' = "none" /\ fd' = FALSE
  /\ UNCHANGED <<busVars, first, adapter, laddr, paddr, sent, failures>>
\* disconnect, m_runEdid(false): the thread is joined, mFirstRef reset, deinitCEC.
Stops ==
  /\ status # None /\ pulled /\ status' = None
  /\ thread' = "none" /\ fd' = FALSE /\ first' = FALSE
  /\ UNCHANGED <<busVars, adapter, laddr, paddr, sent, failures>>

-----------------------------------------------------------------------------
(* runCEC, one call of the loop                                               *)

Frame(op, to, where) == [op |-> op, from |-> laddr, to |-> to, where |-> where]
Answered(a) == a \in taken

\* The first candidate whose polling message nobody acknowledges.
CECAllocLogicalAddress ==
  LET free == {i \in DOMAIN Candidates : ~Answered(Candidates[i])}
  IN  IF free = {} THEN Unregistered ELSE Candidates[CHOOSE i \in free : \A j \in free : i <= j]

FirstRound(end) ==
  /\ thread = "running" /\ ~first /\ thread' = end
  /\ UNCHANGED <<busVars, status>>

\* No HDMI block, no physical address: the thread ends before it opens the device.
RunsWithoutPort ==
  /\ FirstRound("ended") /\ ~CheckHDMIMode(status) /\ paddr' = None
  /\ UNCHANGED <<first, fd, adapter, laddr, sent, failures>>
RunsFirst ==
  /\ FirstRound("running") /\ CheckHDMIMode(status)
  /\ paddr' = EDIDGetCECPhysicalAddress(status) /\ fd' = TRUE
  /\ laddr' = CECAllocLogicalAddress /\ adapter' = laddr' /\ first' = TRUE
  /\ sent' = (IF laddr' = Unregistered THEN sent
              ELSE [op |-> "ReportPhysicalAddress", from |-> laddr', to |-> Broadcast, where |-> paddr'])
  /\ UNCHANGED failures
\* The device does not open, or the report is not sent: the address stays with the
\* adapter that was told, until the device is closed.
FirstFails ==
  /\ FirstRound("ended") /\ CheckHDMIMode(status) /\ Fails
  /\ paddr' = EDIDGetCECPhysicalAddress(status) /\ fd' = FALSE
  /\ \/ UNCHANGED <<laddr, adapter>>
     \/ adapter' = CECAllocLogicalAddress /\ laddr' = 0
  /\ UNCHANGED <<first, sent>>

Opcodes == {"GivePhysicalAddress", "RequestActiveSource", "FeatureAbort", "Play", "Standby"}
CECIgnoreMessage(op, from) == from = Unregistered /\ op = "Play"
\* The size counts the header, except for the request of the active source: with the byte
\* of its opcode that frame never passes.
CECCheckMessageSize(op, size) ==
  CASE op = "RequestActiveSource" -> size = 1
    [] op = "FeatureAbort" -> size = 4
    [] op = "Play" -> size = 3
    [] OTHER -> TRUE
CECCheckMessageMode(op, broadcast) ==
  CASE op = "RequestActiveSource" -> broadcast
    [] op = "Standby" -> TRUE
    [] OTHER -> ~broadcast

\* What the code calls an answer: to everybody for the port, otherwise a refusal to the
\* sender, even of a refusal or a broadcast.
Answer(op, from) ==
  CASE op = "GivePhysicalAddress" -> Frame("ReportPhysicalAddress", Broadcast, paddr)
    [] op = "RequestActiveSource" -> Frame("ActiveSource", Broadcast, paddr)
    [] OTHER -> Frame("FeatureAbort", from, None)

\* A frame arrives: to all, or to the address the adapter answers for.
Answers ==
  /\ thread = "running" /\ first /\ sink # None
  /\ \E from \in taken \cup {0, Unregistered}, op \in Opcodes, size \in 2..4, broadcast \in BOOLEAN :
       /\ broadcast \/ adapter # Unregistered
       /\ from # laddr /\ ~CECIgnoreMessage(op, from)
       /\ CECCheckMessageSize(op, size) /\ CECCheckMessageMode(op, broadcast)
       /\ sent' = Answer(op, from)
  /\ UNCHANGED <<busVars, status, thread, first, fd, adapter, laddr, paddr, failures>>

Next ==
  \/ Plug \/ Arrives \/ Starts \/ Stops \/ RunsWithoutPort \/ RunsFirst \/ FirstFails \/ Answers
Spec == Init /\ [][Next]_vars

-----------------------------------------------------------------------------
\* While the thread answers on the bus of the sink it was started for, nobody else there
\* has its address, and it names the port that sink gave it.
SpeaksForItself ==
  thread = "running" /\ first /\ ~pulled =>
    /\ laddr # Unregistered => (laddr = adapter /\ laddr \notin taken)
    /\ CheckHDMIMode(sink) /\ paddr = EDIDGetCECPhysicalAddress(sink)
=============================================================================
