---------------------------- MODULE DeviceProofs ----------------------------
(* What is proved of the display: the CEC thread speaks for itself and for the  *)
(* sink that is there, the HDMI output plays for that sink and writes into      *)
(* another picture than it shows, the converter converts as it was asked, and   *)
(* the composer shows each frame it was given, whole; and of the microphone:    *)
(* its frames arrive in order, none of them twice.                              *)
EXTENDS MC_Devices, SequenceTheorems, WellFoundedInduction, TLAPS

-----------------------------------------------------------------------------
(* The CEC thread                                                            *)

\* What the thread was started for: the display the service saw, and, while nobody has
\* touched the cable, the display that is there.
StartedForSink ==
  /\ thread = "running" => status # None
  /\ status # None /\ ~pulled => status = sink

\* What it says of itself once the address was taken.  The device stays open, which is
\* why a player who comes later does not take the same address.
Introduced ==
  first =>
    /\ thread = "running" /\ fd /\ CheckHDMIMode(status)
    /\ paddr = EDIDGetCECPhysicalAddress(status)
    /\ laddr = adapter
    /\ adapter # Unregistered /\ ~pulled => adapter \notin taken

CecInv == StartedForSink /\ Introduced

-----------------------------------------------------------------------------
\* Of the candidates that are free, the choice is one.
LEMMA LeastCandidate ==
  ASSUME NEW free \in SUBSET DOMAIN Candidates, free # {}
  PROVE  (CHOOSE i \in free : \A j \in free : i <= j) \in free
  <1>1. free \subseteq {1, 2, 3}
    BY DEF Candidates
  <1>2. \E i \in free : \A j \in free : i <= j
    <2>1. CASE 1 \in free
      BY <1>1, <2>1
    <2>2. CASE 1 \notin free /\ 2 \in free
      BY <1>1, <2>2
    <2>3. CASE 1 \notin free /\ 2 \notin free
      BY <1>1, <2>3
    <2> QED BY <2>1, <2>2, <2>3
  <1> QED BY <1>2

\* CECAllocLogicalAddress returns an address nobody answers for, or none.
LEMMA AllocatedIsFree ==
  CECAllocLogicalAddress = Unregistered \/ CECAllocLogicalAddress \notin taken
  <1> DEFINE free == {i \in DOMAIN Candidates : ~Answered(Candidates[i])}
  <1>1. CASE free = {}
    BY <1>1 DEF CECAllocLogicalAddress
  <1>2. CASE free # {}
    <2> DEFINE least == CHOOSE i \in free : \A j \in free : i <= j
    <2>1. least \in free
      BY <1>2, LeastCandidate
    <2>2. CECAllocLogicalAddress = Candidates[least]
      BY <1>2 DEF CECAllocLogicalAddress
    <2> QED BY <2>1, <2>2 DEF Answered
  <1> QED BY <1>1, <1>2

LEMMA InitCec == Init => CecInv
  BY DEF Init, CecInv, StartedForSink, Introduced

-----------------------------------------------------------------------------
\* The cable: what the thread knows is of the bus before, and it is marked so.
LEMMA Plug_Step ==
  ASSUME CecInv, Plug PROVE CecInv'
  BY DEF CecInv, StartedForSink, Introduced, Plug

\* A player that comes takes no address for which the open device answers.
LEMMA Arrives_Step ==
  ASSUME CecInv, Arrives PROVE CecInv'
  <1> DEFINE free == {i \in DOMAIN Candidates :
                        Candidates[i] \notin taken /\ ~(fd /\ adapter = Candidates[i])}
             least == CHOOSE i \in free : \A j \in free : i <= j
  <1>1. free # {} /\ taken' = taken \cup {Candidates[least]}
    BY DEF Arrives
  <1>2. ~(fd /\ adapter = Candidates[least])
    <2>1. least \in free
      BY <1>1, LeastCandidate
    <2> QED BY <2>1
  <1>3. /\ UNCHANGED <<sink, pulled, status, thread, first, fd, adapter, laddr, paddr>>
    BY DEF Arrives
  <1> HIDE DEF free, least
  <1>4. StartedForSink'
    BY <1>3 DEF CecInv, StartedForSink
  <1>5. Introduced'
    BY <1>1, <1>2, <1>3 DEF CecInv, Introduced
  <1> QED BY <1>4, <1>5 DEF CecInv

LEMMA Starts_Step ==
  ASSUME CecInv, Starts PROVE CecInv'
  BY DEF CecInv, StartedForSink, Introduced, Starts

LEMMA Stops_Step ==
  ASSUME CecInv, Stops PROVE CecInv'
  BY DEF CecInv, StartedForSink, Introduced, Stops, busVars

LEMMA RunsWithoutPort_Step ==
  ASSUME CecInv, RunsWithoutPort PROVE CecInv'
  BY DEF CecInv, StartedForSink, Introduced, RunsWithoutPort, FirstRound, busVars

\* The first round: the address is free, and reported from the port of this sink.
LEMMA RunsFirst_Step ==
  ASSUME CecInv, RunsFirst PROVE CecInv'
  <1>1. /\ thread = "running" /\ thread' = "running" /\ CheckHDMIMode(status)
        /\ UNCHANGED <<sink, taken, pulled, status>>
        /\ paddr' = EDIDGetCECPhysicalAddress(status) /\ fd' = TRUE
        /\ laddr' = CECAllocLogicalAddress /\ adapter' = laddr'
    BY DEF RunsFirst, FirstRound, busVars
  <1>2. adapter' = Unregistered \/ adapter' \notin taken
    BY <1>1, AllocatedIsFree
  <1>3. StartedForSink'
    BY <1>1 DEF CecInv, StartedForSink
  <1>4. CheckHDMIMode(status)' /\ (paddr = EDIDGetCECPhysicalAddress(status))'
    BY <1>1
  <1>5. Introduced'
    BY <1>1, <1>2, <1>4 DEF Introduced, Unregistered
  <1> QED BY <1>3, <1>5 DEF CecInv

LEMMA FirstFails_Step ==
  ASSUME CecInv, FirstFails PROVE CecInv'
  BY DEF CecInv, StartedForSink, Introduced, FirstFails, FirstRound, busVars

LEMMA Answers_Step ==
  ASSUME CecInv, Answers PROVE CecInv'
  BY DEF CecInv, StartedForSink, Introduced, Answers, busVars

LEMMA NextCec == CecInv /\ [Next]_vars => CecInv'
  <1> SUFFICES ASSUME CecInv, [Next]_vars PROVE CecInv'
    OBVIOUS
  <1>1. CASE UNCHANGED vars
    BY <1>1 DEF CecInv, StartedForSink, Introduced, vars
  <1>2. CASE Next
    BY <1>2, Plug_Step, Arrives_Step, Starts_Step, Stops_Step, RunsWithoutPort_Step,
       RunsFirst_Step, FirstFails_Step, Answers_Step DEF Next
  <1> QED BY <1>1, <1>2

-----------------------------------------------------------------------------
\* While the thread answers on the bus of the sink it was started for, nobody else
\* there has its address, and it names the port that sink gave it (runCEC,
\* CECAllocLogicalAddress).
THEOREM Speaks == Spec => []SpeaksForItself
  <1>1. CecInv => SpeaksForItself
    BY DEF CecInv, StartedForSink, Introduced, SpeaksForItself
  <1> QED BY <1>1, InitCec, NextCec, PTL DEF Spec
-----------------------------------------------------------------------------
(* The HDMI output                                                           *)

Resolution == {Resolutions[i] : i \in DOMAIN Resolutions}
Shown == Pictures \cup {"ui"}
Modes == {"ycbcr", "rgb", "dvi"}
EncoderType == [open : BOOLEAN, std : Resolution, mode : Modes, stream : BOOLEAN,
                image : {None} \cup 0..2, right : BOOLEAN]
PlaceType == [status : {"idle", "mode", "resolution", "tail", "index", "show"},
              blit : {"idle", "asked"}, set : {"idle", "asked"}]
OutputTypes ==
  /\ sink \in OutputSinks \cup {None} /\ edid \in OutputSinks \cup {None}
  /\ events \in Seq({0, 1})
  /\ cable \in BOOLEAN /\ connected \in BOOLEAN /\ run \in BOOLEAN /\ info \in BOOLEAN
  /\ mode \in Modes /\ want \in Resolution
  /\ src \in Shown \cup {None} /\ out \in 0..2
  /\ fimc \in [created : BOOLEAN, for : Shown \cup {None}]
  /\ tv \in EncoderType
  /\ started \in BOOLEAN
  /\ pc \in PlaceType

\* connect is on its way, and from where on the mode and the resolution fit the sink.
Connecting == pc.status \in {"mode", "resolution", "tail", "index"}
ModeChosen == cable \/ pc.status \in {"resolution", "tail", "index"}
SizeChosen == cable \/ pc.status \in {"tail", "index"}

\* The EDID that is kept is that of the sink, or the cable's next event is that it was
\* pulled.  It outlives a connect only when the FIMC could not be opened.
Pulled(s) == \E i \in 1..Len(s) : s[i] = 0
Linked ==
  /\ run <=> edid # None
  /\ run => "fimc" \in hurt \/ cable \/ Connecting
  /\ cable \/ Connecting => run
  /\ Connecting => ~cable /\ events # <<>> /\ Head(events) = 1
  /\ connected => cable \/ pc.status = "index"
  /\ "fimc" \notin hurt /\ (cable \/ Connecting) => edid = sink \/ Pulled(events)
Chosen ==
  /\ ModeChosen => ((mode = "dvi") <=> ~Output!CheckHDMIMode(edid))
  /\ SizeChosen => Output!hdmi_check_resolution(want) \/ Output!Below(want) = {}

\* What the encoder was told, and what it was given last.
Applied == ~info => tv.std = want /\ tv.mode = mode
Encodes ==
  /\ tv.stream => started /\ tv.open
  /\ "open" \notin hurt => tv.open /\ (started => tv.stream)
Converted ==
  /\ (connected \/ Connecting) /\ "params" \notin hurt => src \in {None, "tiled"} \/ fimc.for = src
  /\ tv.stream /\ "params" \notin hurt => tv.right

OutputInv ==
  OutputTypes /\ Linked /\ Chosen /\ Applied /\ Encodes /\ Converted /\ Output!WritesElsewhere

-----------------------------------------------------------------------------
(* What the calls do                                                          *)

LEMMA LeastNat ==
  ASSUME NEW S \in SUBSET Nat, S # {} PROVE \E n \in S : \A m \in S : n <= m
  <1> DEFINE R == OpToRel(<, Nat)
  <1>1. IsWellFoundedOn(R, Nat)
    BY NatLessThanWellFounded
  <1>2. PICK n \in S : \A m \in Nat : <<m, n>> \in R => m \notin S
    BY <1>1, WFMin
  <1>3. ASSUME NEW m \in S PROVE n <= m
    <2>1. CASE m < n
      <3>1. <<m, n>> \in R
        BY <2>1 DEF OpToRel
      <3> QED BY <1>2, <3>1
    <2> QED BY <2>1
  <1> QED BY <1>2, <1>3

\* setHdmiResolution takes one that the sink shows.
LEMMA Best ==
  ASSUME NEW r \in Resolution, Output!Below(r) # {}
  PROVE  /\ Output!BestOf(Output!Below(r)) \in Resolution
         /\ Output!hdmi_check_resolution(Output!BestOf(Output!Below(r)))
  <1> DEFINE below == Output!Below(r)
  <1>1. Output!IndexOf(r) \in DOMAIN Resolutions
    BY DEF Resolution, Output!IndexOf
  <1>2. Output!IndexOf(r) \in Nat /\ Len(Resolutions) \in Nat
    BY <1>1, DevicesAssumption
  <1>3. below \subseteq 1..Len(Resolutions)
    BY <1>1, <1>2, DevicesAssumption DEF Output!Below
  <1>4. \A i \in below : Output!hdmi_check_resolution(Resolutions[i])
    BY DEF Output!Below
  <1> DEFINE least == CHOOSE i \in below : \A j \in below : i <= j
  <1>5. below \in SUBSET Nat /\ below # {}
    BY <1>2, <1>3
  <1> HIDE DEF below
  <1>6. \E i \in below : \A j \in below : i <= j
    BY <1>5, LeastNat
  <1>7. least \in below
    BY <1>6
  <1>8. Output!BestOf(below) = Resolutions[least]
    BY DEF Output!BestOf
  <1>9. Resolutions[least] \in Resolution
    <2>1. least \in 1..Len(Resolutions)
      BY <1>3, <1>7
    <2> HIDE DEF least
    <2> QED BY <2>1, DevicesAssumption DEF Resolution
  <1> QED BY <1>4, <1>7, <1>8, <1>9 DEF below

LEMMA ChoosesSize ==
  ASSUME OutputTypes, NEW r \in Resolution, Output!setHdmiResolution(r)
  PROVE  /\ want' \in Resolution /\ info' \in BOOLEAN
         /\ Output!hdmi_check_resolution(want') \/ (want' = want /\ Output!Below(r) = {})
         /\ ~info' => ~info /\ want' = want
  <1>1. CASE Output!Below(r) = {}
    BY <1>1 DEF OutputTypes, Output!setHdmiResolution
  <1>2. CASE Output!Below(r) # {}
    <2> DEFINE new == Output!BestOf(Output!Below(r))
    <2>1. new \in Resolution /\ Output!hdmi_check_resolution(new)
      BY <1>2, Best
    <2>2. want' = new /\ info' = (info \/ want # new)
      BY <1>2 DEF Output!setHdmiResolution
    <2> HIDE DEF new
    <2> QED BY <2>1, <2>2 DEF OutputTypes
  <1> QED BY <1>1, <1>2

LEMMA ChoosesMode ==
  ASSUME OutputTypes, NEW m \in Modes, Output!setHdmiOutputMode(m)
  PROVE  /\ mode' \in Modes /\ info' \in BOOLEAN
         /\ (mode' = "dvi") <=> (edid = None \/ ~Output!CheckHDMIMode(edid))
         /\ ~info' => ~info /\ mode' = mode
  <1> DEFINE new == Output!hdmi_check_output_mode(m)
  <1>1. new \in Modes /\ ((new = "dvi") <=> (edid = None \/ ~Output!CheckHDMIMode(edid)))
    <2>1. CASE edid = None \/ ~Output!CheckHDMIMode(edid)
      <3>1. new = "dvi"
        BY <2>1 DEF Output!hdmi_check_output_mode
      <3> QED BY <2>1, <3>1 DEF Modes
    <2>2. CASE ~(edid = None \/ ~Output!CheckHDMIMode(edid)) /\ m \in {"ycbcr", "rgb"}
      BY <2>2 DEF Modes, Output!hdmi_check_output_mode
    <2>3. CASE ~(edid = None \/ ~Output!CheckHDMIMode(edid)) /\ m = "dvi"
      BY <2>3 DEF Modes, Output!hdmi_check_output_mode
    <2> QED BY <2>1, <2>2, <2>3 DEF Modes
  <1>2. mode' = new /\ info' = (info \/ new # m \/ new # mode)
    BY DEF Output!setHdmiOutputMode
  <1> HIDE DEF new
  <1> QED BY <1>1, <1>2 DEF OutputTypes

\* m_reset stops the encoder, and one whose settings changed is told the new ones.
LEMMA Resets ==
  ASSUME OutputTypes, Applied, Encodes, NEW ok \in BOOLEAN
  PROVE  /\ Output!m_reset(ok) \in EncoderType
         /\ ~Output!m_reset(ok).stream
         /\ Output!m_reset(ok).std = want /\ Output!m_reset(ok).mode = mode
         /\ ok /\ (tv.open \/ info) => Output!m_reset(ok).open
  <1> DEFINE off == IF started THEN Output!hdmi_streamoff(tv) ELSE tv
  <1>1. /\ off \in EncoderType /\ ~off.stream /\ off.std = tv.std /\ off.mode = tv.mode
        /\ off.open = tv.open
    BY DEF OutputTypes, EncoderType, Encodes, Output!hdmi_streamoff
  <1> DEFINE told == [[off EXCEPT !.mode = mode] EXCEPT !.std = want]
             closed == [told EXCEPT !.open = FALSE]
             opened == [closed EXCEPT !.open = TRUE]
  <1>2. Output!m_reset(ok) = IF info THEN (IF ok THEN opened ELSE closed) ELSE off
    BY DEF Output!m_reset, Output!hdmi_initialize, Output!hdmi_deinitialize,
           Output!m_setHdmiResolution, Output!m_setHdmiOutputMode, Output!hdmi_tvout_init
  <1> HIDE DEF off
  <1>3. told \in EncoderType /\ ~told.stream /\ told.std = want /\ told.mode = mode
    BY <1>1 DEF OutputTypes, EncoderType
  <1> HIDE DEF told
  <1>4. closed \in EncoderType /\ ~closed.stream /\ closed.std = want /\ closed.mode = mode
    BY <1>3 DEF EncoderType
  <1> HIDE DEF closed
  <1>5. /\ opened \in EncoderType /\ ~opened.stream /\ opened.std = want /\ opened.mode = mode
        /\ opened.open
    BY <1>4 DEF EncoderType
  <1> HIDE DEF opened
  <1> QED BY <1>1, <1>2, <1>4, <1>5 DEF Applied

LEMMA InitOutput == Output!Init => OutputInv
  <1> SUFFICES ASSUME Output!Init PROVE OutputInv
    OBVIOUS
  <1>1. Resolutions[1] \in Resolution
    BY DevicesAssumption DEF Resolution
  <1>2. OutputTypes
    <2>1. want \in Resolution /\ mode \in Modes
      BY <1>1 DEF Output!Init, Modes
    <2>2. tv \in EncoderType
      BY <2>1 DEF Output!Init, EncoderType
    <2>3. pc \in PlaceType /\ sink \in OutputSinks \cup {None} /\ edid \in OutputSinks \cup {None}
      BY DEF Output!Init, PlaceType
    <2>4. /\ src \in Shown \cup {None} /\ out \in 0..2
          /\ fimc \in [created : BOOLEAN, for : Shown \cup {None}]
      BY DEF Output!Init
    <2>5. events = <<1>> /\ <<1>> \in Seq({0, 1})
      BY DEF Output!Init
    <2>6. /\ cable \in BOOLEAN /\ connected \in BOOLEAN
          /\ run \in BOOLEAN /\ info \in BOOLEAN /\ started \in BOOLEAN
      BY DEF Output!Init
    <2> QED BY <2>1, <2>2, <2>3, <2>4, <2>5, <2>6 DEF OutputTypes
  <1>3. Linked /\ Chosen
    BY DEF Output!Init, Linked, Chosen, Connecting, ModeChosen, SizeChosen
  <1>4. Applied /\ Encodes /\ Converted /\ Output!WritesElsewhere
    BY DEF Output!Init, Applied, Encodes, Converted, Connecting, Output!WritesElsewhere
  <1> QED BY <1>2, <1>3, <1>4 DEF OutputInv

-----------------------------------------------------------------------------
(* What the steps leave alone                                                 *)

LEMMA EventComes ==
  ASSUME NEW s \in Seq({0, 1}), NEW n \in {0, 1}
  PROVE  /\ Append(s, n) \in Seq({0, 1}) /\ Append(s, n) # <<>>
         /\ s # <<>> => Head(Append(s, n)) = Head(s)
         /\ Pulled(s) \/ n = 0 => Pulled(Append(s, n))
  <1>1. /\ Append(s, n) \in Seq({0, 1}) /\ Len(Append(s, n)) = Len(s) + 1 /\ Len(s) \in Nat
        /\ \A i \in 1..Len(s) : Append(s, n)[i] = s[i]
        /\ Append(s, n)[Len(s) + 1] = n
    OBVIOUS
  <1> DEFINE t == Append(s, n)
  <1> HIDE DEF t
  <1>2. t # <<>>
    BY <1>1 DEF t
  <1>3. s # <<>> => Head(t) = Head(s)
    BY DEF t
  <1>4. ASSUME Pulled(s) \/ n = 0 PROVE Pulled(t)
    BY <1>1, <1>4 DEF Pulled, t
  <1> QED BY <1>1, <1>2, <1>3, <1>4 DEF t

LEMMA EventGoes ==
  ASSUME NEW s \in Seq({0, 1}), s # <<>>
  PROVE  /\ Tail(s) \in Seq({0, 1})
         /\ Pulled(s) /\ Head(s) = 1 => Pulled(Tail(s))
  <1>1. /\ Tail(s) \in Seq({0, 1}) /\ Len(Tail(s)) = Len(s) - 1 /\ Len(s) \in Nat
        /\ \A i \in 1..Len(s) - 1 : Tail(s)[i] = s[i + 1]
        /\ Head(s) = s[1]
    BY HeadTailProperties
  <1> DEFINE t == Tail(s)
  <1> HIDE DEF t
  <1>2. ASSUME Pulled(s), Head(s) = 1 PROVE Pulled(t)
    <2>1. PICK i \in 1..Len(s) : s[i] = 0
      BY <1>2 DEF Pulled
    <2>2. i # 1
      BY <1>1, <1>2, <2>1
    <2>3. i - 1 \in 1..Len(t) /\ t[i - 1] = 0
      BY <1>1, <2>1, <2>2 DEF t
    <2> QED BY <2>3 DEF Pulled
  <1> QED BY <1>1, <1>2 DEF t

LEMMA SamePicture ==
  ASSUME OutputInv, \A k : k \in hurt => k \in hurt', Connecting' => Connecting,
         UNCHANGED <<connected, mode, want, info, src, fimc, out, tv, started>>
  PROVE  Applied' /\ Encodes' /\ Converted' /\ Output!WritesElsewhere'
  <1>1. Applied' /\ Encodes' /\ Converted'
    BY DEF OutputInv, Applied, Encodes, Converted
  <1>2. Output!WritesElsewhere'
    BY DEF OutputInv, Output!WritesElsewhere
  <1> QED BY <1>1, <1>2

LEMMA SameChoice ==
  ASSUME OutputInv, UNCHANGED <<edid, mode, want>>,
         ModeChosen' => ModeChosen, SizeChosen' => SizeChosen
  PROVE  Chosen'
  <1>1. /\ Output!CheckHDMIMode(edid)' = Output!CheckHDMIMode(edid)
        /\ Output!hdmi_check_resolution(want)' = Output!hdmi_check_resolution(want)
        /\ Output!Below(want)' = Output!Below(want)
    BY DEF Output!hdmi_check_resolution, Output!Below
  <1> QED BY <1>1 DEF OutputInv, Chosen

-----------------------------------------------------------------------------
(* The cable and the service                                                  *)

LEMMA OutputPlug_Step ==
  ASSUME OutputInv, Output!Plug PROVE OutputInv'
  <1>1. PICK n \in {0, 1} : /\ events' = Append(events, n)
                            /\ n = 1 => sink = None /\ sink' \in OutputSinks
                            /\ n = 0 => sink # None /\ sink' = None
    BY DEF Output!Plug
  <1>2. /\ UNCHANGED <<cable, connected, run, edid, mode, want, info, src, fimc, out, tv, started,
                       pc, hurt>>
    BY DEF Output!Plug, Output!linkVars, Output!playVars
  <1>3. /\ events' \in Seq({0, 1}) /\ events' # <<>>
        /\ events # <<>> => Head(events') = Head(events)
        /\ Pulled(events) \/ n = 0 => Pulled(events')
    BY <1>1, EventComes DEF OutputInv, OutputTypes
  <1>4. OutputTypes'
    BY <1>1, <1>2, <1>3 DEF OutputInv, OutputTypes
  <1>5. Linked'
    <2>1. run <=> edid # None
      BY DEF OutputInv, Linked
    <2> QED BY <1>1, <1>2, <1>3, <2>1 DEF OutputInv, Linked, Connecting
  <1>6. Chosen'
    BY <1>2, SameChoice DEF ModeChosen, SizeChosen
  <1>7. Applied' /\ Encodes' /\ Converted' /\ Output!WritesElsewhere'
    BY <1>2, SamePicture DEF Connecting
  <1> QED BY <1>4, <1>5, <1>6, <1>7 DEF OutputInv

LEMMA StatusSame_Step ==
  ASSUME OutputInv, Output!StatusSame PROVE OutputInv'
  <1>1. /\ events # <<>> /\ ((Head(events) = 1) <=> cable) /\ events' = Tail(events)
        /\ pc.status = "idle" /\ pc' = [pc EXCEPT !.status = "idle"]
        /\ UNCHANGED <<sink, cable, connected, run, edid, mode, want, info, src, fimc, out, tv,
                       started, hurt>>
    BY DEF Output!StatusSame, Output!At, Output!EventDone, Output!linkVars, Output!playVars,
           OutputInv, OutputTypes
  <1>2. pc' = pc
    BY <1>1 DEF OutputInv, OutputTypes, PlaceType
  <1>3. events' \in Seq({0, 1}) /\ (Pulled(events) /\ Head(events) = 1 => Pulled(events'))
    BY <1>1, EventGoes DEF OutputInv, OutputTypes
  <1>4. OutputTypes'
    BY <1>1, <1>2, <1>3 DEF OutputInv, OutputTypes
  <1>5. Linked'
    BY <1>1, <1>2, <1>3 DEF OutputInv, Linked, Connecting
  <1>6. Chosen'
    BY <1>1, <1>2, SameChoice DEF ModeChosen, SizeChosen
  <1>7. Applied' /\ Encodes' /\ Converted' /\ Output!WritesElsewhere'
    BY <1>1, <1>2, SamePicture DEF Connecting
  <1> QED BY <1>4, <1>5, <1>6, <1>7 DEF OutputInv

\* A connect that fails leaves no EDID, unless it failed at the FIMC.
LEMMA ConnectFails_Step ==
  ASSUME OutputInv, NEW kind, Output!ConnectFails(kind), events # <<>>, Head(events) = 1, ~cable,
         \/ UNCHANGED <<run, edid, fimc>>
         \/ ~run /\ edid' = None /\ UNCHANGED <<run, fimc>>
         \/ kind = "fimc" /\ sink # None /\ Output!m_runEdid /\ UNCHANGED fimc
  PROVE  OutputInv'
  <1>1. /\ events' = Tail(events) /\ pc.status = "idle" /\ pc' = [pc EXCEPT !.status = "idle"]
        /\ UNCHANGED <<sink, cable, connected, mode, want, info, src, out, tv, started>>
    BY DEF Output!ConnectFails, Output!At, Output!EventDone
  <1>2. pc' = pc
    BY <1>1 DEF OutputInv, OutputTypes, PlaceType
  <1>3. /\ \A k : k \in hurt => k \in hurt'
        /\ kind = "fimc" => "fimc" \in hurt'
    BY DEF Output!ConnectFails, Output!Well, Output!Fails
  <1>4. ~connected /\ ~Connecting /\ (run => "fimc" \in hurt) /\ (run <=> edid # None)
    BY <1>1 DEF OutputInv, Linked, Connecting
  <1>5. fimc' = fimc /\ run' \in BOOLEAN /\ edid' \in OutputSinks \cup {None}
        /\ (run' <=> edid' # None) /\ (run' => "fimc" \in hurt')
    <2>1. CASE UNCHANGED <<run, edid, fimc>>
      BY <1>3, <1>4, <2>1 DEF OutputInv, OutputTypes
    <2>2. CASE ~run /\ edid' = None /\ UNCHANGED <<run, fimc>>
      BY <1>3, <1>4, <2>2 DEF OutputInv, OutputTypes
    <2>3. CASE kind = "fimc" /\ sink # None /\ Output!m_runEdid /\ UNCHANGED fimc
      <3>1. run' = TRUE /\ edid' = (IF edid = None THEN sink ELSE edid)
        BY <2>3 DEF Output!m_runEdid, Output!initCEC
      <3> QED BY <1>3, <2>3, <3>1 DEF OutputInv, OutputTypes
    <2> QED BY <2>1, <2>2, <2>3
  <1>6. events' \in Seq({0, 1})
    BY <1>1, EventGoes DEF OutputInv, OutputTypes
  <1>7. OutputTypes'
    BY <1>1, <1>2, <1>5, <1>6 DEF OutputInv, OutputTypes
  <1>8. Linked'
    BY <1>1, <1>2, <1>4, <1>5 DEF Linked, Connecting
  <1>9. Chosen'
    BY <1>1, <1>2 DEF Chosen, ModeChosen, SizeChosen
  <1>10. Applied' /\ Encodes' /\ Converted' /\ Output!WritesElsewhere'
    BY <1>1, <1>3, <1>5, <1>2, SamePicture DEF Connecting
  <1> QED BY <1>7, <1>8, <1>9, <1>10 DEF OutputInv

\* The others go on with an EDID: that of the sink, if it was not kept.
LEMMA ConnectBegins_Step ==
  ASSUME OutputInv, events # <<>>, Head(events) = 1, ~cable,
         sink # None, Output!m_runEdid, Output!At("status", "idle", "mode"),
         fimc' = (IF fimc.created THEN fimc ELSE [created |-> TRUE, for |-> None]),
         src' = None, out' = 0,
         UNCHANGED <<sink, events, cable, connected, mode, want, info, tv, started, hurt>>
  PROVE  OutputInv'
  <1>1. /\ pc.status = "idle" /\ pc' = [pc EXCEPT !.status = "mode"]
        /\ run' = TRUE /\ edid' = (IF edid = None THEN sink ELSE edid)
    BY DEF Output!At, Output!m_runEdid, Output!initCEC
  <1>2. /\ pc' \in PlaceType /\ pc'.status = "mode"
    BY <1>1 DEF OutputInv, OutputTypes, PlaceType
  <1>3. ~connected /\ ~Connecting /\ (run => "fimc" \in hurt) /\ (run <=> edid # None)
    BY <1>1 DEF OutputInv, Linked, Connecting
  <1>4. fimc' \in [created : BOOLEAN, for : Shown \cup {None}]
    BY DEF OutputInv, OutputTypes
  <1>5. OutputTypes'
    BY <1>1, <1>2, <1>4 DEF OutputInv, OutputTypes
  <1>6. Linked'
    BY <1>1, <1>2, <1>3, DevicesAssumption DEF OutputInv, OutputTypes, Linked, Connecting
  <1>7. Chosen'
    BY <1>2 DEF Chosen, ModeChosen, SizeChosen
  <1>8. Applied' /\ Encodes'
    BY DEF OutputInv, Applied, Encodes
  <1>9. Converted' /\ Output!WritesElsewhere'
    BY <1>3 DEF OutputInv, Converted, Connecting, Output!WritesElsewhere
  <1> QED BY <1>5, <1>6, <1>7, <1>8, <1>9 DEF OutputInv

LEMMA Connect_Step ==
  ASSUME OutputInv, Output!Connect PROVE OutputInv'
  <1>1. events # <<>> /\ Head(events) = 1 /\ ~cable
    BY DEF Output!Connect
  <1>2. CASE Output!ConnectFails("cable") /\ UNCHANGED <<run, ddc, edid, fimc>>
    BY <1>1, <1>2, ConnectFails_Step
  <1>3. CASE Output!ConnectFails("ddc") /\ UNCHANGED <<run, edid, fimc>>
    BY <1>1, <1>3, ConnectFails_Step
  <1>4. ASSUME NEW kind, Output!ConnectFails(kind), ~run, edid' = None, UNCHANGED <<run, fimc>>
        PROVE  OutputInv'
    BY <1>1, <1>4, ConnectFails_Step
  <1>5. CASE /\ sink # None /\ Output!m_runEdid /\ Output!ConnectFails("fimc")
             /\ UNCHANGED fimc
    BY <1>1, <1>5, ConnectFails_Step
  <1>6. CASE /\ sink # None /\ Output!m_runEdid /\ Output!At("status", "idle", "mode")
             /\ fimc' = (IF fimc.created THEN fimc ELSE [created |-> TRUE, for |-> None])
             /\ src' = None /\ out' = 0
             /\ UNCHANGED <<sink, plugs, events, cable, connected, mode, want, info, tv, started,
                            hurt>>
    BY <1>1, <1>6, ConnectBegins_Step
  <1> QED BY <1>2, <1>3, <1>4, <1>5, <1>6
          DEF Output!Connect, Output!EDIDReset, Output!plugVars

\* The settings of a connect, each under mLock: the EDID stays meanwhile.
LEMMA ConnectMode_Step ==
  ASSUME OutputInv, Output!ConnectMode PROVE OutputInv'
  <1>1. /\ pc.status = "mode" /\ pc' = [pc EXCEPT !.status = "resolution"]
        /\ Output!setHdmiOutputMode(mode)
        /\ UNCHANGED <<sink, events, cable, connected, run, edid, want, src, fimc, out, tv, started,
                       hurt>>
    BY DEF Output!ConnectMode, Output!At, Output!plugVars, Output!linkVars, Output!playVars
  <1>2. pc' \in PlaceType /\ pc'.status = "resolution"
    BY <1>1 DEF OutputInv, OutputTypes, PlaceType
  <1>3. /\ mode' \in Modes /\ info' \in BOOLEAN
        /\ (mode' = "dvi") <=> (edid = None \/ ~Output!CheckHDMIMode(edid))
        /\ ~info' => ~info /\ mode' = mode
    BY <1>1, ChoosesMode DEF OutputInv, OutputTypes
  <1>4. ~cable /\ edid # None
    BY <1>1 DEF OutputInv, Linked, Connecting
  <1>5. OutputTypes'
    BY <1>1, <1>2, <1>3 DEF OutputInv, OutputTypes
  <1>6. Linked'
    BY <1>1, <1>2 DEF OutputInv, Linked, Connecting
  <1>7. Chosen'
    BY <1>1, <1>2, <1>3, <1>4 DEF Chosen, ModeChosen, SizeChosen
  <1>8. Applied' /\ Encodes' /\ Converted' /\ Output!WritesElsewhere'
    BY <1>1, <1>2, <1>3 DEF OutputInv, Applied, Encodes, Converted, Connecting, Output!WritesElsewhere
  <1> QED BY <1>5, <1>6, <1>7, <1>8 DEF OutputInv

LEMMA ConnectResolution_Step ==
  ASSUME OutputInv, Output!ConnectResolution PROVE OutputInv'
  <1>1. /\ pc.status = "resolution" /\ pc' = [pc EXCEPT !.status = "tail"]
        /\ Output!setHdmiResolution(want)
        /\ UNCHANGED <<sink, events, cable, connected, run, edid, mode, src, fimc, out, tv, started,
                       hurt>>
    BY DEF Output!ConnectResolution, Output!At, Output!plugVars, Output!linkVars, Output!playVars
  <1>2. pc' \in PlaceType /\ pc'.status = "tail"
    BY <1>1 DEF OutputInv, OutputTypes, PlaceType
  <1>3. /\ want' \in Resolution /\ info' \in BOOLEAN
        /\ Output!hdmi_check_resolution(want') \/ (want' = want /\ Output!Below(want) = {})
        /\ ~info' => ~info /\ want' = want
    BY <1>1, ChoosesSize DEF OutputInv, OutputTypes
  <1>4. OutputTypes'
    BY <1>1, <1>2, <1>3 DEF OutputInv, OutputTypes
  <1>5. Linked'
    BY <1>1, <1>2 DEF OutputInv, Linked, Connecting
  <1>6. Chosen'
    <2>1. (mode = "dvi") <=> ~Output!CheckHDMIMode(edid)
      BY <1>1 DEF OutputInv, Chosen, ModeChosen
    <2>2. Output!hdmi_check_resolution(want)' \/ Output!Below(want)' = {}
      BY <1>1, <1>3 DEF Output!hdmi_check_resolution, Output!Below
    <2> QED BY <1>1, <2>1, <2>2 DEF Chosen
  <1>7. Applied' /\ Encodes' /\ Converted' /\ Output!WritesElsewhere'
    BY <1>1, <1>2, <1>3 DEF OutputInv, Applied, Encodes, Converted, Connecting, Output!WritesElsewhere
  <1> QED BY <1>4, <1>5, <1>6, <1>7 DEF OutputInv

LEMMA ConnectTail_Step ==
  ASSUME OutputInv, Output!ConnectTail PROVE OutputInv'
  <1>1. /\ pc.status = "tail" /\ pc' = [pc EXCEPT !.status = "index"]
        /\ info' = TRUE /\ connected' = TRUE
        /\ UNCHANGED <<sink, events, cable, run, edid, mode, want, src, fimc, out, tv, started, hurt>>
    BY DEF Output!ConnectTail, Output!At, Output!plugVars, Output!playVars
  <1>2. pc' \in PlaceType /\ pc'.status = "index"
    BY <1>1 DEF OutputInv, OutputTypes, PlaceType
  <1>3. OutputTypes'
    BY <1>1, <1>2 DEF OutputInv, OutputTypes
  <1>4. Linked'
    BY <1>1, <1>2 DEF OutputInv, Linked, Connecting
  <1>5. Chosen'
    BY <1>1, <1>2, SameChoice DEF ModeChosen, SizeChosen
  <1>6. Applied' /\ Encodes' /\ Converted' /\ Output!WritesElsewhere'
    BY <1>1, <1>2 DEF OutputInv, Applied, Encodes, Converted, Connecting, Output!WritesElsewhere
  <1> QED BY <1>3, <1>4, <1>5, <1>6 DEF OutputInv

\* The index starts again: what was shown meanwhile is remembered.
LEMMA ConnectEnds_Step ==
  ASSUME OutputInv, Output!ConnectEnds PROVE OutputInv'
  <1>1. /\ pc.status = "index" /\ pc' = [pc EXCEPT !.status = "show"]
        /\ events' = Tail(events) /\ cable' = TRUE /\ out' = 0
        /\ hurt' = (IF info THEN hurt ELSE hurt \cup {"overtaken"})
        /\ UNCHANGED <<sink, connected, run, edid, mode, want, info, src, fimc, tv, started>>
    BY DEF Output!ConnectEnds, Output!At, Output!EventDone, Output!linkVars
  <1>2. pc' \in PlaceType /\ pc'.status = "show"
    BY <1>1 DEF OutputInv, OutputTypes, PlaceType
  <1>3. events # <<>> /\ Head(events) = 1 /\ run /\ Connecting
    BY <1>1 DEF OutputInv, Linked, Connecting
  <1>4. events' \in Seq({0, 1}) /\ (Pulled(events) => Pulled(events'))
    BY <1>1, <1>3, EventGoes DEF OutputInv, OutputTypes
  <1>5. OutputTypes'
    BY <1>1, <1>2, <1>4 DEF OutputInv, OutputTypes
  <1>6. Linked'
    BY <1>1, <1>2, <1>3, <1>4 DEF OutputInv, Linked, Connecting
  <1>7. Chosen'
    BY <1>1, <1>2, SameChoice DEF ModeChosen, SizeChosen
  <1>8. Applied' /\ Encodes' /\ Converted' /\ Output!WritesElsewhere'
    BY <1>1, <1>2 DEF OutputInv, Applied, Encodes, Converted, Connecting, Output!WritesElsewhere
  <1> QED BY <1>5, <1>6, <1>7, <1>8 DEF OutputInv

LEMMA Disconnect_Step ==
  ASSUME OutputInv, Output!Disconnect PROVE OutputInv'
  <1>1. /\ events # <<>> /\ events' = Tail(events)
        /\ pc.status = "idle" /\ pc' = [pc EXCEPT !.status = "idle"]
        /\ edid' = None /\ run' = FALSE /\ connected' = FALSE /\ cable' = FALSE
        /\ fimc' = [created |-> FALSE, for |-> None]
        /\ UNCHANGED <<sink, mode, want, info, src, out, tv, started, hurt>>
    BY DEF Output!Disconnect, Output!At, Output!EventDone, Output!deinitCEC, Output!EDIDReset
  <1>2. pc' \in PlaceType /\ pc'.status = "idle"
    BY <1>1 DEF OutputInv, OutputTypes, PlaceType
  <1>3. events' \in Seq({0, 1})
    BY <1>1, EventGoes DEF OutputInv, OutputTypes
  <1>4. OutputTypes'
    BY <1>1, <1>2, <1>3 DEF OutputInv, OutputTypes
  <1>5. Linked' /\ Chosen'
    BY <1>1, <1>2 DEF Linked, Connecting, Chosen, ModeChosen, SizeChosen
  <1>6. Applied' /\ Encodes' /\ Converted' /\ Output!WritesElsewhere'
    BY <1>1, <1>2 DEF OutputInv, Applied, Encodes, Converted, Connecting, Output!WritesElsewhere
  <1> QED BY <1>4, <1>5, <1>6 DEF OutputInv

-----------------------------------------------------------------------------
(* Settings and pictures                                                      *)

\* A thread has looked at the flag, or finds that there is nothing to show.
LEMMA Place_Step ==
  ASSUME OutputInv, pc' \in PlaceType,
         pc'.status = pc.status \/ (pc.status = "show" /\ pc'.status = "idle"),
         UNCHANGED <<sink, events, cable, connected, run, edid, mode, want, info, src, fimc, out, tv,
                     started, hurt>>
  PROVE  OutputInv'
  <1>1. OutputTypes'
    BY DEF OutputInv, OutputTypes
  <1>2. Linked'
    BY DEF OutputInv, Linked, Connecting
  <1>3. Chosen'
    BY SameChoice DEF ModeChosen, SizeChosen
  <1>4. Applied' /\ Encodes' /\ Converted' /\ Output!WritesElsewhere'
    BY SamePicture DEF Connecting
  <1> QED BY <1>1, <1>2, <1>3, <1>4 DEF OutputInv

LEMMA SetDone_Step ==
  ASSUME OutputInv, Output!SetDone PROVE OutputInv'
  <1>1. /\ pc.set = "asked" /\ pc' = [pc EXCEPT !.set = "idle"]
        /\ UNCHANGED <<sink, events, cable, connected, run, edid, src, fimc, out, tv, started, hurt>>
    BY DEF Output!SetDone, Output!At, Output!plugVars, Output!linkVars, Output!playVars
  <1>2. pc' \in PlaceType /\ pc'.status = pc.status
    BY <1>1 DEF OutputInv, OutputTypes, PlaceType
  <1>3. ModeChosen => edid # None
    BY DEF OutputInv, Linked, ModeChosen, Connecting
  <1>4. /\ mode' \in Modes /\ want' \in Resolution /\ info' \in BOOLEAN
        /\ ~info' => ~info /\ mode' = mode /\ want' = want
        /\ mode' = mode \/ ((mode' = "dvi") <=> (edid = None \/ ~Output!CheckHDMIMode(edid)))
        /\ want' = want \/ Output!hdmi_check_resolution(want')
    <2>1. ASSUME NEW m \in Modes, Output!setHdmiOutputMode(m), want' = want PROVE <1>4!:
      BY <2>1, ChoosesMode DEF OutputInv, OutputTypes
    <2>2. ASSUME NEW i \in DOMAIN Resolutions, Output!setHdmiResolution(Resolutions[i]), mode' = mode
          PROVE <1>4!:
      <3>1. Resolutions[i] \in Resolution
        BY DEF Resolution
      <3> QED BY <2>2, <3>1, ChoosesSize DEF OutputInv, OutputTypes
    <2>3. CASE UNCHANGED <<mode, want, info>>
      BY <2>3 DEF OutputInv, OutputTypes
    <2> QED BY <2>1, <2>2, <2>3 DEF Output!SetDone, Modes
  <1>5. OutputTypes'
    BY <1>1, <1>2, <1>4 DEF OutputInv, OutputTypes
  <1>6. Linked'
    BY <1>1, <1>2 DEF OutputInv, Linked, Connecting
  <1>7. Chosen'
    <2>1. ModeChosen => ((mode' = "dvi") <=> ~Output!CheckHDMIMode(edid))
      BY <1>3, <1>4 DEF OutputInv, Chosen
    <2>2. SizeChosen => Output!hdmi_check_resolution(want)' \/ Output!Below(want)' = {}
      BY <1>1, <1>4 DEF OutputInv, Chosen, Output!hdmi_check_resolution, Output!Below
    <2> QED BY <1>1, <1>2, <2>1, <2>2 DEF Chosen, ModeChosen, SizeChosen
  <1>8. Applied' /\ Encodes' /\ Converted' /\ Output!WritesElsewhere'
    BY <1>1, <1>2, <1>4 DEF OutputInv, Applied, Encodes, Converted, Connecting, Output!WritesElsewhere
  <1> QED BY <1>5, <1>6, <1>7, <1>8 DEF OutputInv

\* Who shows a picture, the service at the end of a connect or the composer, is done then.
LEMMA Asks ==
  ASSUME OutputTypes, NEW who \in {"status", "blit"}, Output!Asks(who)
  PROVE  /\ pc' \in PlaceType
         /\ pc'.status = pc.status \/ (pc.status = "show" /\ pc'.status = "idle")
  <1>1. pc \in PlaceType
    BY DEF OutputTypes
  <1>2. CASE who = "status"
    BY <1>1, <1>2 DEF Output!Asks, Output!At, PlaceType
  <1>3. CASE who = "blit"
    BY <1>1, <1>3 DEF Output!Asks, Output!At, PlaceType
  <1> QED BY <1>2, <1>3

\* A refused picture stops the encoder.
LEMMA FlushRefused_Step ==
  ASSUME OutputInv, NEW who \in {"status", "blit"}, NEW p \in Shown, Output!FlushRefused(who, p)
  PROVE  OutputInv'
  <1>1. /\ "params" \in hurt' /\ \A k : k \in hurt => k \in hurt'
        /\ \E f \in {fimc.for, p} : fimc' = [fimc EXCEPT !.for = f]
        /\ tv' = (IF started THEN [tv EXCEPT !.stream = FALSE] ELSE tv) /\ started' = FALSE
        /\ UNCHANGED <<sink, events, cable, connected, run, edid, mode, want, info, src, out>>
    BY DEF Output!FlushRefused, Output!Fails, Output!hdmi_streamoff, Output!FlushFrame,
           Output!plugVars, Output!linkVars
  <1>2. /\ pc' \in PlaceType
        /\ pc'.status = pc.status \/ (pc.status = "show" /\ pc'.status = "idle")
    BY Asks DEF Output!FlushRefused, OutputInv
  <1>3. /\ tv' \in EncoderType /\ ~tv'.stream /\ tv'.open = tv.open /\ tv'.std = tv.std
        /\ tv'.mode = tv.mode
    BY <1>1 DEF OutputInv, OutputTypes, EncoderType, Encodes
  <1>4. fimc' \in [created : BOOLEAN, for : Shown \cup {None}]
    BY <1>1 DEF OutputInv, OutputTypes
  <1>5. OutputTypes'
    BY <1>1, <1>2, <1>3, <1>4 DEF OutputInv, OutputTypes
  <1>6. Linked'
    BY <1>1, <1>2 DEF OutputInv, Linked, Connecting
  <1>7. Chosen'
    BY <1>1, <1>2, SameChoice DEF ModeChosen, SizeChosen
  <1>8. Applied' /\ Encodes' /\ Converted' /\ Output!WritesElsewhere'
    BY <1>1, <1>3 DEF OutputInv, Applied, Encodes, Converted, Output!WritesElsewhere
  <1> QED BY <1>5, <1>6, <1>7, <1>8 DEF OutputInv

\* What the encoder has when its device was reset, or was not: m_reset applies the settings
\* and stops it.
LEMMA Flush_Step ==
  ASSUME OutputInv, NEW who \in {"status", "blit"}, NEW p \in Shown, Output!Flush(who, p)
  PROVE  OutputInv'
  <1> DEFINE reset == src # p \/ info
             suits == p = "tiled" \/ fimc.for = p \/ src # p
             image == IF p = "tiled" THEN None ELSE out
  <1>1. PICK ok \in BOOLEAN, ends \in {"shown", "suspended", "oneshot"} :
          /\ ok \/ info
          /\ p = "ui" \/ ends # "suspended"
          /\ p # "tiled" \/ ends # "oneshot"
          /\ ok \/ ends = "shown"
          /\ IF ~ok THEN Output!Fails("open")
             ELSE IF ends = "oneshot" THEN Output!Fails("oneshot") ELSE Output!Well
          /\ IF ends = "shown"
             THEN /\ tv' = Output!hdmi_streamon(
                       Output!hdmi_set_v_param(IF reset THEN Output!m_reset(ok) ELSE tv,
                                               image, suits))
                  /\ started' = TRUE
             ELSE /\ tv' = (IF reset THEN Output!m_reset(ok) ELSE tv)
                  /\ started' = (started /\ ~reset)
          /\ out' = (IF ends = "suspended" THEN out ELSE Output!NextOut(p))
    BY DEF Output!Flush
  <1>2. /\ connected
        /\ fimc' = (IF p = "tiled" \/ src = p THEN fimc ELSE [fimc EXCEPT !.for = p])
        /\ src' = p /\ info' = FALSE
        /\ UNCHANGED <<sink, events, cable, connected, run, edid, mode, want>>
    BY DEF Output!Flush, Output!FlushFrame, Output!plugVars, Output!linkVars
  <1>3. /\ pc' \in PlaceType
        /\ pc'.status = pc.status \/ (pc.status = "show" /\ pc'.status = "idle")
    BY Asks DEF Output!Flush, OutputInv
  <1>4. /\ \A k : k \in hurt => k \in hurt'
        /\ ~ok => "open" \in hurt'
        /\ ok /\ ends = "oneshot" => "oneshot" \in hurt'
    BY <1>1 DEF Output!Fails, Output!Well
  <1> DEFINE d == IF reset THEN Output!m_reset(ok) ELSE tv
  <1>5. /\ d \in EncoderType /\ d.std = want /\ d.mode = mode
        /\ reset => ~d.stream
        /\ ~reset => d = tv /\ ~info /\ src = p
        /\ d.stream => d.open
        /\ ok /\ (tv.open \/ info) => d.open
    <2>1. CASE reset
      <3>1. /\ Output!m_reset(ok) \in EncoderType /\ ~Output!m_reset(ok).stream
            /\ Output!m_reset(ok).std = want /\ Output!m_reset(ok).mode = mode
            /\ ok /\ (tv.open \/ info) => Output!m_reset(ok).open
        BY Resets DEF OutputInv
      <3> QED BY <2>1, <3>1
    <2>2. CASE ~reset
      BY <2>2 DEF OutputInv, OutputTypes, Applied, Encodes
    <2> QED BY <2>1, <2>2
  <1>6. /\ out' \in 0..2
        /\ ends # "suspended" => image # out'
        /\ image \in {None} \cup 0..2
    BY <1>1, DevicesAssumption
       DEF OutputInv, OutputTypes, Output!NextOut, Output!HDMI_FIMC_OUTPUT_BUF_NUM
  <1>7. fimc' \in [created : BOOLEAN, for : Shown \cup {None}]
    BY <1>2 DEF OutputInv, OutputTypes
  <1>8. "params" \notin hurt => suits /\ (p = "tiled" \/ fimc'.for = p)
    BY <1>2, DevicesAssumption DEF OutputInv, OutputTypes, Converted, Shown
  <1>9. Linked'
    BY <1>2, <1>3, <1>4 DEF OutputInv, Linked, Connecting
  <1>10. Chosen'
    BY <1>2, <1>3, SameChoice DEF ModeChosen, SizeChosen
  <1>11. suits \in BOOLEAN
    BY DEF OutputInv, OutputTypes
  <1>12. CASE ends = "shown"
    <2> DEFINE given == IF d.open THEN [[d EXCEPT !.image = image] EXCEPT !.right = suits] ELSE d
    <2>1. tv' = [given EXCEPT !.stream = given.stream \/ given.open] /\ started' = TRUE
      BY <1>1, <1>12 DEF Output!hdmi_streamon, Output!hdmi_set_v_param
    <2> HIDE DEF d, image, suits
    <2>2. /\ given \in EncoderType /\ given.std = want /\ given.mode = mode
          /\ given.stream = d.stream /\ given.open = d.open
          /\ d.open => given.image = image /\ given.right = suits
      BY <1>5, <1>6, <1>11 DEF EncoderType
    <2> HIDE DEF given
    <2>3. /\ tv' \in EncoderType /\ tv'.std = want /\ tv'.mode = mode
          /\ tv'.stream = d.open /\ tv'.open = d.open
          /\ d.open => tv'.image = image /\ tv'.right = suits
      BY <1>5, <2>1, <2>2 DEF EncoderType
    <2>4. OutputTypes'
      BY <1>2, <1>3, <1>6, <1>7, <2>1, <2>3 DEF OutputInv, OutputTypes
    <2>5. Applied' /\ Encodes'
      BY <1>1, <1>2, <1>4, <1>5, <2>1, <2>3 DEF OutputInv, Applied, Encodes
    <2>6. Converted'
      BY <1>2, <1>4, <1>8, <2>3 DEF Converted
    <2>7. Output!WritesElsewhere'
      BY <1>6, <1>12, <2>3 DEF Output!WritesElsewhere
    <2> QED BY <1>9, <1>10, <2>4, <2>5, <2>6, <2>7 DEF OutputInv
  <1>13. CASE ends # "shown"
    <2>1. tv' = d /\ started' = (started /\ ~reset) /\ ok
      BY <1>1, <1>13
    <2>2. OutputTypes'
      BY <1>2, <1>3, <1>5, <1>6, <1>7, <2>1 DEF OutputInv, OutputTypes
    <2> HIDE DEF d, reset
    <2>3. Applied' /\ Encodes'
      BY <1>1, <1>2, <1>4, <1>5, <2>1 DEF OutputInv, Applied, Encodes
    <2>4. Converted'
      BY <1>2, <1>4, <1>5, <1>8, <2>1 DEF OutputInv, Converted
    <2>5. Output!WritesElsewhere'
      <3>1. CASE reset
        BY <1>5, <2>1, <3>1 DEF Output!WritesElsewhere
      <3>2. CASE ends = "oneshot"
        BY <1>4, <2>1, <3>2 DEF Output!WritesElsewhere
      <3>3. CASE ~reset /\ ends = "suspended"
        BY <1>1, <1>2, <1>4, <1>5, <2>1, <3>3 DEF OutputInv, Output!WritesElsewhere
      <3> QED BY <1>13, <3>1, <3>2, <3>3
    <2> QED BY <1>9, <1>10, <2>2, <2>3, <2>4, <2>5 DEF OutputInv
  <1> QED BY <1>12, <1>13

LEMMA StepOutput == OutputInv /\ [Output!Next]_Output!vars => OutputInv'
  <1> SUFFICES ASSUME OutputInv, [Output!Next]_Output!vars PROVE OutputInv'
    OBVIOUS
  <1>1. CASE UNCHANGED Output!vars
    BY <1>1, Place_Step DEF Output!vars, OutputInv, OutputTypes
  <1>2. ASSUME NEW who \in {"set", "blit"}, Output!At(who, "idle", "asked"),
               UNCHANGED <<sink, events, cable, connected, run, edid, mode, want, info, src, fimc,
                           out, tv, started, hurt>>
        PROVE  OutputInv'
    <2>1. pc' \in PlaceType /\ pc'.status = pc.status
      BY <1>2 DEF OutputInv, OutputTypes, Output!At, PlaceType
    <2> QED BY <1>2, <2>1, Place_Step
  <1>3. CASE Output!SetAsked
    BY <1>2, <1>3 DEF Output!SetAsked, Output!plugVars, Output!linkVars, Output!playVars
  <1>4. CASE Output!BlitAsked
    BY <1>2, <1>4 DEF Output!BlitAsked, Output!plugVars, Output!linkVars, Output!playVars
  <1>5. ASSUME NEW who \in {"status", "blit"}, NEW p \in Shown, Output!Show(who, p)
        PROVE  OutputInv'
    <2>1. CASE Output!FlushNothing(who)
      <3>1. /\ pc' \in PlaceType
            /\ pc'.status = pc.status \/ (pc.status = "show" /\ pc'.status = "idle")
        BY <2>1, Asks DEF Output!FlushNothing, OutputInv
      <3>2. UNCHANGED <<sink, events, cable, connected, run, edid, mode, want, info, src, fimc, out,
                        tv, started, hurt>>
        BY <2>1 DEF Output!FlushNothing, Output!FlushFrame, Output!plugVars, Output!linkVars,
                    Output!playVars
      <3> QED BY <3>1, <3>2, Place_Step
    <2> QED BY <1>5, <2>1, FlushRefused_Step, Flush_Step DEF Output!Show
  <1>6. ASSUME Output!Next PROVE OutputInv'
    <2>1. \A p \in Pictures : p \in Shown
      BY DEF Shown
    <2>2. "ui" \in Shown
      BY DEF Shown
    <2> QED BY <1>3, <1>4, <1>5, <1>6, <2>1, <2>2, OutputPlug_Step, StatusSame_Step, Connect_Step,
               ConnectMode_Step, ConnectResolution_Step, ConnectTail_Step, ConnectEnds_Step,
               Disconnect_Step, SetDone_Step
            DEF Output!Next
  <1> QED BY <1>1, <1>6

-----------------------------------------------------------------------------
\* For any sinks, resolutions, pictures, changes of the cable and failures: once its settings
\* are applied the encoder plays for the sink that is there, in a mode and a resolution that
\* sink shows, what was converted for it (connect, setHdmiOutputMode, setHdmiResolution,
\* flush), but for what the failures named in the property leave.
THEOREM PlaysForTheSink == Output!Spec => []PlaysForThisSink
  <1>1. OutputInv => PlaysForThisSink
    <2> SUFFICES ASSUME OutputInv, connected, ~info, events = <<>>
                 PROVE  /\ "fimc" \notin hurt => edid = sink
                        /\ edid # None => /\ \/ Output!hdmi_check_resolution(want)
                                             \/ Output!Below(want) = {}
                                          /\ (mode = "dvi") = ~Output!CheckHDMIMode(edid)
                        /\ tv.std = want /\ tv.mode = mode
                        /\ "open" \notin hurt /\ started => tv.open /\ tv.stream
                        /\ tv.stream /\ "params" \notin hurt => tv.right
      BY DEF PlaysForThisSink, Output!PlaysForThisSink
    <2>1. cable /\ ~Pulled(events)
      BY DEF OutputInv, Linked, Connecting, Pulled
    <2>2. "fimc" \notin hurt => edid = sink
      BY <2>1 DEF OutputInv, Linked
    <2>3. Output!CheckHDMIMode(edid) \in BOOLEAN
      BY DEF Output!CheckHDMIMode
    <2>4. /\ Output!hdmi_check_resolution(want) \/ Output!Below(want) = {}
          /\ (mode = "dvi") = ~Output!CheckHDMIMode(edid)
      BY <2>1, <2>3 DEF OutputInv, Chosen, ModeChosen, SizeChosen
    <2>5. tv.std = want /\ tv.mode = mode
      BY DEF OutputInv, Applied
    <2>6. /\ "open" \notin hurt /\ started => tv.open /\ tv.stream
          /\ tv.stream /\ "params" \notin hurt => tv.right
      BY DEF OutputInv, Encodes, Converted
    <2> QED BY <2>2, <2>4, <2>5, <2>6
  <1> QED BY <1>1, InitOutput, StepOutput, PTL DEF Output!Spec

\* For the same: the FIMC writes into another buffer than the one the encoder reads, as long as
\* no conversion failed and no connect overtook a picture (flush, connect).
THEOREM WritesToAnother == Output!Spec => []WritesElsewhere
  <1>1. OutputInv => WritesElsewhere
    BY DEF OutputInv, WritesElsewhere
  <1> QED BY <1>1, InitOutput, StepOutput, PTL DEF Output!Spec

-----------------------------------------------------------------------------
(* The converter                                                              *)

PictureType == [width : Nat, height : Nat, x : Nat, y : Nat, cropWidth : Nat, cropHeight : Nat,
                format : STRING]
Angles == {0, 90, 180, 270}
Inside(q) ==
  q \in PictureType /\ q.x + q.cropWidth <= q.width /\ q.y + q.cropHeight <= q.height

IsDevice(d) ==
  d = [open |-> d.open, src |-> d.src, dst |-> d.dst, rot |-> d.rot, flag |-> d.flag,
       colour |-> d.colour, address |-> d.address, buffers |-> d.buffers, stream |-> d.stream]
IsAsked(a) == a = [src |-> a.src, dst |-> a.dst, key |-> a.key, formats |-> a.formats]
IsWindow(w) ==
  w = [fullWidth |-> w.fullWidth, fullHeight |-> w.fullHeight, x |-> w.x, y |-> w.y,
       width |-> w.width, height |-> w.height, format |-> w.format]
\* The same part of the same frame, the format apart.
SamePart(v, w) ==
  /\ v.x = w.x /\ v.y = w.y /\ v.width = w.width /\ v.height = w.height
  /\ v.fullWidth = w.fullWidth /\ v.fullHeight = w.fullHeight
ConverterTypes ==
  /\ made \in BOOLEAN /\ on \in BOOLEAN /\ rot \in Angles
  /\ set \in [src : BOOLEAN, dst : BOOLEAN]
  /\ IsDevice(dev) /\ IsAsked(asked) /\ IsWindow(dst)
  /\ asked.src # None => asked.src \in PictureType

\* What mS5pFimc remembers is what the device was told and what was granted, of the source,
\* the destination and the key, until an ioctl about it fails.
SourceKept ==
  made /\ set.src /\ "src" \notin hurt =>
    /\ source \in PictureType /\ dev.src = Fimc!Cropped(source) /\ asked.src = source
    /\ dev.buffers = 1
TargetKept ==
  made /\ set.dst /\ "dst" \notin hurt =>
    /\ Inside(asked.dst.request) /\ asked.dst.rot \in Angles
    /\ SamePart(dst, Fimc!Window(asked.dst.request, asked.dst.rot)) /\ SamePart(dev.dst, dst)
    /\ {dst.format, dev.dst.format} \subseteq asked.formats
    /\ dev.rot = rot /\ dev.address = address
KeyKept ==
  made /\ "key" \notin hurt =>
    /\ asked.key = key /\ (dev.flag <=> key # None)
    /\ dev.flag => dev.colour \in {key, None}
StreamKept == made => dev.open /\ (dev.stream => on \/ "oneshot" \in hurt)

ConverterInv == ConverterTypes /\ SourceKept /\ TargetKept /\ KeyKept /\ StreamKept

\* Rounding makes a crop smaller.
LEMMA Rounded ==
  ASSUME NEW q \in Targets, NEW r \in Angles PROVE Inside(Fimc!checkFimcDstSize(q, r))
  <1>1. Inside(q)
    BY DevicesAssumption DEF Inside, PictureType
  <1>2. \A n \in Nat : Fimc!multipleOf(2, n) \in Nat /\ Fimc!multipleOf(2, n) <= n
    BY DEF Fimc!multipleOf
  <1>3. Inside([q EXCEPT !.cropWidth = Fimc!multipleOf(2, q.cropWidth)])
    BY <1>1, <1>2 DEF Inside, PictureType
  <1>4. Inside([q EXCEPT !.cropHeight = Fimc!multipleOf(2, q.cropHeight)])
    BY <1>1, <1>2 DEF Inside, PictureType
  <1> QED BY <1>1, <1>3, <1>4 DEF Fimc!checkFimcDstSize

\* The corners of the window are those of the part asked for, each turned.
LEMMA WindowIsTurned ==
  ASSUME NEW q, Inside(q), NEW r \in Angles
  PROVE  LET w == Fimc!Window(q, r) IN
         /\ Fimc!Corners(w.x, w.y, w.width, w.height)
              = {Fimc!Turned(p, q, r) : p \in Fimc!Corners(q.x, q.y, q.cropWidth, q.cropHeight)}
         /\ w.x + w.width <= w.fullWidth /\ w.y + w.height <= w.fullHeight
  <1> DEFINE w == Fimc!Window(q, r)
             turn(p) == Fimc!Turned(p, q, r)
             right == q.x + q.cropWidth - 1
             low == q.y + q.cropHeight - 1
             wright == w.x + w.width - 1
             wlow == w.y + w.height - 1
  <1>1. /\ q.x \in Nat /\ q.y \in Nat /\ q.width \in Nat /\ q.height \in Nat
        /\ q.cropWidth \in Nat /\ q.cropHeight \in Nat
        /\ q.x + q.cropWidth <= q.width /\ q.y + q.cropHeight <= q.height
    BY DEF Inside, PictureType
  <1>2. Fimc!Corners(q.x, q.y, q.cropWidth, q.cropHeight)
          = {<<q.x, q.y>>, <<right, q.y>>, <<q.x, low>>, <<right, low>>}
    BY DEF Fimc!Corners
  <1>3. Fimc!Corners(w.x, w.y, w.width, w.height)
          = {<<w.x, w.y>>, <<wright, w.y>>, <<w.x, wlow>>, <<wright, wlow>>}
    BY DEF Fimc!Corners
  <1>4. {turn(p) : p \in {<<q.x, q.y>>, <<right, q.y>>, <<q.x, low>>, <<right, low>>}}
          = {turn(<<q.x, q.y>>), turn(<<right, q.y>>), turn(<<q.x, low>>), turn(<<right, low>>)}
    <2> HIDE DEF turn, right, low
    <2> QED OBVIOUS
  <1>5. CASE r = 0
    <2>1. w.x = q.x /\ w.y = q.y /\ wright = right /\ wlow = low
      BY <1>5 DEF Fimc!Window, Fimc!Sideways
    <2>2. \A p : turn(p) = p
      BY <1>5 DEF Fimc!Turned
    <2>3. w.x + w.width <= w.fullWidth /\ w.y + w.height <= w.fullHeight
      BY <1>1, <1>5 DEF Fimc!Window, Fimc!Sideways
    <2> HIDE DEF turn, right, low, wright, wlow, w
    <2>4. {turn(<<q.x, q.y>>), turn(<<right, q.y>>), turn(<<q.x, low>>), turn(<<right, low>>)}
            = {<<w.x, w.y>>, <<wright, w.y>>, <<w.x, wlow>>, <<wright, wlow>>}
      BY <2>1, <2>2
    <2> QED BY <1>2, <1>3, <1>4, <2>3, <2>4 DEF w, turn
  <1>6. CASE r = 90
    <2>1. /\ w.x = q.y /\ wright = low
          /\ w.y = q.width - 1 - right /\ wlow = q.width - 1 - q.x
      <3>1. /\ w.x = q.y /\ w.y = q.width - (q.x + q.cropWidth)
            /\ w.width = q.cropHeight /\ w.height = q.cropWidth
        BY <1>6 DEF Fimc!Window, Fimc!Sideways
      <3> HIDE DEF w
      <3>2. w.x = q.y /\ wright = low
        BY <1>1, <3>1
      <3>3. w.y = q.width - 1 - right
        BY <1>1, <3>1
      <3>4. wlow = q.width - 1 - q.x
        <4>1. \A a, b, c \in Nat : (a - (b + c)) + c - 1 = a - 1 - b
          OBVIOUS
        <4>2. wlow = (q.width - (q.x + q.cropWidth)) + q.cropWidth - 1
          BY <3>1
        <4> QED BY <1>1, <4>1, <4>2
      <3> QED BY <3>2, <3>3, <3>4
    <2>2. \A a, b : turn(<<a, b>>) = <<b, q.width - 1 - a>>
      BY <1>6 DEF Fimc!Turned
    <2>3. w.x + w.width <= w.fullWidth /\ w.y + w.height <= w.fullHeight
      BY <1>1, <1>6 DEF Fimc!Window, Fimc!Sideways
    <2> HIDE DEF turn, right, low, wright, wlow, w
    <2>4. {turn(<<q.x, q.y>>), turn(<<right, q.y>>), turn(<<q.x, low>>), turn(<<right, low>>)}
            = {<<w.x, w.y>>, <<wright, w.y>>, <<w.x, wlow>>, <<wright, wlow>>}
      BY <2>1, <2>2
    <2> QED BY <1>2, <1>3, <1>4, <2>3, <2>4 DEF w, turn
  <1>7. CASE r = 180
    <2>1. /\ w.x = q.width - 1 - right /\ wright = q.width - 1 - q.x
          /\ w.y = q.height - 1 - low /\ wlow = q.height - 1 - q.y
      BY <1>1, <1>7 DEF Fimc!Window, Fimc!Sideways
    <2>2. \A a, b : turn(<<a, b>>) = <<q.width - 1 - a, q.height - 1 - b>>
      BY <1>7 DEF Fimc!Turned
    <2>3. w.x + w.width <= w.fullWidth /\ w.y + w.height <= w.fullHeight
      BY <1>1, <1>7 DEF Fimc!Window, Fimc!Sideways
    <2> HIDE DEF turn, right, low, wright, wlow, w
    <2>4. {turn(<<q.x, q.y>>), turn(<<right, q.y>>), turn(<<q.x, low>>), turn(<<right, low>>)}
            = {<<w.x, w.y>>, <<wright, w.y>>, <<w.x, wlow>>, <<wright, wlow>>}
      BY <2>1, <2>2
    <2> QED BY <1>2, <1>3, <1>4, <2>3, <2>4 DEF w, turn
  <1>8. CASE r = 270
    <2>1. /\ w.x = q.height - 1 - low /\ wright = q.height - 1 - q.y
          /\ w.y = q.x /\ wlow = right
      <3>1. /\ w.x = q.height - (q.y + q.cropHeight) /\ w.y = q.x
            /\ w.width = q.cropHeight /\ w.height = q.cropWidth
        BY <1>8 DEF Fimc!Window, Fimc!Sideways
      <3> HIDE DEF w
      <3> QED BY <1>1, <3>1
    <2>2. \A a, b : turn(<<a, b>>) = <<q.height - 1 - b, a>>
      BY <1>8 DEF Fimc!Turned
    <2>3. w.x + w.width <= w.fullWidth /\ w.y + w.height <= w.fullHeight
      BY <1>1, <1>8 DEF Fimc!Window, Fimc!Sideways
    <2> HIDE DEF turn, right, low, wright, wlow, w
    <2>4. {turn(<<q.x, q.y>>), turn(<<right, q.y>>), turn(<<q.x, low>>), turn(<<right, low>>)}
            = {<<w.x, w.y>>, <<wright, w.y>>, <<w.x, wlow>>, <<wright, wlow>>}
      BY <2>1, <2>2
    <2> QED BY <1>2, <1>3, <1>4, <2>3, <2>4 DEF w, turn
  <1> QED BY <1>5, <1>6, <1>7, <1>8 DEF Angles

\* Rounding leaves a source a picture.
LEMMA RoundedSource ==
  ASSUME NEW q \in Sources PROVE Fimc!checkFimcSrcSize(q) \in PictureType
  <1>1. q \in PictureType
    BY DevicesAssumption DEF PictureType
  <1> DEFINE w == Fimc!AtLeast(16, q.width, q.cropWidth)
             h == Fimc!AtLeast(8, q.height, q.cropHeight)
  <1>2. w \in Nat /\ h \in Nat
    BY <1>1 DEF Fimc!AtLeast, PictureType
  <1>3. \A n \in Nat : Fimc!multipleOf(2, n) \in Nat /\ Fimc!multipleOf(16, n) \in Nat
    BY DEF Fimc!multipleOf
  <1> HIDE DEF w, h
  <1>4. \A a, b \in Nat : [q EXCEPT !.cropWidth = a, !.cropHeight = b] \in PictureType
    BY <1>1 DEF PictureType
  <1>5. Fimc!checkFimcSrcSize(q) \in
          {[q EXCEPT !.cropWidth = Fimc!multipleOf(2, w), !.cropHeight = Fimc!multipleOf(2, h)],
           [q EXCEPT !.cropWidth = Fimc!multipleOf(16, w), !.cropHeight = h],
           [q EXCEPT !.cropWidth = w, !.cropHeight = h]}
    BY DEF Fimc!checkFimcSrcSize, w, h
  <1>6. /\ [q EXCEPT !.cropWidth = Fimc!multipleOf(2, w), !.cropHeight = Fimc!multipleOf(2, h)]
             \in PictureType
        /\ [q EXCEPT !.cropWidth = Fimc!multipleOf(16, w), !.cropHeight = h] \in PictureType
        /\ [q EXCEPT !.cropWidth = w, !.cropHeight = h] \in PictureType
    BY <1>2, <1>3, <1>4
  <1> QED BY <1>5, <1>6

LEMMA InitConverter == Fimc!Init => ConverterInv
  <1> SUFFICES ASSUME Fimc!Init PROVE ConverterInv
    OBVIOUS
  <1>1. ConverterTypes
    BY DEF Fimc!Init, Fimc!Closed, Fimc!Device, Fimc!Nothing, Fimc!NoWindow, ConverterTypes, IsDevice, IsAsked,
           IsWindow, Angles
  <1>2. SourceKept /\ TargetKept /\ KeyKept /\ StreamKept
    BY DEF Fimc!Init, SourceKept, TargetKept, KeyKept, StreamKept
  <1> QED BY <1>1, <1>2 DEF ConverterInv

\* The parts that a step leaves alone stay right.
Hurts == \A k : k \in hurt => k \in hurt'
LEMMA SameSource ==
  ASSUME SourceKept, Hurts, UNCHANGED <<made, source>>, set'.src = set.src,
         dev'.src = dev.src, dev'.buffers = dev.buffers, asked'.src = asked.src
  PROVE  SourceKept'
  BY DEF SourceKept, Hurts, Fimc!Cropped
LEMMA SameTarget ==
  ASSUME TargetKept, Hurts, UNCHANGED <<made, dst, rot, address>>, set'.dst = set.dst,
         dev'.dst = dev.dst, dev'.rot = dev.rot, dev'.address = dev.address,
         asked'.dst = asked.dst, asked'.formats = asked.formats
  PROVE  TargetKept'
  BY DEF TargetKept, Hurts
LEMMA SameKey ==
  ASSUME KeyKept, Hurts, UNCHANGED <<made, key>>, dev'.flag = dev.flag,
         dev'.colour \in {dev.colour, None}, asked'.key = asked.key
  PROVE  KeyKept'
  BY DEF KeyKept, Hurts
LEMMA SameStream ==
  ASSUME StreamKept, Hurts, UNCHANGED <<made, on>>, dev'.stream = dev.stream, dev'.open = dev.open
  PROVE  StreamKept'
  BY DEF StreamKept, Hurts

LEMMA Create_Step ==
  ASSUME ConverterInv, Fimc!create PROVE ConverterInv'
  <1>1. /\ ~made /\ set' = [src |-> FALSE, dst |-> FALSE] /\ rot' = 0 /\ key' = None /\ on' = FALSE
        /\ asked' = Fimc!Nothing /\ dst' = Fimc!NoWindow
        /\ \/ made' = TRUE /\ dev' = Fimc!Opened
           \/ made' = made /\ dev' \in {Fimc!Closed, Fimc!Opened}
    BY DEF Fimc!create
  <1>2. /\ IsDevice(Fimc!Opened) /\ IsDevice(Fimc!Closed) /\ Fimc!Opened.open = TRUE
        /\ Fimc!Opened.flag = FALSE /\ Fimc!Opened.stream = FALSE
    BY DEF IsDevice, Fimc!Device, Fimc!Closed, Fimc!Opened
  <1>3. IsAsked(asked') /\ asked'.src = None /\ asked'.key = None
    BY <1>1 DEF IsAsked, Fimc!Nothing
  <1>4. IsWindow(dst')
    BY <1>1 DEF IsWindow, Fimc!NoWindow
  <1>5. ConverterTypes'
    BY <1>1, <1>2, <1>3, <1>4 DEF ConverterInv, ConverterTypes, Angles
  <1>6. SourceKept' /\ TargetKept' /\ KeyKept' /\ StreamKept'
    BY <1>1, <1>2, <1>3 DEF SourceKept, TargetKept, KeyKept, StreamKept
  <1> QED BY <1>5, <1>6 DEF ConverterInv

LEMMA Destroy_Step ==
  ASSUME ConverterInv, Fimc!destroy PROVE ConverterInv'
  <1>1. /\ made' = FALSE /\ dev' = Fimc!Closed /\ UNCHANGED <<dst, set, rot, on, asked>>
    BY DEF Fimc!destroy
  <1>2. IsDevice(dev')
    BY <1>1 DEF IsDevice, Fimc!Device, Fimc!Closed
  <1>3. ConverterTypes'
    BY <1>1, <1>2 DEF ConverterInv, ConverterTypes
  <1>4. SourceKept' /\ TargetKept' /\ KeyKept' /\ StreamKept'
    BY <1>1 DEF SourceKept, TargetKept, KeyKept, StreamKept
  <1> QED BY <1>3, <1>4 DEF ConverterInv

\* What is asked of the source and was remembered is in the device, unless it refused it.
LEMMA SetSource_Step ==
  ASSUME ConverterInv, NEW q \in Sources, NEW force \in BOOLEAN, Fimc!setSrcParams(q, force)
  PROVE  ConverterInv'
  <1> DEFINE s == Fimc!checkFimcSrcSize(q)
             c == Fimc!Cropped(s)
             granted == asked' = [asked EXCEPT !["src"] = s] /\ hurt' = hurt
             aside(d) == /\ IsDevice(d) /\ d.dst = dev.dst /\ d.rot = dev.rot /\ d.flag = dev.flag
                         /\ d.colour = dev.colour /\ d.address = dev.address
                         /\ d.stream = dev.stream /\ d.open = dev.open
  <1>1. UNCHANGED <<made, dst, rot, key, on, address>> /\ s \in PictureType
    BY RoundedSource DEF Fimc!setSrcParams
  <1>2. IsDevice(dev)
    BY DEF ConverterInv, ConverterTypes
  <1>3. \A d : aside(d) => aside([d EXCEPT !.src = c]) /\ aside([d EXCEPT !.buffers = 1])
    BY DEF IsDevice
  <1>4. aside(dev) /\ aside(Fimc!fimc_v4l2_clr_buf(dev))
    BY <1>2 DEF IsDevice, Fimc!fimc_v4l2_clr_buf
  <1>5. \A d : aside(d) => aside(Fimc!Uncropped(d, s))
    BY DEF IsDevice, Fimc!Uncropped
  <1>6. \/ source = s /\ granted /\ UNCHANGED <<source, set, dev>>
        \/ /\ source' = s
           /\ \E d \in {dev, Fimc!fimc_v4l2_clr_buf(dev)} :
                \/ /\ dev' = [[d EXCEPT !.src = c] EXCEPT !.buffers = 1]
                   /\ set' = [set EXCEPT !.src = TRUE] /\ granted
                \/ /\ "src" \in hurt' /\ Hurts /\ UNCHANGED <<set, asked>>
                   /\ dev' \in {d, Fimc!Uncropped(d, s), [d EXCEPT !.src = c]}
    <2>1. \/ source = s /\ granted /\ UNCHANGED <<source, set, dev>>
          \/ /\ source' = s
             /\ \E d \in {dev} \cup (IF set.src THEN {Fimc!fimc_v4l2_clr_buf(dev)} ELSE {}) :
                  \/ /\ dev' = [[d EXCEPT !.src = c] EXCEPT !.buffers = 1]
                     /\ set' = [set EXCEPT !.src = TRUE] /\ granted
                  \/ /\ Fimc!Fails("src") /\ UNCHANGED <<set, asked>>
                     /\ dev' \in {d, Fimc!Uncropped(d, s), [d EXCEPT !.src = c]}
      BY DEF Fimc!setSrcParams, Fimc!Same, Fimc!Asked, Fimc!Well,
             Fimc!fimc_v4l2_set_src, Fimc!fimc_v4l2_req_buf
    <2>2. Fimc!Fails("src") => "src" \in hurt' /\ Hurts
      BY DEF Fimc!Fails, Hurts
    <2> HIDE DEF s, c, granted
    <2> QED BY <2>1, <2>2
  <1>7. ASSUME granted
        PROVE  /\ IsAsked(asked') /\ asked'.src = s /\ asked'.dst = asked.dst
               /\ asked'.key = asked.key /\ asked'.formats = asked.formats
    BY <1>7 DEF ConverterInv, ConverterTypes, IsAsked
  <1> HIDE DEF s, c, granted, aside
  <1>8. CASE source = s /\ granted /\ UNCHANGED <<source, set, dev>>
    <2>1. hurt' = hurt
      BY <1>8 DEF granted
    <2>2. ConverterTypes'
      BY <1>1, <1>7, <1>8 DEF ConverterInv, ConverterTypes
    <2>3. SourceKept'
      BY <1>1, <1>7, <1>8, <2>1 DEF ConverterInv, SourceKept, Fimc!Cropped
    <2>4. TargetKept' /\ KeyKept' /\ StreamKept'
      BY <1>1, <1>7, <1>8, <2>1, SameTarget, SameKey, SameStream DEF ConverterInv, Hurts
    <2> QED BY <2>2, <2>3, <2>4 DEF ConverterInv
  <1>9. ASSUME NEW d \in {dev, Fimc!fimc_v4l2_clr_buf(dev)}, aside(d), source' = s,
               dev' = [[d EXCEPT !.src = c] EXCEPT !.buffers = 1],
               set' = [set EXCEPT !.src = TRUE], granted
        PROVE  ConverterInv'
    <2>1. hurt' = hurt
      BY <1>9 DEF granted
    <2>2. aside(dev')
      BY <1>3, <1>9
    <2>3. dev'.src = c /\ dev'.buffers = 1
      BY <1>9 DEF aside, IsDevice
    <2>4. set' \in [src : BOOLEAN, dst : BOOLEAN] /\ set'.dst = set.dst
      BY <1>9 DEF ConverterInv, ConverterTypes
    <2>5. ConverterTypes'
      BY <1>1, <1>7, <1>9, <2>2, <2>4 DEF ConverterInv, ConverterTypes, aside
    <2>6. c = Fimc!Cropped(source)'
      BY <1>9 DEF c, Fimc!Cropped
    <2>7. SourceKept'
      BY <1>1, <1>7, <1>9, <2>3, <2>6 DEF SourceKept
    <2>8. TargetKept' /\ KeyKept' /\ StreamKept'
      BY <1>1, <1>7, <1>9, <2>1, <2>2, <2>4, SameTarget, SameKey, SameStream
         DEF ConverterInv, Hurts, aside
    <2> QED BY <2>5, <2>7, <2>8 DEF ConverterInv
  <1>10. ASSUME NEW d \in {dev, Fimc!fimc_v4l2_clr_buf(dev)}, aside(d), source' = s,
                "src" \in hurt', Hurts, UNCHANGED <<set, asked>>,
                dev' \in {d, Fimc!Uncropped(d, s), [d EXCEPT !.src = c]}
         PROVE  ConverterInv'
    <2>1. aside(dev')
      BY <1>3, <1>5, <1>10
    <2>2. ConverterTypes'
      BY <1>1, <1>10, <2>1 DEF ConverterInv, ConverterTypes, aside
    <2>3. SourceKept'
      BY <1>10 DEF SourceKept
    <2>4. TargetKept' /\ KeyKept' /\ StreamKept'
      BY <1>1, <1>10, <2>1, SameTarget, SameKey, SameStream DEF ConverterInv, aside
    <2> QED BY <2>2, <2>3, <2>4 DEF ConverterInv
  <1>11. ASSUME NEW d \in {dev, Fimc!fimc_v4l2_clr_buf(dev)} PROVE aside(d)
    BY <1>4
  <1> HIDE DEF ConverterInv
  <1> QED BY <1>6, <1>8, <1>9, <1>10, <1>11

\* What sending a destination may do to the device, whether or not all of it succeeds.
TargetSent(d) ==
  /\ IsDevice(d) /\ d.src = dev.src /\ d.buffers = dev.buffers /\ d.flag = dev.flag
  /\ d.colour \in {dev.colour, None} /\ d.stream = dev.stream /\ d.open = dev.open
LEMMA SendsTarget ==
  ASSUME IsDevice(dev), NEW w, NEW a
  PROVE  /\ TargetSent(Fimc!fimc_v4l2_set_dst(dev, w, a))
         /\ Fimc!fimc_v4l2_set_dst(dev, w, a).dst = w
         /\ Fimc!fimc_v4l2_set_dst(dev, w, a).rot = rot
         /\ Fimc!fimc_v4l2_set_dst(dev, w, a).address = a
         /\ \A d \in Fimc!SetPartly(dev, w, a) : TargetSent(d)
  <1>1. ASSUME NEW d, TargetSent(d), NEW v
        PROVE  /\ TargetSent([d EXCEPT !.rot = v]) /\ TargetSent([d EXCEPT !.dst = v])
               /\ TargetSent([d EXCEPT !.address = v]) /\ TargetSent([d EXCEPT !.colour = None])
    BY <1>1 DEF IsDevice, TargetSent
  <1>2. TargetSent(dev)
    BY DEF IsDevice, TargetSent
  <1>3. TargetSent([dev EXCEPT !.rot = rot])
    BY <1>1, <1>2
  <1>4. ASSUME NEW v PROVE TargetSent([dev EXCEPT !.rot = rot, !.address = a, !.dst = v])
    <2>1. TargetSent([[dev EXCEPT !.rot = rot] EXCEPT !.address = a])
      BY <1>1, <1>3
    <2>2. TargetSent([[[dev EXCEPT !.rot = rot] EXCEPT !.address = a] EXCEPT !.dst = v])
      BY <1>1, <2>1
    <2> QED BY <2>2
  <1>5. TargetSent(Fimc!fimc_v4l2_set_dst(dev, w, a))
    <2>1. TargetSent([[dev EXCEPT !.rot = rot] EXCEPT !.dst = w])
      BY <1>1, <1>3
    <2>2. TargetSent([[[dev EXCEPT !.rot = rot] EXCEPT !.dst = w] EXCEPT !.address = a])
      BY <1>1, <2>1
    <2>3. TargetSent([[[[dev EXCEPT !.rot = rot] EXCEPT !.dst = w] EXCEPT !.address = a]
                        EXCEPT !.colour = None])
      BY <1>1, <2>2
    <2> QED BY <2>3 DEF Fimc!fimc_v4l2_set_dst
  <1>6. LET d == Fimc!fimc_v4l2_set_dst(dev, w, a) IN d.dst = w /\ d.rot = rot /\ d.address = a
    BY DEF IsDevice, Fimc!fimc_v4l2_set_dst
  <1>7. ASSUME NEW d \in Fimc!SetPartly(dev, w, a) PROVE TargetSent(d)
    <2>1. PICK v : d \in {dev, [dev EXCEPT !.rot = rot],
                          [dev EXCEPT !.rot = rot, !.address = a, !.dst = v]}
      BY DEF Fimc!SetPartly
    <2> QED BY <1>2, <1>3, <1>4, <2>1
  <1> QED BY <1>5, <1>6, <1>7

LEMMA SetTarget_Step ==
  ASSUME ConverterInv, NEW q \in Targets, NEW force \in BOOLEAN, Fimc!setDstParams(q, force)
  PROVE  ConverterInv'
  <1> DEFINE s == Fimc!checkFimcDstSize(q, rot)
             w == Fimc!Window(s, rot)
             told == [request |-> s, rot |-> rot]
  <1>1. /\ dst' = w /\ UNCHANGED <<made, source, rot, key, on, address>>
        /\ \/ /\ dev' = Fimc!fimc_v4l2_set_dst(dev, w, address)
              /\ set' = [set EXCEPT !.dst = TRUE]
              /\ asked' = [asked EXCEPT !.dst = told, !.formats = {q.format}] /\ hurt' = hurt
           \/ /\ "dst" \in hurt' /\ Hurts /\ dev' \in Fimc!SetPartly(dev, w, address)
              /\ UNCHANGED <<set, asked>>
    BY DEF Fimc!setDstParams, Fimc!Well, Fimc!Fails, Hurts
  <1>2. Inside(s) /\ rot \in Angles
    BY Rounded DEF ConverterInv, ConverterTypes
  <1>3. told.request = s /\ told.rot = rot
    OBVIOUS
  <1>4. w = Fimc!Window(told.request, told.rot)
    OBVIOUS
  <1>5. IsWindow(w) /\ w.format = q.format
    <2>1. s.format = q.format
      <3>1. q \in PictureType
        BY DevicesAssumption DEF PictureType
      <3>2. \A n : /\ [q EXCEPT !.cropWidth = n].format = q.format
                   /\ [q EXCEPT !.cropHeight = n].format = q.format
        BY <3>1 DEF PictureType
      <3> QED BY <3>2 DEF Fimc!checkFimcDstSize
    <2> HIDE DEF s
    <2> QED BY <2>1 DEF IsWindow, Fimc!Window
  <1>6. TargetSent(dev')
    BY <1>1, SendsTarget DEF ConverterInv, ConverterTypes
  <1> HIDE DEF s, w, told
  <1>7. CASE /\ dev' = Fimc!fimc_v4l2_set_dst(dev, w, address)
             /\ set' = [set EXCEPT !.dst = TRUE]
             /\ asked' = [asked EXCEPT !.dst = told, !.formats = {q.format}] /\ hurt' = hurt
    <2>1. /\ IsAsked(asked') /\ asked'.src = asked.src /\ asked'.dst = told
          /\ asked'.key = asked.key /\ asked'.formats = {q.format}
      BY <1>7 DEF ConverterInv, ConverterTypes, IsAsked
    <2>2. dev'.dst = w /\ dev'.rot = rot /\ dev'.address = address
      BY <1>7, SendsTarget DEF ConverterInv, ConverterTypes
    <2>3. set' \in [src : BOOLEAN, dst : BOOLEAN] /\ set'.src = set.src
      BY <1>7 DEF ConverterInv, ConverterTypes
    <2>4. ConverterTypes'
      BY <1>1, <1>5, <1>6, <2>1, <2>3 DEF ConverterInv, ConverterTypes, TargetSent
    <2>5. TargetKept'
      BY <1>1, <1>2, <1>3, <1>4, <1>5, <2>1, <2>2 DEF TargetKept, SamePart
    <2>6. SourceKept' /\ KeyKept' /\ StreamKept'
      BY <1>1, <1>6, <1>7, <2>1, <2>3, SameSource, SameKey, SameStream
         DEF ConverterInv, Hurts, TargetSent
    <2> QED BY <2>4, <2>5, <2>6 DEF ConverterInv
  <1>8. CASE "dst" \in hurt' /\ Hurts /\ UNCHANGED <<set, asked>>
    <2>1. ConverterTypes'
      BY <1>1, <1>5, <1>6, <1>8 DEF ConverterInv, ConverterTypes, TargetSent
    <2>2. TargetKept'
      BY <1>8 DEF TargetKept
    <2>3. SourceKept' /\ KeyKept' /\ StreamKept'
      BY <1>1, <1>6, <1>8, SameSource, SameKey, SameStream DEF ConverterInv, TargetSent
    <2> QED BY <2>1, <2>2, <2>3 DEF ConverterInv
  <1> QED BY <1>1, <1>7, <1>8

\* A refused destination leaves nothing but its format.
LEMMA RefuseTarget_Step ==
  ASSUME ConverterInv, NEW q \in Targets, NEW force \in BOOLEAN, Fimc!DstRefused(q, force)
  PROVE  ConverterInv'
  <1>1. /\ dst' = [dst EXCEPT !.format = q.format]
        /\ asked' = [asked EXCEPT !.formats = @ \cup {q.format}]
        /\ UNCHANGED <<made, source, set, rot, key, on, address, dev, hurt>>
    BY DEF Fimc!DstRefused
  <1>2. IsWindow(dst') /\ SamePart(dst', dst) /\ dst'.format = q.format
    BY <1>1 DEF ConverterInv, ConverterTypes, IsWindow, SamePart
  <1>3. /\ IsAsked(asked') /\ asked'.src = asked.src /\ asked'.dst = asked.dst
        /\ asked'.key = asked.key /\ asked'.formats = asked.formats \cup {q.format}
    BY <1>1 DEF ConverterInv, ConverterTypes, IsAsked
  <1>4. ConverterTypes'
    BY <1>1, <1>2, <1>3 DEF ConverterInv, ConverterTypes
  <1>5. TargetKept'
    BY <1>1, <1>2, <1>3 DEF ConverterInv, TargetKept, SamePart
  <1>6. SourceKept' /\ KeyKept' /\ StreamKept'
    BY <1>1, <1>3, SameSource, SameKey, SameStream DEF ConverterInv, Hurts
  <1> QED BY <1>4, <1>5, <1>6 DEF ConverterInv

LEMMA SetAddress_Step ==
  ASSUME ConverterInv, NEW a \in Addresses, Fimc!setDstPhyAddr(a) PROVE ConverterInv'
  <1>1. /\ address' = a /\ UNCHANGED <<made, source, dst, set, rot, key, on, asked>>
        /\ \/ dev' = Fimc!fimc_v4l2_set_dst(dev, dst, a) /\ hurt' = hurt
           \/ "dst" \in hurt' /\ Hurts /\ dev' \in Fimc!SetPartly(dev, dst, a)
           \/ ~made /\ hurt' = hurt /\ UNCHANGED dev
    BY DEF Fimc!setDstPhyAddr, Fimc!Well, Fimc!Fails, Hurts, ConverterInv, StreamKept
  <1>2. IsDevice(dev)
    BY DEF ConverterInv, ConverterTypes
  <1>3. TargetSent(dev')
    BY <1>1, <1>2, SendsTarget DEF TargetSent
  <1>4. made /\ "dst" \notin hurt' => dev'.dst = dst /\ dev'.rot = rot /\ dev'.address = a
    BY <1>1, <1>2, SendsTarget
  <1>5. Hurts
    BY <1>1 DEF Hurts
  <1>6. ConverterTypes'
    BY <1>1, <1>3 DEF ConverterInv, ConverterTypes, TargetSent
  <1>7. TargetKept'
    BY <1>1, <1>4, <1>5 DEF ConverterInv, TargetKept, Hurts, SamePart
  <1>8. SourceKept' /\ KeyKept' /\ StreamKept'
    BY <1>1, <1>3, <1>5, SameSource, SameKey, SameStream DEF ConverterInv, TargetSent
  <1> QED BY <1>6, <1>7, <1>8 DEF ConverterInv

LEMMA SetRotation_Step ==
  ASSUME ConverterInv, NEW r \in Rotations, Fimc!setRotVal(r) PROVE ConverterInv'
  <1>1. /\ rot' = r /\ dev' = [dev EXCEPT !.rot = r]
        /\ UNCHANGED <<made, source, dst, set, key, on, address, asked, hurt>>
    BY DEF Fimc!setRotVal
  <1>2. /\ IsDevice(dev') /\ dev'.src = dev.src /\ dev'.buffers = dev.buffers /\ dev'.dst = dev.dst
        /\ dev'.rot = r /\ dev'.flag = dev.flag /\ dev'.colour = dev.colour
        /\ dev'.address = dev.address /\ dev'.stream = dev.stream /\ dev'.open = dev.open
    BY <1>1 DEF ConverterInv, ConverterTypes, IsDevice
  <1>3. ConverterTypes'
    BY <1>1, <1>2, DevicesAssumption DEF ConverterInv, ConverterTypes, Angles
  <1>4. TargetKept'
    BY <1>1, <1>2 DEF ConverterInv, TargetKept
  <1>5. SourceKept' /\ KeyKept' /\ StreamKept'
    BY <1>1, <1>2, SameSource, SameKey, SameStream DEF ConverterInv, Hurts
  <1> QED BY <1>3, <1>4, <1>5 DEF ConverterInv

LEMMA SetKey_Step ==
  ASSUME ConverterInv, NEW k \in Keys \cup {None}, Fimc!setColorKey(k) PROVE ConverterInv'
  <1> DEFINE granted == asked' = [asked EXCEPT !["key"] = k] /\ key' = k
  <1>1. /\ UNCHANGED <<made, source, dst, set, rot, on, address>>
        /\ \/ key = k /\ granted /\ hurt' = hurt /\ UNCHANGED dev
           \/ /\ granted /\ hurt' = hurt
              /\ dev' = [dev EXCEPT !.flag = (k # None), !.colour = IF k = None THEN @ ELSE k]
           \/ /\ "key" \in hurt' /\ Hurts /\ dev' = [dev EXCEPT !.flag = TRUE]
              /\ granted \/ UNCHANGED <<key, asked>>
    BY DEF Fimc!setColorKey, Fimc!Asked, Fimc!Well, Fimc!Fails, Hurts
  <1>2. /\ IsDevice(dev') /\ dev'.src = dev.src /\ dev'.buffers = dev.buffers /\ dev'.dst = dev.dst
        /\ dev'.rot = dev.rot /\ dev'.address = dev.address
        /\ dev'.stream = dev.stream /\ dev'.open = dev.open
    BY <1>1 DEF ConverterInv, ConverterTypes, IsDevice
  <1>3. \/ "key" \in hurt'
        \/ key = k /\ granted /\ UNCHANGED dev
        \/ granted /\ (dev'.flag <=> k # None) /\ (dev'.flag => dev'.colour = k)
    BY <1>1 DEF ConverterInv, ConverterTypes, IsDevice
  <1>4. /\ IsAsked(asked') /\ asked'.src = asked.src /\ asked'.dst = asked.dst
        /\ asked'.formats = asked.formats /\ (granted => asked'.key = k)
    BY <1>1 DEF ConverterInv, ConverterTypes, IsAsked
  <1>5. Hurts
    BY <1>1 DEF Hurts
  <1>6. ConverterTypes'
    BY <1>1, <1>2, <1>4 DEF ConverterInv, ConverterTypes
  <1>7. KeyKept'
    BY <1>1, <1>3, <1>4, <1>5 DEF ConverterInv, KeyKept, Hurts
  <1>8. SourceKept' /\ TargetKept' /\ StreamKept'
    BY <1>1, <1>2, <1>4, <1>5, SameSource, SameTarget, SameStream DEF ConverterInv
  <1> QED BY <1>6, <1>7, <1>8 DEF ConverterInv

\* A stream runs when the client turned it on, or a picture failed half-way.
LEMMA Stream_Step ==
  ASSUME ConverterInv, Fimc!streamOn \/ Fimc!streamOff \/ Fimc!handleOneShot PROVE ConverterInv'
  <1>1. PICK b \in BOOLEAN :
          /\ dev' = [dev EXCEPT !.stream = b] /\ on' \in BOOLEAN /\ Hurts
          /\ b => on' \/ "oneshot" \in hurt'
          /\ UNCHANGED <<made, source, dst, set, rot, key, address, asked>>
    BY DEF Fimc!streamOn, Fimc!streamOff, Fimc!handleOneShot, Fimc!Well, Fimc!Fails, Hurts,
           ConverterInv, ConverterTypes
  <1>2. /\ IsDevice(dev') /\ dev'.src = dev.src /\ dev'.buffers = dev.buffers /\ dev'.dst = dev.dst
        /\ dev'.rot = dev.rot /\ dev'.flag = dev.flag /\ dev'.colour = dev.colour
        /\ dev'.address = dev.address /\ dev'.stream = b /\ dev'.open = dev.open
    BY <1>1 DEF ConverterInv, ConverterTypes, IsDevice
  <1>3. ConverterTypes'
    BY <1>1, <1>2 DEF ConverterInv, ConverterTypes
  <1>4. StreamKept'
    BY <1>1, <1>2 DEF ConverterInv, StreamKept
  <1>5. SourceKept' /\ TargetKept' /\ KeyKept'
    BY <1>1, <1>2, SameSource, SameTarget, SameKey DEF ConverterInv
  <1> QED BY <1>3, <1>4, <1>5 DEF ConverterInv

LEMMA StepConverter == ConverterInv /\ [Fimc!Next]_Fimc!vars => ConverterInv'
  <1> SUFFICES ASSUME ConverterInv, [Fimc!Next]_Fimc!vars PROVE ConverterInv'
    OBVIOUS
  <1>1. CASE UNCHANGED Fimc!vars
    <2>1. UNCHANGED <<made, source, dst, set, rot, key, on, address, dev, asked, hurt>>
      BY <1>1 DEF Fimc!vars
    <2> QED BY <2>1, SameSource, SameTarget, SameKey, SameStream
            DEF ConverterInv, ConverterTypes, Hurts
  <1>2. CASE Fimc!Next
    BY <1>2, Create_Step, Destroy_Step, SetSource_Step, SetTarget_Step, RefuseTarget_Step,
       SetAddress_Step, SetRotation_Step, SetKey_Step, Stream_Step
       DEF Fimc!Next
  <1> QED BY <1>1, <1>2

\* For any pictures, rotations, addresses, keys and failing ioctls: what the converter would
\* convert is what the last granted requests asked for, that source (cropped from the corner
\* unless the version is 5.0), that part of the destination once turned, within its frame, in
\* a format asked for since, at that address and with that key (setSrcParams, setDstParams,
\* setDstPhyAddr, setRotVal, setColorKey, handleOneShot).
THEOREM Converts == Fimc!Spec => []ConvertsAsAsked
  <1>1. ConverterInv => ConvertsAsAsked
    <2> SUFFICES ASSUME ConverterInv PROVE Fimc!ConvertsAsAsked
      BY DEF ConvertsAsAsked
    <2>1. ASSUME made, set.src, "src" \notin hurt
          PROVE  /\ \A part \in {"width", "height", "cropWidth", "cropHeight", "format"} :
                      dev.src[part] = asked.src[part]
                 /\ \A side \in {"x", "y"} :
                      dev.src[side] = IF Version = "5.0" THEN asked.src[side] ELSE 0
                 /\ dev.buffers = 1
      <3>1. /\ source \in PictureType /\ dev.src = Fimc!Cropped(source) /\ asked.src = source
            /\ dev.buffers = 1
        BY <2>1 DEF ConverterInv, SourceKept
      <3>2. CASE Version = "5.0"
        BY <3>1, <3>2 DEF Fimc!Cropped
      <3>3. CASE Version # "5.0"
        BY <3>1, <3>3 DEF Fimc!Cropped, PictureType
      <3> QED BY <3>2, <3>3
    <2>2. ASSUME made, set.dst, "dst" \notin hurt
          PROVE  LET q == asked.dst.request IN
                 /\ Fimc!Corners(dev.dst.x, dev.dst.y, dev.dst.width, dev.dst.height)
                      = {Fimc!Turned(p, q, asked.dst.rot) :
                           p \in Fimc!Corners(q.x, q.y, q.cropWidth, q.cropHeight)}
                 /\ dev.dst.x + dev.dst.width <= dev.dst.fullWidth
                 /\ dev.dst.y + dev.dst.height <= dev.dst.fullHeight
                 /\ dev.dst.format \in asked.formats
                 /\ dev.rot = rot /\ dev.address = address
      <3> DEFINE w == Fimc!Window(asked.dst.request, asked.dst.rot)
      <3>1. /\ Inside(asked.dst.request) /\ asked.dst.rot \in Angles
            /\ SamePart(dev.dst, w) /\ dev.dst.format \in asked.formats
            /\ dev.rot = rot /\ dev.address = address
        BY <2>2 DEF ConverterInv, TargetKept, SamePart
      <3>2. LET q == asked.dst.request IN
            /\ Fimc!Corners(w.x, w.y, w.width, w.height)
                 = {Fimc!Turned(p, q, asked.dst.rot) :
                      p \in Fimc!Corners(q.x, q.y, q.cropWidth, q.cropHeight)}
            /\ w.x + w.width <= w.fullWidth /\ w.y + w.height <= w.fullHeight
        BY <3>1, WindowIsTurned
      <3> HIDE DEF w
      <3> QED BY <3>1, <3>2 DEF SamePart
    <2>3. ASSUME made, "key" \notin hurt
          PROVE  (dev.flag <=> asked.key # None) /\ (dev.flag => dev.colour \in {asked.key, None})
      BY <2>3 DEF ConverterInv, KeyKept
    <2>4. made => dev.open /\ (dev.stream => on \/ "oneshot" \in hurt)
      BY DEF ConverterInv, StreamKept
    <2> QED BY <2>1, <2>2, <2>3, <2>4 DEF Fimc!ConvertsAsAsked
  <1> QED BY <1>1, InitConverter, StepConverter, PTL DEF Fimc!Spec

-----------------------------------------------------------------------------
(* The hardware composer                                                     *)

Windows == 1..2
WindowType ==
  [status : {"free", "reserved"}, index : Nat, prev : Handles \cup {NoHandle}, buf : 0..1,
   power : 0..1, place : Places \cup {"screen"}, pos : Places \cup {"screen"}, pan : 0..1,
   fresh : BOOLEAN, lost : BOOLEAN, refused : BOOLEAN,
   mem : [0..1 -> Handles \cup {NoHandle}]]
IsList(l) == \E m \in Lists : l \in [DOMAIN m -> Hwc!Layer]

ComposerTypes ==
  /\ win \in [Windows -> WindowType]
  /\ list = NoList \/ IsList(list)
  /\ layers \in 0..2 /\ place \in {"idle", "prepared", "set"}
  /\ next \in 1..3 /\ next <= layers + 1 /\ (place # "set" => next = 1)
  /\ skipped \subseteq {w \in Windows : w < next}
  /\ s3c \in [size : Nat, real : Nat, live : BOOLEAN, stale : BOOLEAN]

\* A window is where it was placed, until the driver refuses to move it.
Lies(w) == w.pos = w.place \/ w.lost
\* layer_prev_buf is what the window shows, once the driver does as it is told.
Holds(w) == Hwc!Obeyed(w) => w.mem[w.pan] = w.prev
Whole(w) == Hwc!Obeyed(w) /\ ~w.fresh => w.buf # w.pan

\* The windows in use have each a layer of the list, those not in use are off or should be.
Given ==
  \A w \in Windows :
    IF w <= layers
    THEN /\ list # NoList /\ win[w].status = "reserved" /\ win[w].index \in DOMAIN list
         /\ comp[win[w].index] = "overlay" /\ list[win[w].index].kind = "yuv"
         /\ list[win[w].index].place = win[w].place
    ELSE ~Hwc!Obeyed(win[w])
\* A window whose frame could not be converted keeps an older one until hwc_set is done.
OnScreen ==
  \A w \in Windows :
    /\ Lies(win[w]) /\ Whole(win[w])
    /\ w \notin skipped => Holds(win[w])
\* What hwc_set did so far; between two compositions, all of it.
Done(w) == IF place = "set" THEN w < next ELSE place = "idle"
Composed ==
  \A w \in Windows :
    Done(w) /\ w <= layers /\ w \notin skipped /\ Hwc!Obeyed(win[w])
      => win[w].prev = list[win[w].index].handle

ComposerInv == ComposerTypes /\ Given /\ OnScreen /\ Composed /\ Hwc!CopyFits

LEMMA InitComposer == Hwc!Init => ComposerInv
  <1> SUFFICES ASSUME Hwc!Init PROVE ComposerInv
    OBVIOUS
  <1>1. win = [w \in Windows |-> Hwc!window_open]
    BY DEF Hwc!Init, Hwc!Wins, Hwc!NUM_OF_WIN, Windows
  <1>2. Hwc!window_open \in WindowType
    BY DEF Hwc!window_open, WindowType, Hwc!NUM_OF_WIN_BUF
  <1>3. ComposerTypes
    BY <1>1, <1>2 DEF Hwc!Init, ComposerTypes
  <1>4. \A w \in Windows : ~Hwc!Obeyed(win[w]) /\ Lies(win[w])
    BY <1>1 DEF Hwc!window_open, Lies, Hwc!Obeyed
  <1>5. Given
    BY <1>4 DEF Given, Windows, Hwc!Init
  <1>6. OnScreen /\ Composed
    BY <1>4 DEF OnScreen, Composed, Holds, Whole
  <1>7. Hwc!CopyFits
    BY DEF Hwc!CopyFits, Hwc!Init
  <1> QED BY <1>3, <1>5, <1>6, <1>7 DEF ComposerInv

-----------------------------------------------------------------------------
(* The pass over the layers of a new list                                    *)

\* What holds of the windows given so far.
Giving(st, l) ==
  /\ st \in [win : [Windows -> WindowType], used : 0..2, overlays : SUBSET DOMAIN l,
             left : SUBSET DOMAIN l]
  /\ \A i \in st.left : l[i].kind = "yuv"
  /\ \A w \in Windows :
       /\ Lies(st.win[w]) /\ Holds(st.win[w]) /\ st.win[w].fresh
       /\ w <= st.used =>
            /\ st.win[w].status = "reserved" /\ st.win[w].index \in st.overlays
            /\ l[st.win[w].index].kind = "yuv" /\ l[st.win[w].index].place = st.win[w].place

\* Windows are written a field at a time.
LEMMA WindowFields ==
  ASSUME NEW w \in WindowType
  PROVE  /\ \A x \in 0..1 : [w EXCEPT !.power = x] \in WindowType
         /\ \A x \in 0..1 : [w EXCEPT !.buf = x] \in WindowType
         /\ \A x \in 0..1 : [w EXCEPT !.pan = x] \in WindowType
         /\ \A x \in BOOLEAN : [w EXCEPT !.fresh = x] \in WindowType
         /\ \A x \in BOOLEAN : [w EXCEPT !.lost = x] \in WindowType
         /\ \A x \in BOOLEAN : [w EXCEPT !.refused = x] \in WindowType
         /\ \A x \in {"free", "reserved"} : [w EXCEPT !.status = x] \in WindowType
         /\ \A x \in Nat : [w EXCEPT !.index = x] \in WindowType
         /\ \A x \in Handles \cup {NoHandle} : [w EXCEPT !.prev = x] \in WindowType
         /\ \A x \in Places \cup {"screen"} : [w EXCEPT !.place = x] \in WindowType
         /\ \A x \in Places \cup {"screen"} : [w EXCEPT !.pos = x] \in WindowType
         /\ \A x \in [0..1 -> Handles \cup {NoHandle}] : [w EXCEPT !.mem = x] \in WindowType
  BY DEF WindowType

\* A window that is hidden stays what it is, and on if the driver refuses.
LEMMA HiddenWindow ==
  ASSUME NEW w \in WindowType, NEW still
  PROVE  LET h == Hwc!window_hide(w, still) IN
         /\ h \in WindowType /\ ~Hwc!Obeyed(h) /\ h.place = w.place /\ h.pos = w.pos
         /\ h.lost = w.lost /\ h.fresh = w.fresh /\ h.prev = w.prev /\ h.index = w.index
         /\ h.status = w.status
  <1>1. CASE w.power = 1 /\ still
    <2> DEFINE h == [w EXCEPT !.refused = TRUE]
    <2>1. Hwc!window_hide(w, still) = h
      BY <1>1 DEF Hwc!window_hide
    <2>2. h \in WindowType
      BY WindowFields
    <2> QED BY <2>1, <2>2 DEF WindowType, Hwc!Obeyed
  <1>2. CASE ~(w.power = 1 /\ still)
    <2> DEFINE off == [w EXCEPT !.power = 0]
               h == [off EXCEPT !.refused = FALSE]
    <2>1. Hwc!window_hide(w, still) = h
      BY <1>2 DEF Hwc!window_hide
    <2>2. off \in WindowType
      BY WindowFields, 0 \in 0..1
    <2>3. /\ off.power = 0 /\ off.place = w.place /\ off.pos = w.pos /\ off.lost = w.lost
          /\ off.fresh = w.fresh /\ off.prev = w.prev /\ off.index = w.index
          /\ off.status = w.status
      BY DEF WindowType
    <2> HIDE DEF off
    <2>4. h \in WindowType
      BY <2>2, WindowFields
    <2>5. /\ h.power = 0 /\ h.place = w.place /\ h.pos = w.pos /\ h.lost = w.lost
          /\ h.fresh = w.fresh /\ h.prev = w.prev /\ h.index = w.index
          /\ h.status = w.status
      BY <2>2, <2>3 DEF WindowType
    <2> HIDE DEF h
    <2> QED BY <2>1, <2>4, <2>5 DEF Hwc!Obeyed
  <1> QED BY <1>1, <1>2

\* A window is moved, or is lost where it was.
LEMMA WindowMoved ==
  ASSUME NEW w \in WindowType, NEW ok, NEW still
  PROVE  LET p == Hwc!window_set_pos(w, ok, still) IN
         /\ p \in WindowType /\ Lies(p) /\ Holds(p) /\ p.place = w.place /\ p.fresh = w.fresh
  <1> DEFINE hidden == Hwc!window_hide(w, still)
  <1>1. /\ hidden \in WindowType /\ ~Hwc!Obeyed(hidden) /\ hidden.place = w.place
        /\ hidden.fresh = w.fresh
    BY HiddenWindow
  <1>2. CASE ok /\ hidden.power = 0
    <2> DEFINE moved == [hidden EXCEPT !.pos = w.place]
               fresh == [moved EXCEPT !.prev = NoHandle]
               p == [fresh EXCEPT !.lost = FALSE]
    <2>1. Hwc!window_set_pos(w, ok, still) = p
      BY <1>2 DEF Hwc!window_set_pos
    <2> HIDE DEF hidden
    <2>2. moved \in WindowType
      BY <1>1, WindowFields DEF WindowType
    <2>3. /\ moved.power = 0 /\ moved.pos = moved.place /\ moved.place = w.place
          /\ moved.fresh = w.fresh
      BY <1>1, <1>2 DEF WindowType
    <2> HIDE DEF moved
    <2>4. fresh \in WindowType
      BY <2>2, WindowFields
    <2>5. /\ fresh.power = 0 /\ fresh.pos = fresh.place /\ fresh.place = w.place
          /\ fresh.fresh = w.fresh
      BY <2>2, <2>3 DEF WindowType
    <2> HIDE DEF fresh
    <2>6. p \in WindowType
      BY <2>4, WindowFields
    <2>7. p.power = 0 /\ p.pos = p.place /\ p.place = w.place /\ p.fresh = w.fresh
      BY <2>4, <2>5 DEF WindowType
    <2> HIDE DEF p
    <2> QED BY <2>1, <2>6, <2>7 DEF Lies, Holds, Hwc!Obeyed
  <1>3. CASE ~(ok /\ hidden.power = 0)
    <2> DEFINE p == [hidden EXCEPT !.lost = TRUE]
    <2>1. Hwc!window_set_pos(w, ok, still) = p
      BY <1>3 DEF Hwc!window_set_pos
    <2> HIDE DEF hidden
    <2>2. p \in WindowType
      BY <1>1, WindowFields
    <2>3. ~Hwc!Obeyed(p) /\ p.lost /\ p.place = w.place /\ p.fresh = w.fresh
      BY <1>1 DEF WindowType, Hwc!Obeyed
    <2> HIDE DEF p
    <2> QED BY <2>1, <2>2, <2>3 DEF Lies, Holds
  <1> QED BY <1>2, <1>3

\* The window that is placed where a layer is.
LEMMA PlacedWindow ==
  ASSUME NEW w \in WindowType, NEW layer \in Hwc!Layer, NEW ok, NEW still, Lies(w), Holds(w),
         layer.kind = "yuv"
  PROVE  LET p == Hwc!Placed(w, layer, ok, still) IN
         /\ p \in WindowType /\ Lies(p) /\ Holds(p) /\ p.place = layer.place /\ p.fresh = w.fresh
  <1>1. layer.place \in Places
    BY DEF Hwc!Layer
  <1>2. CASE layer.place = w.place
    BY <1>2 DEF Hwc!Placed
  <1>3. CASE layer.place # w.place
    <2> DEFINE v == [w EXCEPT !.place = layer.place]
    <2>1. Hwc!Placed(w, layer, ok, still) = Hwc!window_set_pos(v, ok, still)
      BY <1>3 DEF Hwc!Placed
    <2>2. v \in WindowType /\ v.place = layer.place /\ v.fresh = w.fresh
      BY <1>1 DEF WindowType
    <2> HIDE DEF v
    <2> QED BY <2>1, <2>2, WindowMoved
  <1> QED BY <1>2, <1>3

\* A layer that is tried has a window, or leaves one free where it should have been.
LEMMA OverlayGiven ==
  ASSUME NEW l, l \in [DOMAIN l -> Hwc!Layer], DOMAIN l \subseteq Nat,
         NEW st, Giving(st, l), st.used # 2, NEW i \in DOMAIN l, l[i].kind = "yuv",
         NEW bad
  PROVE  Giving(Hwc!assign_overlay_window(st, i, l[i], bad), l)
  <1> DEFINE u == st.used + 1
             w == Hwc!Placed(st.win[u], l[i], <<"place", i>> \notin bad, <<"hide", i>> \in bad)
             v == [w EXCEPT !.index = i, !.status = "reserved"]
  <1>1. u \in Windows /\ st.win[u] \in WindowType /\ Lies(st.win[u]) /\ Holds(st.win[u]) /\ st.win[u].fresh
    BY DEF Giving, Windows
  <1>2. w \in WindowType /\ Lies(w) /\ Holds(w) /\ w.place = l[i].place /\ w.fresh
    BY <1>1, PlacedWindow
  <1>3. \A x \in Windows : x <= st.used => x # u
    BY DEF Windows, Giving
  <1> HIDE DEF w
  <1>4. CASE w.place # st.win[u].place /\ w.lost
    <2>1. Hwc!assign_overlay_window(st, i, l[i], bad) = [st EXCEPT !.win[u] = w]
      BY <1>4 DEF Hwc!assign_overlay_window, w
    <2> HIDE DEF u
    <2> QED BY <1>1, <1>2, <1>3, <2>1 DEF Giving
  <1>5. CASE ~(w.place # st.win[u].place /\ w.lost)
    <2>1. Hwc!assign_overlay_window(st, i, l[i], bad)
            = [st EXCEPT !.win[u] = v, !.used = u, !.overlays = st.overlays \cup {i}]
      BY <1>5 DEF Hwc!assign_overlay_window, w, Giving
    <2>2. /\ v \in WindowType /\ Lies(v) /\ Holds(v) /\ v.fresh /\ v.place = l[i].place
          /\ v.status = "reserved" /\ v.index = i
      BY <1>2 DEF WindowType, Lies, Holds, Hwc!Obeyed
    <2>3. u \in 0..2 /\ \A x \in Windows : x <= u => x <= st.used \/ x = u
      BY DEF Giving, Windows
    <2> HIDE DEF u, v
    <2> DEFINE n == Hwc!assign_overlay_window(st, i, l[i], bad)
    <2>7. [st.win EXCEPT ![u] = v] \in [Windows -> WindowType]
      BY <1>1, <2>2 DEF Giving
    <2>4. /\ n.used = u /\ n.overlays = st.overlays \cup {i} /\ n.left = st.left
          /\ n.win = [st.win EXCEPT ![u] = v]
          /\ n = [win |-> n.win, used |-> u, overlays |-> n.overlays, left |-> st.left]
      BY <2>1 DEF Giving
    <2> HIDE DEF n
    <2>8. n \in [win : [Windows -> WindowType], used : 0..2, overlays : SUBSET DOMAIN l,
                 left : SUBSET DOMAIN l]
      BY <2>7, <2>3, <2>4 DEF Giving
    <2>5. ASSUME NEW x \in Windows
          PROVE  /\ Lies(n.win[x]) /\ Holds(n.win[x]) /\ n.win[x].fresh
                 /\ x <= n.used =>
                      /\ n.win[x].status = "reserved" /\ n.win[x].index \in n.overlays
                      /\ l[n.win[x].index].kind = "yuv" /\ l[n.win[x].index].place = n.win[x].place
      <3>1. CASE x = u
        BY <1>1, <2>2, <2>4, <3>1 DEF Giving
      <3>2. CASE x # u
        BY <1>1, <2>3, <2>4, <3>2 DEF Giving
      <3> QED BY <3>1, <3>2
    <2>6. Giving(n, l)
      BY <2>8, <2>4, <2>5 DEF Giving
    <2> QED BY <2>6 DEF n
  <1> QED BY <1>4, <1>5

LEMMA AssignGives ==
  ASSUME NEW l, l \in [DOMAIN l -> Hwc!Layer], DOMAIN l \subseteq Nat, NEW st, Giving(st, l), NEW bad
  PROVE  Giving(Hwc!Assign(st, l, bad), l)
  <1>1. CASE st.used = 2 \/ st.left = {}
    BY <1>1 DEF Hwc!Assign, Hwc!NUM_OF_WIN
  <1>2. CASE st.used # 2 /\ st.left # {}
    <2> DEFINE i == Hwc!Min(st.left)
               less == [st EXCEPT !.left = st.left \ {i}]
    <2>1. i \in st.left
      <3>1. st.left \in SUBSET Nat
        BY DEF Giving
      <3>2. \E n \in st.left : \A m \in st.left : n <= m
        BY <1>2, <3>1, LeastNat
      <3> QED BY <3>2 DEF Hwc!Min
    <2>2. i \in DOMAIN l /\ l[i].kind = "yuv"
      BY <2>1 DEF Giving
    <2>3. Giving(less, l) /\ less.used # 2
      BY <1>2 DEF Giving
    <2>4. Hwc!Assign(st, l, bad) = Hwc!assign_overlay_window(less, i, l[i], bad)
      BY <1>2 DEF Hwc!Assign, Hwc!NUM_OF_WIN
    <2> HIDE DEF less, i
    <2> QED BY <2>2, <2>3, <2>4, OverlayGiven
  <1> QED BY <1>1, <1>2

-----------------------------------------------------------------------------
(* The calls of the composer                                                 *)

LEMMA ListsAreThere ==
  ASSUME NEW l, IsList(l)
  PROVE  /\ l # NoList /\ l \in [DOMAIN l -> Hwc!Layer] /\ DOMAIN l \subseteq Nat
  <1>1. PICK m \in Lists : l \in [DOMAIN m -> Hwc!Layer]
    BY DEF IsList
  <1>2. m \in Seq(Hwc!Layer)
    BY <1>1, LayersAssumption
  <1>3. DOMAIN m = 1..Len(m) /\ Len(m) \in Nat
    BY <1>2
  <1>4. l # NoList
    BY <1>1, LayersAssumption
  <1> QED BY <1>1, <1>3, <1>4

LEMMA AssignedGives ==
  ASSUME ComposerInv, place = "idle", NEW l \in Lists, NEW bad
  PROVE  Giving(Hwc!Assigned(l, bad), l) /\ IsList(l)
  <1>1. l \in [DOMAIN l -> Hwc!Layer] /\ IsList(l)
    <2>1. l \in Seq(Hwc!Layer)
      BY LayersAssumption
    <2>2. l \in [DOMAIN l -> Hwc!Layer]
      BY <2>1
    <2> QED BY <2>2 DEF IsList
  <1>2. DOMAIN l \subseteq Nat
    BY <1>1, ListsAreThere
  <1> DEFINE cleared(w) == [[[win[w] EXCEPT !.status = "free"] EXCEPT !.buf = 0] EXCEPT !.fresh = TRUE]
             start == [win |-> [w \in Windows |-> cleared(w)], used |-> 0, overlays |-> {},
                       left |-> {i \in DOMAIN l : Hwc!Overlayable(l[i])}]
  <1>3. ASSUME NEW w \in Windows
        PROVE  /\ cleared(w) \in WindowType /\ Lies(cleared(w)) /\ Holds(cleared(w))
               /\ cleared(w).fresh
    <2>1. win[w] \in WindowType /\ Lies(win[w]) /\ Holds(win[w])
      <3>1. w \notin skipped
        BY DEF ComposerInv, ComposerTypes, Windows
      <3> QED BY <3>1 DEF ComposerInv, ComposerTypes, OnScreen
    <2> DEFINE a == [win[w] EXCEPT !.status = "free"]
               b == [a EXCEPT !.buf = 0]
    <2>2. a \in WindowType /\ Lies(a) /\ Holds(a)
      BY <2>1 DEF WindowType, Lies, Holds, Hwc!Obeyed
    <2> HIDE DEF a
    <2>3. b \in WindowType /\ Lies(b) /\ Holds(b)
      <3>1. b \in WindowType
        BY <2>2, WindowFields, 0 \in 0..1
      <3> QED BY <2>2, <3>1 DEF WindowType, Lies, Holds, Hwc!Obeyed
    <2> HIDE DEF b
    <2> DEFINE c == [b EXCEPT !.fresh = TRUE]
    <2>4. c \in WindowType
      BY <2>3, WindowFields
    <2>5. Lies(c) /\ Holds(c) /\ c.fresh
      BY <2>3 DEF WindowType, Lies, Holds, Hwc!Obeyed
    <2> QED BY <2>4, <2>5 DEF a, b, c
  <1> HIDE DEF cleared
  <1>4. Giving(start, l)
    BY <1>3 DEF Giving, Hwc!Overlayable, Windows
  <1>5. Hwc!Assigned(l, bad)
          = Hwc!Assign(Hwc!Assign(Hwc!Assign(start, l, bad), l, bad), l, bad)
    BY DEF Hwc!Assigned, Hwc!Wins, Hwc!NUM_OF_WIN, Windows, cleared
  <1> HIDE DEF start
  <1>6. Giving(Hwc!Assign(start, l, bad), l)
    BY <1>1, <1>2, <1>4, AssignGives
  <1>7. Giving(Hwc!Assign(Hwc!Assign(start, l, bad), l, bad), l)
    BY <1>1, <1>2, <1>6, AssignGives
  <1>8. Giving(Hwc!Assign(Hwc!Assign(Hwc!Assign(start, l, bad), l, bad), l, bad), l)
    BY <1>1, <1>2, <1>7, AssignGives
  <1> QED BY <1>1, <1>5, <1>8

LEMMA Prepare_Step == ComposerInv /\ Hwc!Prepare => ComposerInv'
  <1> SUFFICES ASSUME ComposerInv, Hwc!Prepare PROVE ComposerInv'
    OBVIOUS
  <1>1. PICK l \in Lists : \E bad \in {{}} \cup {{c} : c \in Hwc!Refusable(l)} :
          LET p == Hwc!Assigned(l, bad) IN
          /\ list' = l /\ comp' = Hwc!Composition(l, p.overlays) /\ layers' = p.used
          /\ win' = [w \in Hwc!Wins |->
                      IF w > p.used THEN Hwc!window_hide(p.win[w], <<"free", w>> \in bad)
                                    ELSE p.win[w]]
    BY DEF Hwc!Prepare
  <1>2. PICK bad : LET p == Hwc!Assigned(l, bad) IN
          /\ list' = l /\ comp' = Hwc!Composition(l, p.overlays) /\ layers' = p.used
          /\ win' = [w \in Hwc!Wins |->
                      IF w > p.used THEN Hwc!window_hide(p.win[w], <<"free", w>> \in bad)
                                    ELSE p.win[w]]
    BY <1>1
  <1> DEFINE p == Hwc!Assigned(l, bad)
  <1>3. place' = "prepared" /\ UNCHANGED <<next, skipped, s3c>> /\ place = "idle"
    BY DEF Hwc!Prepare
  <1>4. Giving(p, l) /\ IsList(l)
    BY <1>3, AssignedGives
  <1>5. /\ list' = l /\ comp' = Hwc!Composition(l, p.overlays) /\ layers' = p.used
        /\ win' = [w \in Windows |->
                    IF w > p.used THEN Hwc!window_hide(p.win[w], <<"free", w>> \in bad)
                                  ELSE p.win[w]]
    BY <1>2 DEF Hwc!Wins, Hwc!NUM_OF_WIN, Windows
  <1> HIDE DEF p
  <1>6. ASSUME NEW w \in Windows
        PROVE  /\ win'[w] \in WindowType /\ Lies(win'[w]) /\ Holds(win'[w]) /\ Whole(win'[w])
               /\ IF w <= layers' THEN win'[w] = p.win[w] ELSE ~Hwc!Obeyed(win'[w])
    <2>1. p.win[w] \in WindowType /\ Lies(p.win[w]) /\ Holds(p.win[w]) /\ p.win[w].fresh
      BY <1>4 DEF Giving
    <2>2. p.used \in Nat /\ w \in Nat
      BY <1>4 DEF Giving, Windows
    <2>3. CASE w > p.used
      BY <1>5, <2>1, <2>2, <2>3, HiddenWindow DEF Lies, Holds, Whole
    <2>4. CASE w <= p.used
      BY <1>5, <2>1, <2>2, <2>4 DEF Whole
    <2> QED BY <2>2, <2>3, <2>4
  <1>7. next = 1 /\ skipped = {}
    BY <1>3 DEF ComposerInv, ComposerTypes, Windows
  <1>8. layers' \in 0..2
    BY <1>4, <1>5 DEF Giving
  <1>9. ComposerTypes'
    <2>1. win' \in [Windows -> WindowType]
      BY <1>5, <1>6
    <2> QED BY <1>4, <1>3, <1>5, <1>7, <1>8, <2>1 DEF ComposerInv, ComposerTypes, IsList
  <1>10. Given'
    <2>1. l # NoList
      BY <1>4, ListsAreThere
    <2>2. ASSUME NEW w \in Windows, w <= layers'
          PROVE  /\ win'[w].status = "reserved" /\ win'[w].index \in DOMAIN l
                 /\ comp'[win'[w].index] = "overlay" /\ l[win'[w].index].kind = "yuv"
                 /\ l[win'[w].index].place = win'[w].place
      <3>1. win'[w] = p.win[w] /\ w <= p.used
        BY <1>5, <1>6, <2>2
      <3>2. /\ p.win[w].status = "reserved" /\ p.win[w].index \in p.overlays
            /\ p.overlays \subseteq DOMAIN l
            /\ l[p.win[w].index].kind = "yuv" /\ l[p.win[w].index].place = p.win[w].place
        BY <1>4, <3>1 DEF Giving
      <3> QED BY <1>5, <3>1, <3>2 DEF Hwc!Composition
    <2> QED BY <1>5, <1>6, <2>1, <2>2 DEF Given
  <1>11. OnScreen' /\ Composed'
    BY <1>3, <1>6 DEF OnScreen, Composed, Done, Lies, Holds, Whole
  <1>12. Hwc!CopyFits'
    BY <1>3 DEF ComposerInv, Hwc!CopyFits
  <1> QED BY <1>9, <1>10, <1>11, <1>12 DEF ComposerInv

LEMMA PrepareSame_Step == ComposerInv /\ Hwc!PrepareSame => ComposerInv'
  <1> SUFFICES ASSUME ComposerInv, Hwc!PrepareSame PROVE ComposerInv'
    OBVIOUS
  <1>1. PICK hs \in [DOMAIN list -> Handles] :
          list' = [i \in DOMAIN list |->
                     IF list[i].kind = "yuv" THEN [list[i] EXCEPT !.handle = hs[i]] ELSE list[i]]
    BY DEF Hwc!PrepareSame
  <1>2. /\ place' = "prepared" /\ UNCHANGED <<win, comp, layers, next, skipped, s3c>>
        /\ place = "idle" /\ list # NoList
    BY DEF Hwc!PrepareSame
  <1>3. IsList(list)
    BY <1>2 DEF ComposerInv, ComposerTypes
  <1>4. list \in [DOMAIN list -> Hwc!Layer]
    BY <1>3, ListsAreThere
  <1>5. ASSUME NEW i \in DOMAIN list
        PROVE  list'[i] \in Hwc!Layer /\ list'[i].kind = list[i].kind /\ list'[i].place = list[i].place
    <2>1. list[i] \in Hwc!Layer
      BY <1>4
    <2>2. CASE list[i].kind = "yuv"
      BY <1>1, <2>1, <2>2 DEF Hwc!Layer
    <2>3. CASE list[i].kind # "yuv"
      BY <1>1, <2>1, <2>3
    <2> QED BY <2>2, <2>3
  <1>6. DOMAIN list' = DOMAIN list
    BY <1>1
  <1>7. IsList(list') /\ list' # NoList
    <2>1. IsList(list')
      BY <1>1, <1>3, <1>5 DEF IsList
    <2> QED BY <2>1, ListsAreThere
  <1>8. ComposerTypes'
    BY <1>2, <1>7 DEF ComposerInv, ComposerTypes
  <1>9. Given'
    BY <1>2, <1>5, <1>6, <1>7 DEF ComposerInv, Given
  <1>10. OnScreen' /\ Composed'
    BY <1>2 DEF ComposerInv, OnScreen, Composed, Done
  <1>11. Hwc!CopyFits'
    BY <1>2 DEF ComposerInv, Hwc!CopyFits
  <1> QED BY <1>8, <1>9, <1>10, <1>11 DEF ComposerInv

LEMMA SetNothing_Step == ComposerInv /\ Hwc!SetNothing => ComposerInv'
  <1> SUFFICES ASSUME ComposerInv, Hwc!SetNothing PROVE ComposerInv'
    OBVIOUS
  <1>0. PICK stay : win' = [w \in Windows |->
                              [Hwc!window_hide(win[w], w \in stay) EXCEPT !.status = "free"]]
    BY DEF Hwc!SetNothing, Hwc!Wins, Hwc!NUM_OF_WIN, Windows
  <1>1. /\ win' = [w \in Windows |->
                    [Hwc!window_hide(win[w], w \in stay) EXCEPT !.status = "free"]]
        /\ layers' = 0 /\ list' = NoList /\ UNCHANGED <<place, next, skipped, s3c>> /\ place = "idle"
    BY <1>0 DEF Hwc!SetNothing
  <1>2. next = 1 /\ skipped = {}
    BY <1>1 DEF ComposerInv, ComposerTypes, Windows
  <1>3. ASSUME NEW w \in Windows
        PROVE  win'[w] \in WindowType /\ ~Hwc!Obeyed(win'[w]) /\ Lies(win'[w])
    <2> DEFINE h == Hwc!window_hide(win[w], w \in stay)
               f == [h EXCEPT !.status = "free"]
    <2>1. h \in WindowType /\ ~Hwc!Obeyed(h) /\ Lies(h)
      BY HiddenWindow DEF ComposerInv, ComposerTypes, OnScreen, Lies
    <2>2. win'[w] = f
      BY <1>1
    <2> HIDE DEF h
    <2>3. f \in WindowType
      BY <2>1, WindowFields
    <2> QED BY <2>1, <2>2, <2>3 DEF WindowType, Lies, Hwc!Obeyed
  <1>4. ComposerTypes'
    <2>1. win' \in [Windows -> WindowType]
      BY <1>1, <1>3
    <2> QED BY <1>1, <1>2, <2>1 DEF ComposerInv, ComposerTypes
  <1>5. Given'
    <2>1. \A w \in Windows : ~(w <= layers') /\ ~Hwc!Obeyed(win'[w])
      <3>1. \A w \in Windows : ~(w <= 0)
        BY DEF Windows
      <3> QED BY <1>1, <1>3, <3>1
    <2> QED BY <2>1 DEF Given
  <1>6. OnScreen' /\ Composed'
    BY <1>3 DEF OnScreen, Composed, Holds, Whole, Lies
  <1>7. Hwc!CopyFits'
    BY <1>1 DEF ComposerInv, Hwc!CopyFits
  <1> QED BY <1>4, <1>5, <1>6, <1>7 DEF ComposerInv

LEMMA SetBegins_Step == ComposerInv /\ Hwc!SetBegins => ComposerInv'
  <1> SUFFICES ASSUME ComposerInv, Hwc!SetBegins PROVE ComposerInv'
    OBVIOUS
  <1>1. place = "prepared" /\ place' = "set" /\ UNCHANGED <<win, list, comp, layers, next, skipped, s3c>>
    BY DEF Hwc!SetBegins
  <1>2. next = 1
    BY <1>1 DEF ComposerInv, ComposerTypes
  <1>3. ComposerTypes' /\ Given' /\ OnScreen'
    BY <1>1 DEF ComposerInv, ComposerTypes, Given, OnScreen
  <1>4. Composed'
    <2>1. \A w \in Windows : ~(w < 1)
      BY DEF Windows
    <2> QED BY <1>1, <1>2, <2>1 DEF Composed, Done
  <1>5. Hwc!CopyFits'
    BY <1>1 DEF ComposerInv, Hwc!CopyFits
  <1> QED BY <1>3, <1>4, <1>5 DEF ComposerInv

\* The window whose turn it is has a layer with a buffer.
LEMMA TurnOf ==
  ASSUME ComposerInv, Hwc!Setting
  PROVE  /\ place = "set" /\ next \in Windows /\ next <= layers /\ next \notin skipped
         /\ next + 1 \in 1..3 /\ next + 1 <= layers + 1 /\ win[next] \in WindowType
         /\ Hwc!Current = list[win[next].index].handle /\ Hwc!Current \in Handles /\ Hwc!Current \in Nat
  <1>1. place = "set" /\ next <= layers /\ next \in 1..3 /\ layers \in 0..2
    BY DEF Hwc!Setting, ComposerInv, ComposerTypes
  <1>2. next \in Windows /\ next + 1 \in 1..3 /\ next + 1 <= layers + 1
    BY <1>1 DEF Windows
  <1>3. next \notin skipped
    BY <1>1 DEF ComposerInv, ComposerTypes
  <1>4. /\ list # NoList /\ win[next].index \in DOMAIN list /\ list[win[next].index].kind = "yuv"
        /\ win[next] \in WindowType
    BY <1>1, <1>2 DEF ComposerInv, ComposerTypes, Given
  <1>5. list[win[next].index] \in Hwc!Layer
    <2>1. IsList(list)
      BY <1>4 DEF ComposerInv, ComposerTypes
    <2> QED BY <1>4, <2>1, ListsAreThere
  <1>6. list[win[next].index].handle \in Handles
    BY <1>4, <1>5 DEF Hwc!Layer
  <1> QED BY <1>1, <1>2, <1>3, <1>4, <1>6, LayersAssumption DEF Hwc!Current

\* The next window's turn.
LEMMA OtherWindows ==
  ASSUME ComposerInv, Hwc!Setting, next' = next + 1, UNCHANGED <<list, comp, layers, place>>,
         NEW w \in Windows, w # next, win'[w] = win[w], skipped' = skipped \/ skipped' = skipped \cup {next}
  PROVE  /\ Lies(win'[w]) /\ Whole(win'[w]) /\ (w \notin skipped' => Holds(win'[w]))
         /\ Done(w)' /\ w <= layers' /\ w \notin skipped' /\ Hwc!Obeyed(win'[w])
              => win'[w].prev = list'[win'[w].index].handle
  <1>1. w \notin skipped' => w \notin skipped
    OBVIOUS
  <1>2. Lies(win'[w]) /\ Whole(win'[w]) /\ (w \notin skipped' => Holds(win'[w]))
    BY <1>1 DEF ComposerInv, OnScreen
  <1>3. Done(w)' => Done(w)
    <2>1. place = "set" /\ next \in Nat /\ w \in Nat
      BY TurnOf DEF Windows
    <2> QED BY <2>1 DEF Done
  <1> QED BY <1>1, <1>2, <1>3 DEF ComposerInv, Composed

LEMMA SetSame_Step == ComposerInv /\ Hwc!SetSame => ComposerInv'
  <1> SUFFICES ASSUME ComposerInv, Hwc!SetSame PROVE ComposerInv'
    OBVIOUS
  <1>1. /\ Hwc!Setting /\ next' = next + 1 /\ win[next].prev = Hwc!Current
        /\ UNCHANGED <<win, list, comp, layers, place, skipped, s3c>>
    BY DEF Hwc!SetSame, Hwc!SameBuffer
  <1>2. ComposerTypes'
    <2>1. next' \in 1..3 /\ next' <= layers' + 1 /\ place' = "set" /\ next \in Nat
      BY <1>1, TurnOf DEF Windows
    <2>2. skipped' \subseteq {w \in Windows : w < next'}
      BY <1>1, <2>1 DEF ComposerInv, ComposerTypes, Windows
    <2> QED BY <1>1, <2>1, <2>2 DEF ComposerInv, ComposerTypes
  <1>3. Given' /\ OnScreen'
    BY <1>1 DEF ComposerInv, Given, OnScreen
  <1>4. Composed'
    <2>1. ASSUME NEW w \in Windows, Done(w)', w <= layers', w \notin skipped', Hwc!Obeyed(win'[w])
          PROVE  win'[w].prev = list'[win'[w].index].handle
      <3>1. CASE w = next
        BY <1>1, <3>1, TurnOf
      <3>2. CASE w # next
        BY <1>1, <2>1, <3>2, OtherWindows
      <3> QED BY <3>1, <3>2
    <2> QED BY <2>1 DEF Composed, Done
  <1>5. Hwc!CopyFits'
    BY <1>1 DEF ComposerInv, Hwc!CopyFits
  <1> QED BY <1>2, <1>3, <1>4, <1>5 DEF ComposerInv

\* The source's memory, found, made or missing.
LEMMA SourceMemory ==
  ASSUME ComposerInv, NEW h \in Nat, NEW ok \in BOOLEAN, Hwc!get_src_phys_addr(h, ok)
  PROVE  s3c' \in [size : Nat, real : Nat, live : BOOLEAN, stale : BOOLEAN] /\ Hwc!CopyFits'
  <1>1. s3c \in [size : Nat, real : Nat, live : BOOLEAN, stale : BOOLEAN] /\ Hwc!CopyFits
    BY DEF ComposerInv, ComposerTypes
  <1>2. CASE s3c' = s3c
    BY <1>1, <1>2 DEF Hwc!CopyFits
  <1>3. CASE s3c' = Hwc!checkMem(h, ok)
    <2>1. CASE s3c.size >= h
      BY <1>1, <1>3, <2>1 DEF Hwc!checkMem, Hwc!CopyFits
    <2>2. CASE s3c.size < h /\ ok
      BY <1>1, <1>3, <2>2 DEF Hwc!checkMem, Hwc!createMem, Hwc!CopyFits
    <2>3. CASE s3c.size < h /\ ~ok
      <3>1. s3c' = [s3c EXCEPT !.live = FALSE, !.stale = TRUE]
        BY <1>1, <1>3, <2>3 DEF Hwc!checkMem, Hwc!destroyMem
      <3>2. s3c'.stale
        BY <1>1, <3>1
      <3> QED BY <1>1, <3>1, <3>2 DEF Hwc!CopyFits
    <2> QED BY <1>1, <2>1, <2>2, <2>3
  <1> QED BY <1>2, <1>3 DEF Hwc!get_src_phys_addr

\* The frame in the next buffer, which is shown then or is not as the driver was told.
LEMMA BlittedWindow ==
  ASSUME NEW w \in WindowType, NEW h \in Handles, NEW bad
  PROVE  LET b == Hwc!window_show(Hwc!Flipped(Hwc!window_pan_display(Hwc!runFimc(w, h), bad)), bad)
         IN
         /\ b \in WindowType /\ b.prev = h
         /\ b.refused \/ (b.mem[b.pan] = h /\ b.buf # b.pan)
         /\ b.place = w.place /\ b.pos = w.pos /\ b.lost = w.lost /\ b.index = w.index
         /\ b.status = w.status
  <1> DEFINE noted == [w EXCEPT !.prev = h]
             done == [noted EXCEPT !.mem = [w.mem EXCEPT ![w.buf] = h]]
             panned == [done EXCEPT !.pan = w.buf]
             seen == [panned EXCEPT !.fresh = FALSE]
             obeyed == [seen EXCEPT !.refused = FALSE]
             refused == [done EXCEPT !.refused = TRUE]
             told == Hwc!window_pan_display(Hwc!runFimc(w, h), bad)
             flipped == [told EXCEPT !.buf = (w.buf + 1) % 2]
             shown == [flipped EXCEPT !.power = 1]
             b == Hwc!window_show(Hwc!Flipped(told), bad)
             Same(v) == /\ v.place = w.place /\ v.pos = w.pos /\ v.lost = w.lost
                        /\ v.index = w.index /\ v.status = w.status /\ v.prev = h
             Panned(v) == v.mem[w.buf] = h /\ v.pan = w.buf
  <1>1. Hwc!runFimc(w, h) = done
    BY DEF Hwc!runFimc, Hwc!runcFimcCore, WindowType
  <1>2. w.buf \in 0..1 /\ w.mem \in [0..1 -> Handles \cup {NoHandle}]
    BY DEF WindowType
  <1>3. noted \in WindowType /\ Same(noted) /\ noted.buf = w.buf /\ noted.mem = w.mem
    BY DEF WindowType
  <1> HIDE DEF noted
  <1>4. done \in WindowType
    <2>1. [w.mem EXCEPT ![w.buf] = h] \in [0..1 -> Handles \cup {NoHandle}]
      BY <1>2
    <2> QED BY <1>3, <2>1, WindowFields
  <1>5. Same(done) /\ done.mem[w.buf] = h /\ done.buf = w.buf
    BY <1>2, <1>3 DEF WindowType
  <1>6. told = IF "pan" \in bad THEN refused ELSE obeyed
    BY <1>1, <1>5 DEF Hwc!window_pan_display
  <1> HIDE DEF done
  <1>7. panned \in WindowType
    BY <1>2, <1>4, WindowFields
  <1>8. Same(panned) /\ Panned(panned) /\ panned.buf = w.buf
    BY <1>4, <1>5 DEF WindowType
  <1> HIDE DEF panned
  <1>9. seen \in WindowType
    BY <1>7, WindowFields
  <1>10. Same(seen) /\ Panned(seen) /\ seen.buf = w.buf
    BY <1>7, <1>8 DEF WindowType
  <1> HIDE DEF seen
  <1>11. obeyed \in WindowType
    BY <1>9, WindowFields
  <1>12. Same(obeyed) /\ Panned(obeyed) /\ obeyed.buf = w.buf
    BY <1>9, <1>10 DEF WindowType
  <1>13. refused \in WindowType
    BY <1>4, WindowFields
  <1>14. Same(refused) /\ refused.refused /\ refused.buf = w.buf
    BY <1>4, <1>5 DEF WindowType
  <1> HIDE DEF obeyed, refused
  <1>15. told \in WindowType /\ Same(told) /\ (told.refused \/ Panned(told)) /\ told.buf = w.buf
    BY <1>6, <1>11, <1>12, <1>13, <1>14
  <1> HIDE DEF told
  <1>16. (w.buf + 1) % 2 \in 0..1 /\ (w.buf + 1) % 2 # w.buf
    BY <1>2
  <1>17. Hwc!Flipped(told) = flipped
    BY <1>15 DEF Hwc!Flipped, Hwc!NUM_OF_WIN_BUF, WindowType
  <1>18. flipped \in WindowType
    BY <1>15, <1>16, WindowFields
  <1>19. /\ Same(flipped) /\ flipped.buf # w.buf
         /\ flipped.refused \/ Panned(flipped)
    BY <1>15, <1>16 DEF WindowType
  <1>20. b = IF "show" \in bad THEN flipped ELSE shown
    BY <1>17 DEF Hwc!window_show
  <1> HIDE DEF flipped
  <1>21. shown \in WindowType
    BY <1>18, WindowFields, 1 \in 0..1
  <1>22. /\ Same(shown) /\ shown.buf # w.buf
         /\ shown.refused \/ Panned(shown)
    BY <1>18, <1>19 DEF WindowType
  <1> HIDE DEF shown, b
  <1>23. b \in WindowType /\ Same(b) /\ b.buf # w.buf /\ (b.refused \/ Panned(b))
    BY <1>18, <1>19, <1>20, <1>21, <1>22
  <1> QED BY <1>23 DEF b, told

LEMMA SetBlits_Step == ComposerInv /\ Hwc!SetBlits => ComposerInv'
  <1> SUFFICES ASSUME ComposerInv, Hwc!SetBlits PROVE ComposerInv'
    OBVIOUS
  <1> DEFINE h == Hwc!Current
  <1>0. PICK bad : win' = [win EXCEPT ![next] =
          Hwc!window_show(Hwc!Flipped(Hwc!window_pan_display(Hwc!runFimc(win[next], h), bad)), bad)]
    BY DEF Hwc!SetBlits
  <1> DEFINE b ==
          Hwc!window_show(Hwc!Flipped(Hwc!window_pan_display(Hwc!runFimc(win[next], h), bad)), bad)
  <1>1. /\ Hwc!Setting /\ next' = next + 1 /\ win' = [win EXCEPT ![next] = b]
        /\ UNCHANGED <<list, comp, layers, place, skipped>> /\ Hwc!get_src_phys_addr(h, TRUE)
    BY <1>0 DEF Hwc!SetBlits
  <1>2. /\ next \in Windows /\ place = "set" /\ next \notin skipped /\ h \in Handles /\ h \in Nat
        /\ next <= layers /\ win[next] \in WindowType /\ h = list[win[next].index].handle
        /\ next' \in 1..3 /\ next' <= layers' + 1
    BY <1>1, TurnOf
  <1>3. /\ b \in WindowType /\ b.prev = h /\ (b.refused \/ (b.mem[b.pan] = h /\ b.buf # b.pan))
        /\ b.place = win[next].place /\ b.pos = win[next].pos /\ b.lost = win[next].lost
        /\ b.index = win[next].index /\ b.status = win[next].status
    BY <1>2, BlittedWindow
  <1>4. /\ s3c' \in [size : Nat, real : Nat, live : BOOLEAN, stale : BOOLEAN]
        /\ Hwc!CopyFits'
    BY <1>1, <1>2, SourceMemory
  <1> HIDE DEF b, h
  <1>5. win' \in [Windows -> WindowType] /\ win'[next] = b /\ \A w \in Windows : w # next => win'[w] = win[w]
    BY <1>1, <1>2, <1>3 DEF ComposerInv, ComposerTypes
  <1>6. ComposerTypes'
    <2>1. skipped' \subseteq {w \in Windows : w < next'}
      BY <1>1, <1>2 DEF ComposerInv, ComposerTypes, Windows
    <2> QED BY <1>1, <1>2, <1>4, <1>5, <2>1 DEF ComposerInv, ComposerTypes
  <1>7. Given'
    BY <1>1, <1>2, <1>3, <1>5 DEF ComposerInv, Given
  <1>8. Lies(b) /\ Whole(b) /\ Holds(b)
    BY <1>2, <1>3 DEF ComposerInv, OnScreen, Lies, Whole, Holds, Hwc!Obeyed
  <1>9. OnScreen'
    <2>1. ASSUME NEW w \in Windows
          PROVE  Lies(win'[w]) /\ Whole(win'[w]) /\ (w \notin skipped' => Holds(win'[w]))
      BY <1>1, <1>5, <1>8, OtherWindows
    <2> QED BY <2>1 DEF OnScreen, Lies, Whole, Holds
  <1>10. Composed'
    <2>1. ASSUME NEW w \in Windows, Done(w)', w <= layers', w \notin skipped', Hwc!Obeyed(win'[w])
          PROVE  win'[w].prev = list'[win'[w].index].handle
      <3>1. CASE w = next
        BY <1>1, <1>2, <1>3, <1>5, <3>1
      <3>2. CASE w # next
        BY <1>1, <1>5, <2>1, <3>2, OtherWindows
      <3> QED BY <3>1, <3>2
    <2> QED BY <2>1 DEF Composed, Done
  <1> QED BY <1>4, <1>6, <1>7, <1>9, <1>10 DEF ComposerInv

LEMMA SetFails_Step == ComposerInv /\ Hwc!SetFails => ComposerInv'
  <1> SUFFICES ASSUME ComposerInv, Hwc!SetFails PROVE ComposerInv'
    OBVIOUS
  <1> DEFINE h == Hwc!Current
             b == [win[next] EXCEPT !.prev = h]
  <1>1. /\ Hwc!Setting /\ next' = next + 1 /\ win' = [win EXCEPT ![next] = b]
        /\ skipped' = skipped \cup {next}
        /\ UNCHANGED <<list, comp, layers, place>>
        /\ \E memory \in BOOLEAN : Hwc!get_src_phys_addr(h, memory)
    BY DEF Hwc!SetFails
  <1>2. /\ next \in Windows /\ place = "set" /\ h \in Handles /\ h \in Nat
        /\ next <= layers /\ win[next] \in WindowType /\ next' \in 1..3 /\ next' <= layers' + 1
    BY <1>1, TurnOf
  <1>3. /\ b \in WindowType /\ b.buf = win[next].buf /\ b.pan = win[next].pan
        /\ b.power = win[next].power /\ b.refused = win[next].refused /\ b.fresh = win[next].fresh
        /\ b.place = win[next].place /\ b.pos = win[next].pos /\ b.lost = win[next].lost
        /\ b.index = win[next].index /\ b.status = win[next].status
    BY <1>2 DEF WindowType
  <1>4. /\ s3c' \in [size : Nat, real : Nat, live : BOOLEAN, stale : BOOLEAN]
        /\ Hwc!CopyFits'
    BY <1>1, <1>2, SourceMemory
  <1> HIDE DEF b, h
  <1>5. win' \in [Windows -> WindowType] /\ win'[next] = b /\ \A w \in Windows : w # next => win'[w] = win[w]
    BY <1>1, <1>2, <1>3 DEF ComposerInv, ComposerTypes
  <1>6. ComposerTypes'
    <2>1. skipped' \subseteq {w \in Windows : w < next'}
      BY <1>1, <1>2 DEF ComposerInv, ComposerTypes, Windows
    <2> QED BY <1>1, <1>2, <1>4, <1>5, <2>1 DEF ComposerInv, ComposerTypes
  <1>7. Given'
    BY <1>1, <1>2, <1>3, <1>5 DEF ComposerInv, Given
  <1>8. Lies(b) /\ Whole(b)
    BY <1>2, <1>3 DEF ComposerInv, OnScreen, Lies, Whole, Hwc!Obeyed
  <1>9. OnScreen'
    <2>1. ASSUME NEW w \in Windows
          PROVE  Lies(win'[w]) /\ Whole(win'[w]) /\ (w \notin skipped' => Holds(win'[w]))
      <3>1. CASE w = next
        BY <1>1, <1>5, <1>8, <3>1
      <3>2. CASE w # next
        BY <1>1, <1>5, <3>2, OtherWindows
      <3> QED BY <3>1, <3>2
    <2> QED BY <2>1 DEF OnScreen, Lies, Whole, Holds
  <1>10. Composed'
    <2>1. ASSUME NEW w \in Windows, Done(w)', w <= layers', w \notin skipped', Hwc!Obeyed(win'[w])
          PROVE  win'[w].prev = list'[win'[w].index].handle
      <3>1. w # next
        BY <1>1, <2>1
      <3> QED BY <1>1, <1>5, <2>1, <3>1, OtherWindows
    <2> QED BY <2>1 DEF Composed, Done
  <1> QED BY <1>4, <1>6, <1>7, <1>9, <1>10 DEF ComposerInv

LEMMA SetEnds_Step == ComposerInv /\ Hwc!SetEnds => ComposerInv'
  <1> SUFFICES ASSUME ComposerInv, Hwc!SetEnds PROVE ComposerInv'
    OBVIOUS
  <1>0. PICK stay : win' = [w \in Windows |->
                  IF w \in skipped THEN Hwc!window_hide(win[w], w \in stay) ELSE win[w]]
    BY DEF Hwc!SetEnds, Hwc!Wins, Hwc!NUM_OF_WIN, Windows
  <1>1. /\ place = "set" /\ next > layers /\ place' = "idle" /\ next' = 1 /\ skipped' = {}
        /\ win' = [w \in Windows |-> IF w \in skipped THEN Hwc!window_hide(win[w], w \in stay)
                                  ELSE win[w]]
        /\ UNCHANGED <<list, comp, layers, s3c>>
    BY <1>0 DEF Hwc!SetEnds
  <1>2. win \in [Windows -> WindowType] /\ layers \in 0..2 /\ next \in 1..3
    BY DEF ComposerInv, ComposerTypes
  <1>3. ASSUME NEW w \in Windows
        PROVE  /\ win'[w] \in WindowType /\ Lies(win'[w]) /\ Whole(win'[w]) /\ Holds(win'[w])
               /\ win'[w].index = win[w].index /\ win'[w].status = win[w].status
               /\ win'[w].place = win[w].place /\ win'[w].prev = win[w].prev
               /\ ~Hwc!Obeyed(win[w]) \/ w \in skipped => ~Hwc!Obeyed(win'[w])
    <2>1. win[w] \in WindowType /\ Lies(win[w]) /\ Whole(win[w]) /\ (w \notin skipped => Holds(win[w]))
      BY <1>2 DEF ComposerInv, OnScreen
    <2>2. CASE w \in skipped
      <3> DEFINE h == Hwc!window_hide(win[w], w \in stay)
      <3>1. win'[w] = h
        BY <1>1, <2>2
      <3>2. /\ h \in WindowType /\ ~Hwc!Obeyed(h) /\ h.place = win[w].place /\ h.pos = win[w].pos
            /\ h.lost = win[w].lost /\ h.prev = win[w].prev /\ h.index = win[w].index
            /\ h.status = win[w].status
        BY <2>1, HiddenWindow
      <3> HIDE DEF h
      <3> QED BY <2>1, <3>1, <3>2 DEF Lies, Whole, Holds
    <2>3. CASE w \notin skipped
      BY <1>1, <2>1, <2>3
    <2> QED BY <2>2, <2>3
  <1>4. ComposerTypes'
    <2>1. win' \in [Windows -> WindowType]
      BY <1>1, <1>3
    <2> QED BY <1>1, <1>2, <2>1 DEF ComposerInv, ComposerTypes
  <1>5. Given'
    BY <1>1, <1>3 DEF ComposerInv, Given
  <1>6. OnScreen'
    BY <1>3 DEF OnScreen, Lies, Whole, Holds
  <1>7. Composed'
    <2>1. ASSUME NEW w \in Windows, w <= layers, Hwc!Obeyed(win'[w])
          PROVE  win'[w].prev = list[win'[w].index].handle
      <3>1. w \notin skipped
        BY <1>3, <2>1
      <3>5. win'[w] = win[w]
        BY <1>1, <3>1
      <3>2. Done(w)
        BY <1>1, <1>2, <2>1 DEF Done, Windows
      <3> QED BY <2>1, <3>1, <3>2, <3>5 DEF ComposerInv, Composed
    <2> QED BY <1>1, <2>1 DEF Composed
  <1>8. Hwc!CopyFits'
    BY <1>1 DEF ComposerInv, Hwc!CopyFits
  <1> QED BY <1>4, <1>5, <1>6, <1>7, <1>8 DEF ComposerInv

LEMMA StepComposer == ComposerInv /\ [Hwc!Next]_Hwc!vars => ComposerInv'
  <1> SUFFICES ASSUME ComposerInv, [Hwc!Next]_Hwc!vars PROVE ComposerInv'
    OBVIOUS
  <1>1. CASE UNCHANGED Hwc!vars
    BY <1>1 DEF Hwc!vars, ComposerInv, ComposerTypes, Given, OnScreen, Composed, Done, Hwc!CopyFits
  <1>2. CASE Hwc!Next
    BY <1>2, Prepare_Step, PrepareSame_Step, SetNothing_Step, SetBegins_Step, SetSame_Step,
       SetBlits_Step, SetFails_Step, SetEnds_Step DEF Hwc!Next
  <1> QED BY <1>1, <1>2

\* For any lists of layers, any sizes of frames, and pans, placings, blanks and conversions
\* that the drivers refuse: between two compositions a window on the screen that the driver
\* panned and powered as it was told belongs to a layer of the list and shows its frame of
\* now where the layer is, the FIMC writes into the other buffer, and a frame is copied into
\* memory that is there and large enough (hwc_prepare, hwc_set, runFimc, checkMem).
THEOREM ComposerShowsItsFrames == Hwc!Spec => []ShowsItsFrames
  <1>1. ComposerInv => ShowsItsFrames
    <2> SUFFICES ASSUME ComposerInv PROVE ShowsItsFrames
      OBVIOUS
    <2>1. ASSUME place = "idle", NEW w \in Windows, Hwc!Obeyed(win[w])
          PROVE  /\ list # NoList /\ win[w].status = "reserved" /\ w <= layers
                 /\ comp[win[w].index] = "overlay"
                 /\ win[w].mem[win[w].pan] = list[win[w].index].handle
                 /\ win[w].pos = list[win[w].index].place \/ win[w].lost
      <3>1. w <= layers
        BY <2>1 DEF ComposerInv, Given
      <3>2. w \notin skipped
        BY <2>1 DEF ComposerInv, ComposerTypes, Windows
      <3>3. win[w].mem[win[w].pan] = win[w].prev
        BY <2>1, <3>2 DEF ComposerInv, OnScreen, Holds
      <3>4. win[w].prev = list[win[w].index].handle
        BY <2>1, <3>1, <3>2 DEF ComposerInv, Composed, Done
      <3> QED BY <2>1, <3>1, <3>3, <3>4 DEF ComposerInv, Given, OnScreen, Lies
    <2>2. Hwc!ShownIsCurrent
      BY <2>1 DEF Hwc!ShownIsCurrent, Hwc!Wins, Hwc!NUM_OF_WIN, Windows
    <2>3. Hwc!NeverTorn
      BY DEF Hwc!NeverTorn, Hwc!Wins, Hwc!NUM_OF_WIN, Windows, ComposerInv, OnScreen, Whole
    <2> QED BY <2>2, <2>3 DEF ShowsItsFrames, ComposerInv
  <1> QED BY <1>1, InitComposer, StepComposer, PTL DEF Hwc!Spec

-----------------------------------------------------------------------------
(* The audio capture                                                         *)

\* The frames from a + 1 to b.
Run(a, b) == [i \in 1..b - a |-> a + i]

LEMMA RunIsSeq ==
  ASSUME NEW a \in Nat, NEW b \in Nat, a <= b
  PROVE  Run(a, b) \in Seq(Nat) /\ Len(Run(a, b)) = b - a /\ \A i \in 1..b - a : Run(a, b)[i] = a + i
  <1>1. b - a \in Nat /\ \A i \in 1..b - a : a + i \in Nat
    OBVIOUS
  <1> QED BY <1>1 DEF Run

LEMMA IsRun ==
  ASSUME NEW a \in Nat, NEW b \in Nat, a <= b, NEW s \in Seq(Nat), Len(s) = b - a,
         \A i \in 1..b - a : s[i] = a + i
  PROVE  s = Run(a, b)
  <1> DEFINE r == Run(a, b)
  <1>1. r \in Seq(Nat) /\ Len(r) = b - a /\ \A i \in 1..b - a : r[i] = a + i
    BY RunIsSeq
  <1> HIDE DEF r
  <1>2. \A i \in 1..Len(s) : s[i] = r[i]
    BY <1>1
  <1>3. s = r
    BY <1>1, <1>2, SeqEqual
  <1> QED BY <1>3 DEF r

LEMMA RunJoin ==
  ASSUME NEW a \in Nat, NEW b \in Nat, NEW c \in Nat, a <= b, b <= c
  PROVE  Run(a, b) \o Run(b, c) = Run(a, c)
  <1> DEFINE s == Run(a, b)
             t == Run(b, c)
  <1>1. s \in Seq(Nat) /\ Len(s) = b - a /\ \A i \in 1..b - a : s[i] = a + i
    BY RunIsSeq
  <1>2. t \in Seq(Nat) /\ Len(t) = c - b /\ \A i \in 1..c - b : t[i] = b + i
    BY RunIsSeq
  <1> HIDE DEF s, t
  <1> DEFINE u == s \o t
  <1>3. /\ u \in Seq(Nat) /\ Len(u) = Len(s) + Len(t)
        /\ \A i \in 1..Len(s) + Len(t) : u[i] = IF i <= Len(s) THEN s[i] ELSE t[i - Len(s)]
    BY <1>1, <1>2, ConcatProperties
  <1> HIDE DEF u
  <1>4. ASSUME NEW i \in 1..c - a PROVE u[i] = a + i
    <2>1. CASE i <= b - a
      BY <1>1, <1>2, <1>3, <2>1
    <2>2. CASE i > b - a
      <3>1. u[i] = t[i - (b - a)] /\ i - (b - a) \in 1..c - b
        BY <1>1, <1>2, <1>3, <2>2
      <3> QED BY <1>2, <3>1
    <2> QED BY <2>1, <2>2
  <1>5. u = Run(a, c)
    <2>1. Len(u) = c - a /\ a <= c
      BY <1>1, <1>2, <1>3
    <2> QED BY <1>3, <1>4, <2>1, IsRun
  <1> QED BY <1>5 DEF s, t, u

\* The first frames of a run, and the others.
LEMMA RunCut ==
  ASSUME NEW a \in Nat, NEW b \in Nat, a <= b, NEW n \in 0..b - a
  PROVE  /\ Capture!First(Run(a, b), n) = Run(a, a + n)
         /\ Capture!Rest(Run(a, b), n) = Run(a + n, b)
  <1> DEFINE s == Run(a, b)
             f == SubSeq(s, 1, n)
             r == SubSeq(s, n + 1, Len(s))
  <1>1. s \in Seq(Nat) /\ Len(s) = b - a /\ \A i \in 1..b - a : s[i] = a + i
    BY RunIsSeq
  <1> HIDE DEF s
  <1>2. /\ f \in Seq(Nat) /\ Len(f) = n /\ \A i \in 1..n : f[i] = s[i]
        /\ r \in Seq(Nat) /\ Len(r) = b - a - n /\ \A i \in 1..b - a - n : r[i] = s[n + i]
    BY <1>1
  <1> HIDE DEF f, r
  <1>3. f = Run(a, a + n)
    <2>1. (a + n) - a = n /\ a + n \in Nat /\ a <= a + n /\ 1..n \subseteq 1..b - a
      OBVIOUS
    <2>2. Len(f) = (a + n) - a /\ \A i \in 1..(a + n) - a : f[i] = a + i
      BY <1>1, <1>2, <2>1
    <2> QED BY <1>2, <2>1, <2>2, IsRun
  <1>4. r = Run(a + n, b)
    <2>1. Len(r) = b - (a + n) /\ \A i \in 1..b - (a + n) : r[i] = a + n + i
      BY <1>1, <1>2
    <2>2. a + n \in Nat /\ a + n <= b
      OBVIOUS
    <2> QED BY <1>2, <2>1, <2>2, IsRun
  <1> QED BY <1>3, <1>4 DEF Capture!First, Capture!Rest, f, r, s

\* As many periods as it takes, and not one more.
LEMMA EnoughPeriods ==
  ASSUME NEW x \in Nat, NEW d \in Nat \ {0}
  PROVE  LET q == (x + d - 1) \div d IN q \in Nat /\ x <= d * q /\ d * q < x + d
  <1> DEFINE y == x + d - 1
             q == y \div d
  <1>1. y \in Nat
    OBVIOUS
  <1>2. q \in Nat /\ d * q <= y /\ y < d * q + d
    BY <1>1
  <1> QED BY <1>2

LEMMA BlockTurns ==
  ASSUME NEW d \in Nat \ {0}, NEW x \in 0..d
  PROVE  x % d = IF x = d THEN 0 ELSE x
  OBVIOUS
LEMMA BlockRest ==
  ASSUME NEW d \in Nat \ {0}, NEW x \in Nat, x <= d
  PROVE  x % d \in Nat /\ x % d < d
  OBVIOUS
LEMMA BlockApart ==
  ASSUME NEW d \in Nat \ {0}, NEW j \in Nat, NEW k \in Nat, j > k
  PROVE  d * j >= d * k + d
  OBVIOUS
LEMMA BlockNext ==
  ASSUME NEW d \in Nat, NEW j \in Nat
  PROVE  d * (j + 1) = d * j + d /\ d * j \in Nat
  OBVIOUS

-----------------------------------------------------------------------------
CaptureTypes ==
  /\ standby \in BOOLEAN /\ reference \in BOOLEAN /\ cut \in BOOLEAN /\ missing \in BOOLEAN
  /\ effects \subseteq Capture!Effects /\ reading \in {"idle", "read", "process"}
  /\ input \in Seq(Nat) /\ Len(input) < Period
  /\ proc \in Seq(Nat) /\ procSize \in Nat /\ ref \in Seq({"frame"}) /\ refSize \in Nat
  /\ fx \in [taken : Seq(Nat), made : Seq(Nat), reverse : Nat]
  /\ Len(fx.taken) < Block /\ fx.reverse < Block
  /\ wanted \in Nat /\ wrote \in Seq(Nat) /\ Len(wrote) <= wanted
  /\ captured \in Nat /\ last \in Nat /\ used \in [captured : Nat, reference : Nat]

\* A call is made on an open stream and asks for frames; its way was chosen by the effects.
CallsOK ==
  /\ reading # "idle" => ~standby /\ wanted # 0
  /\ reading = "read" => effects = {}
  /\ reading = "process" => Len(wrote) < wanted /\ effects # {}
  /\ reference => "aec" \in effects

\* What was captured and not given out, in the order of the buffers on its way.
Flowing ==
  ~cut =>
    /\ \E m \in Nat, t \in Nat, p \in Nat :
         /\ last <= m /\ m <= t /\ t <= p /\ p <= captured
         /\ fx.made = Run(last, m) /\ fx.taken = Run(m, t)
         /\ proc = Run(t, p) /\ input = Run(p, captured)
    /\ effects = {} => fx.made = << >> /\ fx.taken = << >> /\ proc = << >>

\* n is some blocks of d, and rest.
InBlocks(n, d, rest) == \E k \in Nat : n = d * k + rest
\* The canceller works on whole blocks, of both kinds.
Ahead ==
  /\ InBlocks(used.captured, Block, Len(fx.taken))
  /\ InBlocks(used.reference, Block, fx.reverse)
  /\ ~standby /\ reference /\ ~missing => used.reference >= used.captured

CaptureInv == CaptureTypes /\ CallsOK /\ Flowing /\ Capture!FramesFit /\ Ahead

LEMMA RunEmpty == ASSUME NEW a \in Nat PROVE Run(a, a) = << >>
  <1>1. Run(a, a) \in Seq(Nat) /\ Len(Run(a, a)) = 0
    BY RunIsSeq
  <1> QED BY <1>1, EmptySeq

-----------------------------------------------------------------------------
(* The operators of the capture                                              *)

\* A sequence is cut in two.
LEMMA SeqCut ==
  ASSUME NEW s \in Seq(Nat), NEW n \in 0..Len(s)
  PROVE  /\ Capture!First(s, n) \in Seq(Nat) /\ Len(Capture!First(s, n)) = n
         /\ Capture!Rest(s, n) \in Seq(Nat) /\ Len(Capture!Rest(s, n)) = Len(s) - n
         /\ n > 0 => Capture!First(s, n)[n] = s[n]
  <1> DEFINE f == SubSeq(s, 1, n)
             r == SubSeq(s, n + 1, Len(s))
  <1>1. Len(s) \in Nat /\ n \in Nat /\ \A i \in 1..Len(s) : s[i] \in Nat
    OBVIOUS
  <1>2. f \in Seq(Nat) /\ Len(f) = n
    BY <1>1
  <1>3. n > 0 => f[n] = s[n]
    BY <1>1
  <1>4. r \in Seq(Nat) /\ Len(r) = Len(s) - n
    BY <1>1
  <1> HIDE DEF f, r
  <1> QED BY <1>2, <1>3, <1>4 DEF Capture!First, Capture!Rest, f, r

\* readFrames gives what was asked for and keeps less than a period.
LEMMA FramesRead ==
  ASSUME CaptureTypes, NEW n \in Nat
  PROVE  LET r == Capture!ReadFrames(n)
             q == Capture!Periods(n)
         IN  /\ q \in Nat /\ captured + Period * q \in Nat
             /\ r.frames \in Seq(Nat) /\ Len(r.frames) = n
             /\ r.left \in Seq(Nat) /\ Len(r.left) < Period
             /\ \A p \in Nat : p <= captured /\ input = Run(p, captured) =>
                  /\ p + n <= captured + Period * q
                  /\ r.frames = Run(p, p + n) /\ r.left = Run(p + n, captured + Period * q)
  <1> DEFINE r == Capture!ReadFrames(n)
             q == Capture!Periods(n)
             x == n - Len(input)
             to == captured + Period * q
             all == input \o Run(captured, to)
  <1>1. input \in Seq(Nat) /\ Len(input) \in Nat /\ Len(input) < Period /\ Period \in Nat \ {0}
        /\ captured \in Nat
    BY CaptureAssumption DEF CaptureTypes
  <1>2. /\ q \in Nat /\ Period * q \in Nat /\ n <= Len(input) + Period * q
        /\ Len(input) + Period * q - n < Period
    <2>1. CASE n <= Len(input)
      <3>1. q = 0
        BY <2>1 DEF Capture!Periods
      <3>2. Period * 0 = 0
        BY <1>1
      <3> QED BY <1>1, <2>1, <3>1, <3>2
    <2>2. CASE ~(n <= Len(input))
      <3>1. x \in Nat /\ q = (x + Period - 1) \div Period
        BY <1>1, <2>2 DEF Capture!Periods
      <3>2. q \in Nat /\ x <= Period * q /\ Period * q < x + Period
        BY <1>1, <3>1, EnoughPeriods
      <3>3. Period * q \in Nat
        BY <1>1, <3>2
      <3> QED BY <1>1, <3>1, <3>2, <3>3
    <2> QED BY <2>1, <2>2
  <1>3. to \in Nat /\ captured <= to /\ to - captured = Period * q
    BY <1>1, <1>2
  <1>4. Run(captured, to) = [i \in 1..Period * q |-> captured + i]
    BY <1>3 DEF Run
  <1>5. r = [frames |-> Capture!First(all, n), left |-> Capture!Rest(all, n)]
    BY <1>4 DEF Capture!ReadFrames
  <1>6. Run(captured, to) \in Seq(Nat) /\ Len(Run(captured, to)) = Period * q
    BY <1>1, <1>3, RunIsSeq
  <1>7. all \in Seq(Nat) /\ Len(all) = Len(input) + Period * q
    BY <1>1, <1>6, ConcatProperties
  <1>8. ASSUME NEW p \in Nat, p <= captured, input = Run(p, captured)
        PROVE  /\ p + n <= to /\ r.frames = Run(p, p + n) /\ r.left = Run(p + n, to)
    <2>1. all = Run(p, to)
      BY <1>1, <1>3, <1>8, RunJoin
    <2>2. Len(input) = captured - p
      BY <1>1, <1>8, RunIsSeq
    <2>3. n \in 0..to - p /\ p <= to
      <3> DEFINE k == Period * q
      <3>1. k \in Nat /\ n <= Len(input) + k /\ to - captured = k /\ captured <= to /\ to \in Nat
        BY <1>2, <1>3
      <3> HIDE DEF k, to
      <3> QED BY <1>1, <1>8, <2>2, <3>1
    <2> HIDE DEF to, all
    <2> QED BY <1>3, <1>5, <2>1, <2>3, RunCut
  <1>9. n \in 0..Len(all)
    BY <1>1, <1>2, <1>7
  <1> HIDE DEF all
  <1>10. /\ r.frames \in Seq(Nat) /\ Len(r.frames) = n
         /\ r.left \in Seq(Nat) /\ Len(r.left) < Period
    <2>1. /\ Capture!First(all, n) \in Seq(Nat) /\ Len(Capture!First(all, n)) = n
          /\ Capture!Rest(all, n) \in Seq(Nat) /\ Len(Capture!Rest(all, n)) = Len(all) - n
      BY <1>7, <1>9, SeqCut
    <2>2. r.frames = Capture!First(all, n) /\ r.left = Capture!Rest(all, n)
      BY <1>5
    <2> HIDE DEF r, q
    <2> QED BY <1>2, <1>7, <2>1, <2>2
  <1> HIDE DEF r, q
  <1> QED BY <1>2, <1>3, <1>8, <1>10 DEF r, q

\* mProcBuf is filled up, and is large enough.
LEMMA FilledUp ==
  ASSUME CaptureTypes
  PROVE  LET f == Capture!Filled
             to == captured + Period * f.periods
         IN  /\ f.frames \in Seq(Nat) /\ f.left \in Seq(Nat) /\ Len(f.left) < Period
             /\ f.size \in Nat /\ to \in Nat
             /\ Len(proc) <= procSize => Len(f.frames) <= f.size
             /\ \A t \in Nat, p \in Nat :
                  t <= p /\ p <= captured /\ proc = Run(t, p) /\ input = Run(p, captured) =>
                    \E e \in Nat : /\ t <= e /\ e <= to
                                   /\ f.frames = Run(t, e) /\ f.left = Run(e, to)
  <1> DEFINE f == Capture!Filled
             to == captured + Period * f.periods
  <1>1. CASE Len(proc) >= wanted
    <2>1. f = [frames |-> proc, left |-> input, size |-> procSize, periods |-> 0]
      BY <1>1 DEF Capture!Filled
    <2>2. to = captured
      BY <2>1, CaptureAssumption DEF CaptureTypes
    <2> QED BY <2>1, <2>2 DEF CaptureTypes
  <1>2. CASE ~(Len(proc) >= wanted)
    <2> DEFINE n == wanted - Len(proc)
               r == Capture!ReadFrames(n)
    <2>1. f = [frames |-> proc \o r.frames, left |-> r.left, size |-> Capture!Most(procSize, wanted),
               periods |-> Capture!Periods(n)]
      BY <1>2 DEF Capture!Filled
    <2>2. n \in Nat /\ Len(proc) + n = wanted
      BY <1>2 DEF CaptureTypes
    <2> HIDE DEF n
    <2>3. /\ to \in Nat /\ r.frames \in Seq(Nat) /\ Len(r.frames) = n
          /\ r.left \in Seq(Nat) /\ Len(r.left) < Period
          /\ \A p \in Nat : p <= captured /\ input = Run(p, captured) =>
               p + n <= to /\ r.frames = Run(p, p + n) /\ r.left = Run(p + n, to)
      <3>1. f.periods = Capture!Periods(n)
        BY <2>1
      <3> QED BY <2>2, <3>1, FramesRead
    <2>4. proc \o r.frames \in Seq(Nat) /\ Len(proc \o r.frames) = wanted
      <3> HIDE DEF r
      <3> QED BY <2>2, <2>3, ConcatProperties DEF CaptureTypes
    <2>5. f.size \in Nat /\ Len(f.frames) <= f.size
      <3>1. f.size \in Nat /\ wanted <= f.size
        BY <2>1 DEF CaptureTypes, Capture!Most
      <3> QED BY <2>1, <2>4, <3>1
    <2>6. ASSUME NEW t \in Nat, NEW p \in Nat, t <= p, p <= captured, proc = Run(t, p),
                 input = Run(p, captured)
          PROVE  \E e \in Nat : /\ t <= e /\ e <= to /\ f.frames = Run(t, e) /\ f.left = Run(e, to)
      <3>1. p + n <= to /\ r.frames = Run(p, p + n) /\ r.left = Run(p + n, to)
        BY <2>3, <2>6
      <3>2. p + n \in Nat /\ p <= p + n /\ t <= p + n
        BY <2>2, <2>6
      <3>3. proc \o r.frames = Run(t, p + n)
        BY <2>6, <3>1, <3>2, RunJoin
      <3> QED BY <2>1, <3>1, <3>2, <3>3
    <2> HIDE DEF r, to
    <2>7. f.frames \in Seq(Nat) /\ f.left \in Seq(Nat) /\ Len(f.left) < Period
      BY <2>1, <2>3, <2>4
    <2> QED BY <2>3, <2>5, <2>6, <2>7 DEF to
  <1> QED BY <1>1, <1>2

\* The effects take frames up to a block, and give frames up to the room there is.
LEMMA EffectsRun ==
  ASSUME CaptureTypes, NEW frames \in Seq(Nat), NEW room \in Nat
  PROVE  LET p == Capture!Processed(frames, room) IN
         /\ p.rest \in Seq(Nat) /\ p.n \in Nat /\ p.n <= Len(frames) /\ Len(p.rest) = Len(frames) - p.n
         /\ p.out \in Seq(Nat) /\ Len(p.out) <= room
         /\ p.fx \in [taken : Seq(Nat), made : Seq(Nat), reverse : Nat]
         /\ p.fx.reverse = fx.reverse /\ Len(p.fx.taken) < Block
         /\ \/ Len(p.fx.taken) = Len(fx.taken) + p.n
            \/ Len(fx.taken) + p.n = Block /\ Len(p.fx.taken) = 0
         /\ \A l \in Nat, m \in Nat, t \in Nat, e \in Nat :
              /\ l <= m /\ m <= t /\ t <= e
              /\ fx.made = Run(l, m) /\ fx.taken = Run(m, t) /\ frames = Run(t, e)
              => LET g == l + Len(p.out) IN
                 /\ p.out = Run(l, g)
                 /\ \E m2 \in Nat, t2 \in Nat :
                      /\ g <= m2 /\ m2 <= t2 /\ t2 <= e
                      /\ p.fx.made = Run(g, m2) /\ p.fx.taken = Run(m2, t2) /\ p.rest = Run(t2, e)
  <1> DEFINE p == Capture!Processed(frames, room)
             n == Capture!Taken(Len(frames), room)
             head == Capture!First(frames, n)
             held == fx.taken \o head
             full == Len(held) = Block
             all == IF full THEN fx.made \o held ELSE fx.made
             o == Capture!Least(room, Len(all))
  <1>1. p = [rest |-> Capture!Rest(frames, n), out |-> Capture!First(all, o), n |-> n,
             fx |-> [fx EXCEPT !.taken = IF full THEN << >> ELSE held, !.made = Capture!Rest(all, o)]]
    BY DEF Capture!Processed
  <1>2. /\ fx.taken \in Seq(Nat) /\ fx.made \in Seq(Nat) /\ Len(fx.taken) \in Nat /\ Len(fx.taken) < Block
        /\ fx.reverse \in Nat /\ Block \in Nat \ {0} /\ Len(frames) \in Nat
        /\ fx = [taken |-> fx.taken, made |-> fx.made, reverse |-> fx.reverse]
    BY CaptureAssumption DEF CaptureTypes
  <1>3. n \in 0..Len(frames) /\ Len(fx.taken) + n <= Block
    BY <1>2 DEF Capture!Taken, Capture!Least
  <1> HIDE DEF n
  <1>4. /\ head \in Seq(Nat) /\ Len(head) = n
        /\ Capture!Rest(frames, n) \in Seq(Nat) /\ Len(Capture!Rest(frames, n)) = Len(frames) - n
    BY <1>3, SeqCut
  <1> HIDE DEF head
  <1>5. held \in Seq(Nat) /\ Len(held) = Len(fx.taken) + n
    BY <1>2, <1>4, ConcatProperties
  <1> HIDE DEF held
  <1>6. all \in Seq(Nat)
    BY <1>2, <1>5, ConcatProperties
  <1> HIDE DEF all
  <1>7. o \in 0..Len(all) /\ o <= room
    BY <1>6 DEF Capture!Least
  <1> HIDE DEF o
  <1>8. /\ Capture!First(all, o) \in Seq(Nat) /\ Len(Capture!First(all, o)) = o
        /\ Capture!Rest(all, o) \in Seq(Nat)
    BY <1>6, <1>7, SeqCut
  <1> DEFINE kept == IF full THEN << >> ELSE held
  <1>9. p.fx = [taken |-> IF full THEN << >> ELSE held, made |-> Capture!Rest(all, o),
                reverse |-> fx.reverse]
    <2>1. p.fx = [fx EXCEPT !.taken = kept, !.made = Capture!Rest(all, o)]
      BY <1>1
    <2> HIDE DEF kept
    <2>2. p.fx = [taken |-> kept, made |-> Capture!Rest(all, o), reverse |-> fx.reverse]
      BY <1>2, <2>1
    <2> QED BY <2>2 DEF kept
  <1>10. p.rest = Capture!Rest(frames, n) /\ p.out = Capture!First(all, o) /\ p.n = n
    BY <1>1
  <1> HIDE DEF p
  <1>11. ASSUME NEW l \in Nat, NEW m \in Nat, NEW t \in Nat, NEW e \in Nat,
                l <= m, m <= t, t <= e,
                fx.made = Run(l, m), fx.taken = Run(m, t), frames = Run(t, e)
         PROVE  LET g == l + Len(p.out) IN
                 /\ p.out = Run(l, g)
                 /\ \E m2 \in Nat, t2 \in Nat :
                      /\ g <= m2 /\ m2 <= t2 /\ t2 <= e
                      /\ p.fx.made = Run(g, m2) /\ p.fx.taken = Run(m2, t2) /\ p.rest = Run(t2, e)
    <2> DEFINE t2 == t + n
               g == l + o
    <2>1. Len(frames) = e - t
      BY <1>11, RunIsSeq
    <2>2. n \in 0..e - t /\ t2 \in Nat /\ t <= t2 /\ t2 <= e /\ m <= t2
      BY <1>3, <1>11, <2>1
    <2>3. head = Run(t, t2) /\ p.rest = Run(t2, e)
      BY <1>10, <1>11, <2>2, RunCut DEF head
    <2>4. held = Run(m, t2)
      <3>1. Run(m, t) \o Run(t, t2) = Run(m, t2)
        BY <1>11, <2>2, RunJoin
      <3> QED BY <1>11, <2>3, <3>1 DEF held
    <2> HIDE DEF t2
    <2>5. CASE full
      <3>1. all = Run(l, t2)
        <4>1. Run(l, m) \o Run(m, t2) = Run(l, t2)
          BY <1>11, <2>2, RunJoin
        <4> QED BY <1>11, <2>4, <2>5, <4>1 DEF all
      <3>2. o \in 0..t2 - l /\ l <= t2
        <4>1. l <= t2
          BY <1>11, <2>2
        <4>2. Len(all) = t2 - l
          BY <2>2, <3>1, <4>1, RunIsSeq
        <4> QED BY <1>7, <4>1, <4>2
      <3>3. Capture!First(all, o) = Run(l, g) /\ Capture!Rest(all, o) = Run(g, t2)
        BY <2>2, <3>1, <3>2, RunCut
      <3>4. p.fx.taken = Run(t2, t2) /\ p.fx.made = Run(g, t2)
        BY <1>9, <2>2, <2>5, <3>3, RunEmpty
      <3>5. g \in Nat /\ g <= t2 /\ Len(p.out) = o /\ p.out = Run(l, g)
        BY <1>8, <1>10, <2>2, <3>2, <3>3
      <3> QED BY <2>2, <2>3, <3>4, <3>5
    <2>6. CASE ~full
      <3>1. all = Run(l, m)
        BY <1>11, <2>6 DEF all
      <3>2. o \in 0..m - l
        BY <1>7, <1>11, <3>1, RunIsSeq
      <3>3. Capture!First(all, o) = Run(l, g) /\ Capture!Rest(all, o) = Run(g, m)
        BY <1>11, <3>1, <3>2, RunCut
      <3>4. p.fx.taken = Run(m, t2) /\ p.fx.made = Run(g, m)
        BY <1>9, <2>4, <2>6, <3>3
      <3>5. g \in Nat /\ g <= m /\ Len(p.out) = o /\ p.out = Run(l, g)
        BY <1>8, <1>10, <3>2, <3>3
      <3> QED BY <2>2, <2>3, <3>4, <3>5
    <2> QED BY <2>5, <2>6
  <1>12. /\ p.fx \in [taken : Seq(Nat), made : Seq(Nat), reverse : Nat]
         /\ p.fx.reverse = fx.reverse /\ Len(p.fx.taken) < Block
         /\ \/ Len(p.fx.taken) = Len(fx.taken) + n
            \/ Len(fx.taken) + n = Block /\ Len(p.fx.taken) = 0
    BY <1>2, <1>3, <1>5, <1>8, <1>9
  <1> QED BY <1>3, <1>4, <1>7, <1>8, <1>10, <1>11, <1>12 DEF p

-----------------------------------------------------------------------------
(* The calls of the capture                                                  *)

LEMMA InitCapture == Capture!Init => CaptureInv
  <1> SUFFICES ASSUME Capture!Init PROVE CaptureInv
    OBVIOUS
  <1>1. CaptureTypes
    <2>1. /\ standby \in BOOLEAN /\ reference \in BOOLEAN /\ cut \in BOOLEAN /\ missing \in BOOLEAN
          /\ effects \subseteq Capture!Effects /\ reading \in {"idle", "read", "process"}
      BY DEF Capture!Init
    <2>2. /\ input \in Seq(Nat) /\ Len(input) < Period
          /\ proc \in Seq(Nat) /\ procSize \in Nat /\ ref \in Seq({"frame"}) /\ refSize \in Nat
      BY CaptureAssumption, EmptySeq DEF Capture!Init
    <2>3. /\ fx \in [taken : Seq(Nat), made : Seq(Nat), reverse : Nat]
          /\ Len(fx.taken) < Block /\ fx.reverse < Block
      BY CaptureAssumption, EmptySeq DEF Capture!Init, Capture!NoFrames
    <2>4. /\ wanted \in Nat /\ wrote \in Seq(Nat) /\ Len(wrote) <= wanted
          /\ captured \in Nat /\ last \in Nat /\ used \in [captured : Nat, reference : Nat]
      BY EmptySeq DEF Capture!Init, Capture!NoneUsed
    <2> QED BY <2>1, <2>2, <2>3, <2>4 DEF CaptureTypes
  <1>2. CallsOK /\ Capture!FramesFit
    BY DEF Capture!Init, CallsOK, Capture!FramesFit
  <1>3. Flowing
    BY RunEmpty DEF Capture!Init, Capture!NoFrames, Flowing
  <1>4. Ahead
    <2>1. Block * 0 = 0
      BY CaptureAssumption
    <2> QED BY <2>1, EmptySeq DEF Capture!Init, Capture!NoFrames, Capture!NoneUsed, Ahead, InBlocks
  <1> QED BY <1>1, <1>2, <1>3, <1>4 DEF CaptureInv

\* A stream that is opened drops its own frames; the next frames follow the effects'.
LEMMA OpensEmpty ==
  ASSUME CaptureInv, Capture!Open, UNCHANGED <<effects, fx, last>>
  PROVE  /\ input' \in Seq(Nat) /\ Len(input') < Period
         /\ proc' \in Seq(Nat) /\ procSize' \in Nat /\ ref' \in Seq({"frame"}) /\ refSize' \in Nat
         /\ captured' \in Nat /\ cut' \in BOOLEAN /\ Capture!FramesFit' /\ Flowing'
  <1>1. /\ input' = << >> /\ procSize' = 0 /\ proc' = << >> /\ refSize' = 0 /\ ref' = << >>
        /\ cut' = (cut /\ fx.made \o fx.taken # << >>)
        /\ captured' = IF cut' THEN captured ELSE last + Len(fx.made) + Len(fx.taken)
    BY DEF Capture!Open
  <1>2. /\ last \in Nat /\ captured \in Nat /\ fx.made \in Seq(Nat) /\ fx.taken \in Seq(Nat)
        /\ Len(fx.made) \in Nat /\ Len(fx.taken) \in Nat /\ cut \in BOOLEAN
    BY DEF CaptureInv, CaptureTypes
  <1>3. captured' \in Nat /\ cut' \in BOOLEAN
    <2>1. last + Len(fx.made) + Len(fx.taken) \in Nat
      <3> DEFINE x == Len(fx.made)
                 y == Len(fx.taken)
      <3>1. last \in Nat /\ x \in Nat /\ y \in Nat
        BY <1>2
      <3> HIDE DEF x, y
      <3>2. last + x + y \in Nat
        BY <3>1
      <3> QED BY <3>2 DEF x, y
    <2>2. captured' \in Nat
      BY <1>1, <1>2, <2>1
    <2>3. cut' \in BOOLEAN
      BY <1>1, Zenon
    <2> QED BY <2>2, <2>3
  <1>4. Capture!FramesFit'
    BY <1>1 DEF Capture!FramesFit
  <1>5. Flowing'
    <2> SUFFICES ASSUME ~cut' PROVE Flowing'
      BY DEF Flowing
    <2>1. PICK m \in Nat, t \in Nat :
            /\ last <= m /\ m <= t /\ fx.made = Run(last, m) /\ fx.taken = Run(m, t)
            /\ effects = {} => fx.made = << >> /\ fx.taken = << >>
      <3>1. CASE cut
        <4>1. fx.made \o fx.taken = << >>
          BY <1>1, <3>1
        <4>2. fx.made = << >> /\ fx.taken = << >>
          BY <1>2, <4>1, ConcatSimplifications
        <4>3. Run(last, last) = << >>
          BY <1>2, RunEmpty
        <4> QED BY <1>2, <4>2, <4>3
      <3>2. CASE ~cut
        BY <3>2 DEF CaptureInv, Flowing
      <3> QED BY <3>1, <3>2
    <2>2. captured' = t
      <3>1. Len(fx.made) = m - last /\ Len(fx.taken) = t - m
        BY <1>2, <2>1, RunIsSeq
      <3>2. captured' = last + Len(fx.made) + Len(fx.taken)
        BY <1>1
      <3> QED BY <1>2, <2>1, <3>1, <3>2
    <2>3. Run(t, t) = << >>
      BY RunEmpty
    <2> QED BY <1>1, <2>1, <2>2, <2>3 DEF Flowing
  <1> QED BY <1>1, <1>3, <1>4, <1>5, CaptureAssumption, EmptySeq

LEMMA Start_Step ==
  ASSUME CaptureInv, Capture!Start, UNCHANGED <<effects, fx>>
  PROVE  /\ reference' \in BOOLEAN /\ (reference' => "aec" \in effects)
         /\ used' \in [captured : Nat, reference : Nat] /\ missing' \in BOOLEAN /\ Ahead'
  <1>1. reference' = FALSE \/ reference' = ("aec" \in effects)
    BY DEF Capture!Start
  <1>2. reference' \in BOOLEAN /\ (reference' => "aec" \in effects)
    <2>2. CASE "aec" \in effects
      <3>1. ("aec" \in effects) = TRUE
        BY <2>2
      <3>2. reference' = FALSE \/ reference' = TRUE
        BY ONLY <1>1, <3>1
      <3> QED BY <2>2, <3>2
    <2>3. CASE ~("aec" \in effects)
      <3>1. ("aec" \in effects) = FALSE
        BY <2>3
      <3>2. reference' = FALSE
        BY ONLY <1>1, <3>1
      <3> QED BY <3>2
    <2> QED BY <2>2, <2>3
  <1>3. /\ Len(fx.taken) \in Nat /\ fx.reverse \in Nat
        /\ used \in [captured : Nat, reference : Nat] /\ missing \in BOOLEAN
    BY DEF CaptureInv, CaptureTypes
  <1>4. CASE missing \/ used.reference < used.captured
    <2>1. /\ used' = [captured |-> Len(fx.taken), reference |-> fx.reverse]
          /\ missing' = (fx.reverse < Len(fx.taken))
      BY <1>4 DEF Capture!Start
    <2>2. Block * 0 = 0
      BY CaptureAssumption
    <2>3. /\ used'.captured = Block * 0 + Len(fx'.taken)
          /\ used'.reference = Block * 0 + fx'.reverse
      BY <1>3, <2>1, <2>2
    <2>4. ~missing' => used'.reference >= used'.captured
      <3>1. ~missing' => ~(fx.reverse < Len(fx.taken))
        BY <2>1, Zenon
      <3>2. ~(fx.reverse < Len(fx.taken)) => fx.reverse >= Len(fx.taken)
        BY <1>3
      <3>3. used'.captured = Len(fx.taken) /\ used'.reference = fx.reverse
        BY <2>1
      <3> QED BY <3>1, <3>2, <3>3
    <2>5. used' \in [captured : Nat, reference : Nat]
      <3> DEFINE x == Len(fx.taken)
                 y == fx.reverse
      <3>1. used' = [captured |-> x, reference |-> y]
        BY <2>1
      <3>2. x \in Nat /\ y \in Nat
        BY <1>3
      <3> HIDE DEF x, y
      <3> QED BY <3>1, <3>2
    <2>6. missing' \in BOOLEAN
      <3>1. (fx.reverse < Len(fx.taken)) \in BOOLEAN
        BY <1>3
      <3> QED BY <2>1, <3>1, Zenon
    <2> QED BY <1>2, <2>6, <2>3, <2>4, <2>5 DEF Ahead, InBlocks
  <1>5. CASE ~(missing \/ used.reference < used.captured)
    <2>1. UNCHANGED <<used, missing>>
      BY <1>5 DEF Capture!Start
    <2>2. used.reference >= used.captured
      BY <1>3, <1>5
    <2> QED BY <1>2, <1>3, <2>1, <2>2 DEF CaptureInv, Ahead
  <1> QED BY <1>4, <1>5

LEMMA Read_Step ==
  ASSUME CaptureInv, NEW n \in Requests, Capture!Read(n) PROVE CaptureInv'
  <1>1. /\ wanted' = n /\ wrote' = << >> /\ n \in Nat \ {0} /\ UNCHANGED <<effects, fx, last>>
        /\ reading' = IF effects = {} THEN "read" ELSE "process"
    BY CaptureAssumption DEF Capture!Read
  <1>2. CASE Capture!Start
    <2>1. standby' = FALSE /\ Capture!Open
      BY <1>2 DEF Capture!Start
    <2>2. /\ input' \in Seq(Nat) /\ Len(input') < Period
          /\ proc' \in Seq(Nat) /\ procSize' \in Nat /\ ref' \in Seq({"frame"}) /\ refSize' \in Nat
          /\ captured' \in Nat /\ cut' \in BOOLEAN /\ Capture!FramesFit' /\ Flowing'
      BY <1>1, <2>1, OpensEmpty
    <2>3. /\ reference' \in BOOLEAN /\ (reference' => "aec" \in effects)
          /\ used' \in [captured : Nat, reference : Nat] /\ missing' \in BOOLEAN /\ Ahead'
      BY <1>1, <1>2, Start_Step
    <2>4. CaptureTypes'
      <3>1. wanted' \in Nat /\ wrote' \in Seq(Nat) /\ Len(wrote') <= wanted'
        BY <1>1, EmptySeq
      <3> QED BY <1>1, <2>1, <2>2, <2>3, <3>1 DEF CaptureInv, CaptureTypes
    <2>5. CallsOK'
      <3>1. reading' = "process" => Len(wrote') < wanted'
        BY <1>1, EmptySeq
      <3> QED BY <1>1, <2>1, <2>3, <3>1 DEF CallsOK
    <2> QED BY <2>2, <2>3, <2>4, <2>5 DEF CaptureInv
  <1>3. CASE ~standby /\ ~Capture!Start
    <2>1. UNCHANGED <<standby, input, proc, procSize, ref, refSize, reference, captured, used, cut, missing>>
      BY <1>3 DEF Capture!Read, Capture!buffers
    <2>2. CaptureTypes'
      BY <1>1, <2>1, EmptySeq DEF CaptureInv, CaptureTypes
    <2>3. CallsOK'
      BY <1>1, <1>3, <2>1, EmptySeq DEF CaptureInv, CallsOK
    <2>4. Flowing' /\ Capture!FramesFit' /\ Ahead'
      BY <1>1, <2>1 DEF CaptureInv, Flowing, Capture!FramesFit, Ahead
    <2> QED BY <2>2, <2>3, <2>4 DEF CaptureInv
  <1> QED BY <1>2, <1>3 DEF Capture!Read

LEMMA Reopen_Step == CaptureInv /\ Capture!Reopen => CaptureInv'
  <1> SUFFICES ASSUME CaptureInv, Capture!Reopen PROVE CaptureInv'
    OBVIOUS
  <1>1. /\ Capture!Open
        /\ UNCHANGED <<standby, reference, effects, fx, reading, wanted, wrote, last, used, missing>>
    BY DEF Capture!Reopen, Capture!call
  <1>2. /\ input' \in Seq(Nat) /\ Len(input') < Period
        /\ proc' \in Seq(Nat) /\ procSize' \in Nat /\ ref' \in Seq({"frame"}) /\ refSize' \in Nat
        /\ captured' \in Nat /\ cut' \in BOOLEAN /\ Capture!FramesFit' /\ Flowing'
    BY <1>1, OpensEmpty
  <1>3. CaptureTypes'
    BY <1>1, <1>2 DEF CaptureInv, CaptureTypes
  <1>4. CallsOK' /\ Ahead'
    BY <1>1 DEF CaptureInv, CallsOK, Ahead
  <1> QED BY <1>2, <1>3, <1>4 DEF CaptureInv

LEMMA Direct_Step == CaptureInv /\ Capture!Direct => CaptureInv'
  <1> SUFFICES ASSUME CaptureInv, Capture!Direct PROVE CaptureInv'
    OBVIOUS
  <1> DEFINE r == Capture!ReadFrames(wanted)
             q == Capture!Periods(wanted)
             to == captured + Period * q
  <1>1. /\ reading = "read" /\ reading' = "idle" /\ wrote' = r.frames /\ input' = r.left
        /\ last' = r.frames[wanted] /\ captured' = to
        /\ UNCHANGED <<standby, proc, procSize, ref, refSize, reference, effects, fx, wanted, used, cut,
                       missing>>
    BY DEF Capture!Direct
  <1>2. ~standby /\ wanted # 0 /\ effects = {} /\ wanted \in Nat
    BY <1>1 DEF CaptureInv, CallsOK, CaptureTypes
  <1>3. /\ to \in Nat /\ r.frames \in Seq(Nat) /\ Len(r.frames) = wanted
        /\ r.left \in Seq(Nat) /\ Len(r.left) < Period
        /\ \A p \in Nat : p <= captured /\ input = Run(p, captured) =>
             p + wanted <= to /\ r.frames = Run(p, p + wanted) /\ r.left = Run(p + wanted, to)
    BY <1>2, FramesRead DEF CaptureInv
  <1> HIDE DEF r, to
  <1>4. CaptureTypes'
    <2>1. r.frames[wanted] \in Nat
      BY <1>2, <1>3
    <2> QED BY <1>1, <1>3, <2>1 DEF CaptureInv, CaptureTypes
  <1>5. CallsOK'
    BY <1>1 DEF CaptureInv, CallsOK
  <1>6. Flowing'
    <2> SUFFICES ASSUME ~cut PROVE Flowing'
      BY <1>1 DEF Flowing
    <2>1. PICK m \in Nat, t \in Nat, p \in Nat :
            /\ last <= m /\ m <= t /\ t <= p /\ p <= captured
            /\ fx.made = Run(last, m) /\ fx.taken = Run(m, t)
            /\ proc = Run(t, p) /\ input = Run(p, captured)
      BY <1>2 DEF CaptureInv, Flowing
    <2>2. fx.made = << >> /\ fx.taken = << >> /\ proc = << >>
      BY <1>2 DEF CaptureInv, Flowing
    <2> DEFINE g == p + wanted
    <2>3. g \in Nat /\ g <= to /\ r.frames = Run(p, g) /\ r.left = Run(g, to)
      BY <1>2, <1>3, <2>1
    <2>4. last' = g
      <3>1. r.frames[wanted] = p + wanted
        <4>1. g - p = wanted /\ p <= g
          BY <1>2
        <4>2. wanted \in 1..g - p
          BY <1>2, <4>1
        <4> QED BY <2>3, <4>1, <4>2, RunIsSeq
      <3> QED BY <1>1, <3>1
    <2>5. Run(g, g) = << >>
      BY <2>3, RunEmpty
    <2> HIDE DEF g
    <2> QED BY <1>1, <2>2, <2>3, <2>4, <2>5 DEF Flowing
  <1>7. Capture!FramesFit' /\ Ahead'
    BY <1>1 DEF CaptureInv, Capture!FramesFit, Ahead
  <1> QED BY <1>4, <1>5, <1>6, <1>7 DEF CaptureInv

LEMMA ReadFails_Step == CaptureInv /\ Capture!ReadFails => CaptureInv'
  <1> SUFFICES ASSUME CaptureInv, Capture!ReadFails PROVE CaptureInv'
    OBVIOUS
  <1>1. /\ reading' = "idle" /\ standby' = TRUE /\ reference' = FALSE
        /\ UNCHANGED <<input, proc, procSize, ref, refSize, effects, fx, wanted, wrote, captured, last, used,
                       cut, missing>>
    BY DEF Capture!ReadFails, Capture!buffers
  <1>2. CaptureTypes'
    BY <1>1 DEF CaptureInv, CaptureTypes
  <1>3. Flowing' /\ Ahead'
    BY <1>1 DEF CaptureInv, Flowing, Ahead
  <1> QED BY <1>1, <1>2, <1>3 DEF CaptureInv, CallsOK, Capture!FramesFit

LEMMA CaptureStandby_Step == CaptureInv /\ Capture!Standby => CaptureInv'
  <1> SUFFICES ASSUME CaptureInv, Capture!Standby PROVE CaptureInv'
    OBVIOUS
  <1>1. /\ reading = "idle" /\ standby' = TRUE /\ reference' = FALSE
        /\ UNCHANGED <<input, proc, procSize, ref, refSize, effects, fx, reading, wanted, wrote, captured, last,
                       used, cut, missing>>
    BY DEF Capture!Standby, Capture!buffers, Capture!call
  <1>2. CaptureTypes'
    BY <1>1 DEF CaptureInv, CaptureTypes
  <1>3. Flowing' /\ Ahead'
    BY <1>1 DEF CaptureInv, Flowing, Ahead
  <1> QED BY <1>1, <1>2, <1>3 DEF CaptureInv, CallsOK, Capture!FramesFit

LEMMA AddEffect_Step ==
  ASSUME CaptureInv, NEW e \in Capture!Effects, Capture!AddEffect(e) PROVE CaptureInv'
  <1>1. /\ reading = "idle" /\ effects' = effects \cup {e}
        /\ standby' = (standby \/ e = "aec") /\ reference' = (reference /\ e # "aec")
        /\ UNCHANGED <<input, proc, procSize, ref, refSize, fx, reading, wanted, wrote, captured, last,
                       used, cut, missing>>
    BY DEF Capture!AddEffect, Capture!buffers, Capture!call
  <1>2. CaptureTypes'
    BY <1>1 DEF CaptureInv, CaptureTypes
  <1>3. CallsOK'
    BY <1>1 DEF CaptureInv, CallsOK
  <1>4. Flowing'
    BY <1>1 DEF CaptureInv, Flowing
  <1> QED BY <1>1, <1>2, <1>3, <1>4 DEF CaptureInv, Capture!FramesFit, Ahead

\* The last effect takes what it holds with it.
LEMMA RemoveEffect_Step ==
  ASSUME CaptureInv, NEW e \in Capture!Effects, Capture!RemoveEffect(e) PROVE CaptureInv'
  <1>1. /\ reading = "idle" /\ effects' = effects \ {e} /\ e \in effects
        /\ standby' = (standby \/ e = "aec") /\ reference' = (reference /\ e # "aec")
        /\ cut' = (cut \/ (effects' = {} /\ proc \o fx.taken \o fx.made # << >>))
        /\ fx' = IF effects' = {} THEN [taken |-> << >>, made |-> << >>, reverse |-> 0] ELSE fx
        /\ used' = IF effects' = {} THEN [captured |-> 0, reference |-> 0] ELSE used
        /\ missing' = IF effects' = {} THEN FALSE ELSE missing
        /\ UNCHANGED <<input, proc, procSize, ref, refSize, reading, wanted, wrote, captured, last>>
    BY DEF Capture!RemoveEffect, Capture!buffers, Capture!call, Capture!NoFrames, Capture!NoneUsed
  <1>2. CaptureTypes'
    <2>1. cut' \in BOOLEAN
      BY <1>1 DEF CaptureInv, CaptureTypes
    <2>2. /\ fx' \in [taken : Seq(Nat), made : Seq(Nat), reverse : Nat]
          /\ Len(fx'.taken) < Block /\ fx'.reverse < Block
      BY <1>1, CaptureAssumption DEF CaptureInv, CaptureTypes
    <2>3. used' \in [captured : Nat, reference : Nat] /\ missing' \in BOOLEAN
      BY <1>1 DEF CaptureInv, CaptureTypes
    <2> QED BY <1>1, <2>1, <2>2, <2>3 DEF CaptureInv, CaptureTypes
  <1>3. CallsOK'
    BY <1>1 DEF CaptureInv, CallsOK
  <1>4. Flowing'
    <2> SUFFICES ASSUME ~cut' PROVE Flowing'
      BY DEF Flowing
    <2>1. ~cut
      BY <1>1
    <2>2. PICK m \in Nat, t \in Nat, p \in Nat :
            /\ last <= m /\ m <= t /\ t <= p /\ p <= captured
            /\ fx.made = Run(last, m) /\ fx.taken = Run(m, t)
            /\ proc = Run(t, p) /\ input = Run(p, captured)
      BY <2>1 DEF CaptureInv, Flowing
    <2>3. CASE effects' = {}
      <3>1. proc \o fx.taken \o fx.made = << >>
        BY <1>1, <2>3
      <3>2. proc \in Seq(Nat) /\ fx.taken \in Seq(Nat) /\ fx.made \in Seq(Nat)
        BY DEF CaptureInv, CaptureTypes
      <3>3. proc \o fx.taken \in Seq(Nat)
        BY <3>2, ConcatProperties
      <3>4. proc \o fx.taken = << >> /\ fx.made = << >>
        BY <3>1, <3>2, <3>3, ConcatSimplifications
      <3>5. proc = << >> /\ fx.taken = << >>
        BY <3>2, <3>4, ConcatSimplifications
      <3>6. fx'.made = fx.made /\ fx'.taken = fx.taken
        BY <1>1, <2>3, <3>4, <3>5
      <3> QED BY <1>1, <2>2, <3>4, <3>5, <3>6 DEF Flowing
    <2>4. CASE effects' # {}
      BY <1>1, <2>1, <2>2, <2>4 DEF Flowing
    <2> QED BY <2>3, <2>4
  <1>5. Ahead'
    <2>1. CASE effects' = {}
      <3>1. Block * 0 = 0
        BY CaptureAssumption
      <3>2. /\ used'.captured = Block * 0 + Len(fx'.taken) /\ used'.reference = Block * 0 + fx'.reverse
            /\ used'.reference >= used'.captured
        BY <1>1, <2>1, <3>1, EmptySeq
      <3> QED BY <3>2 DEF Ahead, InBlocks
    <2>2. CASE effects' # {}
      BY <1>1, <2>2 DEF CaptureInv, Ahead
    <2> QED BY <2>1, <2>2
  <1> QED BY <1>1, <1>2, <1>3, <1>4, <1>5 DEF CaptureInv, Capture!FramesFit

\* The reference stays ahead when it has as many frames as were captured: of a captured and b
\* reference frames, t and v are in a block that is not full; c and r more are taken.
LEMMA StaysAhead ==
  ASSUME NEW d \in Nat \ {0}, NEW a \in Nat, NEW b \in Nat, NEW t \in Nat, NEW v \in Nat,
         t < d, v < d, InBlocks(a, d, t), InBlocks(b, d, v),
         NEW len \in Nat, NEW c \in 0..len, NEW u \in Nat, NEW r \in Nat,
         (u = t + c /\ u < d) \/ (t + c = d /\ u = 0), v + r <= d
  PROVE  /\ InBlocks(a + c, d, u) /\ InBlocks(b + r, d, (v + r) % d)
         /\ b >= a /\ (r = len \/ v + r = d) => b + r >= a + c
  <1> PICK k \in Nat : a = d * k + t
    BY DEF InBlocks
  <1> PICK j \in Nat : b = d * j + v
    BY DEF InBlocks
  <1>1. /\ d * j \in Nat /\ d * k \in Nat
        /\ d * (j + 1) = d * j + d /\ d * (k + 1) = d * k + d
    BY BlockNext
  <1>2. /\ j > k => d * j >= d * k + d
        /\ k > j => d * k >= d * j + d
    BY BlockApart
  <1>3. (v + r) % d = IF v + r = d THEN 0 ELSE v + r
    <2> DEFINE z == v + r
    <2>1. z \in 0..d
      OBVIOUS
    <2> HIDE DEF z
    <2>2. z % d = IF z = d THEN 0 ELSE z
      BY <2>1, BlockTurns
    <2> QED BY <2>2 DEF z
  <1> DEFINE x == d * k
             y == d * j
             j2 == IF v + r = d THEN j + 1 ELSE j
             k2 == IF t + c = d THEN k + 1 ELSE k
             x2 == d * k2
             y2 == d * j2
  <1>4. j2 \in Nat /\ k2 \in Nat
    OBVIOUS
  <1>5. /\ x \in Nat /\ y \in Nat /\ a = x + t /\ b = y + v
        /\ (j > k => y >= x + d) /\ (k > j => x >= y + d) /\ (j = k => x = y)
    BY <1>1, <1>2
  <1>6. x2 = (IF t + c = d THEN x + d ELSE x) /\ y2 = (IF v + r = d THEN y + d ELSE y)
    BY <1>1
  <1> HIDE DEF x, y, x2, y2, j2, k2
  <1>7. a + c = x2 + u
    BY <1>5, <1>6
  <1>8. b + r = y2 + ((v + r) % d)
    <2> DEFINE z == (v + r) % d
    <2>1. z = IF v + r = d THEN 0 ELSE v + r
      BY <1>3
    <2> HIDE DEF z
    <2>2. v + r = d => y2 = y + v + r /\ z = 0
      BY <1>5, <1>6, <2>1
    <2>3. v + r # d => y2 = y /\ z = v + r
      BY <1>6, <2>1
    <2>4. b + r = y2 + z
      BY <1>5, <2>2, <2>3
    <2> QED BY <2>4 DEF z
  <1>9. ASSUME b >= a, r = len \/ v + r = d PROVE b + r >= a + c
    <2>1. CASE j = k
      BY <1>5, <1>9, <2>1
    <2>2. CASE j > k
      BY <1>5, <1>9, <2>2
    <2>3. CASE k > j
      BY <1>5, <1>9, <2>3
    <2> QED BY <2>1, <2>2, <2>3
  <1> QED BY <1>4, <1>7, <1>8, <1>9 DEF x2, y2, InBlocks

LEMMA Pass_Step ==
  ASSUME CaptureInv, NEW refOk \in BOOLEAN, Capture!Pass(refOk) PROVE CaptureInv'
  <1> DEFINE f == Capture!Filled
             len == Len(f.frames)
             lacks == IF reference THEN Capture!Lacks(len) ELSE 0
             held == Len(ref) + (IF refOk THEN lacks ELSE 0)
             back == IF reference THEN Capture!Reversed(Capture!Least(held, len)) ELSE 0
             room == wanted - Len(wrote)
             p == Capture!Processed(f.frames, room)
             to == captured + Period * f.periods
  <1>1. /\ reading = "process" /\ ~refOk => lacks > 0
        /\ input' = f.left /\ captured' = to /\ procSize' = f.size
        /\ refSize' = IF lacks > 0 THEN Capture!Most(refSize, len) ELSE refSize
        /\ ref' = [i \in 1..held - back |-> "frame"]
        /\ missing' = (missing \/ ~refOk) /\ proc' = p.rest
        /\ fx' = [p.fx EXCEPT !.reverse = (@ + back) % Block]
        /\ used' = [captured |-> used.captured + p.n, reference |-> used.reference + back]
        /\ wrote' = wrote \o p.out
        /\ last' = IF p.out = << >> THEN last ELSE p.out[Len(p.out)]
        /\ reading' = IF Len(wrote') = wanted THEN "idle" ELSE "process"
        /\ UNCHANGED <<standby, reference, effects, wanted, cut>>
    BY DEF Capture!Pass
  <1>19. reading = "process" /\ effects' = effects
    BY DEF Capture!Pass
  <1>2. /\ ~standby /\ wanted # 0 /\ wanted \in Nat /\ Len(wrote) < wanted /\ wrote \in Seq(Nat)
        /\ room \in Nat
    <2>1. ~standby /\ wanted # 0 /\ Len(wrote) < wanted
      BY <1>19 DEF CaptureInv, CallsOK
    <2>2. wanted \in Nat /\ wrote \in Seq(Nat) /\ Len(wrote) \in Nat
      BY DEF CaptureInv, CaptureTypes
    <2> QED BY <2>1, <2>2
  <1>3. /\ f.frames \in Seq(Nat) /\ f.left \in Seq(Nat) /\ Len(f.left) < Period
        /\ f.size \in Nat /\ to \in Nat /\ len <= f.size
        /\ \A t \in Nat, q \in Nat :
             t <= q /\ q <= captured /\ proc = Run(t, q) /\ input = Run(q, captured) =>
               \E e \in Nat : t <= e /\ e <= to /\ f.frames = Run(t, e) /\ f.left = Run(e, to)
    BY <1>2, FilledUp DEF CaptureInv, Capture!FramesFit
  <1> HIDE DEF f, to
  <1>4. /\ p.rest \in Seq(Nat) /\ p.n \in Nat /\ p.n <= len /\ Len(p.rest) = len - p.n
        /\ p.out \in Seq(Nat) /\ Len(p.out) <= room
        /\ p.fx \in [taken : Seq(Nat), made : Seq(Nat), reverse : Nat]
        /\ p.fx.reverse = fx.reverse /\ Len(p.fx.taken) < Block
        /\ \/ Len(p.fx.taken) = Len(fx.taken) + p.n
           \/ Len(fx.taken) + p.n = Block /\ Len(p.fx.taken) = 0
        /\ \A l \in Nat, m \in Nat, t \in Nat, e \in Nat :
             /\ l <= m /\ m <= t /\ t <= e
             /\ fx.made = Run(l, m) /\ fx.taken = Run(m, t) /\ f.frames = Run(t, e)
             => LET g == l + Len(p.out) IN
                /\ p.out = Run(l, g)
                /\ \E m2 \in Nat, t2 \in Nat :
                     /\ g <= m2 /\ m2 <= t2 /\ t2 <= e
                     /\ p.fx.made = Run(g, m2) /\ p.fx.taken = Run(m2, t2) /\ p.rest = Run(t2, e)
    BY <1>2, <1>3, EffectsRun DEF CaptureInv
  <1> HIDE DEF p, room
  <1>5. /\ len \in Nat /\ Len(ref) \in Nat /\ fx.reverse \in Nat /\ fx.reverse < Block /\ Block \in Nat \ {0}
        /\ refSize \in Nat
    BY <1>3, CaptureAssumption DEF CaptureInv, CaptureTypes
  <1> HIDE DEF len
  <1>6. /\ lacks \in Nat /\ held \in Nat /\ back \in Nat /\ back <= held /\ fx.reverse + back \in 0..Block
        /\ held <= Len(ref) \/ (lacks > 0 /\ held <= len)
        /\ reference /\ refOk => held >= len
    BY <1>5 DEF Capture!Lacks, Capture!Most, Capture!Least, Capture!Reversed
  <1>7. (fx.reverse + back) % Block \in Nat /\ (fx.reverse + back) % Block < Block
    <2> DEFINE x == fx.reverse + back
    <2>1. x \in Nat /\ x <= Block
      BY <1>5, <1>6
    <2> HIDE DEF x
    <2> QED BY <1>5, <2>1, BlockRest DEF x
  <1>8. /\ fx'.taken = p.fx.taken /\ fx'.made = p.fx.made /\ fx'.reverse = (fx.reverse + back) % Block
        /\ fx' \in [taken : Seq(Nat), made : Seq(Nat), reverse : Nat]
    BY <1>1, <1>4, <1>7
  <1>9. ref' \in Seq({"frame"}) /\ Len(ref') = held - back
    <2>1. held - back \in Nat
      BY <1>6
    <2> HIDE DEF held, back
    <2> QED BY <1>1, <2>1
  <1>10. wrote' \in Seq(Nat) /\ Len(wrote') = Len(wrote) + Len(p.out) /\ Len(wrote') <= wanted
    BY <1>1, <1>2, <1>4, ConcatProperties DEF room
  <1>11. last' \in Nat
    <2>1. last \in Nat
      BY DEF CaptureInv, CaptureTypes
    <2>2. p.out # << >> => p.out[Len(p.out)] \in Nat
      BY <1>4, SMTT(30)
    <2> QED BY <1>1, <2>1, <2>2
  <1>12. refSize' \in Nat /\ Len(ref') <= refSize'
    <2>1. Len(ref) <= refSize
      BY <1>2 DEF CaptureInv, Capture!FramesFit
    <2> HIDE DEF lacks, held, back
    <2> QED BY <1>1, <1>5, <1>6, <1>9, <2>1 DEF Capture!Most
  <1>13. used' \in [captured : Nat, reference : Nat]
    <2>1. used \in [captured : Nat, reference : Nat]
      BY DEF CaptureInv, CaptureTypes
    <2>2. back \in Nat /\ p.n \in Nat
      BY <1>4, <1>6
    <2> HIDE DEF back
    <2>3. used.captured + p.n \in Nat /\ used.reference + back \in Nat
      BY <2>1, <2>2
    <2> QED BY <1>1, <2>3
  <1>14. CaptureTypes'
    <2>1. /\ standby' \in BOOLEAN /\ reference' \in BOOLEAN /\ cut' \in BOOLEAN /\ missing' \in BOOLEAN
          /\ effects' \subseteq Capture!Effects /\ reading' \in {"idle", "read", "process"}
      BY <1>1 DEF CaptureInv, CaptureTypes
    <2>2. input' \in Seq(Nat) /\ Len(input') < Period /\ procSize' \in Nat /\ captured' \in Nat
      BY <1>1, <1>3
    <2>3. proc' \in Seq(Nat) /\ Len(fx'.taken) < Block /\ fx'.reverse < Block
      BY <1>1, <1>4, <1>7, <1>8
    <2>4. wanted' \in Nat /\ Len(wrote') <= wanted'
      BY <1>1, <1>2, <1>10
    <2> HIDE DEF lacks, held, back
    <2> QED BY <1>8, <1>9, <1>10, <1>11, <1>12, <1>13, <2>1, <2>2, <2>3, <2>4 DEF CaptureTypes
  <1>15. CallsOK'
    <2>1. reading' # "read"
      BY <1>1
    <2>2. reading' = "process" => Len(wrote') < wanted' /\ effects' # {}
      <3>1. reading' = "process" => Len(wrote') # wanted
        BY <1>1
      <3>2. effects' # {}
        BY <1>19 DEF CaptureInv, CallsOK
      <3>3. Len(wrote') \in Nat /\ wanted' = wanted
        BY <1>1, <1>10
      <3>4. Len(wrote') # wanted => Len(wrote') < wanted
        <4> DEFINE x == Len(wrote')
        <4>1. x \in Nat /\ wanted \in Nat /\ x <= wanted
          BY <1>2, <1>10, <3>3
        <4> HIDE DEF x
        <4>2. x # wanted => x < wanted
          BY <4>1
        <4> QED BY <4>2 DEF x
      <3> QED BY <3>1, <3>2, <3>3, <3>4
    <2>3. (reading' # "idle" => ~standby' /\ wanted' # 0) /\ (reference' => "aec" \in effects')
      BY <1>1, <1>2 DEF CaptureInv, CallsOK
    <2> QED BY <2>1, <2>2, <2>3 DEF CallsOK
  <1>16. Flowing'
    <2> SUFFICES ASSUME ~cut PROVE Flowing'
      BY <1>1 DEF Flowing
    <2>1. PICK m \in Nat, t \in Nat, q \in Nat :
            /\ last <= m /\ m <= t /\ t <= q /\ q <= captured
            /\ fx.made = Run(last, m) /\ fx.taken = Run(m, t)
            /\ proc = Run(t, q) /\ input = Run(q, captured)
      BY <1>2 DEF CaptureInv, Flowing
    <2>2. PICK e \in Nat : t <= e /\ e <= to /\ f.frames = Run(t, e) /\ f.left = Run(e, to)
      BY <1>3, <2>1
    <2> DEFINE g == last + Len(p.out)
    <2>3. last \in Nat
      BY DEF CaptureInv, CaptureTypes
    <2>4. /\ p.out = Run(last, g)
          /\ \E m2 \in Nat, t2 \in Nat :
               /\ g <= m2 /\ m2 <= t2 /\ t2 <= e
               /\ p.fx.made = Run(g, m2) /\ p.fx.taken = Run(m2, t2) /\ p.rest = Run(t2, e)
      BY <1>4, <2>1, <2>2, <2>3
    <2>5. g \in Nat /\ last <= g /\ g - last = Len(p.out)
      BY <1>4, <2>3
    <2>6. last' = g
      <3>1. CASE p.out = << >>
        BY <1>1, <2>3, <2>5, <3>1, EmptySeq
      <3>2. CASE p.out # << >>
        <4>1. Len(p.out) \in 1..g - last
          BY <1>4, <2>5, <3>2, EmptySeq, SMTT(30)
        <4>2. p.out[Len(p.out)] = last + Len(p.out)
          <5>1. Run(last, g)[Len(p.out)] = last + Len(p.out)
            BY <2>3, <2>5, <4>1, RunIsSeq
          <5> QED BY <2>4, <5>1
        <4> QED BY <1>1, <3>2, <4>2
      <3> QED BY <3>1, <3>2
    <2> HIDE DEF g
    <2>7. effects' # {}
      BY <1>19 DEF CaptureInv, CallsOK
    <2> QED BY <1>1, <1>8, <2>2, <2>4, <2>5, <2>6, <2>7 DEF Flowing
  <1>17. Capture!FramesFit'
    <2>1. Len(proc') <= procSize'
      BY <1>1, <1>3, <1>4, <1>5, SMTT(30)
    <2> QED BY <1>12, <2>1 DEF Capture!FramesFit
  <1>18. Ahead'
    <2>1. reference /\ refOk => back = Capture!Least(Block - fx.reverse, len)
      <3> SUFFICES ASSUME reference, refOk PROVE back = Capture!Least(Block - fx.reverse, len)
        OBVIOUS
      <3>1. Capture!Least(held, len) = len
        BY <1>5, <1>6 DEF Capture!Least
      <3> HIDE DEF held
      <3> QED BY <3>1 DEF Capture!Reversed
    <2>2. /\ InBlocks(used.captured, Block, Len(fx.taken))
          /\ InBlocks(used.reference, Block, fx.reverse)
          /\ reference /\ ~missing => used.reference >= used.captured
      BY <1>2 DEF CaptureInv, Ahead
    <2>3. /\ Len(fx.taken) \in Nat /\ Len(fx.taken) < Block
          /\ used.captured \in Nat /\ used.reference \in Nat
      BY DEF CaptureInv, CaptureTypes
    <2>4. p.n \in 0..len /\ Len(p.fx.taken) \in Nat
      BY <1>4, <1>5
    <2>5. reference /\ refOk => back = len \/ fx.reverse + back = Block
      <3> HIDE DEF back
      <3> QED BY <1>5, <2>1 DEF Capture!Least
    <2>6. /\ (Len(p.fx.taken) = Len(fx.taken) + p.n /\ Len(p.fx.taken) < Block)
             \/ (Len(fx.taken) + p.n = Block /\ Len(p.fx.taken) = 0)
          /\ fx.reverse + back <= Block /\ back \in Nat
      BY <1>4, <1>6
    <2> HIDE DEF back, held, lacks
    <2> DEFINE a == used.captured
               b == used.reference
               t == Len(fx.taken)
               v == fx.reverse
               c == p.n
               u == Len(p.fx.taken)
    <2>7. /\ Block \in Nat \ {0} /\ len \in Nat /\ back \in Nat /\ a \in Nat /\ b \in Nat
          /\ t \in Nat /\ v \in Nat /\ t < Block /\ v < Block
          /\ InBlocks(a, Block, t) /\ InBlocks(b, Block, v) /\ c \in 0..len /\ u \in Nat
          /\ (u = t + c /\ u < Block) \/ (t + c = Block /\ u = 0)
          /\ v + back <= Block
      BY <1>5, <2>2, <2>3, <2>4, <2>6
    <2>10. reference /\ ~missing /\ refOk => b >= a /\ (back = len \/ v + back = Block)
      BY <2>2, <2>5
    <2> HIDE DEF a, b, t, v, c, u
    <2>8. /\ InBlocks(a + c, Block, u) /\ InBlocks(b + back, Block, (v + back) % Block)
          /\ b >= a /\ (back = len \/ v + back = Block) => b + back >= a + c
      BY ONLY <2>7, StaysAhead
    <2>9. used'.captured = a + c /\ used'.reference = b + back /\ fx'.reverse = (v + back) % Block
          /\ Len(fx'.taken) = u /\ missing' = (missing \/ ~refOk) /\ reference' = reference
      BY <1>1, <1>8 DEF a, b, c, v, u
    <2> QED BY <2>8, <2>9, <2>10 DEF Ahead
  <1> QED BY <1>14, <1>15, <1>16, <1>17, <1>18 DEF CaptureInv

LEMMA StepCapture == CaptureInv /\ [Capture!Next]_Capture!vars => CaptureInv'
  <1> SUFFICES ASSUME CaptureInv, [Capture!Next]_Capture!vars PROVE CaptureInv'
    OBVIOUS
  <1>1. CASE UNCHANGED Capture!vars
    BY <1>1 DEF Capture!vars, Capture!buffers, Capture!call, CaptureInv, CaptureTypes, CallsOK, Flowing,
                Capture!FramesFit, Ahead
  <1>2. CASE Capture!Next
    BY <1>2, Read_Step, Reopen_Step, Direct_Step, Pass_Step, ReadFails_Step, CaptureStandby_Step, AddEffect_Step,
       RemoveEffect_Step DEF Capture!Next
  <1> QED BY <1>1, <1>2

\* For any period, any requests and any block of the effects: a client hears every captured
\* frame once and in order, but those that open_l drops from the stream's own buffers;
\* mProcBuf and mRefBuf hold what is put into them, and the echo canceller, once it has as much
\* reference as captured frames, keeps it so while the reference gives frames (open_l,
\* readFrames, processFrames, updateEchoReference, pushEchoReference, write of the output).
THEOREM CaptureFlows == Capture!Spec => []FramesArrive
  <1>1. CaptureInv => FramesArrive
    <2> SUFFICES ASSUME CaptureInv PROVE FramesArrive
      OBVIOUS
    <2>1. Capture!TypeOK
      <3>1. fx.reverse \in Nat /\ fx.reverse < Block /\ Block \in Nat
        BY CaptureAssumption DEF CaptureInv, CaptureTypes
      <3>2. fx.reverse \in 0..Block - 1
        BY <3>1
      <3> QED BY <3>2 DEF Capture!TypeOK, CaptureInv, CaptureTypes
    <2>2. Capture!FramesFlow
      <3> SUFFICES ASSUME ~standby, ~cut
                   PROVE  fx.made \o fx.taken \o proc \o input = [i \in 1..captured - last |-> last + i]
        BY DEF Capture!FramesFlow
      <3>1. PICK m \in Nat, t \in Nat, p \in Nat :
              /\ last <= m /\ m <= t /\ t <= p /\ p <= captured
              /\ fx.made = Run(last, m) /\ fx.taken = Run(m, t)
              /\ proc = Run(t, p) /\ input = Run(p, captured)
        BY DEF CaptureInv, Flowing
      <3>2. last \in Nat /\ captured \in Nat /\ last <= t /\ last <= p
        BY <3>1 DEF CaptureInv, CaptureTypes
      <3>3. Run(last, m) \o Run(m, t) = Run(last, t)
        BY <3>1, <3>2, RunJoin
      <3>4. Run(last, t) \o Run(t, p) = Run(last, p)
        BY <3>1, <3>2, RunJoin
      <3>5. Run(last, p) \o Run(p, captured) = Run(last, captured)
        BY <3>1, <3>2, RunJoin
      <3> QED BY <3>1, <3>3, <3>4, <3>5 DEF Run
    <2>3. Capture!FramesFit
      BY DEF CaptureInv
    <2>4. Capture!ReferenceFirst
      BY DEF Capture!ReferenceFirst, CaptureInv, Ahead
    <2> QED BY <2>1, <2>2, <2>3, <2>4 DEF FramesArrive
  <1> QED BY <1>1, InitCapture, StepCapture, PTL DEF Capture!Spec

=============================================================================
