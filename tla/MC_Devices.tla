----------------------------- MODULE MC_Devices -----------------------------
(* The display and capture devices in one run: a behaviour is about one of     *)
(* them, the others stay as they were.  The HDMI output, the CEC bus and the   *)
(* rest share the variables that count failures.                               *)
EXTENDS HdmiCec

CONSTANTS
  OutputSinks, Resolutions, Pictures, MaxPlugs,      \* of HdmiOutput
  Sources, Targets, Rotations, Addresses, Keys, Version,      \* of SecFimc
  Handles, PmemSize, Places, Lists, NoHandle, NoList,         \* of HwComposer
  Period, Requests, Block, MaxFrames           \* of AudioCapture

\* Where there is no sink, picture or buffer is told from where there is one; the pictures
\* that are sent to the converter lie in their frame.
ASSUME DevicesAssumption ==
  /\ None \notin OutputSinks /\ None \notin Pictures \cup {"ui"} /\ None \notin 0..2
  /\ Len(Resolutions) \in Nat \ {0} /\ DOMAIN Resolutions = 1..Len(Resolutions)
  /\ Rotations \subseteq {0, 90, 180, 270}
  /\ Sources \cup Targets \subseteq [width : Nat, height : Nat, x : Nat, y : Nat,
                                     cropWidth : Nat, cropHeight : Nat, format : STRING]
  /\ \A q \in Targets : q.x + q.cropWidth <= q.width /\ q.y + q.cropHeight <= q.height

VARIABLES
  plugs, events, cable, connected, run, ddc, edid, mode, want, info, src, fimc, out, tv,
  started, pc, hurt,                           \* of HdmiOutput
  made, lost, source, dst, set, rot, key, on, address, dev, asked,
  win, list, comp, layers, place, next, skipped, s3c,
  standby, input, proc, procSize, ref, refSize, reference, effects, fx, reading, wanted,
  wrote, captured, total, last, used, cut, missing,
  about          \* "hdmi", "cec", "fimc", "composer" or "capture"

\* what HdmiCec alone has, and HdmiOutput
cecVars == <<taken, changes, pulled, status, thread, first, fd, adapter, laddr, paddr, sent>>
hdmiVars == <<plugs, events, cable, connected, run, ddc, edid, mode, want, info, src, fimc, out,
              tv, started, pc>>
fimcVars == <<made, lost, source, dst, set, rot, key, on, address, dev, asked>>
hwcVars == <<win, list, comp, layers, place, next, skipped, s3c>>
captureVars == <<standby, input, proc, procSize, ref, refSize, reference, effects, fx, reading,
                 wanted, wrote, captured, total, last, used, cut, missing>>
allVars == <<hdmiVars, sink, hurt, failures, cecVars, fimcVars, hwcVars, captureVars, about>>

-----------------------------------------------------------------------------
(* Sinks                                                                     *)

EdidBlock(t, dtds, ycc, data) ==
  [valid |-> TRUE, tag |-> t, dtds |-> dtds, ycc |-> ycc, data |-> data]
Video(vics) == [tag |-> "video", vics |-> vics]
Vendor(port) == [tag |-> "vendor", hdmi |-> TRUE, port |-> port]
Timing(port) == EdidBlock("timing", {}, TRUE, <<Video({"1080"}), Vendor(port)>>)

Base == EdidBlock("base", {"480"}, FALSE, <<>>)
\* An HDMI television with a block map, a monitor with the first block only, a sink
\* whose extensions lack the map that two of them need, a television on another port.
Tv == [base |-> Base, ext |-> <<EdidBlock("map", {}, FALSE, <<>>), Timing(1)>>]
Monitor == [base |-> Base, ext |-> <<>>]
Odd == [base |-> Base, ext |-> <<Timing(1), Timing(1)>>]
OtherTv == [base |-> Base, ext |-> <<Timing(2)>>]

MCOutputSinks == {Tv, Monitor, Odd}
MCSinks == {Tv, Monitor, OtherTv}
MCResolutions == <<"1080", "720", "480">>

-----------------------------------------------------------------------------
(* Pictures and layers                                                       *)

Picture(w, h, x, y, cw, ch, format) ==
  [width |-> w, height |-> h, x |-> x, y |-> y, cropWidth |-> cw, cropHeight |-> ch,
   format |-> format]
MCSources == {Picture(32, 16, 0, 0, 32, 16, "rgb"), Picture(32, 16, 0, 0, 32, 16, "yuv420"),
              Picture(32, 16, 8, 2, 21, 14, "rgb")}
MCTargets == {Picture(32, 16, 8, 0, 16, 13, "tiled"), Picture(16, 16, 0, 3, 9, 8, "yuv420")}

Yuv == [kind : {"yuv"}, handle : Handles, place : Places]
Rgb == [kind : {"rgb"}, handle : {NoHandle}, place : {"screen"}]
MCLists == {<<>>} \cup {<<a>> : a \in Yuv \cup Rgb} \cup {<<a, b>> : a, b \in Yuv}
             \cup {<<a, a, a>> : a \in {l \in Yuv : l.handle = 1 /\ l.place = "left"}}

Output == INSTANCE HdmiOutput WITH Sinks <- OutputSinks
Fimc == INSTANCE SecFimc WITH src <- source
Hwc == INSTANCE HwComposer WITH pc <- place
Capture == INSTANCE AudioCapture WITH pc <- reading, want <- wanted, src <- captured

\* Frames have sizes; the lists that the composer gets are lists of layers.
ASSUME LayersAssumption ==
  /\ Handles \subseteq Nat /\ PmemSize \in Nat
  /\ Lists \subseteq Seq(Hwc!Layer)
  /\ NoList \notin UNION {[DOMAIN l -> Hwc!Layer] : l \in Lists}
\* A capture moves frames at every call.
ASSUME CaptureAssumption ==
  Period \in Nat \ {0} /\ Block \in Nat \ {0} /\ Requests \subseteq Nat \ {0}

-----------------------------------------------------------------------------
MCInit ==
  /\ Init /\ Output!Init /\ Fimc!Init /\ Hwc!Init /\ Capture!Init
  /\ about \in {"hdmi", "cec", "fimc", "composer", "capture"}
  /\ about \notin {"hdmi", "cec"} => sink = None

MCNext ==
  \/ /\ about = "hdmi" /\ Output!Next
     /\ UNCHANGED <<failures, cecVars, fimcVars, hwcVars, captureVars, about>>
  \/ /\ about = "cec" /\ Next
     /\ UNCHANGED <<hdmiVars, hurt, fimcVars, hwcVars, captureVars, about>>
  \/ /\ about = "fimc" /\ Fimc!Next
     /\ UNCHANGED <<hdmiVars, sink, failures, cecVars, hwcVars, captureVars, about>>
  \/ /\ about = "composer" /\ Hwc!Next
     /\ UNCHANGED <<hdmiVars, sink, hurt, cecVars, fimcVars, captureVars, about>>
  \/ /\ about = "capture" /\ Capture!Next
     /\ UNCHANGED <<hdmiVars, sink, hurt, failures, cecVars, fimcVars, hwcVars, about>>

MCSpec == MCInit /\ [][MCNext]_allVars

\* The encoder plays for the sink that is there, and the FIMC writes where it does not read.
PlaysForThisSink == Output!PlaysForThisSink
WritesElsewhere == Output!WritesElsewhere
ConvertsAsAsked == Fimc!ConvertsAsAsked
\* A window shows its layer's frame of now, whole, from memory that is there.
ShowsItsFrames == Hwc!ShownIsCurrent /\ Hwc!NeverTorn /\ Hwc!CopyFits
\* A client hears every frame once, in order, the echo reference never behind it.
FramesArrive ==
  Capture!TypeOK /\ Capture!FramesFlow /\ Capture!FramesFit /\ Capture!ReferenceFirst
=============================================================================
