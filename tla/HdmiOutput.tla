----------------------------- MODULE HdmiOutput -----------------------------
(* The TV-out service and SecHdmi: a cable that comes and goes, the EDID of    *)
(* the sink and the mode and resolution chosen from it, and the pictures the   *)
(* hardware composer's thread sends through the FIMC to the encoder            *)
(* (SecTVOutService.cpp, SecHdmi.cpp, libddc).  One layer, HDMI_LAYER_VIDEO:   *)
(* without HDMI_SUBTITLES, as in BoardConfig.mk, no caller uses another.  The  *)
(* CEC thread that connect starts is HdmiCec's.                                *)
EXTENDS Edid

CONSTANTS
  Sinks,                      \* the displays, each by its data
  Resolutions,                \* mHdmiResolutionValueList, the best first
  Pictures,                   \* sizes and formats sent; "tiled" needs no conversion
  MaxPlugs, MaxFailures,      \* bounds: changes of the cable, kinds of failure that happen
  None

HDMI_FIMC_OUTPUT_BUF_NUM == 3

VARIABLES
  sink, plugs,  \* what the cable leads to; changes so far
  events,      \* calls of setHdmiStatus to come
  cable,       \* mHdmiCableInserted
  connected,   \* mFlagConnected
  run,         \* mFlagHdmiThreadRun
  ddc,         \* libddc: ref_cnt, is ddc_fd open
  edid,        \* whose data gEdidData holds
  mode, want,  \* mHdmiOutputMode, mHdmiResolutionValue
  info,        \* mHdmiInfoChange
  src,         \* mSrcWidth, mSrcHeight, mSrcColorFormat
  fimc,        \* mSecFimc: created, the picture its parameters are for
  out,         \* mFimcCurrentOutBufIndex
  tv,          \* the encoder: open, std, mode, streaming, its buffer, was that converted right
  started,     \* mFlagHdmiStart
  pc,          \* where setHdmiStatus, the composer's blit and a settings call are
  hurt         \* the kinds of failure that happened

vars == <<sink, plugs, events, cable, connected, run, ddc, edid, mode, want, info,
          src, fimc, out, tv, started, pc, hurt>>
plugVars == <<sink, plugs, events>>
linkVars == <<connected, run, ddc, edid>>
playVars == <<src, fimc, out, tv, started>>

Init ==
  /\ sink \in {None} \cup Sinks /\ plugs = 0
  /\ events = <<1>>                                    \* the service's constructor
  /\ cable = FALSE /\ connected = FALSE /\ run = FALSE
  /\ ddc = [refs |-> 0, open |-> FALSE] /\ edid = None
  /\ mode = "ycbcr" /\ want = Resolutions[1] /\ info = TRUE
  /\ src = None /\ fimc = [created |-> FALSE, for |-> None] /\ out = 0
  /\ tv = [open |-> TRUE, std |-> want, mode |-> mode, stream |-> FALSE, image |-> None, right |-> TRUE]
  /\ started = FALSE
  /\ pc = [status |-> "idle", blit |-> "idle", set |-> "idle"]
  /\ hurt = {}

Well == UNCHANGED hurt
Fails(kind) == (kind \in hurt \/ Cardinality(hurt) < MaxFailures) /\ hurt' = hurt \cup {kind}

\* The cable is pulled out, or leads to a sink; the observer of the switch tells the service.
Plug ==
  /\ plugs < MaxPlugs /\ plugs' = plugs + 1
  /\ IF sink = None THEN sink' \in Sinks /\ events' = Append(events, 1)
                    ELSE sink' = None /\ events' = Append(events, 0)
  /\ UNCHANGED <<cable, linkVars, mode, want, info, playVars, pc, hurt>>

-----------------------------------------------------------------------------
(* The EDID: what the sink can show                                          *)

\* MUTANT: the data of a sink outlives its connection.
EDIDReset_Keeps == UNCHANGED edid
EDIDReset == edid' = None

DDCOpen(ok) == IF ddc.refs > 0 THEN [ddc EXCEPT !.refs = @ + 1] ELSE [refs |-> 1, open |-> ok]
DDCClose(d) ==
  CASE d.refs = 0 -> d
    [] d.refs > 1 -> [d EXCEPT !.refs = @ - 1]
    [] OTHER -> [refs |-> 0, open |-> FALSE]

hdmi_check_resolution(r) == edid # None /\ CheckResolution(edid, r)

IndexOf(r) == CHOOSE i \in DOMAIN Resolutions : Resolutions[i] = r
Below(r) == {i \in IndexOf(r)..Len(Resolutions) : hdmi_check_resolution(Resolutions[i])}
BestOf(is) == Resolutions[CHOOSE i \in is : \A j \in is : i <= j]

\* The test for YCbCr asks again whether the sink is an HDMI one.
hdmi_check_output_mode(m) ==
  IF edid = None \/ ~CheckHDMIMode(edid) THEN "dvi"
  ELSE IF m \in {"ycbcr", "rgb"} THEN m
  ELSE IF CheckColorSpace(edid) THEN "ycbcr" ELSE "rgb"

setHdmiOutputMode(m) ==
  LET new == hdmi_check_output_mode(m)
  IN  mode' = new /\ info' = (info \/ new # m \/ new # mode)

\* The resolution, or the next below it that the sink shows; no change when there is none.
setHdmiResolution(r) ==
  IF Below(r) = {} THEN UNCHANGED <<want, info>>
  ELSE LET new == BestOf(Below(r)) IN want' = new /\ info' = (info \/ want # new)

-----------------------------------------------------------------------------
(* setHdmiStatus, under the service's mLock                                  *)

At(who, from, to) == pc[who] = from /\ pc' = [pc EXCEPT ![who] = to]
EventDone == events' = Tail(events) /\ UNCHANGED <<sink, plugs>>

\* As the cable was: nothing is done.
StatusSame ==
  /\ events # <<>> /\ (Head(events) = 1) = cable
  /\ At("status", "idle", "idle") /\ EventDone
  /\ UNCHANGED <<cable, linkVars, mode, want, info, playVars, hurt>>

ConnectFails(kind) ==
  /\ At("status", "idle", "idle") /\ EventDone
  /\ IF kind \in {"cable", "sink"} THEN Well ELSE Fails(kind)
  /\ UNCHANGED <<cable, connected, mode, want, info, src, out, tv, started>>

initCEC == ddc' = (IF run THEN ddc ELSE DDCOpen(TRUE)) /\ edid' = (IF edid = None THEN sink ELSE edid)
\* m_runEdid(TRUE): unless mFlagHdmiThreadRun says that was done the sink's EDID is read,
\* the copy of the last reading if there is one, and the CEC thread starts.
CanRead == edid # None \/ (DDCOpen(TRUE).open /\ EDIDRead(sink))
m_runEdid == (run \/ CanRead) /\ run' = TRUE /\ initCEC

\* connect, with mLock: m_flagHWConnected, the EDID, the FIMC.
Connect ==
  /\ events # <<>> /\ Head(events) = 1 /\ ~cable
  /\ \/ /\ sink = None /\ ConnectFails("cable")
        /\ UNCHANGED <<run, ddc, edid, fimc>>
     \/ /\ sink # None /\ ~run /\ ddc.refs = 0 /\ ConnectFails("ddc")       \* EDIDOpen
        /\ ddc' = DDCOpen(FALSE) /\ UNCHANGED <<run, edid, fimc>>
     \/ /\ sink # None /\ ~run                                             \* EDIDRead
        /\ ConnectFails(IF ~DDCOpen(TRUE).open THEN "ddc" ELSE IF ~EDIDRead(sink) THEN "sink" ELSE "edid")
        /\ ddc' = DDCClose(DDCOpen(TRUE)) /\ EDIDReset /\ UNCHANGED <<run, fimc>>
     \/ /\ sink # None /\ m_runEdid /\ ~fimc.created /\ ConnectFails("fimc")
        /\ UNCHANGED fimc
     \/ /\ sink # None /\ m_runEdid /\ At("status", "idle", "mode")
        /\ fimc' = (IF fimc.created THEN fimc ELSE [created |-> TRUE, for |-> None])
        /\ src' = None /\ out' = 0
        /\ UNCHANGED <<plugVars, cable, connected, mode, want, info, tv, started, hurt>>

\* connect goes on without mLock; each call takes it for itself.
ConnectMode ==
  /\ At("status", "mode", "resolution") /\ setHdmiOutputMode(mode)
  /\ UNCHANGED <<plugVars, cable, linkVars, want, playVars, hurt>>
ConnectResolution ==
  /\ At("status", "resolution", "tail") /\ setHdmiResolution(want)
  /\ UNCHANGED <<plugVars, cable, linkVars, mode, playVars, hurt>>
ConnectTail ==
  /\ At("status", "tail", "index") /\ info' = TRUE /\ connected' = TRUE
  /\ UNCHANGED <<plugVars, cable, run, ddc, edid, mode, want, playVars, hurt>>
\* The index of the buffers starts again, even when a blit that saw the last cable has
\* shown a picture meanwhile.
ConnectEnds ==
  /\ At("status", "index", "show") /\ EventDone
  /\ cable' = TRUE /\ out' = 0
  /\ hurt' = (IF info THEN hurt ELSE hurt \cup {"overtaken"})
  /\ UNCHANGED <<linkVars, mode, want, info, src, fimc, tv, started>>

deinitCEC == EDIDReset /\ ddc' = DDCClose(ddc)
\* disconnect, with mLock: the CEC thread is joined, libcec, the EDID and the FIMC closed.
\* The encoder plays on.
Disconnect ==
  /\ events # <<>> /\ Head(events) = 0 /\ cable
  /\ At("status", "idle", "idle") /\ EventDone
  /\ deinitCEC
  /\ run' = FALSE /\ fimc' = [created |-> FALSE, for |-> None]
  /\ connected' = FALSE /\ cable' = FALSE
  /\ UNCHANGED <<mode, want, info, src, out, tv, started, hurt>>

-----------------------------------------------------------------------------
(* Settings, and blit2Hdmi: the flag first, without a lock                    *)

SetAsked ==
  /\ cable /\ At("set", "idle", "asked")
  /\ UNCHANGED <<plugVars, cable, linkVars, mode, want, info, playVars, hurt>>
SetDone ==
  /\ At("set", "asked", "idle")
  /\ \/ \E m \in {"ycbcr", "rgb", "dvi"} : m # mode /\ setHdmiOutputMode(m) /\ UNCHANGED want
     \/ \E i \in DOMAIN Resolutions :
          Resolutions[i] # want /\ setHdmiResolution(Resolutions[i]) /\ UNCHANGED mode
     \/ UNCHANGED <<mode, want, info>>
  /\ UNCHANGED <<plugVars, cable, linkVars, playVars, hurt>>

BlitAsked ==
  /\ cable /\ At("blit", "idle", "asked")
  /\ UNCHANGED <<plugVars, cable, linkVars, mode, want, info, playVars, hurt>>

Asks(who) == At(who, IF who = "status" THEN "show" ELSE "asked", "idle")
FlushFrame == <<plugVars, cable, linkVars, mode, want>>

hdmi_streamoff(d) == [d EXCEPT !.stream = FALSE]
hdmi_streamon(d) == [d EXCEPT !.stream = @ \/ d.open]
hdmi_deinitialize(d) == [d EXCEPT !.open = FALSE]
m_setHdmiOutputMode(d) == [d EXCEPT !.mode = mode]
m_setHdmiResolution(d) == [d EXCEPT !.std = want]
hdmi_tvout_init(d) == [d EXCEPT !.open = TRUE]
\* A device that does not open is only logged.
hdmi_initialize(d, ok) == IF ok THEN hdmi_tvout_init(d) ELSE d
hdmi_set_v_param(d, from, suits) == IF d.open THEN [d EXCEPT !.image = from, !.right = suits] ELSE d

\* m_reset: everything is stopped, and with new settings the device is opened anew.
m_reset(ok) ==
  LET off == IF started THEN hdmi_streamoff(tv) ELSE tv
  IN  IF info THEN hdmi_initialize(hdmi_deinitialize(m_setHdmiResolution(m_setHdmiOutputMode(off))), ok)
      ELSE off

\* MUTANT: one buffer for all pictures.
NextOut_Same(p) == out
NextOut(p) == IF p = "tiled" THEN out ELSE (out + 1) % HDMI_FIMC_OUTPUT_BUF_NUM

FlushNothing(who) ==
  /\ ~connected /\ Asks(who)
  /\ UNCHANGED <<FlushFrame, info, playVars, hurt>>

\* m_reset ends at setSrcParams or setDstParams: the picture is refused, its size not kept.
FlushRefused(who, p) ==
  /\ connected /\ Asks(who) /\ src # p /\ p # "tiled"
  /\ Fails("params")
  /\ \E f \in {fimc.for, p} : fimc' = [fimc EXCEPT !.for = f]
  /\ tv' = (IF started THEN hdmi_streamoff(tv) ELSE tv) /\ started' = FALSE
  /\ UNCHANGED <<FlushFrame, info, src, out>>

\* flush, with mLock.  The screen's own picture may be off (early suspend); the
\* conversion may fail after the next buffer was taken.
Flush(who, p) ==
  LET reset == src # p \/ info
      suits == p = "tiled" \/ fimc.for = p \/ src # p
  IN  /\ connected /\ Asks(who)
      /\ fimc' = (IF p = "tiled" \/ src = p THEN fimc ELSE [fimc EXCEPT !.for = p])
      /\ src' = p /\ info' = FALSE
      /\ \E ok \in BOOLEAN, ends \in {"shown", "suspended", "oneshot"} :
           LET d == IF reset THEN m_reset(ok) ELSE tv
               image == IF p = "tiled" THEN None ELSE out
           IN  /\ ok \/ info
               /\ p = "ui" \/ ends # "suspended"
               /\ p # "tiled" \/ ends # "oneshot"
               /\ ok \/ ends = "shown"
               /\ IF ~ok THEN Fails("open") ELSE IF ends = "oneshot" THEN Fails("oneshot") ELSE Well
               /\ IF ends = "shown"
                  THEN /\ tv' = hdmi_streamon(hdmi_set_v_param(d, image, suits))
                       /\ started' = TRUE
                  ELSE /\ tv' = d /\ started' = (started /\ ~reset)
               /\ out' = (IF ends = "suspended" THEN out ELSE NextOut(p))
      /\ UNCHANGED FlushFrame

-----------------------------------------------------------------------------
Show(who, p) == FlushNothing(who) \/ FlushRefused(who, p) \/ Flush(who, p)
Next ==
  \/ Plug \/ StatusSame \/ Connect \/ ConnectMode \/ ConnectResolution
  \/ ConnectTail \/ ConnectEnds \/ Disconnect \/ SetAsked \/ SetDone \/ BlitAsked
  \/ Show("status", "ui") \/ \E p \in Pictures : Show("blit", p)
Spec == Init /\ [][Next]_vars

-----------------------------------------------------------------------------
\* Once its settings are applied the encoder plays for the sink that is there, in a
\* mode and a resolution it shows, and what it plays was converted as that picture
\* needs.  The exceptions: a sink that shows nothing at or below the resolution that
\* is set; and, each remembered in hurt, a FIMC that could not be opened (the EDID of
\* the sink of then is kept), an encoder that could not be reopened and parameters the
\* FIMC refused.
PlaysForThisSink ==
  connected /\ ~info /\ events = <<>> =>
    /\ "fimc" \notin hurt => edid = sink
    /\ edid # None => /\ hdmi_check_resolution(want) \/ Below(want) = {}
                      /\ (mode = "dvi") = ~CheckHDMIMode(edid)
    /\ tv.std = want /\ tv.mode = mode
    /\ "open" \notin hurt /\ started => tv.open /\ tv.stream
    /\ tv.stream /\ "params" \notin hurt => tv.right

\* The FIMC never writes into the buffer the encoder reads, unless conversions fail (the
\* next buffer is counted first, and after two failures it is the encoder's again) or
\* connect sets the index back after a picture was shown.
WritesElsewhere ==
  {"oneshot", "overtaken"} \cap hurt = {} /\ connected /\ ~info /\ tv.stream => tv.image # out
=============================================================================
