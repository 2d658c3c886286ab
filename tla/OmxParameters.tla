--------------------------- MODULE OmxParameters ---------------------------
(***************************************************************************)
(* The parameter calls of the six video components: GetParameter,          *)
(* SetParameter, GetConfig, SetConfig, GetExtensionIndex and RoleEnum.     *)
(* Each call falls through three layers: the codec (SEC_OMX_H264dec.c,     *)
(* Mpeg4dec.c, H264enc.c, Mpeg4enc.c), the video component (SEC_OMX_Vdec.c,*)
(* SEC_OMX_Venc.c) and the base component (SEC_OMX_Basecomponent.c).       *)
(* A client reads a port definition, changes a field and writes the whole  *)
(* structure back, other calls and commands later; states, buffers and     *)
(* ports change through commands, and the stream changes the ports of a    *)
(* decoder that runs.  A frame size f stands for an aligned picture; the   *)
(* 64 bytes of a metadata buffer count as none.                            *)
(***************************************************************************)
EXTENDS Integers, FiniteSets, Sequences

CONSTANTS Clients,    \* a component and what its client's calls are about, in AllKinds \X Topics
          Frames,     \* sizes of a picture, positive
          Counts,     \* buffer counts a client asks for
          Colors,     \* color formats it sets
          MaxAge      \* steps after which it writes no structure back: a bound

Topics == {"buffers", "codec"}

VARIABLES kind,       \* which component this is
          state,      \* currentState
          port,       \* portDefinition of the two ports
          anb,        \* bUseAndroidNativeBuffer of the output port
          meta,       \* bStoreMetaDataInBuffer of the input port
          profile,    \* eProfile the codec keeps for each port
          errcorr,    \* errorCorrectionType
          thumb,      \* bThumbnailMode
          configured, \* bConfiguredMFC
          held,       \* what the buffers of each port were allocated for
          got,        \* the structure the client last read, or None
          told,       \* the profile the client last set for each port
          excuses,    \* why a definition or the buffers of a port may not be in order
          ret,        \* what the last call returned, "none" after a command
          topic       \* what the calls of the client are about

vars == <<kind, state, port, anb, meta, profile, errcorr, thumb, configured, held, got, told,
          excuses, ret, topic>>

Decoders == {"h264dec", "mpeg4dec", "h263dec"}
Encoders == {"h264enc", "mpeg4enc", "h263enc"}
AllKinds == Decoders \cup Encoders
Ports == {"in", "out"}
None == [port |-> "none"]
NoBuffers == [count |-> 0, size |-> 0]
Formats == {"planar", "semiplanar", "nv12t", "anb", "opaque", "unused"}
Streams == {"avc", "mpeg4", "h263", "unused"}
Profiles == {"low", "high"}
InvalidState == "ok"     \* OMX_StateInvalid and OMX_ErrorNone are both 0
MetadataSize == 0

\* The stream a component decodes or produces: ComponentInit decides by its name.
StreamOf(k) == CASE k \in {"h264dec", "h264enc"} -> "avc"
                 [] k \in {"mpeg4dec", "mpeg4enc"} -> "mpeg4"
                 [] OTHER -> "h263"

\* The port of the compressed stream, which bit rate and error correction belong to.
StreamPort == IF kind \in Decoders THEN "in" ELSE "out"

\* What a picture needs at 12 and at 16 bits a pixel, in units of 4 bits a pixel, and
\* what an encoder's default leaves for its alignment.
Room(f) == 3 * f
Room16(f) == 4 * f
RoomAligned(f) == 5 * f

Definition(n, f, size, color, stream) ==
  [enabled |-> TRUE, min |-> n, actual |-> n, frame |-> f, size |-> size,
   color |-> color, stream |-> stream, rate |-> "default"]

VideoDecodeComponentInit(k, f) ==
  [p \in Ports |-> IF p = "in" THEN Definition(5, f, Room16(f), "unused", StreamOf(k))
                               ELSE Definition(2, f, Room(f), "semiplanar", "unused")]
VideoEncodeComponentInit(k, f) ==
  [p \in Ports |-> IF p = "in" THEN Definition(5, f, RoomAligned(f), "semiplanar", "unused")
                               ELSE Definition(4, f, RoomAligned(f), "unused", StreamOf(k))]

Init ==
  /\ \E client \in Clients: kind = client[1] /\ topic = client[2]
  /\ state = "loaded"
  /\ port = IF kind \in Decoders THEN VideoDecodeComponentInit(kind, 1)
                                 ELSE VideoEncodeComponentInit(kind, 1)
  /\ anb = FALSE /\ meta = FALSE
  /\ profile = [p \in Ports |-> "low"] /\ told = profile
  /\ errcorr = "off" /\ thumb = FALSE /\ configured = FALSE
  /\ held = [p \in Ports |-> NoBuffers]
  /\ got = None /\ excuses = {} /\ ret = "none"

----------------------------------------------------------------------------
(* What the calls change                                                    *)

settings == <<port, anb, meta, profile, errcorr, thumb>>
others == <<kind, state, configured, held, topic>>

\* The structure the client read gets older with every step, and is forgotten.
Older == IF got = None \/ got.age >= MaxAge THEN None ELSE [got EXCEPT !.age = @ + 1]
Ages == got' = Older

\* A call that is refused, or finds nothing to do.
Refuse(error) == ret' = error /\ Ages /\ UNCHANGED <<settings, told, excuses>>

Settable_Always(p) == TRUE                      \* MUTANT: no look at the state
\* A definition may be set in Loaded and WaitForResources, and for a disabled port.
Settable(p) == state \in {"loaded", "waiting"} \/ ~port[p].enabled

\* SEC_OMX_SetParameter: the client's structure replaces the definition of its port.
Accepts(d, was) == d.actual >= was.min
BaseSetDefinition(p, d) == [port EXCEPT ![p] = d]

\* The codecs of decoders round the picture and see that a buffer holds it.  Of the
\* output port, which follows, they set the size only for formats they know.
AtLeast(f, size) == IF Room(f) > size THEN Room(f) ELSE size
Supported == {"planar", "semiplanar", "nv12t", "anb"}
DecoderSetDefinition(p, d) ==
  LET own == [d EXCEPT !.size = AtLeast(d.frame, d.size)]
      out == [port["out"] EXCEPT !.frame = d.frame,
                !.size = IF port["out"].color \in Supported THEN Room(d.frame) ELSE @]
  IN IF p = "out" THEN [port EXCEPT !["out"] = own]
                  ELSE [port EXCEPT !["in"] = own, !["out"] = out]

\* SEC_OMX_VideoEncodeSetParameter: the output port follows the input port.
EncoderSetDefinition(p, d) ==
  LET set == BaseSetDefinition(p, d)
  IN IF p = "out" THEN set
     ELSE [set EXCEPT !["out"].frame = d.frame, !["out"].size = Room(d.frame)]

\* The format of the output port is none the codec knows: the call is answered with
\* an error, with the definition of the input port and the picture of the output
\* port stored.
Unsupported(p) == kind \in Decoders /\ p = "in" /\ port["out"].color \notin Supported

\* What a definition that was stored leaves behind: a minimum of another time, an
\* output port with a picture and no size for it, buffers of the port that follows.
Excused(p, d) ==
  (excuses \ (IF p = "in" THEN {"outgrown", "unsupported"} ELSE {"staleMin", "unsupported"}))
    \cup (IF p = "out" /\ d.min # port["out"].min THEN {"staleMin"} ELSE {})
    \cup (IF Unsupported(p) THEN {"unsupported"} ELSE {})
    \cup (IF p = "in" /\ held["out"] # NoBuffers THEN {"changed"} ELSE {})

Store(p, d) ==
  /\ port' = IF kind \in Decoders THEN DecoderSetDefinition(p, d) ELSE EncoderSetDefinition(p, d)
  /\ excuses' = Excused(p, d)
  /\ Ages /\ UNCHANGED <<anb, meta, profile, errcorr, thumb, told>>

SetDefinition_CopiesFirst(p, d) ==              \* MUTANT: copies before the state is looked at
  \/ ~Accepts(d, port[p]) /\ Refuse("badParameter")
  \/ /\ Accepts(d, port[p]) /\ Store(p, d)
     /\ ret' = IF ~Settable(p) THEN "incorrectState" ELSE "ok"
SetDefinition(p, d) ==
  \/ ~Settable(p) /\ Refuse("incorrectState")
  \/ Settable(p) /\ ~Accepts(d, port[p]) /\ Refuse("badParameter")
  \/ /\ Settable(p) /\ Accepts(d, port[p]) /\ Store(p, d)
     /\ ret' = IF Unsupported(p) THEN "unsupportedSetting" ELSE "ok"

\* The role a codec answers to; a component of Mpeg4dec.c or Mpeg4enc.c accepts both.
Roles(k) == IF StreamOf(k) = "avc" THEN {"avc"} ELSE {"mpeg4", "h263"}

SetRole(r) ==
  \/ state \notin {"loaded", "waiting"} /\ Refuse("incorrectState")
  \/ state \in {"loaded", "waiting"} /\ r \notin Roles(kind) /\ Refuse("badParameter")
  \/ /\ state \in {"loaded", "waiting"} /\ r \in Roles(kind)
     /\ port' = [port EXCEPT ![StreamPort].stream = r]
     /\ ret' = "ok" /\ Ages /\ UNCHANGED <<anb, meta, profile, errcorr, thumb, told, excuses>>

\* The profile is kept in the structure of the codec (AVC, MPEG4 or H263), which
\* IndexParamVideoAvc, VideoMpeg4, VideoH263 and ProfileLevelCurrent all reach.
StoreProfile(p, v) == [profile EXCEPT ![p] = v]

SetProfile(p, v) ==
  /\ profile' = StoreProfile(p, v) /\ told' = [told EXCEPT ![p] = v]
  /\ ret' = "ok" /\ Ages /\ UNCHANGED <<port, anb, meta, errcorr, thumb, excuses>>

\* An error correction or bit rate of the other port is a BadPortIndex.
SetErrorCorrection(p, v) ==
  IF p # StreamPort THEN Refuse("badPort")
  ELSE /\ errcorr' = v /\ ret' = "ok"
       /\ Ages /\ UNCHANGED <<port, anb, meta, profile, thumb, told, excuses>>

SetBitrate(p, v) ==
  IF p # StreamPort THEN Refuse("badPort")
  ELSE /\ port' = [port EXCEPT ![p].rate = v]
       /\ ret' = "ok" /\ Ages /\ UNCHANGED <<anb, meta, profile, errcorr, thumb, told, excuses>>

\* IndexParamVideoPortFormat: whatever the client names, in any state, with no look
\* at the buffer size.
SetFormat(p, color, stream) ==
  /\ port' = [port EXCEPT ![p].color = color, ![p].stream = stream]
  /\ ret' = "ok" /\ Ages /\ UNCHANGED <<anb, meta, profile, errcorr, thumb, told, excuses>>

\* IndexParamEnableAndroidBuffers: one output buffer with native buffers, else two;
\* in any state, whatever the port holds.
NativeBuffers(on) == IF on THEN 1 ELSE 2
EnableAndroidBuffers(on) ==
  /\ anb' = on
  /\ port' = [port EXCEPT !["out"].min = NativeBuffers(on), !["out"].actual = NativeBuffers(on),
                          !["out"].color = IF on THEN "anb" ELSE @]
  /\ excuses' = (excuses \ {"staleMin"}) \cup (IF held["out"] = NoBuffers THEN {} ELSE {"changed"})
  /\ ret' = "ok" /\ Ages /\ UNCHANGED <<meta, profile, errcorr, thumb, told>>

\* IndexParamStoreMetaDataBuffer, in any state as well.
StoreMetaData(on) ==
  /\ meta' = on
  /\ excuses' = IF held["in"] = NoBuffers THEN excuses ELSE excuses \cup {"metadata"}
  /\ ret' = "ok" /\ Ages /\ UNCHANGED <<port, anb, profile, errcorr, thumb, told>>

\* A structure of an extension with another version is answered with success.
OtherVersion == Refuse("ok")

----------------------------------------------------------------------------
(* The calls of each component                                              *)

BaseSetParameter == Refuse("unsupportedIndex")     \* the parameters no layer knows

\* A client changes one field of a format as of a definition: the color of pictures,
\* or the stream.
SetOneFormat ==
  \/ /\ topic = "buffers"
     /\ \E p \in Ports \ {StreamPort}, c \in Colors: SetFormat(p, c, port[p].stream)
  \/ /\ topic = "codec"
     /\ \E s \in Streams: SetFormat(StreamPort, port[StreamPort].color, s)

VideoDecodeSetParameter ==
  \/ SetOneFormat
  \/ topic = "buffers" /\ \E on \in BOOLEAN: EnableAndroidBuffers(on)
  \/ topic = "codec" /\ \E p \in Ports: SetBitrate(p, "set")
  \/ topic = "codec" /\ (BaseSetParameter \/ OtherVersion)

VideoEncodeSetParameter ==
  \/ SetOneFormat
  \/ topic = "buffers" /\ \E on \in BOOLEAN: StoreMetaData(on)
  \/ topic = "codec" /\ \E p \in Ports: SetBitrate(p, "set")
  \/ topic = "codec" /\ (BaseSetParameter \/ OtherVersion)

\* A client changes one field of the structure it read, or none: the size to one that
\* holds the first picture.
Edited(d) == {d, [d EXCEPT !.size = Room(1)]} \cup {[d EXCEPT !.frame = f] : f \in Frames}
               \cup {[d EXCEPT !.actual = n] : n \in Counts}

\* The definition may have changed since it was read, in any of its fields.
WriteBack ==
  /\ got # None /\ topic = "buffers"
  /\ \E d \in Edited(got.def): SetDefinition(got.port, d)

\* What every codec answers itself, apart from its definition call.
CodecSetParameter(streams) ==
  /\ topic = "codec"
  /\ \/ \E r \in Streams: SetRole(r)
     \/ \E p \in Ports, v \in Profiles: StreamOf(kind) \in streams /\ SetProfile(p, v)
     \/ \E p \in Ports, v \in {"on", "off"}: SetErrorCorrection(p, v)

H264DecSetParameter ==
  kind = "h264dec" /\ (CodecSetParameter({"avc"}) \/ WriteBack \/ VideoDecodeSetParameter)
Mpeg4DecSetParameter ==
  /\ kind \in {"mpeg4dec", "h263dec"}
  /\ CodecSetParameter({"mpeg4", "h263"}) \/ WriteBack \/ VideoDecodeSetParameter
H264EncSetParameter ==
  kind = "h264enc" /\ (CodecSetParameter({"avc"}) \/ WriteBack \/ VideoEncodeSetParameter)
Mpeg4EncSetParameter ==
  /\ kind \in {"mpeg4enc", "h263enc"}
  /\ CodecSetParameter({"mpeg4", "h263"}) \/ WriteBack \/ VideoEncodeSetParameter

\* In Invalid the codecs return the constant of the state, which is that of success.
SetParameter ==
  /\ \/ state = "invalid" /\ Refuse(InvalidState)
     \/ /\ state # "invalid"
        /\ \/ H264DecSetParameter \/ Mpeg4DecSetParameter
           \/ H264EncSetParameter \/ Mpeg4EncSetParameter
  /\ UNCHANGED others

\* What GetParameter reports of a definition and of the profile.
VideoDecodeGetParameter(p) == port[p]
VideoEncodeGetParameter(p) == IF p = "in" /\ meta THEN [port[p] EXCEPT !.size = MetadataSize]
                                                  ELSE port[p]
GetDefinition(p) == IF kind \in Decoders THEN VideoDecodeGetParameter(p)
                                         ELSE VideoEncodeGetParameter(p)
H264DecGetParameter(p) == [def |-> GetDefinition(p), profile |-> profile[p], role |-> "avc"]
Mpeg4DecGetParameter(p) ==
  [def |-> GetDefinition(p), profile |-> profile[p], role |-> StreamOf(kind)]
H264EncGetParameter(p) == [def |-> GetDefinition(p), profile |-> profile[p], role |-> "avc"]
Mpeg4EncGetParameter(p) ==
  [def |-> GetDefinition(p), profile |-> profile[p], role |-> StreamOf(kind)]
CodecGetParameter(p) == CASE kind = "h264dec" -> H264DecGetParameter(p)
                          [] kind = "h264enc" -> H264EncGetParameter(p)
                          [] kind \in {"mpeg4dec", "h263dec"} -> Mpeg4DecGetParameter(p)
                          [] OTHER -> Mpeg4EncGetParameter(p)

GetParameter(p) ==
  /\ IF state = "invalid" THEN ret' = InvalidState /\ Ages
     ELSE ret' = "ok" /\ got' = [port |-> p, def |-> CodecGetParameter(p).def, age |-> 0]
  /\ UNCHANGED <<settings, told, excuses, others>>

\* The configurations a codec answers itself: the crop rectangle, once the codec is
\* configured, and the thumbnail mode.  The base component knows none.
BaseConfig == "unsupportedIndex"
H264DecGetConfig == IF configured THEN "ok" ELSE "notReady"
Mpeg4DecGetConfig == BaseConfig
H264EncGetConfig == BaseConfig
Mpeg4EncGetConfig == BaseConfig
GetConfig ==
  /\ ret' = IF state = "invalid" THEN "invalidState"
            ELSE CASE kind = "h264dec" -> H264DecGetConfig
                   [] kind \in {"mpeg4dec", "h263dec"} -> Mpeg4DecGetConfig
                   [] kind = "h264enc" -> H264EncGetConfig
                   [] OTHER -> Mpeg4EncGetConfig
  /\ Ages /\ UNCHANGED <<settings, told, excuses, others>>

H264DecSetConfig == kind = "h264dec" /\ thumb' = ~thumb /\ ret' = "ok"
Mpeg4DecSetConfig == kind \in {"mpeg4dec", "h263dec"} /\ thumb' = ~thumb /\ ret' = "ok"
H264EncSetConfig == kind = "h264enc" /\ ret' = BaseConfig /\ UNCHANGED thumb
Mpeg4EncSetConfig == kind \in {"mpeg4enc", "h263enc"} /\ ret' = BaseConfig /\ UNCHANGED thumb
SetConfig ==
  /\ \/ state = "invalid" /\ ret' = "invalidState" /\ UNCHANGED thumb
     \/ /\ state # "invalid"
        /\ H264DecSetConfig \/ Mpeg4DecSetConfig \/ H264EncSetConfig \/ Mpeg4EncSetConfig
  /\ Ages /\ UNCHANGED <<port, anb, meta, profile, errcorr, told, excuses, others>>

\* The vendor indexes a component names, and the one role it says it has.
Names == {"thumbnail", "enableBuffers", "getBuffer", "useBuffer", "metadata"}
H264DecExtensions == {"thumbnail", "enableBuffers", "getBuffer", "useBuffer"}
Mpeg4DecExtensions == {"thumbnail", "enableBuffers", "getBuffer", "useBuffer"}
H264EncExtensions == {"metadata"}
Mpeg4EncExtensions == {"metadata"}
Extensions == CASE kind = "h264dec" -> H264DecExtensions
                [] kind \in {"mpeg4dec", "h263dec"} -> Mpeg4DecExtensions
                [] kind = "h264enc" -> H264EncExtensions
                [] OTHER -> Mpeg4EncExtensions
GetExtensionIndex(name) ==
  /\ ret' = IF state = "invalid" THEN "invalidState"
            ELSE IF name \in Extensions THEN "ok" ELSE "badParameter"
  /\ Ages /\ UNCHANGED <<settings, told, excuses, others>>

H264DecRoles == <<"avc">>
Mpeg4DecRoles == <<StreamOf(kind)>>
H264EncRoles == <<"avc">>
Mpeg4EncRoles == <<StreamOf(kind)>>
RolesOf == CASE kind = "h264dec" -> H264DecRoles
             [] kind \in {"mpeg4dec", "h263dec"} -> Mpeg4DecRoles
             [] kind = "h264enc" -> H264EncRoles
             [] OTHER -> Mpeg4EncRoles
ComponentRoleEnum(n) ==
  /\ ret' = IF n \in DOMAIN RolesOf THEN "ok" ELSE "noMore"
  /\ Ages /\ UNCHANGED <<settings, told, excuses, others>>

----------------------------------------------------------------------------
(* Commands, as far as parameters depend on them                            *)

\* The client makes no parameter call while one is carried out.
Allocated(p) == [count |-> port[p].actual, size |-> GetDefinition(p).size]

\* What no longer matters once port p has other buffers or none.
Cleared(p) == excuses \ (IF p = "in" THEN {"metadata"} ELSE {"changed"})
Unaffected == Ages /\ UNCHANGED <<kind, anb, meta, profile, errcorr, thumb, told, topic>>

\* Loaded to Idle: buffers of the enabled ports; the codec is opened, and configured
\* by its first frame.
ToIdle ==
  /\ state = "loaded" /\ state' = "idle" /\ configured' = FALSE
  /\ held' = [p \in Ports |-> IF port[p].enabled THEN Allocated(p) ELSE NoBuffers]
  /\ ret' = "none" /\ Unaffected /\ UNCHANGED <<port, excuses>>

Run == /\ state = "idle" /\ state' = "executing"
       /\ ret' = "none" /\ Unaffected /\ UNCHANGED <<port, configured, held, excuses>>

Stop == /\ state = "executing" /\ state' = "idle"
        /\ ret' = "none" /\ Unaffected /\ UNCHANGED <<port, configured, held, excuses>>

ToLoaded ==
  /\ state = "idle" /\ state' = "loaded"
  /\ \A p \in Ports: port[p].enabled => held[p] # NoBuffers
  /\ held' = [p \in Ports |-> NoBuffers]
  /\ excuses' = Cleared("in") \cap Cleared("out")
  /\ ret' = "none" /\ Unaffected /\ UNCHANGED <<port, configured>>

Fail == /\ state \in {"idle", "executing"} /\ state' = "invalid"
        /\ ret' = "none" /\ Unaffected /\ UNCHANGED <<port, held, configured, excuses>>

\* SEC_UpdateFrameSize: an output port that has another picture than the input port
\* is given that picture, and room for it.
UpdateFrameSize(ports) ==
  IF ports["out"].frame = ports["in"].frame THEN ports
  ELSE [ports EXCEPT
          !["out"].frame = ports["in"].frame,
          !["out"].size = IF ports["out"].color \in {"planar", "semiplanar", "anb"}
                          THEN Room(ports["in"].frame) ELSE Room16(ports["in"].frame)]

\* The first frame that is decoded says what picture the stream has: if that is not
\* the one of the input port, or part of it is cropped, the ports change under their
\* buffers, and the client is told.
FirstFrame(f, crop) ==
  /\ state = "executing" /\ ~configured /\ configured' = TRUE
  /\ \A p \in Ports: held[p] # NoBuffers
  /\ LET other == kind \in Decoders /\ (crop \/ f # port["in"].frame)
         differs == port["out"].frame # f
     IN /\ port' = IF other THEN UpdateFrameSize([port EXCEPT !["in"].frame = f]) ELSE port
        /\ ret' = IF other THEN "settingsChanged" ELSE "none"
        /\ excuses' = IF ~other THEN excuses
                      ELSE (excuses \ (IF differs THEN {"unsupported"} ELSE {}))
                             \cup {"outgrown", "changed"}
  /\ Unaffected /\ UNCHANGED <<state, held>>

\* A structure that is written back may have enabled a port, which has no buffers then:
\* a command that takes its buffers back waits for them, one to enable it is refused.
DisablePort(p) ==
  /\ state # "invalid" /\ port[p].enabled
  /\ state = "loaded" \/ held[p] # NoBuffers
  /\ port' = [port EXCEPT ![p].enabled = FALSE] /\ held' = [held EXCEPT ![p] = NoBuffers]
  /\ excuses' = Cleared(p)
  /\ ret' = "none" /\ Unaffected /\ UNCHANGED <<state, configured>>

EnablePort(p) ==
  /\ state # "invalid" /\ ~port[p].enabled
  /\ port' = [port EXCEPT ![p].enabled = TRUE]
  /\ held' = [held EXCEPT ![p] = IF state = "loaded" THEN NoBuffers ELSE Allocated(p)]
  /\ ret' = "none" /\ Unaffected /\ UNCHANGED <<state, configured, excuses>>

Calls == \/ SetParameter
         \/ topic = "buffers" /\ \E p \in Ports: GetParameter(p)
         \/ /\ topic = "codec"
            /\ \/ SetConfig \/ GetConfig
               \/ \E name \in Names: GetExtensionIndex(name)
               \/ \E n \in 1 .. 2: ComponentRoleEnum(n)
\* What stream a decoder meets; that of an encoder is its own.
Stream(f, crop) == (f = 1 /\ ~crop) \/ (kind \in Decoders /\ (crop => kind = "h264dec"))
Next ==
  \/ Calls \/ ToIdle \/ Run \/ Stop \/ ToLoaded \/ Fail
  \/ \E f \in Frames, crop \in BOOLEAN: Stream(f, crop) /\ FirstFrame(f, crop)
  \/ \E p \in Ports: DisablePort(p)
  \/ \E p \in Ports: EnablePort(p)
Spec == Init /\ [][Next]_vars

----------------------------------------------------------------------------
TypeOK ==
  /\ <<kind, topic>> \in Clients /\ state \in {"loaded", "waiting", "idle", "executing", "invalid"}
  /\ \A p \in Ports: /\ port[p].color \in Formats /\ port[p].stream \in Streams
                     /\ port[p].frame \in Frames /\ port[p].size \in Nat
  /\ anb \in BOOLEAN /\ meta \in BOOLEAN /\ thumb \in BOOLEAN /\ configured \in BOOLEAN
  /\ profile \in [Ports -> Profiles]
  /\ excuses \subseteq {"unsupported", "outgrown", "staleMin", "changed", "metadata"}

(* A buffer a decoder asks for holds the picture of its port, whatever order    *)
(* sizes, counts, formats and native buffers are set in and however old the     *)
(* structures are that are written back.  There are two ways out: the call that *)
(* gave the output port its picture was refused for a format the codec does not *)
(* know; and the stream gave the input port its picture.                        *)
BufferHoldsFrame ==
  kind \in Decoders =>
    /\ port["in"].size >= Room(port["in"].frame) \/ "outgrown" \in excuses
    /\ port["out"].size >= Room(port["out"].frame) \/ "unsupported" \in excuses

(* A port never asks for fewer buffers than its minimum, also after a change    *)
(* between native and ordinary buffers; unless a client has written back the    *)
(* minimum of another time, until the next definition or change.                *)
CountAtLeastMin ==
  \A p \in Ports: port[p].actual >= port[p].min \/ (p = "out" /\ "staleMin" \in excuses)

(* Buffers that are allocated are enough, in number and size, for what their    *)
(* port asks for: a structure of another time cannot give a port other needs    *)
(* under its buffers.  Where they are not enough, the client was told that the  *)
(* settings have changed, or it has itself, under the buffers, switched to or   *)
(* from native buffers or metadata, or defined the input port anew.             *)
AllocatedFits ==
  \A p \in Ports: held[p] # NoBuffers =>
    \/ held[p].count = port[p].actual /\ held[p].size >= GetDefinition(p).size
    \/ excuses \cap (IF p = "in" THEN {"metadata"} ELSE {"changed"}) # {}

(* The profile reported for a port is the one last set for it, through any of   *)
(* the indexes that reach it.                                                   *)
ProfileReported == \A p \in Ports: CodecGetParameter(p).profile = told[p]

(* A call that returns an error has changed none of the settings, with one      *)
(* exception: a definition of a decoder's input port that is refused because of *)
(* the format of the output port is stored, and of the output port the picture  *)
(* and nothing else.                                                            *)
HalfStored ==
  /\ kind \in Decoders /\ Settable("in")
  /\ port'["out"] = [port["out"] EXCEPT !.frame = port'["in"].frame]
  /\ port'["in"].size >= Room(port'["in"].frame)
  /\ UNCHANGED <<anb, meta, profile, errcorr, thumb>>
Refused == ret' \notin {"none", "ok", "settingsChanged", "unsupportedSetting"}
Orderly == (Refused => UNCHANGED settings) /\ (ret' = "unsupportedSetting" => HalfStored)
RefusedChangesNothing == [][Orderly]_vars
=============================================================================
