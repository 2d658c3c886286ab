---------------------------- MODULE CameraDevice ----------------------------
(* SecCamera (libcamera/SecCamera.cpp): the two V4L2 nodes of the camera, the   *)
(* settings it remembers, and what the driver has been told of them.            *)
(* Every ioctl may fail; CHECK then returns at once and undoes nothing.         *)
EXTENDS Integers, Sequences, FiniteSets

CONSTANTS
  Uses,          \* sets of settings; a behaviour's client touches one of them
  Values,        \* values of a setting besides the distinguished ones
  Sizes,         \* preview sizes
  FrontCamera,         \* TRUE for CAMERA_ID_FRONT, FALSE for CAMERA_ID_BACK
  MaxFailures    \* bound on failing ioctls

VARIABLES
  used,          \* the settings this behaviour is about
  opened,        \* m_cam_fd > -1 and m_cam_fd2 > -1, one flag per node
  flagInit,      \* m_flag_init
  flagStart,     \* m_flag_camera_start
  flagRecord,    \* m_flag_record_start
  stream,        \* driver: what node 1 streams: "off", "preview", "snapshot"
  stream2,       \* driver: node 2 is streaming
  queued2,       \* driver: recording buffers queued, the rest are lent out
  cache,         \* m_params and the m_xxx fields
  driver,        \* driver: the value it was last told
  astray,        \* settings the driver was not told, or was told past the cache
  previewSize,   \* m_preview_width and height
  streamSize,    \* driver: the size in use
  broken,        \* a call failed between STREAMON and STREAMOFF
  failures,      \* ioctls that failed so far
  ret            \* what the last call returned

nodes == <<opened, flagInit, flagStart, flagRecord>>
streams == <<stream, stream2, queued2, streamSize, broken>>
settings == <<cache, driver, astray>>
deviceVars == <<used, nodes, streams, settings, previewSize, failures, ret>>

RecordBuffers == 1..2    \* MAX_BUFFERS is 11; two tell "all" from "some"

(* How a setter tells the driver.  Fields of m_params are sent by the setter    *)
(* while the preview runs and again by S_PARM in startPreview; other controls   *)
(* are sent by the setter only; latched values are only sent by startPreview.   *)
Colour == {"white_balance", "brightness", "effects"}
Scene == {"scene_mode", "flash_mode", "iso"}
Tone == {"contrast", "saturation", "sharpness"}
Parm == Colour \cup Scene \cup Tone \cup {"metering", "focus_mode", "frame_rate"}
Correction == {"wdr", "anti_shake"}
View == {"zoom", "smart_auto", "vintage_mode"}
Video == {"gamma", "slow_ae"}
Control == Correction \cup View \cup Video
             \cup {"anti_banding", "beauty_shot", "face_detect", "blur"}
Latched == {"vtmode", "chk_dataline", "sensor_mode", "shot_mode"}
Switches == {"object_tracking_start_stop", "touch_af_start_stop"}
Settings == Parm \cup Control \cup Latched \cup Switches

Unset == "unset"                  \* the -1 of the constructor
ValuesOf(s) == CASE s = "flash_mode" -> {"torch", "auto", "off"}
                 [] s = "focus_mode" -> {"auto", "macro"}
                 [] s = "scene_mode" -> {"auto", "night", "portrait"}
                 [] OTHER -> Values

May == failures < MaxFailures     \* another ioctl may fail

DeviceInit ==
  /\ used \in Uses
  /\ opened = <<FALSE, FALSE>>
  /\ flagInit = FALSE /\ flagStart = FALSE
  /\ flagRecord \in BOOLEAN       \* not in the constructor's list
  /\ stream = "off" /\ stream2 = FALSE /\ queued2 = {}
  /\ cache = [s \in used |-> Unset] /\ driver = [s \in used |-> Unset]
  /\ astray = {}
  /\ previewSize \in Sizes /\ streamSize = previewSize
  /\ broken = FALSE /\ failures = 0 /\ ret = 0

Fail == May /\ failures' = failures + 1 /\ ret' = -1
Succeed == UNCHANGED failures /\ ret' = 0

(***************************************************************************)
(* Opening and closing                                                     *)
(***************************************************************************)

\* initCamera: both nodes are opened and set to the sensor; an error leaves
\* open what was opened, with m_flag_init still 0
InitCamera ==
  /\ ~flagInit /\ opened = <<FALSE, FALSE>>
  /\ \/ Succeed /\ opened' = <<TRUE, TRUE>> /\ flagInit' = TRUE
     \/ /\ Fail /\ UNCHANGED flagInit
        /\ opened' \in {<<FALSE, FALSE>>, <<TRUE, FALSE>>, <<TRUE, TRUE>>}
  /\ UNCHANGED <<used, flagStart, flagRecord, streams, settings, previewSize>>

\* stopRecord, whose result DeinitCamera does not look at
StopRecordCore(ok) ==
  /\ flagRecord' = FALSE
  /\ stream2' = IF flagRecord /\ ok THEN FALSE ELSE stream2
  /\ queued2' = IF flagRecord /\ ok THEN {} ELSE queued2

\* DeinitCamera; closing a node ends its stream
DeinitCamera ==
  /\ flagInit
  /\ Succeed
  /\ opened' = <<FALSE, FALSE>> /\ flagInit' = FALSE
  /\ flagRecord' = FALSE /\ stream2' = FALSE /\ queued2' = {}
  /\ stream' = "off"
  /\ UNCHANGED <<used, flagStart, settings, previewSize, streamSize, broken>>

(***************************************************************************)
(* Settings                                                                *)
(***************************************************************************)

\* The shape of the setters, on a record of the settings: nothing for an equal
\* value; otherwise the cache is written first, and the driver is told if the
\* setter tells it now.  `fails` are the settings whose ioctl fails.
Current == [cache |-> cache, driver |-> driver, astray |-> astray, failed |-> {}]

\* MUTANT: the cache is left alone when the driver is not told
Store_OnlyRunning(d, s, v, now, fails) ==
  IF s \notin used \/ d.cache[s] = v \/ ~now THEN d
  ELSE [d EXCEPT !.cache[s] = v, !.driver[s] = IF s \in fails THEN @ ELSE v,
                 !.astray = IF s \in fails THEN @ \cup {s} ELSE @ \ {s},
                 !.failed = IF s \in fails THEN @ \cup {s} ELSE @]
Store(d, s, v, now, fails) ==
  IF s \notin used \/ d.cache[s] = v THEN d
  ELSE [cache  |-> [d.cache EXCEPT ![s] = v],
        driver |-> IF now /\ s \notin fails THEN [d.driver EXCEPT ![s] = v] ELSE d.driver,
        astray |-> IF ~now THEN d.astray
                   ELSE IF s \in fails THEN d.astray \cup {s} ELSE d.astray \ {s},
        failed |-> IF now /\ s \in fails THEN d.failed \cup {s} ELSE d.failed]

Become(d) == cache' = d.cache /\ driver' = d.driver /\ astray' = d.astray

Set(s, v, now) ==
  /\ flagInit
  /\ \/ Succeed /\ Become(Store(Current, s, v, now, {}))
     \/ /\ cache[s] # v /\ now
        /\ Fail /\ Become(Store(Current, s, v, now, {s}))
  /\ UNCHANGED <<used, nodes, streams, previewSize>>

SetAny(group, now) == \E s \in group \cap used : \E v \in ValuesOf(s) : Set(s, v, now)

SetFrameRate == SetAny({"frame_rate"}, flagStart)
SetColour == SetAny(Colour, flagStart)
SetAntiBanding == SetAny({"anti_banding"}, flagStart)
SetScene == SetAny(Scene, flagStart)
SetTone == SetAny(Tone, flagStart)
SetCorrection == SetAny(Correction, flagStart)
SetMetering == SetAny({"metering"}, flagStart)
SetView == SetAny(View, flagStart)
SetFocusMode == SetAny({"focus_mode"}, FALSE)       \* AF_SUPPORT is not defined
SetVideo == SetAny(Video, flagStart)
SetBlur == SetAny({"blur"}, flagStart)
SetLatched == SetAny(Latched, FALSE)
StartStop == SetAny(Switches, TRUE)                 \* no test of the flag

\* setFaceDetect: the driver's focus mode is set first, past m_params; called
\* by setBeautyShot too, which does not look at its result
SetFaceDetect ==
  /\ {"face_detect", "focus_mode"} \subseteq used /\ flagInit
  /\ cache["face_detect"] # "on"
  /\ cache' = [cache EXCEPT !["face_detect"] = "on"]
  /\ \/ ~flagStart /\ Succeed /\ UNCHANGED <<driver, astray>>
     \/ /\ flagStart /\ Succeed
        /\ driver' = [driver EXCEPT !["focus_mode"] = "auto", !["face_detect"] = "on"]
        /\ astray' = (astray \ {"face_detect"}) \cup {"focus_mode"}
     \/ /\ flagStart /\ Fail
        /\ \/ UNCHANGED driver /\ astray' = astray \cup {"face_detect"}
           \/ /\ driver' = [driver EXCEPT !["focus_mode"] = "auto"]
              /\ astray' = astray \cup {"face_detect", "focus_mode"}
  /\ UNCHANGED <<used, nodes, streams, previewSize>>

\* setPreviewSize takes effect with the next S_FMT
SetPreviewSize(size) ==
  /\ flagInit /\ previewSize' = size /\ Succeed
  /\ UNCHANGED <<used, nodes, streams, settings>>

(***************************************************************************)
(* Preview                                                                 *)
(***************************************************************************)

\* What startPreview sends besides S_PARM
SentAtStart == {"chk_dataline"} \cup (IF FrontCamera THEN {"vtmode", "blur"} ELSE {})
SentByParm == Parm \cap used
Send(names) == [s \in used |-> IF s \in names THEN cache[s] ELSE driver[s]]

\* startPreview: up to STREAMON an error leaves the camera stopped; after it
\* m_flag_camera_start is 1 whatever is returned
StartPreview ==
  /\ opened[1] /\ ~flagStart
  /\ \/ /\ Fail
        /\ \/ UNCHANGED <<streamSize, driver>>               \* ENUM_FMT, S_FMT
           \/ /\ streamSize' = previewSize                   \* REQBUFS .. STREAMON
              /\ driver' \in {driver, Send({"chk_dataline"}), Send(SentAtStart \ {"blur"})}
        /\ UNCHANGED <<flagStart, stream, astray>>
     \/ /\ flagStart' = TRUE /\ stream' = "preview" /\ streamSize' = previewSize
        /\ \/ /\ Fail                                        \* S_PARM
              /\ driver' = Send(SentAtStart \ {"blur"})
              /\ astray' = astray \cup SentByParm
           \/ /\ \/ Succeed                                  \* or VGA_BLUR, poll, focus
                 \/ Fail
              /\ driver' = Send(SentAtStart \cup SentByParm)
              /\ astray' = astray \ (SentAtStart \cup SentByParm)
  /\ UNCHANGED <<used, opened, flagInit, flagRecord, stream2, queued2, cache,
                 previewSize, broken>>

\* stopPreview's setFlashMode(OFF), whose result is not looked at
Torch == "flash_mode" \in used /\ cache["flash_mode"] = "torch"
TorchOff(told) ==
  IF ~Torch THEN UNCHANGED settings
  ELSE /\ cache' = [cache EXCEPT !["flash_mode"] = "off"]
       /\ driver' = IF told THEN [driver EXCEPT !["flash_mode"] = "off"] ELSE driver
       /\ astray' = IF told THEN astray \ {"flash_mode"} ELSE astray \cup {"flash_mode"}

StopPreview ==
  /\ flagStart
  /\ \E told \in BOOLEAN :
       /\ TorchOff(told) /\ (told \/ (Torch /\ May))
       /\ \/ /\ flagStart' = FALSE /\ stream' = "off" /\ ret' = 0
             /\ failures' = IF told THEN failures ELSE failures + 1
          \/ told /\ Fail /\ UNCHANGED <<flagStart, stream>>   \* STREAMOFF fails
  /\ UNCHANGED <<used, opened, flagInit, flagRecord, stream2, queued2, streamSize,
                 previewSize, broken>>

(***************************************************************************)
(* Recording                                                               *)
(***************************************************************************)

\* startRecord: m_flag_record_start is set after everything succeeded, so that
\* an error after STREAMON leaves node 2 streaming
StartRecord ==
  /\ opened[2] /\ ~flagRecord
  /\ \/ Succeed /\ flagRecord' = TRUE /\ stream2' = TRUE /\ queued2' = RecordBuffers
     \/ Fail /\ UNCHANGED <<flagRecord, stream2>> /\ queued2' \in {{}, RecordBuffers}
     \/ Fail /\ stream2' = TRUE /\ queued2' = RecordBuffers /\ UNCHANGED flagRecord
  /\ broken' = (broken \/ (stream2' /\ ret' = -1))
  /\ UNCHANGED <<used, opened, flagInit, flagStart, stream, streamSize, settings,
                 previewSize>>

StopRecord ==
  /\ opened[2] /\ flagRecord
  /\ \E ok \in BOOLEAN : StopRecordCore(ok) /\ IF ok THEN Succeed ELSE Fail
  /\ broken' = (broken \/ (stream2 /\ ret' = -1))
  /\ UNCHANGED <<used, opened, flagInit, flagStart, stream, streamSize, settings,
                 previewSize>>

GetRecordFrame(i) ==
  /\ flagRecord /\ opened[2] /\ i \in queued2 /\ Succeed
  /\ queued2' = queued2 \ {i}
  /\ UNCHANGED <<used, nodes, stream, stream2, streamSize, broken,
                 settings, previewSize>>

\* releaseRecordFrame: a frame that comes back after stopRecord is dropped
ReleaseRecordFrame(i) ==
  /\ opened[2] /\ i \in RecordBuffers \ queued2 /\ Succeed
  /\ queued2' = IF flagRecord THEN queued2 \cup {i} ELSE queued2
  /\ UNCHANGED <<used, nodes, stream, stream2, streamSize, broken,
                 settings, previewSize>>

(***************************************************************************)
(* Taking a picture                                                        *)
(***************************************************************************)

\* getSnapshotAndJpeg (JPEG_FROM_SENSOR is not defined), after takePicture has
\* stopped the preview; between its two stream calls it looks at no result, nor
\* at that of the second
TakePicture ==
  /\ opened[1] /\ ~flagStart /\ stream # "preview"
  /\ \/ Succeed /\ stream' = "off" /\ UNCHANGED broken
     \/ Fail /\ UNCHANGED <<stream, broken>>
     \/ /\ May /\ failures' = failures + 1 /\ ret' = 0       \* STREAMOFF
        /\ stream' = "snapshot" /\ broken' = TRUE
  /\ UNCHANGED <<used, nodes, stream2, queued2, streamSize, settings, previewSize>>

DeviceNext ==
  \/ InitCamera \/ DeinitCamera
  \/ SetFrameRate \/ SetColour \/ SetAntiBanding \/ SetScene \/ SetTone
  \/ SetCorrection \/ SetMetering \/ SetView \/ SetFocusMode \/ SetVideo
  \/ SetBlur \/ SetLatched \/ StartStop \/ SetFaceDetect
  \/ \E size \in Sizes : SetPreviewSize(size)
  \/ StartPreview \/ StopPreview \/ StartRecord \/ StopRecord \/ TakePicture
  \/ \E i \in RecordBuffers : GetRecordFrame(i) \/ ReleaseRecordFrame(i)

DeviceSpec == DeviceInit /\ [][DeviceNext]_deviceVars
=============================================================================
