------------------------------ MODULE MC_Hals ------------------------------
(* The camera and the audio HAL in one run: a behaviour is about the threads    *)
(* of the camera, its parameters on the device, the whole interface of the      *)
(* device, or the threads of the audio streams; the rest stays as it was.       *)
EXTENDS AudioHardware

CONSTANTS Uses, Values, Sizes, FrontCamera,                        \* of CameraParameters
          Windows, WindowFails, ChangeRunning, EarlyRelease        \* of CameraHal

VARIABLES
  used, opened, flagInit, flagStart, flagRecord, stream, stream2, queued2, cache, driver,
  astray, previewSize, streamSize, broken, ret,        \* of CameraDevice
  running, reported, reportedSize, heapSize, resized, refused, gps, place,   \* of CameraParameters
  lock, previewRunning, deferred, window, deviceOn, startFailed, exitPreview, client, after,
  preview, frameOf, captureFlag, picture, focus, exitFocus,          \* of CameraHal
  about          \* "threads", "parameters", "device" or "audio"

Params == INSTANCE CameraParameters      \* the bound on failures is that of the audio HAL
Camera == INSTANCE CameraHal

SmallUses == {{}, {"scene_mode", "flash_mode"}, {"white_balance", "effects"},
              {"brightness", "focus_mode"}}
DeviceUses == {{"frame_rate", "anti_banding"}, {"contrast", "metering"}, {"wdr", "zoom"},
               {"gamma", "blur"}, {"vtmode", "touch_af_start_stop"},
               {"face_detect", "focus_mode"}, {"effects", "iso"}}

MCUses == SmallUses \cup DeviceUses

deviceVars == <<used, opened, flagInit, flagStart, flagRecord, stream, stream2, queued2, cache,
                driver, astray, previewSize, streamSize, broken, ret>>
halVars == <<running, reported, reportedSize, heapSize, resized, refused, gps, place>>
audioVars == <<owner, pc, back, out, inp, hw, goal, missed, callFailed, calls>>
cameraVars == <<lock, previewRunning, deferred, window, deviceOn, startFailed, exitPreview, client,
                after, preview, frameOf, captureFlag, picture, focus, exitFocus>>
allVars == <<cameraVars, deviceVars, halVars, vars, about>>

MCInit ==
  /\ Init /\ Params!Init /\ Camera!Init
  /\ \/ about \in {"threads", "audio"} /\ used = {} /\ ~flagRecord /\ previewSize = "vga"
     \/ about = "parameters" /\ used \in SmallUses
     \/ about = "device" /\ used \in DeviceUses /\ ~flagRecord /\ previewSize = "vga"

Filming(A) == about = "threads" /\ A /\ UNCHANGED <<deviceVars, halVars, vars, about>>
Sounding(A) == about = "audio" /\ A /\ UNCHANGED <<cameraVars, deviceVars, halVars, about>>

MCNext ==
  \/ Filming(Camera!Next) \/ Sounding(Next)
  \/ about = "parameters" /\ Params!Next /\ UNCHANGED <<cameraVars, audioVars, about>>
  \/ about = "device" /\ Params!DeviceNext /\ UNCHANGED <<cameraVars, halVars, audioVars, about>>

\* the fairness of the threads of the one or of the other
MCSpec ==
  /\ MCInit /\ [][MCNext]_allVars
  /\ WF_allVars(Filming(Camera!ClientStep) \/ Sounding(Step("client")))
  /\ WF_allVars(Filming(Camera!PreviewStep) \/ Sounding(Step("playback")))
  /\ WF_allVars(Filming(Camera!PictureStep) \/ Sounding(Step("record")))
  /\ WF_allVars(Filming(Camera!FocusStep))

-----------------------------------------------------------------------------
\* The driver, the settings the device remembers and those the client reads agree, and
\* the torch and the streams end with what they were started for.
SettingsAgree ==
  /\ Params!TypeOK /\ Params!DriverFollows /\ Params!ReportsTheDevice
  /\ Params!PositionIsReported /\ Params!HeapFitsFrames /\ Params!TorchGoesOut
  /\ Params!SceneExcludesTorch /\ Params!StreamsHaveOwners

\* The camera's threads hand over: a preview that was started runs, one that was stopped
\* has stopped, and the picture thread has the sensor for itself.
ThreadsHandOver ==
  Camera!TypeOK /\ Camera!StartWakesThread /\ Camera!StopStops /\ Camera!PictureAlone

\* A buffer of the preview goes back to the window it was taken from.
BufferGoesHome == Camera!BufferGoesHome

\* Every call of every thread of either returns.
HalCallsReturn == Camera!CallsReturn /\ CallsReturn
=============================================================================
