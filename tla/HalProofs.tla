------------------------------ MODULE HalProofs ------------------------------
(* The client, the preview thread and the picture thread of the camera hand     *)
(* over without losing a start, a stop or a buffer, in every interleaving and   *)
(* for any windows; and what the client reads of the settings, what the device  *)
(* remembers and what the driver was told agree, whatever calls fail.           *)
(* The three threads of the audio HAL open and close the same devices, under    *)
(* mutexes they give back and take again in between: in every interleaving, and *)
(* whichever opens fail, the counts are those of the users and the sound goes   *)
(* where the mode says.  Control says where the threads are and what they hold, *)
(* Data what the streams, the counts and the mode are between the steps.        *)
EXTENDS MC_Hals, Integers, FiniteSetTheorems, TLAPS

Releasing == {"releaseSignal", "releaseJoin", "releaseFocus", "releaseEnd", "released"}
Stopping == {"stopWaits", "stopped", "pictureWait", "pictureRun", "pictureFlag"}

\* The places of a call: where it goes on after a stop, and what it may assume there.
Resumes == after \in {"idle", "windowSet", "pictureWait"}
StoppedThere == client \in Stopping => ~previewRunning
WindowDiscipline == ~ChangeRunning /\ client = "window" => ~previewRunning \/ deferred

\* From its test to its wait the thread holds the lock, so no start falls in between.
StopsUnderLock == preview = "stopping" => lock = "preview"
Awake ==
  previewRunning /\ ~deferred /\ ~startFailed /\ client \notin Releasing
    => preview \notin {"waiting", "stopping"}

\* A preview that is off, or that waits for a window, has no frame, unless a call is
\* just stopping it.
DeviceQuiet ==
  (~previewRunning \/ deferred) /\ client # "stopWaits" => ~deviceOn /\ preview # "draw"

\* A picture is announced by the flag or by the call that is about to set it, and
\* nothing starts the preview meanwhile.
PictureKnown ==
  picture = "running" =>
    /\ client = "pictureFlag" \/ captureFlag
    /\ ~previewRunning \/ client \in Releasing

IInv ==
  /\ Resumes /\ StoppedThere /\ WindowDiscipline /\ StopsUnderLock /\ Awake
  /\ DeviceQuiet /\ PictureKnown /\ Camera!PictureAlone /\ Camera!BufferGoesHome

USE DEF Camera!previewVars, Camera!captureVars, Camera!focusVars, Camera!Goto, Camera!Wake,
       Releasing, Stopping

-----------------------------------------------------------------------------
LEMMA InitInv == Camera!Init => IInv
  BY DEF Camera!Init, IInv, Resumes, StoppedThere, WindowDiscipline, StopsUnderLock, Awake,
         DeviceQuiet, PictureKnown, Camera!PictureAlone, Camera!BufferGoesHome

\* The client chooses its next call.
LEMMA Call_Step == IInv /\ Camera!Call => IInv'
  BY DEF Camera!Call, IInv, Resumes, StoppedThere, WindowDiscipline, StopsUnderLock, Awake,
         DeviceQuiet, PictureKnown, Camera!PictureAlone, Camera!BufferGoesHome

\* The wait for a picture ends when the flag is clear, or gives up.
LEMMA WaitCapture_Step ==
  ASSUME IInv,
         \/ Camera!WaitCapture("startWait", "start") \/ Camera!WaitCapture("setWait", "set")
         \/ Camera!WaitCapture("pictureWait", "pictureRun")
  PROVE  IInv'
  BY DEF Camera!WaitCapture, IInv, Resumes, StoppedThere, WindowDiscipline, StopsUnderLock,
         Awake, DeviceQuiet, PictureKnown, Camera!PictureAlone, Camera!BufferGoesHome

\* The start takes the lock, so the thread is not on its way to the wait, and wakes it.
LEMMA StartPreview_Step == IInv /\ Camera!StartPreview => IInv'
  BY DEF Camera!StartPreview, Camera!StartInternal, IInv, Resumes, StoppedThere,
         WindowDiscipline, StopsUnderLock, Awake, DeviceQuiet, PictureKnown,
         Camera!PictureAlone, Camera!BufferGoesHome

\* A stop of a preview that shows frames waits for the thread; any other finds it quiet.
LEMMA StopInternal_Step ==
  ASSUME IInv,
         \/ Camera!StopInternal("stop", "idle") \/ Camera!StopInternal("windowLock", "windowSet")
         \/ Camera!StopInternal("picture", "pictureWait")
  PROVE  IInv'
  BY DEF Camera!StopInternal, IInv, Resumes, StoppedThere, WindowDiscipline, StopsUnderLock,
         Awake, DeviceQuiet, PictureKnown, Camera!PictureAlone, Camera!BufferGoesHome

LEMMA StopReturns_Step == IInv /\ Camera!StopReturns => IInv'
  BY DEF Camera!StopReturns, IInv, Resumes, StoppedThere, WindowDiscipline, StopsUnderLock,
         Awake, DeviceQuiet, PictureKnown, Camera!PictureAlone, Camera!BufferGoesHome

\* Where the client is disciplined the window changes while no buffer is out.
LEMMA SetPreviewWindow_Step ==
  ASSUME IInv, NEW w, Camera!SetPreviewWindow(w)
  PROVE  IInv'
  BY DEF Camera!SetPreviewWindow, IInv, Resumes, StoppedThere, WindowDiscipline, StopsUnderLock,
         Awake, DeviceQuiet, PictureKnown, Camera!PictureAlone, Camera!BufferGoesHome

LEMMA WindowStops_Step == IInv /\ Camera!WindowStops => IInv'
  <1>1. ASSUME IInv, Camera!StopInternal("windowLock", "windowSet")
        PROVE  IInv'
    BY <1>1, StopInternal_Step
  <1>2. ASSUME IInv, client = "windowLock", Camera!Goto("windowSet"),
               UNCHANGED <<Camera!previewVars, after, preview, Camera!captureVars,
                           Camera!focusVars>>
        PROVE  IInv'
    BY <1>2
       DEF IInv, Resumes, StoppedThere, WindowDiscipline, StopsUnderLock, Awake, DeviceQuiet,
           PictureKnown, Camera!PictureAlone, Camera!BufferGoesHome
  <1> QED BY <1>1, <1>2 DEF Camera!WindowStops

\* A deferred start is made up for; while a picture is taken there is none.
LEMMA WindowSet_Step == IInv /\ Camera!WindowSet => IInv'
  BY DEF Camera!WindowSet, Camera!StartInternal, IInv, Resumes, StoppedThere, WindowDiscipline,
         StopsUnderLock, Awake, DeviceQuiet, PictureKnown, Camera!PictureAlone,
         Camera!BufferGoesHome

\* The picture thread is started with the preview off, and only then announced.
LEMMA Picture_Step ==
  ASSUME IInv,
         \/ Camera!TakePicture \/ Camera!RunPicture \/ Camera!SetCaptureFlag
         \/ Camera!CancelPicture \/ Camera!PictureStep
  PROVE  IInv'
  BY DEF Camera!TakePicture, Camera!RunPicture, Camera!SetCaptureFlag, Camera!CancelPicture,
         Camera!PictureStep, Camera!PictureDone, Camera!PictureExit, IInv, Resumes,
         StoppedThere, WindowDiscipline, StopsUnderLock, Awake, DeviceQuiet, PictureKnown,
         Camera!PictureAlone, Camera!BufferGoesHome

\* Settings and the focus thread do not touch what is shared with the preview.
LEMMA OtherCalls_Step ==
  IInv /\ (Camera!SetParameters \/ Camera!AutoFocus \/ Camera!FocusStep) => IInv'
  BY DEF Camera!SetParameters, Camera!AutoFocus, Camera!FocusStep, Camera!FocusWait,
         Camera!FocusDone, IInv, Resumes, StoppedThere, WindowDiscipline, StopsUnderLock, Awake,
         DeviceQuiet, PictureKnown, Camera!PictureAlone, Camera!BufferGoesHome

\* release sets the flags without the lock; from there no call begins any more.
LEMMA Release_Step ==
  ASSUME IInv,
         \/ Camera!ReleaseFlags \/ Camera!ReleaseSignal \/ Camera!ReleaseJoin
         \/ Camera!ReleaseFocus \/ Camera!ReleaseEnd
  PROVE  IInv'
  BY DEF Camera!ReleaseFlags, Camera!ReleaseSignal, Camera!ReleaseJoin, Camera!ReleaseFocus,
         Camera!ReleaseEnd, IInv, Resumes, StoppedThere, WindowDiscipline, StopsUnderLock,
         Awake, DeviceQuiet, PictureKnown, Camera!PictureAlone, Camera!BufferGoesHome

\* The thread takes a frame only from a device that streams, and draws it on the window
\* it asked for it.
LEMMA Preview_Step == IInv /\ Camera!PreviewStep => IInv'
  BY DEF Camera!PreviewStep, Camera!PreviewCheck, Camera!PreviewStop, Camera!PreviewExit,
         Camera!PreviewFrame, Camera!PreviewDraw, IInv, Resumes, StoppedThere, WindowDiscipline,
         StopsUnderLock, Awake, DeviceQuiet, PictureKnown, Camera!PictureAlone,
         Camera!BufferGoesHome

LEMMA NextInv == IInv /\ [Camera!Next]_(Camera!vars) => IInv'
  <1> SUFFICES ASSUME IInv, [Camera!Next]_(Camera!vars)
               PROVE  IInv'
    OBVIOUS
  <1>1. CASE Camera!Call
    BY <1>1, Call_Step
  <1>2. CASE Camera!ClientStep
    BY <1>2, WaitCapture_Step, StartPreview_Step, StopInternal_Step, StopReturns_Step,
       SetPreviewWindow_Step, WindowStops_Step, WindowSet_Step, Picture_Step, OtherCalls_Step,
       Release_Step DEF Camera!ClientStep, Camera!StopPreview, Camera!TakePictureStops
  <1>3. CASE Camera!PreviewStep
    BY <1>3, Preview_Step
  <1>4. CASE Camera!PictureStep
    BY <1>4, Picture_Step
  <1>5. CASE Camera!FocusStep
    BY <1>5, OtherCalls_Step
  <1>6. CASE UNCHANGED Camera!vars
    BY <1>6
       DEF Camera!vars, IInv, Resumes, StoppedThere, WindowDiscipline, StopsUnderLock, Awake,
           DeviceQuiet, PictureKnown, Camera!PictureAlone, Camera!BufferGoesHome
  <1> QED BY <1>1, <1>2, <1>3, <1>4, <1>5, <1>6 DEF Camera!Next

-----------------------------------------------------------------------------
\* Every flag is one, and every thread is at a place of its own.
LEMMA InitTypes == Camera!Init => Camera!TypeOK
  BY DEF Camera!Init, Camera!TypeOK, Camera!ClientPlaces

LEMMA NextTypes == Camera!TypeOK /\ [Camera!Next]_(Camera!vars) => Camera!TypeOK'
  <1> SUFFICES ASSUME Camera!TypeOK, [Camera!Next]_(Camera!vars)
               PROVE  Camera!TypeOK'
    OBVIOUS
  <1> USE DEF Camera!TypeOK, Camera!ClientPlaces
  <1>1. CASE Camera!Call
    BY <1>1 DEF Camera!Call
  <1>2. CASE Camera!ClientStep
    <2>1. ASSUME NEW from, NEW next \in Camera!ClientPlaces, Camera!WaitCapture(from, next)
          PROVE  Camera!TypeOK'
      BY <2>1 DEF Camera!WaitCapture
    <2>2. ASSUME NEW from, NEW next \in Camera!ClientPlaces, Camera!StopInternal(from, next)
          PROVE  Camera!TypeOK'
      BY <2>2 DEF Camera!StopInternal
    <2>3. CASE Camera!StartPreview \/ Camera!WindowSet
      BY <2>3 DEF Camera!StartPreview, Camera!WindowSet, Camera!StartInternal
    <2>4. ASSUME NEW w \in Windows \cup {"none"}, Camera!SetPreviewWindow(w)
          PROVE  Camera!TypeOK'
      BY <2>4 DEF Camera!SetPreviewWindow
    <2>5. CASE Camera!StopReturns \/ Camera!WindowStops
      BY <2>5, <2>2 DEF Camera!StopReturns, Camera!WindowStops
    <2>6. CASE \/ Camera!TakePicture \/ Camera!RunPicture \/ Camera!SetCaptureFlag
               \/ Camera!CancelPicture \/ Camera!SetParameters \/ Camera!AutoFocus
      BY <2>6 DEF Camera!TakePicture, Camera!RunPicture, Camera!SetCaptureFlag,
         Camera!CancelPicture, Camera!SetParameters, Camera!AutoFocus
    <2>7. CASE \/ Camera!ReleaseFlags \/ Camera!ReleaseSignal \/ Camera!ReleaseJoin
               \/ Camera!ReleaseFocus \/ Camera!ReleaseEnd
      BY <2>7 DEF Camera!ReleaseFlags, Camera!ReleaseSignal, Camera!ReleaseJoin,
         Camera!ReleaseFocus, Camera!ReleaseEnd
    <2>8. {"start", "pictureRun", "set", "idle", "pictureWait"} \subseteq Camera!ClientPlaces
      OBVIOUS
    <2> QED BY <1>2, <2>1, <2>2, <2>3, <2>4, <2>5, <2>6, <2>7, <2>8
            DEF Camera!ClientStep, Camera!StopPreview, Camera!TakePictureStops
  <1>3. CASE Camera!PreviewStep
    <2>1. CASE Camera!PreviewFrame
      BY <2>1 DEF Camera!PreviewFrame
    <2>2. CASE Camera!PreviewCheck
      BY <2>2 DEF Camera!PreviewCheck
    <2>3. CASE Camera!PreviewExit
      BY <2>3 DEF Camera!PreviewExit
    <2>4. CASE Camera!PreviewDraw
      BY <2>4 DEF Camera!PreviewDraw
    <2>5. CASE Camera!PreviewStop
      BY <2>5 DEF Camera!PreviewStop
    <2> QED BY <1>3, <2>1, <2>2, <2>3, <2>4, <2>5 DEF Camera!PreviewStep
  <1>4. CASE Camera!PictureStep \/ Camera!FocusStep
    BY <1>4 DEF Camera!PictureStep, Camera!PictureDone, Camera!PictureExit, Camera!FocusStep,
       Camera!FocusWait, Camera!FocusDone
  <1>5. CASE UNCHANGED Camera!vars
    BY <1>5 DEF Camera!vars
  <1> QED BY <1>1, <1>2, <1>3, <1>4, <1>5 DEF Camera!Next

-----------------------------------------------------------------------------
\* A preview that was started runs, one that was stopped has stopped, and the picture
\* thread has the sensor for itself (startPreviewInternal, stopPreviewInternal,
\* setPreviewWindow, takePicture, previewThread), in every interleaving of the calls with
\* the three threads.
THEOREM HandOver == Camera!Spec => []ThreadsHandOver
  <1>1. IInv /\ Camera!TypeOK => ThreadsHandOver
    BY DEF IInv, ThreadsHandOver, Awake, DeviceQuiet, Camera!StartWakesThread, Camera!StopStops
  <1>2. Camera!Spec => []IInv
    BY InitInv, NextInv, PTL DEF Camera!Spec
  <1>3. Camera!Spec => []Camera!TypeOK
    BY InitTypes, NextTypes, PTL DEF Camera!Spec
  <1> QED BY <1>1, <1>2, <1>3, PTL

\* A buffer of the preview goes back to the window it was dequeued from (previewThread,
\* setPreviewWindow), as long as the client changes the window of no running preview.
THEOREM HomeGoing == Camera!Spec => []BufferGoesHome
  <1>1. IInv => BufferGoesHome
    BY DEF IInv, BufferGoesHome
  <1> QED BY <1>1, InitInv, NextInv, PTL DEF Camera!Spec

-----------------------------------------------------------------------------
(* The settings                                                              *)

Flags ==
  /\ flagInit \in BOOLEAN /\ flagStart \in BOOLEAN /\ flagRecord \in BOOLEAN
  /\ stream2 \in BOOLEAN /\ broken \in BOOLEAN
DeviceTypes ==
  /\ opened \in BOOLEAN \X BOOLEAN /\ Flags
  /\ stream \in {"off", "preview", "snapshot"} /\ queued2 \subseteq Params!RecordBuffers
  /\ previewSize \in Sizes /\ streamSize \in Sizes
  /\ astray \subseteq used /\ failures \in 0..MaxFailures /\ ret \in {0, -1}
  /\ cache = [s \in used |-> cache[s]] /\ driver = [s \in used |-> driver[s]]

\* What is true of the device whoever calls it, with setParameters or one setter by one.
DeviceInv ==
  DeviceTypes /\ Params!DriverFollows /\ Params!TorchGoesOut /\ Params!StreamsHaveOwners

ClientTypes ==
  /\ used \in Uses /\ running \in BOOLEAN /\ resized \in BOOLEAN /\ reportedSize \in Sizes
  /\ heapSize \in Sizes \cup {Params!Unset} /\ refused \subseteq Params!Keys
  /\ reported = [k \in Params!Keys |-> reported[k]]
ClientInv ==
  /\ ClientTypes /\ Params!ReportsTheDevice /\ Params!PositionIsReported
  /\ Params!HeapFitsFrames /\ Params!SceneExcludesTorch

DeviceKept == UNCHANGED Params!deviceVars
ClientKept == UNCHANGED Params!halVars

-----------------------------------------------------------------------------
\* The calls of setParameters concern different settings, so that each finds the value from
\* before: when those about the keys in names were made, these settings have the value that
\* was asked for, the driver has it where it was told and granted it, and nothing else changed.
Made(f, fails, names) ==
  LET new == {k \in names \cap Params!Known(f) : cache[k] # f[k]}
      told == {k \in new : Params!Sends(k)}
  IN [cache  |-> [s \in used |-> IF s \in new THEN f[s] ELSE cache[s]],
      driver |-> [s \in used |-> IF s \in told \ fails THEN f[s] ELSE driver[s]],
      astray |-> (astray \ told) \cup (told \cap fails),
      failed |-> told \cap fails]

LEMMA OneMore ==
  ASSUME DeviceTypes, NEW f, NEW fails, NEW names, NEW k, k \notin names
  PROVE  Params!Apply(Made(f, fails, names), k, f, fails) = Made(f, fails, names \cup {k})
  <1> DEFINE d == Made(f, fails, names)
             e == Made(f, fails, names \cup {k})
             new == {i \in names \cap Params!Known(f) : cache[i] # f[i]}
             told == {i \in new : Params!Sends(i)}
             new2 == {i \in (names \cup {k}) \cap Params!Known(f) : cache[i] # f[i]}
             told2 == {i \in new2 : Params!Sends(i)}
  <1>1. Params!Known(f) \subseteq used
    BY DEF Params!Known, Params!Keys
  <1>2. CASE k \in Params!Known(f) /\ cache[k] # f[k]
    <2>1. new2 = new \cup {k} /\ k \notin new
      BY <1>2
    <2>2. told2 = (IF Params!Sends(k) THEN told \cup {k} ELSE told) /\ k \notin told
      BY <2>1
    <2>3. d.cache[k] = cache[k] /\ d.cache = [s \in used |-> IF s \in new THEN f[s] ELSE cache[s]]
      BY <1>1, <1>2, <2>1 DEF Made
    <2>4. e.cache = [d.cache EXCEPT ![k] = f[k]]
      BY <1>1, <1>2, <2>1, <2>3 DEF Made
    <2>5. e.driver = IF Params!Sends(k) /\ k \notin fails THEN [d.driver EXCEPT ![k] = f[k]] ELSE d.driver
      BY <1>1, <1>2, <2>1, <2>2 DEF Made
    <2>6. e.astray = IF ~Params!Sends(k) THEN d.astray
                     ELSE IF k \in fails THEN d.astray \cup {k} ELSE d.astray \ {k}
      BY <2>1, <2>2 DEF Made
    <2>7. e.failed = IF Params!Sends(k) /\ k \in fails THEN d.failed \cup {k} ELSE d.failed
      BY <2>2 DEF Made
    <2>8. e = [cache |-> e.cache, driver |-> e.driver, astray |-> e.astray, failed |-> e.failed]
      BY DEF Made
    <2>9. Params!Store(d, k, f[k], Params!Sends(k), fails) = e
      <3> HIDE DEF d, e
      <3>1. k \in used /\ d.cache[k] # f[k]
        BY <1>1, <1>2, <2>3
      <3> QED BY <3>1, <2>4, <2>5, <2>6, <2>7, <2>8 DEF Params!Store
    <2> QED BY <1>2, <2>9 DEF Params!Apply
  <1>3. CASE k \in Params!Known(f) /\ cache[k] = f[k]
    <2>1. new2 = new /\ k \notin new
      BY <1>3
    <2>2. d = e
      BY <2>1 DEF Made
    <2>3. d.cache[k] = f[k]
      BY <1>1, <1>3, <2>1 DEF Made
    <2>4. Params!Store(d, k, f[k], Params!Sends(k), fails) = d
      <3> HIDE DEF d
      <3> QED BY <2>3 DEF Params!Store
    <2> QED BY <1>3, <2>2, <2>4 DEF Params!Apply
  <1>4. CASE k \notin Params!Known(f)
    <2>1. new2 = new
      BY <1>4
    <2> QED BY <1>4, <2>1 DEF Made, Params!Apply
  <1> QED BY <1>2, <1>3, <1>4

LEMMA AllMade ==
  ASSUME DeviceTypes, NEW f, NEW fails
  PROVE  Params!ApplyAll(f, fails) = Made(f, fails, Params!Keys)
  <1> DEFINE Apply(d, k) == Params!Apply(d, k, f, fails)
             m(names) == Made(f, fails, names)
  <1>1. Params!Current = m({})
    BY DEF DeviceTypes, Params!Current, Made
  <1>2. \A names, k : k \notin names => Apply(m(names), k) = m(names \cup {k})
    BY OneMore
  <1> DEFINE n1 == {"brightness"}
             n2 == n1 \cup {"white_balance"}
             n3 == n2 \cup {"focus_mode"}
             n4 == n3 \cup {"flash_mode"}
             n5 == n4 \cup {"scene_mode"}
             n6 == n5 \cup {"effects"}
  <1>3. Params!ApplyAll(f, fails) =
          Apply(Apply(Apply(Apply(Apply(Apply(Params!Current, "brightness"), "white_balance"),
                                  "focus_mode"), "flash_mode"), "scene_mode"), "effects")
    BY DEF Params!ApplyAll
  <1> HIDE DEF Apply, m
  <1>4. Apply(m({}), "brightness") = m(n1)
    BY <1>2
  <1>5. Apply(m(n1), "white_balance") = m(n2)
    BY <1>2
  <1>6. Apply(m(n2), "focus_mode") = m(n3)
    BY <1>2
  <1>7. Apply(m(n3), "flash_mode") = m(n4)
    BY <1>2
  <1>8. Apply(m(n4), "scene_mode") = m(n5)
    BY <1>2
  <1>9. Apply(m(n5), "effects") = m(n6)
    BY <1>2
  <1>10. n6 \cap Params!Known(f) = Params!Keys \cap Params!Known(f)
    BY DEF Params!Keys, Params!HalKeys, Params!Known
  <1>11. m(n6) = m(Params!Keys)
    BY <1>10 DEF m, Made
  <1> QED BY <1>1, <1>3, <1>4, <1>5, <1>6, <1>7, <1>8, <1>9, <1>11 DEF m

-----------------------------------------------------------------------------
(* The calls of the device                                                   *)

USE DEF Params!Unset, Params!May, Params!Fail, Params!Succeed, Params!RecordBuffers,
       Params!nodes, Params!streams, Params!settings, Params!deviceVars

LEMMA InitDevice == Params!DeviceInit => DeviceInv
  <1> SUFFICES ASSUME Params!DeviceInit PROVE DeviceInv
    OBVIOUS
  <1>1. failures \in 0..MaxFailures
    BY AudioAssumption DEF Params!DeviceInit
  <1>2. cache = [s \in used |-> cache[s]] /\ driver = [s \in used |-> driver[s]]
    BY DEF Params!DeviceInit
  <1>3. opened \in BOOLEAN \X BOOLEAN /\ Flags
    BY DEF Params!DeviceInit, Flags
  <1>4. DeviceTypes
    BY <1>1, <1>2, <1>3 DEF Params!DeviceInit, DeviceTypes
  <1> QED BY <1>4 DEF Params!DeviceInit, DeviceInv, Params!DriverFollows,
             Params!TorchGoesOut, Params!StreamsHaveOwners

\* One failure more, at most.
LEMMA FailureCounted ==
  ASSUME failures \in 0..MaxFailures,
         failures' = failures \/ (failures < MaxFailures /\ failures' = failures + 1)
  PROVE  failures' \in 0..MaxFailures
  BY AudioAssumption

\* Opening and closing stop no preview; the settings are what they were.
LEMMA OpenClose_Step == DeviceInv /\ (Params!InitCamera \/ Params!DeinitCamera) => DeviceInv'
  <1> SUFFICES ASSUME DeviceInv, Params!InitCamera \/ Params!DeinitCamera PROVE DeviceInv'
    OBVIOUS
  <1>1. failures' \in 0..MaxFailures /\ ret' \in {0, -1}
    BY FailureCounted DEF Params!InitCamera, Params!DeinitCamera, DeviceInv, DeviceTypes
  <1>2. opened' \in BOOLEAN \X BOOLEAN
    <2>1. opened' \in {<<FALSE, FALSE>>, <<TRUE, FALSE>>, <<TRUE, TRUE>>}
      BY DEF Params!InitCamera, Params!DeinitCamera
    <2>2. \A a, b \in BOOLEAN : <<a, b>> \in BOOLEAN \X BOOLEAN
      OBVIOUS
    <2> QED BY <2>1, <2>2
  <1>3. UNCHANGED <<used, cache, driver, astray, previewSize, streamSize, flagStart, broken>>
    BY DEF Params!InitCamera, Params!DeinitCamera
  <1>4. /\ Flags' /\ Params!StreamsHaveOwners'
        /\ stream' \in {"off", "preview", "snapshot"} /\ queued2' \subseteq Params!RecordBuffers
    <2>1. CASE Params!InitCamera
      BY <2>1 DEF Params!InitCamera, DeviceInv, DeviceTypes, Flags, Params!StreamsHaveOwners
    <2>2. CASE Params!DeinitCamera
      BY <2>2 DEF Params!DeinitCamera, DeviceInv, DeviceTypes, Flags, Params!StreamsHaveOwners
    <2> QED BY <2>1, <2>2
  <1>5. DeviceTypes'
    BY <1>1, <1>2, <1>3, <1>4 DEF DeviceInv, DeviceTypes
  <1> QED BY <1>3, <1>4, <1>5 DEF DeviceInv, Params!DriverFollows, Params!TorchGoesOut

\* The settings are changed and nothing else is: what the three statements about them need.
LEMMA SettingsChange ==
  ASSUME DeviceInv, UNCHANGED <<used, Params!nodes, Params!streams, previewSize>>,
         failures' \in 0..MaxFailures, ret' \in {0, -1},
         astray' \subseteq used,
         cache' = [s \in used |-> cache'[s]], driver' = [s \in used |-> driver'[s]],
         Params!DriverFollows', Params!TorchGoesOut'
  PROVE  DeviceInv'
  BY DEF DeviceInv, DeviceTypes, Flags, Params!StreamsHaveOwners

\* One setter: a setting of m_params is sent whenever the preview runs.
LEMMA Set_Step ==
  ASSUME DeviceInv, NEW s \in used, NEW v, NEW now \in BOOLEAN, Params!Set(s, v, now),
         s \in Params!Parm \ {"focus_mode"} => now = flagStart
  PROVE  DeviceInv'
  <1>1. /\ UNCHANGED <<used, Params!nodes, Params!streams, previewSize>>
        /\ failures' \in 0..MaxFailures /\ ret' \in {0, -1}
    BY FailureCounted DEF Params!Set, DeviceInv, DeviceTypes
  <1>2. \/ cache[s] = v /\ UNCHANGED Params!settings
        \/ /\ cache[s] # v /\ cache' = [cache EXCEPT ![s] = v]
           /\ \/ now /\ driver' = [driver EXCEPT ![s] = v] /\ astray' = astray \ {s}
              \/ now /\ driver' = driver /\ astray' = astray \cup {s}
              \/ ~now /\ UNCHANGED <<driver, astray>>
    BY DEF Params!Set, Params!Become, Params!Store, Params!Current
  <1>3. /\ astray' \subseteq used
        /\ cache' = [i \in used |-> cache'[i]] /\ driver' = [i \in used |-> driver'[i]]
    BY <1>2 DEF DeviceInv, DeviceTypes
  <1>4. "flash_mode" \in Params!Parm \ {"focus_mode"}
    BY DEF Params!Parm, Params!Scene
  <1>5. ASSUME NEW i \in used, i # s
        PROVE  cache'[i] = cache[i] /\ driver'[i] = driver[i] /\ (i \in astray' <=> i \in astray)
    BY <1>2, <1>5 DEF DeviceInv, DeviceTypes
  <1>6. Params!DriverFollows'
    <2> SUFFICES ASSUME flagStart, NEW i \in (Params!Parm \ {"focus_mode"}) \cap used
                 PROVE  driver'[i] = cache'[i] \/ i \in astray'
      BY <1>1 DEF Params!DriverFollows
    <2>1. driver[i] = cache[i] \/ i \in astray
      BY DEF DeviceInv, Params!DriverFollows
    <2>2. CASE i # s
      <3>1. cache'[i] = cache[i] /\ driver'[i] = driver[i] /\ (i \in astray' <=> i \in astray)
        BY <1>5, <2>2
      <3> QED BY <2>1, <3>1
    <2>3. CASE i = s
      BY <1>2, <2>1, <2>3 DEF DeviceInv, DeviceTypes
    <2> QED BY <2>2, <2>3
  <1>7. Params!TorchGoesOut'
    <2> SUFFICES ASSUME ~flagStart, "flash_mode" \in used \ astray'
                 PROVE  driver'["flash_mode"] # "torch"
      BY <1>1 DEF Params!TorchGoesOut
    <2>1. "flash_mode" = s => ~now
      BY <1>4
    <2>2. "flash_mode" \notin astray /\ driver'["flash_mode"] = driver["flash_mode"]
      <3>1. CASE s = "flash_mode"
        BY <1>2, <2>1, <3>1
      <3>2. CASE s # "flash_mode"
        BY <1>5, <3>2
      <3> QED BY <3>1, <3>2
    <2> QED BY <2>2 DEF DeviceInv, Params!TorchGoesOut
  <1> QED BY <1>1, <1>3, <1>6, <1>7, SettingsChange

LEMMA SetFaceDetect_Step == DeviceInv /\ Params!SetFaceDetect => DeviceInv'
  <1> SUFFICES ASSUME DeviceInv, Params!SetFaceDetect PROVE DeviceInv'
    OBVIOUS
  <1>1. /\ UNCHANGED <<used, Params!nodes, Params!streams, previewSize>>
        /\ failures' \in 0..MaxFailures /\ ret' \in {0, -1}
    BY FailureCounted DEF Params!SetFaceDetect, DeviceInv, DeviceTypes
  <1>2. /\ astray' \subseteq used
        /\ cache' = [i \in used |-> cache'[i]] /\ driver' = [i \in used |-> driver'[i]]
    BY DEF Params!SetFaceDetect, DeviceInv, DeviceTypes
  <1>3. \A i \in used \ {"focus_mode", "face_detect"} :
          cache'[i] = cache[i] /\ driver'[i] = driver[i] /\ (i \in astray' <=> i \in astray)
    BY DEF Params!SetFaceDetect, DeviceInv, DeviceTypes
  <1>4. "face_detect" \notin Params!Parm
    BY DEF Params!Parm, Params!Colour, Params!Scene, Params!Tone
  <1>5. Params!DriverFollows' /\ Params!TorchGoesOut'
    BY <1>1, <1>3, <1>4 DEF DeviceInv, Params!DriverFollows, Params!TorchGoesOut
  <1> QED BY <1>1, <1>2, <1>5, SettingsChange

LEMMA SetPreviewSize_Step ==
  ASSUME DeviceInv, NEW size \in Sizes, Params!SetPreviewSize(size)
  PROVE  DeviceInv'
  BY DEF Params!SetPreviewSize, DeviceInv, DeviceTypes, Flags,
     Params!DriverFollows, Params!TorchGoesOut, Params!StreamsHaveOwners

\* S_PARM carries all settings of m_params; before it nothing about the flash is sent.
LEMMA DeviceStart_Step == DeviceInv /\ Params!StartPreview => DeviceInv'
  <1> SUFFICES ASSUME DeviceInv, Params!StartPreview PROVE DeviceInv'
    OBVIOUS
  <1>1. \A names : /\ Params!Send(names) = [s \in used |-> Params!Send(names)[s]]
                   /\ \A s \in used : Params!Send(names)[s] =
                                          IF s \in names THEN cache[s] ELSE driver[s]
    BY DEF Params!Send
  <1>2. /\ Params!SentByParm = Params!Parm \cap used
        /\ "flash_mode" \notin Params!SentAtStart
    BY DEF Params!SentByParm, Params!SentAtStart
  <1>3. DeviceTypes'
    <2>1. failures' \in 0..MaxFailures /\ ret' \in {0, -1}
      BY FailureCounted DEF Params!StartPreview, DeviceInv, DeviceTypes
    <2>2. Flags'
      BY DEF Params!StartPreview, DeviceInv, DeviceTypes, Flags
    <2>3. driver' = [s \in used |-> driver'[s]] /\ astray' \subseteq used
      BY <1>1, <1>2 DEF Params!StartPreview, DeviceInv, DeviceTypes
    <2>4. /\ UNCHANGED <<used, opened, queued2, cache, previewSize>>
          /\ stream' \in {"off", "preview", "snapshot"} /\ streamSize' \in Sizes
      BY DEF Params!StartPreview, DeviceInv, DeviceTypes
    <2> QED BY <2>1, <2>2, <2>3, <2>4 DEF DeviceInv, DeviceTypes
  <1>4. Params!StreamsHaveOwners'
    BY DEF Params!StartPreview, DeviceInv, Params!StreamsHaveOwners
  <1>5. used' = used /\ cache' = cache
    BY DEF Params!StartPreview
  <1>6. CASE ~flagStart'
    <2>1. "flash_mode" \in used =>
             driver'["flash_mode"] = driver["flash_mode"] /\ astray' = astray
      BY <1>1, <1>2, <1>6 DEF Params!StartPreview, DeviceInv, DeviceTypes
    <2>2. ~flagStart
      BY DEF Params!StartPreview
    <2> QED BY <1>3, <1>4, <1>5, <1>6, <2>1, <2>2
            DEF DeviceInv, Params!DriverFollows, Params!TorchGoesOut
  <1>7. CASE flagStart'
    <2>1. \/ astray' = astray \cup Params!SentByParm
          \/ driver' = Params!Send(Params!SentAtStart \cup Params!SentByParm)
      BY <1>7 DEF Params!StartPreview
    <2>2. Params!DriverFollows'
      BY <1>1, <1>2, <1>5, <2>1 DEF Params!DriverFollows
    <2> QED BY <1>3, <1>4, <1>7, <2>2 DEF DeviceInv, Params!TorchGoesOut
  <1> QED BY <1>6, <1>7

\* Where the torch was on, the driver is told or what it has is astray; where it was off the
\* driver knew, since the preview was running.
LEMMA TorchOffs ==
  ASSUME DeviceInv, flagStart, NEW told \in BOOLEAN, Params!TorchOff(told), used' = used
  PROVE  /\ astray' \subseteq used
         /\ cache' = [s \in used |-> cache'[s]] /\ driver' = [s \in used |-> driver'[s]]
         /\ "flash_mode" \in used \ astray' => driver'["flash_mode"] # "torch"
         /\ \A s \in (Params!Parm \ {"focus_mode"}) \cap used :
               driver'[s] = cache'[s] \/ s \in astray'
  <1>1. "flash_mode" \in Params!Parm \ {"focus_mode"}
    BY DEF Params!Parm, Params!Scene
  <1>2. CASE ~Params!Torch
    BY <1>1, <1>2 DEF Params!TorchOff, DeviceInv, DeviceTypes, Params!DriverFollows, Params!Torch
  <1>3. CASE Params!Torch
    <2>1. /\ cache' = [cache EXCEPT !["flash_mode"] = "off"]
          /\ driver' = IF told THEN [driver EXCEPT !["flash_mode"] = "off"] ELSE driver
          /\ astray' = IF told THEN astray \ {"flash_mode"} ELSE astray \cup {"flash_mode"}
          /\ "flash_mode" \in used
      BY <1>3 DEF Params!TorchOff, Params!Torch
    <2> QED BY <2>1 DEF DeviceInv, DeviceTypes, Params!DriverFollows
  <1> QED BY <1>2, <1>3

LEMMA DeviceStop_Step == DeviceInv /\ Params!StopPreview => DeviceInv'
  <1> SUFFICES ASSUME DeviceInv, Params!StopPreview PROVE DeviceInv'
    OBVIOUS
  <1>1. PICK told \in BOOLEAN :
          /\ flagStart /\ Params!TorchOff(told) /\ (told \/ (Params!Torch /\ Params!May))
          /\ \/ /\ flagStart' = FALSE /\ stream' = "off" /\ ret' = 0
                /\ failures' = IF told THEN failures ELSE failures + 1
             \/ told /\ Params!Fail /\ UNCHANGED <<flagStart, stream>>
          /\ UNCHANGED <<used, opened, flagInit, flagRecord, stream2, queued2, streamSize,
                         previewSize, broken>>
    BY DEF Params!StopPreview
  <1>2. /\ astray' \subseteq used
        /\ cache' = [s \in used |-> cache'[s]] /\ driver' = [s \in used |-> driver'[s]]
        /\ "flash_mode" \in used \ astray' => driver'["flash_mode"] # "torch"
        /\ \A s \in (Params!Parm \ {"focus_mode"}) \cap used :
              driver'[s] = cache'[s] \/ s \in astray'
    BY <1>1, TorchOffs
  <1>3. failures' \in 0..MaxFailures /\ ret' \in {0, -1}
    BY <1>1, FailureCounted DEF DeviceInv, DeviceTypes
  <1>4. DeviceTypes'
    BY <1>1, <1>2, <1>3 DEF DeviceInv, DeviceTypes, Flags
  <1> QED BY <1>1, <1>2, <1>4
          DEF DeviceInv, Params!DriverFollows, Params!TorchGoesOut, Params!StreamsHaveOwners

LEMMA Record_Step == DeviceInv /\ (Params!StartRecord \/ Params!StopRecord) => DeviceInv'
  <1> SUFFICES ASSUME DeviceInv, Params!StartRecord \/ Params!StopRecord PROVE DeviceInv'
    OBVIOUS
  <1>1. UNCHANGED <<used, opened, flagInit, flagStart, stream, streamSize, Params!settings,
                    previewSize>>
    BY DEF Params!StartRecord, Params!StopRecord
  <1>2. DeviceTypes'
    <2>1. failures' \in 0..MaxFailures /\ ret' \in {0, -1}
      BY FailureCounted DEF Params!StartRecord, Params!StopRecord, DeviceInv, DeviceTypes
    <2>2. Flags' /\ queued2' \subseteq Params!RecordBuffers
      BY <1>1 DEF Params!StartRecord, Params!StopRecord, Params!StopRecordCore, DeviceInv,
         DeviceTypes, Flags
    <2> QED BY <1>1, <2>1, <2>2 DEF DeviceInv, DeviceTypes
  <1>3. Params!StreamsHaveOwners'
    BY <1>1 DEF Params!StartRecord, Params!StopRecord, Params!StopRecordCore, DeviceInv,
       DeviceTypes, Flags, Params!StreamsHaveOwners
  <1> QED BY <1>1, <1>2, <1>3 DEF DeviceInv, Params!DriverFollows, Params!TorchGoesOut

LEMMA Snapshot_Step == DeviceInv /\ Params!TakePicture => DeviceInv'
  <1> SUFFICES ASSUME DeviceInv, Params!TakePicture PROVE DeviceInv'
    OBVIOUS
  <1>1. failures' \in 0..MaxFailures /\ ret' \in {0, -1}
    BY FailureCounted DEF Params!TakePicture, DeviceInv, DeviceTypes
  <1>2. /\ UNCHANGED <<used, Params!nodes, stream2, queued2, streamSize, Params!settings,
                       previewSize>>
        /\ stream' \in {"off", "preview", "snapshot"} /\ broken' \in BOOLEAN
        /\ stream' # "preview"
        /\ broken' = TRUE \/ (broken' = broken /\ stream' \in {stream, "off"})
    BY DEF Params!TakePicture, DeviceInv, DeviceTypes, Flags
  <1>3. DeviceTypes'
    BY <1>1, <1>2 DEF DeviceInv, DeviceTypes, Flags
  <1>4. UNCHANGED <<used, flagStart, cache, driver, astray>>
    BY <1>2
  <1>5. Params!DriverFollows' /\ Params!TorchGoesOut'
    BY <1>4 DEF DeviceInv, Params!DriverFollows, Params!TorchGoesOut
  <1>6. Params!StreamsHaveOwners'
    BY <1>2 DEF DeviceInv, Params!StreamsHaveOwners
  <1> QED BY <1>3, <1>5, <1>6 DEF DeviceInv

LEMMA Frame_Step ==
  ASSUME DeviceInv, NEW i \in Params!RecordBuffers,
         Params!GetRecordFrame(i) \/ Params!ReleaseRecordFrame(i)
  PROVE  DeviceInv'
  BY DEF Params!GetRecordFrame, Params!ReleaseRecordFrame, DeviceInv, DeviceTypes, Flags,
     Params!DriverFollows, Params!TorchGoesOut, Params!StreamsHaveOwners

LEMMA SetAny_Step ==
  ASSUME DeviceInv, NEW group, NEW now \in BOOLEAN, Params!SetAny(group, now),
         now = flagStart \/ group \cap Params!Parm \subseteq {"focus_mode"}
  PROVE  DeviceInv'
  <1>1. PICK s \in group \cap used : \E v \in Params!ValuesOf(s) : Params!Set(s, v, now)
    BY DEF Params!SetAny
  <1>2. PICK v \in Params!ValuesOf(s) : Params!Set(s, v, now)
    BY <1>1
  <1> QED BY <1>2, Set_Step

LEMMA StepDevice == DeviceInv /\ [Params!DeviceNext]_(Params!deviceVars) => DeviceInv'
  <1> SUFFICES ASSUME DeviceInv, [Params!DeviceNext]_(Params!deviceVars) PROVE DeviceInv'
    OBVIOUS
  <1>1. flagStart \in BOOLEAN
    BY DEF DeviceInv, DeviceTypes, Flags
  <1>2. ASSUME NEW group, Params!SetAny(group, flagStart) PROVE DeviceInv'
    BY <1>1, <1>2, SetAny_Step
  <1>3. CASE Params!SetFocusMode \/ Params!SetLatched \/ Params!StartStop
    <2>1. /\ Params!Latched \cap Params!Parm = {} /\ Params!Switches \cap Params!Parm = {}
      BY DEF Params!Latched, Params!Switches, Params!Parm, Params!Colour, Params!Scene, Params!Tone
    <2>2. CASE Params!SetFocusMode
      <3>1. Params!SetAny({"focus_mode"}, FALSE)
        BY <2>2 DEF Params!SetFocusMode
      <3> QED BY <3>1, SetAny_Step
    <2>3. CASE Params!SetLatched
      <3>1. Params!SetAny(Params!Latched, FALSE)
        BY <2>3 DEF Params!SetLatched
      <3> QED BY <2>1, <3>1, SetAny_Step
    <2>4. CASE Params!StartStop
      <3>1. Params!SetAny(Params!Switches, TRUE)
        BY <2>4 DEF Params!StartStop
      <3> QED BY <2>1, <3>1, SetAny_Step
    <2> QED BY <1>3, <2>2, <2>3, <2>4
  <1>4. CASE \/ Params!SetFrameRate \/ Params!SetColour \/ Params!SetAntiBanding
             \/ Params!SetScene \/ Params!SetTone \/ Params!SetCorrection
             \/ Params!SetMetering \/ Params!SetView \/ Params!SetVideo \/ Params!SetBlur
    <2>1. \E group : Params!SetAny(group, flagStart)
      BY <1>4, Zenon DEF Params!SetFrameRate, Params!SetColour, Params!SetAntiBanding,
         Params!SetScene, Params!SetTone, Params!SetCorrection, Params!SetMetering,
         Params!SetView, Params!SetVideo, Params!SetBlur
    <2> QED BY <1>2, <2>1
  <1>5. CASE UNCHANGED Params!deviceVars
    BY <1>5 DEF DeviceInv, DeviceTypes, Flags, Params!DriverFollows, Params!TorchGoesOut,
       Params!StreamsHaveOwners
  <1>6. CASE Params!DeviceNext
    BY <1>3, <1>4, <1>6, OpenClose_Step, SetFaceDetect_Step, SetPreviewSize_Step,
       DeviceStart_Step, DeviceStop_Step, Record_Step, Snapshot_Step, Frame_Step
       DEF Params!DeviceNext
  <1> QED BY <1>5, <1>6

\* Whatever setters, starts, stops, recordings and pictures a client of SecCamera calls, in
\* any order, with any settings and failing ioctls: while the preview streams the driver has
\* what m_params says, the torch does not burn on when it has stopped, and no node streams
\* that nobody started.
THEOREM DriverKeepsUp ==
  Params!DeviceSpec =>
    [](Params!DriverFollows /\ Params!TorchGoesOut /\ Params!StreamsHaveOwners)
  <1>1. DeviceInv => Params!DriverFollows /\ Params!TorchGoesOut /\ Params!StreamsHaveOwners
    BY DEF DeviceInv
  <1> QED BY <1>1, InitDevice, StepDevice, PTL DEF Params!DeviceSpec

-----------------------------------------------------------------------------
(* The calls of the HAL                                                      *)

USE DEF Params!halVars

LEMMA InitClient == Params!Init => DeviceInv /\ ClientInv
  <1> SUFFICES ASSUME Params!Init PROVE DeviceInv /\ ClientInv
    OBVIOUS
  <1>1. DeviceInv
    BY InitDevice DEF Params!Init
  <1>2. used \in Uses
    BY DEF Params!Init, Params!DeviceInit
  <1>3. ClientTypes
    BY <1>1, <1>2 DEF Params!Init, ClientTypes, DeviceInv, DeviceTypes
  <1>4. cache = [s \in used |-> "unset"]
    BY DEF Params!Init, Params!DeviceInit
  <1>5. Params!ReportsTheDevice /\ Params!SceneExcludesTorch
    BY <1>4 DEF Params!Init, Params!ReportsTheDevice, Params!SceneExcludesTorch, Params!Keys
  <1> QED BY <1>1, <1>3, <1>5 DEF Params!Init, ClientInv, Params!PositionIsReported,
             Params!HeapFitsFrames

\* Calls that leave the settings alone and change nothing the client reads.
LEMMA ClientSame ==
  ASSUME ClientInv, UNCHANGED <<used, cache, previewSize, Params!halVars>>
  PROVE  ClientInv'
  BY DEF ClientInv, ClientTypes, Params!ReportsTheDevice, Params!PositionIsReported,
     Params!HeapFitsFrames, Params!SceneExcludesTorch, Params!Keys

\* The torch is put out behind the client's back.
LEMMA ClientStops ==
  ASSUME ClientInv, DeviceTypes,
         UNCHANGED <<used, previewSize, reported, reportedSize, heapSize, resized, refused, gps,
                     place>>,
         running' \in BOOLEAN, running' => running,
         NEW told \in BOOLEAN, Params!TorchOff(told)
  PROVE  ClientInv'
  <1>1. ClientTypes' /\ Params!PositionIsReported' /\ Params!HeapFitsFrames'
    BY DEF ClientInv, ClientTypes, Params!PositionIsReported, Params!HeapFitsFrames, Params!Keys
  <1>2. CASE cache' = cache
    BY <1>1, <1>2 DEF ClientInv, Params!ReportsTheDevice, Params!SceneExcludesTorch, Params!Keys
  <1>3. CASE Params!Torch /\ cache' = [cache EXCEPT !["flash_mode"] = "off"]
    <2>1. /\ cache["flash_mode"] = "torch" /\ cache'["flash_mode"] = "off"
          /\ \A k \in used : k # "flash_mode" => cache'[k] = cache[k]
          /\ Params!Keys \subseteq used /\ Params!Keys' = Params!Keys
      BY <1>3 DEF DeviceTypes, Params!Torch, Params!Keys
    <2>2. Params!ReportsTheDevice'
      BY <2>1 DEF ClientInv, Params!ReportsTheDevice
    <2>3. Params!SceneExcludesTorch'
      BY <2>1 DEF Params!SceneExcludesTorch
    <2> QED BY <1>1, <2>2, <2>3 DEF ClientInv
  <1> QED BY <1>2, <1>3 DEF Params!TorchOff

LEMMA Three ==
  ASSUME NEW a, NEW b, NEW c
  PROVE  IsFiniteSet({a, b, c})
  <1>1. IsFiniteSet({a}) /\ IsFiniteSet({b}) /\ IsFiniteSet({c})
    BY FS_Singleton
  <1>2. IsFiniteSet({a} \cup {b})
    BY <1>1, FS_Union
  <1>3. IsFiniteSet({a} \cup {b} \cup {c})
    BY <1>1, <1>2, FS_Union
  <1>4. {a, b, c} = {a} \cup {b} \cup {c}
    OBVIOUS
  <1> QED BY <1>3, <1>4

\* setParameters: each setting is taken by the device or remembered as refused, and a scene
\* other than auto has put the torch out.
LEMMA Forces ==
  ASSUME NEW f, f = [k \in Params!Keys |-> f[k]]
  PROVE  /\ Params!Forced(f) = [k \in Params!Keys |-> Params!Forced(f)[k]]
         /\ {"scene_mode", "flash_mode"} \subseteq Params!Keys =>
              /\ Params!Forced(f)["scene_mode"] = f["scene_mode"]
              /\ f["scene_mode"] # "auto" => Params!Forced(f)["flash_mode"] \in {"auto", "off"}
  BY DEF Params!Forced, Params!SceneFlash

LEMMA SetParameters_Step ==
  ASSUME DeviceInv, ClientInv, NEW r \in Params!Requests, NEW fails \in SUBSET Params!Keys,
         Params!SetParameters(r, fails)
  PROVE  DeviceInv' /\ ClientInv'
  <1> DEFINE want == Params!Forced(r.setting)
             known == Params!Known(want)
             new == {k \in known : cache[k] # want[k]}
             told == {k \in new : Params!Sends(k)}
  <1>1. known \subseteq Params!Keys /\ Params!Keys \subseteq used
    BY DEF Params!Known, Params!Keys
  <1>2. Params!Keys \cap known = known
    BY <1>1
  <1>3. /\ cache' = [s \in used |-> IF s \in new THEN want[s] ELSE cache[s]]
        /\ driver' = [s \in used |-> IF s \in told \ fails THEN want[s] ELSE driver[s]]
        /\ astray' = (astray \ told) \cup (told \cap fails)
        /\ fails = told \cap fails
    <2>1. Params!ApplyAll(want, fails) = Made(want, fails, Params!Keys)
      BY AllMade DEF DeviceInv
    <2> QED BY <1>2, <2>1 DEF Params!SetParameters, Params!Become, Made
  <1>4. UNCHANGED <<used, Params!nodes, Params!streams, running, heapSize>>
    BY DEF Params!SetParameters
  <1>7. failures' = failures + Cardinality(fails) /\ failures' <= MaxFailures
    <2>1. Params!Cardinality(fails) = Cardinality(fails)
      BY Zenon DEF Params!Cardinality, Cardinality
    <2> QED BY <2>1, Zenon DEF Params!SetParameters
  <1>8. Params!ApplySize(r) /\ Params!ApplyPlace(r)
    BY Zenon DEF Params!SetParameters
  <1>9. ret' \in {0, -1}
    BY DEF Params!SetParameters
  <1>10. /\ reported' = [k \in Params!Keys |-> IF k \in known \ fails THEN want[k]
                                              ELSE reported[k]]
         /\ refused' = (refused \ known) \cup fails
    BY DEF Params!SetParameters
  <1>5. failures' \in 0..MaxFailures
    <2>1. IsFiniteSet(fails)
      <3>1. IsFiniteSet(Params!HalKeys)
        <4>1. IsFiniteSet({"white_balance", "brightness", "effects"})
          BY Three
        <4>2. IsFiniteSet({"scene_mode", "flash_mode", "focus_mode"})
          BY Three
        <4> QED BY <4>1, <4>2, FS_Union, FS_EmptySet DEF Params!HalKeys
      <3> QED BY <3>1, FS_Subset DEF Params!Keys
    <2>2. Cardinality(fails) \in Nat
      BY <2>1, FS_CardinalityType
    <2> QED BY <1>7, <2>2, AudioAssumption DEF DeviceInv, DeviceTypes
  <1>6. r.setting = [k \in Params!Keys |-> r.setting[k]]
    BY DEF Params!Requests
  <1> HIDE DEF want, known, new, told
  <1>11. known \subseteq used /\ \A s \in used : s \notin known => s \notin new
    BY <1>1 DEF new
  <1>12. \A s \in used : cache'[s] = IF s \in known THEN want[s] ELSE cache[s]
    BY <1>3, <1>11 DEF new
  <1> HIDE DEF want, known, new, told
  <1>13. DeviceTypes'
    BY <1>3, <1>4, <1>5, <1>8, <1>9, <1>11 DEF DeviceInv, DeviceTypes, Flags, Params!ApplySize,
       new, told
  <1>14. ASSUME NEW s \in used
         PROVE  /\ cache'[s] = IF s \in new THEN want[s] ELSE cache[s]
                /\ driver'[s] = IF s \in told \ fails THEN want[s] ELSE driver[s]
                /\ s \in astray' <=> (s \in astray /\ s \notin told) \/ s \in told \cap fails
                /\ s \in told <=> s \in new /\ flagStart /\ s # "focus_mode"
    BY <1>3, <1>14 DEF told, Params!Sends
  <1>15. Params!DriverFollows'
    <2> SUFFICES ASSUME flagStart, NEW s \in (Params!Parm \ {"focus_mode"}) \cap used
                 PROVE  driver'[s] = cache'[s] \/ s \in astray'
      BY <1>4 DEF Params!DriverFollows
    <2>1. driver[s] = cache[s] \/ s \in astray
      BY DEF DeviceInv, Params!DriverFollows
    <2> QED BY <1>14, <2>1
  <1>16. Params!TorchGoesOut'
    BY <1>4, <1>14 DEF DeviceInv, Params!TorchGoesOut
  <1>17. Params!StreamsHaveOwners'
    BY <1>4 DEF DeviceInv, Params!StreamsHaveOwners
  <1>18. ClientTypes' /\ Params!HeapFitsFrames'
    BY <1>1, <1>4, <1>8, <1>10 DEF ClientInv, ClientTypes, Params!ApplySize,
       Params!HeapFitsFrames, Params!Keys
  <1>19. Params!PositionIsReported'
    BY <1>8 DEF Params!ApplyPlace, Params!Coordinate, Params!PositionIsReported
  <1>20. Params!ReportsTheDevice'
    <2> SUFFICES ASSUME NEW k \in Params!Keys
                 PROVE  \/ reported'[k] \in {cache'[k], "unset"} \/ k \in refused'
                        \/ k = "flash_mode" /\ cache'[k] = "off" /\ reported'[k] = "torch"
      BY <1>4 DEF Params!ReportsTheDevice, Params!Keys
    <2>1. \/ reported[k] \in {cache[k], "unset"} \/ k \in refused
          \/ k = "flash_mode" /\ cache[k] = "off" /\ reported[k] = "torch"
      BY DEF ClientInv, Params!ReportsTheDevice
    <2>2. cache'[k] = IF k \in known THEN want[k] ELSE cache[k]
      BY <1>1, <1>12
    <2>3. reported'[k] = IF k \in known \ fails THEN want[k] ELSE reported[k]
      BY <1>10
    <2> QED BY <1>10, <2>1, <2>2, <2>3
  <1>21. Params!SceneExcludesTorch'
    <2> SUFFICES ASSUME {"scene_mode", "flash_mode"} \subseteq Params!Keys,
                        cache'["scene_mode"] \in {"night", "portrait"}
                 PROVE  cache'["flash_mode"] # "torch"
      BY <1>4 DEF Params!SceneExcludesTorch, Params!Keys
    <2>1. /\ cache'["scene_mode"] = IF "scene_mode" \in known THEN want["scene_mode"]
                                    ELSE cache["scene_mode"]
          /\ cache'["flash_mode"] = IF "flash_mode" \in known THEN want["flash_mode"]
                                    ELSE cache["flash_mode"]
      BY <1>1, <1>12
    <2>2. /\ want["scene_mode"] = r.setting["scene_mode"]
          /\ r.setting["scene_mode"] # "auto" => want["flash_mode"] \in {"auto", "off"}
      BY <1>6, Forces DEF want
    <2>3. \A k \in Params!Keys : k \in known <=> want[k] \in Params!ValuesOf(k)
      BY DEF known, Params!Known
    <2>4. /\ Params!ValuesOf("scene_mode") = {"auto", "night", "portrait"}
          /\ Params!ValuesOf("flash_mode") = {"torch", "auto", "off"}
      BY DEF Params!ValuesOf
    <2>5. CASE r.setting["scene_mode"] = "auto"
      BY <2>1, <2>2, <2>3, <2>4, <2>5
    <2>6. CASE r.setting["scene_mode"] # "auto"
      BY <2>1, <2>2, <2>3, <2>4, <2>6
    <2> QED BY <2>5, <2>6
  <1>22. DeviceInv'
    BY <1>13, <1>15, <1>16, <1>17 DEF DeviceInv
  <1> QED BY <1>18, <1>19, <1>20, <1>21, <1>22 DEF ClientInv

LEMMA HalStart_Step == DeviceInv /\ ClientInv /\ Params!HalStartPreview => DeviceInv' /\ ClientInv'
  <1> SUFFICES ASSUME DeviceInv, ClientInv, Params!HalStartPreview PROVE DeviceInv' /\ ClientInv'
    OBVIOUS
  <1>1. Params!StartPreview
    BY DEF Params!HalStartPreview
  <1>2. DeviceInv'
    BY <1>1, DeviceStart_Step
  <1>3. UNCHANGED <<used, cache, previewSize>>
    BY <1>1 DEF Params!StartPreview
  <1>4. ClientTypes' /\ Params!HeapFitsFrames'
    BY <1>2, <1>3 DEF Params!HalStartPreview, ClientInv, ClientTypes, DeviceInv, DeviceTypes,
       Params!HeapFitsFrames, Params!Keys
  <1>5. /\ Params!ReportsTheDevice' /\ Params!PositionIsReported'
        /\ Params!SceneExcludesTorch'
    BY <1>3 DEF Params!HalStartPreview, ClientInv, Params!ReportsTheDevice,
       Params!PositionIsReported, Params!SceneExcludesTorch, Params!Keys
  <1> QED BY <1>2, <1>4, <1>5 DEF ClientInv

LEMMA HalStop_Step == DeviceInv /\ ClientInv /\ Params!HalStopPreview => DeviceInv' /\ ClientInv'
  <1> SUFFICES ASSUME DeviceInv, ClientInv, Params!HalStopPreview PROVE DeviceInv' /\ ClientInv'
    OBVIOUS
  <1>1. /\ UNCHANGED <<reported, reportedSize, heapSize, resized, refused, gps, place>>
        /\ running' = FALSE
    BY DEF Params!HalStopPreview
  <1>2. CASE Params!StopPreview
    <2>1. \E told \in BOOLEAN : Params!TorchOff(told)
      BY <1>2 DEF Params!StopPreview
    <2>2. UNCHANGED <<used, previewSize>>
      BY <1>2 DEF Params!StopPreview
    <2>3. ClientInv'
      BY <1>1, <2>1, <2>2, ClientStops DEF DeviceInv
    <2> QED BY <1>2, <2>3, DeviceStop_Step
  <1>3. CASE UNCHANGED Params!deviceVars
    <2>1. DeviceInv'
      BY <1>3, StepDevice
    <2>2. ClientInv'
      BY <1>1, <1>3 DEF ClientInv, ClientTypes, Params!ReportsTheDevice, Params!PositionIsReported,
         Params!HeapFitsFrames, Params!SceneExcludesTorch, Params!Keys
    <2> QED BY <2>1, <2>2
  <1> QED BY <1>2, <1>3 DEF Params!HalStopPreview

\* No frame came: the device is stopped, and with it the torch.
LEMMA Stall_Step == DeviceInv /\ ClientInv /\ Params!Stall => DeviceInv' /\ ClientInv'
  <1> SUFFICES ASSUME DeviceInv, ClientInv, Params!Stall PROVE DeviceInv' /\ ClientInv'
    OBVIOUS
  <1>1. /\ flagStart' = FALSE /\ stream' = "off" /\ ret' = -1
        /\ UNCHANGED <<used, opened, flagInit, flagRecord, stream2, queued2, broken, streamSize,
                       previewSize, failures, Params!halVars>>
    BY DEF Params!Stall
  <1>2. flagStart \in BOOLEAN
    BY DEF DeviceInv, DeviceTypes, Flags
  <1>3. CASE flagStart
    <2>1. Params!TorchOff(TRUE)
      BY <1>3 DEF Params!Stall
    <2>2. /\ astray' \subseteq used
          /\ cache' = [s \in used |-> cache'[s]] /\ driver' = [s \in used |-> driver'[s]]
          /\ "flash_mode" \in used \ astray' => driver'["flash_mode"] # "torch"
      BY <1>1, <1>3, <2>1, TorchOffs
    <2>3. DeviceTypes'
      BY <1>1, <2>2 DEF DeviceInv, DeviceTypes, Flags
    <2>4. Params!StreamsHaveOwners'
      BY <1>1 DEF DeviceInv, Params!StreamsHaveOwners
    <2>5. DeviceInv'
      BY <1>1, <2>2, <2>3, <2>4 DEF DeviceInv, Params!DriverFollows, Params!TorchGoesOut
    <2>6. ClientInv'
      BY <1>1, <2>1, ClientStops DEF DeviceInv, ClientInv, ClientTypes
    <2> QED BY <2>5, <2>6
  <1>4. CASE ~flagStart
    <2>1. UNCHANGED Params!settings
      BY <1>4 DEF Params!Stall
    <2>2. DeviceTypes'
      BY <1>1, <2>1 DEF DeviceInv, DeviceTypes, Flags
    <2>3. DeviceInv'
      BY <1>1, <1>4, <2>1, <2>2 DEF DeviceInv, Params!DriverFollows, Params!TorchGoesOut,
         Params!StreamsHaveOwners
    <2>4. ClientInv'
      BY <1>1, <2>1, ClientSame
    <2> QED BY <2>3, <2>4
  <1> QED BY <1>2, <1>3, <1>4

\* As Stall, and the preview is started again with the settings of m_params.
LEMMA StallRestarted_Step ==
  DeviceInv /\ ClientInv /\ Params!StallRestarted => DeviceInv' /\ ClientInv'
  <1> SUFFICES ASSUME DeviceInv, ClientInv, Params!StallRestarted PROVE DeviceInv' /\ ClientInv'
    OBVIOUS
  <1>1. /\ UNCHANGED <<used, opened, flagInit, flagRecord, stream2, queued2, broken, cache,
                       previewSize, Params!halVars>>
        /\ flagStart' = TRUE /\ stream' = "preview" /\ streamSize' = previewSize /\ ret' = 0
    BY DEF Params!StallRestarted
  <1>2. failures' \in 0..MaxFailures
    BY FailureCounted DEF Params!StallRestarted, DeviceInv, DeviceTypes
  <1>3. /\ driver' = Params!Send(Params!SentAtStart \cup Params!SentByParm)
        /\ astray' = astray \ (Params!SentAtStart \cup Params!SentByParm)
    BY DEF Params!StallRestarted
  <1>4. /\ driver' = [s \in used |-> driver'[s]]
        /\ \A s \in Params!Parm \cap used : driver'[s] = cache[s]
    BY <1>3 DEF Params!Send, Params!SentByParm
  <1>5. DeviceTypes'
    BY <1>1, <1>2, <1>3, <1>4 DEF DeviceInv, DeviceTypes, Flags
  <1>6. Params!DriverFollows' /\ Params!TorchGoesOut' /\ Params!StreamsHaveOwners'
    BY <1>1, <1>4 DEF DeviceInv, Params!DriverFollows, Params!TorchGoesOut,
       Params!StreamsHaveOwners
  <1>7. ClientInv'
    BY <1>1, ClientSame
  <1> QED BY <1>5, <1>6, <1>7 DEF DeviceInv

LEMMA StepHal ==
  DeviceInv /\ ClientInv /\ [Params!Next]_(Params!vars) => DeviceInv' /\ ClientInv'
  <1> SUFFICES ASSUME DeviceInv, ClientInv, [Params!Next]_(Params!vars)
               PROVE  DeviceInv' /\ ClientInv'
    OBVIOUS
  <1>1. CASE Params!HalRelease \/ Params!HalOpen \/ Params!HalPicture \/ Params!HalRecord
    <2>1. DeviceInv'
      BY <1>1, OpenClose_Step, Snapshot_Step, Record_Step
         DEF Params!HalRelease, Params!HalOpen, Params!HalPicture, Params!HalRecord
    <2>2. UNCHANGED <<used, cache, previewSize, Params!halVars>>
      BY <1>1 DEF Params!HalRelease, Params!HalOpen, Params!HalPicture, Params!HalRecord,
         Params!InitCamera, Params!DeinitCamera, Params!TakePicture, Params!StartRecord,
         Params!StopRecord
    <2> QED BY <2>1, <2>2, ClientSame
  <1>2. CASE UNCHANGED Params!vars
    <2>1. UNCHANGED Params!deviceVars /\ UNCHANGED Params!halVars
      BY <1>2 DEF Params!vars
    <2> QED BY <2>1, StepDevice, ClientSame
  <1>3. CASE Params!Next
    BY <1>1, <1>3, SetParameters_Step, HalStart_Step, HalStop_Step, Stall_Step,
       StallRestarted_Step DEF Params!Next
  <1> QED BY <1>2, <1>3

\* For any settings, sizes, positions and failing ioctls, whatever setParameters, starts,
\* stops, stalls, recordings and pictures follow each other: what mParameters reports is what
\* the device remembers, what it remembers is what the driver was told, but where a call was
\* refused; a scene and the torch exclude each other, the torch goes out with the preview,
\* the heap has the size of the frames, and no node streams that nobody started.
THEOREM SettingsInAgreement == Params!Spec => []SettingsAgree
  <1>1. DeviceInv /\ ClientInv => SettingsAgree
    <2> SUFFICES ASSUME DeviceInv, ClientInv PROVE SettingsAgree
      OBVIOUS
    <2>1. Params!TypeOK
      BY DEF DeviceInv, DeviceTypes, Flags, ClientInv, ClientTypes, Params!TypeOK
    <2> QED BY <2>1 DEF SettingsAgree, DeviceInv, ClientInv
  <1> QED BY <1>1, InitClient, StepHal, PTL DEF Params!Spec


-----------------------------------------------------------------------------
(* The audio HAL: where the three threads are and what they hold.          *)

DsPlaces == {"dsOut", "dsIn", "dsHw", "dsEnd"}
WritePlaces == {"write", "writeHw", "writeLook", "writeIn", "writeInHw", "writeRecheck",
                "writeOpen", "writeEnd"}
StandbyPlaces == {"standby", "standbyHw", "standbyEnd"}
RoutePlaces == {"route", "routeHw", "routeEnd"}
ReadPlaces == {"read", "readHw", "readLook", "readOut", "readIn", "readInHw", "readRecheck",
               "readOpen", "readEnd"}
InPlaces == {"inStandby", "inStandbyHw", "inStandbyDo", "inEnd"}
SetPlaces == {"inRoute", "inRouteHw", "inRouteDo", "source", "sourceHw", "sourceDo", "effect"}
ModePlaces == {"mode", "modeOut", "modeOutLock", "modeOutHw", "modeOutCheck", "modeIn",
               "modeInLock", "modeInHw", "modeInCheck", "modeSet", "modeCall", "modeCallEnds",
               "modeEnd", "mute", "close"}
Labels == {"idle"} \cup DsPlaces \cup WritePlaces \cup StandbyPlaces \cup RoutePlaces
            \cup ReadPlaces \cup InPlaces \cup SetPlaces \cup ModePlaces

\* Each thread makes its own calls, and doStandby_l of the input returns to where it was
\* called; the playback thread, which holds the output, does not get out of it.
Program(t) ==
  /\ t = "playback" => /\ pc[t] \in {"idle", "dsOut"} \cup WritePlaces \cup StandbyPlaces
                                      \cup RoutePlaces
                       /\ pc[t] = "dsOut" => owner["out"] = t
  /\ t = "record" => /\ pc[t] \in {"idle"} \cup DsPlaces \cup ReadPlaces \cup InPlaces
                                    \cup SetPlaces
                     /\ pc[t] \in DsPlaces => back[t] = "inEnd"
                     /\ pc[t] = "dsOut" => owner["out"] # t
  /\ t = "client" => /\ pc[t] \in {"idle"} \cup DsPlaces \cup StandbyPlaces \cup InPlaces
                                    \cup ModePlaces
                     /\ pc[t] \in DsPlaces => back[t] \in {"inEnd", "modeCall", "modeCallEnds"}

\* Where a thread holds hw, where it must hold in and out, and where it may.
HwPlaces ==
  {"writeLook", "writeRecheck", "writeOpen", "writeEnd", "standbyEnd", "routeEnd", "readLook",
   "readRecheck", "readOpen", "readEnd", "inStandbyDo", "inEnd", "inRouteDo", "sourceDo", "dsEnd",
   "modeOut", "modeOutCheck", "modeIn", "modeInCheck", "modeSet", "modeCall", "modeCallEnds",
   "modeEnd"}
InMust ==
  {"writeInHw", "writeRecheck", "readHw", "readLook", "readInHw", "readRecheck", "readOpen",
   "readEnd", "inStandbyHw", "inStandbyDo", "inEnd", "inRouteHw", "inRouteDo", "sourceHw",
   "sourceDo", "dsHw", "dsEnd", "modeInHw", "modeInCheck"}
InMay == InMust \cup {"writeOpen", "writeEnd", "modeSet", "modeCall", "modeCallEnds", "modeEnd"}
OutMust ==
  {"writeHw", "writeLook", "writeIn", "writeInHw", "writeRecheck", "writeOpen", "writeEnd",
   "standbyHw", "standbyEnd", "routeHw", "routeEnd", "readIn", "readInHw", "readRecheck", "dsIn",
   "dsHw", "dsEnd", "modeOutHw", "modeOutCheck"}
OutMay ==
  OutMust \cup {"readOpen", "modeIn", "modeInLock", "modeInHw", "modeInCheck", "modeSet",
                "modeCall", "modeCallEnds", "modeEnd", "dsOut"}

Holds(t) ==
  /\ owner["hw"] = t <=> pc[t] \in HwPlaces
  /\ pc[t] \in InMust => owner["in"] = t
  /\ owner["in"] = t => pc[t] \in InMay
  /\ pc[t] \in OutMust => owner["out"] = t
  /\ owner["out"] = t => pc[t] \in OutMay

ControlTypes ==
  /\ owner \in [{"out", "in", "hw"} -> Threads \cup {"free"}]
  /\ pc \in [Threads -> Labels] /\ back \in [Threads -> Labels]

Control == ControlTypes /\ \A t \in Threads : Program(t) /\ Holds(t)

USE DEF Threads

LEMMA InitControl == Init => Control
  BY DEF Init, Control, ControlTypes, Labels, Program, Holds, HwPlaces, InMust, InMay, OutMust,
     OutMay, DsPlaces, WritePlaces, StandbyPlaces, RoutePlaces, ReadPlaces, InPlaces, SetPlaces,
     ModePlaces

\* A thread moves: the mutexes it does not take or release, and the other threads, stay.
Moves(t) ==
  /\ pc' = [pc EXCEPT ![t] = pc'[t]] /\ pc'[t] \in Labels
  /\ back' = [back EXCEPT ![t] = back'[t]] /\ back'[t] \in Labels
  /\ owner' \in [{"out", "in", "hw"} -> Threads \cup {"free"}]
  /\ \A m \in {"out", "in", "hw"} : \/ owner'[m] = owner[m]
                                    \/ owner[m] = "free" /\ owner'[m] = t
                                    \/ owner[m] = t /\ owner'[m] = "free"

LEMMA MoveControl ==
  ASSUME Control, NEW t \in Threads, Moves(t), Program(t)', Holds(t)'
  PROVE  Control'
  <1>1. ControlTypes'
    BY DEF Control, ControlTypes, Moves
  <1>2. ASSUME NEW u \in Threads, u # t PROVE Program(u)' /\ Holds(u)'
    <2>1. pc'[u] = pc[u] /\ back'[u] = back[u]
      BY <1>2 DEF Control, ControlTypes, Moves
    <2>2. \A m \in {"out", "in", "hw"} : owner'[m] = u <=> owner[m] = u
      BY <1>2 DEF Control, ControlTypes, Moves
    <2>3. Program(u) /\ Holds(u)
      BY DEF Control
    <2> QED BY <2>1, <2>2, <2>3 DEF Program, Holds
  <1> QED BY <1>1, <1>2 DEF Control

\* What a step does to the mutexes.
LEMMA AcquireMoves ==
  ASSUME ControlTypes, NEW t \in Threads, NEW m \in {"out", "in", "hw"}, Acquire(t, m)
  PROVE  /\ owner' \in [{"out", "in", "hw"} -> Threads \cup {"free"}]
         /\ owner[m] = "free" /\ owner'[m] = t
         /\ \A n \in {"out", "in", "hw"} : n # m => owner'[n] = owner[n]
  BY DEF ControlTypes, Acquire

LEMMA ReleaseMoves ==
  ASSUME ControlTypes, NEW t \in Threads, NEW ms, Release(t, ms)
  PROVE  /\ owner' \in [{"out", "in", "hw"} -> Threads \cup {"free"}]
         /\ \A m \in {"out", "in", "hw"} :
              owner'[m] = IF m \in ms /\ owner[m] = t THEN "free" ELSE owner[m]
  BY DEF ControlTypes, Release

LEMMA ReleaseAllMoves ==
  ASSUME ControlTypes, NEW t \in Threads, ReleaseAll(t)
  PROVE  /\ owner' \in [{"out", "in", "hw"} -> Threads \cup {"free"}]
         /\ \A m \in {"out", "in", "hw"} :
              owner'[m] = IF owner[m] = t THEN "free" ELSE owner[m]
  BY ReleaseMoves DEF ControlTypes, ReleaseAll, Release

LEMMA GotoMoves ==
  ASSUME ControlTypes, NEW t \in Threads, NEW l, Goto(t, l)
  PROVE  pc' = [pc EXCEPT ![t] = pc'[t]] /\ pc'[t] = l
  BY DEF ControlTypes, Goto

LEMMA Lock_Control ==
  ASSUME Control, NEW t \in Threads, NEW from, NEW m \in {"out", "in", "hw"}, NEW to \in Labels,
         Lock(t, from, m, to)
  PROVE  /\ Moves(t) /\ pc[t] = from /\ pc'[t] = to /\ owner[m] = "free" /\ owner'[m] = t
         /\ back' = back /\ \A n \in {"out", "in", "hw"} : n # m => owner'[n] = owner[n]
  BY AcquireMoves, GotoMoves DEF Control, ControlTypes, Lock, Moves, Quiet

\* The places a thread goes to with a mutex it has just taken.
LEMMA LocksControl ==
  ASSUME Control, NEW t \in Threads,
         \/ Lock(t, "writeHw", "hw", "writeLook") \/ Lock(t, "writeIn", "in", "writeInHw")
         \/ Lock(t, "writeInHw", "hw", "writeRecheck") \/ Lock(t, "standby", "out", "standbyHw")
         \/ Lock(t, "standbyHw", "hw", "standbyEnd") \/ Lock(t, "route", "out", "routeHw")
         \/ Lock(t, "routeHw", "hw", "routeEnd")
         \/ Lock(t, "readHw", "hw", "readLook") \/ Lock(t, "readOut", "out", "readIn")
         \/ Lock(t, "readIn", "in", "readInHw") \/ Lock(t, "readInHw", "hw", "readRecheck")
         \/ Lock(t, "inStandby", "in", "inStandbyHw")
         \/ Lock(t, "inStandbyHw", "hw", "inStandbyDo")
         \/ Lock(t, "inRoute", "in", "inRouteHw") \/ Lock(t, "inRouteHw", "hw", "inRouteDo")
         \/ Lock(t, "source", "in", "sourceHw") \/ Lock(t, "sourceHw", "hw", "sourceDo")
         \/ Lock(t, "dsOut", "out", "dsIn") \/ Lock(t, "dsIn", "in", "dsHw")
         \/ Lock(t, "dsHw", "hw", "dsEnd") \/ Lock(t, "mode", "hw", "modeOut")
         \/ Lock(t, "modeOutLock", "out", "modeOutHw") \/ Lock(t, "modeOutHw", "hw", "modeOutCheck")
         \/ Lock(t, "modeInLock", "in", "modeInHw") \/ Lock(t, "modeInHw", "hw", "modeInCheck")
  PROVE  Control'
  <1>1. PICK from \in Labels, m \in {"out", "in", "hw"}, to \in Labels :
          /\ Lock(t, from, m, to)
          /\ <<from, m, to>> \in
               {<<"writeHw", "hw", "writeLook">>, <<"writeIn", "in", "writeInHw">>,
                <<"writeInHw", "hw", "writeRecheck">>, <<"standby", "out", "standbyHw">>,
                <<"standbyHw", "hw", "standbyEnd">>, <<"route", "out", "routeHw">>,
                <<"routeHw", "hw", "routeEnd">>, <<"readHw", "hw", "readLook">>,
                <<"readOut", "out", "readIn">>, <<"readIn", "in", "readInHw">>,
                <<"readInHw", "hw", "readRecheck">>, <<"inStandby", "in", "inStandbyHw">>,
                <<"inStandbyHw", "hw", "inStandbyDo">>, <<"inRoute", "in", "inRouteHw">>,
                <<"inRouteHw", "hw", "inRouteDo">>, <<"source", "in", "sourceHw">>,
                <<"sourceHw", "hw", "sourceDo">>, <<"dsOut", "out", "dsIn">>,
                <<"dsIn", "in", "dsHw">>, <<"dsHw", "hw", "dsEnd">>, <<"mode", "hw", "modeOut">>,
                <<"modeOutLock", "out", "modeOutHw">>, <<"modeOutHw", "hw", "modeOutCheck">>,
                <<"modeInLock", "in", "modeInHw">>, <<"modeInHw", "hw", "modeInCheck">>}
    BY DEF Labels, DsPlaces, WritePlaces, StandbyPlaces, RoutePlaces, ReadPlaces, InPlaces,
           SetPlaces, ModePlaces
  <1>2. /\ Moves(t) /\ pc[t] = from /\ pc'[t] = to /\ owner[m] = "free" /\ owner'[m] = t
        /\ back' = back /\ \A n \in {"out", "in", "hw"} : n # m => owner'[n] = owner[n]
    BY <1>1, Lock_Control
  <1>3. Program(t) /\ Holds(t)
    BY DEF Control
  <1>4. Program(t)'
    BY <1>1, <1>2, <1>3 DEF Program, DsPlaces, WritePlaces, StandbyPlaces, RoutePlaces,
         ReadPlaces, InPlaces, SetPlaces, ModePlaces
  <1>5. Holds(t)'
    BY <1>1, <1>2, <1>3 DEF Holds, HwPlaces, InMust, InMay, OutMust, OutMay
  <1> QED BY <1>2, <1>4, <1>5, MoveControl
-----------------------------------------------------------------------------
\* The other steps keep their mutexes, or release some.
Stays ==
  {<<"write", "idle">>, <<"write", "standby">>, <<"writeLook", "writeOpen">>,
   <<"writeRecheck", "writeOpen">>, <<"writeOpen", "writeEnd">>, <<"read", "idle">>,
   <<"read", "inStandby">>, <<"readLook", "readOpen">>, <<"readRecheck", "readOpen">>,
   <<"inStandbyDo", "inEnd">>, <<"inRouteDo", "inEnd">>, <<"effect", "inStandby">>,
   <<"modeOut", "modeIn">>, <<"modeOutCheck", "modeIn">>, <<"modeIn", "modeSet">>,
   <<"modeInCheck", "modeSet">>, <<"modeSet", "modeCall">>, <<"modeSet", "modeCallEnds">>,
   <<"modeSet", "modeEnd">>, <<"modeCall", "modeEnd">>, <<"modeCallEnds", "modeEnd">>,
   <<"mute", "inStandby">>, <<"mute", "idle">>, <<"close", "inStandby">>, <<"close", "standby">>}
Frees ==
  {<<"writeLook", {"hw"}, "writeIn">>, <<"writeRecheck", {"in"}, "writeLook">>,
   <<"readLook", {"in", "hw"}, "readOut">>, <<"readRecheck", {"out"}, "readLook">>,
   <<"readOpen", {"out"}, "readEnd">>, <<"modeOut", {"hw"}, "modeOutLock">>,
   <<"modeOutCheck", {"out"}, "modeOut">>, <<"modeIn", {"hw"}, "modeInLock">>,
   <<"modeInCheck", {"in"}, "modeIn">>}
Ends ==
  {<<"writeEnd", "idle">>, <<"writeEnd", "standby">>, <<"standbyEnd", "idle">>,
   <<"routeEnd", "idle">>, <<"readEnd", "idle">>, <<"readEnd", "inStandby">>,
   <<"inEnd", "idle">>, <<"inEnd", "standby">>, <<"sourceDo", "idle">>, <<"modeEnd", "idle">>}

LEMMA StaysControl ==
  ASSUME Control, NEW t \in Threads, NEW f \in Labels, NEW l \in Labels, <<f, l>> \in Stays,
         pc[t] = f, Goto(t, l), UNCHANGED <<owner, back>>
  PROVE  Control' /\ Moves(t) /\ pc'[t] = l
  <1>1. Moves(t) /\ pc'[t] = l /\ Program(t) /\ Holds(t)
    BY GotoMoves DEF Control, ControlTypes, Moves
  <1>2. Program(t)'
    BY <1>1 DEF Program, Stays, DsPlaces, WritePlaces, StandbyPlaces, RoutePlaces, ReadPlaces,
                InPlaces, SetPlaces, ModePlaces
  <1>3. Holds(t)'
    BY <1>1 DEF Stays, Holds, HwPlaces, InMust, InMay, OutMust, OutMay
  <1> QED BY <1>1, <1>2, <1>3, MoveControl

LEMMA FreesControl ==
  ASSUME Control, NEW t \in Threads, NEW f \in Labels, NEW ms, NEW l \in Labels,
         <<f, ms, l>> \in Frees, pc[t] = f, Goto(t, l), UNCHANGED back, Release(t, ms)
  PROVE  Control' /\ Moves(t) /\ pc'[t] = l
  <1>1. \A m \in {"out", "in", "hw"} :
          owner'[m] = IF m \in ms /\ owner[m] = t THEN "free" ELSE owner[m]
    BY ReleaseMoves DEF Control
  <1>2. Moves(t) /\ pc'[t] = l /\ Program(t) /\ Holds(t)
    BY <1>1, GotoMoves, ReleaseMoves DEF Control, ControlTypes, Moves
  <1>3. Program(t)'
    BY <1>2 DEF Program, Frees, DsPlaces, WritePlaces, StandbyPlaces, RoutePlaces, ReadPlaces,
                InPlaces, SetPlaces, ModePlaces
  <1>4. Holds(t)'
    BY <1>1, <1>2 DEF Frees, Holds, HwPlaces, InMust, InMay, OutMust, OutMay
  <1> QED BY <1>2, <1>3, <1>4, MoveControl

LEMMA EndsControl ==
  ASSUME Control, NEW t \in Threads, NEW l, <<pc[t], l>> \in Ends,
         t = "record" => l # "standby", Goto(t, l), UNCHANGED back, ReleaseAll(t)
  PROVE  Control' /\ Moves(t) /\ pc'[t] = l
  <1>1. \A m \in {"out", "in", "hw"} :
          owner'[m] = IF owner[m] = t THEN "free" ELSE owner[m]
    BY ReleaseAllMoves DEF Control
  <1>2. l \in {"idle", "standby", "inStandby"}
    BY DEF Ends
  <1>3. Moves(t) /\ pc'[t] = l /\ Program(t) /\ Holds(t)
    BY <1>1, <1>2, GotoMoves, ReleaseAllMoves
       DEF Control, ControlTypes, Moves, Labels, StandbyPlaces, InPlaces
  <1>4. Program(t)'
    BY <1>3 DEF Program, Ends, DsPlaces, WritePlaces, StandbyPlaces, RoutePlaces, ReadPlaces,
                InPlaces, SetPlaces, ModePlaces
  <1>5. Holds(t)'
    BY <1>1, <1>2, <1>3 DEF Holds, HwPlaces, InMust, InMay, OutMust, OutMay
  <1> QED BY <1>3, <1>4, <1>5, MoveControl

\* doStandby_l of the input: it is closed, or its reference is waited for with in and hw
\* released.
LEMMA StandbyInControl ==
  ASSUME Control, NEW t \in Threads, NEW s, NEW next \in Labels, StandbyIn(t, s, next),
         <<pc[t], next>> \in {<<"writeOpen", "writeEnd">>, <<"inStandbyDo", "inEnd">>,
                              <<"inRouteDo", "inEnd">>, <<"modeSet", "modeCall">>,
                              <<"modeSet", "modeCallEnds">>}
  PROVE  Control' /\ Moves(t)
  <1>1. CASE UNCHANGED <<owner, back>> /\ Goto(t, next)
    BY <1>1, StaysControl DEF Control, ControlTypes, Stays
  <1>2. CASE ~(UNCHANGED <<owner, back>> /\ Goto(t, next))
    <2>1. /\ Moves(t) /\ pc'[t] = "dsOut" /\ back'[t] = next /\ Program(t) /\ Holds(t)
          /\ \A m \in {"out", "in", "hw"} :
               owner'[m] = IF m # "out" /\ owner[m] = t THEN "free" ELSE owner[m]
      <3>1. /\ Release(t, {"in", "hw"}) /\ Goto(t, "dsOut") /\ back' = [back EXCEPT ![t] = next]
        BY <1>2 DEF StandbyIn
      <3>2. "dsOut" \in Labels
        BY DEF Labels, DsPlaces
      <3>3. ControlTypes /\ Program(t) /\ Holds(t)
        BY DEF Control
      <3>4. /\ owner' \in [{"out", "in", "hw"} -> Threads \cup {"free"}]
            /\ \A m \in {"out", "in", "hw"} :
                 owner'[m] = IF m # "out" /\ owner[m] = t THEN "free" ELSE owner[m]
        BY <3>1, <3>3, ReleaseMoves
      <3>5. pc' = [pc EXCEPT ![t] = pc'[t]] /\ pc'[t] = "dsOut"
        BY <3>1, <3>3, GotoMoves
      <3>6. back' = [back EXCEPT ![t] = back'[t]] /\ back'[t] = next
        BY <3>1, <3>3 DEF ControlTypes
      <3> QED BY <3>2, <3>3, <3>4, <3>5, <3>6 DEF Moves
    <2>2. Program(t)'
      BY <2>1 DEF Program, Holds, OutMust, OutMay, DsPlaces, WritePlaces, StandbyPlaces,
                  RoutePlaces, ReadPlaces, InPlaces, SetPlaces, ModePlaces
    <2>3. Holds(t)'
      BY <2>1 DEF Holds, HwPlaces, InMust, InMay, OutMust, OutMay
    <2> QED BY <2>1, <2>2, <2>3, MoveControl
  <1> QED BY <1>1, <1>2

LEMMA OutputControl ==
  ASSUME Control, NEW t \in Threads,
         \/ Write(t) \/ WriteLooks(t) \/ WriteRechecks(t) \/ WriteOpens(t) \/ WriteEnds(t)
         \/ StandbyDone(t) \/ Route(t)
  PROVE  Control' /\ Moves(t)
  <1> USE DEF Labels, DsPlaces, WritePlaces, StandbyPlaces, RoutePlaces, ReadPlaces, InPlaces,
              SetPlaces, ModePlaces
  <1>1. CASE Write(t)
    <2>1. CASE Acquire(t, "out") /\ Goto(t, "writeHw")
      <3>1. Moves(t) /\ pc'[t] = "writeHw" /\ pc[t] = "write" /\ owner'["out"] = t /\ back' = back
            /\ \A n \in {"in", "hw"} : owner'[n] = owner[n]
        BY <1>1, <2>1, AcquireMoves, GotoMoves DEF Write, Quiet, Moves, Control, ControlTypes
      <3>2. Program(t) /\ Holds(t)
        BY DEF Control
      <3> QED BY <3>1, <3>2, MoveControl DEF Program, Holds, HwPlaces, InMust, InMay, OutMust, OutMay
    <2>2. CASE UNCHANGED owner /\ (Goto(t, "idle") \/ Goto(t, "standby"))
      BY <1>1, <2>2, StaysControl DEF Write, Quiet, Stays
    <2> QED BY <1>1, <2>1, <2>2 DEF Write
  <1>2. CASE WriteLooks(t)
    BY <1>2, StaysControl, FreesControl, SMTT(30) DEF WriteLooks, Stays, Frees
  <1>3. CASE WriteRechecks(t)
    BY <1>3, StaysControl, FreesControl, SMTT(30) DEF WriteRechecks, Stays, Frees
  <1>4. CASE WriteOpens(t)
    <2>1. pc[t] = "writeOpen"
      BY <1>4 DEF WriteOpens
    <2>2. CASE UNCHANGED <<owner, back>> /\ Goto(t, "writeEnd")
      BY <2>1, <2>2, StaysControl DEF Stays
    <2>3. ASSUME NEW s, StandbyIn(t, s, "writeEnd") PROVE Control' /\ Moves(t)
      BY <2>1, <2>3, StandbyInControl
    <2> HIDE DEF Labels
    <2> QED BY <1>4, <2>2, <2>3 DEF WriteOpens
  <1>5. CASE WriteEnds(t)
    <2>1. /\ pc[t] = "writeEnd" /\ ReleaseAll(t) /\ UNCHANGED back
          /\ Goto(t, "idle") \/ Goto(t, "standby")
      BY <1>5 DEF WriteEnds
    <2>2. t # "record"
      BY <2>1 DEF Control, Program
    <2> QED BY <2>1, <2>2, EndsControl DEF Ends
  <1>6. CASE StandbyDone(t)
    BY <1>6, EndsControl DEF StandbyDone, Ends
  <1>7. CASE Route(t)
    <2>1. pc[t] = "routeEnd" /\ ReleaseAll(t) /\ Goto(t, "idle") /\ UNCHANGED back
      BY <1>7 DEF Route
    <2> QED BY <2>1, EndsControl DEF Ends
  <1> QED BY <1>1, <1>2, <1>3, <1>4, <1>5, <1>6, <1>7

LEMMA InputControl ==
  ASSUME Control, NEW t \in Threads,
         \/ Read(t) \/ ReadLooks(t) \/ ReadRechecks(t) \/ ReadOpens(t) \/ ReadEnds(t)
         \/ InStandby(t) \/ InEnds(t) \/ RouteIn(t) \/ Source(t) \/ Effect(t)
         \/ StandbyInEnds(t)
  PROVE  Control' /\ Moves(t)
  <1> USE DEF Labels, DsPlaces, WritePlaces, StandbyPlaces, RoutePlaces, ReadPlaces, InPlaces,
              SetPlaces, ModePlaces
  <1>0. Program(t) /\ Holds(t)
    BY DEF Control
  <1>1. CASE Read(t)
    <2>1. CASE Acquire(t, "in") /\ Goto(t, "readHw")
      <3>1. Moves(t) /\ pc'[t] = "readHw" /\ pc[t] = "read" /\ owner'["in"] = t /\ back' = back
            /\ \A n \in {"out", "hw"} : owner'[n] = owner[n]
        BY <1>1, <2>1, AcquireMoves, GotoMoves DEF Read, Quiet, Moves, Control, ControlTypes
      <3> QED BY <1>0, <3>1, MoveControl DEF Program, Holds, HwPlaces, InMust, InMay, OutMust, OutMay
    <2>2. CASE UNCHANGED owner /\ (Goto(t, "idle") \/ Goto(t, "inStandby"))
      BY <1>1, <2>2, StaysControl, SMTT(30) DEF Read, Quiet, Stays
    <2> QED BY <1>1, <2>1, <2>2 DEF Read
  <1>2. CASE ReadLooks(t)
    BY <1>2, StaysControl, FreesControl, SMTT(30) DEF ReadLooks, Quiet, Stays, Frees
  <1>3. CASE ReadRechecks(t)
    BY <1>3, StaysControl, FreesControl, SMTT(30) DEF ReadRechecks, Quiet, Stays, Frees
  <1>4. CASE ReadOpens(t)
    <2>1. pc[t] = "readOpen" /\ Release(t, {"out"}) /\ Goto(t, "readEnd") /\ UNCHANGED back
      BY <1>4 DEF ReadOpens
    <2> QED BY <2>1, FreesControl DEF Frees
  <1>5. CASE ReadEnds(t)
    <2>1. /\ pc[t] = "readEnd" /\ ReleaseAll(t) /\ UNCHANGED back
          /\ Goto(t, "idle") \/ Goto(t, "inStandby")
      BY <1>5 DEF ReadEnds
    <2> QED BY <2>1, EndsControl DEF Ends
  <1>6. CASE InStandby(t)
    BY <1>6, StandbyInControl DEF InStandby
  <1>7. CASE InEnds(t)
    <2>1. /\ pc[t] = "inEnd" /\ ReleaseAll(t) /\ UNCHANGED back
          /\ Goto(t, "idle") \/ (Goto(t, "standby") /\ t = "client")
      BY <1>7 DEF InEnds, Quiet
    <2> QED BY <2>1, EndsControl DEF Ends
  <1>8. CASE RouteIn(t)
    <2>1. /\ pc[t] = "inRouteDo"
          /\ StandbyIn(t, Now, "inEnd") \/ (Goto(t, "inEnd") /\ UNCHANGED <<owner, back>>)
      BY <1>8 DEF RouteIn
    <2>2. CASE StandbyIn(t, Now, "inEnd")
      BY <2>1, <2>2, StandbyInControl
    <2>3. CASE Goto(t, "inEnd") /\ UNCHANGED <<owner, back>>
      BY <2>1, <2>3, StaysControl DEF Stays
    <2> QED BY <2>1, <2>2, <2>3
  <1>9. CASE Source(t)
    <2>1. pc[t] = "sourceDo" /\ ReleaseAll(t) /\ Goto(t, "idle") /\ UNCHANGED back
      BY <1>9 DEF Source
    <2> QED BY <2>1, EndsControl DEF Ends
  <1>10. CASE Effect(t)
    BY <1>10, StaysControl DEF Effect, Stays
  <1>11. CASE StandbyInEnds(t)
    <2>1. Moves(t) /\ pc'[t] = back[t] /\ pc[t] = "dsEnd" /\ back' = back
          /\ \A m \in {"out", "in", "hw"} :
               owner'[m] = IF m = "out" /\ owner[m] = t THEN "free" ELSE owner[m]
      BY <1>11, ReleaseMoves, GotoMoves DEF StandbyInEnds, Moves, Control, ControlTypes
    <2> QED BY <1>0, <2>1, MoveControl DEF Program, Holds, HwPlaces, InMust, InMay, OutMust, OutMay
  <1> QED BY <1>1, <1>2, <1>3, <1>4, <1>5, <1>6, <1>7, <1>8, <1>9, <1>10, <1>11

LEMMA HardwareControl ==
  ASSUME Control, NEW t \in Threads,
         \/ ModeLooksOut(t) \/ ModeRechecksOut(t) \/ ModeLooksIn(t) \/ ModeRechecksIn(t)
         \/ ModeSet(t) \/ ModeCall(t) \/ ModeCallEnds(t) \/ ModeEnds(t) \/ MicMute(t)
         \/ CloseOutput(t)
  PROVE  Control' /\ Moves(t)
  <1> USE DEF Labels, DsPlaces, WritePlaces, StandbyPlaces, RoutePlaces, ReadPlaces, InPlaces,
              SetPlaces, ModePlaces
  <1>1. CASE ModeLooksOut(t)
    BY <1>1, StaysControl, FreesControl, SMTT(30) DEF ModeLooksOut, Stays, Frees
  <1>2. CASE ModeRechecksOut(t)
    BY <1>2, StaysControl, FreesControl, SMTT(30) DEF ModeRechecksOut, Stays, Frees
  <1>3. CASE ModeLooksIn(t)
    BY <1>3, StaysControl, FreesControl, SMTT(30) DEF ModeLooksIn, Stays, Frees
  <1>4. CASE ModeRechecksIn(t)
    BY <1>4, StaysControl, FreesControl, SMTT(30) DEF ModeRechecksIn, Stays, Frees
  <1>5. CASE ModeSet(t)
    <2>1. pc[t] = "modeSet"
      BY <1>5 DEF ModeSet
    <2>2. ASSUME NEW s, NEW next \in {"modeCall", "modeCallEnds"}, Streams(t, s, next)
          PROVE  Control' /\ Moves(t)
      <3>1. CASE UNCHANGED <<owner, back>> /\ Goto(t, next)
        BY <2>1, <3>1, StaysControl DEF Stays
      <3>2. ASSUME NEW s1, StandbyIn(t, s1, next) PROVE Control' /\ Moves(t)
        BY <2>1, <3>2, StandbyInControl
      <3> HIDE DEF Labels
      <3> QED BY <2>2, <3>1, <3>2 DEF Streams
    <2>3. CASE Goto(t, "modeEnd") /\ UNCHANGED <<owner, back>>
      BY <2>1, <2>3, StaysControl DEF Stays
    <2> HIDE DEF Labels
    <2> QED BY <1>5, <2>2, <2>3 DEF ModeSet
  <1>6. CASE ModeCall(t)
    <2>1. pc[t] = "modeCall" /\ Goto(t, "modeEnd") /\ UNCHANGED <<owner, back>>
      BY <1>6 DEF ModeCall
    <2> QED BY <2>1, StaysControl DEF Stays
  <1>7. CASE ModeCallEnds(t)
    BY <1>7, StaysControl DEF ModeCallEnds, Stays
  <1>8. CASE ModeEnds(t)
    BY <1>8, EndsControl DEF ModeEnds, Quiet, Ends
  <1>9. CASE MicMute(t)
    BY <1>9, StaysControl DEF MicMute, Quiet, Stays
  <1>10. CASE CloseOutput(t)
    BY <1>10, StaysControl DEF CloseOutput, Stays
  <1> QED BY <1>1, <1>2, <1>3, <1>4, <1>5, <1>6, <1>7, <1>8, <1>9, <1>10

LEMMA CallControl ==
  ASSUME Control, NEW t \in Threads, Call(t)
  PROVE  Control' /\ Moves(t)
  <1> USE DEF Labels, DsPlaces, WritePlaces, StandbyPlaces, RoutePlaces, ReadPlaces, InPlaces,
              SetPlaces, ModePlaces
  <1>1. Program(t) /\ Holds(t)
    BY DEF Control
  <1>2. /\ Moves(t) /\ pc[t] = "idle" /\ owner' = owner /\ back' = back
        /\ pc'[t] \in Entries(t) \cup (IF t = "client" THEN {"mode"} ELSE {})
    BY GotoMoves DEF Call, Entries, Control, ControlTypes, Moves
  <1> QED BY <1>1, <1>2, MoveControl
          DEF Entries, Program, Holds, HwPlaces, InMust, InMay, OutMust, OutMay

-----------------------------------------------------------------------------
(* The streams and the counts: what holds between the steps.               *)

Writing == pc["playback"] \in WritePlaces \ {"write", "writeEnd"}
WriteDone == pc["playback"] = "writeEnd"
WriteWaits == pc["playback"] = "dsOut"
ReopensInput == pc["playback"] = "writeOpen" /\ owner["in"] = "playback"
Reading == pc["record"] \in ReadPlaces \ {"read", "readEnd"}
ReadDone == pc["record"] = "readEnd"
AtOrBack(at) == pc["client"] = at \/ (pc["client"] \in DsPlaces /\ back["client"] = at)
EntersCall == AtOrBack("modeCall")
LeavesCall == AtOrBack("modeCallEnds")
Stuck == \E t \in Threads : WaitsForItself(t)

DataTypes ==
  /\ out \in OutType /\ inp \in InType /\ hw \in HwType
  /\ goal \in Modes /\ missed \in BOOLEAN /\ callFailed \in BOOLEAN
Bounds == calls \in 0..MaxCalls /\ failures \in 0..MaxFailures

\* A stream is opened before it leaves standby, by the thread that goes on to say so.
OutShape ==
  /\ out.mixer => out.pcm
  /\ Writing => out.standby /\ ~out.pcm
  /\ WriteDone \/ WriteWaits => out.standby
  /\ ~WriteDone /\ ~WriteWaits => (out.standby <=> ~out.pcm)
InShape ==
  /\ inp.mixer => inp.pcm
  /\ Reading => inp.standby /\ ~inp.pcm
  /\ ReadDone => inp.standby
  /\ ReopensInput => ~inp.standby
  /\ WriteDone => (inp.standby <=> ~inp.pcm)
  /\ ~ReadDone => (inp.standby <=> ~inp.pcm) \/ (~inp.standby /\ WriteWaits)

\* The call is a user of the devices until setMode has closed them.
InCall == One(hw.inCall /\ ~LeavesCall)
Counts ==
  /\ hw.pcms <= One(out.pcm) + InCall
  /\ hw.mixers <= One(out.mixer) + One(inp.mixer) + InCall
  /\ ~callFailed => /\ hw.pcms = One(out.pcm) + InCall
                    /\ hw.mixers = One(out.mixer) + One(inp.mixer) + InCall

Alive == out.pcm => hw.pcms > 0 \/ (callFailed /\ missed) \/ Stuck
ModeAgrees ==
  /\ EntersCall => hw.mode = "call" /\ ~hw.inCall
  /\ LeavesCall => hw.mode # "call" /\ hw.inCall
  /\ ~EntersCall /\ ~LeavesCall => (hw.mode = "call" <=> hw.inCall)
Heard(h) == h.told = "default" \/ h.untold
Told == /\ hw.source = "default" => Heard(hw)
        /\ hw.mode = "call" /\ hw.inCall => Heard(hw)
Routed == hw.mode # "call" /\ ~missed /\ out.mixer /\ ~Stuck => hw.path = out.device

Data ==
  /\ DataTypes /\ OutShape /\ InShape /\ Counts /\ Alive /\ ModeAgrees /\ Told /\ Routed
  /\ ReferenceAlive

LEMMA InitData == Init => Data /\ Bounds
  <1> SUFFICES ASSUME Init PROVE Data /\ Bounds
    OBVIOUS
  <1>1. /\ ~Writing /\ ~WriteDone /\ ~WriteWaits /\ ~ReopensInput /\ ~Reading /\ ~ReadDone
        /\ ~EntersCall /\ ~LeavesCall
    BY DEF Init, Writing, WriteDone, WriteWaits, ReopensInput, Reading, ReadDone, EntersCall,
           LeavesCall, AtOrBack, WritePlaces, ReadPlaces, DsPlaces
  <1>2. DataTypes /\ Bounds
    <2>1. out \in OutType /\ inp \in InType
      BY DEF Init, OutType, InType
    <2>2. hw \in HwType /\ goal \in Modes /\ missed \in BOOLEAN /\ callFailed \in BOOLEAN
      BY DEF Init, HwType, Modes, Sources
    <2>3. Bounds
      BY AudioAssumption DEF Init, Bounds
    <2> QED BY <2>1, <2>2, <2>3 DEF DataTypes
  <1>3. OutShape /\ InShape /\ Counts
    BY <1>1 DEF Init, OutShape, InShape, Counts, InCall, One
  <1>4. Alive /\ ModeAgrees /\ Told /\ Routed /\ ReferenceAlive
    BY <1>1 DEF Init, Alive, ModeAgrees, Told, Heard, Routed, ReferenceAlive
  <1> QED BY <1>2, <1>3, <1>4 DEF Data

\* Who waits for itself goes on waiting, and the others do not move.
LEMMA StuckStays ==
  ASSUME Control, NEW t \in Threads, Moves(t), ~WaitsForItself(t)
  PROVE  Stuck => Stuck'
  <1>1. ASSUME NEW u \in Threads, WaitsForItself(u) PROVE WaitsForItself(u)'
    BY <1>1 DEF WaitsForItself, Control, ControlTypes, Moves
  <1> QED BY <1>1 DEF Stuck

LEMMA Elsewhere ==
  ASSUME Control, NEW t \in Threads, Moves(t)
  PROVE  /\ t # "playback" => /\ pc'["playback"] = pc["playback"]
                              /\ owner'["in"] = "playback" <=> owner["in"] = "playback"
         /\ t # "record" => pc'["record"] = pc["record"]
         /\ t # "client" => pc'["client"] = pc["client"] /\ back'["client"] = back["client"]
  BY DEF Control, ControlTypes, Moves

\* One thread at a time has hw, and with it the streams.
LEMMA Alone ==
  ASSUME Control, NEW t \in Threads, pc[t] \in HwPlaces
  PROVE  /\ t # "playback" => ~WriteDone /\ ~ReopensInput
         /\ t # "record" => ~ReadDone
         /\ t # "client" => /\ EntersCall => pc["client"] \in DsPlaces
                            /\ LeavesCall => pc["client"] \in DsPlaces
         /\ t # "playback" /\ owner["out"] = t => ~Writing /\ ~WriteDone /\ ~WriteWaits
  <1>1. \A u \in Threads : u # t => pc[u] \notin HwPlaces
    BY DEF Control, Holds
  <1>2. t # "playback" /\ owner["out"] = t => pc["playback"] \notin OutMust \cup {"dsOut"}
    BY DEF Control, Holds, Program
  <1> QED BY <1>1, <1>2 DEF HwPlaces, OutMust, WriteDone, ReopensInput, ReadDone,
         EntersCall, LeavesCall, AtOrBack, Writing, WriteWaits, WritePlaces

-----------------------------------------------------------------------------
\* A step that touches neither the devices nor the standby state, and leaves every
\* call where it was in that respect.
Still ==
  /\ Writing' => Writing \/ (out.standby /\ ~WriteDone /\ ~WriteWaits)
  /\ WriteDone' <=> WriteDone
  /\ WriteWaits' <=> WriteWaits
  /\ ReopensInput' => ReopensInput \/ ~inp.standby
  /\ Reading' => Reading \/ (inp.standby /\ ~ReadDone)
  /\ ReadDone' <=> ReadDone
  /\ EntersCall' <=> EntersCall
  /\ LeavesCall' <=> LeavesCall
  /\ Stuck => Stuck'
SameStreams ==
  /\ out' = [out EXCEPT !.seen = out'.seen] /\ out'.seen \subseteq Threads
  /\ inp' = [inp EXCEPT !.seen = inp'.seen, !.need = inp'.need]
  /\ inp'.seen \subseteq Threads /\ inp'.need \in BOOLEAN
  /\ hw' = [hw EXCEPT !.output = hw'.output] /\ hw'.output \in BOOLEAN
  /\ goal' \in Modes /\ missed' = missed /\ callFailed' = callFailed

LEMMA StillData ==
  ASSUME Data, Still, SameStreams
  PROVE  Data'
  <1>1. DataTypes'
    BY DEF Data, DataTypes, OutType, InType, HwType, SameStreams
  <1>2. /\ out'.standby = out.standby /\ out'.pcm = out.pcm /\ out'.mixer = out.mixer
        /\ out'.device = out.device
        /\ inp'.standby = inp.standby /\ inp'.pcm = inp.pcm /\ inp'.mixer = inp.mixer
        /\ inp'.echo = inp.echo
        /\ hw'.mode = hw.mode /\ hw'.inCall = hw.inCall /\ hw'.pcms = hw.pcms
        /\ hw'.mixers = hw.mixers /\ hw'.echo = hw.echo /\ hw'.source = hw.source
        /\ hw'.told = hw.told /\ hw'.untold = hw.untold /\ hw'.path = hw.path
        /\ missed' = missed /\ callFailed' = callFailed
    BY DEF Data, DataTypes, OutType, InType, HwType, SameStreams
  <1>3. OutShape' /\ InShape'
    BY <1>2 DEF Data, Still, OutShape, InShape
  <1>4. Counts'
    BY <1>2 DEF Data, Still, Counts, InCall, One
  <1>5. Alive' /\ ModeAgrees' /\ Told' /\ Routed' /\ ReferenceAlive'
    BY <1>2 DEF Data, Still, Alive, ModeAgrees, Told, Heard, Routed, ReferenceAlive
  <1> QED BY <1>1, <1>3, <1>4, <1>5 DEF Data

\* What the place a step leads to must be for that.
Ending == {"writeEnd", "readEnd", "modeCall", "modeCallEnds"}
Steady(t) ==
  /\ back' = back /\ pc[t] \notin Ending /\ pc'[t] \notin Ending
  /\ pc[t] \in DsPlaces <=> pc'[t] \in DsPlaces
  /\ pc'[t] # "dsOut"
  /\ pc'[t] \in WritePlaces \ {"write"} =>
       pc[t] \in WritePlaces \ {"write"} \/ (pc[t] = "write" /\ out.standby)
  /\ pc'[t] = "writeOpen" => ~inp.standby \/ owner'["in"] # t
  /\ pc'[t] \in ReadPlaces \ {"read"} =>
       pc[t] \in ReadPlaces \ {"read"} \/ (pc[t] = "read" /\ inp.standby)

LEMMA StillMoves ==
  ASSUME Control, NEW t \in Threads, Moves(t), ~WaitsForItself(t), Steady(t)
  PROVE  Still
  <1>1. Stuck => Stuck'
    BY StuckStays
  <1>2. \A u \in Threads : u # t => pc'[u] = pc[u] /\ back'[u] = back[u]
                                    /\ (owner'["in"] = u <=> owner["in"] = u)
    BY DEF Control, ControlTypes, Moves
  <1>3. t = "playback" => pc[t] # "dsOut"
    BY DEF Control, Program, WaitsForItself
  <1>4. /\ Writing' => Writing \/ (out.standby /\ ~WriteDone /\ ~WriteWaits)
        /\ WriteDone' <=> WriteDone
        /\ WriteWaits' <=> WriteWaits
    BY <1>2, <1>3 DEF Steady, Ending, Writing, WriteDone, WriteWaits, WritePlaces
  <1>5. /\ ReopensInput' => ReopensInput \/ ~inp.standby
        /\ Reading' => Reading \/ (inp.standby /\ ~ReadDone)
        /\ ReadDone' <=> ReadDone
    BY <1>2 DEF Steady, Ending, ReopensInput, Reading, ReadDone, ReadPlaces
  <1>6. EntersCall' <=> EntersCall
    BY <1>2 DEF Steady, Ending, EntersCall, AtOrBack, DsPlaces
  <1>7. LeavesCall' <=> LeavesCall
    BY <1>2 DEF Steady, Ending, LeavesCall, AtOrBack, DsPlaces
  <1> QED BY <1>1, <1>4, <1>5, <1>6, <1>7 DEF Still

\* A step that only takes a mutex.
LEMMA LockData ==
  ASSUME Control, Data, NEW t \in Threads, NEW m \in {"out", "in", "hw"}, NEW from \in Labels,
         NEW to \in Labels, Lock(t, from, m, to),
         from \notin Ending, to \notin Ending \cup {"dsOut"}, to # "writeOpen",
         from \in DsPlaces <=> to \in DsPlaces, from = "dsOut" => m = "out",
         to \in WritePlaces \ {"write"} => from \in WritePlaces \ {"write"},
         to \in ReadPlaces \ {"read"} => from \in ReadPlaces \ {"read"} \/ (from = "read" /\ inp.standby)
  PROVE  Data'
  <1>1. /\ Moves(t) /\ pc[t] = from /\ pc'[t] = to /\ owner[m] = "free" /\ back' = back
    <2>1. Control /\ Lock(t, from, m, to)
      OBVIOUS
    <2>2. \A f \in Labels : Lock(t, f, m, to) =>
            /\ Moves(t) /\ pc[t] = f /\ pc'[t] = to /\ owner[m] = "free" /\ back' = back
      BY Lock_Control
    <2> QED BY <2>1, <2>2
  <1>2. Steady(t)
    BY <1>1 DEF Steady
  <1>3. ~WaitsForItself(t)
    BY <1>1 DEF WaitsForItself
  <1>4. SameStreams
    BY DEF Lock, Quiet, Others, streams, SameStreams, Data, DataTypes, OutType, InType, HwType
  <1> QED BY <1>1, <1>2, <1>3, <1>4, StillMoves, StillData

LEMMA LocksData ==
  ASSUME Control, Data, NEW t \in Threads,
         \/ Lock(t, "writeHw", "hw", "writeLook") \/ Lock(t, "writeIn", "in", "writeInHw")
         \/ Lock(t, "writeInHw", "hw", "writeRecheck") \/ Lock(t, "standby", "out", "standbyHw")
         \/ Lock(t, "standbyHw", "hw", "standbyEnd") \/ Lock(t, "route", "out", "routeHw")
         \/ Lock(t, "routeHw", "hw", "routeEnd")
         \/ Lock(t, "readHw", "hw", "readLook") \/ Lock(t, "readOut", "out", "readIn")
         \/ Lock(t, "readIn", "in", "readInHw") \/ Lock(t, "readInHw", "hw", "readRecheck")
         \/ Lock(t, "inStandby", "in", "inStandbyHw")
         \/ Lock(t, "inStandbyHw", "hw", "inStandbyDo")
         \/ Lock(t, "inRoute", "in", "inRouteHw") \/ Lock(t, "inRouteHw", "hw", "inRouteDo")
         \/ Lock(t, "source", "in", "sourceHw") \/ Lock(t, "sourceHw", "hw", "sourceDo")
         \/ Lock(t, "dsOut", "out", "dsIn") \/ Lock(t, "dsIn", "in", "dsHw")
         \/ Lock(t, "dsHw", "hw", "dsEnd") \/ Lock(t, "mode", "hw", "modeOut")
         \/ Lock(t, "modeOutLock", "out", "modeOutHw") \/ Lock(t, "modeOutHw", "hw", "modeOutCheck")
         \/ Lock(t, "modeInLock", "in", "modeInHw") \/ Lock(t, "modeInHw", "hw", "modeInCheck")
  PROVE  Data'
  <1>1. CASE \/ Lock(t, "writeHw", "hw", "writeLook")
            \/ Lock(t, "writeIn", "in", "writeInHw")
            \/ Lock(t, "writeInHw", "hw", "writeRecheck")
            \/ Lock(t, "standby", "out", "standbyHw")
            \/ Lock(t, "standbyHw", "hw", "standbyEnd")
    BY <1>1, LockData DEF Labels, DsPlaces, WritePlaces, StandbyPlaces, RoutePlaces, ReadPlaces,
       InPlaces, SetPlaces, ModePlaces, Ending
  <1>2. CASE \/ Lock(t, "route", "out", "routeHw")
            \/ Lock(t, "routeHw", "hw", "routeEnd")
            \/ Lock(t, "readHw", "hw", "readLook")
            \/ Lock(t, "readOut", "out", "readIn")
            \/ Lock(t, "readIn", "in", "readInHw")
            \/ Lock(t, "readInHw", "hw", "readRecheck")
    BY <1>2, LockData DEF Labels, DsPlaces, WritePlaces, StandbyPlaces, RoutePlaces, ReadPlaces,
       InPlaces, SetPlaces, ModePlaces, Ending
  <1>3. CASE \/ Lock(t, "inStandby", "in", "inStandbyHw")
            \/ Lock(t, "inStandbyHw", "hw", "inStandbyDo")
            \/ Lock(t, "inRoute", "in", "inRouteHw")
            \/ Lock(t, "inRouteHw", "hw", "inRouteDo")
            \/ Lock(t, "source", "in", "sourceHw")
            \/ Lock(t, "sourceHw", "hw", "sourceDo")
    BY <1>3, LockData DEF Labels, DsPlaces, WritePlaces, StandbyPlaces, RoutePlaces, ReadPlaces,
       InPlaces, SetPlaces, ModePlaces, Ending
  <1>4. CASE \/ Lock(t, "dsOut", "out", "dsIn") \/ Lock(t, "dsIn", "in", "dsHw")
            \/ Lock(t, "dsHw", "hw", "dsEnd") \/ Lock(t, "mode", "hw", "modeOut")
    BY <1>4, LockData DEF Labels, DsPlaces, WritePlaces, StandbyPlaces, RoutePlaces, ReadPlaces,
       InPlaces, SetPlaces, ModePlaces, Ending
  <1>5. CASE \/ Lock(t, "modeOutLock", "out", "modeOutHw")
            \/ Lock(t, "modeOutHw", "hw", "modeOutCheck")
            \/ Lock(t, "modeInLock", "in", "modeInHw")
            \/ Lock(t, "modeInHw", "hw", "modeInCheck")
    BY <1>5, LockData DEF Labels, DsPlaces, WritePlaces, StandbyPlaces, RoutePlaces, ReadPlaces,
       InPlaces, SetPlaces, ModePlaces, Ending
  <1> QED BY <1>1, <1>2, <1>3, <1>4, <1>5

\* The streams are looked at, and the threads remembered that did.
LEMMA SameData ==
  ASSUME Control, Data, NEW t \in Threads, Moves(t), SameStreams, Steady(t), pc[t] # "dsOut"
  PROVE  Data'
  BY StillMoves, StillData DEF WaitsForItself

LEMMA QuietStreams ==
  ASSUME Data, Others, streams' = streams
  PROVE  SameStreams
  BY DEF Others, streams, SameStreams, Data, DataTypes, OutType, InType, HwType

LEMMA LookingStreams ==
  ASSUME Data, Others, hw' = hw, NEW t \in Threads,
         \/ out' = [out EXCEPT !.seen = @ \cup {t}] \/ out' = [out EXCEPT !.seen = @ \ {t}]
         \/ out' = out,
         \/ inp' = [inp EXCEPT !.seen = @ \cup {t}] \/ inp' = [inp EXCEPT !.seen = @ \ {t}]
         \/ inp' = [inp EXCEPT !.need = ~@] \/ inp' = inp
  PROVE  SameStreams
  <1>1. out \in OutType /\ inp \in InType /\ hw \in HwType /\ goal \in Modes
    BY DEF Data, DataTypes
  <1>2. /\ inp' = [inp EXCEPT !.seen = inp'.seen, !.need = inp'.need]
        /\ inp'.seen \subseteq Threads /\ inp'.need \in BOOLEAN
    <2>1. CASE inp' = [inp EXCEPT !.seen = @ \cup {t}]
      BY <1>1, <2>1 DEF InType
    <2>2. CASE inp' = [inp EXCEPT !.seen = @ \ {t}]
      BY <1>1, <2>2 DEF InType
    <2>3. CASE inp' = [inp EXCEPT !.need = ~@]
      BY <1>1, <2>3 DEF InType
    <2>4. CASE inp' = inp
      BY <1>1, <2>4 DEF InType
    <2> QED BY <2>1, <2>2, <2>3, <2>4
  <1>3. /\ out' = [out EXCEPT !.seen = out'.seen] /\ out'.seen \subseteq Threads
    <2>1. CASE out' = [out EXCEPT !.seen = @ \cup {t}]
      BY <1>1, <2>1 DEF OutType
    <2>2. CASE out' = [out EXCEPT !.seen = @ \ {t}]
      BY <1>1, <2>2 DEF OutType
    <2>3. CASE out' = out
      BY <1>1, <2>3 DEF OutType
    <2> QED BY <2>1, <2>2, <2>3
  <1>4. hw' = [hw EXCEPT !.output = hw'.output] /\ hw'.output \in BOOLEAN
    BY <1>1 DEF HwType
  <1> QED BY <1>1, <1>2, <1>3, <1>4 DEF Others, SameStreams

LEMMA SteadyOutput ==
  ASSUME Control, Data, NEW t \in Threads, Write(t) \/ WriteLooks(t) \/ WriteRechecks(t)
  PROVE  Data'
  <1> USE DEF DsPlaces, WritePlaces, ReadPlaces, Ending
  <1>1. ControlTypes /\ Moves(t) /\ Holds(t)
    BY OutputControl DEF Control
  <1>2. CASE Write(t)
    <2>1. /\ back' = back /\ pc[t] = "write"
          /\ (pc'[t] = "writeHw" /\ out.standby) \/ pc'[t] = "idle" \/ pc'[t] = "standby"
      BY <1>1, <1>2, GotoMoves DEF Write, Quiet
    <2>2. SameStreams
      BY <1>2, QuietStreams DEF Write, Quiet
    <2> QED BY <1>1, <2>1, <2>2, SameData DEF Steady
  <1>3. CASE WriteLooks(t)
    <2>1. /\ back' = back /\ pc[t] = "writeLook"
          /\ pc'[t] = "writeIn" \/ (pc'[t] = "writeOpen" /\ owner' = owner)
      <3>1. /\ back' = back /\ pc[t] = "writeLook"
            /\ Goto(t, "writeIn") \/ (Goto(t, "writeOpen") /\ owner' = owner)
        BY <1>3 DEF WriteLooks
      <3>2. \A l : Goto(t, l) => pc'[t] = l
        BY <1>1, GotoMoves
      <3> QED BY <3>1, <3>2
    <2>2. owner["in"] # t
      BY <1>1, <2>1 DEF Holds, InMay, InMust
    <2>3. SameStreams
      BY <1>3, LookingStreams DEF WriteLooks
    <2> QED BY <1>1, <2>1, <2>2, <2>3, SameData DEF Steady
  <1>4. CASE WriteRechecks(t)
    <2>1. /\ back' = back /\ pc[t] = "writeRecheck"
          /\ pc'[t] = "writeLook" \/ (pc'[t] = "writeOpen" /\ ~inp.standby)
      <3>1. /\ back' = back /\ pc[t] = "writeRecheck"
            /\ Goto(t, "writeLook") \/ (Goto(t, "writeOpen") /\ ~inp.standby)
        BY <1>4 DEF WriteRechecks, ActiveInput, Now
      <3>2. \A l : Goto(t, l) => pc'[t] = l
        BY <1>1, GotoMoves
      <3> QED BY <3>1, <3>2
    <2>2. SameStreams
      BY <1>4, LookingStreams DEF WriteRechecks
    <2> QED BY <1>1, <2>1, <2>2, SameData DEF Steady
  <1> QED BY <1>2, <1>3, <1>4

LEMMA SteadyInput ==
  ASSUME Control, Data, NEW t \in Threads,
         Read(t) \/ ReadLooks(t) \/ ReadRechecks(t) \/ InEnds(t) \/ Effect(t)
  PROVE  Data'
  <1> USE DEF DsPlaces, WritePlaces, ReadPlaces, Ending
  <1>1. ControlTypes /\ Moves(t)
    BY InputControl DEF Control
  <1>2. CASE Read(t)
    <2>1. /\ back' = back /\ pc[t] = "read"
          /\ (pc'[t] = "readHw" /\ inp.standby) \/ pc'[t] = "idle" \/ pc'[t] = "inStandby"
      BY <1>1, <1>2, GotoMoves DEF Read, Quiet
    <2>2. SameStreams
      BY <1>2, QuietStreams DEF Read, Quiet
    <2> QED BY <1>1, <2>1, <2>2, SameData DEF Steady
  <1>3. CASE ReadLooks(t)
    <2>1. back' = back /\ pc[t] = "readLook" /\ (pc'[t] = "readOut" \/ pc'[t] = "readOpen")
      BY <1>1, <1>3, GotoMoves DEF ReadLooks, Quiet
    <2>2. SameStreams
      BY <1>3, QuietStreams DEF ReadLooks, Quiet
    <2> QED BY <1>1, <2>1, <2>2, SameData DEF Steady
  <1>4. CASE ReadRechecks(t)
    <2>1. back' = back /\ pc[t] = "readRecheck" /\ (pc'[t] = "readOpen" \/ pc'[t] = "readLook")
      BY <1>1, <1>4, GotoMoves DEF ReadRechecks, Quiet
    <2>2. SameStreams
      BY <1>4, QuietStreams DEF ReadRechecks, Quiet
    <2> QED BY <1>1, <2>1, <2>2, SameData DEF Steady
  <1>5. CASE InEnds(t)
    <2>1. back' = back /\ pc[t] = "inEnd" /\ (pc'[t] = "standby" \/ pc'[t] = "idle")
      BY <1>1, <1>5, GotoMoves DEF InEnds, Quiet
    <2>2. SameStreams
      BY <1>5, QuietStreams DEF InEnds, Quiet
    <2> QED BY <1>1, <2>1, <2>2, SameData DEF Steady
  <1>6. CASE Effect(t)
    <2>1. back' = back /\ pc[t] = "effect" /\ pc'[t] = "inStandby"
      BY <1>1, <1>6, GotoMoves DEF Effect
    <2>2. SameStreams
      BY <1>6, LookingStreams DEF Effect
    <2> QED BY <1>1, <2>1, <2>2, SameData DEF Steady
  <1> QED BY <1>2, <1>3, <1>4, <1>5, <1>6

LEMMA SteadyHardware ==
  ASSUME Control, Data, NEW t \in Threads,
         \/ ModeLooksOut(t) \/ ModeRechecksOut(t) \/ ModeLooksIn(t) \/ ModeRechecksIn(t)
         \/ ModeEnds(t) \/ MicMute(t) \/ CloseOutput(t)
  PROVE  Data'
  <1> USE DEF DsPlaces, WritePlaces, ReadPlaces, Ending
  <1>1. ControlTypes /\ Moves(t)
    BY HardwareControl DEF Control
  <1>2. CASE ModeLooksOut(t)
    <2>1. back' = back /\ pc[t] = "modeOut" /\ (pc'[t] = "modeOutLock" \/ pc'[t] = "modeIn")
      BY <1>1, <1>2, GotoMoves DEF ModeLooksOut
    <2>2. SameStreams
      BY <1>2, LookingStreams DEF ModeLooksOut
    <2> QED BY <1>1, <2>1, <2>2, SameData DEF Steady
  <1>3. CASE ModeRechecksOut(t)
    <2>1. back' = back /\ pc[t] = "modeOutCheck" /\ (pc'[t] = "modeIn" \/ pc'[t] = "modeOut")
      BY <1>1, <1>3, GotoMoves DEF ModeRechecksOut
    <2>2. SameStreams
      BY <1>3, LookingStreams DEF ModeRechecksOut
    <2> QED BY <1>1, <2>1, <2>2, SameData DEF Steady
  <1>4. CASE ModeLooksIn(t)
    <2>1. back' = back /\ pc[t] = "modeIn" /\ (pc'[t] = "modeInLock" \/ pc'[t] = "modeSet")
      BY <1>1, <1>4, GotoMoves DEF ModeLooksIn
    <2>2. SameStreams
      BY <1>4, LookingStreams DEF ModeLooksIn
    <2> QED BY <1>1, <2>1, <2>2, SameData DEF Steady
  <1>5. CASE ModeRechecksIn(t)
    <2>1. back' = back /\ pc[t] = "modeInCheck" /\ (pc'[t] = "modeSet" \/ pc'[t] = "modeIn")
      BY <1>1, <1>5, GotoMoves DEF ModeRechecksIn
    <2>2. SameStreams
      BY <1>5, LookingStreams DEF ModeRechecksIn
    <2> QED BY <1>1, <2>1, <2>2, SameData DEF Steady
  <1>6. CASE ModeEnds(t)
    <2>1. back' = back /\ pc[t] = "modeEnd" /\ pc'[t] = "idle"
      BY <1>1, <1>6, GotoMoves DEF ModeEnds, Quiet
    <2>2. SameStreams
      BY <1>6, QuietStreams DEF ModeEnds, Quiet
    <2> QED BY <1>1, <2>1, <2>2, SameData DEF Steady
  <1>7. CASE MicMute(t)
    <2>1. back' = back /\ pc[t] = "mute" /\ (pc'[t] = "inStandby" \/ pc'[t] = "idle")
      BY <1>1, <1>7, GotoMoves DEF MicMute, Quiet
    <2>2. SameStreams
      BY <1>7, QuietStreams DEF MicMute, Quiet
    <2> QED BY <1>1, <2>1, <2>2, SameData DEF Steady
  <1>8. CASE CloseOutput(t)
    <2>1. back' = back /\ pc[t] = "close" /\ (pc'[t] = "inStandby" \/ pc'[t] = "standby")
      BY <1>1, <1>8, GotoMoves DEF CloseOutput
    <2>2. SameStreams
      BY <1>8 DEF CloseOutput, Others, SameStreams, Data, DataTypes, OutType, InType, HwType
    <2> QED BY <1>1, <2>1, <2>2, SameData DEF Steady
  <1> QED BY <1>2, <1>3, <1>4, <1>5, <1>6, <1>7, <1>8

\* A thread begins a call.
LEMMA CallData ==
  ASSUME Control, Data, NEW t \in Threads, Call(t)
  PROVE  Data'
  <1>1. ControlTypes /\ Moves(t)
    BY CallControl DEF Control
  <1>2. pc[t] = "idle" /\ back' = back /\ pc'[t] \in Entries(t) \cup {"mode"}
    BY <1>1, GotoMoves DEF Call
  <1>3. Steady(t)
    BY <1>2 DEF Steady, Entries, Ending, DsPlaces, WritePlaces, ReadPlaces
  <1>4. SameStreams
    BY DEF Call, streams, history, SameStreams, Data, DataTypes, OutType, InType, HwType
  <1> QED BY <1>1, <1>2, <1>3, <1>4, SameData

-----------------------------------------------------------------------------
(* What the operations on the devices do.                                  *)

State == [out : OutType, inp : InType, hw : HwType]
SameHw(r, s) ==
  /\ r.hw.mode = s.hw.mode /\ r.hw.inCall = s.hw.inCall /\ r.hw.output = s.hw.output
  /\ r.hw.echo = s.hw.echo /\ r.hw.source = s.hw.source /\ r.hw.told = s.hw.told
  /\ r.hw.untold = s.hw.untold
SameOut(r, s) ==
  /\ r.out.standby = s.out.standby /\ r.out.pcm = s.out.pcm /\ r.out.mixer = s.out.mixer
  /\ r.out.device = s.out.device
SameIn(r, s) ==
  /\ r.inp.standby = s.inp.standby /\ r.inp.pcm = s.inp.pcm /\ r.inp.mixer = s.inp.mixer
  /\ r.inp.echo = s.inp.echo

LEMMA Down_Facts ==
  ASSUME NEW n \in Nat
  PROVE  Down(n) \in Nat /\ (n > 0 => Down(n) = n - 1) /\ (n = 0 => Down(n) = 0)
  BY DEF Down

LEMMA OpenOut_Facts ==
  ASSUME NEW s \in State, ~s.out.pcm, ~s.out.mixer, NEW fail, NEW r, r = OpenOut(s, fail)
  PROVE  /\ r \in State /\ SameHw(r, s) /\ r.inp = s.inp
         /\ r.out.standby = s.out.standby /\ r.out.device = s.out.device
         /\ r.out.mixer => r.out.pcm
         /\ r.hw.pcms = s.hw.pcms + One(r.out.pcm)
         /\ r.hw.mixers = s.hw.mixers + One(r.out.mixer)
         /\ r.out.mixer /\ s.hw.mode # "call" => r.hw.path = s.out.device
         /\ ~r.out.mixer \/ s.hw.mode = "call" => r.hw.path = s.hw.path
  <1> DEFINE mixer == s.hw.mixers > 0 \/ fail # "mixer"
  <1>1. s.out \in OutType /\ s.inp \in InType /\ s.hw \in HwType
    BY DEF State
  <1>2. CASE s.hw.pcms = 0 /\ fail = "pcm"
    BY <1>1, <1>2 DEF OpenOut, SameHw, One, HwType
  <1>3. CASE ~(s.hw.pcms = 0 /\ fail = "pcm")
    <2>1. r = [s EXCEPT !.hw.pcms = @ + 1, !.hw.mixers = IF mixer THEN @ + 1 ELSE @,
                    !.out.pcm = TRUE, !.out.mixer = mixer,
                    !.hw.path = IF mixer /\ s.hw.mode # "call" THEN s.out.device ELSE @]
      BY <1>3 DEF OpenOut
    <2> DEFINE h == [s.hw EXCEPT !.pcms = s.hw.pcms + 1,
                                 !.mixers = IF mixer THEN s.hw.mixers + 1 ELSE s.hw.mixers,
                                 !.path = IF mixer /\ s.hw.mode # "call" THEN s.out.device
                                          ELSE s.hw.path]
               o == [s.out EXCEPT !.pcm = TRUE, !.mixer = mixer]
    <2>2. r.hw = h /\ r.out = o /\ r.inp = s.inp /\ r = [out |-> o, inp |-> s.inp, hw |-> h]
      BY <2>1 DEF State
    <2>3. mixer \in BOOLEAN
      OBVIOUS
    <2> HIDE DEF mixer
    <2>4. o \in OutType
      BY <1>1, <2>3 DEF OutType
    <2>5. h \in HwType
      <3> DEFINE m == IF mixer THEN s.hw.mixers + 1 ELSE s.hw.mixers
                 p == IF mixer /\ s.hw.mode # "call" THEN s.out.device ELSE s.hw.path
      <3>1. m \in Nat /\ p \in Devices \cup {"earpiece"} /\ s.hw.pcms + 1 \in Nat
        BY <1>1, <2>3 DEF HwType, OutType
      <3>2. h = [s.hw EXCEPT !.pcms = s.hw.pcms + 1, !.mixers = m, !.path = p]
        OBVIOUS
      <3> HIDE DEF m, p, h
      <3> QED BY <1>1, <3>1, <3>2 DEF HwType
    <2>6. /\ h.mode = s.hw.mode /\ h.inCall = s.hw.inCall /\ h.output = s.hw.output
          /\ h.echo = s.hw.echo /\ h.source = s.hw.source /\ h.told = s.hw.told
          /\ h.untold = s.hw.untold
          /\ h.pcms = s.hw.pcms + 1
          /\ h.mixers = s.hw.mixers + One(mixer)
          /\ mixer /\ s.hw.mode # "call" => h.path = s.out.device
          /\ ~mixer \/ s.hw.mode = "call" => h.path = s.hw.path
      BY <1>1, <2>3 DEF HwType, One
    <2>7. o.standby = s.out.standby /\ o.device = s.out.device /\ o.pcm /\ o.mixer = mixer
      BY <1>1, <2>3 DEF OutType
    <2> HIDE DEF h, o
    <2>8. r \in State
      BY <1>1, <2>2, <2>4, <2>5 DEF State
    <2> QED BY <2>2, <2>6, <2>7, <2>8 DEF SameHw, One
  <1> QED BY <1>2, <1>3

LEMMA CloseOut_Facts ==
  ASSUME NEW s \in State, NEW r, r = CloseOut(s)
  PROVE  /\ r \in State /\ SameHw(r, s) /\ r.inp = s.inp
         /\ r.out.standby = s.out.standby /\ r.out.device = s.out.device
         /\ ~r.out.pcm /\ ~r.out.mixer /\ r.hw.path = s.hw.path
         /\ r.hw.pcms = IF s.out.pcm THEN Down(s.hw.pcms) ELSE s.hw.pcms
         /\ r.hw.mixers = IF s.out.mixer THEN Down(s.hw.mixers) ELSE s.hw.mixers
  <1> DEFINE p == IF s.out.pcm THEN Down(s.hw.pcms) ELSE s.hw.pcms
             m == IF s.out.mixer THEN Down(s.hw.mixers) ELSE s.hw.mixers
             h == [s.hw EXCEPT !.mixers = m, !.pcms = p]
             o == [s.out EXCEPT !.mixer = FALSE, !.pcm = FALSE]
  <1>1. s.out \in OutType /\ s.inp \in InType /\ s.hw \in HwType
    BY DEF State
  <1>2. p \in Nat /\ m \in Nat
    BY <1>1 DEF Down, HwType
  <1>3. r.hw = h /\ r.out = o /\ r.inp = s.inp /\ r = [out |-> o, inp |-> s.inp, hw |-> h]
    BY DEF State, CloseOut
  <1> HIDE DEF p, m
  <1>4. o \in OutType /\ h \in HwType
    BY <1>1, <1>2 DEF OutType, HwType
  <1>5. /\ h.mode = s.hw.mode /\ h.inCall = s.hw.inCall /\ h.output = s.hw.output
        /\ h.echo = s.hw.echo /\ h.source = s.hw.source /\ h.told = s.hw.told
        /\ h.untold = s.hw.untold
        /\ h.pcms = p /\ h.mixers = m /\ h.path = s.hw.path
    BY <1>1, <1>2 DEF HwType
  <1>6. o.standby = s.out.standby /\ o.device = s.out.device /\ ~o.pcm /\ ~o.mixer
    BY <1>1 DEF OutType
  <1> HIDE DEF h, o
  <1>7. r \in State
    BY <1>1, <1>3, <1>4 DEF State
  <1> QED BY <1>3, <1>5, <1>6, <1>7 DEF SameHw, p, m

LEMMA StandbyOut_Facts ==
  ASSUME NEW s \in State, NEW r, r = StandbyOut(s)
  PROVE  /\ r \in State /\ SameHw(r, s) /\ r.inp = s.inp
         /\ r.out.standby /\ r.out.device = s.out.device
         /\ ~r.out.pcm /\ ~r.out.mixer /\ r.hw.path = s.hw.path
         /\ r.hw.pcms = IF s.out.pcm THEN Down(s.hw.pcms) ELSE s.hw.pcms
         /\ r.hw.mixers = IF s.out.mixer THEN Down(s.hw.mixers) ELSE s.hw.mixers
  <1> DEFINE q == [s EXCEPT !.out.standby = TRUE, !.out.seen = {}]
  <1>1. s.out \in OutType /\ s.inp \in InType /\ s.hw \in HwType
    BY DEF State
  <1>2. /\ q.out.standby /\ q.out.device = s.out.device /\ q.out.pcm = s.out.pcm
        /\ q.out.mixer = s.out.mixer /\ q.inp = s.inp /\ q.hw = s.hw /\ q.out \in OutType
    BY <1>1 DEF State, OutType
  <1>3. q \in State
    BY <1>1, <1>2 DEF State
  <1>4. r = CloseOut(q)
    BY DEF StandbyOut
  <1> HIDE DEF q
  <1> QED BY <1>2, <1>3, <1>4, CloseOut_Facts DEF SameHw

LEMMA CloseIn_Facts ==
  ASSUME NEW s \in State, NEW r, r = CloseIn(s)
  PROVE  /\ r \in State /\ SameHw(r, s) /\ r.out = s.out
         /\ r.inp.standby = s.inp.standby /\ r.inp.echo = s.inp.echo
         /\ ~r.inp.pcm /\ ~r.inp.mixer /\ r.hw.path = s.hw.path /\ r.hw.pcms = s.hw.pcms
         /\ r.hw.mixers = IF s.inp.mixer THEN Down(s.hw.mixers) ELSE s.hw.mixers
  <1> DEFINE m == IF s.inp.mixer THEN Down(s.hw.mixers) ELSE s.hw.mixers
             h == [s.hw EXCEPT !.mixers = m]
             i == [s.inp EXCEPT !.mixer = FALSE, !.pcm = FALSE]
  <1>1. s.out \in OutType /\ s.inp \in InType /\ s.hw \in HwType
    BY DEF State
  <1>2. m \in Nat
    BY <1>1 DEF Down, HwType
  <1>3. r.hw = h /\ r.inp = i /\ r.out = s.out /\ r = [out |-> s.out, inp |-> i, hw |-> h]
    BY DEF State, CloseIn
  <1> HIDE DEF m
  <1>4. i \in InType /\ h \in HwType
    BY <1>1, <1>2 DEF InType, HwType
  <1>5. /\ h.mode = s.hw.mode /\ h.inCall = s.hw.inCall /\ h.output = s.hw.output
        /\ h.echo = s.hw.echo /\ h.source = s.hw.source /\ h.told = s.hw.told
        /\ h.untold = s.hw.untold
        /\ h.pcms = s.hw.pcms /\ h.mixers = m /\ h.path = s.hw.path
    BY <1>1, <1>2 DEF HwType
  <1>6. i.standby = s.inp.standby /\ i.echo = s.inp.echo /\ ~i.pcm /\ ~i.mixer
    BY <1>1 DEF InType
  <1> HIDE DEF h, i
  <1>7. r \in State
    BY <1>1, <1>3, <1>4 DEF State
  <1> QED BY <1>3, <1>5, <1>6, <1>7 DEF SameHw, m

LEMMA Stopped_Facts ==
  ASSUME NEW s \in State, NEW r, r = Stopped(s)
  PROVE  /\ r \in State /\ SameHw(r, s) /\ r.out = s.out
         /\ r.inp.standby /\ r.inp.echo = s.inp.echo
         /\ ~r.inp.pcm /\ ~r.inp.mixer /\ r.hw.path = s.hw.path /\ r.hw.pcms = s.hw.pcms
         /\ r.hw.mixers = IF s.inp.mixer THEN Down(s.hw.mixers) ELSE s.hw.mixers
  <1> DEFINE q == [s EXCEPT !.inp.standby = TRUE]
  <1>1. s.out \in OutType /\ s.inp \in InType /\ s.hw \in HwType
    BY DEF State
  <1>2. /\ q.inp.standby /\ q.inp.echo = s.inp.echo /\ q.inp.pcm = s.inp.pcm
        /\ q.inp.mixer = s.inp.mixer /\ q.out = s.out /\ q.hw = s.hw /\ q.inp \in InType
    BY <1>1 DEF State, InType
  <1>3. q \in State
    BY <1>1, <1>2 DEF State
  <1>4. r = CloseIn(q)
    BY DEF Stopped
  <1> HIDE DEF q
  <1> QED BY <1>2, <1>3, <1>4, CloseIn_Facts DEF SameHw

LEMMA OpenIn_Facts ==
  ASSUME NEW s \in State, ~s.inp.pcm, ~s.inp.mixer, NEW fail, NEW r, r = OpenIn(s, fail)
  PROVE  /\ r \in State /\ SameHw(r, s) /\ r.out = s.out
         /\ r.inp.standby = s.inp.standby /\ r.inp.echo = s.inp.echo
         /\ r.inp.mixer => r.inp.pcm
         /\ r.hw.path = s.hw.path /\ r.hw.pcms = s.hw.pcms
         /\ r.hw.mixers = s.hw.mixers + One(r.inp.mixer)
  <1>1. s.out \in OutType /\ s.inp \in InType /\ s.hw \in HwType
    BY DEF State
  <1>2. CASE fail = "pcm"
    BY <1>1, <1>2 DEF OpenIn, SameHw, One, HwType
  <1>3. CASE fail # "pcm"
    <2> DEFINE mixer == s.hw.mixers > 0 \/ fail # "mixer"
               m == IF mixer THEN s.hw.mixers + 1 ELSE s.hw.mixers
               h == [s.hw EXCEPT !.mixers = m]
               i == [s.inp EXCEPT !.pcm = TRUE, !.mixer = mixer]
    <2>1. r = [s EXCEPT !.inp.pcm = TRUE, !.inp.mixer = mixer,
                        !.hw.mixers = IF mixer THEN @ + 1 ELSE @]
      BY <1>3 DEF OpenIn
    <2>2. r.hw = h /\ r.inp = i /\ r.out = s.out /\ r = [out |-> s.out, inp |-> i, hw |-> h]
      BY <2>1 DEF State
    <2>3. mixer \in BOOLEAN
      OBVIOUS
    <2> HIDE DEF mixer
    <2>4. m \in Nat /\ m = s.hw.mixers + One(mixer)
      BY <1>1, <2>3 DEF HwType, One
    <2> HIDE DEF m
    <2>5. i \in InType /\ h \in HwType
      BY <1>1, <2>3, <2>4 DEF InType, HwType
    <2>6. /\ h.mode = s.hw.mode /\ h.inCall = s.hw.inCall /\ h.output = s.hw.output
          /\ h.echo = s.hw.echo /\ h.source = s.hw.source /\ h.told = s.hw.told
          /\ h.untold = s.hw.untold
          /\ h.pcms = s.hw.pcms /\ h.mixers = m /\ h.path = s.hw.path
      BY <1>1, <2>4 DEF HwType
    <2>7. i.standby = s.inp.standby /\ i.echo = s.inp.echo /\ i.pcm /\ i.mixer = mixer
      BY <1>1, <2>3 DEF InType
    <2> HIDE DEF h, i
    <2>8. r \in State
      BY <1>1, <2>2, <2>5 DEF State
    <2> QED BY <2>2, <2>4, <2>6, <2>7, <2>8 DEF SameHw
  <1> QED BY <1>2, <1>3

LEMMA SetSource_Facts ==
  ASSUME NEW s \in State, NEW source \in Sources, NEW r, r = SetSource(s, source)
  PROVE  /\ r \in State /\ r.out = s.out /\ r.inp = s.inp
         /\ r.hw.mode = s.hw.mode /\ r.hw.inCall = s.hw.inCall /\ r.hw.output = s.hw.output
         /\ r.hw.echo = s.hw.echo /\ r.hw.path = s.hw.path /\ r.hw.pcms = s.hw.pcms
         /\ r.hw.mixers = s.hw.mixers /\ r.hw.source = source
         /\ (s.hw.source = "default" => Heard(s.hw)) /\ source = "default" => Heard(r.hw)
         /\ s.hw.mode = "call" /\ Heard(s.hw) => Heard(r.hw)
  <1>1. s.out \in OutType /\ s.inp \in InType /\ s.hw \in HwType
    BY DEF State
  <1>2. CASE source = s.hw.source
    BY <1>1, <1>2 DEF SetSource
  <1>3. CASE source # s.hw.source
    <2> DEFINE due == (source = "default" \/ s.hw.mode # "call") /\ s.hw.mixers > 0
               told == IF due THEN source ELSE s.hw.told
               untold == IF due THEN FALSE ELSE s.hw.untold \/ source = "default"
               h == [s.hw EXCEPT !.source = source, !.told = told, !.untold = untold]
    <2>1. told \in Sources /\ untold \in BOOLEAN
      BY <1>1 DEF HwType
    <2>2. r.hw = h /\ r.out = s.out /\ r.inp = s.inp /\ r = [out |-> s.out, inp |-> s.inp, hw |-> h]
      BY <1>3 DEF SetSource, State
    <2> HIDE DEF due, told, untold
    <2>3. h \in HwType
      BY <1>1, <2>1 DEF HwType
    <2>4. /\ h.mode = s.hw.mode /\ h.inCall = s.hw.inCall /\ h.output = s.hw.output
          /\ h.echo = s.hw.echo /\ h.path = s.hw.path /\ h.pcms = s.hw.pcms
          /\ h.mixers = s.hw.mixers /\ h.source = source /\ h.told = told
          /\ h.untold = untold
      BY <1>1 DEF HwType
    <2> HIDE DEF h
    <2>5. r \in State
      BY <1>1, <2>2, <2>3 DEF State
    <2> QED BY <1>3, <2>2, <2>4, <2>5 DEF due, told, untold, Heard
  <1> QED BY <1>2, <1>3

\* doStandby_l of the input: it is closed, or left as it was for its reference.
LEMMA StandbyIn_Facts ==
  ASSUME ControlTypes, NEW t \in Threads, NEW s \in State, NEW next, StandbyIn(t, s, next)
  PROVE  \E r \in State :
           /\ Become(r) /\ SameHw(r, s) /\ r.out = s.out
           /\ r.hw.path = s.hw.path /\ r.hw.pcms = s.hw.pcms
           /\ \/ /\ SameIn(r, s) /\ s.inp.echo /\ ~s.inp.standby /\ r.hw.mixers = s.hw.mixers
                 /\ pc'[t] = "dsOut" /\ back'[t] = next /\ owner'["out"] = owner["out"]
              \/ /\ r.inp.standby /\ ~r.inp.pcm /\ ~r.inp.mixer /\ (r.inp.echo => s.inp.echo)
                 /\ r.hw.mixers = IF s.inp.mixer THEN Down(s.hw.mixers) ELSE s.hw.mixers
                 /\ pc'[t] = next /\ back' = back /\ owner' = owner
  <1> DEFINE s1 == [s EXCEPT !.inp.seen = {}]
             s2 == [s1 EXCEPT !.inp.echo = FALSE]
             echoing == ~s.inp.standby /\ s.inp.echo
             s3 == IF echoing THEN s2 ELSE s1
  <1>1. s.out \in OutType /\ s.inp \in InType /\ s.hw \in HwType
    BY DEF State
  <1>2. /\ s1 \in State /\ SameIn(s1, s) /\ s1.out = s.out /\ s1.hw = s.hw
    BY <1>1 DEF State, InType, SameIn
  <1>3. /\ s2 \in State /\ s2.out = s.out /\ s2.hw = s.hw /\ ~s2.inp.echo
        /\ s2.inp.mixer = s.inp.mixer
    BY <1>1 DEF State, InType
  <1>4. /\ s3 \in State /\ s3.out = s.out /\ s3.hw = s.hw /\ s3.inp.mixer = s.inp.mixer
        /\ s3.inp.echo => s.inp.echo
    BY <1>2, <1>3 DEF SameIn
  <1> HIDE DEF s1, s2, s3
  <1>5. CASE echoing /\ s.hw.output
    <2>1. /\ Become(s1) /\ Release(t, {"in", "hw"}) /\ Goto(t, "dsOut")
          /\ back' = [back EXCEPT ![t] = next]
      BY <1>5 DEF StandbyIn, s1
    <2>2. pc'[t] = "dsOut" /\ back'[t] = next /\ owner'["out"] = owner["out"]
      BY <2>1, GotoMoves, ReleaseMoves DEF ControlTypes
    <2> QED BY <1>2, <1>5, <2>1, <2>2 DEF SameHw
  <1>6. CASE ~(echoing /\ s.hw.output)
    <2>1. /\ Become(Stopped(s3)) /\ owner' = owner /\ back' = back /\ Goto(t, next)
      BY <1>6 DEF StandbyIn, s1, s2, s3
    <2>2. pc'[t] = next
      BY <2>1, GotoMoves
    <2> QED BY <1>4, <2>1, <2>2, Stopped_Facts DEF SameHw
  <1> QED BY <1>5, <1>6

LEMMA NowIsState ==
  ASSUME Data
  PROVE  Now \in State /\ Now.out = out /\ Now.inp = inp /\ Now.hw = hw
  BY DEF Data, DataTypes, Now, State

LEMMA BecomeTypes ==
  ASSUME Data, NEW r \in State, Become(r), goal' \in Modes, missed' \in BOOLEAN,
         callFailed' \in BOOLEAN
  PROVE  DataTypes'
  BY DEF DataTypes, Become, State

LEMMA InStandbyData ==
  ASSUME Control, Data, NEW t \in Threads, pc[t] = "inStandbyDo" \/ pc[t] = "inRouteDo",
         StandbyIn(t, Now, "inEnd"), Others
  PROVE  Data'
  <1>1. Control /\ ControlTypes /\ Program(t) /\ Holds(t) /\ Moves(t)
    BY StandbyInControl DEF Control, Labels, InPlaces
  <1>2. PICK r \in State :
           /\ Become(r) /\ SameHw(r, Now) /\ r.out = Now.out
           /\ r.hw.path = Now.hw.path /\ r.hw.pcms = Now.hw.pcms
           /\ \/ /\ SameIn(r, Now) /\ Now.inp.echo /\ ~Now.inp.standby
                 /\ r.hw.mixers = Now.hw.mixers
                 /\ pc'[t] = "dsOut" /\ back'[t] = "inEnd" /\ owner'["out"] = owner["out"]
              \/ /\ r.inp.standby /\ ~r.inp.pcm /\ ~r.inp.mixer /\ (r.inp.echo => Now.inp.echo)
                 /\ r.hw.mixers = IF Now.inp.mixer THEN Down(Now.hw.mixers) ELSE Now.hw.mixers
                 /\ pc'[t] = "inEnd" /\ back' = back /\ owner' = owner
    BY <1>1, NowIsState, StandbyIn_Facts
  <1>3. t # "playback" /\ ~WriteDone /\ ~ReopensInput /\ ~ReadDone
    BY <1>1, Alone DEF Program, HwPlaces, WritePlaces, StandbyPlaces, RoutePlaces, ReadDone
  <1>4. Stuck => Stuck'
    BY <1>1, StuckStays DEF WaitsForItself
  <1>5. /\ Writing' <=> Writing
        /\ ~WriteDone'
        /\ WriteWaits' <=> WriteWaits
        /\ ~ReopensInput'
        /\ ~ReadDone'
        /\ Reading' => Reading
    BY <1>1, <1>2, <1>3, Elsewhere DEF Writing, WriteDone, WriteWaits, ReopensInput, Reading,
       ReadDone, ReadPlaces
  <1>6. EntersCall' <=> EntersCall
    BY <1>1, <1>2, Elsewhere DEF EntersCall, AtOrBack, DsPlaces
  <1>7. LeavesCall' <=> LeavesCall
    BY <1>1, <1>2, Elsewhere DEF LeavesCall, AtOrBack, DsPlaces
  <1>8. /\ out' = out /\ hw'.pcms = hw.pcms /\ hw'.path = hw.path
        /\ hw'.mode = hw.mode /\ hw'.inCall = hw.inCall /\ hw'.echo = hw.echo
        /\ hw'.source = hw.source /\ hw'.told = hw.told /\ hw'.untold = hw.untold
        /\ missed' = missed /\ callFailed' = callFailed /\ goal' = goal
        /\ \/ /\ inp'.standby = inp.standby /\ inp'.pcm = inp.pcm /\ inp'.mixer = inp.mixer
              /\ inp'.echo = inp.echo /\ hw'.mixers = hw.mixers
           \/ /\ inp'.standby /\ ~inp'.pcm /\ ~inp'.mixer /\ (inp'.echo => inp.echo)
              /\ hw'.mixers = IF inp.mixer THEN Down(hw.mixers) ELSE hw.mixers
    BY <1>2, NowIsState DEF Become, SameHw, SameIn, Others
  <1>9. DataTypes'
    BY <1>2, <1>8, BecomeTypes DEF Data, DataTypes
  <1>10. OutShape' /\ InShape'
    BY <1>3, <1>5, <1>8 DEF Data, OutShape, InShape
  <1>11. Counts'
    BY <1>7, <1>8 DEF Data, DataTypes, HwType, Counts, InCall, One, Down
  <1>12. Alive' /\ ModeAgrees' /\ Told' /\ Routed' /\ ReferenceAlive'
    BY <1>4, <1>6, <1>7, <1>8 DEF Data, Alive, ModeAgrees, Told, Heard, Routed, ReferenceAlive
  <1> QED BY <1>9, <1>10, <1>11, <1>12 DEF Data

LEMMA StandbyInEndsData ==
  ASSUME Control, Data, NEW t \in Threads, StandbyInEnds(t)
  PROVE  Data'
  <1>1. Control /\ ControlTypes /\ Program(t) /\ Holds(t) /\ Moves(t)
    BY InputControl DEF Control
  <1> DEFINE echo == IF inp.echo THEN FALSE ELSE hw.echo
             h == [hw EXCEPT !.echo = echo]
             s == [Now EXCEPT !.hw.echo = IF inp.echo THEN FALSE ELSE @, !.inp.echo = FALSE]
  <1>2. inp \in InType /\ out \in OutType /\ hw \in HwType
    BY DEF Data, DataTypes
  <1>3. echo \in BOOLEAN
    BY <1>2 DEF HwType
  <1>4. s.hw = h /\ s.out = out /\ s.inp = [inp EXCEPT !.echo = FALSE]
        /\ s = [out |-> out, inp |-> [inp EXCEPT !.echo = FALSE], hw |-> h]
    <2>1. /\ s = [[Now EXCEPT !.hw = [@ EXCEPT !.echo = echo]] EXCEPT
                     !.inp = [@ EXCEPT !.echo = FALSE]]
      BY DEF Now
    <2> HIDE DEF echo, s
    <2> QED BY <2>1 DEF Now
  <1>5. /\ h \in HwType /\ h.pcms = hw.pcms /\ h.path = hw.path /\ h.mode = hw.mode
        /\ h.inCall = hw.inCall /\ h.source = hw.source /\ h.told = hw.told
        /\ h.untold = hw.untold
        /\ h.mixers = hw.mixers
    BY <1>2, <1>3 DEF HwType
  <1>6. /\ s \in State /\ ~s.inp.echo /\ s.inp.mixer = inp.mixer
    BY <1>2, <1>4, <1>5 DEF State, InType
  <1> HIDE DEF s, h
  <1>7. PICK r \in State :
           /\ Become(r) /\ SameHw(r, s) /\ r.out = out /\ r.inp.standby /\ ~r.inp.echo
           /\ ~r.inp.pcm /\ ~r.inp.mixer /\ r.hw.path = s.hw.path /\ r.hw.pcms = s.hw.pcms
           /\ r.hw.mixers = IF s.inp.mixer THEN Down(s.hw.mixers) ELSE s.hw.mixers
    <2>1. Become(Stopped(s))
      BY DEF StandbyInEnds, s
    <2> QED BY <1>4, <1>6, <2>1, Stopped_Facts
  <1>8. pc[t] = "dsEnd" /\ back' = back /\ pc'[t] = back[t] /\ Others
    BY <1>1, GotoMoves DEF StandbyInEnds
  <1>9. t # "playback" /\ ~WriteDone /\ ~ReopensInput /\ ~ReadDone
    BY <1>1, <1>8, Alone DEF Program, HwPlaces, WritePlaces, StandbyPlaces, RoutePlaces, ReadDone
  <1>10. Stuck => Stuck'
    BY <1>1, <1>8, StuckStays DEF WaitsForItself
  <1>11. /\ Writing' <=> Writing
         /\ ~WriteDone'
         /\ WriteWaits' <=> WriteWaits
         /\ ~ReopensInput'
         /\ ~ReadDone'
         /\ Reading' => Reading
    BY <1>1, <1>8, <1>9, Elsewhere DEF Writing, WriteDone, WriteWaits, ReopensInput, Reading,
       ReadDone, ReadPlaces, Program, DsPlaces
  <1>12. EntersCall' <=> EntersCall
    BY <1>1, <1>8, Elsewhere DEF EntersCall, AtOrBack, DsPlaces, Program
  <1>13. LeavesCall' <=> LeavesCall
    BY <1>1, <1>8, Elsewhere DEF LeavesCall, AtOrBack, DsPlaces, Program
  <1>14. /\ out' = out /\ hw'.pcms = hw.pcms /\ hw'.path = hw.path
         /\ hw'.mode = hw.mode /\ hw'.inCall = hw.inCall
         /\ hw'.source = hw.source /\ hw'.told = hw.told /\ hw'.untold = hw.untold
         /\ missed' = missed /\ callFailed' = callFailed /\ goal' = goal
         /\ inp'.standby /\ ~inp'.pcm /\ ~inp'.mixer /\ ~inp'.echo
         /\ hw'.mixers = IF inp.mixer THEN Down(hw.mixers) ELSE hw.mixers
    BY <1>4, <1>5, <1>6, <1>7, <1>8 DEF Become, SameHw, Others
  <1>15. DataTypes'
    BY <1>7, <1>14, BecomeTypes DEF Data, DataTypes
  <1>16. OutShape' /\ InShape'
    BY <1>9, <1>11, <1>14 DEF Data, OutShape, InShape
  <1>17. Counts'
    BY <1>13, <1>14 DEF Data, DataTypes, HwType, Counts, InCall, One, Down
  <1>18. Alive' /\ ModeAgrees' /\ Told' /\ Routed' /\ ReferenceAlive'
    BY <1>10, <1>12, <1>13, <1>14 DEF Data, Alive, ModeAgrees, Told, Heard, Routed, ReferenceAlive
  <1> QED BY <1>15, <1>16, <1>17, <1>18 DEF Data

\* The write is done: the output leaves standby if it was opened.
LEMMA WriteEndsData ==
  ASSUME Control, Data, NEW t \in Threads, WriteEnds(t)
  PROVE  Data'
  <1>1. Control /\ ControlTypes /\ Program(t) /\ Holds(t) /\ Moves(t)
    BY OutputControl DEF Control
  <1>2. pc[t] = "writeEnd" /\ back' = back /\ (pc'[t] = "idle" \/ pc'[t] = "standby") /\ Others
        /\ hw' = hw /\ inp' = inp /\ t = "playback"
    BY <1>1, GotoMoves DEF WriteEnds, Program, DsPlaces, ReadPlaces, InPlaces, SetPlaces,
       StandbyPlaces, ModePlaces
  <1>3. ~ReadDone /\ WriteDone
    BY <1>1, <1>2, Alone DEF HwPlaces, WriteDone
  <1>4. Stuck => Stuck'
    BY <1>1, <1>2, StuckStays DEF WaitsForItself
  <1>5. /\ ~Writing' /\ ~WriteDone' /\ ~WriteWaits' /\ ~ReopensInput'
        /\ ReadDone' <=> ReadDone
        /\ Reading' <=> Reading
        /\ EntersCall' <=> EntersCall
        /\ LeavesCall' <=> LeavesCall
    BY <1>1, <1>2, Elsewhere DEF Writing, WriteDone, WriteWaits, ReopensInput, Reading,
       ReadDone, WritePlaces, EntersCall, LeavesCall, AtOrBack
  <1>6. /\ out' \in OutType /\ out'.pcm = out.pcm /\ out'.mixer = out.mixer
        /\ out'.device = out.device /\ out'.standby = (out.standby /\ ~out.pcm)
        /\ missed' = missed /\ callFailed' = callFailed /\ goal' = goal
    BY DEF WriteEnds, Data, DataTypes, OutType, Others
  <1>7. DataTypes'
    BY <1>2, <1>6 DEF Data, DataTypes
  <1>8. OutShape' /\ InShape'
    BY <1>2, <1>3, <1>5, <1>6 DEF Data, OutShape, InShape
  <1>9. Counts'
    BY <1>2, <1>5, <1>6 DEF Data, Counts, InCall, One
  <1>10. Alive' /\ ModeAgrees' /\ Told' /\ Routed' /\ ReferenceAlive'
    BY <1>2, <1>4, <1>5, <1>6 DEF Data, Alive, ModeAgrees, Told, Heard, Routed, ReferenceAlive
  <1> QED BY <1>7, <1>8, <1>9, <1>10 DEF Data

LEMMA ReadEndsData ==
  ASSUME Control, Data, NEW t \in Threads, ReadEnds(t)
  PROVE  Data'
  <1>1. Control /\ ControlTypes /\ Program(t) /\ Holds(t) /\ Moves(t)
    BY InputControl DEF Control
  <1>2. pc[t] = "readEnd" /\ back' = back /\ (pc'[t] = "idle" \/ pc'[t] = "inStandby") /\ Others
        /\ hw' = hw /\ out' = out /\ t = "record"
    BY <1>1, GotoMoves DEF ReadEnds, Program, DsPlaces, WritePlaces, RoutePlaces, InPlaces,
       StandbyPlaces, ModePlaces
  <1>3. ~WriteDone /\ ~ReopensInput /\ ReadDone
    BY <1>1, <1>2, Alone DEF HwPlaces, ReadDone
  <1>4. Stuck => Stuck'
    BY <1>1, <1>2, StuckStays DEF WaitsForItself
  <1>5. /\ Writing' <=> Writing
        /\ ~WriteDone'
        /\ WriteWaits' <=> WriteWaits
        /\ ~ReopensInput' /\ ~ReadDone' /\ ~Reading'
        /\ EntersCall' <=> EntersCall
        /\ LeavesCall' <=> LeavesCall
    BY <1>1, <1>2, <1>3, Elsewhere DEF Writing, WriteDone, WriteWaits, ReopensInput, Reading,
       ReadDone, ReadPlaces, EntersCall, LeavesCall, AtOrBack
  <1>6. /\ inp' \in InType /\ inp'.pcm = inp.pcm /\ inp'.mixer = inp.mixer
        /\ inp'.echo = inp.echo /\ inp'.standby = (inp.standby /\ ~inp.pcm)
        /\ missed' = missed /\ callFailed' = callFailed /\ goal' = goal
    BY DEF ReadEnds, Data, DataTypes, InType, Others
  <1>7. DataTypes'
    BY <1>2, <1>6 DEF Data, DataTypes
  <1>8. OutShape' /\ InShape'
    BY <1>2, <1>3, <1>5, <1>6 DEF Data, OutShape, InShape
  <1>9. Counts'
    BY <1>2, <1>5, <1>6 DEF Data, Counts, InCall, One
  <1>10. Alive' /\ ModeAgrees' /\ Told' /\ Routed' /\ ReferenceAlive'
    BY <1>2, <1>4, <1>5, <1>6 DEF Data, Alive, ModeAgrees, Told, Heard, Routed, ReferenceAlive
  <1> QED BY <1>7, <1>8, <1>9, <1>10 DEF Data

\* standby and setParameters of the output: it is closed, or its device changed in a call.
LEMMA OutputEndsData ==
  ASSUME Control, Data, NEW t \in Threads, StandbyDone(t) \/ Route(t)
  PROVE  Data'
  <1>1. Control /\ ControlTypes /\ Program(t) /\ Holds(t) /\ Moves(t)
    BY OutputControl DEF Control
  <1>2. /\ pc[t] = "standbyEnd" \/ pc[t] = "routeEnd"
        /\ back' = back /\ pc'[t] = "idle" /\ Others /\ t # "record"
    BY <1>1, GotoMoves DEF StandbyDone, Route, Program, DsPlaces, ReadPlaces, InPlaces, SetPlaces
  <1>3. /\ ~Writing /\ ~WriteDone /\ ~WriteWaits /\ ~ReopensInput /\ ~ReadDone
        /\ ~LeavesCall \/ t = "playback" \/ pc["client"] \in DsPlaces
    <2>1. t # "playback" => owner["out"] = t
      BY <1>1, <1>2 DEF Holds, OutMust
    <2>2. pc[t] \in HwPlaces
      BY <1>2 DEF HwPlaces
    <2>3. t = "playback" => ~Writing /\ ~WriteDone /\ ~WriteWaits /\ ~ReopensInput
      BY <1>2 DEF Writing, WriteDone, WriteWaits, ReopensInput, WritePlaces
    <2> QED BY <1>1, <1>2, <2>1, <2>2, <2>3, Alone DEF LeavesCall, AtOrBack, DsPlaces
  <1>4. Stuck => Stuck'
    BY <1>1, <1>2, StuckStays DEF WaitsForItself
  <1>5. /\ ~Writing' /\ ~WriteDone' /\ ~WriteWaits' /\ ~ReopensInput'
        /\ ~ReadDone'
        /\ Reading' <=> Reading
    BY <1>1, <1>2, <1>3, Elsewhere DEF Writing, WriteDone, WriteWaits, ReopensInput, Reading,
       ReadDone, WritePlaces
  <1>6. (EntersCall' <=> EntersCall) /\ (LeavesCall' <=> LeavesCall)
    BY <1>1, <1>2, Elsewhere DEF EntersCall, LeavesCall, AtOrBack, DsPlaces
  <1>7. PICK d \in Devices \cup {"earpiece"}, s \in State, r \in State :
          /\ Become(r) /\ s.inp = inp /\ s.hw = hw /\ s.out.device = d
          /\ s.out.standby = out.standby /\ s.out.pcm = out.pcm /\ s.out.mixer = out.mixer
          /\ r = StandbyOut(s) \/ (r = s /\ (d = out.device \/ hw.mode = "call"))
    <2>1. out \in OutType /\ inp \in InType /\ hw \in HwType /\ Now \in State
      BY NowIsState DEF Data, DataTypes
    <2>2. CASE StandbyDone(t)
      <3>1. Become(StandbyOut(Now)) /\ StandbyOut(Now) \in State
        BY <2>1, <2>2, StandbyOut_Facts DEF StandbyDone
      <3>2. out.device \in Devices \cup {"earpiece"}
        BY <2>1 DEF OutType
      <3> QED BY <2>1, <3>1, <3>2, NowIsState
    <2>3. CASE Route(t)
      <3>1. PICK d \in Devices \cup {"earpiece"} :
              Become(IF d # out.device /\ hw.mode # "call"
                     THEN StandbyOut([Now EXCEPT !.out.device = d])
                     ELSE [Now EXCEPT !.out.device = d])
        BY <2>3 DEF Route
      <3> DEFINE s == [Now EXCEPT !.out.device = d]
      <3>2. /\ s = [out |-> [out EXCEPT !.device = d], inp |-> inp, hw |-> hw]
            /\ [out EXCEPT !.device = d] \in OutType
        BY <2>1 DEF Now, OutType
      <3>3. /\ s \in State /\ s.inp = inp /\ s.hw = hw /\ s.out.device = d
            /\ s.out.standby = out.standby /\ s.out.pcm = out.pcm /\ s.out.mixer = out.mixer
        BY <2>1, <3>2 DEF State, OutType
      <3>4. Become(IF d # out.device /\ hw.mode # "call" THEN StandbyOut(s) ELSE s)
        BY <3>1
      <3> HIDE DEF s
      <3>5. StandbyOut(s) \in State
        BY <3>3, StandbyOut_Facts
      <3> QED BY <3>3, <3>4, <3>5
    <2> QED BY <2>2, <2>3
  <1>8. /\ inp' = inp /\ SameHw(r, s)
        /\ missed' = missed /\ callFailed' = callFailed /\ goal' = goal
        /\ \/ /\ out'.standby /\ ~out'.pcm /\ ~out'.mixer
              /\ hw'.pcms = IF out.pcm THEN Down(hw.pcms) ELSE hw.pcms
              /\ hw'.mixers = IF out.mixer THEN Down(hw.mixers) ELSE hw.mixers
           \/ /\ out'.standby = out.standby /\ out'.pcm = out.pcm /\ out'.mixer = out.mixer
              /\ hw' = hw /\ (out'.device = out.device \/ hw.mode = "call")
    BY <1>2, <1>7, StandbyOut_Facts DEF Become, SameHw, Others
  <1>9. /\ hw'.mode = hw.mode /\ hw'.inCall = hw.inCall /\ hw'.echo = hw.echo
        /\ hw'.source = hw.source /\ hw'.told = hw.told
        /\ hw'.untold = hw.untold /\ hw'.path = hw.path
    BY <1>7, StandbyOut_Facts DEF Become, SameHw
  <1>10. DataTypes'
    BY <1>7, <1>8, BecomeTypes DEF Data, DataTypes
  <1>11. OutShape' /\ InShape'
    BY <1>3, <1>5, <1>8 DEF Data, OutShape, InShape
  <1>12. Counts'
    BY <1>6, <1>8, <1>9 DEF Data, DataTypes, HwType, Counts, InCall, One, Down
  <1>13. Alive' /\ ModeAgrees' /\ Told' /\ Routed' /\ ReferenceAlive'
    BY <1>4, <1>6, <1>8, <1>9 DEF Data, Alive, ModeAgrees, Told, Heard, Routed, ReferenceAlive
  <1> QED BY <1>10, <1>11, <1>12, <1>13 DEF Data

LEMMA SourceData ==
  ASSUME Control, Data, NEW t \in Threads, Source(t)
  PROVE  Data'
  <1>1. Control /\ ControlTypes /\ Program(t) /\ Holds(t) /\ Moves(t)
    BY InputControl DEF Control
  <1>2. pc[t] = "sourceDo" /\ back' = back /\ pc'[t] = "idle" /\ Others /\ t = "record"
    BY <1>1, GotoMoves DEF Source, Program, DsPlaces, WritePlaces, RoutePlaces, InPlaces,
       StandbyPlaces, ModePlaces
  <1>3. Stuck => Stuck'
    BY <1>1, <1>2, StuckStays DEF WaitsForItself
  <1>4. Still
    BY <1>1, <1>2, <1>3, Elsewhere DEF Still, Writing, WriteDone, WriteWaits, ReopensInput,
       Reading, ReadDone, ReadPlaces, EntersCall, LeavesCall, AtOrBack
  <1> DEFINE M(fail) == hw.mixers > 0 \/ fail # "mixer"
             S(fail) == [Now EXCEPT !.hw.mixers = IF M(fail) THEN @ + 1 ELSE @]
  <1>5. PICK source \in Sources, fail \in Fails :
          Become([SetSource(S(fail), source) EXCEPT !.hw.mixers = Down(@)])
    BY DEF Source
  <1> DEFINE m == hw.mixers + One(M(fail))
             s == S(fail)
             r == SetSource(s, source)
  <1>6. out \in OutType /\ inp \in InType /\ hw \in HwType /\ Now \in State
    BY NowIsState DEF Data, DataTypes
  <1>7. /\ s = [out |-> out, inp |-> inp, hw |-> [hw EXCEPT !.mixers = m]]
        /\ m \in Nat /\ Down(m) = hw.mixers
    BY <1>6 DEF Now, HwType, One, Down
  <1> HIDE DEF m, M
  <1>8. /\ s \in State /\ s.out = out /\ s.inp = inp /\ s.hw.mixers = m
        /\ s.hw.mode = hw.mode /\ s.hw.inCall = hw.inCall /\ s.hw.output = hw.output
        /\ s.hw.echo = hw.echo /\ s.hw.path = hw.path /\ s.hw.pcms = hw.pcms
        /\ s.hw.source = hw.source /\ s.hw.told = hw.told /\ s.hw.untold = hw.untold
    BY <1>6, <1>7 DEF State, HwType
  <1> HIDE DEF s, S
  <1>9. /\ r \in State /\ r.out = out /\ r.inp = inp
        /\ r.hw.mode = hw.mode /\ r.hw.inCall = hw.inCall /\ r.hw.output = hw.output
        /\ r.hw.echo = hw.echo /\ r.hw.path = hw.path /\ r.hw.pcms = hw.pcms
        /\ r.hw.mixers = m /\ r.hw.source = source
        /\ (hw.source = "default" => Heard(hw)) /\ source = "default" => Heard(r.hw)
        /\ hw.mode = "call" /\ Heard(hw) => Heard(r.hw)
    <2>1. Heard(s.hw) <=> Heard(hw)
      BY <1>8 DEF Heard
    <2> QED BY <1>8, <2>1, SetSource_Facts
  <1>10. Become([r EXCEPT !.hw.mixers = Down(@)])
    BY <1>5 DEF s
  <1> HIDE DEF r
  <1>11. /\ out' = out /\ inp' = inp /\ hw' = [r.hw EXCEPT !.mixers = hw.mixers]
         /\ r.hw \in HwType
    BY <1>6, <1>7, <1>9, <1>10 DEF Become, State
  <1>12. /\ hw' \in HwType
         /\ hw'.mode = hw.mode /\ hw'.inCall = hw.inCall
         /\ hw'.echo = hw.echo /\ hw'.path = hw.path /\ hw'.pcms = hw.pcms
         /\ hw'.mixers = hw.mixers /\ hw'.source = source
         /\ (hw.source = "default" => Heard(hw)) /\ source = "default" => Heard(hw)'
         /\ hw.mode = "call" /\ Heard(hw) => Heard(hw)'
         /\ missed' = missed /\ callFailed' = callFailed /\ goal' = goal
    BY <1>2, <1>6, <1>9, <1>11 DEF HwType, Others, Heard
  <1>13. DataTypes'
    BY <1>11, <1>12 DEF Data, DataTypes
  <1>14. OutShape' /\ InShape'
    BY <1>4, <1>11 DEF Data, Still, OutShape, InShape
  <1>15. Counts'
    BY <1>4, <1>11, <1>12 DEF Data, Still, Counts, InCall, One
  <1>16. Alive' /\ ModeAgrees' /\ Told' /\ Routed' /\ ReferenceAlive'
    BY <1>4, <1>11, <1>12 DEF Data, Still, Alive, ModeAgrees, Told, Heard, Routed, ReferenceAlive
  <1> QED BY <1>13, <1>14, <1>15, <1>16 DEF Data

\* The output closed and opened again, and put into standby if that failed.
LEMMA Reopened_Facts ==
  ASSUME NEW s \in State, s.out.pcm, ~s.out.standby, NEW fail, NEW s1, s1 = OpenOut(CloseOut(s), fail),
         NEW r, r = IF s1.out.pcm THEN s1 ELSE StandbyOut(s1)
  PROVE  /\ r \in State /\ SameHw(r, s) /\ r.inp = s.inp /\ r.out.device = s.out.device
         /\ r.out.mixer => r.out.pcm
         /\ r.out.standby <=> ~r.out.pcm
         /\ r.hw.pcms = Down(s.hw.pcms) + One(r.out.pcm)
         /\ r.hw.mixers = (IF s.out.mixer THEN Down(s.hw.mixers) ELSE s.hw.mixers) + One(r.out.mixer)
         /\ r.out.mixer /\ s.hw.mode # "call" => r.hw.path = s.out.device
  <1> DEFINE s0 == CloseOut(s)
  <1>1. /\ s0 \in State /\ SameHw(s0, s) /\ s0.inp = s.inp
        /\ s0.out.standby = s.out.standby /\ s0.out.device = s.out.device
        /\ ~s0.out.pcm /\ ~s0.out.mixer /\ s0.hw.path = s.hw.path
        /\ s0.hw.pcms = Down(s.hw.pcms)
        /\ s0.hw.mixers = IF s.out.mixer THEN Down(s.hw.mixers) ELSE s.hw.mixers
    BY CloseOut_Facts
  <1>2. s1 = OpenOut(s0, fail)
    OBVIOUS
  <1> HIDE DEF s0
  <1>3. /\ s1 \in State /\ SameHw(s1, s0) /\ s1.inp = s0.inp
        /\ s1.out.standby = s0.out.standby /\ s1.out.device = s0.out.device
        /\ s1.out.mixer => s1.out.pcm
        /\ s1.hw.pcms = s0.hw.pcms + One(s1.out.pcm)
        /\ s1.hw.mixers = s0.hw.mixers + One(s1.out.mixer)
        /\ s1.out.mixer /\ s0.hw.mode # "call" => s1.hw.path = s0.out.device
    BY <1>1, <1>2, OpenOut_Facts
  <1>4. CASE s1.out.pcm
    BY <1>1, <1>3, <1>4 DEF SameHw
  <1>5. CASE ~s1.out.pcm
    <2>1. r = StandbyOut(s1) /\ ~s1.out.mixer
      BY <1>3, <1>5
    <2>2. /\ r \in State /\ SameHw(r, s1) /\ r.inp = s1.inp
          /\ r.out.standby /\ r.out.device = s1.out.device
          /\ ~r.out.pcm /\ ~r.out.mixer
          /\ r.hw.pcms = s1.hw.pcms /\ r.hw.mixers = s1.hw.mixers
      BY <1>3, <1>5, <2>1, StandbyOut_Facts
    <2> QED BY <1>1, <1>3, <1>5, <2>1, <2>2 DEF SameHw, One
  <1> QED BY <1>4, <1>5

\* The reference is taken.
LEMMA Reference_Facts ==
  ASSUME NEW s \in State, NEW r, r = [s EXCEPT !.inp.echo = TRUE, !.hw.echo = TRUE]
  PROVE  /\ r \in State /\ r.out = s.out /\ r.inp.standby = s.inp.standby
         /\ r.inp.pcm = s.inp.pcm /\ r.inp.mixer = s.inp.mixer /\ r.inp.echo /\ r.hw.echo
         /\ r.hw.mode = s.hw.mode /\ r.hw.inCall = s.hw.inCall
         /\ r.hw.source = s.hw.source /\ r.hw.told = s.hw.told /\ r.hw.untold = s.hw.untold
         /\ r.hw.pcms = s.hw.pcms /\ r.hw.mixers = s.hw.mixers /\ r.hw.path = s.hw.path
  <1> DEFINE i == [s.inp EXCEPT !.echo = TRUE]
             h == [s.hw EXCEPT !.echo = TRUE]
  <1>1. s.out \in OutType /\ s.inp \in InType /\ s.hw \in HwType
    BY DEF State
  <1>2. r.hw = h /\ r.inp = i /\ r.out = s.out /\ r = [out |-> s.out, inp |-> i, hw |-> h]
    BY DEF State
  <1>3. i \in InType /\ h \in HwType
    BY <1>1 DEF InType, HwType
  <1>4. i.standby = s.inp.standby /\ i.pcm = s.inp.pcm /\ i.mixer = s.inp.mixer /\ i.echo
    BY <1>1 DEF InType
  <1>5. /\ h.echo /\ h.mode = s.hw.mode /\ h.inCall = s.hw.inCall
        /\ h.source = s.hw.source /\ h.told = s.hw.told /\ h.untold = s.hw.untold
        /\ h.pcms = s.hw.pcms /\ h.mixers = s.hw.mixers /\ h.path = s.hw.path
    BY <1>1 DEF HwType
  <1> HIDE DEF i, h
  <1> QED BY <1>1, <1>2, <1>3, <1>4, <1>5 DEF State

LEMMA ReadOpensData ==
  ASSUME Control, Data, NEW t \in Threads, ReadOpens(t)
  PROVE  Data'
  <1>1. Control /\ ControlTypes /\ Program(t) /\ Holds(t) /\ Moves(t)
    BY InputControl DEF Control
  <1>2. pc[t] = "readOpen" /\ back' = back /\ pc'[t] = "readEnd" /\ Others /\ t = "record"
    BY <1>1, GotoMoves DEF ReadOpens, Program, DsPlaces, WritePlaces, RoutePlaces, InPlaces,
       StandbyPlaces, ModePlaces
  <1>3. /\ ~WriteDone /\ ~ReopensInput /\ ~ReadDone /\ Reading
        /\ owner["out"] = t => ~Writing /\ ~WriteWaits
    BY <1>1, <1>2, Alone DEF HwPlaces, ReadDone, Reading, ReadPlaces
  <1>4. Stuck => Stuck'
    BY <1>1, <1>2, StuckStays DEF WaitsForItself
  <1>5. /\ Writing' <=> Writing
        /\ ~WriteDone'
        /\ WriteWaits' <=> WriteWaits
        /\ ~ReopensInput' /\ ReadDone' /\ ~Reading'
        /\ EntersCall' <=> EntersCall
        /\ LeavesCall' <=> LeavesCall
    BY <1>1, <1>2, <1>3, Elsewhere DEF Writing, WriteDone, WriteWaits, ReopensInput, Reading,
       ReadDone, ReadPlaces, EntersCall, LeavesCall, AtOrBack
  <1> DEFINE Reopened(fail) == LET s1 == OpenOut(CloseOut(Now), fail)
                               IN IF s1.out.pcm THEN s1 ELSE StandbyOut(s1)
             S2(fail) == IF owner["out"] # t \/ out.standby THEN Now ELSE Reopened(fail)
             S3(s) == IF owner["out"] = t /\ inp.need /\ ~inp.echo
                      THEN [s EXCEPT !.inp.echo = TRUE, !.hw.echo = TRUE] ELSE s
  <1>6. PICK failOut, failIn : Become(OpenIn(S3(S2(failOut)), failIn))
    BY DEF ReadOpens
  <1>7. out \in OutType /\ inp \in InType /\ hw \in HwType /\ Now \in State
    BY NowIsState DEF Data, DataTypes
  <1>8. PICK s2 \in State :
          /\ Become(OpenIn(S3(s2), failIn)) /\ SameHw(s2, Now) /\ s2.inp = inp
          /\ s2.out.device = out.device
          /\ \/ s2.out = out /\ s2.hw = hw
             \/ /\ out.pcm /\ ~Writing /\ ~WriteWaits
                /\ s2.out.mixer => s2.out.pcm
                /\ s2.out.standby <=> ~s2.out.pcm
                /\ s2.hw.pcms = Down(hw.pcms) + One(s2.out.pcm)
                /\ s2.hw.mixers = (IF out.mixer THEN Down(hw.mixers) ELSE hw.mixers)
                                    + One(s2.out.mixer)
                /\ s2.out.mixer /\ hw.mode # "call" => s2.hw.path = out.device
    <2>1. CASE owner["out"] # t \/ out.standby
      <3>1. S2(failOut) = Now
        BY <2>1
      <3> HIDE DEF S2, S3
      <3> QED BY <1>6, <1>7, <3>1, NowIsState DEF SameHw
    <2>2. CASE ~(owner["out"] # t \/ out.standby)
      <3>1. out.pcm /\ ~Writing /\ ~WriteWaits
        BY <1>3, <2>2 DEF Data, OutShape
      <3>2. S2(failOut) = Reopened(failOut)
        BY <2>2
      <3>3. /\ Reopened(failOut) \in State /\ SameHw(Reopened(failOut), Now)
            /\ Reopened(failOut).inp = inp
            /\ Reopened(failOut).out.device = out.device
            /\ Reopened(failOut).out.mixer => Reopened(failOut).out.pcm
            /\ Reopened(failOut).out.standby <=> ~Reopened(failOut).out.pcm
            /\ Reopened(failOut).hw.pcms = Down(hw.pcms) + One(Reopened(failOut).out.pcm)
            /\ Reopened(failOut).hw.mixers = (IF out.mixer THEN Down(hw.mixers) ELSE hw.mixers)
                                               + One(Reopened(failOut).out.mixer)
            /\ Reopened(failOut).out.mixer /\ hw.mode # "call"
                 => Reopened(failOut).hw.path = out.device
        BY <1>7, <2>2, <3>1, NowIsState, Reopened_Facts
      <3> HIDE DEF S2, S3, Reopened
      <3> QED BY <1>6, <3>1, <3>2, <3>3
    <2> QED BY <2>1, <2>2
  <1> HIDE DEF Reopened, S2
  <1>9. PICK s \in State : /\ s.out = s2.out /\ s.inp.standby = inp.standby
                           /\ s.inp.pcm = inp.pcm /\ s.inp.mixer = inp.mixer
                           /\ (s.inp.echo => s.hw.echo) \/ (s.inp.echo = inp.echo /\ s.hw.echo = hw.echo)
                           /\ s.hw.mode = hw.mode /\ s.hw.inCall = hw.inCall
                           /\ s.hw.source = hw.source /\ s.hw.told = hw.told
                           /\ s.hw.untold = hw.untold
                           /\ s.hw.pcms = s2.hw.pcms /\ s.hw.mixers = s2.hw.mixers
                           /\ s.hw.path = s2.hw.path
                           /\ Become(OpenIn(s, failIn))
    <2>2. CASE owner["out"] = t /\ inp.need /\ ~inp.echo
      <3> DEFINE s3 == [s2 EXCEPT !.inp.echo = TRUE, !.hw.echo = TRUE]
      <3>1. S3(s2) = s3
        BY <2>2
      <3>2. /\ s3 \in State /\ s3.out = s2.out /\ s3.inp.standby = s2.inp.standby
            /\ s3.inp.pcm = s2.inp.pcm /\ s3.inp.mixer = s2.inp.mixer /\ s3.inp.echo /\ s3.hw.echo
            /\ s3.hw.mode = s2.hw.mode /\ s3.hw.inCall = s2.hw.inCall
            /\ s3.hw.source = s2.hw.source /\ s3.hw.told = s2.hw.told
            /\ s3.hw.untold = s2.hw.untold
            /\ s3.hw.pcms = s2.hw.pcms /\ s3.hw.mixers = s2.hw.mixers /\ s3.hw.path = s2.hw.path
        BY <1>8, Reference_Facts
      <3> HIDE DEF s3, S3
      <3> QED BY <1>8, <3>1, <3>2, NowIsState DEF SameHw
    <2>3. CASE ~(owner["out"] = t /\ inp.need /\ ~inp.echo)
      <3>1. S3(s2) = s2
        BY <2>3
      <3> HIDE DEF S3
      <3> QED BY <1>8, <3>1, NowIsState DEF SameHw
    <2> QED BY <2>2, <2>3
  <1>10. inp.standby /\ ~inp.pcm /\ ~inp.mixer
    BY <1>3 DEF Data, InShape
  <1>11. PICK r \in State :
         /\ Become(r) /\ SameHw(r, s) /\ r.out = s.out
         /\ r.inp.standby = s.inp.standby /\ r.inp.echo = s.inp.echo
         /\ r.inp.mixer => r.inp.pcm
         /\ r.hw.path = s.hw.path /\ r.hw.pcms = s.hw.pcms
         /\ r.hw.mixers = s.hw.mixers + One(r.inp.mixer)
    BY <1>9, <1>10, OpenIn_Facts
  <1>12. /\ hw'.mode = hw.mode /\ hw'.inCall = hw.inCall /\ hw'.source = hw.source
         /\ hw'.told = hw.told
         /\ hw'.untold = hw.untold /\ missed' = missed /\ callFailed' = callFailed /\ goal' = goal
         /\ inp'.standby /\ (inp'.mixer => inp'.pcm)
         /\ out'.device = out.device
         /\ (inp'.echo => hw'.echo) \/ (inp'.echo = inp.echo /\ hw'.echo = hw.echo)
    BY <1>2, <1>8, <1>9, <1>10, <1>11, NowIsState DEF Become, SameHw, Others
  <1>13. \/ /\ out' = out /\ hw'.pcms = hw.pcms /\ hw'.mixers = hw.mixers + One(inp'.mixer)
            /\ hw'.path = hw.path
         \/ /\ out.pcm /\ ~Writing /\ ~WriteWaits
            /\ out'.mixer => out'.pcm
            /\ out'.standby <=> ~out'.pcm
            /\ hw'.pcms = Down(hw.pcms) + One(out'.pcm)
            /\ hw'.mixers = (IF out.mixer THEN Down(hw.mixers) ELSE hw.mixers)
                                         + One(out'.mixer) + One(inp'.mixer)
            /\ out'.mixer /\ hw.mode # "call" => hw'.path = out.device
    BY <1>8, <1>9, <1>11 DEF Become
  <1>14. DataTypes'
    BY <1>11, <1>12, BecomeTypes DEF Data, DataTypes
  <1>15. OutShape' /\ InShape'
    BY <1>3, <1>5, <1>12, <1>13 DEF Data, OutShape, InShape
  <1>16. Counts'
    BY <1>5, <1>7, <1>10, <1>12, <1>13 DEF Data, HwType, Counts, InCall, One, Down
  <1>17. Alive'
    BY <1>4, <1>7, <1>12, <1>13 DEF Data, Alive, One, Down, HwType
  <1>18. ModeAgrees' /\ Told' /\ Routed' /\ ReferenceAlive'
    BY <1>4, <1>5, <1>12, <1>13 DEF Data, ModeAgrees, Told, Heard, Routed, ReferenceAlive
  <1> QED BY <1>14, <1>15, <1>16, <1>17, <1>18 DEF Data

\* The output is opened, and an input that was locked closed before and opened after it.
LEMMA Opened_Facts ==
  ASSUME NEW s \in State, ~s.out.pcm, ~s.out.mixer, s.out.standby, NEW failOut, NEW failIn,
         NEW r, r = OpenIn(OpenOut(CloseIn(s), failOut), failIn)
  PROVE  /\ r \in State /\ SameHw(r, s)
         /\ r.out.standby /\ r.out.device = s.out.device
         /\ r.out.mixer => r.out.pcm
         /\ r.inp.standby = s.inp.standby /\ r.inp.echo = s.inp.echo
         /\ r.inp.mixer => r.inp.pcm
         /\ r.hw.pcms = s.hw.pcms + One(r.out.pcm)
         /\ r.hw.mixers = (IF s.inp.mixer THEN Down(s.hw.mixers) ELSE s.hw.mixers)
                            + One(r.out.mixer) + One(r.inp.mixer)
         /\ r.out.mixer /\ s.hw.mode # "call" => r.hw.path = s.out.device
         /\ ~r.out.mixer \/ s.hw.mode = "call" => r.hw.path = s.hw.path
  <1> DEFINE s0 == CloseIn(s)
             s1 == OpenOut(s0, failOut)
  <1>1. /\ s0 \in State /\ SameHw(s0, s) /\ s0.out = s.out
        /\ s0.inp.standby = s.inp.standby /\ s0.inp.echo = s.inp.echo
        /\ ~s0.inp.pcm /\ ~s0.inp.mixer /\ s0.hw.path = s.hw.path /\ s0.hw.pcms = s.hw.pcms
        /\ s0.hw.mixers = IF s.inp.mixer THEN Down(s.hw.mixers) ELSE s.hw.mixers
    BY CloseIn_Facts
  <1> HIDE DEF s0
  <1>2. /\ s1 \in State /\ SameHw(s1, s0) /\ s1.inp = s0.inp
        /\ s1.out.standby = s0.out.standby /\ s1.out.device = s0.out.device
        /\ s1.out.mixer => s1.out.pcm
        /\ s1.hw.pcms = s0.hw.pcms + One(s1.out.pcm)
        /\ s1.hw.mixers = s0.hw.mixers + One(s1.out.mixer)
        /\ s1.out.mixer /\ s0.hw.mode # "call" => s1.hw.path = s0.out.device
        /\ ~s1.out.mixer \/ s0.hw.mode = "call" => s1.hw.path = s0.hw.path
    BY <1>1, OpenOut_Facts
  <1>3. r = OpenIn(s1, failIn)
    BY DEF s0
  <1> HIDE DEF s1
  <1>4. /\ r \in State /\ SameHw(r, s1) /\ r.out = s1.out
        /\ r.inp.standby = s1.inp.standby /\ r.inp.echo = s1.inp.echo
        /\ r.inp.mixer => r.inp.pcm
        /\ r.hw.path = s1.hw.path /\ r.hw.pcms = s1.hw.pcms
        /\ r.hw.mixers = s1.hw.mixers + One(r.inp.mixer)
    BY <1>1, <1>2, <1>3, OpenIn_Facts
  <1> QED BY <1>1, <1>2, <1>4 DEF SameHw

LEMMA WriteOpensData ==
  ASSUME Control, Data, NEW t \in Threads, WriteOpens(t)
  PROVE  Data'
  <1>1. Control /\ ControlTypes /\ Program(t) /\ Holds(t) /\ Moves(t)
    BY OutputControl DEF Control
  <1>2. pc[t] = "writeOpen" /\ t = "playback"
    BY <1>1 DEF WriteOpens, Program, DsPlaces, ReadPlaces, InPlaces, SetPlaces,
       StandbyPlaces, ModePlaces
  <1>3. Writing /\ ~WriteDone /\ ~WriteWaits /\ ~ReadDone /\ (owner["in"] = t => ReopensInput)
    BY <1>1, <1>2, Alone DEF HwPlaces, Writing, WriteDone, WriteWaits, ReadDone, ReopensInput,
       WritePlaces
  <1>4. out \in OutType /\ inp \in InType /\ hw \in HwType /\ Now \in State
    BY NowIsState DEF Data, DataTypes
  <1>5. /\ out.standby /\ ~out.pcm /\ ~out.mixer
        /\ owner["in"] = t => ~inp.standby
    BY <1>3 DEF Data, OutShape, InShape
  <1>6. Stuck => Stuck'
    BY <1>1, <1>2, StuckStays DEF WaitsForItself
  <1>7. Others
    BY DEF WriteOpens
  <1>8. PICK r \in State :
          /\ Become(r) /\ SameHw(r, Now) /\ pc'[t] \in {"writeEnd", "dsOut"}
          /\ r.out.standby /\ r.out.device = out.device
          /\ r.out.mixer => r.out.pcm
          /\ r.hw.pcms = hw.pcms + One(r.out.pcm)
          /\ r.out.mixer /\ hw.mode # "call" => r.hw.path = out.device
          /\ \/ /\ pc'[t] = "writeEnd" /\ r.inp = inp
                /\ r.hw.mixers = hw.mixers + One(r.out.mixer)
             \/ /\ owner["in"] = t
                /\ r.hw.mixers = (IF inp.mixer THEN Down(hw.mixers) ELSE hw.mixers)
                                   + One(r.out.mixer) + One(r.inp.mixer)
                /\ r.inp.echo => inp.echo
                /\ r.inp.mixer => r.inp.pcm
                /\ \/ pc'[t] = "writeEnd" /\ (r.inp.standby <=> ~r.inp.pcm)
                   \/ pc'[t] = "dsOut" /\ ~r.inp.standby /\ ~r.inp.pcm
    <2>1. CASE owner["in"] # t
      <3>1. PICK fail : Become(OpenOut(Now, fail)) /\ Goto(t, "writeEnd")
        BY <2>1 DEF WriteOpens
      <3>2. pc'[t] = "writeEnd"
        BY <1>1, <3>1, GotoMoves
      <3> DEFINE r == OpenOut(Now, fail)
      <3>0. r = OpenOut(Now, fail)
        OBVIOUS
      <3>4. Become(r)
        BY <3>1
      <3>5. /\ Now \in State /\ ~Now.out.pcm /\ ~Now.out.mixer
            /\ Now.out = out /\ Now.inp = inp /\ Now.hw = hw
        BY <1>5, NowIsState
      <3> HIDE DEF r
      <3>3. /\ r \in State /\ SameHw(r, Now) /\ r.inp = inp
            /\ r.out.standby = out.standby /\ r.out.device = out.device
            /\ r.out.mixer => r.out.pcm
            /\ r.hw.pcms = hw.pcms + One(r.out.pcm)
            /\ r.hw.mixers = hw.mixers + One(r.out.mixer)
            /\ r.out.mixer /\ hw.mode # "call" => r.hw.path = out.device
        BY <3>0, <3>5, OpenOut_Facts
      <3> QED BY <1>5, <3>2, <3>3, <3>4
    <2>2. CASE owner["in"] = t
      <3> DEFINE S(failOut, failIn) == OpenIn(OpenOut(CloseIn(Now), failOut), failIn)
      <3>1. PICK failOut, failIn :
              IF S(failOut, failIn).inp.pcm
              THEN Become(S(failOut, failIn)) /\ Goto(t, "writeEnd") /\ UNCHANGED <<owner, back>>
              ELSE StandbyIn(t, S(failOut, failIn), "writeEnd")
        BY <2>2 DEF WriteOpens
      <3> DEFINE s == S(failOut, failIn)
      <3>2. /\ s \in State /\ SameHw(s, Now)
            /\ s.out.standby /\ s.out.device = out.device
            /\ s.out.mixer => s.out.pcm
            /\ s.inp.standby = inp.standby /\ s.inp.echo = inp.echo
            /\ s.inp.mixer => s.inp.pcm
            /\ s.hw.pcms = hw.pcms + One(s.out.pcm)
            /\ s.hw.mixers = (IF inp.mixer THEN Down(hw.mixers) ELSE hw.mixers)
                               + One(s.out.mixer) + One(s.inp.mixer)
            /\ s.out.mixer /\ hw.mode # "call" => s.hw.path = out.device
        BY <1>4, <1>5, NowIsState, Opened_Facts
      <3>3. IF s.inp.pcm
            THEN Become(s) /\ Goto(t, "writeEnd") /\ UNCHANGED <<owner, back>>
            ELSE StandbyIn(t, s, "writeEnd")
        BY <3>1
      <3> HIDE DEF s
      <3>4. CASE s.inp.pcm
        <4>1. Become(s) /\ pc'[t] = "writeEnd"
          BY <1>1, <3>3, <3>4, GotoMoves
        <4> QED BY <1>5, <2>2, <3>2, <3>4, <4>1
      <3>5. CASE ~s.inp.pcm
        <4>1. PICK r \in State :
                /\ Become(r) /\ SameHw(r, s) /\ r.out = s.out
                /\ r.hw.path = s.hw.path /\ r.hw.pcms = s.hw.pcms
                /\ \/ /\ SameIn(r, s) /\ s.inp.echo /\ ~s.inp.standby /\ r.hw.mixers = s.hw.mixers
                      /\ pc'[t] = "dsOut"
                   \/ /\ r.inp.standby /\ ~r.inp.pcm /\ ~r.inp.mixer /\ (r.inp.echo => s.inp.echo)
                      /\ r.hw.mixers = IF s.inp.mixer THEN Down(s.hw.mixers) ELSE s.hw.mixers
                      /\ pc'[t] = "writeEnd"
          BY <1>1, <3>2, <3>3, <3>5, StandbyIn_Facts
        <4>2. ~s.inp.mixer
          BY <3>2, <3>5
        <4>3. SameHw(r, Now) /\ r.hw.mixers = s.hw.mixers + One(r.inp.mixer) /\ ~r.inp.mixer
          BY <1>4, <3>2, <4>1, <4>2 DEF SameHw, SameIn, One, State, HwType
        <4>4. r.hw.mixers = (IF inp.mixer THEN Down(hw.mixers) ELSE hw.mixers)
                               + One(r.out.mixer) + One(r.inp.mixer)
          <5>1. One(r.inp.mixer) = 0 /\ One(s.inp.mixer) = 0 /\ One(r.out.mixer) = One(s.out.mixer)
            BY <4>1, <4>2, <4>3 DEF One
          <5>2. /\ One(s.out.mixer) \in Nat
                /\ (IF inp.mixer THEN Down(hw.mixers) ELSE hw.mixers) \in Nat
            BY <1>4 DEF One, Down, HwType
          <5> QED BY <3>2, <4>3, <5>1, <5>2
        <4> QED BY <1>5, <2>2, <3>2, <3>5, <4>1, <4>2, <4>3, <4>4 DEF SameIn
      <3> QED BY <3>4, <3>5
    <2> QED BY <2>1, <2>2
  <1>9. /\ ~Writing' /\ ~ReopensInput' /\ ~ReadDone'
        /\ WriteDone' <=> pc'[t] = "writeEnd"
        /\ WriteWaits' <=> pc'[t] = "dsOut"
        /\ WriteDone' \/ WriteWaits'
        /\ Reading' <=> Reading
        /\ EntersCall' <=> EntersCall
        /\ LeavesCall' <=> LeavesCall
    BY <1>1, <1>2, <1>3, <1>8, Elsewhere DEF Writing, WriteDone, WriteWaits, ReopensInput,
       Reading, ReadDone, WritePlaces, EntersCall, LeavesCall, AtOrBack
  <1>10. /\ hw'.mode = hw.mode /\ hw'.inCall = hw.inCall /\ hw'.source = hw.source
         /\ hw'.told = hw.told /\ hw'.untold = hw.untold /\ hw'.echo = hw.echo
         /\ missed' = missed /\ callFailed' = callFailed /\ goal' = goal
         /\ out'.standby /\ (out'.mixer => out'.pcm) /\ out'.device = out.device
         /\ hw'.pcms = hw.pcms + One(out'.pcm)
         /\ out'.mixer /\ hw.mode # "call" => hw'.path = out.device
    BY <1>7, <1>8, NowIsState DEF Become, SameHw, Others
  <1>11. \/ /\ WriteDone' /\ ~WriteWaits' /\ inp' = inp /\ hw'.mixers = hw.mixers + One(out'.mixer)
         \/ /\ ~Reading
            /\ hw'.mixers = (IF inp.mixer THEN Down(hw.mixers) ELSE hw.mixers)
                               + One(out'.mixer) + One(inp'.mixer)
            /\ inp'.echo => inp.echo
            /\ inp'.mixer => inp'.pcm
            /\ \/ WriteDone' /\ ~WriteWaits' /\ (inp'.standby <=> ~inp'.pcm)
               \/ WriteWaits' /\ ~WriteDone' /\ ~inp'.standby /\ ~inp'.pcm
    <2>1. owner["in"] = t => ~Reading
      BY <1>5 DEF Data, InShape
    <2> QED BY <1>8, <1>9, <2>1 DEF Become
  <1>12. DataTypes'
    BY <1>8, <1>10, BecomeTypes DEF Data, DataTypes
  <1>13. OutShape'
    BY <1>9, <1>10 DEF OutShape
  <1>14. InShape'
    BY <1>3, <1>9, <1>11 DEF Data, InShape
  <1>15. Counts'
    BY <1>4, <1>5, <1>9, <1>10, <1>11 DEF Data, HwType, Counts, InCall, One, Down
  <1>16. Alive' /\ ModeAgrees' /\ Told' /\ Routed' /\ ReferenceAlive'
    BY <1>4, <1>6, <1>9, <1>10, <1>11
       DEF Data, HwType, Alive, ModeAgrees, Told, Heard, Routed, ReferenceAlive, One
  <1> QED BY <1>12, <1>13, <1>14, <1>15, <1>16 DEF Data

\* doStandby_l of the streams that a thread has locked.
LEMMA Streams_Facts ==
  ASSUME ControlTypes, NEW t \in Threads, NEW s \in State, NEW next, Streams(t, s, next)
  PROVE  \E r \in State :
           /\ Become(r) /\ SameHw(r, s) /\ r.hw.path = s.hw.path /\ r.out.device = s.out.device
           /\ \/ /\ owner["out"] = t /\ r.out.standby /\ ~r.out.pcm /\ ~r.out.mixer
                 /\ r.hw.pcms = IF s.out.pcm THEN Down(s.hw.pcms) ELSE s.hw.pcms
              \/ owner["out"] # t /\ r.out = s.out /\ r.hw.pcms = s.hw.pcms
           /\ LET m == IF owner["out"] = t /\ s.out.mixer THEN Down(s.hw.mixers) ELSE s.hw.mixers
              IN \/ SameIn(r, s) /\ r.hw.mixers = m
                 \/ /\ r.inp.standby /\ ~r.inp.pcm /\ ~r.inp.mixer /\ (r.inp.echo => s.inp.echo)
                    /\ r.hw.mixers = IF s.inp.mixer THEN Down(m) ELSE m
           /\ pc'[t] = next \/ (pc'[t] = "dsOut" /\ back'[t] = next)
  <1> DEFINE s1 == IF owner["out"] = t THEN StandbyOut(s) ELSE s
             m == IF owner["out"] = t /\ s.out.mixer THEN Down(s.hw.mixers) ELSE s.hw.mixers
  <1>1. /\ s1 \in State /\ SameHw(s1, s) /\ s1.hw.path = s.hw.path /\ s1.out.device = s.out.device
        /\ s1.inp = s.inp /\ s1.hw.mixers = m
        /\ \/ /\ owner["out"] = t /\ s1.out.standby /\ ~s1.out.pcm /\ ~s1.out.mixer
              /\ s1.hw.pcms = IF s.out.pcm THEN Down(s.hw.pcms) ELSE s.hw.pcms
           \/ owner["out"] # t /\ s1.out = s.out /\ s1.hw.pcms = s.hw.pcms
    <2>1. CASE owner["out"] = t
      <3>1. s1 = StandbyOut(s)
        BY <2>1
      <3>2. m = IF s.out.mixer THEN Down(s.hw.mixers) ELSE s.hw.mixers
        BY <2>1
      <3> HIDE DEF s1, m
      <3> QED BY <2>1, <3>1, <3>2, StandbyOut_Facts
    <2>2. CASE owner["out"] # t
      BY <2>2 DEF SameHw
    <2> QED BY <2>1, <2>2
  <1>2. \/ StandbyIn(t, s1, next)
        \/ Become(s1) /\ Goto(t, next)
    BY DEF Streams
  <1> HIDE DEF s1, m
  <1>3. CASE StandbyIn(t, s1, next)
    <2>1. PICK r \in State :
           /\ Become(r) /\ SameHw(r, s1) /\ r.out = s1.out
           /\ r.hw.path = s1.hw.path /\ r.hw.pcms = s1.hw.pcms
           /\ \/ /\ SameIn(r, s1) /\ r.hw.mixers = s1.hw.mixers
                 /\ pc'[t] = "dsOut" /\ back'[t] = next
              \/ /\ r.inp.standby /\ ~r.inp.pcm /\ ~r.inp.mixer /\ (r.inp.echo => s1.inp.echo)
                 /\ r.hw.mixers = IF s1.inp.mixer THEN Down(s1.hw.mixers) ELSE s1.hw.mixers
                 /\ pc'[t] = next
      BY <1>1, <1>3, StandbyIn_Facts
    <2>2. \/ SameIn(r, s) /\ r.hw.mixers = m
          \/ /\ r.inp.standby /\ ~r.inp.pcm /\ ~r.inp.mixer /\ (r.inp.echo => s.inp.echo)
             /\ r.hw.mixers = IF s.inp.mixer THEN Down(m) ELSE m
      BY <1>1, <2>1 DEF SameIn
    <2>3. /\ SameHw(r, s) /\ r.hw.path = s.hw.path /\ r.out.device = s.out.device
          /\ \/ /\ owner["out"] = t /\ r.out.standby /\ ~r.out.pcm /\ ~r.out.mixer
                /\ r.hw.pcms = IF s.out.pcm THEN Down(s.hw.pcms) ELSE s.hw.pcms
             \/ owner["out"] # t /\ r.out = s.out /\ r.hw.pcms = s.hw.pcms
      BY <1>1, <2>1 DEF SameHw
    <2> QED BY <2>1, <2>2, <2>3 DEF m
  <1>4. CASE Become(s1) /\ Goto(t, next)
    <2>1. pc'[t] = next
      BY <1>4, GotoMoves
    <2>2. SameIn(s1, s)
      BY <1>1 DEF SameIn
    <2> QED BY <1>1, <1>4, <2>1, <2>2 DEF m
  <1> QED BY <1>2, <1>3, <1>4

\* setMode: the mode is set, then the streams that were locked are put into standby.
LEMMA ModeSetData ==
  ASSUME Control, Data, NEW t \in Threads, ModeSet(t)
  PROVE  Data'
  <1>1. Control /\ ControlTypes /\ Program(t) /\ Holds(t) /\ Moves(t)
    BY HardwareControl DEF Control
  <1>2. pc[t] = "modeSet" /\ t = "client"
    BY <1>1 DEF ModeSet, Program, DsPlaces, WritePlaces, RoutePlaces, ReadPlaces, InPlaces,
       SetPlaces, StandbyPlaces
  <1>3. /\ ~WriteDone /\ ~ReopensInput /\ ~ReadDone /\ ~EntersCall /\ ~LeavesCall
        /\ owner["out"] = t => ~Writing /\ ~WriteWaits
    BY <1>1, <1>2, Alone DEF HwPlaces, EntersCall, LeavesCall, AtOrBack, DsPlaces
  <1>4. out \in OutType /\ inp \in InType /\ hw \in HwType /\ Now \in State /\ goal \in Modes
    BY NowIsState DEF Data, DataTypes
  <1>5. Stuck => Stuck'
    BY <1>1, <1>2, StuckStays DEF WaitsForItself
  <1>6. /\ (Writing' <=> Writing) /\ ~WriteDone' /\ (WriteWaits' <=> WriteWaits)
        /\ ~ReopensInput' /\ ~ReadDone' /\ (Reading' <=> Reading)
    BY <1>1, <1>2, <1>3, Elsewhere DEF Writing, WriteDone, WriteWaits, ReopensInput, Reading,
       ReadDone
  <1> DEFINE s == [Now EXCEPT !.hw.mode = goal, !.hw.activated = (goal \in {"call", "ringtone"})]
             path == IF s.hw.mixers > 0 THEN "earpiece" ELSE s.hw.path
             ended == [s EXCEPT !.hw.path = IF s.hw.mixers > 0 THEN "earpiece" ELSE @,
                                !.hw.mixers = Down(@), !.hw.pcms = Down(@)]
  <1>7. /\ s \in State /\ s.out = out /\ s.inp = inp /\ s.hw.mode = goal
        /\ s.hw.inCall = hw.inCall /\ s.hw.echo = hw.echo
        /\ s.hw.source = hw.source /\ s.hw.told = hw.told
        /\ s.hw.untold = hw.untold /\ s.hw.path = hw.path
        /\ s.hw.pcms = hw.pcms /\ s.hw.mixers = hw.mixers
    <2> DEFINE a == goal \in {"call", "ringtone"}
               h == [hw EXCEPT !.mode = goal, !.activated = a]
    <2>2. a \in BOOLEAN /\ s = [Now EXCEPT !.hw.mode = goal, !.hw.activated = a]
      OBVIOUS
    <2> HIDE DEF a, s
    <2>1. s = [out |-> out, inp |-> inp, hw |-> h]
      BY <2>2 DEF Now
    <2>3. /\ h \in HwType /\ h.mode = goal
          /\ h.inCall = hw.inCall /\ h.echo = hw.echo
          /\ h.source = hw.source /\ h.told = hw.told /\ h.untold = hw.untold /\ h.path = hw.path
          /\ h.pcms = hw.pcms /\ h.mixers = hw.mixers
      BY <1>4, <2>2 DEF HwType
    <2> HIDE DEF h
    <2> QED BY <1>4, <2>1, <2>3 DEF State
  <1> HIDE DEF s
  <1>8. /\ ended \in State /\ ended.out = out /\ ended.inp = inp /\ ended.hw.mode = goal
        /\ ended.hw.inCall = hw.inCall /\ ended.hw.echo = hw.echo
        /\ ended.hw.source = hw.source /\ ended.hw.told = hw.told /\ ended.hw.untold = hw.untold
        /\ ended.hw.pcms = Down(hw.pcms) /\ ended.hw.mixers = Down(hw.mixers)
    <2> DEFINE mx == Down(s.hw.mixers)
               pm == Down(s.hw.pcms)
               h == [s.hw EXCEPT !.path = path, !.mixers = mx, !.pcms = pm]
    <2>1. s.out \in OutType /\ s.inp \in InType /\ s.hw \in HwType
      BY <1>7 DEF State
    <2>2. path \in Devices \cup {"earpiece"} /\ mx \in Nat /\ pm \in Nat
      BY <2>1 DEF HwType, Down
    <2>5. ended = [s EXCEPT !.hw.path = path, !.hw.mixers = mx, !.hw.pcms = pm]
      BY <1>7, <2>1 DEF State, HwType
    <2> HIDE DEF path, mx, pm, ended
    <2>3. ended = [out |-> s.out, inp |-> s.inp, hw |-> h]
      BY <1>7, <2>5 DEF State
    <2>4. /\ h \in HwType /\ h.mode = s.hw.mode
          /\ h.inCall = s.hw.inCall /\ h.echo = s.hw.echo
          /\ h.source = s.hw.source /\ h.told = s.hw.told /\ h.untold = s.hw.untold
          /\ h.pcms = pm /\ h.mixers = mx
      BY <2>1, <2>2 DEF HwType
    <2> HIDE DEF h
    <2> QED BY <1>7, <2>1, <2>3, <2>4 DEF State, mx, pm
  <1>9. \/ goal = "call" /\ ~hw.inCall /\ Streams(t, s, "modeCall") /\ UNCHANGED missed
        \/ /\ goal # "call" /\ hw.inCall /\ Streams(t, ended, "modeCallEnds")
           /\ missed' = (missed \/ (owner["out"] # t /\ ~out.standby))
        \/ /\ (goal = "call") = hw.inCall /\ Become(s) /\ Goto(t, "modeEnd")
           /\ UNCHANGED missed
    BY DEF ModeSet, s
  <1>10. UNCHANGED <<goal, callFailed>>
    BY DEF ModeSet
  <1> HIDE DEF ended
  <1>11. hw.mode = "call" <=> hw.inCall
    BY <1>3 DEF Data, ModeAgrees
  <1>12. owner["out"] # t /\ out.pcm => ~out.standby \/ Stuck
    <2>1. WriteWaits => Stuck
      BY <1>1 DEF Control, Program, WriteWaits, Stuck, WaitsForItself
    <2> QED BY <1>3, <2>1 DEF Data, OutShape
  <1>13. CASE goal = "call" /\ ~hw.inCall /\ Streams(t, s, "modeCall") /\ UNCHANGED missed
    <2>1. PICK r \in State :
           /\ Become(r) /\ SameHw(r, s) /\ r.hw.path = s.hw.path /\ r.out.device = s.out.device
           /\ \/ /\ owner["out"] = t /\ r.out.standby /\ ~r.out.pcm /\ ~r.out.mixer
                 /\ r.hw.pcms = IF s.out.pcm THEN Down(s.hw.pcms) ELSE s.hw.pcms
              \/ owner["out"] # t /\ r.out = s.out /\ r.hw.pcms = s.hw.pcms
           /\ LET m == IF owner["out"] = t /\ s.out.mixer THEN Down(s.hw.mixers) ELSE s.hw.mixers
              IN \/ SameIn(r, s) /\ r.hw.mixers = m
                 \/ /\ r.inp.standby /\ ~r.inp.pcm /\ ~r.inp.mixer /\ (r.inp.echo => s.inp.echo)
                    /\ r.hw.mixers = IF s.inp.mixer THEN Down(m) ELSE m
           /\ pc'[t] = "modeCall" \/ (pc'[t] = "dsOut" /\ back'[t] = "modeCall")
      BY <1>1, <1>7, <1>13, Streams_Facts
    <2>2. EntersCall' /\ ~LeavesCall'
      BY <1>2, <2>1 DEF EntersCall, LeavesCall, AtOrBack, DsPlaces
    <2>3. /\ hw'.mode = "call" /\ ~hw'.inCall /\ hw'.echo = hw.echo /\ hw'.source = hw.source
          /\ hw'.told = hw.told
          /\ hw'.untold = hw.untold /\ missed' = missed /\ callFailed' = callFailed /\ goal' = goal
      BY <1>7, <1>10, <1>13, <2>1 DEF Become, SameHw
    <2>4. /\ \/ /\ owner["out"] = t /\ out'.standby /\ ~out'.pcm /\ ~out'.mixer
                /\ hw'.pcms = IF out.pcm THEN Down(hw.pcms) ELSE hw.pcms
             \/ owner["out"] # t /\ out' = out /\ hw'.pcms = hw.pcms
          /\ LET m == IF owner["out"] = t /\ out.mixer THEN Down(hw.mixers) ELSE hw.mixers
             IN \/ /\ inp'.standby = inp.standby /\ inp'.pcm = inp.pcm
                   /\ inp'.mixer = inp.mixer /\ inp'.echo = inp.echo /\ hw'.mixers = m
                \/ /\ inp'.standby /\ ~inp'.pcm /\ ~inp'.mixer /\ (inp'.echo => inp.echo)
                   /\ hw'.mixers = IF inp.mixer THEN Down(m) ELSE m
      BY <1>7, <2>1 DEF Become, SameIn
    <2>5. DataTypes'
      BY <1>4, <2>1, <2>3, BecomeTypes DEF Data, DataTypes
    <2>6. OutShape' /\ InShape'
      BY <1>3, <1>6, <2>4 DEF Data, OutShape, InShape
    <2>7. Counts'
      BY <1>4, <1>13, <2>2, <2>3, <2>4 DEF Data, HwType, Counts, InCall, One, Down
    <2>8. Alive' /\ ModeAgrees' /\ Told' /\ Routed' /\ ReferenceAlive'
      BY <1>5, <2>2, <2>3, <2>4 DEF Data, Alive, ModeAgrees, Told, Heard, Routed, ReferenceAlive
    <2> QED BY <2>5, <2>6, <2>7, <2>8 DEF Data
  <1>14. CASE /\ goal # "call" /\ hw.inCall /\ Streams(t, ended, "modeCallEnds")
              /\ missed' = (missed \/ (owner["out"] # t /\ ~out.standby))
    <2>1. PICK r \in State :
           /\ Become(r) /\ SameHw(r, ended) /\ r.hw.path = ended.hw.path
           /\ r.out.device = ended.out.device
           /\ \/ /\ owner["out"] = t /\ r.out.standby /\ ~r.out.pcm /\ ~r.out.mixer
                 /\ r.hw.pcms = IF ended.out.pcm THEN Down(ended.hw.pcms) ELSE ended.hw.pcms
              \/ owner["out"] # t /\ r.out = ended.out /\ r.hw.pcms = ended.hw.pcms
           /\ LET m == IF owner["out"] = t /\ ended.out.mixer THEN Down(ended.hw.mixers)
                       ELSE ended.hw.mixers
              IN \/ SameIn(r, ended) /\ r.hw.mixers = m
                 \/ /\ r.inp.standby /\ ~r.inp.pcm /\ ~r.inp.mixer
                    /\ (r.inp.echo => ended.inp.echo)
                    /\ r.hw.mixers = IF ended.inp.mixer THEN Down(m) ELSE m
           /\ pc'[t] = "modeCallEnds" \/ (pc'[t] = "dsOut" /\ back'[t] = "modeCallEnds")
      BY <1>1, <1>8, <1>14, Streams_Facts
    <2>2. LeavesCall' /\ ~EntersCall'
      BY <1>2, <2>1 DEF EntersCall, LeavesCall, AtOrBack, DsPlaces
    <2>3. /\ hw'.mode # "call" /\ hw'.inCall /\ hw'.echo = hw.echo /\ hw'.source = hw.source
          /\ hw'.told = hw.told
          /\ hw'.untold = hw.untold /\ callFailed' = callFailed /\ goal' = goal
      BY <1>8, <1>10, <1>14, <2>1 DEF Become, SameHw
    <2>4. /\ \/ /\ owner["out"] = t /\ out'.standby /\ ~out'.pcm /\ ~out'.mixer
                /\ hw'.pcms = IF out.pcm THEN Down(Down(hw.pcms)) ELSE Down(hw.pcms)
             \/ owner["out"] # t /\ out' = out /\ hw'.pcms = Down(hw.pcms)
          /\ LET m == IF owner["out"] = t /\ out.mixer THEN Down(Down(hw.mixers))
                      ELSE Down(hw.mixers)
             IN \/ /\ inp'.standby = inp.standby /\ inp'.pcm = inp.pcm
                   /\ inp'.mixer = inp.mixer /\ inp'.echo = inp.echo /\ hw'.mixers = m
                \/ /\ inp'.standby /\ ~inp'.pcm /\ ~inp'.mixer /\ (inp'.echo => inp.echo)
                   /\ hw'.mixers = IF inp.mixer THEN Down(m) ELSE m
      BY <1>8, <2>1 DEF Become, SameIn
    <2>5. missed' \in BOOLEAN
      BY <1>4, <1>14 DEF Data, DataTypes
    <2>6. DataTypes'
      BY <1>4, <1>10, <2>1, <2>5, BecomeTypes DEF Data, DataTypes
    <2>7. OutShape' /\ InShape'
      BY <1>3, <1>6, <2>4 DEF Data, OutShape, InShape
    <2>8. Counts'
      BY <1>3, <1>4, <1>14, <2>2, <2>3, <2>4 DEF Data, HwType, Counts, InCall, One, Down
    <2>9. Alive'
      BY <1>3, <1>4, <1>5, <1>12, <1>14, <2>3, <2>4
         DEF Data, HwType, Counts, InCall, One, Down, Alive
    <2>10. ModeAgrees' /\ Told' /\ Routed' /\ ReferenceAlive'
      BY <1>3, <1>5, <1>12, <1>14, <2>2, <2>3, <2>4
         DEF Data, OutShape, ModeAgrees, Told, Heard, Routed, ReferenceAlive
    <2> QED BY <2>6, <2>7, <2>8, <2>9, <2>10 DEF Data
  <1>15. CASE /\ (goal = "call") = hw.inCall /\ Become(s) /\ Goto(t, "modeEnd")
              /\ UNCHANGED missed
    <2>1. pc'[t] = "modeEnd"
      BY <1>1, <1>15, GotoMoves
    <2>2. ~EntersCall' /\ ~LeavesCall'
      BY <1>2, <2>1 DEF EntersCall, LeavesCall, AtOrBack, DsPlaces
    <2>3. /\ out' = out /\ inp' = inp /\ (hw'.mode = "call" <=> hw.mode = "call")
          /\ hw'.inCall = hw.inCall /\ hw'.echo = hw.echo
          /\ hw'.source = hw.source /\ hw'.told = hw.told
          /\ hw'.untold = hw.untold /\ hw'.path = hw.path
          /\ hw'.pcms = hw.pcms /\ hw'.mixers = hw.mixers
          /\ missed' = missed /\ callFailed' = callFailed /\ goal' = goal
      BY <1>7, <1>10, <1>11, <1>15 DEF Become
    <2>4. DataTypes'
      BY <1>4, <1>7, <1>15, <2>3, BecomeTypes DEF Data, DataTypes
    <2>5. OutShape' /\ InShape'
      BY <1>3, <1>6, <2>3 DEF Data, OutShape, InShape
    <2>6. Counts'
      BY <1>3, <2>2, <2>3 DEF Data, Counts, InCall, One
    <2>7. Alive' /\ ModeAgrees' /\ Told' /\ Routed' /\ ReferenceAlive'
      BY <1>3, <1>5, <1>11, <2>2, <2>3
         DEF Data, Alive, ModeAgrees, Told, Heard, Routed, ReferenceAlive
    <2> QED BY <2>4, <2>5, <2>6, <2>7 DEF Data
  <1> QED BY <1>9, <1>13, <1>14, <1>15

LEMMA ModeCallData ==
  ASSUME Control, Data, NEW t \in Threads, ModeCall(t)
  PROVE  Data'
  <1>1. Control /\ ControlTypes /\ Program(t) /\ Holds(t) /\ Moves(t)
    BY HardwareControl DEF Control
  <1>2. pc[t] = "modeCall" /\ t = "client" /\ pc'[t] = "modeEnd"
    BY <1>1, GotoMoves DEF ModeCall, Program, DsPlaces, WritePlaces, RoutePlaces, ReadPlaces,
       InPlaces, SetPlaces, StandbyPlaces
  <1>3. /\ EntersCall /\ ~LeavesCall /\ ~EntersCall' /\ ~LeavesCall'
    BY <1>2 DEF EntersCall, LeavesCall, AtOrBack, DsPlaces
  <1>4. out \in OutType /\ inp \in InType /\ hw \in HwType /\ Now \in State /\ callFailed \in BOOLEAN
    BY NowIsState DEF Data, DataTypes
  <1>5. Stuck => Stuck'
    BY <1>1, <1>2, StuckStays DEF WaitsForItself
  <1>6. /\ (Writing' <=> Writing) /\ (WriteDone' <=> WriteDone) /\ (WriteWaits' <=> WriteWaits)
        /\ (ReopensInput' <=> ReopensInput) /\ (ReadDone' <=> ReadDone) /\ (Reading' <=> Reading)
    BY <1>1, <1>2, Elsewhere DEF Writing, WriteDone, WriteWaits, ReopensInput, Reading, ReadDone
  <1> DEFINE P(fail) == hw.pcms > 0 \/ fail # "pcm"
             M(fail) == hw.mixers > 0 \/ fail # "mixer"
             S(fail) == [Now EXCEPT !.hw.pcms = IF P(fail) THEN @ + 1 ELSE @,
                                    !.hw.mixers = IF M(fail) THEN @ + 1 ELSE @]
  <1>7. PICK fail : /\ callFailed' = (callFailed \/ ~P(fail) \/ ~M(fail))
                    /\ Become([SetSource(S(fail), "default") EXCEPT !.hw.inCall = TRUE])
    BY DEF ModeCall
  <1> DEFINE pcm == P(fail)
             mixer == M(fail)
             s == S(fail)
             r == SetSource(s, "default")
  <1>8. pcm \in BOOLEAN /\ mixer \in BOOLEAN /\ (~mixer => hw.mixers = 0)
    BY <1>4 DEF HwType
  <1>9. /\ callFailed' = (callFailed \/ ~pcm \/ ~mixer)
        /\ Become([r EXCEPT !.hw.inCall = TRUE])
        /\ s = [Now EXCEPT !.hw.pcms = IF pcm THEN @ + 1 ELSE @,
                           !.hw.mixers = IF mixer THEN @ + 1 ELSE @]
    BY <1>7
  <1> HIDE DEF s, pcm, mixer, P, M, S
  <1>10. /\ s \in State /\ s.out = out /\ s.inp = inp /\ s.hw.mode = hw.mode
         /\ s.hw.echo = hw.echo /\ s.hw.path = hw.path
         /\ s.hw.source = hw.source /\ s.hw.told = hw.told /\ s.hw.untold = hw.untold
         /\ s.hw.pcms = hw.pcms + One(pcm) /\ s.hw.mixers = hw.mixers + One(mixer)
    <2> DEFINE p == hw.pcms + One(pcm)
               m == hw.mixers + One(mixer)
               h == [hw EXCEPT !.pcms = p, !.mixers = m]
    <2>1. p \in Nat /\ m \in Nat /\ (IF pcm THEN hw.pcms + 1 ELSE hw.pcms) = p
          /\ (IF mixer THEN hw.mixers + 1 ELSE hw.mixers) = m
      BY <1>4, <1>8 DEF HwType, One
    <2>2. s = [Now EXCEPT !.hw.pcms = p, !.hw.mixers = m]
      BY <1>9, <2>1 DEF Now
    <2> HIDE DEF p, m
    <2>3. s = [out |-> out, inp |-> inp, hw |-> h]
      BY <2>2 DEF Now
    <2>4. /\ h \in HwType /\ h.mode = hw.mode /\ h.echo = hw.echo /\ h.path = hw.path
          /\ h.source = hw.source /\ h.told = hw.told
          /\ h.untold = hw.untold /\ h.pcms = p /\ h.mixers = m
      BY <1>4, <2>1 DEF HwType
    <2> HIDE DEF h
    <2> QED BY <1>4, <2>3, <2>4 DEF State, p, m
  <1>11. /\ r \in State /\ r.out = out /\ r.inp = inp
         /\ r.hw.mode = hw.mode /\ r.hw.echo = hw.echo /\ r.hw.path = hw.path
         /\ r.hw.pcms = hw.pcms + One(pcm)
         /\ r.hw.mixers = hw.mixers + One(mixer) /\ r.hw.source = "default"
         /\ (hw.source = "default" => Heard(hw)) => Heard(r.hw)
    <2>1. "default" \in Sources
      BY DEF Sources
    <2>2. Heard(s.hw) <=> Heard(hw)
      BY <1>10 DEF Heard
    <2> QED BY <1>10, <2>1, <2>2, SetSource_Facts
  <1> HIDE DEF r
  <1>12. /\ out' = out /\ inp' = inp /\ hw' = [r.hw EXCEPT !.inCall = TRUE] /\ r.hw \in HwType
    BY <1>9, <1>11 DEF Become, State
  <1>13. /\ hw' \in HwType /\ hw'.inCall /\ hw'.mode = hw.mode /\ hw'.echo = hw.echo
         /\ hw'.path = hw.path
         /\ hw'.pcms = hw.pcms + One(pcm)
         /\ hw'.mixers = hw.mixers + One(mixer) /\ hw'.source = "default"
    BY <1>11, <1>12 DEF HwType
  <1>21. (hw.source = "default" => Heard(hw)) => Heard(hw)'
    BY <1>11, <1>12 DEF HwType, Heard
  <1>14. missed' = missed /\ goal' = goal
    BY DEF ModeCall
  <1>15. hw.mode = "call" /\ ~hw.inCall
    BY <1>3 DEF Data, ModeAgrees
  <1>16. DataTypes'
    BY <1>4, <1>8, <1>9, <1>12, <1>13, <1>14 DEF Data, DataTypes
  <1>17. OutShape' /\ InShape'
    BY <1>6, <1>12 DEF Data, OutShape, InShape
  <1>22. /\ IF mixer THEN One(mixer) = 1 ELSE One(mixer) = 0
         /\ IF pcm THEN One(pcm) = 1 ELSE One(pcm) = 0
    BY <1>8 DEF One
  <1>18. Counts'
    <2> DEFINE o == One(out.mixer) + One(inp.mixer)
    <2>1. /\ InCall = 0 /\ InCall' = 1 /\ One(out.mixer)' = One(out.mixer)
          /\ One(inp.mixer)' = One(inp.mixer) /\ One(out.pcm)' = One(out.pcm)
          /\ o \in Nat /\ One(out.pcm) \in Nat
      BY <1>3, <1>12, <1>13, <1>15 DEF InCall, One
    <2>2. Counts
      BY DEF Data
    <2>3. CASE pcm /\ mixer
      <3>1. callFailed' = callFailed /\ hw'.pcms = hw.pcms + 1 /\ hw'.mixers = hw.mixers + 1
        BY <1>4, <1>9, <1>13, <1>22, <2>3
      <3>2. hw.pcms \in Nat /\ hw.mixers \in Nat /\ One(inp.mixer) \in Nat
            /\ One(out.mixer) \in Nat
        BY <1>4 DEF HwType, One
      <3> QED BY <2>1, <2>2, <3>1, <3>2 DEF Counts
    <2>4. CASE ~pcm \/ ~mixer
      BY <1>4, <1>8, <1>9, <1>13, <1>22, <2>1, <2>2, <2>4 DEF Counts, HwType
    <2> QED BY <1>8, <2>3, <2>4
  <1>19. Alive'
    BY <1>4, <1>5, <1>8, <1>9, <1>12, <1>13, <1>14 DEF Data, HwType, One, Alive
  <1>20. ModeAgrees' /\ Told' /\ Routed' /\ ReferenceAlive'
    BY <1>3, <1>4, <1>5, <1>8, <1>9, <1>12, <1>13, <1>14, <1>15, <1>21
       DEF Data, ModeAgrees, Told, Routed, ReferenceAlive
  <1> QED BY <1>16, <1>17, <1>18, <1>19, <1>20 DEF Data

LEMMA ModeCallEndsData ==
  ASSUME Control, Data, NEW t \in Threads, ModeCallEnds(t)
  PROVE  Data'
  <1>1. Control /\ ControlTypes /\ Program(t) /\ Holds(t) /\ Moves(t)
    BY HardwareControl DEF Control
  <1>2. pc[t] = "modeCallEnds" /\ t = "client" /\ pc'[t] = "modeEnd" /\ out' = out /\ inp' = inp
        /\ Others
    BY <1>1, GotoMoves DEF ModeCallEnds, Program, DsPlaces, WritePlaces, RoutePlaces, ReadPlaces,
       InPlaces, SetPlaces, StandbyPlaces
  <1>3. /\ LeavesCall /\ ~EntersCall' /\ ~LeavesCall'
    BY <1>2 DEF EntersCall, LeavesCall, AtOrBack, DsPlaces
  <1>4. Stuck => Stuck'
    BY <1>1, <1>2, StuckStays DEF WaitsForItself
  <1>5. /\ (Writing' <=> Writing) /\ (WriteDone' <=> WriteDone) /\ (WriteWaits' <=> WriteWaits)
        /\ (ReopensInput' <=> ReopensInput) /\ (ReadDone' <=> ReadDone) /\ (Reading' <=> Reading)
    BY <1>1, <1>2, Elsewhere DEF Writing, WriteDone, WriteWaits, ReopensInput, Reading, ReadDone
  <1>6. /\ hw' \in HwType /\ ~hw'.inCall /\ hw'.mode = hw.mode /\ hw'.echo = hw.echo
        /\ hw'.path = hw.path /\ hw'.pcms = hw.pcms /\ hw'.mixers = hw.mixers
        /\ hw'.source = hw.source /\ hw'.told = hw.told /\ hw'.untold = hw.untold
    BY DEF ModeCallEnds, Data, DataTypes, HwType
  <1>7. missed' = missed /\ goal' = goal /\ callFailed' = callFailed
    BY <1>2 DEF Others
  <1>8. DataTypes'
    BY <1>2, <1>6, <1>7 DEF Data, DataTypes
  <1>9. OutShape' /\ InShape'
    BY <1>2, <1>5 DEF Data, OutShape, InShape
  <1>10. Counts'
    BY <1>2, <1>3, <1>6, <1>7 DEF Data, Counts, InCall, One
  <1>11. Alive' /\ ModeAgrees' /\ Told' /\ Routed' /\ ReferenceAlive'
    BY <1>2, <1>3, <1>4, <1>6, <1>7
       DEF Data, Alive, ModeAgrees, Told, Heard, Routed, ReferenceAlive
  <1> QED BY <1>8, <1>9, <1>10, <1>11 DEF Data

\* The bounds on the calls and on the failures.
LEMMA FailureCount ==
  ASSUME Bounds, NEW fail \in Fails, Count(fail)
  PROVE  failures' \in 0..MaxFailures
  <1>1. CASE fail = "no"
    BY <1>1, AudioAssumption DEF Count, Bounds
  <1>2. CASE fail # "no"
    <2>1. failures < MaxFailures
      BY <1>2 DEF Fails
    <2> QED BY <1>2, <2>1, AudioAssumption DEF Count, Bounds
  <1> QED BY <1>1, <1>2

LEMMA BoundsKept ==
  ASSUME Bounds, NEW t \in Threads, Call(t) \/ Step(t)
  PROVE  Bounds'
  <1>1. CASE Call(t)
    BY <1>1, AudioAssumption DEF Call, history, Bounds
  <1>2. CASE OutputStep(t)
    <2>1. CASE WriteOpens(t)
      <3>1. PICK failOut \in Fails, failIn \in Fails :
              Count(IF failOut = "no" THEN failIn ELSE failOut)
        BY <2>1 DEF WriteOpens
      <3>2. calls' = calls
        BY <2>1 DEF WriteOpens, Others
      <3> QED BY <3>1, <3>2, FailureCount DEF Bounds
    <2>2. CASE ~WriteOpens(t)
      BY <1>2, <2>2 DEF OutputStep, Lock, Quiet, Others, Write, WriteLooks, WriteRechecks,
         WriteEnds, StandbyDone, Route, Bounds
    <2> QED BY <2>1, <2>2
  <1>3. CASE InputStep(t)
    <2>1. CASE ReadOpens(t)
      <3>1. PICK failOut \in Fails, failIn \in Fails :
              Count(IF failOut = "no" THEN failIn ELSE failOut)
        BY <2>1 DEF ReadOpens
      <3>2. calls' = calls
        BY <2>1 DEF ReadOpens, Others
      <3> QED BY <3>1, <3>2, FailureCount DEF Bounds
    <2>3. CASE Source(t)
      <3>1. PICK fail \in Fails : Count(fail)
        BY <2>3 DEF Source
      <3>2. calls' = calls
        BY <2>3 DEF Source, Others
      <3> QED BY <3>1, <3>2, FailureCount DEF Bounds
    <2>2. CASE ~ReadOpens(t) /\ ~Source(t)
      BY <1>3, <2>2 DEF InputStep, Lock, Quiet, Others, Read, ReadLooks, ReadRechecks, ReadEnds,
         InStandby, InEnds, RouteIn, Effect, GiveBackReference, StandbyInEnds, Bounds
    <2> QED BY <2>1, <2>2, <2>3
  <1>4. CASE HardwareStep(t)
    <2>1. CASE ModeCall(t)
      <3>1. PICK fail \in Fails : Count(fail)
        BY <2>1 DEF ModeCall
      <3>2. calls' = calls
        BY <2>1 DEF ModeCall
      <3> QED BY <3>1, <3>2, FailureCount DEF Bounds
    <2>2. CASE ~ModeCall(t)
      BY <1>4, <2>2 DEF HardwareStep, Lock, Quiet, Others, ModeLooksOut, ModeRechecksOut,
         ModeLooksIn, ModeRechecksIn, ModeSet, ModeCallEnds, ModeEnds, MicMute, CloseOutput,
         Bounds
    <2> QED BY <2>1, <2>2
  <1> QED BY <1>1, <1>2, <1>3, <1>4 DEF Step

-----------------------------------------------------------------------------
AudioInv == Control /\ Data /\ Bounds

LEMMA AudioInitInv == Init => AudioInv
  BY InitControl, InitData DEF AudioInv

LEMMA StepInv ==
  ASSUME AudioInv, NEW t \in Threads, Call(t) \/ Step(t)
  PROVE  AudioInv'
  <1>1. Bounds'
    BY BoundsKept DEF AudioInv
  <1>2. Control /\ Data
    BY DEF AudioInv
  <1>3. CASE Call(t)
    BY <1>1, <1>2, <1>3, CallControl, CallData DEF AudioInv
  <1>4. CASE OutputStep(t)
    <2>1. Control'
      BY <1>2, <1>4, LocksControl, OutputControl DEF OutputStep
    <2>2. Data'
      BY <1>2, <1>4, LocksData, SteadyOutput, WriteOpensData, WriteEndsData, OutputEndsData
         DEF OutputStep
    <2> QED BY <1>1, <2>1, <2>2 DEF AudioInv
  <1>5. CASE InputStep(t)
    <2>1. Control'
      BY <1>2, <1>5, LocksControl, InputControl DEF InputStep, GiveBackReference
    <2>2. Data'
      <3>1. CASE InStandby(t) \/ RouteIn(t)
        <4>1. CASE StandbyIn(t, Now, "inEnd")
          <5>1. (pc[t] = "inStandbyDo" \/ pc[t] = "inRouteDo") /\ Others
            BY <3>1 DEF InStandby, RouteIn
          <5> QED BY <1>2, <4>1, <5>1, InStandbyData
        <4>2. CASE ~StandbyIn(t, Now, "inEnd")
          <5>1. /\ pc[t] = "inRouteDo" /\ Goto(t, "inEnd") /\ UNCHANGED <<streams, owner, back>>
                /\ Others
            BY <3>1, <4>2 DEF InStandby, RouteIn
          <5>2. Moves(t) /\ pc'[t] = "inEnd" /\ SameStreams
            BY <1>2, <3>1, <5>1, InputControl, GotoMoves, QuietStreams DEF Control
          <5>3. Steady(t)
            BY <5>1, <5>2 DEF Steady, Ending, DsPlaces, WritePlaces, ReadPlaces
          <5>4. pc[t] # "dsOut"
            BY <5>1
          <5> QED BY <1>2, <5>2, <5>3, <5>4, SameData
        <4> QED BY <4>1, <4>2
      <3>2. CASE \/ Read(t) \/ ReadLooks(t) \/ ReadRechecks(t) \/ InEnds(t) \/ Effect(t)
                 \/ ReadOpens(t) \/ ReadEnds(t) \/ Source(t) \/ StandbyInEnds(t)
        BY <1>2, <3>2, SteadyInput, ReadOpensData, ReadEndsData, SourceData, StandbyInEndsData
      <3>3. CASE ~(\/ Read(t) \/ ReadLooks(t) \/ ReadRechecks(t) \/ InEnds(t) \/ Effect(t)
                   \/ ReadOpens(t) \/ ReadEnds(t) \/ Source(t) \/ StandbyInEnds(t)
                   \/ InStandby(t) \/ RouteIn(t))
        BY <1>2, <1>5, <3>3, LocksData DEF InputStep, GiveBackReference
      <3> QED BY <3>1, <3>2, <3>3
    <2> QED BY <1>1, <2>1, <2>2 DEF AudioInv
  <1>6. CASE HardwareStep(t)
    <2>1. Control'
      BY <1>2, <1>6, LocksControl, HardwareControl DEF HardwareStep
    <2>2. Data'
      BY <1>2, <1>6, LocksData, SteadyHardware, ModeSetData, ModeCallData, ModeCallEndsData
         DEF HardwareStep
    <2> QED BY <1>1, <2>1, <2>2 DEF AudioInv
  <1> QED BY <1>3, <1>4, <1>5, <1>6 DEF Step

LEMMA AudioNextInv == AudioInv /\ [Next]_vars => AudioInv'
  <1> SUFFICES ASSUME AudioInv, [Next]_vars PROVE AudioInv'
    OBVIOUS
  <1>1. CASE Next
    BY <1>1, StepInv DEF Next
  <1>2. CASE UNCHANGED vars
    <2>1. /\ owner' = owner /\ pc' = pc /\ back' = back /\ out' = out /\ inp' = inp /\ hw' = hw
          /\ goal' = goal /\ missed' = missed /\ callFailed' = callFailed
          /\ failures' = failures /\ calls' = calls
      BY <1>2 DEF vars, streams, history
    <2>2. Control'
      BY <2>1 DEF AudioInv, Control, ControlTypes, Program, Holds
    <2>3. Bounds'
      BY <2>1 DEF AudioInv, Bounds
    <2>4. SameStreams
      BY <2>1 DEF AudioInv, SameStreams, Data, DataTypes, OutType, InType, HwType
    <2>5. Still
      BY <2>1 DEF Still, Writing, WriteDone, WriteWaits, ReopensInput, Reading, ReadDone,
         EntersCall, LeavesCall, AtOrBack, Stuck, WaitsForItself
    <2> QED BY <2>2, <2>3, <2>4, <2>5, StillData DEF AudioInv
  <1> QED BY <1>1, <1>2

\* The invariant: where the threads are, what they left behind, and how often.
LEMMA Inductive == Spec => []AudioInv
  BY AudioInitInv, AudioNextInv, PTL DEF Spec

-----------------------------------------------------------------------------
\* The shared PCM and the mixer are open exactly for those that use them, a stream has its
\* PCM when it is not in standby, and no stream keeps one that was closed under it
\* (openPcmOut_l, closePcmOut_l, doStandby_l, setMode): in every interleaving of write, read,
\* setMode and their re-locking, whichever opens fail.
THEOREM DevicesHaveTheirUsers == Spec => []PcmsHaveUsers
  <1> SUFFICES ASSUME AudioInv PROVE PcmsHaveUsers
    BY Inductive, PTL
  <1>1. Control /\ Data /\ Bounds
    BY DEF AudioInv
  <1>2. TypeOK
    <2>1. hw.pcms <= 2 /\ hw.mixers <= 3
      BY <1>1 DEF Data, DataTypes, HwType, Counts, InCall, One
    <2> QED BY <1>1, <2>1 DEF TypeOK, Control, ControlTypes, Data, DataTypes, Bounds
  <1>3. StandbyMeansClosed
    <2>1. owner["out"] = "free" => ~WriteDone /\ ~WriteWaits
      BY <1>1 DEF Control, Program, Holds, OutMust, WriteDone, WriteWaits
    <2>2. owner["hw"] = "free" => ~ReadDone
      BY <1>1 DEF Control, Holds, HwPlaces, ReadDone
    <2>3. (\A t \in Threads : pc[t] # "dsOut") => ~WriteWaits
      BY DEF WriteWaits
    <2> QED BY <1>1, <2>1, <2>2, <2>3 DEF Data, OutShape, InShape, StandbyMeansClosed
  <1>4. CountsMatch
    <2>1. AllFree /\ (\A t \in Threads : pc[t] # "dsOut") => ~LeavesCall
      BY <1>1 DEF AllFree, Control, ControlTypes, Holds, HwPlaces, OutMust, LeavesCall, AtOrBack,
         DsPlaces
    <2> QED BY <1>1, <2>1 DEF Data, Counts, InCall, CountsMatch, One
  <1>5. NoDanglingPcm
    BY <1>1 DEF Data, Alive, Stuck, NoDanglingPcm
  <1> QED BY <1>2, <1>3, <1>4, <1>5 DEF PcmsHaveUsers

\* The devices follow the mode (setMode, setInputSource_l, doRouting): a call is what the mode
\* says between calls of setMode, in it the microphone is the default one, playback after it
\* goes to the device asked for, and the echo reference in use is not released.
THEOREM SoundFollows == Spec => []SoundFollowsMode
  <1> SUFFICES ASSUME AudioInv PROVE SoundFollowsMode
    BY Inductive, PTL
  <1>1. Control /\ Data
    BY DEF AudioInv
  <1>2. pc["client"] = "idle" => ~EntersCall /\ ~LeavesCall
    BY DEF EntersCall, LeavesCall, AtOrBack, DsPlaces
  <1>3. AllFree => ~Stuck
    BY <1>1 DEF AllFree, Control, ControlTypes, Stuck, WaitsForItself
  <1>4. CallFollowsMode
    BY <1>1, <1>2 DEF Data, ModeAgrees, CallFollowsMode
  <1>5. CallUsesDefaultSource /\ ReferenceAlive
    BY <1>1 DEF Data, Told, Heard, CallUsesDefaultSource
  <1>6. PlaysOnItsDevice
    BY <1>1, <1>2, <1>3 DEF Data, ModeAgrees, Routed, PlaysOnItsDevice
  <1> QED BY <1>4, <1>5, <1>6 DEF SoundFollowsMode
==============================================================================
