----------------------------- MODULE CameraHal -----------------------------
(* CameraHardwareSec (libcamera/SecCameraHWInterface.cpp): the client's calls,  *)
(* the preview thread, the picture thread and the focus thread, with the locks  *)
(* and conditions between them.  One step is a stretch under a lock, or one     *)
(* access without it.  The client makes one call at a time.                     *)
EXTENDS Naturals

CONSTANTS
  Windows,       \* preview windows; "none" is NULL
  WindowFails,   \* the window's operations may fail
  ChangeRunning, \* the client may change the window while the preview runs
  EarlyRelease   \* the client may release while the preview thread is on its way to wait

VARIABLES
  lock,          \* who holds mPreviewLock: "free", "client", "preview"
  previewRunning, \* mPreviewRunning
  deferred,      \* mPreviewStartDeferred
  window,        \* mPreviewWindow
  deviceOn,      \* mSecCamera streams the preview
  startFailed,   \* the last startPreview of the device failed
  exitPreview,   \* mExitPreviewThread
  client,        \* where the client's call is
  after,         \* what follows stopPreviewInternal: a place of the client
  preview,       \* where the preview thread is
  frameOf,       \* the window the thread's buffer came from, or "none"
  captureFlag,   \* mCaptureInProgress
  picture,       \* the picture thread: "none", "running", "ending"
  focus,         \* the focus thread: "start", "waiting", "busy", "gone"
  exitFocus      \* mExitAutoFocusThread

previewVars == <<lock, previewRunning, deferred, window, deviceOn, startFailed,
                 exitPreview, frameOf>>
captureVars == <<captureFlag, picture>>
focusVars == <<focus, exitFocus>>
vars == <<previewVars, client, after, preview, captureVars, focusVars>>

Init ==
  /\ lock = "free" /\ previewRunning = FALSE /\ deferred = FALSE
  /\ window = "none" /\ deviceOn = FALSE /\ startFailed = FALSE
  /\ exitPreview = FALSE /\ frameOf = "none"
  /\ client = "idle" /\ after = "idle" /\ preview = "top"
  /\ captureFlag = FALSE /\ picture = "none"
  /\ focus = "start" /\ exitFocus = FALSE

Goto(place) == client' = place

(***************************************************************************)
(* The preview thread: previewThreadWrapper and previewThread              *)
(***************************************************************************)

\* mPreviewCondition.signal: wakes the thread only if it waits
Wake == preview' = IF preview = "waiting" THEN "woken" ELSE preview

\* Top of the loop, and return from the wait, with mPreviewLock
PreviewCheck ==
  /\ preview \in {"top", "woken"} /\ lock = "free"
  /\ \/ previewRunning /\ preview' = "unlocked" /\ UNCHANGED lock
     \/ ~previewRunning /\ preview' = "stopping" /\ lock' = "preview"
  /\ UNCHANGED <<previewRunning, deferred, window, deviceOn, startFailed, exitPreview,
                 frameOf, client, after, captureVars, focusVars>>

\* stopPreview of the device, the signal of mPreviewStoppedCondition, the wait

PreviewStop ==
  /\ preview = "stopping"
  /\ deviceOn' = FALSE /\ lock' = "free" /\ preview' = "waiting"
  /\ client' = IF client = "stopWaits" THEN "stopped" ELSE client
  /\ UNCHANGED <<previewRunning, deferred, window, startFailed, exitPreview, frameOf,
                 after, captureVars, focusVars>>

PreviewExit ==
  /\ preview = "unlocked" /\ exitPreview
  /\ preview' = "gone" /\ deviceOn' = FALSE
  /\ UNCHANGED <<lock, previewRunning, deferred, window, startFailed, exitPreview,
                 frameOf, client, after, captureVars, focusVars>>

\* previewThread: getPreview, which may find the camera stalled and stop it; a
\* window buffer is taken if there is a window
PreviewFrame ==
  /\ preview = "unlocked" /\ ~exitPreview
  /\ \/ deviceOn /\ UNCHANGED deviceOn
        /\ frameOf' = window
        /\ preview' = IF window = "none" THEN "top" ELSE "draw"
     \/ deviceOn' = FALSE /\ preview' = "top" /\ UNCHANGED frameOf
  /\ UNCHANGED <<lock, previewRunning, deferred, window, startFailed, exitPreview,
                 client, after, captureVars, focusVars>>

\* the copy, and enqueue_buffer of whatever mPreviewWindow is then
PreviewDraw ==
  /\ preview = "draw"
  /\ preview' = "top" /\ frameOf' = "none"
  /\ UNCHANGED <<lock, previewRunning, deferred, window, deviceOn, startFailed,
                 exitPreview, client, after, captureVars, focusVars>>

(***************************************************************************)
(* startPreview, stopPreview, setPreviewWindow                             *)
(***************************************************************************)

\* waitCaptureCompletion before startPreview, takePicture and setParameters
\* returns when no capture is in progress; after five seconds the call returns
WaitCapture(place, next) ==
  /\ client = place
  /\ \/ ~captureFlag /\ Goto(next)
     \/ captureFlag /\ Goto("idle")
  /\ UNCHANGED <<previewVars, after, preview, captureVars, focusVars>>

\* startPreviewInternal, and the signal when it succeeded
StartInternal ==
  \/ deviceOn' = TRUE /\ startFailed' = FALSE /\ Wake /\ deferred' = FALSE
  \/ /\ startFailed' = TRUE /\ UNCHANGED <<deviceOn, preview>>
     /\ deferred' = (deferred /\ previewRunning)

\* MUTANT: startPreview does not take mPreviewLock
StartPreview_Unlocked ==
  /\ client = "start" /\ Goto("idle")
  /\ \/ previewRunning
        /\ UNCHANGED <<previewRunning, deferred, deviceOn, startFailed, preview>>
     \/ /\ ~previewRunning /\ previewRunning' = TRUE
        /\ \/ window = "none" /\ deferred' = TRUE /\ UNCHANGED <<deviceOn, startFailed, preview>>
           \/ window # "none" /\ StartInternal
  /\ UNCHANGED <<lock, window, exitPreview, frameOf, after, captureVars, focusVars>>
StartPreview ==
  /\ client = "start" /\ lock = "free" /\ Goto("idle")
  /\ \/ previewRunning
        /\ UNCHANGED <<previewRunning, deferred, deviceOn, startFailed, preview>>
     \/ /\ ~previewRunning /\ previewRunning' = TRUE
        /\ \/ window = "none" /\ deferred' = TRUE /\ UNCHANGED <<deviceOn, startFailed, preview>>
           \/ window # "none" /\ StartInternal
  /\ UNCHANGED <<lock, window, exitPreview, frameOf, after, captureVars, focusVars>>

\* stopPreviewInternal: mPreviewRunning is cleared, and unless the start was
\* deferred the thread is woken and waited for, without the lock
\* MUTANT: the thread is not waited for
StopInternal_NoWait(place, next) ==
  /\ client = place /\ lock = "free"
  /\ previewRunning' = FALSE /\ Goto(next)
  /\ IF previewRunning /\ ~deferred THEN Wake ELSE UNCHANGED preview
  /\ UNCHANGED <<lock, deferred, window, deviceOn, startFailed, exitPreview, frameOf,
                 after, captureVars, focusVars>>
StopInternal(place, next) ==
  /\ client = place /\ lock = "free"
  /\ previewRunning' = FALSE
  /\ IF previewRunning /\ ~deferred
     THEN Wake /\ Goto("stopWaits") /\ after' = next
     ELSE UNCHANGED <<preview, after>> /\ Goto(next)
  /\ UNCHANGED <<lock, deferred, window, deviceOn, startFailed, exitPreview, frameOf,
                 captureVars, focusVars>>

\* the wait returns with the lock; stopPreview gives it up, setPreviewWindow
\* goes on
StopReturns ==
  /\ client = "stopped" /\ lock = "free"
  /\ Goto(after)
  /\ UNCHANGED <<previewVars, after, preview, captureVars, focusVars>>

StopPreview == StopInternal("stop", "idle")

\* mPreviewWindow is written before the lock is taken
SetPreviewWindow(w) ==
  /\ client = "window"
  /\ window' = w
  /\ Goto(IF w = "none" THEN "idle" ELSE "windowLock")
  /\ UNCHANGED <<lock, previewRunning, deferred, deviceOn, startFailed, exitPreview,
                 frameOf, after, preview, captureVars, focusVars>>

WindowStops ==
  \/ previewRunning /\ ~deferred /\ StopInternal("windowLock", "windowSet")
  \/ /\ client = "windowLock" /\ lock = "free" /\ ~(previewRunning /\ ~deferred)
     /\ Goto("windowSet")
     /\ UNCHANGED <<previewVars, after, preview, captureVars, focusVars>>

\* the operations on the window: an error returns with mPreviewLock held
WindowSet ==
  /\ client = "windowSet" /\ lock = "free" /\ Goto("idle")
  /\ \/ WindowFails /\ lock' = "client"
        /\ UNCHANGED <<deferred, deviceOn, startFailed, preview>>
     \/ /\ UNCHANGED lock
        /\ IF previewRunning /\ deferred THEN StartInternal
           ELSE UNCHANGED <<deferred, deviceOn, startFailed, preview>>
  /\ UNCHANGED <<previewRunning, window, exitPreview, frameOf, after, captureVars,
                 focusVars>>

(***************************************************************************)
(* Pictures                                                                *)
(***************************************************************************)

TakePictureStops == StopInternal("picture", "pictureWait")

\* the thread is run, and mCaptureInProgress set only then
RunPicture ==
  /\ client = "pictureRun"
  /\ \/ picture = "none" /\ picture' = "running" /\ Goto("pictureFlag")
     \/ picture # "none" /\ UNCHANGED picture /\ Goto("idle")      \* run refuses
  /\ UNCHANGED <<previewVars, after, preview, captureFlag, focusVars>>

SetCaptureFlag ==
  /\ client = "pictureFlag" /\ captureFlag' = TRUE /\ Goto("idle")
  /\ UNCHANGED <<previewVars, after, preview, picture, focusVars>>

\* pictureThread up to its end, where the flag is cleared
PictureDone ==
  /\ picture = "running" /\ picture' = "ending" /\ captureFlag' = FALSE
  /\ UNCHANGED <<previewVars, client, after, preview, focusVars>>

PictureExit ==
  /\ picture = "ending" /\ picture' = "none"
  /\ UNCHANGED <<previewVars, client, after, preview, captureFlag, focusVars>>

CancelPicture ==
  /\ client = "cancel" /\ picture = "none" /\ Goto("idle")
  /\ UNCHANGED <<previewVars, after, preview, captureVars, focusVars>>

SetParameters ==
  /\ client = "set" /\ Goto("idle")
  /\ UNCHANGED <<previewVars, after, preview, captureVars, focusVars>>

(***************************************************************************)
(* Focus                                                                   *)
(***************************************************************************)

\* autoFocusThread: the wait has no predicate
FocusWait ==
  /\ focus = "start" /\ focus' = IF exitFocus THEN "gone" ELSE "waiting"
  /\ UNCHANGED <<previewVars, client, after, preview, captureVars, exitFocus>>

FocusDone ==
  /\ focus = "busy" /\ focus' = IF exitFocus THEN "gone" ELSE "start"
  /\ UNCHANGED <<previewVars, client, after, preview, captureVars, exitFocus>>

\* autoFocus: the signal, which is lost unless the thread waits
AutoFocus ==
  /\ client = "focus" /\ Goto("idle")
  /\ focus' = IF focus = "waiting" THEN "busy" ELSE focus
  /\ UNCHANGED <<previewVars, after, preview, captureVars, exitFocus>>

(***************************************************************************)
(* release                                                                 *)
(***************************************************************************)

\* without mPreviewLock
ReleaseFlags ==
  /\ client = "release"
  /\ exitPreview' = TRUE /\ previewRunning' = TRUE /\ Goto("releaseSignal")
  /\ UNCHANGED <<lock, deferred, window, deviceOn, startFailed, frameOf, after, preview,
                 captureVars, focusVars>>

ReleaseSignal ==
  /\ client = "releaseSignal" /\ Wake /\ Goto("releaseJoin")
  /\ UNCHANGED <<previewVars, after, captureVars, focusVars>>

ReleaseJoin ==
  /\ client = "releaseJoin" /\ preview = "gone" /\ Goto("releaseFocus")
  /\ UNCHANGED <<previewVars, after, preview, captureVars, focusVars>>

\* with mFocusLock
ReleaseFocus ==
  /\ client = "releaseFocus" /\ exitFocus' = TRUE /\ Goto("releaseEnd")
  /\ focus' = IF focus = "waiting" THEN "gone" ELSE focus
  /\ UNCHANGED <<previewVars, after, preview, captureVars>>

ReleaseEnd ==
  /\ client = "releaseEnd" /\ focus = "gone" /\ picture = "none"
  /\ Goto("released")
  /\ UNCHANGED <<previewVars, after, preview, captureVars, focusVars>>

(***************************************************************************)

\* The client: the next call
Settled == preview = "waiting"
Call ==
  /\ client = "idle"
  /\ \/ Goto("startWait") \/ Goto("stop") \/ Goto("pictureWait0") \/ Goto("setWait")
     \/ Goto("cancel") \/ Goto("focus")
     \/ (ChangeRunning \/ ~previewRunning \/ deferred) /\ Goto("window")
     \/ (EarlyRelease \/ Settled) /\ ~previewRunning /\ Goto("release")
  /\ UNCHANGED <<previewVars, after, preview, captureVars, focusVars>>

TakePicture ==
  /\ client = "pictureWait0" /\ Goto("picture")
  /\ UNCHANGED <<previewVars, after, preview, captureVars, focusVars>>

ClientStep ==
  \/ WaitCapture("startWait", "start") \/ WaitCapture("pictureWait", "pictureRun")
  \/ WaitCapture("setWait", "set")
  \/ StartPreview \/ StopPreview \/ StopReturns
  \/ (\E w \in Windows \cup {"none"} : SetPreviewWindow(w)) \/ WindowStops \/ WindowSet
  \/ TakePicture \/ TakePictureStops \/ RunPicture \/ SetCaptureFlag \/ CancelPicture
  \/ SetParameters \/ AutoFocus
  \/ ReleaseFlags \/ ReleaseSignal \/ ReleaseJoin \/ ReleaseFocus \/ ReleaseEnd
PreviewStep == PreviewCheck \/ PreviewStop \/ PreviewExit \/ PreviewFrame \/ PreviewDraw
PictureStep == PictureDone \/ PictureExit
FocusStep == FocusWait \/ FocusDone

Next == Call \/ ClientStep \/ PreviewStep \/ PictureStep \/ FocusStep

Spec == Init /\ [][Next]_vars
\* Threads are scheduled, and calls return from poll and from the window
FairSpec ==
  /\ Spec /\ WF_vars(ClientStep)
  /\ WF_vars(PreviewStep) /\ WF_vars(PictureStep) /\ WF_vars(FocusStep)

-----------------------------------------------------------------------------
ClientPlaces == {"idle", "startWait", "start", "stop", "stopWaits", "stopped",
  "pictureWait0", "picture", "pictureWait", "pictureRun", "pictureFlag", "setWait",
  "set", "cancel", "focus", "window", "windowLock", "windowSet", "release",
  "releaseSignal", "releaseJoin", "releaseFocus", "releaseEnd", "released"}

TypeOK ==
  /\ lock \in {"free", "client", "preview"}
  /\ {previewRunning, deferred, deviceOn, startFailed, exitPreview, captureFlag,
      exitFocus} \subseteq BOOLEAN
  /\ {window, frameOf} \subseteq Windows \cup {"none"}
  /\ {client, after} \subseteq ClientPlaces
  /\ preview \in {"top", "woken", "stopping", "waiting", "unlocked", "draw", "gone"}
  /\ picture \in {"none", "running", "ending"}
  /\ focus \in {"start", "waiting", "busy", "gone"}

\* A preview that was started runs: the signal of startPreview or
\* setPreviewWindow does not fall between the thread's test and its wait.
StartWakesThread ==
  client = "idle" /\ previewRunning /\ ~deferred /\ ~startFailed => preview # "waiting"

\* When stopPreview, takePicture or a change of window has returned, the device
\* has stopped, whatever the preview thread was doing.
StopStops == client = "idle" /\ ~previewRunning => ~deviceOn

\* A buffer goes back to the window it was taken from, as long as the client
\* changes the window only when the preview is stopped or deferred.
BufferGoesHome == preview = "draw" /\ ~ChangeRunning => frameOf = window

\* While the picture thread uses the sensor the preview is off, and no call
\* configures or starts the device.
PictureAlone ==
  picture = "running" => ~deviceOn /\ client \notin {"start", "set", "pictureRun"}

\* Every call returns, unless an error of setPreviewWindow has left mPreviewLock
\* locked: the waits for the preview, picture and focus threads are answered.
CallsReturn ==
  client # "idle" ~> client \in {"idle", "released"} \/ lock = "client"
=============================================================================
