-------------------------- MODULE CameraParameters --------------------------
(* CameraHardwareSec::setParameters and its callers' view of the settings       *)
(* (libcamera/SecCameraHWInterface.cpp), on the device of CameraDevice: what    *)
(* mParameters reports, what the device caches, what the driver was told.       *)
EXTENDS CameraDevice

VARIABLES
  running,       \* the preview thread gets frames (mPreviewRunning, not deferred)
  reported,      \* mParameters, the keys that stand for settings in use
  reportedSize,  \* mParameters: the preview size
  heapSize,      \* frame size mPreviewHeap was allocated for, or Unset
  resized,       \* a size was changed while the preview ran, and refused
  refused,       \* keys whose last value the device did not accept
  gps,           \* device: m_gps_enabled, and the coordinates last stored
  place          \* mParameters: latitude and longitude, Unset when removed

halVars == <<running, reported, reportedSize, heapSize, resized, refused, gps, place>>
vars == <<deviceVars, halVars>>

HalKeys == {"white_balance", "brightness", "effects"} \cup
           (IF FrontCamera THEN {} ELSE {"scene_mode", "flash_mode", "focus_mode"})
Keys == HalKeys \cap used

\* What a client can ask for: a value of each key, where a scene may be one the
\* device does not have; in behaviours about no key, a size and a position
Offers(k) == ValuesOf(k) \cup (IF k = "scene_mode" THEN {"theatre"} ELSE {})
OfferedSizes == IF Keys = {} THEN Sizes \cup {"unsupported"} ELSE {previewSize}
Places == IF Keys = {} THEN {Unset, "here", "there"} ELSE {Unset}
Requests == [setting : {f \in [Keys -> UNION {Offers(k) : k \in Keys}] :
                            \A k \in Keys : f[k] \in Offers(k)},
             size : OfferedSizes, latitude : Places, longitude : Places]

\* A scene other than auto decides about focus and flash
SceneFlash(scene) == IF scene = "portrait" THEN "auto" ELSE "off"
Forced(f) ==
  IF "scene_mode" \notin Keys \/ f["scene_mode"] = "auto" THEN f
  ELSE [k \in Keys |-> CASE k = "flash_mode" -> SceneFlash(f["scene_mode"])
                         [] k = "focus_mode" -> "auto"
                         [] OTHER -> f[k]]

\* The calls in their order; focus_mode is not sent by its setter, the internal
\* parameters (contrast, wdr, vtmode, blur, ...) keep their defaults
Sends(k) == flagStart /\ k # "focus_mode"
Known(f) == {k \in Keys : f[k] \in ValuesOf(k)}
Apply(d, k, f, fails) == IF k \in Known(f) THEN Store(d, k, f[k], Sends(k), fails) ELSE d
ApplyAll(f, fails) ==
  LET toned == Apply(Apply(Current, "brightness", f, fails), "white_balance", f, fails)
      lit == Apply(Apply(toned, "focus_mode", f, fails), "flash_mode", f, fails)
  IN Apply(Apply(lit, "scene_mode", f, fails), "effects", f, fails)

\* setPreviewSize is called before it is found that the preview is running
ApplySize(r) ==
  IF r.size \notin Sizes \/ r.size = previewSize
  THEN UNCHANGED <<previewSize, reportedSize, resized>>
  ELSE /\ previewSize' = r.size /\ reportedSize' = r.size
       /\ resized' = (resized \/ running)

\* setGPSLatitude and setGPSLongitude: the second decides about m_gps_enabled,
\* a missing coordinate leaves the stored one
Coordinate(stored, new) == IF new = Unset THEN stored ELSE new
ApplyPlace(r) ==
  /\ gps' = [enabled   |-> r.longitude # Unset,
             latitude  |-> Coordinate(gps.latitude, r.latitude),
             longitude |-> Coordinate(gps.longitude, r.longitude)]
  /\ place' = [latitude |-> r.latitude, longitude |-> r.longitude]

\* setParameters goes on after a call that failed, and returns UNKNOWN_ERROR
SetParameters(r, fails) ==
  /\ flagInit
  /\ LET want == Forced(r.setting)
         d == ApplyAll(want, fails)
     IN /\ d.failed = fails                      \* the calls that fail were made
        /\ Become(d)
        /\ reported' = [k \in Keys |-> IF k \in Known(want) \ fails THEN want[k]
                                       ELSE reported[k]]
        /\ refused' = (refused \ Known(want)) \cup fails
        /\ ret' = IF fails = {} /\ Known(want) = Keys /\ r.size \in Sizes
                     /\ ~(running /\ r.size # previewSize) THEN 0 ELSE -1
  /\ failures' = failures + Cardinality(fails) /\ failures' <= MaxFailures
  /\ ApplySize(r)
  /\ ApplyPlace(r)
  /\ UNCHANGED <<used, nodes, streams, running, heapSize>>

\* startPreviewInternal: the heap is allocated for the size of the moment
HalStartPreview ==
  /\ ~running
  /\ StartPreview
  /\ running' = (ret' = 0)
  /\ heapSize' = IF ret' = 0 THEN previewSize ELSE heapSize
  /\ UNCHANGED <<reported, reportedSize, refused, gps, place>>
  /\ resized' = (resized /\ ret' = -1)

\* stopPreviewInternal, and stopPreview of the device on the preview thread
HalStopPreview ==
  /\ running /\ running' = FALSE
  /\ \/ StopPreview
     \/ ~flagStart /\ UNCHANGED deviceVars
  /\ UNCHANGED <<reported, reportedSize, heapSize, resized, refused, gps, place>>

\* getPreview when no frame came for a second, or the device is stopped
\* already: the device is stopped, and restarted unless its input can be
\* enumerated
Stall ==
  /\ running
  /\ IF flagStart THEN TorchOff(TRUE) ELSE UNCHANGED settings
  /\ flagStart' = FALSE /\ stream' = "off" /\ ret' = -1
  /\ UNCHANGED <<used, opened, flagInit, flagRecord, stream2, queued2, broken,
                 streamSize, previewSize, failures, halVars>>

StallRestarted ==
  /\ running /\ May /\ ~(flagStart /\ Torch)
  /\ failures' = failures + 1                   \* ENUMINPUT fails
  /\ flagStart' = TRUE /\ stream' = "preview" /\ streamSize' = previewSize /\ ret' = 0
  /\ driver' = Send(SentAtStart \cup SentByParm)
  /\ astray' = astray \ (SentAtStart \cup SentByParm)
  /\ UNCHANGED <<used, opened, flagInit, flagRecord, stream2, queued2, broken, cache,
                 previewSize, halVars>>

\* release stops the preview thread first
HalRelease == DeinitCamera /\ ~running /\ ~flagStart /\ UNCHANGED halVars
HalOpen == InitCamera /\ UNCHANGED halVars
HalPicture == TakePicture /\ ~running /\ UNCHANGED halVars
HalRecord == (StartRecord \/ StopRecord) /\ UNCHANGED halVars

Init ==
  /\ DeviceInit
  /\ running = FALSE
  /\ reported = [k \in Keys |-> Unset]
  /\ reportedSize = previewSize /\ heapSize = Unset /\ resized = FALSE /\ refused = {}
  /\ gps = [enabled |-> FALSE, latitude |-> Unset, longitude |-> Unset]
  /\ place = [latitude |-> Unset, longitude |-> Unset]

Next ==
  \/ \E r \in Requests, fails \in SUBSET Keys : SetParameters(r, fails)
  \/ HalStartPreview \/ HalStopPreview \/ Stall \/ StallRestarted
  \/ HalRelease \/ HalOpen \/ HalPicture \/ HalRecord

Spec == Init /\ [][Next]_vars

-----------------------------------------------------------------------------
TypeOK ==
  /\ used \in Uses /\ opened \in BOOLEAN \X BOOLEAN
  /\ {flagInit, flagStart, flagRecord, stream2, broken, running, resized} \subseteq BOOLEAN
  /\ stream \in {"off", "preview", "snapshot"} /\ queued2 \subseteq RecordBuffers
  /\ {previewSize, streamSize, reportedSize} \subseteq Sizes
  /\ heapSize \in Sizes \cup {Unset} /\ astray \subseteq used /\ refused \subseteq Keys
  /\ failures \in 0..MaxFailures /\ ret \in {0, -1}

\* While the preview streams, the driver has the cached value of everything that
\* S_PARM carries, however settings, starts and stops were ordered; except where
\* an ioctl failed.
DriverFollows ==
  flagStart => \A s \in (Parm \ {"focus_mode"}) \cap used :
                 driver[s] = cache[s] \/ s \in astray

\* The torch does not go on burning when the preview has stopped.
TorchGoesOut ==
  ~flagStart /\ "flash_mode" \in used \ astray => driver["flash_mode"] # "torch"

\* What mParameters reports is what the device caches, except for a setting it
\* was refused, and for the torch that stopPreview put out behind its back.
ReportsTheDevice ==
  \A k \in Keys : \/ reported[k] \in {cache[k], Unset} \/ k \in refused
                  \/ k = "flash_mode" /\ cache[k] = "off" /\ reported[k] = "torch"

\* A scene chosen by the client never runs with the torch on.
SceneExcludesTorch ==
  {"scene_mode", "flash_mode"} \subseteq Keys /\ cache["scene_mode"] \in {"night", "portrait"}
    => cache["flash_mode"] # "torch"

\* The preview heap has the size of the frames that are copied into it, unless
\* the client changed the size while the preview ran and was told off.
HeapFitsFrames == running => heapSize = previewSize \/ resized

\* A picture carries a position only if the client's last request had a
\* longitude, and then the coordinates the client can read back.
PositionIsReported ==
  gps.enabled => /\ gps.longitude = place.longitude
                 /\ place.latitude # Unset => gps.latitude = place.latitude

\* Streams end with their owners: a node streams only while preview or recording
\* is on, unless a call failed half-way.
StreamsHaveOwners ==
  /\ stream = "preview" => flagStart
  /\ stream = "snapshot" => broken
  /\ stream2 => flagRecord \/ broken
=============================================================================
