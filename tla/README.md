# A verification development for android_device_samsung_smdkv210

The repository is the device tree of Samsung's SMDKV210 board: a complete
OpenMAX IL implementation on top of the MFC video codec, under
`src/common/s5p/sec_mm/sec_omx`, and the hardware abstraction libraries for
camera, audio, HDMI and display.  OpenMAX has most of the concurrency and is
modelled in most detail; the other libraries are modelled where they keep state
that outlives a call.  Paths below are relative to `src/common/s5p/` unless they
start with `src/`; `omx/` stands for `sec_mm/sec_omx/`.

1. [The system](#1-the-system)
2. [The modules](#2-the-modules)
3. [The runs](#3-the-runs)
4. [The proofs](#4-the-proofs)
5. [Where code and documentation disagree](#5-where-code-and-documentation-disagree)
6. [What is not modelled](#6-what-is-not-modelled)
7. [Plan](#7-plan)

## 1. The system

| Part | State it keeps | Operations | Who calls it, and what makes it correct |
|---|---|---|---|
| OSAL queue, `omx/sec_osal/SEC_OSAL_Queue.c` | ring of 10 nodes, two pointers, an element counter | Create, Queue, Dequeue, GetElemNum, SetElemNum | every port's `bufferQ` and every component's `messageQ`; FIFO, nothing lost or duplicated, the counter right |
| OSAL event, semaphore, mutex, thread | pauseEvent, bufferSemID, msgSemaphoreHandle, bufferMutex | set, reset, wait, post | the three kinds of thread of a component |
| OMX ports, `omx/sec_omx_component/common/SEC_OMX_Baseport.c` | per port: bufferQ, semaphore, flags `bIsPortFlushed`, `bIsPortDisabled`, `bEnabled`, `bPopulated`, `portState` | EmptyThisBuffer, FillThisBuffer, flush, enable, disable | client threads and the message handler; every buffer in one place and returned, commands conclude |
| OMX base component, `SEC_OMX_Basecomponent.c` | `currentState`, `transientState`, `messageQ` | SendCommand, the message handler thread, ComponentStateSet | the client, the resource manager; a command takes effect once, in the state it was meant for |
| OMX video decoder, `video/dec/SEC_OMX_Vdec.c` | the data buffer of each port, `reInputData`, `remainOutputData` | UseBuffer, FreeBuffer, the buffer process thread | one thread works on a data buffer at a time, input is consumed in order, nothing waits for a signal that was given |
| H.264 and MPEG-4 decoders | codec handle, time stamp ring, two input buffers, decode thread | bufferProcess, frame search, componentInit, componentTerminate | the buffer process thread; frames and time stamps stay together, the stream is cut at its pictures, drains end |
| video encoder, H.264 and MPEG-4 encoders | codec handle, time stamp ring, two halves of a stream buffer, encode thread | preprocessing, bufferProcess, postprocessing | the buffer process thread; every frame once, in order, after the header |
| parameters of the components | port definitions, profiles, native buffer and metadata flags | Get/SetParameter, Get/SetConfig, GetExtensionIndex, RoleEnum in three layers | the client; what was reported, allocated and set fits together, a refused call changes nothing |
| OMX resource manager, `SEC_OMX_Resourcemanager.c` | list of holders, list of waiters, one mutex | Get, Release, In and Out of WaitForResource, preemption | the message handlers of all components; no more holders than codecs, the right one preempted, nobody forgotten |
| OMX core and registry, `omx/sec_omx_core` | component table, handle list, loaded libraries | Init, Deinit, GetHandle, FreeHandle | processes using OpenMAX; a handle is listed once, nothing is left of one that is gone |
| MFC API, colour conversion | device file, instance, buffer addresses | open, init, exe, close | decoders and encoders |
| Camera HAL, `libcamera` | preview, focus and picture threads, locks, conditions; `mParameters`; settings of the V4L2 device | start and stop of the preview, setPreviewWindow, autofocus, takePicture, setParameters | the camera service; threads hand over, driver, cache and report agree |
| Audio HAL, `libaudio` | streams, PCM and mixer reference counts, three mutexes; capture buffers | write, read, standby, setMode, routing, effects | the audio service; devices open for their users only, no frame lost |
| HDMI service, CEC, DDC, EDID | cable and output state, EDID, two output buffers, CEC thread | connect, disconnect, flush, mode and resolution | TV-out clients and the composer; what plays fits the sink |
| Hardware composer, FIMC | windows with two buffers each; the converter's parameters | prepare, set; set source, destination, rotation | surface flinger; a window shows its layer, a conversion is the one asked for |
| G2D, JPEG, lights, sensors, Bluetooth, product files | device files | - | device I/O and configuration |

How the OpenMAX parts interact.  A component has a *message handler thread*,
which executes commands one after the other, and between Loaded and Idle and
back a *buffer process thread*, which moves data.  Client threads call into the
component at any time: `SendCommand` sets the flags of the command on the
client's thread and queues it; `EmptyThisBuffer` and `FillThisBuffer` check
flags without a lock, queue the buffer, and post a semaphore.  The two inner
threads share a data buffer per port under `bufferMutex`, and the event
`pauseEvent`; both call back into the client.  Several components share the
resource manager, whose functions run on their message handler threads and
send commands to other components.

What is hard here, and what the properties are aimed at (the `hazards` of
`PROJECT.json`, with their lines): flags tested before a lock is taken or an
event reset; counting semaphore tokens and then waiting for them; callbacks
made before the slot they are about is cleared; a flush that assumes the queue
does not grow; two requests that share one flag; queues at their limit; a state
read in one component and acted upon in another; steps of a state change that
fail half-way; components waiting for something only others can give.

## 2. The modules

| Module | What it is |
|---|---|
| `OsalQueue`, `CountedFifo` | the ring of `SEC_OSAL_Queue.c`, node by node; what it promises: a bounded sequence with a settable count |
| `OmxBufferFlow` | one decoder component: client, message handler, buffer process thread |
| `ResourceManager`, `CodecPool` | several components and the resource manager; what the manager promises: codecs that are free or held, and a line of waiters |
| `OmxParameters` | the parameter calls of a component through its three layers |
| `OmxCore` | making and releasing components: core, registry, constructors, destructors, handler threads |
| `DecodePipeline`, `EncodePipeline` | a codec component against its codec thread |
| `StreamCutter` | how a decoder cuts a stream of bytes into frames |
| `CameraHal`, `CameraParameters`, `CameraDevice` | threads of the camera; its settings; its device |
| `AudioHardware`, `AudioCapture` | the locks, PCM devices and modes of the audio streams; the frames of a capture |
| `HdmiOutput`, `HdmiCec`, `Edid` | the HDMI output; its CEC thread; what is read from a sink (operators both use) |
| `SecFimc`, `HwComposer` | the converter's parameters; the windows of the composer |
| `MC_*` | instances for TLC |
| `CallsProofs`, `OmxBufferFlowProofs`, `ResourceManagerProofs`, `OmxCoreProofs`, `CodecProofs`, `HalProofs`, `DeviceProofs` | theorems |
| `MC_FlowProofs` | the theorems of `OmxBufferFlowProofs` brought to an instance of `MC_Flow` |

An MC module may hold several systems that do not touch each other, each an
`INSTANCE` over its own variables.  A variable `about`, chosen at the start, says
which one a behaviour is about; the others stay at their initial values, so that
the states add up and do not multiply.  A property that joins several named parts
is a conjunction of properties of the modules.  `MC_Calls` extends `OsalQueue`,
`MC_Hals` extends `AudioHardware` and `MC_Devices` extends `HdmiCec`, and have the other
systems as instances.  A proof module extends the module, or the MC module, in which
the run finds the property it proves.

### OsalQueue and CountedFifo

State: which datum each node holds, `first`, `last`, `numElem`, `maxNumElem`
as in the code.  `Queue` refuses when `last->data` is not NULL or the counter
has reached its limit; `Dequeue` returns nothing when `first->data` is NULL or
the counter is not positive; `SetElemNum` writes the counter and nothing else.
All three are under the queue's mutex and are one step each.  Create makes
MAX_QUEUE_ELEMENTS - 1 nodes; this is `NodeCount`, and it is why a bufferQ holds
nine buffers and not ten.

### OmxBufferFlow

One step is one shared access, one condition over several flags, or a stretch
of code that other threads cannot observe because of the mutex it holds.
`pc` has the place of every thread; labels are named for the code they stand
at.  `items` and `count` are the two things of a bufferQ that its callers can
tell apart, and `Refinement` (section 4) is the licence to use them;
`QueueCapacity` is `NodeCount`.

| Code | Actions |
|---|---|
| `SEC_OMX_EmptyThisBuffer`, `SEC_OMX_FillThisBuffer` | `StartCall` (the checks), `QueueBuffer`, `PostBuffer` |
| `SEC_OMX_UseBuffer`, `SEC_OMX_FreeBuffer` | `UseBuffers`, `FreeBuffers`, all buffers of a port at once |
| `SEC_OMX_SendCommand` | `SendStateSet`, `SendFlush`, `SendPortCommand` |
| `SEC_OMX_BufferProcess` | `OuterLoop`, `LoopSignalReset`, `LoopSignalWait`, `InnerLoop`, `CheckOutput`, `ChooseStage`, `PreprocessDone`, `DecodeLock`, `DecodeDone`, `PostprocessDone` |
| `SEC_InputBufferGetQueue`, `SEC_OutputBufferGetQueue` | `GetQueue`, `GetToken`, `DequeueBuffer` |
| `SEC_InputBufferReturn`, `SEC_OutputBufferReturn` | `ReturnNow`, `ReturnPauses`, `ReturnSignalReset`, `ReturnSignalWait`, on both threads |
| `SEC_Preprocessor_InputData`, `sec_mfc_bufferProcess`, `SEC_Postprocess_OutputData` | `Preprocess`, `Decode`, `Postprocess` |
| `SEC_OMX_BufferFlushProcess`, `...NoEvent`, the flush loop of `SEC_OMX_PortDisableProcess`, `SEC_OMX_FlushPort` | `FlushBegin` to `ResetFlags` |
| `SEC_OMX_DisablePort`, `SEC_OMX_EnablePort` and their loops | `DisablePort`, `DisableUnloaded`, `EnablePort`, `EnableLoaded` |
| `SEC_OMX_ComponentStateSet` | `RefuseStateSet`, `ToExecuting`, `SignalExecuting`, `ToPause`, `ToIdle`, `UnloadExit` to `UnloadWait` |

Abstractions.  A buffer's payload is the number of frames it holds (`left`),
chosen when the buffer reaches the slot; output is counted in the number of
output buffers it needs.  `Preprocess` may take a frame, take the end of a
stream, keep an incomplete frame, or find that the data does not fit; the
codec may consume its input, want it again, or fail.  Marks, tunnels (disabled
in the build) and time stamps are left out, so that `Postprocess` may drop any
frame.  The instance begins where Loaded to Idle ends and stops at Loaded.

The client's discipline is a constant, because OpenMAX leaves it to the client
and the code's promises depend on it: `free` (calls and commands from several
threads), `serial` (one call or command at a time), `quiet` (serial, and no
buffer call between a command and its completion).  `MaxPending` bounds the
commands it leaves uncompleted.

`BpStart` says where the buffer process thread is when the client first moves:
at the top of its loop, or already waiting for `pauseEvent`.  With the first the
signal that starts it can be lost (section 5); the second is used where a run
is not about that.

### ResourceManager and CodecPool

Each component has a client, a message handler with its queue, and what the
manager's decisions depend on: `currentState`, `portState`, whether its codec
is open, whether its buffers are there.  `rmMutex` appears as a variable only
where it is held between two steps, that is while the manager tells a victim's
client and sends it a command; every other use of the lists is one step under
the mutex.  The state of *other* components is read without any lock, and
`PreemptTell` and `PreemptSend` are two steps for this reason.

| Code | Actions |
|---|---|
| `SEC_OMX_Get_Resource`, `searchLowPriority`, `removeComponent` | `GetFree`, `GetRefused`, `PreemptSilently`, `PreemptTell`, `PreemptSend` |
| `SEC_OMX_Release_Resource` | `Release` |
| `SEC_OMX_In_WaitForResource`, `SEC_OMX_Out_WaitForResource` | `InWait`, `OutWait`, and `SetWaiting` for the assignment that follows |
| Loaded to Idle in `SEC_OMX_ComponentStateSet` | `WaitLoaded`, `CodecInit` with its failures |
| Idle to Loaded, any state to Invalid | `Unload`, `WaitUnloaded`, `Invalidate`, `Terminate` |
| other state changes, refusals | `Move`, `Refuse` |
| `SEC_OMX_SendCommand` with `SEC_StateSet` | `Send`, and `SendCommand` inside the manager's steps |

Abstractions.  All components use the hardware codec.  Ports are enabled and
loaded together.  `messageQ` does not fill (there are few commands) and memory
does not run out for list elements.  A client sends one command at a time and
never for the state the component is in; it gives buffers only while a command
to Idle is queued or executed, and frees them when the ports are to be
unloaded, when it is told that its resources are lost, or when a way to Idle
has failed.  `SEC_OMX_FreeBuffer` itself never refuses, and `SEC_OMX_UseBuffer`
looks only at the port.  The branch in which the command to a victim is refused
because the victim is Invalid cannot be reached: Invalid is set after
Release_Resource, for which the mutex is needed.  A woken component that
unloads has no thread and no event: the calls on NULL handles return errors
that are not looked at.  Doing this a second time uses a freed event, which is
left out.  Deinit, and changing `nGroupPriority` while an entry is in a list,
are left out.

`CodecPool` has no lock, no threads and no messages.  Its holders are
counted, since `SEC_OMX_Get_Resource` does not ask whether the component has an entry
already, and after a failed initialisation it has.  Codecs nobody holds are `free`; each
action moves one codec, so that holders and free ones always make `Max`.

### OmxParameters

The six components share two of the three layers; `SetParameter` and
`GetParameter` fall through codec, video and base layer in the order of the code,
and a layer may act before or after the next.  A client reads a port definition,
edits a field and writes the structure back, possibly after other calls and
commands, so that stale fields travel with it.

| Code | Actions and operators |
|---|---|
| `SEC_OMX_SetParameter`, `GetParameter` of base, `Vdec`/`Venc` and codecs | `SetParameter`, `GetParameter` over `SetDefinition` (`BaseSetDefinition`, `DecoderSetDefinition`, `EncoderSetDefinition`), `SetProfile`, `SetOneFormat`, `EnableAndroidBuffers`, `StoreMetaData` ... |
| `GetConfig`, `SetConfig`, `GetExtensionIndex`, `ComponentRoleEnum` of each codec | the actions of these names |
| the first decoded frame, `SEC_UpdateFrameSize` | `FirstFrame`, `UpdateFrameSize` |
| states and ports that guard the calls | `ToIdle`, `Run`, `Stop`, `ToLoaded`, `Fail`, `DisablePort`, `EnablePort` |

Only port definitions are guarded by the state.  Colour formats, native buffers and
metadata are stored in any state and whatever they are, and the first frame a decoder
sees gives both ports its picture under buffers that are allocated; the module has
these steps as the code has them.  What they may break is named in `excuses`, and
each property leaves out what its own names cover:

| Excuse | Put there by | Until |
|---|---|---|
| `unsupported` | a definition of the input port, refused because of the output port's colour, whose picture the output port has by then | the output port gets a picture with its size |
| `outgrown` | a first frame with another picture than the input port's: its size stays | the next definition of the port |
| `staleMin` | a definition written back with the minimum of the time before native buffers were switched | the next definition or switch |
| `changed` | native buffers switched, the input port defined anew, or the first frame, with output buffers allocated | those buffers are freed |
| `metadata` | metadata mode switched with input buffers allocated | those buffers are freed |

A frame size is a number; a buffer of 12 bits a pixel needs 3 units for each
(`Room`), one of 16 bits 4.  A client uses one group of settings (`topic`), which keeps the
product of unrelated settings out, and writes a structure back at most `MaxAge`
steps after it read it.  A command is one step, and the client makes no parameter call
while one is carried out; the buffer process thread's change of the ports is one
step too, where the code writes field by field without a lock.  WaitForResources is not
reached here (`ResourceManager` has it), nor Invalid from Loaded.  A structure
written back late may mark a port as enabled that has no buffers: commands that
take its buffers back then wait for ever, and are simply never completed here.

### OmxCore

What is allocated for a handle is a set of named resources; constructors create
them in the order of the code, and any creation listed in `FailingSteps` may fail
and take its own cleanup path (`Undo`).  Every component has its message handler
thread, which takes commands from `messageQ`, and which the destructor has to end.

| Code | Actions |
|---|---|
| `SEC_OMX_Init`, `SEC_OMX_DeInit` | `OmxInit`, `OmxDeinit` |
| `SEC_OMX_GetHandle`, `ComponentLoad`, the component constructors | `GetHandle`, `Create`, `CreateFails`, `AppendLocks`, `AppendLinks` |
| `SEC_OMX_FreeHandle`, `ComponentUnload`, the destructors | `FreeHandle`, `FreeUnlinks`, `Release`, `AskToExit`, `Wake`, `Join` |
| message handler thread | `Send`, `HandlerStep` |

A client frees a handle when its commands are answered, and the core is
deinitialised when no handle is left: Init and Deinit themselves are not locked.

### DecodePipeline, EncodePipeline, StreamCutter

One decode or encode call of the buffer process thread is cut where the codec
thread can run in between.  Frames are numbers, and a frame is stamped with its
number, so that a wrong stamp or order shows.

| Code | Actions |
|---|---|
| `SEC_Preprocessor_InputData` as far as frames, stamps and flags go | `Feed`, `Again` |
| `SEC_MFC_*_Decode`, `SEC_MFC_*_Encode` | `PassThrough`, `EmptyEos`, `ConfigureH264`, `ConfigureMpeg4`, `Look`, `WaitDone`, `Read`, `Submit`, `SkipSubmit`, `Posted`; for the encoder `FeedOnTop`, `Configure`, `EmptyInput`, `Look`, `WaitDone`, `Collect`, `Submit` |
| `SEC_Postprocess_OutputData` | `Deliver` |
| decode and encode threads | `Take`, `Exe` |
| flush of a port, and the resets after its event | `Flush`, `FlushResets`, `FlushOutput` |
| componentTerminate, a new session | `Terminate`, `Joined`, `Restart` |

The driver below `SsbSipMfcDecExe` and `...EncExe` is external: it shows what it
holds in order, `Delay` frames late, and reports a tag outside the ring for a
frame that is only decoded.  In `DecodePipeline` each buffer is marked
ENDOFFRAME, and a client feeds again after the flush events of both ports.
An encode whose failure is seen stops neither SetInBuf nor the post to the encode
thread, and its own end stays posted: `Submit` does the same, and `FeedOnTop` is what
becomes of an input that was not reset (`EncodeErrors` failures in the run).  Two things
are left out: an SsbSipMfcEncSetInBuf or SsbSipMfcEncGetOutBuf that fails by itself, and
the token that resetting such an input costs the queue of its buffers.
In `StreamCutter` the client marks its buffers or does not.  Bytes are the few values
the three search functions tell apart, a client that does not mark ends its buffers at
any bytes, and the codec accepts every frame.  `WellFormed` says which streams: in H.263
the bytes 00 00 80 are always those of a picture, an H.264 stream does not end with
the type byte of a slice, and the marks are where pictures begin, with one between
the opening of a frame and each later picture.

### CameraHal, CameraParameters, CameraDevice

`CameraHal` has one client and the three threads, with `lock` for `mPreviewLock`
and one place per stretch under a lock.  `CameraDevice` is the class `SecCamera`:
for each setting the cached value and the value the driver was told, and every
ioctl may fail, whereupon `CHECK` returns and undoes nothing.  `CameraParameters`
extends it by `setParameters` and what `mParameters` reports.  A setting is
chosen from a small group (`Uses`) of settings that interact.

| Code | Actions |
|---|---|
| `startPreview`, `stopPreview`, `setPreviewWindow`, `autoFocus`, `takePicture`, `cancelPicture`, `release` | the client's steps, one place per wait |
| preview, picture, focus threads | `PreviewStep`, `PictureStep`, `FocusStep` |
| `SecCamera::set...` | `Store`, `Set`, and one action per group of setters |
| `startPreview`, `stopPreview`, `startRecord`, `setSnapshotCmd`, record frames | the actions of `CameraDevice` of these names |
| `setParameters` | `SetParameters` over `ApplyAll`, `ApplySize`, `ApplyPlace` |

### AudioHardware, AudioCapture

Three threads (playback, record, a caller of the hardware object) and three
mutexes; one step is a stretch between two acquisitions.  The code unlocks and
locks again to keep the order out, in, hw: each such place is a pair of actions,
`...Looks` and `...Rechecks`, with the state read by the first used by the second.
The mixer may fail to open wherever it is opened; `untold` remembers that the default was
then kept as the source with nobody told, which a later call takes for done.
`AudioCapture` holds the frames themselves, numbered, in the driver's period,
`mInputBuf`, `mProcBuf`, the effects, `mRefBuf`; its effects are external and work
on blocks.  open_l (`Start`; `Reopen` when the output's write closes and opens the active
input) drops what the stream's buffers hold and tells the effects nothing: what they
hold comes first afterwards.

### HdmiOutput, HdmiCec, Edid

`HdmiOutput` follows a cable event through `connect` (EDID, mode, resolution),
setting calls, and `flush` with the FIMC and the encoder; the service's lock is
not held by all of them, and `connect` is five steps.  `HdmiCec` is `runCEC` with
the allocation of a logical address, on a bus where other players come and go.
`Edid` has no state: a sink is a base block and its extensions.  Left out of
`HdmiOutput`: streamon and streamoff that fail (`SecHdmi.cpp` 939-942, 1126-1130; the
next flush tries again), setDstPhyAddr that fails for a picture that is not the user
interface (909-914), S_STD and S_OUTPUT (2353, 2378), and that hdmi_cable_status
reopens `mFdTvout` when it finds it 0 (1818-1826).

### SecFimc, HwComposer

`SecFimc` keeps `mS5pFimc.params` beside what the device was given; `multipleOf`,
`checkFimcSrcSize` and `checkFimcDstSize` are operators on numbers.  The version of the
FIMC is a constant, since only 5.0 is told where a crop begins; a call that fails half way
leaves the device with any of its ioctls done (`SetPartly`, `Uncropped`), and `hurt` names
the parts that happened to.  `HwComposer`
takes `hwc_prepare` as one step and `hwc_set` window by window, with the two
buffers of each window and the scaler's source memory.  Every ioctl of a window may fail;
of two windows at most one call fails in one prepare.  `refused` marks a window whose
driver did not pan it or power it down when it was told to.

## 3. The runs

Deadlock is not checked: in every module a client may stop, and a behaviour may
end at its bounds.

| Run | Asks | Instance and why it is enough |
|---|---|---|
| `flow` | one holder of a buffer; counters and tokens; an emptied port; all buffers back at Idle; no mark that outlives its command | two instances.  Flushing: two symmetric buffers a port, 0 to 2 frames a buffer, all codec results, three commands, `serial`.  Everything: one buffer a port, incomplete frames, output of two pieces, four commands, any of them in any order (start, pause, flush, disable, enable are five kinds, and every pair of them occurs between a start and a stop), `quiet` |
| `live` | commands complete, input comes back, one thread at a time on a slot | fair; one buffer a port, three commands of every kind (those to ports with both), 0 to 2 frames a buffer, output of two pieces, `quiet`, the buffer process thread at the top of its loop.  Each of the hangs the property excepts (`TokenTaken`, `SignalMissed` with a flush, a disable and an unload, `BuffersKept`) is reached |
| `rm_pool` | bound of the list; who is preempted; nobody forgotten; refinement of `CodecPool` | three components of three levels, two codecs, every target state, all failures, four commands: both orders of holders, preemption, a second entry after a failure, two waiters with one that gives up |
| `calls` | ring invariant, refinement of `CountedFifo`; parameters agree, refused calls change nothing; codec, entry, state and ports fit together | the ring of the code's size 10 with two data and SetElemNum(0) in every position; four components, one for each codec's file, with the settings of their own, and the H.264 decoder and encoder with buffers, formats and native buffers (the others have the same text for these), two picture sizes, a structure of one step ago, a format no codec knows; three equal components, two codecs, all failures, no waiting (section 5 has what preemption and waiting do) |
| `handles` | rolled back; a handle listed once and nothing left of one that is gone; a handler thread has its memory; calls and commands end | fair; one codec with preemption, five commands; two clients, two handles, three `GetHandle`, a failure of a library, a port or a name |
| `codecs` | codec threads, stamps, order, waits; cutting of streams | fair; five frames against a ring of 4 and a delay of 1, so that the ring wraps and the codec holds back; a flush wherever the mutex is free; two sessions of the encoder, one encode that fails; streams of two or three pictures in at most four buffers cut at any bytes |
| `hals` | camera threads and settings; audio locks and modes | fair; two windows, two values a setting, one failing ioctl, PCM or mixer, four audio calls: each kind meets each in both orders |
| `devices` | HDMI, CEC, FIMC, composer, capture | three sinks, two plugs, one failure, three resolutions; two sources and two targets, upright and turned by 90 degrees (180 and 270 are proved only), sources that are cropped on a FIMC 4.3; lists of up to three layers, two handles; a period of 3, requests of 1 and 4, effect blocks of 2, twelve frames: no size divides the next |

Every property of a passing run has a mutant, an operator with the suffix of the
change it makes placed before the definition it replaces; the run finds the
property violated.  Four more runs must be violated; they are in section 5.

Fairness.  Threads of Android's Linux kernel run, so each inner thread has weak
fairness, and a call that has begun goes on.  In `OmxBufferFlow` the client
provides and frees buffers when a port command waits for it and keeps the output
port supplied, which is what an OpenMAX client is for.  Strong fairness is used
in three places: a flush that waits for `bufferMutex` gets it sometime, although
the buffer process thread takes and releases it in a loop (the loop sleeps
between rounds with the mutex free); the codec, shown the same input again and
again, sometime takes it; and the mutex of the handle list of `OmxCore`, which
another client may take any number of times, is sometime granted.  In
`ResourceManager`: weak fairness of the handlers and of the client's UseBuffer
and FreeBuffer.  The codec threads answer, since the driver's ioctl has a time
out.  Nothing is assumed about clients sending commands or making calls.

## 4. The proofs

The proofs hold for every value of the constants, under the assumptions each
module states by name and TLC evaluates on a run: `QueueAssumption` (a ring of at
least two nodes), `FlowAssumption`, `PoolAssumption`, `CoreAssumption`,
`CallsAssumption`, `AudioAssumption` (bounds are numbers, labels are not values),
`FlushAssumption` (the four buffers are different and a queue holds two, one command is pending at most),
`DevicesAssumption` (the same, at least one resolution, and pictures that lie in their frame),
`DecodeAssumption` (the ring of time stamps is larger than what the codec may hold
plus one; in the code MAX_TIMESTAMP is 17 and the display delay at most 8),
`StreamsAssumption` (every stream is `WellFormed`).  A
theorem with a further hypothesis, on the client or on what may fail, states it in
front of the specification; the runs have instances for which it is true.

Theorems that concern a module of an instance with several systems are stated of
that module's own specification, as in `Parameters!Spec => []ParametersAgree`.
Each argument has the same shape: an invariant that adds to the property what every
place of every thread may rely on, one lemma per action, and one for the operators
that several of them use.  TLC checked each of these invariants before it was proved.

**OsalQueue** (`CallsProofs`).  `RingInvariant`: exactly the nodes from `first` to
`last` hold data.  It is inductive together with the type invariant; SetElemNum
breaks the counter, not the ring.  `CounterExact`, the exact counter of a messageQ,
for which nobody calls SetElemNum, has only this proof.  `Refinement`: the contents
between the pointers are the abstract sequence; `QueueAppends` and `DequeueTakes` say
what one call does to them, modular arithmetic included, and `FullWhenOccupied` that
the ring refuses exactly when it has no free node.

**OmxBufferFlow.**  `TypeCorrect` and `SlotExclusive` hold for every client.  `IInv`
adds `HandsFull` (a buffer call past its check has a buffer, the handler's loop a
port) and `Locked`: whoever is in a section of a port holds that port's mutex; since
a mutex has one holder, exclusion follows.

`EachHasOneHolder` needs more than `OneHolder` says: `Housing` puts every buffer in
one of four places, *and* says that it occurs once in its queue, and that a slot whose
callback has been made does not count although it is not cleared yet.  Its hypothesis
`CapacitySuffices` is that a port has no more buffers than its queue has room for;
without it the code accepts a buffer and drops it (section 5).  `NoMarkOutlives` holds
for every client and any number of pending commands: `Marks` says that a mark of a
port always has its flush or disable ahead, in the queue or in the handler's hands.
`CounterRight` and `FlushReturnsEverything` are for a `quiet` client, because a buffer
call during a flush is hidden by SetElemNum(0).  `QuietInv` relates the queues to how
far the handler has come: ports before the present one are empty and stay so while
the buffer process thread goes on with the other.

`TokensSuffice` is for a client that calls on while ports are flushed, as long as it plays
and flushes only, with one command at a time (`PlaysAndFlushes`).  `CallsAway` says that
the mark of the flush lasts from SendCommand to the end of the port's loop, so that no call comes between
counting and draining the tokens; with a second flush pending the first one takes its mark away.
`SlotAwaits` says why no token is used up for nothing: the buffer process
thread takes one for an empty slot only, which is so because a frame is never kept in
pieces (`~Fragments`).  `Plays` is the state in which neither thread is told to pause.

`FlushesAreSound` (`MC_FlowProofs`) shows `FlushingSound` of the instance of `MC_Flow` with two
buffers a port.  It takes `OmxBufferFlowProofs` as an instance, shows that its assumptions and
the hypotheses of the two theorems are true there (`TheoremsApply`), and that both
instances make the same steps (`SameNext`).

**ResourceManager.**  `TypeCorrect`, `Bounded`, `Preempts`, `NobodyForgotten`,
`ImplementsPool`.
`LockInv` says that whoever is between `PreemptTell` and `PreemptSend` holds the
mutex, that nobody else does, and that the list is still as full, and the
victim as unimportant, as when it was chosen: without it an entry could be
handed over in a list that has changed.  `VictimIsLeast` proves that
`searchLowPriority` finds a least important holder among those less important
than the caller, from the well-ordering of the naturals; `Removal` what
`removeElementList` does.  For `NobodyForgotten`, `WaitInv` describes every
place between entering the line and leaving it: a component that waits, or is
about to be said to wait, is in the line, or has a command to Idle in its queue,
or is executing one.

`ImplementsPool` maps the two lists to `CodecPool`: how many entries each component
has, how much room there is, who is in the line.  `EntriesAdded` and `EntriesRemoved`
count what `addElementList` and `removeElementList` do to the entries of each component
(`RemovedAt` says where the removed one was, and a bijection of the places left gives
their number).  A hand-over is `Preempt` only because `LockInv` keeps the list full
while the victim is told.

Two more properties of the manager are proved where their instances are.
`AllRolledBack` (`OmxCoreProofs`; with preemption and waiting): `Rolled` says of a
component that is not past Loaded that it has nothing but on its way to Idle, and at
each place of the way back what is still to be released.  Its hypothesis is that no
codec fails to open, after which the code leaves the entry behind.
`CodecsAccounted` (`CallsProofs`; equally important components): `FollowsProgram`
carries the state a command found through its steps, which is sound because a
component has at most one command (`OneCommand`).  Its hypothesis is that no client
lets a component wait for a codec: one that is woken is in Idle without one.

**OmxParameters** (`CallsProofs`).  `ParametersInAgreement`: what is asked for and what
is allocated fits together, but for the excuses of section 2.  `ParameterInv` needs that a disabled
port, and a component that is Loaded, has no buffers (`NobodyHolds`): a definition is
set where nothing is held, however old it is.  `SameMinimum` is why a
stale structure cannot hurt the input port, `RoomyIn` and `RoomyOut` are what the two
ways of sizing a port leave, `Fits` what an allocation keeps.  No bound on the age of a
structure is used.  `RefusalsChangeNothing` is an action property, by cases over the
calls and the three layers; the one refusal that changes something is in it, with what
it changes (`HalfStored`).

**OmxCore.**  `Alive`: the handler thread of a component has its memory.  What
makes it inductive follows one handle through its life.  `Sole`: it is with one
client, who has it or is at work on it.  While it is made, what the thread needs is
there or still to come, and its memory and semaphore before the thread
(`ThreadLast`); while it is destroyed, no memory is released before the join
(`JoinFirst`, of the rest of the destructors, whichever layer began them).  A
thread is idle when destruction begins because a handle is freed with its commands
answered: `Content` counts the queue and the thread against `unanswered`.
`LoadOrder` and `UnloadOrder` say that the constructors and destructors of the four
components, and every clean-up after a failed creation, have these orders; proved
by composition (`Together`), as the code composes its layers.

`Accounted`: `ListInv` says that whoever changes the list of loaded components has
its mutex and has read it as it is, and that its entries are those that somebody has
or is taking out; `CutOut` is what taking one out of the middle leaves.  `RoomInv`
relates what a handle holds to what is left to create (`Begun`, by the rank of a
creation in the order of the constructors) or to release (`Covered`).  Its hypothesis
leaves out the failures after which the code leaks: of the semaphore, the mutex, the
thread, the name and the codec handle (section 5).

**CameraHal.**  `HandOver`: no start is lost, a stop has stopped, the picture
thread has the sensor for itself; `HomeGoing`: a buffer goes back to its window.  The
strengthening names the places of a call: what `stopPreviewInternal` returns to,
that the preview stays off up to the flag of the capture (`StoppedThere`), that
the thread holds the lock from its test to its wait (`StopsUnderLock`), and that a
preview which is off or deferred has no frame out (`DeviceQuiet`).

**CameraParameters, CameraDevice** (`HalProofs`).  `DriverKeepsUp` is about the
device alone and every order of its calls, `SettingsInAgreement` about the HAL on top
of it.  `DeviceInv` is what both share: whatever is sent while the preview runs is
sent by S_PARM too, so a setting the driver does not have is `astray`, by a
failure.  `AllMade` says what the six setters of one setParameters do together: they
concern different settings, so that each finds the value from before and their order
does not matter.  That the torch goes out needs `DriverFollows`: stopPreview looks at
the cached flash mode only.

**AudioHardware.**  `DevicesHaveTheirUsers` and `SoundFollows`, for any number of
calls and any failures.  `Control` is about places and mutexes only: which places a
thread can be at (`Program`, with where `doStandby_l` returns to) and what it holds
there (`Holds`).  For each mutex there are the places where it must be held and those
where it may be, since a call that was overtaken goes on without it.  `Data` is about
the devices: the shape of a stream at each stretch that reads its standby flag, leaves
the mutex and reads it again (`OutShape`, `InShape`); `Counts`, the users of the PCM and the
mixer including the calls that are opening or closing them; `ModeAgrees`, `Told`,
`Routed`, `ReferenceAlive`.  A thread that waits for a mutex it holds itself (`Stuck`,
the finding of `audio_order`) never moves again; while there is one, the clauses
about devices that it would have released are not claimed.

**DecodePipeline, EncodePipeline** (`CodecProofs`).  `CodecsAlone`: the buffer process
thread is at the codec only when the codec thread is not, and the buffer that is lent
to it is not written.  For the decoder, `DecOneAtATime` equates the frames in flight,
in either semaphore or with the thread, with the flag the component keeps.  This is so
only until a decode fails: the code then goes on without waiting.  `Untouched`
follows the two input buffers.  The proof corrected the property: as it was first
stated, `BufferInFlight` was false after two flushes within one decode, which the
instance did not have: a drain decodes a frame again with another length.  The
property now asks for the length of a frame sent since the last flush.
`PicturesCarryTheirStamp` follows a tag from `timeStamp[]` to the codec and back.  `Coming`
is what the codec holds and has in work; `TagsInTurn` says that the tags of the one on show
and of these lead to the last places written, one after the other, and `NotTheNext` that
the place written next is none of them.  `AllStamped` says that the place still has the
frame's own stamp, or was wiped by a flush; `WipedFirst` that the wiped ones come before
the others, and `OldHeldBack` that as long as there are some the check of the first
time stamp is on and the codec is full, so that each one comes out into the check.  The end
of the stream stamps places with 0: from there on the claim rests on `EndKnown` and
`Drains`, by which nothing but the drain follows.  This proof corrected an assumption: in
thumbnail mode the codec holds a frame back even when `Delay` is 0, and with two places
for stamps (the code has 17) TLC shows a picture with the stamp of another; hence `Ring > 2`.

`FramesComeInOrder` adds to it (`OrderInv`: `StampInv` and `DecOrdered`) that the numbers
themselves have no gap.  `Line` is what the client was not shown yet: the frame on show,
until the call that got it has read it, and `Coming`.  `Lined(w, c)` says that this line is
`w` frames that a flush wiped, then the numbers that follow the last one that went out
(`Went`) up to `c`, then the end.  Read, submit and decode each move a frame one place
along the line; `Last`, the last frame sent that will be shown, is where the line ends.
`AfterFlush`: the codec is full, so each decode puts a wiped frame on show and the check of
the first time stamp drops it, until the first new one comes out.  A full codec gives a
frame only for a frame, hence `InputInTurn`: during the drain there is always one to
submit again.  `EosOut`: the end goes out last, with the line empty.  `BeforeConfig` and
`BeforeFirst` are the header and the first frame, which show nothing.

`StreamsComeInOrder` does the same for the encoder: `Complete` counts the frames sent since a flush
as those with the client, on their way out, in the codec and in the input; `Tagged` says
that the tag of the frame in the codec leads to its stamp and that of the next to another
place of the ring; `Leaving` that a half of the stream
buffer is not overwritten before it is out, and `HeldBack` that the check of the first
time stamp holds back what a flush left in the codec.  `Headed` is the header of the
first session.  In `CodecsAlone` the encoder's part holds until its caller has seen a failed encode
(`client.error`): up to then an encode that failed was not looked at yet or is hidden by the
next GetOutBuf.

`FramesAreCutRight` is about streams of any length.  `Searched`, one lemma for each
codec, says what a search in the rest of a buffer finds: every picture whose code lies
in that rest, and nothing else but the start of an H.263 picture whose last byte is in
the next buffer.  `CodesApart`: no picture begins within the code of another.
`CutterInv` is the invariant: `CutReading`, what was not read yet is in the last buffer;
`CutGathering`, a frame that goes on reaches to a buffer's end; `CutMarking`, while the
marks are trusted each buffer reaches to the next of them; `CutPlaces`, a frame that is
ready ends before a picture; `CutThisFrame`, what `PicturesSeparated` says, of the frame
that is being gathered; `CutEnding`, the end of the stream is in the buffer's flags, then
in `bSaveFlagEOS` or the frame's.  TLC checked it over every well-formed stream of up to
three codes or other bytes.  Without `WellFormed` TLC shows streams that are cut elsewhere: an H.263
code that ends at 00 00 80 is completed by the byte that happens to follow the buffer,
and the H.264 search leaves the type byte of a slice to the next buffer, which at the
end of the stream does not come.

**HdmiCec, HdmiOutput, SecFimc** (`DeviceProofs`).  `Speaks`: the CEC thread speaks
with the address it took from the sink it was started for.  `Introduced` adds why a
second player does not take the same address (the device stays open), `StartedForSink`
that while the cable has not been touched the service's picture of it is current.

`PlaysForTheSink` is true of the moments between cable events, but a connect is five
steps during which the sink may go.  `Linked` bridges them: the EDID that is kept is
that of the sink, or the news that the cable was pulled is still to come.  `Chosen`
says from which stage of a connect on the mode and the resolution fit that EDID
(`Best`: the loop of hdmi_resolution_2_preset finds a resolution that is shown, if one
at or below what was asked is); `Applied`, `Encodes` and `Converted` what a flush has
left at the encoder and the FIMC.  `WritesToAnother` is inductive
with it, and rests on the index going round three pictures, not two.

`Converts`: what `mS5pFimc` remembers of source, destination and key is what the device
was told and what was granted, until an ioctl about it fails; the exceptions that need no
failure (where a crop begins, the format of a refused destination, a rotation set late,
the colour of the key) are part of the property.  That the window of a
turned picture has the corners of the window that was asked for is arithmetic about
widths and offsets (`WindowIsTurned`), case by case over the four angles.

**HwComposer** (`DeviceProofs`).  `ComposerShowsItsFrames` assumes of the constants that
buffers are named by their sizes and that the lists are lists of layers
(`LayersAssumption`).  hwc_prepare gives out two windows at most; the model writes its
loop as `Assign`, repeated, and `AssignGives` says of a repetition that windows
below `used` lie where their layers do and the others are free.  Between compositions
a window that is on shows the frame of its layer; within hwc_set it does so for the
windows that were set (`Composed`).  `Holds`, that a window shows what `layer_prev_buf`
remembers, is what lets SetSame skip a conversion; it fails for a window whose
conversion failed (`skipped`) until hwc_set hides that window at its end, and for one
that the driver did not pan or power down, of which nothing is claimed until it does
(`Obeyed`).  `Whole` is why
a conversion does not tear the picture: the buffer written next is not the one shown.

**AudioCapture** (`DeviceProofs`).  `CaptureFlows` holds for any sizes of periods, effect
blocks and requests (`CaptureAssumption`: none of them 0).  `Flowing` cuts the captured
frames that were not given out into four runs of successive numbers, one for each buffer
on their way: made by the effects, taken by them, in `mProcBuf`, in the driver's period.
Each operator of a read cuts runs or joins them (`RunCut`, `RunJoin`), for any place of
the cut (`FilledUp`, `EffectsRun`).  `Ahead` counts the frames the canceller used in
blocks, and the echo reference is never a block behind (`StaysAhead`).
The first is claimed until an effect is
taken away with frames in it (`cut`), the second unless the reference could not be read, or a
stream began with the effects holding less of it than of captured frames (`missing`).

Only model-checked: liveness (`CommandsComplete`, `CallsReturn` and the others), which
needs fairness.

## 5. Where code and documentation disagree

Each of these runs ends with a counterexample; `findings` in `PROJECT.json`
quotes the line of documentation.

| Run | What happens |
|---|---|
| `flush_hangs` | a flush counts a token, the buffer process thread takes it; the flush waits for a token with `bufferMutex`, the thread for `bufferMutex` |
| `decoder_wait` | after a failed decode the post of its end stays in the semaphore; the next wait is satisfied by it while the decoder works |
| `encoder_header` | the codec header of a second session is stamped 0, fails the check of the first time stamp that the stop has armed, and is dropped |
| `audio_order` | doStandby_l of an input with an echo reference waits for the output, which a write or setMode that called it has locked itself |

The models reach more situations of this kind, which have no run of their own.

*Buffers and commands* (`OmxBufferFlow`).  The run `live` reaches, and excepts from
what must end: the signal that starts the buffer process thread, that unloads
it, or that a flush gives to it while it pauses in a buffer return, is reset
before it is waited for (`SignalMissed`, `Asleep`; in the last case the thread
holds `bufferMutex`); disabling a port in Pause does not signal `pauseEvent` at
all; buffers given in Idle are never returned on the way to Loaded
(`BuffersKept`).  By a change of a constant:

| Change | What happens |
|---|---|
| `live` with `serial` | a buffer call that overlaps a flush leaves a buffer without its token, or in a port that is being disabled: it is never returned, and the disable waits for it |
| flushing with `MaxPending = 2`, or with StateSet Idle | a buffer accepted while a flush is at work is hidden by SetElemNum(0): the end of a flush clears the mark of the next one, and a stop marks its ports only when it is executed |
| flushing with StateSet Pause | Idle, Pause, Executing leaves `transientState` at LoadedToIdle, and the thread pausing |
| `QueueCapacity = 1` | more buffers than a bufferQ holds: the one too many is accepted and gone (`OneHolder`) |
| `live` with `Fragments = TRUE` | an oversized frame costs another buffer its token (`InputReturned`) |

*Components and codecs* (`ResourceManager`): a failed way to Idle keeps the list
entry and the codec; a component woken from WaitForResources is in Idle with
nothing, and one sent back to Loaded waits for buffers it never had; with
preemption, a victim that has started to execute has its ports unloaded, and an
entry is taken from a component that keeps its codec.

*Parameters*: OMX_StateInvalid and OMX_ErrorNone are both 0, so that a codec's
Get- and SetParameter in Invalid report success; SetParameter of a port definition
writes stale `bEnabled`, `bPopulated` and `nBufferCountMin` back; in metadata mode
the reported 64 bytes become the size once they are written back; the H.263 role
is accepted and changes nothing; the port format calls, native buffers and metadata look at no
state and no colour is refused; a definition refused for the output port's colour has been
stored (`SEC_OMX_H264dec.c` 459-461); SEC_UpdateFrameSize leaves the size of the input
port.  `excuses` marks these.

*Core*: a constructor that fails at its semaphore, mutex or thread leaks what came
before (`SEC_OMX_Basecomponent.c` 1401-1421), one that cannot allocate the codec
handle leaks the name; a component that fails the API check is used after
dlclose (`SEC_OMX_Component_Register.c` 221-226); FreeHandle of an unknown handle
follows a NULL pointer; ports and codec are freed before the handler thread is
joined, and a DeInit command refused by a full `messageQ` leaves the join waiting.

*Decoders*: a flush before the codec shows frames lets old frames out with wiped
stamps; an end flag on a data buffer loses the last frame; a stream shorter than
the display delay, or of headers only, never ends; a flush in a drain, or a failed
decode with the end tag, makes the drain endless.  `StampOfItsFrame`,
`DecodedInOrder` and `WaitsEnd` are about the other streams (`client.full`,
`client.bare`, `Sound`).  Cutting: a picture code cut by the end of a buffer is
not seen, and two pictures are merged; the H.263 search reads a byte past the
buffer; an unmarked last buffer with several pictures may start the drain early.

*Encoders*: a frame flagged as the end stays under encode until another input
comes; a failed encode is hidden by the next GetOutBuf, and one that is seen leaves the
post of its end behind, so that the caller then works with the encoder while it encodes
(`client.error`); in lent mode the client's
buffer is returned while the codec still reads it.

*Camera*: a release can miss the wait of the preview thread (2251-2275; constant
`EarlyRelease`); error returns of setPreviewWindow leave with `mPreviewLock` held
(`WindowFails`; `CallsReturn` excepts the calls after it); the test for a stalled
preview is inverted against its comment (`SecCamera.cpp` 959-970).

*Audio*: at the end of a call setMode may act on an output it did not lock
(`missed`); a failed openPcmOut_l in a call closes the shared PCM all the same
(`callFailed`), and a thread that waits for itself keeps an output whose PCM another
closes; setInputSource_l(mInputSource) at the end of a call does nothing, and a source set while
the mixer could not be opened counts as set (`untold`);
removing an effect leaves frames that come back later (`cut`); open_l leaves the effects
with frames of before, so that a canceller may start behind its reference (`missing`).

*Composer*: a failed runFimc has already remembered the handle, so the frame is
never tried again; a window that was hidden and is used again for the same handle
and place is skipped and stays invisible; after a failed window_set_pos the window
is never moved; a new geometry resets `buf_index` whatever is shown; checkMem
keeps the freed address when the new allocation fails; the results of window_pan_display,
window_show and window_hide are not looked at: after a failed pan the frame before stays and
the next conversion is written into it.  The fields `lost`,
`fresh`, `stale` and `refused` of the module mark these.

*HDMI*: DDCOpen counts a failed open; a FIMC that cannot be created in connect
leaves the EDID of the sink before; the resolution is searched downwards only and
stays lowered; two failed conversions bring the output index to the buffer being
read, and connect sets it to 0 without the lock (`hurt` remembers which happened);
REQUEST_ACTIVE_SOURCE is never answered, FEATURE_ABORT is answered by
FEATURE_ABORT.

*FIMC*: setSrcParams and setColorKey remember what the device refused, so that
the same request is granted the second time; a rotation set after the destination
keeps the window of the old rotation; a FIMC other than 5.0 is told to crop from its
first pixel (`SecFimc.cpp` 199-205); a refused destination leaves its colour format for the
next setDstPhyAddr (902); the chroma key of the window is overwritten by an
uninitialised one at the next destination (263-269); handleOneShot does not
look at `mFlagStreamOn`, and leaves it on when it has stopped the stream.

The instances of the passing runs, and the conditions in their properties,
exclude these situations, so that the rest is still checked.

## 6. What is not modelled

`PROJECT.json` lists every component with its status and, where it is partly
modelled, what is missing.  Out of scope for good: thin wrappers of library calls
(OSAL memory, log, library), the Stagefright plugin, pure data conversion
(assembler and C colour conversion), JPEG and EXIF writing, device node I/O
(lights, sensors, Bluetooth), configuration and prebuilt files.  Left out of
modelled parts: tunnels (disabled in the build), buffer marks, commands refused by
a full `messageQ`, FIMV1 streams, frames larger than an input buffer, recording
callbacks of the camera, the audio policy manager and resampling, HDCP and the
graphics layers of the TV output, the condition variable between the composer and
its HDMI thread.

## 7. Plan

Done: the modules of section 2, and the proofs of section 4.  Next, in this order:

1. Commands refused after their flags were set, and a DeInit on a full `messageQ`.
2. The blit thread of the composer with its condition, joined with `HdmiOutput`
   and `SecFimc`; the audio policy manager; the pool of G2D instances.
