---------------------------- MODULE AudioHardware ----------------------------
(* AudioHardware.cpp (libaudio): one output stream, one input stream and the    *)
(* hardware object, each with its mutex; the playback thread, the record        *)
(* thread, and a thread that calls the hardware object.  One step is a stretch  *)
(* between two acquisitions of a mutex.                                         *)
EXTENDS Naturals

CONSTANTS
  Devices,       \* output devices besides the earpiece
  UseAec,        \* an echo canceller may be attached to the input
  MaxCalls,      \* bound on the calls of all threads
  MaxFailures    \* bound on failing pcm_open and mixer_open

ASSUME AudioAssumption == MaxCalls \in Nat /\ MaxFailures \in Nat /\ UseAec \in BOOLEAN

VARIABLES
  owner,         \* mutex -> the thread that holds it, or "free"
  pc, back,      \* thread -> where it is, where doStandby_l returns to
  out,           \* AudioStreamOutALSA; seen: threads whose standby count is current
  inp,           \* AudioStreamInALSA
  hw,            \* AudioHardware, with the source the mixer was told last; untold: the
                 \* default was kept as its source when no mixer was there to be told
  goal,          \* the mode setMode was called with
  missed,        \* setMode ended a call over an output it had not locked
  callFailed,    \* a call could not open the devices
  calls, failures

streams == <<out, inp, hw>>
history == <<missed, callFailed, failures>>
vars == <<owner, pc, back, streams, goal, history, calls>>

Threads == {"playback", "record", "client"}
Modes == {"normal", "ringtone", "call"}
Sources == {"default", "camcorder"}

Init ==
  /\ owner = [m \in {"out", "in", "hw"} |-> "free"]
  /\ pc = [t \in Threads |-> "idle"] /\ back = [t \in Threads |-> "idle"]
  /\ out = [standby |-> TRUE, pcm |-> FALSE, mixer |-> FALSE, device |-> "earpiece", seen |-> {}]
  /\ inp = [standby |-> TRUE, pcm |-> FALSE, mixer |-> FALSE, echo |-> FALSE, need |-> FALSE,
            seen |-> {}]
  /\ hw = [mode |-> "normal", inCall |-> FALSE, pcms |-> 0, mixers |-> 0, output |-> TRUE,
           echo |-> FALSE, source |-> "default", told |-> "default", untold |-> FALSE,
           path |-> "earpiece", activated |-> FALSE]
  /\ goal = "normal" /\ missed = FALSE /\ callFailed = FALSE /\ calls = 0 /\ failures = 0

(***************************************************************************)
(* The devices, on a record of the three objects                           *)
(***************************************************************************)

Now == [out |-> out, inp |-> inp, hw |-> hw]
Become(s) == out' = s.out /\ inp' = s.inp /\ hw' = s.hw

Down(n) == IF n = 0 THEN 0 ELSE n - 1        \* "unbalanced" closes are ignored
Fails == {"no"} \cup (IF failures < MaxFailures THEN {"pcm", "mixer"} ELSE {})
Count(fail) == failures' = failures + (IF fail = "no" THEN 0 ELSE 1)

\* open_l of the output: openPcmOut_l, openMixer_l, and the route unless in call
OpenOut(s, fail) ==
  IF s.hw.pcms = 0 /\ fail = "pcm" THEN s
  ELSE LET mixer == s.hw.mixers > 0 \/ fail # "mixer"
       IN [s EXCEPT !.hw.pcms = @ + 1, !.hw.mixers = IF mixer THEN @ + 1 ELSE @,
                    !.out.pcm = TRUE, !.out.mixer = mixer,
                    !.hw.path = IF mixer /\ s.hw.mode # "call" THEN s.out.device ELSE @]

\* MUTANT: the PCM stays counted
CloseOut_KeepsPcm(s) ==
  [s EXCEPT !.hw.mixers = IF s.out.mixer THEN Down(@) ELSE @,
            !.out.mixer = FALSE, !.out.pcm = FALSE]
CloseOut(s) ==
  [s EXCEPT !.hw.mixers = IF s.out.mixer THEN Down(@) ELSE @,
            !.hw.pcms = IF s.out.pcm THEN Down(@) ELSE @,
            !.out.mixer = FALSE, !.out.pcm = FALSE]
StandbyOut(s) == CloseOut([s EXCEPT !.out.standby = TRUE, !.out.seen = {}])

\* the input has a PCM of its own
OpenIn(s, fail) ==
  IF fail = "pcm" THEN s
  ELSE LET mixer == s.hw.mixers > 0 \/ fail # "mixer"
       IN [s EXCEPT !.inp.pcm = TRUE, !.inp.mixer = mixer,
                    !.hw.mixers = IF mixer THEN @ + 1 ELSE @]
CloseIn(s) ==
  [s EXCEPT !.hw.mixers = IF s.inp.mixer THEN Down(@) ELSE @,
            !.inp.mixer = FALSE, !.inp.pcm = FALSE]
Stopped(s) == CloseIn([s EXCEPT !.inp.standby = TRUE])

\* getActiveInput_l
ActiveInput(s) == ~s.inp.standby

\* setInputSource_l: in a call only the default is passed on; the new source is
\* kept although there is no mixer to tell it
SetSource(s, source) ==
  LET due == source = "default" \/ s.hw.mode # "call"
  IN IF source = s.hw.source THEN s
     ELSE [s EXCEPT !.hw.source = source,
                    !.hw.told = IF due /\ s.hw.mixers > 0 THEN source ELSE @,
                    !.hw.untold = IF due /\ s.hw.mixers > 0 THEN FALSE
                                  ELSE @ \/ source = "default"]

(***************************************************************************)
(* Threads and mutexes                                                     *)
(***************************************************************************)

Goto(t, place) == pc' = [pc EXCEPT ![t] = place]
Acquire(t, m) == owner[m] = "free" /\ owner' = [owner EXCEPT ![m] = t]
Release(t, ms) ==
  owner' = [m \in DOMAIN owner |-> IF m \in ms /\ owner[m] = t THEN "free" ELSE owner[m]]
ReleaseAll(t) == Release(t, {m \in DOMAIN owner : owner[m] = t})
Others == UNCHANGED <<goal, missed, callFailed, calls>>
Quiet == Others /\ UNCHANGED <<streams, back, failures>>

\* a step that only takes a mutex
Lock(t, from, m, to) == pc[t] = from /\ Acquire(t, m) /\ Goto(t, to) /\ Quiet

\* doStandby_l of the input, with in and hw held, on the state s; an echo
\* reference is given back under the output's mutex, taken in the order
\* out, in, hw after in and hw were released
StandbyIn(t, s, next) ==
  LET s1 == [s EXCEPT !.inp.seen = {}]
      echoing == ~s.inp.standby /\ s.inp.echo
  IN IF echoing /\ s.hw.output
     THEN /\ Become(s1) /\ Release(t, {"in", "hw"}) /\ Goto(t, "dsOut")
          /\ back' = [back EXCEPT ![t] = next]
     ELSE /\ Become(Stopped(IF echoing THEN [s1 EXCEPT !.inp.echo = FALSE] ELSE s1))
          /\ UNCHANGED <<owner, back>> /\ Goto(t, next)

\* MUTANT: the reference is released, the stream goes on using it
StandbyInEnds_KeepsReference(t) ==
  /\ pc[t] = "dsEnd"
  /\ Become([Now EXCEPT !.hw.echo = FALSE, !.inp.standby = TRUE])
  /\ Release(t, {"out"}) /\ Goto(t, back[t])
  /\ Others /\ UNCHANGED <<back, failures>>
StandbyInEnds(t) ==
  /\ pc[t] = "dsEnd"
  /\ Become(Stopped([Now EXCEPT !.hw.echo = IF inp.echo THEN FALSE ELSE @, !.inp.echo = FALSE]))
  /\ Release(t, {"out"}) /\ Goto(t, back[t])
  /\ Others /\ UNCHANGED <<back, failures>>

GiveBackReference(t) ==
  \/ Lock(t, "dsOut", "out", "dsIn") \/ Lock(t, "dsIn", "in", "dsHw")
  \/ Lock(t, "dsHw", "hw", "dsEnd") \/ StandbyInEnds(t)

(***************************************************************************)
(* The output stream: write, standby, setParameters                        *)
(***************************************************************************)

Write(t) ==
  /\ pc[t] = "write" /\ owner["out"] = "free"
  /\ \/ out.standby /\ Acquire(t, "out") /\ Goto(t, "writeHw")
     \/ /\ ~out.standby /\ UNCHANGED owner
        /\ \/ Goto(t, "idle") \/ Goto(t, "standby")          \* pcm_write fails
  /\ Quiet

\* An active input is locked first, to be closed and opened after the output
WriteLooks(t) ==
  /\ pc[t] = "writeLook"
  /\ IF ActiveInput(Now)
     THEN /\ inp' = [inp EXCEPT !.seen = @ \cup {t}] /\ Release(t, {"hw"}) /\ Goto(t, "writeIn")
     ELSE UNCHANGED <<inp, owner>> /\ Goto(t, "writeOpen")
  /\ Others /\ UNCHANGED <<out, hw, back, failures>>

WriteRechecks(t) ==
  /\ pc[t] = "writeRecheck"
  /\ inp' = [inp EXCEPT !.seen = @ \ {t}]
  /\ IF ActiveInput(Now) /\ t \in inp.seen
     THEN UNCHANGED owner /\ Goto(t, "writeOpen")
     ELSE Release(t, {"in"}) /\ Goto(t, "writeLook")
  /\ Others /\ UNCHANGED <<out, hw, back, failures>>

WriteOpens(t) ==
  /\ pc[t] = "writeOpen"
  /\ \E failOut \in Fails, failIn \in Fails :
       /\ "no" \in {failOut, failIn}
       /\ Count(IF failOut = "no" THEN failIn ELSE failOut)
       /\ IF owner["in"] # t
          THEN failIn = "no" /\ Become(OpenOut(Now, failOut))
               /\ Goto(t, "writeEnd") /\ UNCHANGED <<owner, back>>
          ELSE LET s == OpenIn(OpenOut(CloseIn(Now), failOut), failIn)
               IN IF s.inp.pcm THEN Become(s) /\ Goto(t, "writeEnd") /\ UNCHANGED <<owner, back>>
                  ELSE StandbyIn(t, s, "writeEnd")
  /\ Others

WriteEnds(t) ==
  /\ pc[t] = "writeEnd" /\ ReleaseAll(t)
  /\ IF out.pcm THEN out' = [out EXCEPT !.standby = FALSE] /\ (Goto(t, "idle") \/ Goto(t, "standby"))
     ELSE UNCHANGED out /\ Goto(t, "standby")
  /\ Others /\ UNCHANGED <<inp, hw, back, failures>>

StandbyDone(t) ==
  /\ pc[t] = "standbyEnd" /\ ReleaseAll(t) /\ Become(StandbyOut(Now)) /\ Goto(t, "idle")
  /\ Others /\ UNCHANGED <<back, failures>>

\* setParameters with a routing: a new device takes effect with the next open
Route(t) ==
  /\ pc[t] = "routeEnd" /\ ReleaseAll(t) /\ Goto(t, "idle")
  /\ \E d \in Devices \cup {"earpiece"} :
       LET s == [Now EXCEPT !.out.device = d]
       IN Become(IF d # out.device /\ hw.mode # "call" THEN StandbyOut(s) ELSE s)
  /\ Others /\ UNCHANGED <<back, failures>>

OutputStep(t) ==
  \/ Write(t) \/ Lock(t, "writeHw", "hw", "writeLook") \/ WriteLooks(t)
  \/ Lock(t, "writeIn", "in", "writeInHw") \/ Lock(t, "writeInHw", "hw", "writeRecheck")
  \/ WriteRechecks(t) \/ WriteOpens(t) \/ WriteEnds(t)
  \/ Lock(t, "standby", "out", "standbyHw") \/ Lock(t, "standbyHw", "hw", "standbyEnd")
  \/ StandbyDone(t)
  \/ Lock(t, "route", "out", "routeHw") \/ Lock(t, "routeHw", "hw", "routeEnd") \/ Route(t)

(***************************************************************************)
(* The input stream: read, standby, setParameters, effects                 *)
(***************************************************************************)

Read(t) ==
  /\ pc[t] = "read" /\ owner["in"] = "free"
  /\ \/ inp.standby /\ Acquire(t, "in") /\ Goto(t, "readHw")
     \/ /\ ~inp.standby /\ UNCHANGED owner
        /\ \/ inp.pcm /\ Goto(t, "idle")
           \/ Goto(t, "inStandby")
  /\ Quiet

\* MUTANT: the input stays locked while the output is waited for
ReadLooks_KeepsLock(t) ==
  /\ pc[t] = "readLook"
  /\ IF hw.output THEN Release(t, {"hw"}) /\ Goto(t, "readOut")
     ELSE UNCHANGED owner /\ Goto(t, "readOpen")
  /\ Quiet
\* An output is locked before the input: both are released for it
ReadLooks(t) ==
  /\ pc[t] = "readLook"
  /\ IF hw.output THEN Release(t, {"in", "hw"}) /\ Goto(t, "readOut")
     ELSE UNCHANGED owner /\ Goto(t, "readOpen")
  /\ Quiet

ReadRechecks(t) ==
  /\ pc[t] = "readRecheck"
  /\ IF hw.output THEN UNCHANGED owner /\ Goto(t, "readOpen")
     ELSE Release(t, {"out"}) /\ Goto(t, "readLook")
  /\ Quiet

\* the output is closed and opened again, the echo reference taken, the input
\* opened
ReadOpens(t) ==
  /\ pc[t] = "readOpen" /\ Release(t, {"out"}) /\ Goto(t, "readEnd")
  /\ \E failOut \in Fails, failIn \in Fails :
       LET s1 == OpenOut(CloseOut(Now), failOut)
           s2 == IF owner["out"] # t \/ out.standby THEN Now
                 ELSE IF s1.out.pcm THEN s1 ELSE StandbyOut(s1)
           s3 == IF owner["out"] = t /\ inp.need /\ ~inp.echo
                 THEN [s2 EXCEPT !.inp.echo = TRUE, !.hw.echo = TRUE] ELSE s2
       IN /\ "no" \in {failOut, failIn} /\ Count(IF failOut = "no" THEN failIn ELSE failOut)
          /\ failOut = "no" \/ (owner["out"] = t /\ ~out.standby)
          /\ Become(OpenIn(s3, failIn))
  /\ Others /\ UNCHANGED back

ReadEnds(t) ==
  /\ pc[t] = "readEnd" /\ ReleaseAll(t)
  /\ IF inp.pcm THEN inp' = [inp EXCEPT !.standby = FALSE] /\ Goto(t, "idle")
     ELSE UNCHANGED inp /\ Goto(t, "inStandby")
  /\ Others /\ UNCHANGED <<out, hw, back, failures>>

InStandby(t) ==
  /\ pc[t] = "inStandbyDo" /\ StandbyIn(t, Now, "inEnd")
  /\ Others /\ UNCHANGED failures
\* closeOutputStream goes on with the destructor's standby of the output
InEnds(t) ==
  /\ pc[t] = "inEnd" /\ ReleaseAll(t)
  /\ Goto(t, IF t = "client" /\ ~hw.output /\ ~out.standby THEN "standby" ELSE "idle")
  /\ Quiet

\* setParameters with a routing: as standby, unless in call
RouteIn(t) ==
  /\ pc[t] = "inRouteDo"
  /\ IF hw.mode # "call" THEN StandbyIn(t, Now, "inEnd")
     ELSE Goto(t, "inEnd") /\ UNCHANGED <<streams, owner, back>>
  /\ Others /\ UNCHANGED failures

\* setParameters with a source: the mixer is opened for it; where it cannot be
\* opened, the source is kept all the same and the close is ignored
Source(t) ==
  /\ pc[t] = "sourceDo" /\ ReleaseAll(t) /\ Goto(t, "idle")
  /\ \E source \in Sources, fail \in Fails \ {"pcm"} :
       LET mixer == hw.mixers > 0 \/ fail # "mixer"
           s == SetSource([Now EXCEPT !.hw.mixers = IF mixer THEN @ + 1 ELSE @], source)
       IN Count(fail) /\ Become([s EXCEPT !.hw.mixers = Down(@)])
  /\ Others /\ UNCHANGED back

\* addAudioEffect and removeAudioEffect of an echo canceller
Effect(t) ==
  /\ pc[t] = "effect" /\ inp' = [inp EXCEPT !.need = ~@] /\ Goto(t, "inStandby")
  /\ Others /\ UNCHANGED <<owner, out, hw, back, failures>>

InputStep(t) ==
  \/ Read(t) \/ Lock(t, "readHw", "hw", "readLook") \/ ReadLooks(t)
  \/ Lock(t, "readOut", "out", "readIn") \/ Lock(t, "readIn", "in", "readInHw")
  \/ Lock(t, "readInHw", "hw", "readRecheck") \/ ReadRechecks(t) \/ ReadOpens(t) \/ ReadEnds(t)
  \/ Lock(t, "inStandby", "in", "inStandbyHw") \/ Lock(t, "inStandbyHw", "hw", "inStandbyDo")
  \/ InStandby(t) \/ InEnds(t)
  \/ Lock(t, "inRoute", "in", "inRouteHw") \/ Lock(t, "inRouteHw", "hw", "inRouteDo") \/ RouteIn(t)
  \/ Lock(t, "source", "in", "sourceHw") \/ Lock(t, "sourceHw", "hw", "sourceDo") \/ Source(t)
  \/ Effect(t) \/ GiveBackReference(t)

(***************************************************************************)
(* The hardware object: setMode, setMicMute, closeOutputStream             *)
(***************************************************************************)

\* an output that is not in standby is locked, as long as it changes meanwhile
ModeLooksOut(t) ==
  /\ pc[t] = "modeOut"
  /\ IF hw.output /\ ~out.standby
     THEN out' = [out EXCEPT !.seen = @ \cup {t}] /\ Release(t, {"hw"}) /\ Goto(t, "modeOutLock")
     ELSE UNCHANGED <<out, owner>> /\ Goto(t, "modeIn")
  /\ Others /\ UNCHANGED <<inp, hw, back, failures>>
ModeRechecksOut(t) ==
  /\ pc[t] = "modeOutCheck" /\ out' = [out EXCEPT !.seen = @ \ {t}]
  /\ IF hw.output /\ t \in out.seen THEN UNCHANGED owner /\ Goto(t, "modeIn")
     ELSE Release(t, {"out"}) /\ Goto(t, "modeOut")
  /\ Others /\ UNCHANGED <<inp, hw, back, failures>>

\* then the active input, with hw released again; the output is not looked at
\* any more
ModeLooksIn(t) ==
  /\ pc[t] = "modeIn"
  /\ IF ActiveInput(Now)
     THEN inp' = [inp EXCEPT !.seen = @ \cup {t}] /\ Release(t, {"hw"}) /\ Goto(t, "modeInLock")
     ELSE UNCHANGED <<inp, owner>> /\ Goto(t, "modeSet")
  /\ Others /\ UNCHANGED <<out, hw, back, failures>>
ModeRechecksIn(t) ==
  /\ pc[t] = "modeInCheck" /\ inp' = [inp EXCEPT !.seen = @ \ {t}]
  /\ IF ActiveInput(Now) /\ t \in inp.seen THEN UNCHANGED owner /\ Goto(t, "modeSet")
     ELSE Release(t, {"in"}) /\ Goto(t, "modeIn")
  /\ Others /\ UNCHANGED <<out, hw, back, failures>>

Streams(t, s, next) ==                 \* doStandby_l of the streams that were locked
  LET s1 == IF owner["out"] = t THEN StandbyOut(s) ELSE s
  IN IF owner["in"] = t THEN StandbyIn(t, s1, next)
     ELSE Become(s1) /\ Goto(t, next) /\ UNCHANGED <<owner, back>>

ModeSet(t) ==
  /\ pc[t] = "modeSet"
  /\ LET s == [Now EXCEPT !.hw.mode = goal,
                          !.hw.activated = (goal \in {"call", "ringtone"})]
         ended == [s EXCEPT !.hw.path = IF s.hw.mixers > 0 THEN "earpiece" ELSE @,
                            !.hw.mixers = Down(@), !.hw.pcms = Down(@)]
     IN \/ goal = "call" /\ ~hw.inCall /\ Streams(t, s, "modeCall") /\ UNCHANGED missed
        \/ /\ goal # "call" /\ hw.inCall /\ Streams(t, ended, "modeCallEnds")
           /\ missed' = (missed \/ (owner["out"] # t /\ ~out.standby))
        \/ /\ (goal = "call") = hw.inCall /\ Become(s) /\ Goto(t, "modeEnd")
           /\ UNCHANGED <<owner, back, missed>>
  /\ UNCHANGED <<goal, callFailed, calls, failures>>

ModeCall(t) ==
  /\ pc[t] = "modeCall" /\ Goto(t, "modeEnd")
  /\ \E fail \in Fails :
       LET pcm == hw.pcms > 0 \/ fail # "pcm"
           mixer == hw.mixers > 0 \/ fail # "mixer"
           s == [Now EXCEPT !.hw.pcms = IF pcm THEN @ + 1 ELSE @,
                            !.hw.mixers = IF mixer THEN @ + 1 ELSE @]
       IN /\ Count(fail) /\ callFailed' = (callFailed \/ ~pcm \/ ~mixer)
          /\ Become([SetSource(s, "default") EXCEPT !.hw.inCall = TRUE])
  /\ UNCHANGED <<owner, back, goal, missed, calls>>

ModeCallEnds(t) ==
  /\ pc[t] = "modeCallEnds" /\ Goto(t, "modeEnd") /\ hw' = [hw EXCEPT !.inCall = FALSE]
  /\ Others /\ UNCHANGED <<owner, out, inp, back, failures>>

ModeEnds(t) == pc[t] = "modeEnd" /\ ReleaseAll(t) /\ Goto(t, "idle") /\ Quiet

\* setMicMute: the active input is put into standby after hw is released
MicMute(t) ==
  /\ pc[t] = "mute" /\ owner["hw"] = "free"
  /\ Goto(t, IF hw.mode # "call" /\ ActiveInput(Now) THEN "inStandby" ELSE "idle")
  /\ UNCHANGED owner /\ Quiet

\* closeOutputStream, and the destructor's standby if the input has no echo
CloseOutput(t) ==
  /\ pc[t] = "close" /\ owner["hw"] = "free" /\ pc["playback"] = "idle"
  /\ hw' = [hw EXCEPT !.output = FALSE]
  /\ Goto(t, IF hw.echo /\ ActiveInput(Now) THEN "inStandby" ELSE "standby")
  /\ UNCHANGED owner /\ Others /\ UNCHANGED <<out, inp, back, failures>>

HardwareStep(t) ==
  \/ Lock(t, "mode", "hw", "modeOut") \/ ModeLooksOut(t)
  \/ Lock(t, "modeOutLock", "out", "modeOutHw") \/ Lock(t, "modeOutHw", "hw", "modeOutCheck")
  \/ ModeRechecksOut(t) \/ ModeLooksIn(t)
  \/ Lock(t, "modeInLock", "in", "modeInHw") \/ Lock(t, "modeInHw", "hw", "modeInCheck")
  \/ ModeRechecksIn(t) \/ ModeSet(t) \/ ModeCall(t) \/ ModeCallEnds(t) \/ ModeEnds(t)
  \/ MicMute(t) \/ CloseOutput(t)

(***************************************************************************)

\* AudioFlinger: the playback thread calls the output, the record thread the
\* input, another thread the hardware object
Entries(t) == CASE t = "playback" -> IF hw.output THEN {"write", "standby", "route"} ELSE {}
                [] t = "record" -> {"read", "inStandby", "inRoute", "source"}
                                     \cup (IF UseAec THEN {"effect"} ELSE {})
                [] t = "client" -> {"mute", "close"}
Call(t) ==
  /\ pc[t] = "idle" /\ calls < MaxCalls /\ calls' = calls + 1
  /\ \/ (\E e \in Entries(t) : Goto(t, e)) /\ UNCHANGED goal
     \/ t = "client" /\ goal' \in Modes /\ Goto(t, "mode")
  /\ UNCHANGED <<owner, back, streams, history>>

Step(t) == OutputStep(t) \/ InputStep(t) \/ HardwareStep(t)
Next == \E t \in Threads : Call(t) \/ Step(t)
Spec == Init /\ [][Next]_vars
\* Each thread is scheduled; a thread that releases a mutex leaves it to a waiting
\* one sooner or later (mSleepReq makes write and read yield)
FairSpec == Spec /\ \A t \in Threads : WF_vars(Step(t))

-----------------------------------------------------------------------------
AllFree == \A m \in DOMAIN owner : owner[m] = "free"

OutType == [standby : BOOLEAN, pcm : BOOLEAN, mixer : BOOLEAN,
            device : Devices \cup {"earpiece"}, seen : SUBSET Threads]
InType == [standby : BOOLEAN, pcm : BOOLEAN, mixer : BOOLEAN, echo : BOOLEAN, need : BOOLEAN,
           seen : SUBSET Threads]
HwType == [mode : Modes, inCall : BOOLEAN, pcms : Nat, mixers : Nat, output : BOOLEAN,
           echo : BOOLEAN, source : Sources, told : Sources, untold : BOOLEAN,
           path : Devices \cup {"earpiece"}, activated : BOOLEAN]

TypeOK ==
  /\ owner \in [{"out", "in", "hw"} -> Threads \cup {"free"}]
  /\ out \in OutType /\ inp \in InType /\ hw \in HwType
  /\ goal \in Modes /\ missed \in BOOLEAN /\ callFailed \in BOOLEAN
  /\ hw.pcms <= 2 /\ hw.mixers <= 3 /\ calls \in 0..MaxCalls /\ failures \in 0..MaxFailures

\* The one way out of the order: doStandby_l of an input with an echo reference,
\* called by a thread that holds the output.
WaitsForItself(t) == pc[t] = "dsOut" /\ owner["out"] = t

\* A stream that nobody has locked has its PCM exactly when it is not in standby,
\* whoever opened or closed it last: the playback thread closes and opens the
\* input, the record thread the output, setMode both.
StandbyMeansClosed ==
  /\ owner["out"] = "free" => (out.standby <=> ~out.pcm)
  /\ owner["in"] = "free" /\ owner["hw"] = "free" /\ (\A t \in Threads : pc[t] # "dsOut")
       => (inp.standby <=> ~inp.pcm)

\* The open counts are those of the users, so that the shared PCM and the mixer
\* are closed with the last of them and not before; a call that could not open
\* them closes them nevertheless.
One(b) == IF b THEN 1 ELSE 0
CountsMatch ==
  AllFree /\ ~callFailed /\ (\A t \in Threads : pc[t] # "dsOut") =>
    /\ hw.pcms = One(out.pcm) + One(hw.inCall)
    /\ hw.mixers = One(out.mixer) + One(inp.mixer) + One(hw.inCall)

\* The output never has a PCM that was closed under it: even a call that failed to
\* open it, and closes it all the same, only does so after it has put the output
\* into standby; unless it missed the output as well, or the thread that opened the
\* output waits for itself.
NoDanglingPcm ==
  owner["hw"] = "free" /\ out.pcm =>
    hw.pcms > 0 \/ (callFailed /\ missed) \/ \E t \in Threads : WaitsForItself(t)

\* Between calls of setMode the audio mode and the mode of the devices agree.
CallFollowsMode == pc["client"] = "idle" => (hw.mode = "call" <=> hw.inCall)

\* In a call the microphone is the default one, whatever the record thread asks
\* for meanwhile and whether or not the call could open its devices; unless the
\* default was kept as the source when the mixer could not be opened: it counts as
\* set from then on, and nothing tells the mixer before another source was set.
CallUsesDefaultSource == hw.mode = "call" /\ hw.inCall => hw.told = "default" \/ hw.untold

\* The echo reference the record thread uses has not been released.
ReferenceAlive == inp.echo => hw.echo

\* Playback outside a call goes to the device that was asked for, unless a write
\* opened the output while setMode, at the end of a call, waited for the input.
PlaysOnItsDevice ==
  pc["client"] = "idle" /\ ~hw.inCall /\ ~out.standby /\ out.mixer /\ AllFree /\ ~missed
    => hw.path = out.device

\* The PCM devices and the mixer are open exactly for those that use them, whichever
\* thread opened or closed them last.
PcmsHaveUsers == TypeOK /\ StandbyMeansClosed /\ CountsMatch /\ NoDanglingPcm

\* In and after a call the devices follow the mode: the microphone, the speaker, and the
\* echo reference the record thread reads.
SoundFollowsMode ==
  CallFollowsMode /\ CallUsesDefaultSource /\ ReferenceAlive /\ PlaysOnItsDevice

\* What a thread waits for
Wants(t) == CASE pc[t] \in {"write", "standby", "route", "readOut", "dsOut", "modeOutLock"} -> "out"
              [] pc[t] \in {"writeIn", "read", "inStandby", "inRoute", "source", "readIn",
                            "dsIn", "modeInLock"} -> "in"
              [] OTHER -> "hw"
Rank(m) == CASE m = "out" -> 1 [] m = "in" -> 2 [] m = "hw" -> 3
Waiting(t) == pc[t] \in {"write", "writeHw", "writeIn", "writeInHw", "standby", "standbyHw",
   "route", "routeHw", "read", "readHw", "readOut", "readIn", "readInHw", "inStandby",
   "inStandbyHw", "inRoute", "inRouteHw", "source", "sourceHw", "dsOut", "dsIn", "dsHw",
   "mode", "modeOutLock", "modeOutHw", "modeInLock", "modeInHw"}

\* "Mutex acquisition order is always out -> in -> hw"
LockOrder ==
  \A t \in Threads : Waiting(t) =>
    \A m \in DOMAIN owner : owner[m] = t => Rank(m) < Rank(Wants(t))

\* Every call of every thread returns, unless one waits for itself.
CallsReturn ==
  \A t \in Threads : pc[t] # "idle" ~> pc[t] = "idle" \/ \E u \in Threads : WaitsForItself(u)
=============================================================================
