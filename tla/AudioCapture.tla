---------------------------- MODULE AudioCapture ----------------------------
(* The frames of one input stream of AudioHardware.cpp: from the driver's       *)
(* periods through mInputBuf, and with effects through mProcBuf and the effects,*)
(* to the client; and from the echo reference through mRefBuf to the echo       *)
(* canceller.  read holds mLock from end to end, so that a step is one call, or *)
(* one pass of the loop of processFrames.  Frames are numbered as the driver    *)
(* captures them, but those that open_l drops lose their numbers to the next;   *)
(* the sampling rate is the driver's, no resampler.  A read whose pcm_open      *)
(* fails gives nothing and is not here (AudioHardware has it).                  *)
EXTENDS Integers, Sequences

CONSTANTS
  Period,        \* AUDIO_HW_IN_PERIOD_SZ: frames of one pcm_read
  Requests,      \* frames a client asks for
  Block,         \* frames an effect works on at a time
  MaxFrames      \* bound on the frames the driver captures

VARIABLES
  standby,       \* mStandby
  input,         \* the frames left in mInputBuf; mInputFramesIn is their number
  proc, procSize,   \* mProcBuf and mProcBufSize
  ref, refSize,     \* mRefBuf and mRefBufSize
  reference,     \* mEchoReference is not NULL
  effects,       \* mPreprocessors
  fx,            \* what the effects hold: frames taken, frames made, reverse frames taken
  pc, want, wrote,  \* the call of read: where it is, frames asked for, frames written
  src,           \* the last frame captured
  total,         \* frames captured, those that were dropped too
  last,          \* the last frame the client was given
  used,          \* frames given to the effects: captured, reference
  cut,           \* an effect was taken away with frames still in it, and no fresh start since
  missing        \* the reference failed to give frames, or was behind at the start

buffers == <<input, proc, procSize, ref, refSize>>
call == <<pc, want, wrote>>
vars == <<standby, buffers, reference, effects, fx, call, src, total, last, used,
          cut, missing>>

Effects == {"aec", "ns"}
Least(a, b) == IF a < b THEN a ELSE b
Most(a, b) == IF a < b THEN b ELSE a
First(s, n) == SubSeq(s, 1, n)
Rest(s, n) == SubSeq(s, n + 1, Len(s))
NoFrames == [taken |-> << >>, made |-> << >>, reverse |-> 0]
NoneUsed == [captured |-> 0, reference |-> 0]

Init ==
  /\ standby = TRUE /\ input = << >> /\ proc = << >> /\ procSize = 0
  /\ ref = << >> /\ refSize = 0 /\ reference = FALSE
  /\ effects = {} /\ fx = NoFrames
  /\ pc = "idle" /\ want = 0 /\ wrote = << >>
  /\ src = 0 /\ total = 0 /\ last = 0 /\ used = NoneUsed
  /\ cut = FALSE /\ missing = FALSE

(***************************************************************************)
(* readFrames over getNextBuffer and releaseBuffer                         *)
(***************************************************************************)

\* the calls of pcm_read that n frames need
Periods(n) == IF n <= Len(input) THEN 0 ELSE (n - Len(input) + Period - 1) \div Period

\* MUTANT: what is left of a period is looked for at the start of mInputBuf
ReadFrames_FromStart(n) ==
  LET all == input \o [i \in 1 .. Period * Periods(n) |-> src + i]
      kept == Len(all) - n
  IN [frames |-> First(all, n), left |-> [i \in 1 .. kept |-> all[n + i] - (Period - kept)]]
ReadFrames(n) ==
  LET all == input \o [i \in 1 .. Period * Periods(n) |-> src + i]
  IN [frames |-> First(all, n), left |-> Rest(all, n)]

(***************************************************************************)
(* The stream                                                              *)
(***************************************************************************)

\* open_l: what the stream holds is dropped, what the effects hold is not: nobody tells them.
Open ==
  /\ input' = << >> /\ procSize' = 0 /\ proc' = << >>
  /\ refSize' = 0 /\ ref' = << >>
  /\ cut' = (cut /\ fx.made \o fx.taken # << >>)
  /\ src' = IF cut' THEN src ELSE last + Len(fx.made) + Len(fx.taken)

\* Out of standby, with an echo reference if it can be had: whether the effects have as much
\* reference as captured frames is counted anew when it was not so before.
Start ==
  /\ standby /\ standby' = FALSE /\ Open
  /\ reference' \in {FALSE, "aec" \in effects}
  /\ IF missing \/ used.reference < used.captured
     THEN /\ used' = [captured |-> Len(fx.taken), reference |-> fx.reverse]
          /\ missing' = (fx.reverse < Len(fx.taken))
     ELSE UNCHANGED <<used, missing>>

\* the client asks for n frames; a stream in standby is opened first
Read(n) ==
  /\ pc = "idle" /\ total + Period <= MaxFrames
  /\ Start \/ (~standby /\ UNCHANGED <<standby, buffers, reference, src, used, cut, missing>>)
  /\ want' = n /\ wrote' = << >> /\ pc' = IF effects = {} THEN "read" ELSE "process"
  /\ UNCHANGED <<effects, fx, total, last>>

\* the output comes out of standby and closes and opens the input that is active around it
\* (when that fails, the input goes to standby)
Reopen ==
  /\ pc = "idle" /\ ~standby /\ Open
  /\ UNCHANGED <<standby, reference, effects, fx, call, total, last, used, missing>>

\* without effects, straight into the client's buffer
Direct ==
  /\ pc = "read" /\ pc' = "idle"
  /\ LET r == ReadFrames(want)
     IN wrote' = r.frames /\ input' = r.left /\ last' = r.frames[want]
  /\ src' = src + Period * Periods(want) /\ total' = total + Period * Periods(want)
  /\ UNCHANGED <<standby, proc, procSize, ref, refSize, reference, effects, fx, want, used, cut,
                 missing>>

\* pcm_read fails: the frames of this call are gone, and read goes to standby
ReadFails ==
  /\ pc # "idle" /\ pc' = "idle"
  /\ pc = "process" => Len(proc) < want
  /\ Periods(IF pc = "process" THEN want - Len(proc) ELSE want) > 0
  /\ standby' = TRUE /\ reference' = FALSE
  /\ UNCHANGED <<buffers, effects, fx, want, wrote, src, total, last, used, cut, missing>>

(***************************************************************************)
(* processFrames, one pass of its loop                                     *)
(***************************************************************************)

\* mProcBuf is filled up to the frames asked for
Filled == IF Len(proc) >= want THEN [frames |-> proc, left |-> input, size |-> procSize, periods |-> 0]
          ELSE LET n == want - Len(proc)
                   r == ReadFrames(n)
               IN [frames |-> proc \o r.frames, left |-> r.left, size |-> Most(procSize, want),
                   periods |-> Periods(n)]

\* updateEchoReference: as much reference as there are captured frames
Lacks(n) == Most(0, n - Len(ref))

\* the effects: give what they made, then take frames until they have a block
Taken(n, room) == IF Len(fx.made) >= room THEN 0 ELSE Least(Block - Len(fx.taken), n)
Processed(frames, room) ==
  LET n == Taken(Len(frames), room)
      taken == fx.taken \o First(frames, n)
      full == Len(taken) = Block
      all == IF full THEN fx.made \o taken ELSE fx.made
      out == Least(room, Len(all))
  IN [rest |-> Rest(frames, n), out |-> First(all, out), n |-> n,
      fx |-> [fx EXCEPT !.taken = IF full THEN << >> ELSE taken, !.made = Rest(all, out)]]

\* pushEchoReference: n reference frames for the canceller
Reversed(n) == Least(Block - fx.reverse, n)

Pass(refOk) ==
  LET f == Filled
      lacks == IF reference THEN Lacks(Len(f.frames)) ELSE 0
      held == Len(ref) + (IF refOk THEN lacks ELSE 0)
      back == IF reference THEN Reversed(Least(held, Len(f.frames))) ELSE 0
      p == Processed(f.frames, want - Len(wrote))
  IN /\ pc = "process"
     /\ ~refOk => lacks > 0
     /\ input' = f.left /\ src' = src + Period * f.periods /\ total' = total + Period * f.periods
     /\ procSize' = f.size
     /\ refSize' = IF lacks > 0 THEN Most(refSize, Len(f.frames)) ELSE refSize
     /\ ref' = [i \in 1 .. held - back |-> "frame"]
     /\ missing' = (missing \/ ~refOk)
     /\ proc' = p.rest
     /\ fx' = [p.fx EXCEPT !.reverse = (@ + back) % Block]
     /\ used' = [captured |-> used.captured + p.n, reference |-> used.reference + back]
     /\ wrote' = wrote \o p.out
     /\ last' = IF p.out = << >> THEN last ELSE p.out[Len(p.out)]
     /\ pc' = IF Len(wrote') = want THEN "idle" ELSE "process"
     /\ UNCHANGED <<standby, reference, effects, want, cut>>

(***************************************************************************)
(* Between two calls of read                                               *)
(***************************************************************************)

Standby ==
  /\ pc = "idle" /\ ~standby /\ standby' = TRUE /\ reference' = FALSE
  /\ UNCHANGED <<buffers, effects, fx, call, src, total, last, used, cut, missing>>

\* an echo canceller makes the stream start again; another effect is simply there
AddEffect(e) ==
  /\ pc = "idle" /\ e \notin effects /\ effects' = effects \cup {e}
  /\ standby' = (standby \/ e = "aec") /\ reference' = (reference /\ e # "aec")
  /\ UNCHANGED <<buffers, fx, call, src, total, last, used, cut, missing>>

RemoveEffect(e) ==
  /\ pc = "idle" /\ e \in effects /\ effects' = effects \ {e}
  /\ standby' = (standby \/ e = "aec") /\ reference' = (reference /\ e # "aec")
  /\ cut' = (cut \/ (effects' = {} /\ proc \o fx.taken \o fx.made # << >>))
  /\ IF effects' = {} THEN fx' = NoFrames /\ used' = NoneUsed /\ missing' = FALSE
     ELSE UNCHANGED <<fx, used, missing>>
  /\ UNCHANGED <<buffers, call, src, total, last>>

Next ==
  \/ Direct \/ Pass(TRUE) \/ Pass(FALSE) \/ ReadFails \/ Standby \/ Reopen
  \/ \E n \in Requests : Read(n)
  \/ \E e \in Effects : AddEffect(e) \/ RemoveEffect(e)

Spec == Init /\ [][Next]_vars

-----------------------------------------------------------------------------
TypeOK ==
  /\ standby \in BOOLEAN /\ reference \in BOOLEAN /\ effects \subseteq Effects
  /\ pc \in {"idle", "read", "process"} /\ Len(input) < Period
  /\ Len(fx.taken) < Block /\ fx.reverse \in 0 .. Block - 1 /\ Len(wrote) <= want

\* Nothing the driver captured is lost, doubled or put out of order between the
\* driver and the client, but what open_l drops from the stream's own buffers,
\* whatever sizes the client asks for and the effects work on; what the effects
\* held before comes first (until the last effect is taken away with frames still
\* in it, and then until an open_l finds the effects empty).
FramesFlow ==
  ~standby /\ ~cut =>
    fx.made \o fx.taken \o proc \o input = [i \in 1 .. src - last |-> last + i]

\* The frames mProcBuf and mRefBuf hold fit the memory they were given, although
\* open_l sets the sizes to 0 and requests grow and shrink.
FramesFit == ~standby => Len(proc) <= procSize /\ Len(ref) <= refSize

\* The canceller never works on captured frames without as many frames of reference,
\* counting what the effects hold of both when a stream starts behind: open_l does
\* not tell them, and a stream that starts with less reference than captured
\* frames in the effects stays out of the claim.
ReferenceFirst == ~standby /\ reference /\ ~missing => used.reference >= used.captured
=============================================================================
