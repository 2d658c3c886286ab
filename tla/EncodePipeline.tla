---------------------------- MODULE EncodePipeline ----------------------------
(* SEC_OMX_Venc.c, SEC_OMX_H264enc.c, SEC_OMX_Mpeg4enc.c and SsbSipMfcEncAPI.c: *)
(* one encode call of the buffer process thread, overlapped with the encode     *)
(* thread that drives the codec.  The frame of a call is handed to the codec    *)
(* when the frame before it is collected, so every frame goes out one call      *)
(* later, from one half of the stream buffer while the codec writes the other.  *)
(* Frames are numbered as the client sends them and stamped with their number.  *)
EXTENDS Integers, Sequences

CONSTANTS
  Frames,        \* frames the client sends
  Ring,          \* MAX_TIMESTAMP
  MaxFlushes,    \* bound on flushes
  Sessions,      \* how often the client loads and runs the component
  MaxErrors      \* bound on failing encodes

VARIABLES
  lent,          \* the codec reads the client's memory: NV12T addresses or metadata
  enc,           \* the codec handle of the component
  ring,          \* timeStamp[] and nFlags[]
  buf,           \* MFCEncInputBuffer: the frame each of the two holds
  start, end,    \* hEncFrameStart, hEncFrameEnd
  worker,        \* the encode thread
  mfc,           \* _MFCLIB: the context of the codec
  pc,            \* where the buffer process thread is in its call
  in, out,       \* processData of the two ports
  re,            \* reInputData
  check,         \* checkTimeStamp
  flushing,      \* how far a flush of both ports has come
  client,        \* what was sent, refilled and received
  errors, flushes, session

sems == <<start, end>>
data == <<in, out, re, check>>
bounds == <<errors, flushes, session>>
vars == <<lent, enc, ring, buf, sems, worker, mfc, pc, data, flushing, client, bounds>>

Wiped == [stamp |-> -1, eos |-> FALSE]           \* -19771003 and no flag
Other(b) == 1 - b
NoData == [len |-> 0, stamp |-> 0, eos |-> FALSE]
NoOut == [kind |-> "none", half |-> 0, stamp |-> 0, eos |-> FALSE]
NoCheck == [set |-> FALSE, on |-> FALSE, stamp |-> 0]
Header == -2                                     \* what a half holds after SsbSipMfcEncInit

FreshCodec == [conf |-> FALSE, first |-> TRUE, run |-> FALSE, code |-> "ok", index |-> 0, ti |-> 0,
               exit |-> FALSE]
FreshContext == [open |-> TRUE, half |-> [h \in 0 .. 1 |-> 0], cnt |-> 0, tag |-> 0, inTag |-> 0,
                 inBuf |-> 0, sent |-> 0]
WipedRing == [i \in 0 .. Ring - 1 |-> Wiped]

\* SEC_MFC_*Enc_Init: the codec, two input buffers, the semaphores, the thread
Init ==
  /\ lent \in BOOLEAN /\ enc = FreshCodec /\ mfc = FreshContext
  /\ ring = WipedRing /\ buf = [b \in 0 .. 1 |-> 0]
  /\ start = 0 /\ end = 0 /\ worker = "wait"
  /\ pc = "idle" /\ in = NoData /\ out = NoOut /\ re = FALSE /\ check = NoCheck
  /\ flushing = "no"
  /\ client = [sent |-> 0, filled |-> 0, ended |-> FALSE, since |-> 0, got |-> << >>,
               header |-> FALSE, eos |-> FALSE, error |-> FALSE]
  /\ errors = 0 /\ flushes = 0 /\ session = 1

(***************************************************************************)
(* Input: one frame per client buffer                                      *)
(***************************************************************************)

\* a client of two buffers, sent in turn, draws the next frame into the one that
\* came back
Refill ==
  /\ client.filled < Frames /\ client.filled <= client.sent + 1
  /\ client' = [client EXCEPT !.filled = @ + 1]
  /\ UNCHANGED <<lent, enc, ring, buf, sems, worker, mfc, pc, data, flushing, bounds>>

\* SEC_Preprocessor_InputData: the frame is converted into the input buffer whose
\* turn it is, unless the codec is to read it where it lies
Feed ==
  /\ pc = "idle" /\ flushing = "no" /\ ~re /\ in.len = 0 /\ ~client.ended
  /\ \E eos \in BOOLEAN, empty \in BOOLEAN :
       LET f == client.sent + 1
           stamp == IF empty THEN 0 ELSE f
       IN /\ IF empty THEN eos ELSE f <= client.filled
          /\ in' = [len |-> IF empty THEN 0 ELSE f, stamp |-> stamp, eos |-> eos]
          /\ buf' = IF empty \/ lent THEN buf ELSE [buf EXCEPT ![enc.index] = f]
          /\ client' = [client EXCEPT !.sent = IF empty THEN @ ELSE f, !.ended = eos]
          /\ check' = IF check.set THEN [set |-> FALSE, on |-> TRUE, stamp |-> stamp] ELSE check
  /\ pc' = "fed"
  /\ UNCHANGED <<lent, enc, ring, sems, worker, mfc, re, out, flushing, bounds>>

\* the data of a call that failed is not reset.  The next frame is taken for more of
\* it when the client's buffers hold two frames: under the old stamp.  Else the data is
\* reset, and the frame is fed in the next turn.  An empty input is always taken: what
\* lies in its buffer is encoded.
FeedOnTop ==
  /\ pc = "idle" /\ flushing = "no" /\ ~re /\ in.len # 0 /\ ~client.ended
  /\ \/ /\ client.sent < client.filled
        /\ in' = NoData /\ UNCHANGED <<buf, pc, check, client>>
     \/ \E eos \in BOOLEAN, empty \in BOOLEAN :
          LET f == client.sent + 1
          IN /\ IF empty THEN eos ELSE f <= client.filled
             /\ in' = [in EXCEPT !.len = IF empty THEN @ ELSE f, !.eos = @ \/ eos]
             /\ buf' = IF lent THEN buf ELSE [buf EXCEPT ![enc.index] = IF empty THEN 0 ELSE f]
             /\ client' = [client EXCEPT !.sent = IF empty THEN @ ELSE f, !.ended = eos]
             /\ check' = IF check.set THEN [set |-> FALSE, on |-> TRUE, stamp |-> in.stamp] ELSE check
             /\ pc' = "fed"
  /\ UNCHANGED <<lent, enc, ring, sems, worker, mfc, re, out, flushing, bounds>>

\* the same input again: reInputData
Again ==
  /\ pc = "idle" /\ re /\ pc' = "fed"
  /\ UNCHANGED <<lent, enc, ring, buf, sems, worker, mfc, data, flushing, client, bounds>>

(***************************************************************************)
(* The encode call                                                         *)
(***************************************************************************)

\* the call ends: ErrorInputDataEncodeYet keeps the input for another call
Returns(yet) ==
  /\ re' = yet /\ pc' = "out" /\ in' = IF yet THEN in ELSE NoData

\* SsbSipMfcEncGetOutBuf: the half last written; the codec writes the other one next
\* MUTANT: it goes on with the same half
NextHalf_Same(h) == h
NextHalf(h) == Other(h)

\* SEC_MFC_*_Encode before the codec is configured: the header goes out first
Configure ==
  /\ pc = "fed" /\ ~enc.conf
  /\ enc' = [enc EXCEPT !.conf = TRUE]
  /\ mfc' = [mfc EXCEPT !.half[mfc.cnt] = Header, !.cnt = NextHalf(@)]
  /\ out' = [kind |-> "header", half |-> mfc.cnt, stamp |-> 0, eos |-> FALSE]
  /\ Returns(TRUE)
  /\ UNCHANGED <<lent, ring, buf, sems, worker, check, flushing, client, bounds>>

\* an empty input passes its stamp and flags on; the frame under encode stays there
EmptyInput ==
  /\ pc = "fed" /\ enc.conf /\ in.len = 0
  /\ out' = [kind |-> "none", half |-> 0, stamp |-> in.stamp, eos |-> in.eos]
  /\ Returns(FALSE)
  /\ UNCHANGED <<lent, enc, ring, buf, sems, worker, mfc, check, flushing, client, bounds>>

\* the stamp is noted; without a frame to collect the call goes on to submit
Look ==
  /\ pc = "fed" /\ enc.conf /\ in.len # 0
  /\ ring' = [ring EXCEPT ![enc.ti] = [stamp |-> in.stamp, eos |-> in.eos]]
  /\ pc' = IF enc.code = "ok" /\ ~enc.first THEN "wait" ELSE "submit"
  /\ UNCHANGED <<lent, enc, buf, sems, worker, mfc, data, flushing, client, bounds>>

\* wait for mfc encode done
WaitDone ==
  /\ pc = "wait" /\ pc' = "collect"
  /\ IF enc.run THEN end > 0 /\ end' = end - 1 ELSE UNCHANGED end
  /\ enc' = [enc EXCEPT !.run = FALSE]
  /\ UNCHANGED <<lent, ring, buf, start, worker, mfc, data, flushing, client, bounds>>

\* SEC_MFC_*_Encode: the stream, with stamp and flags by the tag of its frame.
\* GetOutBuf also answers for the encode: its own success replaces a failure.
Collect ==
  /\ pc = "collect" /\ pc' = "submit"
  /\ out' = [kind |-> "frame", half |-> mfc.cnt, stamp |-> ring[mfc.tag].stamp, eos |-> ring[mfc.tag].eos]
  /\ mfc' = [mfc EXCEPT !.cnt = NextHalf(@)]
  /\ enc' = [enc EXCEPT !.code = "ok"]
  /\ UNCHANGED <<lent, ring, buf, sems, worker, in, re, check, flushing, client, bounds>>

\* SetInBuf, FRAME_TAG and the post to the encode thread; the buffers change places.
\* An encode whose failure is seen does not stop this: the client hears of it and
\* nothing goes out, but its end stays posted, and the next wait takes it for its own.
Failed == enc.code # "ok"
Submit ==
  /\ pc = "submit" /\ start' = start + 1
  /\ mfc' = [mfc EXCEPT !.inTag = enc.ti, !.inBuf = enc.index, !.sent = in.len]
  /\ enc' = [enc EXCEPT !.code = "ok", !.run = TRUE, !.index = Other(@), !.ti = (@ + 1) % Ring,
                        !.first = FALSE]
  /\ pc' = "out" /\ re' = FALSE
  /\ in' = IF Failed THEN in ELSE NoData
  /\ out' = IF Failed THEN [out EXCEPT !.kind = "none"] ELSE out
  /\ client' = [client EXCEPT !.error = @ \/ Failed]
  /\ UNCHANGED <<lent, ring, buf, end, worker, check, flushing, bounds>>

\* SEC_Postprocess_OutputData: after a flush nothing goes out before the first new stamp
Passes == ~check.set /\ (check.on => out.stamp = check.stamp)
Received(o) == IF o.kind = "frame" THEN << [frame |-> mfc.half[o.half], stamp |-> o.stamp] >> ELSE << >>
Deliver ==
  /\ pc = "out" /\ pc' = "idle" /\ out' = NoOut
  /\ check' = IF check.on /\ out.stamp = check.stamp THEN NoCheck ELSE check
  /\ client' =
       IF Passes /\ flushing = "no"    \* the client drops what comes during a flush
       THEN [client EXCEPT !.got = @ \o Received(out), !.eos = @ \/ out.eos,
                           !.header = @ \/ (out.kind = "header" /\ mfc.half[out.half] = Header)]
       ELSE client
  /\ UNCHANGED <<lent, enc, ring, buf, sems, worker, mfc, in, re, flushing, bounds>>

Call ==
  \/ Feed \/ FeedOnTop \/ Again \/ Configure \/ EmptyInput \/ Look \/ WaitDone \/ Collect
  \/ Submit \/ Deliver

(***************************************************************************)
(* The encode thread and the codec                                         *)
(***************************************************************************)

Take ==
  /\ worker = "wait" /\ start > 0 /\ start' = start - 1
  /\ worker' = IF enc.exit THEN "gone" ELSE "exe"
  /\ UNCHANGED <<lent, enc, ring, buf, end, mfc, pc, data, flushing, client, bounds>>

\* what lies in the memory the codec reads: the component's, or the client's buffer
\* of that frame, drawn over by the frame two later
Source ==
  IF ~lent THEN buf[mfc.inBuf]
  ELSE IF client.filled >= mfc.sent + 2 THEN mfc.sent + 2 ELSE mfc.sent

\* SsbSipMfcEncExe into the half that is free, its return code, and the post
Exe ==
  /\ worker = "exe"
  /\ \E ok \in {TRUE} \cup (IF errors < MaxErrors THEN {FALSE} ELSE {}) :
       /\ mfc' = IF ok THEN [mfc EXCEPT !.half[mfc.cnt] = mfc.sent, !.tag = mfc.inTag] ELSE mfc
       /\ enc' = [enc EXCEPT !.code = IF ok THEN "ok" ELSE "error"]
       /\ errors' = errors + (IF ok THEN 0 ELSE 1)
  /\ end' = end + 1 /\ worker' = IF enc.exit THEN "gone" ELSE "wait"
  /\ UNCHANGED <<lent, ring, buf, start, pc, data, flushing, client, flushes, session>>

EncodeThread == Take \/ Exe

(***************************************************************************)
(* The message thread: flush of both ports, and the end of the component   *)
(***************************************************************************)
BetweenLocks == pc \in {"idle", "fed", "out"}     \* the buffer mutexes are free

\* SEC_OMX_FlushPort of the input
Flush ==
  /\ BetweenLocks /\ flushing = "no" /\ flushes < MaxFlushes /\ flushes' = flushes + 1
  /\ flushing' = "input" /\ in' = NoData
  /\ UNCHANGED <<lent, enc, ring, buf, sems, worker, mfc, pc, re, out, check, client, errors,
                 session>>

\* the rest of SEC_OMX_BufferFlushProcess for the input, outside the mutex
FlushResets ==
  /\ flushing = "input" /\ flushing' = "output"
  /\ check' = [check EXCEPT !.set = TRUE, !.on = FALSE]
  /\ ring' = WipedRing /\ re' = FALSE
  /\ UNCHANGED <<lent, enc, buf, sems, worker, mfc, pc, in, out, client, bounds>>

\* SEC_OMX_FlushPort of the output; the client goes on when both are flushed
FlushOutput ==
  /\ flushing = "output" /\ BetweenLocks /\ flushing' = "no"
  /\ out' = NoOut
  /\ client' = [client EXCEPT !.ended = FALSE, !.since = client.sent, !.got = << >>, !.eos = FALSE]
  /\ UNCHANGED <<lent, enc, ring, buf, sems, worker, mfc, pc, in, re, check, bounds>>

\* Executing to Idle flushes both ports, Idle to Loaded ends in SEC_MFC_*Enc_Terminate
Terminate ==
  /\ pc = "idle" /\ flushing = "no" /\ pc' = "join"
  /\ in' = NoData /\ out' = NoOut /\ re' = FALSE
  /\ check' = [check EXCEPT !.set = TRUE, !.on = FALSE]
  /\ enc' = [enc EXCEPT !.exit = TRUE] /\ start' = start + 1
  /\ UNCHANGED <<lent, ring, buf, end, worker, mfc, flushing, client, bounds>>
Joined ==
  /\ pc = "join" /\ worker = "gone" /\ pc' = "closed" /\ mfc' = [mfc EXCEPT !.open = FALSE]
  /\ UNCHANGED <<lent, enc, ring, buf, sems, worker, data, flushing, client, bounds>>

\* the same component once more, from Loaded: a new codec, but the check of the
\* first stamp is as the last session left it
Restart ==
  /\ pc = "closed" /\ session < Sessions /\ session' = session + 1 /\ pc' = "idle"
  /\ enc' = FreshCodec /\ mfc' = FreshContext /\ ring' = WipedRing
  /\ start' = 0 /\ end' = 0 /\ worker' = "wait"
  /\ client' = [client EXCEPT !.ended = FALSE, !.since = client.sent, !.got = << >>, !.eos = FALSE,
                              !.header = FALSE, !.error = FALSE]
  /\ UNCHANGED <<lent, buf, data, flushing, errors, flushes>>

Next ==
  \/ Refill \/ Call \/ EncodeThread \/ Flush \/ FlushResets \/ FlushOutput \/ Terminate \/ Joined
  \/ Restart
Spec == Init /\ [][Next]_vars
\* each thread is scheduled and the codec answers
FairSpec ==
  /\ Spec /\ WF_vars(Call) /\ WF_vars(EncodeThread) /\ WF_vars(FlushResets) /\ WF_vars(FlushOutput)
  /\ WF_vars(Joined)

(***************************************************************************)
(* Properties                                                              *)
(***************************************************************************)
Sound == errors = 0

TypeOK ==
  /\ enc.index \in 0 .. 1 /\ enc.ti \in 0 .. Ring - 1 /\ mfc.cnt \in 0 .. 1
  /\ start \in Nat /\ end \in Nat /\ mfc.tag \in 0 .. Ring - 1
  /\ worker \in {"wait", "exe", "gone"} /\ flushing \in {"no", "input", "output"}

\* The codec is asked for a stream, and told of the next frame, only between
\* encodes, for as long as the buffer process has not seen an encode fail; and it is
\* open while it encodes.
EncoderQuiet ==
  /\ pc \in {"collect", "submit"} /\ ~client.error => worker # "exe" /\ start = 0
  /\ worker = "exe" => mfc.open

\* What the codec reads is the frame that was submitted: while it encodes from one
\* of the component's buffers, the next frame is converted into the other.
EncodesWhatWasSent == ~lent /\ ~client.error /\ worker = "exe" => Source = mfc.sent

\* Streams go out once, in the order of their frames and without a gap, from the
\* first frame after the start or a flush on; each is the one its stamp belongs to,
\* not overwritten by the next while it waits to be copied.
StreamsInOrder ==
  Sound => \A i \in DOMAIN client.got :
    client.got[i].frame = client.since + i /\ client.got[i].stamp = client.got[i].frame

\* The client has the codec's header before the first stream, in the first session
\* and when it did not flush before it came.  (The header is stamped 0: after a
\* flush, or in a second session, it fails the check of the first stamp.)
HeaderFirst == client.got # << >> /\ flushes = 0 /\ session = 1 => client.header
HeaderAlways == client.got # << >> => client.header

\* Terminate returns: the encode thread leaves, whatever it was doing.
EncTerminateReturns == (pc = "join") ~> (pc = "closed")
\* An encode that was submitted is collected, never waited for in vain.
EncWaitEnds == (pc = "wait") ~> (pc # "wait")
================================================================================
