---------------------------- MODULE DecodePipeline ----------------------------
(* SEC_OMX_H264dec.c and SEC_OMX_Mpeg4dec.c: one decode call of the buffer      *)
(* process thread, overlapped with the decode thread that drives the codec.     *)
(* The two exchange frames over two semaphores, two input buffers and a ring of *)
(* time stamps, which the codec indexes with the tag of the frame it shows.     *)
(* Frames are numbered as the client sends them and stamped with their number;  *)
(* frame 1 is the codec configuration.                                          *)
EXTENDS Integers, Sequences

CONSTANTS
  Frames,        \* frames the client sends
  Delay,         \* frames the codec holds back (DISPLAY_DELAY)
  Ring,          \* MAX_TIMESTAMP
  MaxFlushes,    \* bound on flushes
  MaxErrors      \* bound on failing decodes

\* The time stamps of the frames a codec holds, of the one it shows and of the next one have
\* places of their own; in thumbnail mode it may hold a frame whatever the delay is.
ASSUME DecodeAssumption == Delay \in Nat /\ Ring \in Nat /\ Ring > 2 /\ Ring > Delay + 1

VARIABLES
  codec, thumb,  \* "h264", "mpeg4", "h263"; bThumbnailMode
  dec,           \* the codec handle of the component
  ring,          \* timeStamp[] and nFlags[]
  buf, size,     \* MFCDecInputBuffer: what each holds, and its dataSize
  start, end,    \* hDecFrameStart, hDecFrameEnd
  worker,        \* the decode thread
  mfc,           \* the codec's context and the frames it holds back
  pc,            \* where the buffer process thread is in its call
  in, out,       \* processData of the two ports
  ret, re,       \* what the call is about to return, reInputData
  check,         \* checkTimeStamp
  flushing,      \* a flush of the input port before it resets the time stamps
  client,        \* what was sent and shown
  errors, flushes

stream == <<ring, buf, size>>
sems == <<start, end>>
data == <<in, ret, re, out, check>>
fixed == <<codec, thumb>>
vars == <<fixed, dec, stream, sems, worker, mfc, pc, data, flushing, client, errors, flushes>>

Wiped == [stamp |-> -1, eos |-> FALSE]           \* -19771003 and no flag
Other(b) == 1 - b
Held == IF thumb THEN 1 ELSE Delay
NoData == [len |-> 0, stamp |-> 0, eos |-> FALSE, prev |-> 0]
NoOut == [frame |-> 0, stamp |-> 0, eos |-> FALSE]
NoCheck == [set |-> FALSE, on |-> FALSE, stamp |-> 0, eos |-> FALSE]

\* SEC_MFC_*Dec_Init: the codec, two input buffers, the semaphores, the thread
Init ==
  /\ codec \in {"h264", "mpeg4", "h263"} /\ thumb \in BOOLEAN
  /\ dec = [conf |-> FALSE, first |-> TRUE, run |-> FALSE, code |-> "ok", index |-> 0, ti |-> 0,
            exit |-> FALSE, allDelay |-> FALSE]
  /\ ring = [i \in 0 .. Ring - 1 |-> Wiped]
  /\ buf = [b \in 0 .. 1 |-> 0] /\ size = [b \in 0 .. 1 |-> 0]
  /\ start = 0 /\ end = 0 /\ worker = "wait"
  /\ mfc = [open |-> TRUE, held |-> << >>, status |-> "decoding", tag |-> -1, frame |-> 0,
            inTag |-> 0, inBuf |-> 0, size |-> 0, sent |-> 0]
  /\ pc = "idle" /\ in = NoData /\ out = NoOut /\ ret = "none" /\ re = FALSE
  /\ check = NoCheck /\ flushing = FALSE
  /\ client = [sent |-> 0, ended |-> FALSE, bare |-> TRUE, since |-> 0, full |-> TRUE,
               shown |-> << >>, eos |-> FALSE]
  /\ errors = 0 /\ flushes = 0

(***************************************************************************)
(* Input: one frame per client buffer, flagged ENDOFFRAME                  *)
(***************************************************************************)

\* SEC_Preprocessor_InputData: the frame is copied into the input buffer in turn;
\* an empty last buffer stands for the length of the frame before it
Feed ==
  /\ pc = "idle" /\ ~flushing /\ ~re /\ in.len = 0 /\ ~client.ended /\ client.sent < Frames
  /\ \E eos \in BOOLEAN, empty \in BOOLEAN :
       LET f == client.sent + 1
           stamp == IF empty THEN 0 ELSE f
       IN /\ empty => eos
          /\ in' = [in EXCEPT !.len = IF empty THEN in.prev ELSE f, !.stamp = stamp, !.eos = eos]
          /\ buf' = IF empty THEN buf ELSE [buf EXCEPT ![dec.index] = f]
          /\ client' = [client EXCEPT !.sent = IF empty THEN @ ELSE f, !.ended = eos,
                                      !.bare = ~eos \/ empty]
          /\ check' = IF check.set THEN [set |-> FALSE, on |-> TRUE, stamp |-> stamp, eos |-> eos]
                      ELSE check
  /\ pc' = "call" /\ ret' = "none"
  /\ UNCHANGED <<fixed, dec, ring, size, sems, worker, mfc, re, out, flushing, errors, flushes>>

\* the same input again: reInputData
Again ==
  /\ pc = "idle" /\ re /\ pc' = "call" /\ ret' = "none"
  /\ UNCHANGED <<fixed, dec, stream, sems, worker, mfc, in, re, out, check, flushing, client,
                 errors, flushes>>

(***************************************************************************)
(* The decode call                                                         *)
(***************************************************************************)

\* the call returns: "yet" keeps the input for another call, "none" consumes it.
\* reInputData is set from ret when the mutexes are free again, in Deliver.
Returns(r) ==
  /\ ret' = r /\ re' = re /\ pc' = "deliver"
  /\ in' = IF r = "yet" THEN in ELSE [NoData EXCEPT !.prev = in.len]

PassThrough == out' = [frame |-> 0, stamp |-> in.stamp, eos |-> in.eos]
EmptyEos == in.len = 0 /\ in.eos

\* SsbSipMfcDecInit read the first frame; an error ends the stream
Configured(ok, r) ==
  /\ IF ok
     THEN dec' = [dec EXCEPT !.conf = TRUE] /\ Returns(r) /\ UNCHANGED client
     ELSE /\ dec' = [dec EXCEPT !.code = "error"] /\ pc' = "idle" /\ re' = FALSE
          /\ client' = [client EXCEPT !.ended = TRUE] /\ UNCHANGED <<in, ret>>
  /\ UNCHANGED <<fixed, stream, sems, worker, mfc, check, flushing, errors, flushes>>

\* SEC_MFC_H264_Decode before the codec is configured
ConfigureH264 ==
  /\ pc = "call" /\ ~dec.conf /\ codec = "h264" /\ ~EmptyEos
  /\ \E ok \in BOOLEAN :
       Configured(ok, "none") /\ IF ok THEN PassThrough ELSE UNCHANGED out

\* SEC_MFC_Mpeg4_Decode: an H.263 stream has no header, its first frame is decoded next
ConfigureMpeg4 ==
  /\ pc = "call" /\ ~dec.conf /\ codec # "h264" /\ ~EmptyEos
  /\ \E ok \in BOOLEAN :
       /\ Configured(ok, IF codec = "h263" THEN "yet" ELSE "none")
       /\ IF ok /\ codec = "mpeg4" THEN PassThrough ELSE UNCHANGED out

\* the end of a stream that never began
NothingToDecode ==
  /\ pc = "call" /\ ~dec.conf /\ EmptyEos /\ PassThrough /\ Returns("none")
  /\ UNCHANGED <<fixed, dec, stream, sems, worker, mfc, check, flushing, client, errors, flushes>>

\* the stamp is noted; with no decode to collect, the input's own are passed on
Look ==
  /\ pc = "call" /\ dec.conf
  /\ ring' = [ring EXCEPT ![dec.ti] = [stamp |-> in.stamp, eos |-> in.eos]]
  /\ IF dec.code = "ok" /\ ~dec.first
     THEN pc' = "wait" /\ UNCHANGED <<dec, out>>
     ELSE /\ pc' = "submit" /\ dec' = [dec EXCEPT !.allDelay = FALSE]
          /\ out' = [frame |-> 0, stamp |-> in.stamp, eos |-> (dec.allDelay \/ in.eos) /\ ~dec.first]
  /\ UNCHANGED <<fixed, buf, size, sems, worker, mfc, in, ret, re, check, flushing, client,
                 errors, flushes>>

\* MUTANT: the decode under way is not waited for
WaitDone_No ==
  /\ pc = "wait" /\ pc' = "read" /\ dec' = [dec EXCEPT !.run = FALSE]
  /\ UNCHANGED <<fixed, stream, sems, worker, mfc, data, flushing, client, errors, flushes>>
\* wait for mfc decode done
WaitDone ==
  /\ pc = "wait" /\ pc' = "read"
  /\ IF dec.run THEN end > 0 /\ end' = end - 1 ELSE UNCHANGED end
  /\ dec' = [dec EXCEPT !.run = FALSE]
  /\ UNCHANGED <<fixed, stream, start, worker, mfc, data, flushing, client, errors, flushes>>

\* SsbSipMfcDecGetOutBuf and FRAME_TAG: what the codec shows, stamped by its tag.
\* From the end of the stream on, the frame before is decoded over and over,
\* until the tag with the end flag comes out.
\* MUTANT: the frame shown gets the stamp and the flags of the frame going in
Stamped_Own == [stamp |-> in.stamp, eos |-> in.eos]
Stamped ==
  IF mfc.tag \in 0 .. Ring - 1 THEN ring[mfc.tag] ELSE [stamp |-> in.stamp, eos |-> FALSE]
Shows == mfc.status = "display" /\ ~Stamped.eos
Yet == in.eos \/ (dec.allDelay /\ Shows)
Read ==
  /\ pc = "read" /\ pc' = "submit"
  /\ out' = [frame |-> IF Shows THEN mfc.frame ELSE 0, stamp |-> Stamped.stamp, eos |-> Stamped.eos]
  /\ in' = [in EXCEPT !.eos = FALSE]
  /\ ret' = IF Yet THEN "yet" ELSE "none"
  /\ dec' = [dec EXCEPT !.allDelay = in.eos \/ (@ /\ ~Stamped.eos),
                        !.index = IF Yet THEN Other(@) ELSE @]
  /\ size' = IF Yet THEN [size EXCEPT ![dec.index] = in.len] ELSE size
  /\ UNCHANGED <<fixed, ring, buf, sems, worker, mfc, re, check, flushing, client, errors, flushes>>

\* SetInBuf, FRAME_TAG and the post to the decode thread, when the buffer begins
\* with a start code
FrameSize == IF ret = "yet" THEN size[dec.index] ELSE in.len
Submit ==
  /\ pc = "submit" /\ buf[dec.index] # 0 /\ in.len # 0 /\ ~out.eos
  /\ mfc' = [mfc EXCEPT !.inTag = dec.ti, !.inBuf = dec.index, !.size = FrameSize,
                        !.sent = buf[dec.index]]
  /\ dec' = [dec EXCEPT !.ti = (@ + 1) % Ring]
  /\ size' = [size EXCEPT ![dec.index] = FrameSize]
  /\ start' = start + 1 /\ pc' = "posted"
  /\ UNCHANGED <<fixed, ring, buf, end, worker, data, flushing, client, errors, flushes>>
SkipSubmit ==
  /\ pc = "submit" /\ (buf[dec.index] = 0 \/ in.len = 0 \/ out.eos) /\ Returns(ret)
  /\ UNCHANGED <<fixed, dec, stream, sems, worker, mfc, out, check, flushing, client, errors, flushes>>

\* after the post: the decoder runs, the buffers change places
Posted ==
  /\ pc = "posted"
  /\ dec' = [dec EXCEPT !.run = TRUE, !.code = "ok", !.index = Other(@), !.first = FALSE]
  /\ Returns(IF thumb /\ dec.first THEN "yet" ELSE ret)
  /\ UNCHANGED <<fixed, stream, sems, worker, mfc, out, check, flushing, client, errors, flushes>>

\* SEC_Postprocess_OutputData: after a flush nothing goes out before the first new stamp
Matches == out.stamp = check.stamp /\ out.eos = check.eos
\* MUTANT: frames decoded before a flush go out
Passes_All == TRUE
Passes == ~check.set /\ (check.on => Matches)
Deliver ==
  /\ pc = "deliver" /\ pc' = "idle" /\ out' = NoOut
  /\ check' = IF check.on /\ Matches THEN NoCheck ELSE check
  /\ client' =
       IF Passes /\ ~flushing      \* the client drops what comes during a flush
       THEN [client EXCEPT !.shown = IF out.frame # 0
                                     THEN Append(@, [frame |-> out.frame, stamp |-> out.stamp])
                                     ELSE @,
                           !.eos = @ \/ out.eos]
       ELSE client
  /\ re' = (ret = "yet")
  /\ UNCHANGED <<fixed, dec, stream, sems, worker, mfc, in, ret, flushing, errors, flushes>>

Call ==
  \/ Feed \/ Again \/ ConfigureH264 \/ ConfigureMpeg4 \/ NothingToDecode
  \/ Look \/ WaitDone \/ Read \/ Submit \/ SkipSubmit \/ Posted \/ Deliver

(***************************************************************************)
(* The decode thread and the codec                                         *)
(***************************************************************************)

\* MUTANT: the exit flag is not looked at after the wait
Take_Blind ==
  /\ worker = "wait" /\ start > 0 /\ start' = start - 1 /\ worker' = "wait"
  /\ UNCHANGED <<fixed, dec, stream, end, mfc, pc, data, flushing, client, errors, flushes>>
Take ==
  /\ worker = "wait" /\ start > 0 /\ start' = start - 1
  /\ worker' = IF dec.exit THEN "gone" ELSE "exe"
  /\ UNCHANGED <<fixed, dec, stream, end, mfc, pc, data, flushing, client, errors, flushes>>

\* the codec holds frames back in display order; a failed decode changes nothing
\* of what it shows
Decoded ==
  LET held == Append(mfc.held, [frame |-> buf[mfc.inBuf], tag |-> mfc.inTag])
  IN IF Len(held) > Held
     THEN [mfc EXCEPT !.held = Tail(held), !.status = "display", !.frame = Head(held).frame,
                      !.tag = Head(held).tag]
     ELSE [mfc EXCEPT !.held = held, !.status = "decoding", !.frame = 0, !.tag = -1]

\* SsbSipMfcDecExe, its return code, and the post to the buffer process thread
Exe ==
  /\ worker = "exe"
  /\ \E ok \in {TRUE} \cup (IF errors < MaxErrors THEN {FALSE} ELSE {}) :
       /\ mfc' = IF ok THEN Decoded ELSE mfc
       /\ dec' = [dec EXCEPT !.code = IF ok THEN "ok" ELSE "error"]
       /\ errors' = errors + (IF ok THEN 0 ELSE 1)
  /\ end' = end + 1 /\ worker' = IF dec.exit THEN "gone" ELSE "wait"
  /\ UNCHANGED <<fixed, stream, start, pc, data, flushing, client, flushes>>

DecodeThread == Take \/ Exe

(***************************************************************************)
(* The message thread: flush, and the end of the component                 *)
(***************************************************************************)

\* SEC_OMX_FlushPort of the input, under its buffer mutex: before the call, between the
\* preprocessor and the decode, or between the decode and the postprocessor
Flush ==
  /\ pc \in {"idle", "call", "deliver"} /\ ~flushing /\ flushes < MaxFlushes /\ flushes' = flushes + 1
  /\ flushing' = TRUE /\ in' = [NoData EXCEPT !.prev = in.prev]
  /\ UNCHANGED <<fixed, dec, stream, sems, worker, mfc, pc, ret, re, out, check, client, errors>>

\* the rest of SEC_OMX_BufferFlushProcess, outside the mutex.  The client goes on
\* when both ports are flushed.
FlushResets ==
  /\ flushing /\ flushing' = FALSE
  /\ check' = [check EXCEPT !.set = TRUE, !.on = FALSE]
  /\ ring' = [i \in 0 .. Ring - 1 |-> Wiped]
  /\ dec' = [dec EXCEPT !.allDelay = FALSE] /\ re' = FALSE
  /\ client' = [client EXCEPT !.ended = ~dec.conf /\ @, !.bare = TRUE, !.since = client.sent,
                              !.shown = << >>, !.eos = FALSE,
                              !.full = IF start > 0 \/ worker = "exe" THEN Len(mfc.held) = Held
                                       ELSE mfc.status = "display"]
  /\ UNCHANGED <<fixed, buf, size, sems, worker, mfc, pc, in, ret, out, errors, flushes>>

\* SEC_MFC_*Dec_Terminate, between two calls
Terminate ==
  /\ pc = "idle" /\ ~flushing /\ pc' = "join"
  /\ dec' = [dec EXCEPT !.exit = TRUE] /\ start' = start + 1
  /\ UNCHANGED <<fixed, stream, end, worker, mfc, data, flushing, client, errors, flushes>>
Joined ==
  /\ pc = "join" /\ worker = "gone" /\ pc' = "closed"
  /\ mfc' = [mfc EXCEPT !.open = FALSE]
  /\ UNCHANGED <<fixed, dec, stream, sems, worker, data, flushing, client, errors, flushes>>

Next == Call \/ DecodeThread \/ Flush \/ FlushResets \/ Terminate \/ Joined
Spec == Init /\ [][Next]_vars
\* each thread is scheduled; the client goes on sending and the codec answers
FairSpec == Spec /\ WF_vars(Call) /\ WF_vars(DecodeThread) /\ WF_vars(FlushResets) /\ WF_vars(Joined)

(***************************************************************************)
(* Properties, of streams in which no decode has failed so far             *)
(***************************************************************************)
Sound == errors = 0

TypeOK ==
  /\ dec.index \in 0 .. 1 /\ dec.ti \in 0 .. Ring - 1 /\ start \in Nat /\ end \in Nat
  /\ mfc.tag \in -1 .. Ring - 1 /\ Len(mfc.held) <= Held /\ worker \in {"wait", "exe", "gone"}

\* The codec is asked for a frame and told of the next one only between decodes.
WaitsForDecode == pc \in {"read", "submit"} => worker # "exe" /\ start = 0
DecoderQuiet == Sound => WaitsForDecode

\* What the codec reads is what was submitted: the preprocessor never fills the
\* buffer under decode, and until the end of the stream its length goes with it.  (A
\* frame that a drain decodes again may have another length, and a second flush finds
\* it under decode: hence "sent since the last flush".)
BufferInFlight ==
  Sound /\ (worker = "exe" \/ (start > 0 /\ ~dec.exit)) =>
    /\ buf[mfc.inBuf] = mfc.sent
    /\ ~client.ended /\ mfc.sent > client.since => mfc.size = mfc.sent

\* Every picture goes out with the stamp of the frame it was decoded from.
StampOfItsFrame ==
  Sound /\ client.full => \A i \in DOMAIN client.shown : client.shown[i].stamp = client.shown[i].frame

\* Frames go out once, in order and without a gap, from the first one after the
\* header or after a flush, and nothing from before a flush.
From == IF client.since > 0 THEN client.since ELSE IF codec = "h263" THEN 0 ELSE 1
ShownInOrder ==
  Sound /\ client.full /\ ~thumb =>
    \A i \in DOMAIN client.shown : client.shown[i].frame = From + i

\* The end of the stream goes out after every frame that was sent before it, when
\* it came in a buffer of its own.
EosAfterAll ==
  Sound /\ client.full /\ client.eos /\ client.bare /\ ~thumb /\ dec.conf =>
    Len(client.shown) = client.sent - From

\* Terminate returns: the decode thread leaves, whatever it was doing.
TerminateReturns == (pc = "join") ~> (pc = "closed")
\* Once the codec shows frames and both buffers were used, the end of the stream
\* comes out: the drain that decodes the frame before again does not go on for ever.
Draining == pc = "read" /\ dec.allDelay /\ Shows /\ client.bare /\ in.len # 0 /\ buf[0] # 0 /\ buf[1] # 0
DrainEnds == Draining ~> (~dec.allDelay \/ ~Sound \/ pc \in {"join", "closed"})
\* A decode that was submitted is collected, never waited for in vain.
WaitEnds == (pc = "wait") ~> (pc # "wait")
================================================================================
