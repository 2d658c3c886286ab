------------------------------ MODULE CodecProofs ------------------------------
(* The buffer process thread and the decode or encode thread never work with a *)
(* codec at one time and a codec reads what was submitted to it, for any number *)
(* of frames, delay, flushes and failures; a decoded picture goes out with the  *)
(* stamp of its frame, after the one before it and before the end; what a       *)
(* client of an encoder gets comes in order after the header, as long as no     *)
(* encode has failed; and a stream of any length, in buffers of any size, is    *)
(* cut into frames where its pictures begin.                                    *)
EXTENDS MC_Codecs, SequenceTheorems, WellFoundedInduction, TLAPS

Index == 0 .. Ring - 1                         \* of timeStamp[]

\* The next index is one, and another one: indexTimestamp of every submission.

LEMMA NextIndex ==
  ASSUME NEW t \in Index
  PROVE  (t + 1) % Ring \in Index /\ (t + 1) % Ring # t
  <1>1. CASE t + 1 < Ring
    <2>1. (t + 1) % Ring = t + 1
      BY <1>1, DecodeAssumption DEF Index
    <2> QED BY <2>1, <1>1, DecodeAssumption DEF Index
  <1>2. CASE t + 1 = Ring
    <2>1. Ring % Ring = 0
      BY DecodeAssumption
    <2> QED BY <2>1, <1>2, DecodeAssumption DEF Index
  <1> QED BY <1>1, <1>2, DecodeAssumption DEF Index

(***************************************************************************)
(* The decoder                                                             *)
(***************************************************************************)

\* What each record is made of, and how many frames the codec holds at most.
DecType == [conf : BOOLEAN, first : BOOLEAN, run : BOOLEAN, code : {"ok", "error"},
            index : 0 .. 1, ti : Index, exit : BOOLEAN, allDelay : BOOLEAN]
HeldType == [frame : Nat, tag : Index]
MfcType == [open : BOOLEAN, held : Seq(HeldType), status : {"decoding", "display"},
            tag : -1 .. Ring - 1, frame : Nat, inTag : Index, inBuf : 0 .. 1, size : Nat,
            sent : Nat]
DecoderOK ==
  /\ dec \in DecType /\ mfc \in MfcType /\ Len(mfc.held) <= Held
BuffersOK ==
  /\ buf \in [0 .. 1 -> Nat] /\ size \in [0 .. 1 -> Nat]
  /\ in \in [len : Nat, stamp : Nat, eos : BOOLEAN, prev : Nat] /\ ret \in {"none", "yet"}
FeedOK ==
  /\ client.sent \in Nat /\ client.since \in Nat /\ client.ended \in BOOLEAN
  /\ DOMAIN client = {"sent", "ended", "bare", "since", "full", "shown", "eos"}
  /\ flushing \in BOOLEAN
DecCountersOK ==
  /\ start \in Nat /\ end \in Nat /\ errors \in Nat /\ worker \in {"wait", "exe", "gone"}
DecShapes == DecoderOK /\ BuffersOK /\ DecCountersOK /\ FeedOK

\* Each frame handed over is in one place, on its way to the decode thread, with it or
\* on its way back, until the call has waited for it.
DecUnderway == start + end + (IF worker = "exe" THEN 1 ELSE 0)
DecOneAtATime ==
  /\ ~dec.exit => DecUnderway = IF dec.run \/ pc = "posted" THEN 1 ELSE 0
  /\ dec.first \/ pc \in {"read", "submit", "posted"} => ~dec.run
\* As long as no decode has failed, the return code of the thread is that of a good one.
CodeSeen == dec.code = "ok" \/ dec.first
\* Between the wait and the next submission the codec is configured; it is left at the end.
Between == {"read", "submit", "posted"}
InTurn ==
  /\ pc \in Between \cup {"wait"} => dec.conf
  /\ ~dec.conf => dec.first
  /\ pc \in {"wait", "read"} => ~dec.first
  /\ dec.exit => pc \in {"join", "closed"}
DecControl == InTurn /\ (errors = 0 => CodeSeen /\ DecOneAtATime)

\* A frame that the codec has yet to read, and the buffer it lies in: the one the call
\* does not fill.
DecInWork == worker = "exe" \/ (start > 0 /\ ~dec.exit)
BufferLent ==
  DecInWork =>
    /\ buf[mfc.inBuf] = mfc.sent
    /\ ~dec.exit => mfc.inBuf = IF pc = "posted" THEN dec.index ELSE Other(dec.index)
    /\ ~client.ended /\ mfc.sent > client.since => mfc.size = mfc.sent
\* A buffer holds a frame that was sent, and until the end of the stream the one to be
\* filled holds nothing or the input; no call is about to ask for that input again.
Untouched ==
  /\ mfc.sent <= client.sent /\ buf[0] <= client.sent /\ buf[1] <= client.sent
  /\ dec.first => dec.index = 0 /\ buf[1] = 0
  /\ flushing => in.len = 0 /\ ~in.eos
  /\ ~client.ended =>
       /\ ~in.eos /\ ~dec.allDelay
       /\ in.len # 0 /\ pc \in {"call", "wait", "submit", "posted"} => ret = "none"
       /\ in.len # 0 /\ pc # "posted" => buf[dec.index] \in {0, in.len}
DecFed == Untouched /\ (Sound => BufferLent)

\* Every step leaves the records what they are.
LEMMA DecFeed_Types == DecShapes /\ Feed => DecShapes'
  <1> SUFFICES ASSUME DecShapes, Feed PROVE DecShapes'
    OBVIOUS
  <1>1. DecoderOK' /\ DecCountersOK'
    BY DEF Feed, sems, fixed, DecShapes, DecoderOK, DecCountersOK, Held
  <1>2. PICK eos \in BOOLEAN, empty \in BOOLEAN :
          /\ in' = [in EXCEPT !.len = IF empty THEN in.prev ELSE client.sent + 1,
                              !.stamp = IF empty THEN 0 ELSE client.sent + 1, !.eos = eos]
          /\ buf' = IF empty THEN buf ELSE [buf EXCEPT ![dec.index] = client.sent + 1]
          /\ client' = [client EXCEPT !.sent = IF empty THEN @ ELSE client.sent + 1, !.ended = eos,
                                      !.bare = ~eos \/ empty]
    BY DEF Feed
  <1>3. client.sent \in Nat /\ client.sent + 1 \in Nat
    BY DEF DecShapes, FeedOK
  <1>4. BuffersOK'
    <2>1. in' \in [len : Nat, stamp : Nat, eos : BOOLEAN, prev : Nat]
      BY <1>2, <1>3 DEF DecShapes, BuffersOK
    <2>2. buf' \in [0 .. 1 -> Nat]
      BY <1>2, <1>3 DEF DecShapes, BuffersOK
    <2> QED BY <2>1, <2>2 DEF Feed, DecShapes, BuffersOK
  <1>5. FeedOK'
    BY <1>2, <1>3 DEF Feed, DecShapes, FeedOK
  <1> QED BY <1>1, <1>4, <1>5 DEF DecShapes

LEMMA DecAgain_Types == DecShapes /\ Again => DecShapes'
  <1> SUFFICES ASSUME DecShapes, Again PROVE DecShapes'
    OBVIOUS
  <1>1. dec' \in DecType
    BY NextIndex
       DEF Again, sems, stream, fixed, DecShapes, DecoderOK, BuffersOK, DecType, Index
  <1>2. mfc' \in MfcType /\ Len(mfc'.held) <= Held'
    BY DEF Again, sems, stream, fixed, DecShapes, DecoderOK, BuffersOK, DecType, MfcType, Index,
           Held
  <1>3. BuffersOK'
    BY DEF Again, sems, stream, fixed, DecShapes, DecoderOK, BuffersOK, FeedOK, DecType, MfcType,
           Index
  <1>4. DecCountersOK' /\ FeedOK'
    BY DEF Again, sems, stream, fixed, DecShapes, DecCountersOK, FeedOK
  <1> QED BY <1>1, <1>2, <1>3, <1>4 DEF DecShapes, DecoderOK
\* The configuration runs in the call itself; a code it leaves is of no later decode.

LEMMA Configuring ==
  ASSUME DecShapes, ConfigureH264 \/ ConfigureMpeg4
  PROVE  /\ UNCHANGED <<fixed, stream, sems, worker, mfc, flushing, errors>>
         /\ pc = "call" /\ ~dec.conf
         /\ \/ /\ dec' = [dec EXCEPT !.conf = TRUE] /\ client' = client /\ pc' = "deliver"
               /\ \/ ret' = "yet" /\ in' = in
                  \/ ret' = "none" /\ in' = [NoData EXCEPT !.prev = in.len]
            \/ /\ dec' = [dec EXCEPT !.code = "error"] /\ pc' = "idle"
               /\ client' = [client EXCEPT !.ended = TRUE] /\ UNCHANGED <<in, ret>>
  <1>1. /\ pc = "call" /\ ~dec.conf
        /\ \E ok \in BOOLEAN, r \in {"none", "yet"} : Configured(ok, r)
    BY DEF ConfigureH264, ConfigureMpeg4
  <1> QED BY <1>1 DEF Configured, Returns

LEMMA DecConfigure_Types == DecShapes /\ (ConfigureH264 \/ ConfigureMpeg4) => DecShapes'
  <1> SUFFICES ASSUME DecShapes, ConfigureH264 \/ ConfigureMpeg4 PROVE DecShapes'
    OBVIOUS
  <1>1. dec' \in DecType
    BY Configuring DEF DecShapes, DecoderOK, DecType
  <1>2. mfc' \in MfcType /\ Len(mfc'.held) <= Held'
    BY Configuring DEF fixed, DecShapes, DecoderOK, Held
  <1>3. BuffersOK'
    <2>1. in' \in [len : Nat, stamp : Nat, eos : BOOLEAN, prev : Nat]
      <3>1. in' = in \/ in' = [len |-> 0, stamp |-> 0, eos |-> FALSE, prev |-> in.len]
        BY Configuring DEF NoData
      <3>2. in.len \in Nat /\ in \in [len : Nat, stamp : Nat, eos : BOOLEAN, prev : Nat]
        BY DEF DecShapes, BuffersOK
      <3>3. [len |-> 0, stamp |-> 0, eos |-> FALSE, prev |-> in.len]
              \in [len : Nat, stamp : Nat, eos : BOOLEAN, prev : Nat]
        BY <3>2
      <3> QED BY <3>1, <3>2, <3>3
    <2>2. ret' \in {"none", "yet"}
      BY Configuring DEF DecShapes, BuffersOK
    <2> QED BY <2>1, <2>2, Configuring DEF stream, DecShapes, BuffersOK
  <1>4. DecCountersOK' /\ FeedOK'
    BY Configuring DEF sems, DecShapes, DecCountersOK, FeedOK
  <1> QED BY <1>1, <1>2, <1>3, <1>4 DEF DecShapes, DecoderOK

LEMMA DecNothingToDecode_Types == DecShapes /\ NothingToDecode => DecShapes'
  <1> SUFFICES ASSUME DecShapes, NothingToDecode PROVE DecShapes'
    OBVIOUS
  <1>1. dec' \in DecType
    BY NextIndex
       DEF NothingToDecode, Returns, PassThrough, EmptyEos, sems, stream, fixed, NoData,
           DecShapes, DecoderOK, BuffersOK, DecType, Index
  <1>2. mfc' \in MfcType /\ Len(mfc'.held) <= Held'
    BY DEF NothingToDecode, Returns, PassThrough, EmptyEos, sems, stream, fixed, NoData,
           DecShapes, DecoderOK, BuffersOK, DecType, MfcType, Index, Held
  <1>3. BuffersOK'
    BY DEF NothingToDecode, Returns, PassThrough, EmptyEos, sems, stream, fixed, NoData,
           DecShapes, DecoderOK, BuffersOK, FeedOK, DecType, MfcType, Index
  <1>4. DecCountersOK' /\ FeedOK'
    BY DEF NothingToDecode, Returns, PassThrough, EmptyEos, sems, stream, fixed, NoData,
           DecShapes, DecCountersOK, FeedOK
  <1> QED BY <1>1, <1>2, <1>3, <1>4 DEF DecShapes, DecoderOK

LEMMA DecLook_Types == DecShapes /\ Look => DecShapes'
  <1> SUFFICES ASSUME DecShapes, Look PROVE DecShapes'
    OBVIOUS
  <1>1. dec' \in DecType
    BY NextIndex
       DEF Look, sems, fixed, DecShapes, DecoderOK, BuffersOK, DecType, Index
  <1>2. mfc' \in MfcType /\ Len(mfc'.held) <= Held'
    BY DEF Look, sems, fixed, DecShapes, DecoderOK, BuffersOK, DecType, MfcType, Index, Held
  <1>3. BuffersOK'
    BY DEF Look, sems, fixed, DecShapes, DecoderOK, BuffersOK, FeedOK, DecType, MfcType, Index
  <1>4. DecCountersOK' /\ FeedOK'
    BY DEF Look, sems, fixed, DecShapes, DecCountersOK, FeedOK
  <1> QED BY <1>1, <1>2, <1>3, <1>4 DEF DecShapes, DecoderOK

LEMMA DecWaitDone_Types == DecShapes /\ WaitDone => DecShapes'
  <1> SUFFICES ASSUME DecShapes, WaitDone PROVE DecShapes'
    OBVIOUS
  <1>1. dec' \in DecType
    BY NextIndex
       DEF WaitDone, data, stream, fixed, DecShapes, DecoderOK, BuffersOK, DecType, Index
  <1>2. mfc' \in MfcType /\ Len(mfc'.held) <= Held'
    BY DEF WaitDone, data, stream, fixed, DecShapes, DecoderOK, BuffersOK, DecType, MfcType,
           Index, Held
  <1>3. BuffersOK'
    BY DEF WaitDone, data, stream, fixed, DecShapes, DecoderOK, BuffersOK, FeedOK, DecType,
           MfcType, Index
  <1>4. DecCountersOK' /\ FeedOK'
    BY DEF WaitDone, data, stream, fixed, DecShapes, DecCountersOK, FeedOK
  <1> QED BY <1>1, <1>2, <1>3, <1>4 DEF DecShapes, DecoderOK

LEMMA DecRead_Types == DecShapes /\ Read => DecShapes'
  <1> SUFFICES ASSUME DecShapes, Read PROVE DecShapes'
    OBVIOUS
  <1>1. dec' \in DecType
    <2>1. PICK all \in BOOLEAN, other \in 0 .. 1 :
            dec' = [dec EXCEPT !.allDelay = all, !.index = other]
      <3>1. Other(dec.index) \in 0 .. 1 /\ dec.index \in 0 .. 1
        BY DEF Other, DecShapes, DecoderOK, DecType
      <3>2. in.eos \in BOOLEAN /\ dec.allDelay \in BOOLEAN
        BY DEF DecShapes, DecoderOK, BuffersOK, DecType
      <3>3. dec' = [dec EXCEPT !.allDelay = in.eos \/ (dec.allDelay /\ ~Stamped.eos),
                               !.index = IF Yet THEN Other(dec.index) ELSE dec.index]
        BY DEF Read, DecShapes, DecoderOK, DecType
      <3>4. (in.eos \/ (dec.allDelay /\ ~Stamped.eos)) \in BOOLEAN
        OBVIOUS
      <3> QED BY <3>1, <3>3, <3>4
    <2> QED BY <2>1 DEF DecShapes, DecoderOK, DecType
  <1>2. mfc' \in MfcType /\ Len(mfc'.held) <= Held'
    BY DEF Read, fixed, DecShapes, DecoderOK, Held
  <1>3. BuffersOK'
    BY DEF Read, DecShapes, DecoderOK, BuffersOK, DecType
  <1>4. DecCountersOK' /\ FeedOK'
    BY DEF Read, sems, DecShapes, DecCountersOK, FeedOK
  <1> QED BY <1>1, <1>2, <1>3, <1>4 DEF DecShapes, DecoderOK

LEMMA DecSubmit_Types == DecShapes /\ Submit => DecShapes'
  <1> SUFFICES ASSUME DecShapes, Submit PROVE DecShapes'
    OBVIOUS
  <1>1. dec' \in DecType
    BY NextIndex
       DEF Submit, data, fixed, FrameSize, DecShapes, DecoderOK, BuffersOK, DecType, Index
  <1>2. mfc' \in MfcType /\ Len(mfc'.held) <= Held'
    BY DEF Submit, data, fixed, FrameSize, DecShapes, DecoderOK, BuffersOK, DecType, MfcType,
           Index, Held
  <1>3. BuffersOK'
    BY DEF Submit, data, fixed, FrameSize, DecShapes, DecoderOK, BuffersOK, FeedOK, DecType,
           MfcType, Index
  <1>4. DecCountersOK' /\ FeedOK'
    BY DEF Submit, data, fixed, FrameSize, DecShapes, DecCountersOK, FeedOK
  <1> QED BY <1>1, <1>2, <1>3, <1>4 DEF DecShapes, DecoderOK

LEMMA DecSkipSubmit_Types == DecShapes /\ SkipSubmit => DecShapes'
  <1> SUFFICES ASSUME DecShapes, SkipSubmit PROVE DecShapes'
    OBVIOUS
  <1>1. dec' \in DecType
    BY NextIndex
       DEF SkipSubmit, Returns, sems, stream, fixed, NoData, DecShapes, DecoderOK, BuffersOK,
           DecType, Index
  <1>2. mfc' \in MfcType /\ Len(mfc'.held) <= Held'
    BY DEF SkipSubmit, Returns, sems, stream, fixed, NoData, DecShapes, DecoderOK, BuffersOK,
           DecType, MfcType, Index, Held
  <1>3. BuffersOK'
    BY DEF SkipSubmit, Returns, sems, stream, fixed, NoData, DecShapes, DecoderOK, BuffersOK,
           FeedOK, DecType, MfcType, Index
  <1>4. DecCountersOK' /\ FeedOK'
    BY DEF SkipSubmit, Returns, sems, stream, fixed, NoData, DecShapes, DecCountersOK, FeedOK
  <1> QED BY <1>1, <1>2, <1>3, <1>4 DEF DecShapes, DecoderOK

LEMMA DecPosted_Types == DecShapes /\ Posted => DecShapes'
  <1> SUFFICES ASSUME DecShapes, Posted PROVE DecShapes'
    OBVIOUS
  <1>1. dec' \in DecType
    <2>1. dec' = [dec EXCEPT !.run = TRUE, !.code = "ok", !.index = Other(dec.index),
                             !.first = FALSE]
      BY DEF Posted, DecShapes, DecoderOK, DecType
    <2>2. Other(dec.index) \in 0 .. 1
      BY DEF Other, DecShapes, DecoderOK, DecType
    <2> QED BY <2>1, <2>2 DEF DecShapes, DecoderOK, DecType
  <1>2. mfc' \in MfcType /\ Len(mfc'.held) <= Held'
    BY DEF Posted, fixed, DecShapes, DecoderOK, Held
  <1>3. BuffersOK'
    BY DEF Posted, Returns, stream, NoData, DecShapes, DecoderOK, BuffersOK, DecType
  <1>4. DecCountersOK' /\ FeedOK'
    BY DEF Posted, Returns, sems, DecShapes, DecCountersOK, FeedOK
  <1> QED BY <1>1, <1>2, <1>3, <1>4 DEF DecShapes, DecoderOK

LEMMA DecDeliver_Types == DecShapes /\ Deliver => DecShapes'
  <1> SUFFICES ASSUME DecShapes, Deliver PROVE DecShapes'
    OBVIOUS
  <1>1. dec' \in DecType
    BY NextIndex
       DEF Deliver, sems, stream, fixed, Matches, Passes, NoCheck, NoOut, DecShapes, DecoderOK,
           BuffersOK, DecType, Index
  <1>2. mfc' \in MfcType /\ Len(mfc'.held) <= Held'
    BY DEF Deliver, sems, stream, fixed, Matches, Passes, NoCheck, NoOut, DecShapes, DecoderOK,
           BuffersOK, DecType, MfcType, Index, Held
  <1>3. BuffersOK'
    BY DEF Deliver, sems, stream, fixed, Matches, Passes, NoCheck, NoOut, DecShapes, DecoderOK,
           BuffersOK, FeedOK, DecType, MfcType, Index
  <1>4. DecCountersOK' /\ FeedOK'
    BY DEF Deliver, sems, stream, fixed, Matches, Passes, NoCheck, NoOut, DecShapes,
           DecCountersOK, FeedOK
  <1> QED BY <1>1, <1>2, <1>3, <1>4 DEF DecShapes, DecoderOK

LEMMA DecTake_Types == DecShapes /\ Take => DecShapes'
  <1> SUFFICES ASSUME DecShapes, Take PROVE DecShapes'
    OBVIOUS
  <1>1. dec' \in DecType
    BY NextIndex
       DEF Take, data, stream, fixed, DecShapes, DecoderOK, BuffersOK, DecType, Index
  <1>2. mfc' \in MfcType /\ Len(mfc'.held) <= Held'
    BY DEF Take, data, stream, fixed, DecShapes, DecoderOK, BuffersOK, DecType, MfcType, Index,
           Held
  <1>3. BuffersOK'
    BY DEF Take, data, stream, fixed, DecShapes, DecoderOK, BuffersOK, FeedOK, DecType, MfcType,
           Index
  <1>4. DecCountersOK' /\ FeedOK'
    BY DEF Take, data, stream, fixed, DecShapes, DecCountersOK, FeedOK
  <1> QED BY <1>1, <1>2, <1>3, <1>4 DEF DecShapes, DecoderOK

LEMMA DecExe_Types == DecShapes /\ Exe => DecShapes'
  <1> SUFFICES ASSUME DecShapes, Exe PROVE DecShapes'
    OBVIOUS
  <1>1. dec' \in DecType
    <2>1. PICK code \in {"ok", "error"} : dec' = [dec EXCEPT !.code = code]
      BY DEF Exe
    <2> QED BY <2>1 DEF DecShapes, DecoderOK, DecType
  <1>2. mfc' \in MfcType /\ Len(mfc'.held) <= Held'
    <2>1. Held' = Held /\ Held \in Nat
      BY DecodeAssumption DEF Exe, fixed, Held
    <2>2. CASE mfc' = mfc
      BY <2>1, <2>2 DEF DecShapes, DecoderOK
    <2>3. CASE mfc' = Decoded
      <3> DEFINE held == Append(mfc.held, [frame |-> buf[mfc.inBuf], tag |-> mfc.inTag])
      <3>1. [frame |-> buf[mfc.inBuf], tag |-> mfc.inTag] \in HeldType
        BY DEF DecShapes, DecoderOK, BuffersOK, MfcType, HeldType
      <3>2. held \in Seq(HeldType) /\ Len(held) = Len(mfc.held) + 1
        BY <3>1 DEF DecShapes, DecoderOK, MfcType
      <3>3. /\ Tail(held) \in Seq(HeldType) /\ Len(Tail(held)) = Len(mfc.held)
            /\ Head(held) \in HeldType
        BY <3>2 DEF DecShapes, DecoderOK, MfcType
      <3>4. CASE Len(held) > Held
        <4>1. mfc' = [mfc EXCEPT !.held = Tail(held), !.status = "display", !.frame = Head(held).frame,
                                 !.tag = Head(held).tag]
          BY <2>3, <3>4 DEF Decoded
        <4>2. Head(held).frame \in Nat /\ Head(held).tag \in -1 .. Ring - 1
          BY <3>3 DEF HeldType, Index
        <4> HIDE DEF held
        <4> QED BY <4>1, <4>2, <3>3, <2>1 DEF DecShapes, DecoderOK, MfcType
      <3>5. CASE Len(held) <= Held
        <4>1. mfc' = [mfc EXCEPT !.held = held, !.status = "decoding", !.frame = 0, !.tag = -1]
          BY <2>3, <3>2, <3>5, <2>1 DEF Decoded
        <4>2. -1 \in -1 .. Ring - 1 /\ Len(held) <= Held'
          BY <3>5, <2>1, DecodeAssumption
        <4> HIDE DEF held
        <4> QED BY <4>1, <4>2, <3>2 DEF DecShapes, DecoderOK, MfcType
      <3> HIDE DEF held
      <3> QED BY <3>2, <3>4, <3>5, <2>1 DEF DecShapes, DecoderOK, MfcType
    <2> QED BY <2>2, <2>3 DEF Exe
  <1>3. BuffersOK' /\ DecCountersOK' /\ FeedOK'
    BY DEF Exe, data, stream, DecShapes, BuffersOK, DecCountersOK, FeedOK
  <1> QED BY <1>1, <1>2, <1>3 DEF DecShapes, DecoderOK

LEMMA DecFlush_Types == DecShapes /\ Flush => DecShapes'
  <1> SUFFICES ASSUME DecShapes, Flush PROVE DecShapes'
    OBVIOUS
  <1>1. dec' \in DecType
    BY NextIndex
       DEF Flush, sems, stream, fixed, NoData, DecShapes, DecoderOK, BuffersOK, DecType, Index
  <1>2. mfc' \in MfcType /\ Len(mfc'.held) <= Held'
    BY DEF Flush, sems, stream, fixed, NoData, DecShapes, DecoderOK, BuffersOK, DecType, MfcType,
           Index, Held
  <1>3. BuffersOK'
    BY DEF Flush, sems, stream, fixed, NoData, DecShapes, DecoderOK, BuffersOK, FeedOK, DecType,
           MfcType, Index
  <1>4. DecCountersOK' /\ FeedOK'
    BY DEF Flush, sems, stream, fixed, NoData, DecShapes, DecCountersOK, FeedOK
  <1> QED BY <1>1, <1>2, <1>3, <1>4 DEF DecShapes, DecoderOK

LEMMA DecFlushResets_Types == DecShapes /\ FlushResets => DecShapes'
  <1> SUFFICES ASSUME DecShapes, FlushResets PROVE DecShapes'
    OBVIOUS
  <1>1. dec' \in DecType
    BY NextIndex
       DEF FlushResets, sems, fixed, Wiped, DecShapes, DecoderOK, BuffersOK, DecType, Index
  <1>2. mfc' \in MfcType /\ Len(mfc'.held) <= Held'
    BY DEF FlushResets, sems, fixed, Wiped, DecShapes, DecoderOK, BuffersOK, DecType, MfcType,
           Index, Held
  <1>3. BuffersOK'
    BY DEF FlushResets, sems, fixed, Wiped, DecShapes, DecoderOK, BuffersOK, FeedOK, DecType,
           MfcType, Index
  <1>4. DecCountersOK' /\ FeedOK'
    BY DEF FlushResets, sems, fixed, Wiped, DecShapes, DecCountersOK, FeedOK
  <1> QED BY <1>1, <1>2, <1>3, <1>4 DEF DecShapes, DecoderOK

LEMMA DecTerminate_Types == DecShapes /\ Terminate => DecShapes'
  <1> SUFFICES ASSUME DecShapes, Terminate PROVE DecShapes'
    OBVIOUS
  <1>1. dec' \in DecType
    BY NextIndex
       DEF Terminate, data, stream, fixed, DecShapes, DecoderOK, BuffersOK, DecType, Index
  <1>2. mfc' \in MfcType /\ Len(mfc'.held) <= Held'
    BY DEF Terminate, data, stream, fixed, DecShapes, DecoderOK, BuffersOK, DecType, MfcType,
           Index, Held
  <1>3. BuffersOK'
    BY DEF Terminate, data, stream, fixed, DecShapes, DecoderOK, BuffersOK, FeedOK, DecType,
           MfcType, Index
  <1>4. DecCountersOK' /\ FeedOK'
    BY DEF Terminate, data, stream, fixed, DecShapes, DecCountersOK, FeedOK
  <1> QED BY <1>1, <1>2, <1>3, <1>4 DEF DecShapes, DecoderOK

LEMMA DecJoined_Types == DecShapes /\ Joined => DecShapes'
  <1> SUFFICES ASSUME DecShapes, Joined PROVE DecShapes'
    OBVIOUS
  <1>1. dec' \in DecType
    BY NextIndex
       DEF Joined, sems, data, stream, fixed, DecShapes, DecoderOK, BuffersOK, DecType, Index
  <1>2. mfc' \in MfcType /\ Len(mfc'.held) <= Held'
    BY DEF Joined, sems, data, stream, fixed, DecShapes, DecoderOK, BuffersOK, DecType, MfcType,
           Index, Held
  <1>3. BuffersOK'
    BY DEF Joined, sems, data, stream, fixed, DecShapes, DecoderOK, BuffersOK, FeedOK, DecType,
           MfcType, Index
  <1>4. DecCountersOK' /\ FeedOK'
    BY DEF Joined, sems, data, stream, fixed, DecShapes, DecCountersOK, FeedOK
  <1> QED BY <1>1, <1>2, <1>3, <1>4 DEF DecShapes, DecoderOK

-----------------------------------------------------------------------------
\* Every step keeps the two threads in turn.
LEMMA DecFeed_Control ==
  ASSUME DecShapes, DecControl, Feed PROVE DecControl'
  BY DEF Feed, sems, fixed, DecShapes, DecoderOK, DecCountersOK, DecType, DecControl, InTurn,
         CodeSeen, DecOneAtATime, DecUnderway, Between

LEMMA DecAgain_Control ==
  ASSUME DecShapes, DecControl, Again PROVE DecControl'
  BY DEF Again, sems, stream, fixed, DecShapes, DecoderOK, DecCountersOK, DecType, DecControl,
         InTurn, CodeSeen, DecOneAtATime, DecUnderway, Between

LEMMA DecConfigure_Control ==
  ASSUME DecShapes, DecControl, ConfigureH264 \/ ConfigureMpeg4 PROVE DecControl'
  BY Configuring
     DEF sems, DecShapes, DecoderOK, DecCountersOK, DecType, DecControl, InTurn, CodeSeen,
         DecOneAtATime, DecUnderway, Between

LEMMA DecNothingToDecode_Control ==
  ASSUME DecShapes, DecControl, NothingToDecode PROVE DecControl'
  BY DEF NothingToDecode, Returns, PassThrough, EmptyEos, sems, stream, fixed, NoData, DecShapes,
         DecoderOK, DecCountersOK, DecType, DecControl, InTurn, CodeSeen, DecOneAtATime,
         DecUnderway, Between

LEMMA DecLook_Control ==
  ASSUME DecShapes, DecControl, Look PROVE DecControl'
  BY DEF Look, sems, fixed, DecShapes, DecoderOK, DecCountersOK, DecType, DecControl, InTurn,
         CodeSeen, DecOneAtATime, DecUnderway, Between

LEMMA DecWaitDone_Control ==
  ASSUME DecShapes, DecControl, WaitDone PROVE DecControl'
  BY DEF WaitDone, data, stream, fixed, DecShapes, DecoderOK, DecCountersOK, DecType, DecControl,
         InTurn, CodeSeen, DecOneAtATime, DecUnderway, Between

LEMMA DecRead_Control ==
  ASSUME DecShapes, DecControl, Read PROVE DecControl'
  BY DEF Read, sems, fixed, Other, Stamped, Shows, Yet, DecShapes, DecoderOK, DecCountersOK,
         DecType, DecControl, InTurn, CodeSeen, DecOneAtATime, DecUnderway, Between

LEMMA DecSubmit_Control ==
  ASSUME DecShapes, DecControl, Submit PROVE DecControl'
  BY DEF Submit, data, fixed, FrameSize, DecShapes, DecoderOK, DecCountersOK, DecType, DecControl,
         InTurn, CodeSeen, DecOneAtATime, DecUnderway, Between

LEMMA DecSkipSubmit_Control ==
  ASSUME DecShapes, DecControl, SkipSubmit PROVE DecControl'
  BY DEF SkipSubmit, Returns, sems, stream, fixed, NoData, DecShapes, DecoderOK, DecCountersOK,
         DecType, DecControl, InTurn, CodeSeen, DecOneAtATime, DecUnderway, Between

LEMMA DecPosted_Control ==
  ASSUME DecShapes, DecControl, Posted PROVE DecControl'
  BY DEF Posted, Returns, sems, stream, fixed, Other, NoData, DecShapes, DecoderOK, DecCountersOK,
         DecType, DecControl, InTurn, CodeSeen, DecOneAtATime, DecUnderway, Between

LEMMA DecDeliver_Control ==
  ASSUME DecShapes, DecControl, Deliver PROVE DecControl'
  BY DEF Deliver, sems, stream, fixed, Matches, Passes, NoCheck, NoOut, DecShapes, DecoderOK,
         DecCountersOK, DecType, DecControl, InTurn, CodeSeen, DecOneAtATime, DecUnderway, Between

LEMMA DecTake_Control ==
  ASSUME DecShapes, DecControl, Take PROVE DecControl'
  BY DEF Take, data, stream, fixed, DecShapes, DecoderOK, DecCountersOK, DecType, DecControl,
         InTurn, CodeSeen, DecOneAtATime, DecUnderway, Between

LEMMA DecExe_Control ==
  ASSUME DecShapes, DecControl, Exe PROVE DecControl'
  BY DEF Exe, data, stream, fixed, Decoded, DecShapes, DecoderOK, DecCountersOK, DecType,
         DecControl, InTurn, CodeSeen, DecOneAtATime, DecUnderway, Between

LEMMA DecFlush_Control ==
  ASSUME DecShapes, DecControl, Flush PROVE DecControl'
  BY DEF Flush, sems, stream, fixed, NoData, DecShapes, DecoderOK, DecCountersOK, DecType,
         DecControl, InTurn, CodeSeen, DecOneAtATime, DecUnderway, Between

LEMMA DecFlushResets_Control ==
  ASSUME DecShapes, DecControl, FlushResets PROVE DecControl'
  BY DEF FlushResets, sems, fixed, Wiped, DecShapes, DecoderOK, DecCountersOK, DecType,
         DecControl, InTurn, CodeSeen, DecOneAtATime, DecUnderway, Between

LEMMA DecTerminate_Control ==
  ASSUME DecShapes, DecControl, Terminate PROVE DecControl'
  BY DEF Terminate, data, stream, fixed, DecShapes, DecoderOK, DecCountersOK, DecType, DecControl,
         InTurn, CodeSeen, DecOneAtATime, DecUnderway, Between

LEMMA DecJoined_Control ==
  ASSUME DecShapes, DecControl, Joined PROVE DecControl'
  BY DEF Joined, sems, data, stream, fixed, DecShapes, DecoderOK, DecCountersOK, DecType,
         DecControl, InTurn, CodeSeen, DecOneAtATime, DecUnderway, Between

-----------------------------------------------------------------------------
\* Every step leaves a buffer that is under decode alone.
LEMMA DecFeed_Fed ==
  ASSUME DecShapes, DecControl, DecFed, Feed PROVE DecFed'
  <1>1. PICK eos \in BOOLEAN, empty \in BOOLEAN :
          /\ empty => eos
          /\ in' = [in EXCEPT !.len = IF empty THEN in.prev ELSE client.sent + 1,
                              !.stamp = IF empty THEN 0 ELSE client.sent + 1, !.eos = eos]
          /\ buf' = IF empty THEN buf ELSE [buf EXCEPT ![dec.index] = client.sent + 1]
          /\ client' = [client EXCEPT !.sent = IF empty THEN @ ELSE client.sent + 1, !.ended = eos,
                                      !.bare = ~eos \/ empty]
    BY DEF Feed
  <1>2. /\ UNCHANGED <<dec, start, worker, mfc, errors>> /\ pc = "idle" /\ pc' = "call"
        /\ ret' = "none" /\ ~flushing /\ ~flushing' /\ ~client.ended
    BY DEF Feed, sems
  <1>3. /\ client.sent \in Nat /\ client.since \in Nat /\ mfc.sent \in Nat /\ dec.index \in 0 .. 1
        /\ buf \in [0 .. 1 -> Nat] /\ mfc.inBuf \in 0 .. 1
    BY DEF DecShapes, DecoderOK, BuffersOK, FeedOK, DecType, MfcType
  <1>4. /\ client'.since = client.since /\ client'.sent \in {client.sent, client.sent + 1}
        /\ client'.ended = eos /\ in'.eos = eos
    BY <1>1 DEF DecShapes, BuffersOK, FeedOK
  <1>5. /\ buf'[Other(dec.index)] = buf[Other(dec.index)]
        /\ ~eos => buf'[dec.index] = in'.len /\ client'.sent = client.sent + 1
        /\ buf'[dec.index] \in {buf[dec.index], client'.sent}
    BY <1>1, <1>3 DEF DecShapes, BuffersOK, FeedOK, Other
  <1>6. Untouched'
    <2>1. buf'[0] <= client'.sent /\ buf'[1] <= client'.sent
      BY <1>3, <1>4, <1>5 DEF DecFed, Untouched, Other
    <2> QED BY <2>1, <1>2, <1>3, <1>4, <1>5 DEF DecFed, Untouched, Other
  <1>7. Sound' => BufferLent'
    <2> SUFFICES ASSUME Sound, DecInWork PROVE BufferLent'
      BY <1>2 DEF BufferLent, DecInWork, Sound
    <2>1. ~dec.exit
      BY <1>2 DEF DecControl, InTurn, DecShapes, DecoderOK, DecType
    <2> QED BY <2>1, <1>2, <1>3, <1>4, <1>5 DEF DecFed, BufferLent, DecInWork, Sound, Other
  <1> QED BY <1>6, <1>7 DEF DecFed

LEMMA DecAgain_Fed ==
  ASSUME DecShapes, DecControl, DecFed, Again PROVE DecFed'
  <1> USE DEF Again, sems, stream, fixed, DecShapes, DecoderOK, BuffersOK, FeedOK, DecCountersOK,
             DecType, MfcType, DecControl, InTurn, DecOneAtATime, DecUnderway, Between, DecFed,
             DecInWork
  <1>1. Untouched'
    BY DEF Untouched
  <1>2. Sound' => BufferLent'
    BY DEF Untouched, BufferLent, Sound
  <1> QED BY <1>1, <1>2

LEMMA DecConfigure_Fed ==
  ASSUME DecShapes, DecControl, DecFed, ConfigureH264 \/ ConfigureMpeg4 PROVE DecFed'
  <1>1. /\ UNCHANGED <<buf, start, worker, mfc, flushing, errors>> /\ pc = "call"
        /\ pc' \in {"deliver", "idle"}
        /\ client'.sent = client.sent /\ client'.since = client.since
        /\ client'.ended = client.ended \/ client'.ended
        /\ dec'.first = dec.first /\ dec'.index = dec.index /\ dec'.allDelay = dec.allDelay
        /\ dec'.exit = dec.exit
    BY Configuring DEF stream, sems, DecShapes, DecoderOK, DecType, FeedOK
  <1>2. in' = in \/ (in'.len = 0 /\ in'.eos = FALSE)
    BY Configuring DEF NoData
  <1>3. Untouched'
    BY <1>1, <1>2 DEF DecFed, Untouched
  <1>4. Sound' => BufferLent'
    BY <1>1 DEF DecFed, BufferLent, DecInWork, Sound
  <1> QED BY <1>3, <1>4 DEF DecFed

LEMMA DecNothingToDecode_Fed ==
  ASSUME DecShapes, DecControl, DecFed, NothingToDecode PROVE DecFed'
  <1> USE DEF NothingToDecode, Returns, PassThrough, EmptyEos, sems, stream, fixed, NoData,
             DecShapes, DecoderOK, BuffersOK, FeedOK, DecCountersOK, DecType, MfcType, DecControl,
             InTurn, DecOneAtATime, DecUnderway, Between, DecFed, DecInWork
  <1>1. Untouched'
    BY DEF Untouched
  <1>2. Sound' => BufferLent'
    BY DEF Untouched, BufferLent, Sound
  <1> QED BY <1>1, <1>2

LEMMA DecLook_Fed ==
  ASSUME DecShapes, DecControl, DecFed, Look PROVE DecFed'
  <1>1. /\ UNCHANGED <<buf, in, ret, start, worker, mfc, flushing, errors, client>>
        /\ pc = "call" /\ pc' \in {"wait", "submit"}
        /\ dec'.first = dec.first /\ dec'.index = dec.index /\ dec'.exit = dec.exit
        /\ dec'.allDelay \in {dec.allDelay, FALSE}
    BY DEF Look, sems, DecShapes, DecoderOK, DecType
  <1>2. Untouched'
    BY <1>1 DEF DecFed, Untouched
  <1>3. Sound' => BufferLent'
    BY <1>1 DEF DecFed, BufferLent, DecInWork, Sound
  <1> QED BY <1>2, <1>3 DEF DecFed

LEMMA DecWaitDone_Fed ==
  ASSUME DecShapes, DecControl, DecFed, WaitDone PROVE DecFed'
  <1> USE DEF WaitDone, data, stream, fixed, DecShapes, DecoderOK, BuffersOK, FeedOK,
             DecCountersOK, DecType, MfcType, DecControl, InTurn, DecOneAtATime, DecUnderway,
             Between, DecFed, DecInWork
  <1>1. Untouched'
    BY DEF Untouched
  <1>2. Sound' => BufferLent'
    BY DEF Untouched, BufferLent, Sound
  <1> QED BY <1>1, <1>2

LEMMA DecRead_Fed ==
  ASSUME DecShapes, DecControl, DecFed, Read PROVE DecFed'
  <1>1. /\ UNCHANGED <<buf, start, end, worker, mfc, flushing, errors, client>>
        /\ pc = "read" /\ pc' = "submit" /\ in'.len = in.len /\ in'.eos = FALSE
        /\ dec'.first = dec.first /\ dec'.exit = dec.exit
        /\ dec'.allDelay => in.eos \/ dec.allDelay
        /\ ret' # "none" => in.eos \/ dec.allDelay
        /\ dec'.index # dec.index => in.eos \/ dec.allDelay
        /\ ret' \in {"none", "yet"}
    BY DEF Read, Yet, sems, DecShapes, DecoderOK, BuffersOK, DecType
  <1>2. ~dec.first /\ ~dec.exit
    BY <1>1 DEF DecControl, InTurn, DecShapes, DecoderOK, DecType
  <1>3. Untouched'
    BY <1>1, <1>2 DEF DecFed, Untouched
  <1>4. Sound' => BufferLent'
    <2> SUFFICES ASSUME Sound PROVE ~DecInWork'
      BY <1>1 DEF BufferLent, Sound
    <2>1. start + end + (IF worker = "exe" THEN 1 ELSE 0) = 0
      BY <1>1, <1>2
         DEF DecControl, DecOneAtATime, DecUnderway, Sound, DecShapes, DecoderOK, DecType
    <2> QED BY <2>1, <1>1 DEF DecInWork, DecShapes, DecCountersOK
  <1> QED BY <1>3, <1>4 DEF DecFed

LEMMA DecSubmit_Fed ==
  ASSUME DecShapes, DecControl, DecFed, Submit PROVE DecFed'
  <1>1. /\ UNCHANGED <<buf, in, ret, flushing, client, errors>>
        /\ pc = "submit" /\ pc' = "posted" /\ in.len # 0
        /\ dec'.index = dec.index /\ dec'.first = dec.first /\ dec'.allDelay = dec.allDelay
        /\ dec'.exit = dec.exit /\ dec.index \in 0 .. 1
        /\ mfc'.sent = buf[dec.index] /\ mfc'.inBuf = dec.index /\ mfc'.size = FrameSize
    BY DEF Submit, data, fixed, DecShapes, DecoderOK, DecType, MfcType
  <1>2. Untouched'
    BY <1>1 DEF Untouched, DecFed
  <1>3. BufferLent'
    <2>1. ~client.ended => FrameSize = in.len /\ buf[dec.index] \in {0, in.len}
      BY <1>1 DEF DecFed, Untouched, FrameSize
    <2>2. client.since \in Nat
      BY DEF DecShapes, FeedOK
    <2> QED BY <1>1, <2>1, <2>2 DEF BufferLent
  <1> QED BY <1>2, <1>3 DEF DecFed

LEMMA DecSkipSubmit_Fed ==
  ASSUME DecShapes, DecControl, DecFed, SkipSubmit PROVE DecFed'
  <1> USE DEF SkipSubmit, Returns, sems, stream, fixed, NoData, DecShapes, DecoderOK, BuffersOK,
             FeedOK, DecCountersOK, DecType, MfcType, DecControl, InTurn, DecOneAtATime,
             DecUnderway, Between, DecFed, DecInWork
  <1>1. Untouched'
    BY DEF Untouched
  <1>2. Sound' => BufferLent'
    BY DEF Untouched, BufferLent, Sound
  <1> QED BY <1>1, <1>2

LEMMA DecPosted_Fed ==
  ASSUME DecShapes, DecControl, DecFed, Posted PROVE DecFed'
  <1>1. /\ UNCHANGED <<buf, start, worker, mfc, flushing, errors, client>>
        /\ pc = "posted" /\ pc' = "deliver"
        /\ dec'.first = FALSE /\ dec'.index = Other(dec.index) /\ dec'.exit = dec.exit
        /\ dec'.allDelay = dec.allDelay
    BY DEF Posted, Returns, sems, stream, DecShapes, DecoderOK, DecType
  <1>2. \/ in'.len = 0 /\ ~in'.eos
        \/ in' = in /\ (dec.first \/ ret = "yet")
    BY DEF Posted, Returns, NoData
  <1>3. dec.index \in 0 .. 1
    BY DEF DecShapes, DecoderOK, DecType
  <1>4. Untouched'
    BY <1>1, <1>2, <1>3 DEF DecFed, Untouched, Other
  <1>5. Sound' => BufferLent'
    BY <1>1, <1>3 DEF DecFed, BufferLent, DecInWork, Sound, Other
  <1> QED BY <1>4, <1>5 DEF DecFed

LEMMA DecDeliver_Fed ==
  ASSUME DecShapes, DecControl, DecFed, Deliver PROVE DecFed'
  <1> USE DEF Deliver, sems, stream, fixed, Matches, Passes, NoCheck, NoOut, DecShapes, DecoderOK,
             BuffersOK, FeedOK, DecCountersOK, DecType, MfcType, DecControl, InTurn,
             DecOneAtATime, DecUnderway, Between, DecFed, DecInWork
  <1>1. Untouched'
    BY DEF Untouched
  <1>2. Sound' => BufferLent'
    BY DEF Untouched, BufferLent, Sound
  <1> QED BY <1>1, <1>2

LEMMA DecTake_Fed ==
  ASSUME DecShapes, DecControl, DecFed, Take PROVE DecFed'
  <1> USE DEF Take, data, stream, fixed, DecShapes, DecoderOK, BuffersOK, FeedOK, DecCountersOK,
             DecType, MfcType, DecControl, InTurn, DecOneAtATime, DecUnderway, Between, DecFed,
             DecInWork
  <1>1. Untouched'
    BY DEF Untouched
  <1>2. Sound' => BufferLent'
    BY DEF Untouched, BufferLent, Sound
  <1> QED BY <1>1, <1>2

LEMMA DecExe_Fed ==
  ASSUME DecShapes, DecControl, DecFed, Exe PROVE DecFed'
  <1>1. /\ UNCHANGED <<buf, in, ret, flushing, client, start, pc>> /\ worker' # "exe" /\ worker = "exe"
        /\ dec'.index = dec.index /\ dec'.first = dec.first /\ dec'.allDelay = dec.allDelay
        /\ dec'.exit = dec.exit /\ mfc'.sent = mfc.sent
    <2>1. mfc \in MfcType /\ dec \in DecType
      BY DEF DecShapes, DecoderOK
    <2>2. /\ UNCHANGED <<buf, in, ret, flushing, client, start, pc>> /\ worker' # "exe" /\ worker = "exe"
          /\ mfc' \in {mfc, Decoded} /\ \E c \in {"ok", "error"} : dec' = [dec EXCEPT !.code = c]
      BY DEF Exe, data, stream
    <2>3. Decoded.sent = mfc.sent
      BY <2>1 DEF Decoded, MfcType
    <2> QED BY <2>1, <2>2, <2>3 DEF DecType
  <1>2. Untouched'
    BY <1>1 DEF Untouched, DecFed
  <1>3. Sound' => ~DecInWork'
    <2> SUFFICES ASSUME Sound' PROVE start = 0 \/ dec.exit
      BY <1>1 DEF DecInWork, DecShapes, DecCountersOK
    <2>1. errors = 0
      BY DEF Exe, Sound, DecShapes, DecCountersOK
    <2>2. ~dec.exit => start + end + 1 <= 1
      BY <1>1, <2>1 DEF DecControl, DecOneAtATime, DecUnderway
    <2> QED BY <2>2 DEF DecShapes, DecCountersOK
  <1> QED BY <1>2, <1>3 DEF DecFed, BufferLent

LEMMA DecFlush_Fed ==
  ASSUME DecShapes, DecControl, DecFed, Flush PROVE DecFed'
  <1> USE DEF Flush, sems, stream, fixed, NoData, DecShapes, DecoderOK, BuffersOK, FeedOK,
             DecCountersOK, DecType, MfcType, DecControl, InTurn, DecOneAtATime, DecUnderway,
             Between, DecFed, DecInWork
  <1>1. Untouched'
    BY DEF Untouched
  <1>2. Sound' => BufferLent'
    BY DEF Untouched, BufferLent, Sound
  <1> QED BY <1>1, <1>2

LEMMA DecFlushResets_Fed ==
  ASSUME DecShapes, DecControl, DecFed, FlushResets PROVE DecFed'
  <1> USE DEF FlushResets, sems, fixed, Wiped, DecShapes, DecoderOK, BuffersOK, FeedOK,
             DecCountersOK, DecType, MfcType, DecControl, InTurn, DecOneAtATime, DecUnderway,
             Between, DecFed, DecInWork
  <1>1. Untouched'
    BY DEF Untouched
  <1>2. Sound' => BufferLent'
    BY DEF Untouched, BufferLent, Sound
  <1> QED BY <1>1, <1>2

LEMMA DecTerminate_Fed ==
  ASSUME DecShapes, DecControl, DecFed, Terminate PROVE DecFed'
  <1> USE DEF Terminate, data, stream, fixed, DecShapes, DecoderOK, BuffersOK, FeedOK,
             DecCountersOK, DecType, MfcType, DecControl, InTurn, DecOneAtATime, DecUnderway,
             Between, DecFed, DecInWork
  <1>1. Untouched'
    BY DEF Untouched
  <1>2. Sound' => BufferLent'
    BY DEF Untouched, BufferLent, Sound
  <1> QED BY <1>1, <1>2

LEMMA DecJoined_Fed ==
  ASSUME DecShapes, DecControl, DecFed, Joined PROVE DecFed'
  <1> USE DEF Joined, sems, data, stream, fixed, DecShapes, DecoderOK, BuffersOK, FeedOK,
             DecCountersOK, DecType, MfcType, DecControl, InTurn, DecOneAtATime, DecUnderway,
             Between, DecFed, DecInWork
  <1>1. Untouched'
    BY DEF Untouched
  <1>2. Sound' => BufferLent'
    BY DEF Untouched, BufferLent, Sound
  <1> QED BY <1>1, <1>2
-----------------------------------------------------------------------------
\* All of it together is inductive.
DecInv == DecShapes /\ DecControl /\ DecFed

LEMMA DecInitInv == Init => DecInv
  <1> SUFFICES ASSUME Init PROVE DecInv
    OBVIOUS
  <1>1. Held \in Nat /\ << >> \in Seq(HeldType) /\ Len(<< >>) = 0
    BY DecodeAssumption DEF Init, Held
  <1>2. dec \in DecType /\ mfc \in MfcType
    BY <1>1 DEF Init, DecType, MfcType, Index
  <1>3. DecoderOK
    BY <1>1, <1>2 DEF Init, DecoderOK
  <1>4. BuffersOK
    BY DEF Init, BuffersOK, NoData
  <1>5. DecCountersOK /\ FeedOK
    BY DEF Init, DecCountersOK, FeedOK
  <1>6. DecControl /\ DecFed
    BY DEF Init, DecControl, InTurn, CodeSeen, DecOneAtATime, DecUnderway, Between, DecFed,
           Untouched, BufferLent, DecInWork, NoData
  <1> QED BY <1>3, <1>4, <1>5, <1>6 DEF DecInv, DecShapes

LEMMA DecNextTypes ==
  ASSUME DecShapes, Next PROVE DecShapes'
  BY DecFeed_Types, DecAgain_Types, DecConfigure_Types, DecNothingToDecode_Types, DecLook_Types,
     DecWaitDone_Types, DecRead_Types, DecSubmit_Types, DecSkipSubmit_Types, DecPosted_Types,
     DecDeliver_Types, DecTake_Types, DecExe_Types, DecFlush_Types, DecFlushResets_Types,
     DecTerminate_Types, DecJoined_Types DEF Next, Call, DecodeThread

LEMMA DecNextControl ==
  ASSUME DecShapes, DecControl, Next PROVE DecControl'
  BY DecFeed_Control, DecAgain_Control, DecConfigure_Control, DecNothingToDecode_Control,
     DecLook_Control, DecWaitDone_Control, DecRead_Control, DecSubmit_Control,
     DecSkipSubmit_Control, DecPosted_Control, DecDeliver_Control, DecTake_Control,
     DecExe_Control, DecFlush_Control, DecFlushResets_Control, DecTerminate_Control,
     DecJoined_Control DEF Next, Call, DecodeThread

LEMMA DecNextFed ==
  ASSUME DecShapes, DecControl, DecFed, Next PROVE DecFed'
  BY DecFeed_Fed, DecAgain_Fed, DecConfigure_Fed, DecNothingToDecode_Fed, DecLook_Fed,
     DecWaitDone_Fed, DecRead_Fed, DecSubmit_Fed, DecSkipSubmit_Fed, DecPosted_Fed,
     DecDeliver_Fed, DecTake_Fed, DecExe_Fed, DecFlush_Fed, DecFlushResets_Fed, DecTerminate_Fed,
     DecJoined_Fed DEF Next, Call, DecodeThread

LEMMA DecNextInv == DecInv /\ [Next]_vars => DecInv'
  <1> SUFFICES ASSUME DecInv, [Next]_vars PROVE DecInv'
    OBVIOUS
  <1>1. CASE UNCHANGED vars
    BY <1>1
       DEF vars, fixed, stream, sems, data, DecInv, DecShapes, DecoderOK, BuffersOK,
           DecCountersOK, FeedOK, Held, DecControl, InTurn, CodeSeen, DecOneAtATime, DecUnderway,
           Between, DecFed, Untouched, BufferLent, DecInWork, Sound
  <1>2. CASE Next
    BY <1>2, DecNextTypes, DecNextControl, DecNextFed DEF DecInv
  <1> QED BY <1>1, <1>2

LEMMA DecInvImplies == DecInv => TypeOK /\ DecoderQuiet /\ BufferInFlight
  <1> SUFFICES ASSUME DecInv PROVE TypeOK /\ DecoderQuiet /\ BufferInFlight
    OBVIOUS
  <1>1. TypeOK
    BY DEF DecInv, TypeOK, DecShapes, DecoderOK, DecCountersOK, DecType, MfcType, Index
  <1>2. DecoderQuiet
    <2> SUFFICES ASSUME errors = 0, pc \in {"read", "submit"}
                 PROVE  worker # "exe" /\ start = 0
      BY DEF DecoderQuiet, WaitsForDecode, Sound
    <2>1. start + end + (IF worker = "exe" THEN 1 ELSE 0) = 0
      BY DEF DecInv, DecControl, InTurn, DecOneAtATime, DecUnderway, DecShapes, DecoderOK, DecType
    <2> QED BY <2>1 DEF DecInv, DecShapes, DecCountersOK
  <1>3. BufferInFlight
    BY DEF DecInv, DecFed, BufferLent, DecInWork, BufferInFlight
  <1> QED BY <1>1, <1>2, <1>3

-----------------------------------------------------------------------------

\* The stamps of the frames: a tag is the place of timeStamp[] that was written when the
\* frame was submitted, and comes back with the picture.

\* The stamps, and what goes out and comes back.
ShownType == [frame : Nat, stamp : Int]
DecOutShapes ==
  /\ ring \in [Index -> [stamp : Int, eos : BOOLEAN]]
  /\ out \in [frame : Nat, stamp : Int, eos : BOOLEAN]
  /\ check \in [set : BOOLEAN, on : BOOLEAN, stamp : Int, eos : BOOLEAN]
  /\ client.shown \in Seq(ShownType) /\ client.full \in BOOLEAN

\* The places of timeStamp[] the codec has been told, from the last one back, and the
\* frames it holds or has in work, in the order in which it will show them.
Coming ==
  IF DecInWork THEN Append(mfc.held, [frame |-> buf[mfc.inBuf], tag |-> mfc.inTag]) ELSE mfc.held
Showing == mfc.status = "display" /\ ~DecInWork
Back(k) == IF dec.ti >= k THEN dec.ti - k ELSE dec.ti - k + Ring
TagsInTurn ==
  /\ \A i \in 1 .. Len(Coming) : Coming[i].tag = Back(Len(Coming) + 1 - i)
  /\ Showing => mfc.tag = Back(Held + 1)
Lag ==
  /\ mfc.status = "display" => Len(mfc.held) = Held
  /\ mfc.status = "decoding" => mfc.tag = -1
\* The end of the stream is the frame on show or comes among the others.
ShowsEnd == Showing /\ ring[mfc.tag].eos
EndsBy(i) == \E j \in 1 .. i : ring[Coming[j].tag].eos
EndQueued == ShowsEnd \/ EndsBy(Len(Coming))
\* After a flush the first new stamp was that of the end: no frame matches it.
NothingPasses == check.on /\ check.eos
\* Up to the end each tag leads to the stamp of its frame, or to one that was wiped.
OwnStamp(f, t) == ring[t].stamp \in {f, -1}
AllStamped ==
  /\ Showing => OwnStamp(mfc.frame, mfc.tag)
  /\ \A i \in 1 .. Len(Coming) : OwnStamp(Coming[i].frame, Coming[i].tag) \/ EndsBy(i)
\* Frames from before a flush come before the others, and a codec that has as many as it
\* holds back shows one each time.
Wipe(t) == ring[t].stamp = -1
NoneWiped == (Showing => ~Wipe(mfc.tag)) /\ \A i \in 1 .. Len(Coming) : ~Wipe(Coming[i].tag)
WipedFirst ==
  /\ \A i, j \in 1 .. Len(Coming) : i < j /\ ~Wipe(Coming[i].tag) => ~Wipe(Coming[j].tag)
  /\ Showing /\ ~Wipe(mfc.tag) => NoneWiped
CodecFull == Len(mfc.held) = Held /\ (DecInWork \/ mfc.status = "display")
DecQueue ==
  /\ TagsInTurn /\ Lag /\ WipedFirst
  /\ NothingPasses \/ ShowsEnd \/ AllStamped

\* The input of the call, before and after its stamp was noted, and what of it is still
\* to be submitted.
Noted == pc \in {"wait", "read", "submit"} /\ in.len # 0
ToSubmit ==
  in.len # 0 /\ (pc \in {"call", "wait", "read", "submit", "deliver"} \/ (pc = "idle" /\ re))
\* The client knows of the end, which is the input or was submitted.
EndKnown ==
  /\ EndQueued \/ NothingPasses => client.ended
  /\ ToSubmit /\ client.ended =>
       EndQueued \/ NothingPasses \/ IF pc = "submit" THEN ring[dec.ti].eos ELSE in.eos
NotedOK ==
  /\ ~client.ended /\ in.len # 0 => in.stamp = in.len
  /\ Noted => ring[dec.ti].stamp = in.stamp /\ (ring[dec.ti].eos => client.ended)
  /\ Noted /\ (pc # "submit" \/ dec.first) => ring[dec.ti].eos = in.eos
  /\ pc = "submit" /\ ~dec.first => ~in.eos
  /\ pc = "submit" /\ ret = "yet" => ~dec.first
  /\ pc = "call" => ret = "none"
  /\ check.set => in.len = 0 /\ ~check.on
  /\ dec.first => ~dec.allDelay
\* The drain goes on with the end submitted; the first frame finds the codec empty.
Drains ==
  /\ pc = "submit" /\ in.len # 0 /\ ret = "yet" =>
       EndQueued \/ NothingPasses \/ (ring[dec.ti].eos /\ buf[dec.index] # 0)
  /\ pc = "posted" => in.len # 0 /\ buf[dec.index] # 0
  /\ pc = "posted" /\ client.ended => EndQueued \/ NothingPasses
  /\ dec.first /\ pc # "posted" => Len(Coming) = 0 /\ ~DecInWork /\ mfc.status = "decoding"
\* The buffer not in turn holds the frame before.
BothFilled ==
  /\ ToSubmit /\ in.eos /\ ~dec.first => buf[Other(dec.index)] # 0 \/ NothingPasses
  /\ ~dec.first /\ ~client.ended /\ ~check.set /\ ~flushing /\ pc # "posted" =>
     \/ buf[Other(dec.index)] # 0
     \/ in.len # 0 /\ buf[dec.index] # 0 /\ pc \in {"call", "wait", "read", "submit"}
DecInput == EndKnown /\ NotedOK /\ Drains /\ BothFilled

\* As long as a frame from before the flush may come, the check holds it back; what is on
\* its way out has the stamp of its frame.
OutAway == pc \in {"submit", "posted", "deliver"}
OldHeldBack ==
  /\ client.full => NoneWiped \/ (CodecFull /\ (check.set \/ check.on))
  /\ check.on => check.stamp # -1
  /\ client.full /\ OutAway /\ out.stamp # -1 /\ ~check.set => NoneWiped
OutFine ==
  /\ out.frame # 0 =>
     /\ ~out.eos
     /\ \/ check.set \/ NothingPasses \/ out.stamp = out.frame
        \/ out.stamp = -1 /\ (client.full => check.on)
  /\ out.eos =>
     /\ ShowsEnd \/ check.set \/ (dec.first /\ pc = "deliver")
     /\ ~in.eos /\ (dec.first => pc = "deliver" /\ in.len = 0)
  /\ pc = "submit" /\ ShowsEnd /\ in.len # 0 => out.eos
  /\ ~OutAway => out = NoOut
DecOutput == OldHeldBack /\ OutFine

Running == pc \notin {"join", "closed"}
DecStamped == (Running /\ Sound => DecQueue /\ DecInput /\ DecOutput) /\ StampOfItsFrame

\* Each step keeps what goes out, the stamps and the check of the right kind.
LEMMA DecOutTypes ==
  ASSUME DecShapes, DecOutShapes, Next PROVE DecOutShapes'
  <1>a. /\ dec.ti \in Index /\ in.stamp \in Nat /\ in.eos \in BOOLEAN /\ dec.first \in BOOLEAN
        /\ dec.allDelay \in BOOLEAN
        /\ mfc.frame \in Nat /\ 0 .. Ring - 1 = Index /\ client.sent \in Nat
        /\ DOMAIN client = {"sent", "ended", "bare", "since", "full", "shown", "eos"}
    BY DEF DecShapes, DecoderOK, BuffersOK, FeedOK, DecType, MfcType, Index
  <1>1. CASE Feed
    <2>1. PICK eos \in BOOLEAN, empty \in BOOLEAN, stamp \in {0, client.sent + 1} :
            /\ client' = [client EXCEPT !.sent = IF empty THEN @ ELSE client.sent + 1, !.ended = eos,
                                        !.bare = ~eos \/ empty]
            /\ check' = IF check.set THEN [set |-> FALSE, on |-> TRUE, stamp |-> stamp, eos |-> eos]
                        ELSE check
      BY <1>1 DEF Feed
    <2>2. client'.shown = client.shown /\ client'.full = client.full
      BY <1>a, <2>1
    <2>3. check' \in [set : BOOLEAN, on : BOOLEAN, stamp : Int, eos : BOOLEAN]
      BY <1>a, <2>1 DEF DecOutShapes
    <2> QED BY <1>1, <2>2, <2>3 DEF Feed, DecOutShapes
  <1>2. CASE Again \/ WaitDone \/ Submit \/ SkipSubmit \/ Posted \/ Take \/ Exe \/ Flush \/ Terminate
             \/ Joined
    BY <1>2 DEF Again, WaitDone, Submit, SkipSubmit, Posted, Take, Exe, Flush, Terminate, Joined,
                stream, data, DecOutShapes
  <1>3. CASE ConfigureH264 \/ ConfigureMpeg4 \/ NothingToDecode
    <2>1. /\ UNCHANGED <<ring, check>> /\ client'.shown = client.shown /\ client'.full = client.full
          /\ out' = out \/ PassThrough
      BY <1>3, <1>a DEF ConfigureH264, ConfigureMpeg4, NothingToDecode, Configured, stream
    <2> QED BY <1>a, <2>1 DEF PassThrough, DecOutShapes
  <1>4. CASE Look
    <2>1. /\ UNCHANGED <<check, client>>
          /\ ring' = [ring EXCEPT ![dec.ti] = [stamp |-> in.stamp, eos |-> in.eos]]
          /\ \/ out' = out
             \/ out' = [frame |-> 0, stamp |-> in.stamp, eos |-> (dec.allDelay \/ in.eos) /\ ~dec.first]
      BY <1>4 DEF Look
    <2>2. out' \in [frame : Nat, stamp : Int, eos : BOOLEAN]
      <3>1. ((dec.allDelay \/ in.eos) /\ ~dec.first) \in BOOLEAN /\ in.stamp \in Int /\ 0 \in Nat
        BY <1>a
      <3>2. CASE out' = out
        BY <3>2 DEF DecOutShapes
      <3>3. CASE out' = [frame |-> 0, stamp |-> in.stamp,
                         eos |-> (dec.allDelay \/ in.eos) /\ ~dec.first]
        BY <3>1, <3>3, Zenon
      <3> QED BY <2>1, <3>2, <3>3
    <2> QED BY <1>a, <2>1, <2>2 DEF DecOutShapes
  <1>5. CASE Read
    <2>1. Stamped \in [stamp : Int, eos : BOOLEAN]
      <3>1. [stamp |-> in.stamp, eos |-> FALSE] \in [stamp : Int, eos : BOOLEAN]
        BY <1>a
      <3>2. mfc.tag \in 0 .. Ring - 1 => ring[mfc.tag] \in [stamp : Int, eos : BOOLEAN]
        BY <1>a DEF DecOutShapes
      <3> QED BY <3>1, <3>2 DEF Stamped
    <2>2. /\ UNCHANGED <<ring, check, client>>
          /\ out' = [frame |-> IF Shows THEN mfc.frame ELSE 0, stamp |-> Stamped.stamp,
                     eos |-> Stamped.eos]
      BY <1>5 DEF Read
    <2> QED BY <1>a, <2>1, <2>2 DEF DecOutShapes
  <1>6. CASE Deliver
    <2>1. /\ ring' = ring /\ out' = NoOut /\ check' \in {check, NoCheck}
          /\ client'.full = client.full
          /\ \/ client'.shown = client.shown
             \/ client'.shown = Append(client.shown, [frame |-> out.frame, stamp |-> out.stamp])
      BY <1>6, <1>a DEF Deliver, stream
    <2>2. client'.shown \in Seq(ShownType)
      <3>1. [frame |-> out.frame, stamp |-> out.stamp] \in ShownType
        BY DEF DecOutShapes, ShownType
      <3> DEFINE x == [frame |-> out.frame, stamp |-> out.stamp]
      <3>2. client.shown \in Seq(ShownType)
        BY DEF DecOutShapes
      <3> HIDE DEF x
      <3>3. x \in ShownType
        BY <3>1 DEF x
      <3>4. Append(client.shown, x) \in Seq(ShownType)
        BY <3>2, <3>3
      <3> QED BY <2>1, <3>2, <3>4 DEF x
    <2>3. /\ NoOut \in [frame : Nat, stamp : Int, eos : BOOLEAN]
          /\ NoCheck \in [set : BOOLEAN, on : BOOLEAN, stamp : Int, eos : BOOLEAN]
      BY DEF NoOut, NoCheck
    <2> QED BY <2>1, <2>2, <2>3 DEF DecOutShapes
  <1>7. CASE FlushResets
    <2>1. /\ ring' = [i \in 0 .. Ring - 1 |-> Wiped] /\ out' = out
          /\ check' = [check EXCEPT !.set = TRUE, !.on = FALSE]
          /\ client'.shown = << >> /\ client'.full \in BOOLEAN
      BY <1>7, <1>a DEF FlushResets
    <2>2. << >> \in Seq(ShownType)
      OBVIOUS
    <2>3. Wiped \in [stamp : Int, eos : BOOLEAN]
      BY DEF Wiped
    <2> QED BY <1>a, <2>1, <2>2, <2>3 DEF DecOutShapes
  <1> QED BY <1>1, <1>2, <1>3, <1>4, <1>5, <1>6, <1>7 DEF Next, Call, DecodeThread

\* What the codec is to show, as it lies in memory.
LEMMA ComingIs ==
  ASSUME DecShapes
  PROVE  /\ Coming \in Seq(HeldType) /\ mfc.held \in Seq(HeldType)
         /\ Len(Coming) \in Nat /\ Len(mfc.held) \in Nat
         /\ IF DecInWork THEN Len(Coming) = Len(mfc.held) + 1 ELSE Len(Coming) = Len(mfc.held)
         /\ Held \in Nat /\ Len(mfc.held) <= Held /\ Held + 1 < Ring
         /\ \A i \in 1 .. Len(mfc.held) : Coming[i] = mfc.held[i]
         /\ DecInWork => Coming[Len(mfc.held) + 1] = [frame |-> buf[mfc.inBuf], tag |-> mfc.inTag]
         /\ \A i \in 1 .. Len(Coming) : Coming[i].tag \in Index
  <1>1. Held \in Nat /\ Held + 1 < Ring
    BY DecodeAssumption DEF Held
  <1>2. mfc.held \in Seq(HeldType) /\ Len(mfc.held) <= Held
    BY DEF DecShapes, DecoderOK, MfcType
  <1>3. [frame |-> buf[mfc.inBuf], tag |-> mfc.inTag] \in HeldType
    BY DEF DecShapes, DecoderOK, BuffersOK, MfcType, HeldType
  <1>4. Coming \in Seq(HeldType)
    BY <1>2, <1>3 DEF Coming
  <1>5. \A i \in 1 .. Len(Coming) : Coming[i].tag \in Index
    <2>1. \A i \in 1 .. Len(Coming) : Coming[i] \in HeldType
      BY <1>4
    <2> QED BY <2>1 DEF HeldType
  <1>6. /\ IF DecInWork THEN Len(Coming) = Len(mfc.held) + 1 ELSE Len(Coming) = Len(mfc.held)
        /\ \A i \in 1 .. Len(mfc.held) : Coming[i] = mfc.held[i]
        /\ DecInWork => Coming[Len(mfc.held) + 1] = [frame |-> buf[mfc.inBuf], tag |-> mfc.inTag]
    <2> DEFINE x == [frame |-> buf[mfc.inBuf], tag |-> mfc.inTag]
    <2>1. Coming = IF DecInWork THEN Append(mfc.held, x) ELSE mfc.held
      BY DEF Coming
    <2>2. x \in HeldType
      BY <1>3
    <2> HIDE DEF x
    <2>3. Len(mfc.held) \in Nat
      BY <1>2
    <2>4. CASE DecInWork
      BY <1>2, <2>1, <2>2, <2>3, <2>4 DEF x
    <2>5. CASE ~DecInWork
      BY <1>2, <2>1, <2>3, <2>5
    <2> QED BY <2>4, <2>5
  <1>7. Len(Coming) \in Nat /\ Len(mfc.held) \in Nat
    BY <1>2, <1>4
  <1> QED BY <1>1, <1>2, <1>4, <1>5, <1>6, <1>7

\* A tag told of leads neither to the next place nor, one by one, to the same place.
LEMMA NotTheNext ==
  ASSUME DecShapes, NEW k \in Nat, 1 <= k, k <= Held + 1
  PROVE  Back(k) \in Index /\ Back(k) # dec.ti
  <1>1. dec.ti \in 0 .. Ring - 1 /\ Ring \in Nat
    BY DecodeAssumption DEF DecShapes, DecoderOK, DecType, Index
  <1>2. Held \in Nat /\ Held + 1 < Ring
    BY ComingIs
  <1>3. k < Ring
    BY <1>1, <1>2
  <1> QED BY <1>1, <1>3 DEF Back, Index

LEMMA TagsElsewhere ==
  ASSUME DecShapes, TagsInTurn
  PROVE  /\ \A i \in 1 .. Len(Coming) : Coming[i].tag # dec.ti
         /\ Showing => mfc.tag # dec.ti /\ mfc.tag \in Index
  <1>1. ASSUME NEW i \in 1 .. Len(Coming) PROVE Coming[i].tag # dec.ti
    <2>1. Len(Coming) + 1 - i \in Nat /\ 1 <= Len(Coming) + 1 - i /\ Len(Coming) + 1 - i <= Held + 1
      <3>1. /\ Len(Coming) \in Nat /\ Held \in Nat /\ Len(mfc.held) \in Nat
            /\ Len(mfc.held) <= Held
            /\ Len(Coming) = Len(mfc.held) \/ Len(Coming) = Len(mfc.held) + 1
        BY ComingIs
      <3>2. i \in Nat /\ 1 <= i /\ i <= Len(Coming)
        BY <3>1
      <3> QED BY <3>1, <3>2
    <2> QED BY <2>1, NotTheNext DEF TagsInTurn
  <1>2. Showing => mfc.tag # dec.ti /\ mfc.tag \in Index
    <2>1. Held + 1 \in Nat /\ 1 <= Held + 1 /\ Held + 1 <= Held + 1
      BY ComingIs
    <2> QED BY <2>1, NotTheNext DEF TagsInTurn
  <1> QED BY <1>1, <1>2

\* A step that leaves the codec, the place of the next frame and the buffer in work alone,
\* and the stamps of what is to come.
LEMMA QueueKept ==
  ASSUME UNCHANGED <<mfc, thumb>>, dec'.ti = dec.ti, DecInWork' <=> DecInWork,
         DecInWork => buf'[mfc.inBuf] = buf[mfc.inBuf],
         \A i \in 1 .. Len(Coming) : ring'[Coming[i].tag] = ring[Coming[i].tag],
         Showing => ring'[mfc.tag] = ring[mfc.tag]
  PROVE  /\ Coming' = Coming /\ (Showing' <=> Showing)
         /\ (ShowsEnd' <=> ShowsEnd) /\ (EndQueued' <=> EndQueued)
         /\ (AllStamped' <=> AllStamped) /\ (NoneWiped' <=> NoneWiped)
         /\ (CodecFull' <=> CodecFull)
         /\ TagsInTurn /\ Lag /\ WipedFirst => (TagsInTurn /\ Lag /\ WipedFirst)'
  <1>1. Coming' = Coming
    BY DEF Coming
  <1>2. (Showing' <=> Showing) /\ (CodecFull' <=> CodecFull) /\ (Lag => Lag') /\ Held' = Held
    BY DEF Showing, CodecFull, Lag, Held
  <1>3. TagsInTurn => TagsInTurn'
    BY <1>1, <1>2 DEF TagsInTurn, Back
  <1>4. (ShowsEnd' <=> ShowsEnd) /\ (EndQueued' <=> EndQueued)
    BY <1>1, <1>2 DEF ShowsEnd, EndQueued, EndsBy
  <1>5. NoneWiped' <=> NoneWiped
    BY <1>1, <1>2 DEF NoneWiped, Wipe
  <1>6. WipedFirst => WipedFirst'
    BY <1>1, <1>2, <1>5 DEF WipedFirst, Wipe
  <1>7. AllStamped' <=> AllStamped
    <2>1. \A i \in 1 .. Len(Coming) : EndsBy(i)' <=> EndsBy(i)
      BY <1>1 DEF EndsBy
    <2>2. /\ \A i \in 1 .. Len(Coming) : OwnStamp(Coming[i].frame, Coming[i].tag)'
                                         <=> OwnStamp(Coming[i].frame, Coming[i].tag)
          /\ Showing => (OwnStamp(mfc.frame, mfc.tag)' <=> OwnStamp(mfc.frame, mfc.tag))
      BY <1>1, <1>2 DEF OwnStamp
    <2> QED BY <1>1, <1>2, <2>1, <2>2 DEF AllStamped
  <1> QED BY <1>1, <1>2, <1>3, <1>4, <1>5, <1>6, <1>7

\* What is known of a decoder that was not left and has not failed.
LEMMA DecFacts ==
  ASSUME DecInv, Running, Sound
  PROVE  /\ ~dec.exit /\ (dec.code = "ok" \/ dec.first)
         /\ pc \in {"read", "submit"} => ~DecInWork
         /\ DecInWork => mfc.inBuf = IF pc = "posted" THEN dec.index ELSE Other(dec.index)
         /\ dec.index \in 0 .. 1 /\ mfc.inBuf \in 0 .. 1 /\ dec.ti \in Index /\ start \in Nat
         /\ buf \in [0 .. 1 -> Nat] /\ in.len \in Nat /\ in.stamp \in Nat /\ client.sent \in Nat
         /\ DOMAIN client = {"sent", "ended", "bare", "since", "full", "shown", "eos"}
         /\ pc \in {"wait", "read"} => ~dec.first
         /\ ~dec.conf => dec.first
         /\ dec.first => dec.index = 0 /\ buf[1] = 0
         /\ flushing => in.len = 0 /\ ~in.eos
         /\ ~client.ended =>
              /\ ~in.eos /\ ~dec.allDelay
              /\ in.len # 0 /\ pc \in {"call", "wait", "submit", "posted"} => ret = "none"
              /\ in.len # 0 /\ pc # "posted" => buf[dec.index] \in {0, in.len}
  <1>1. ~dec.exit
    BY DEF DecInv, DecControl, InTurn, Running
  <1>2. ASSUME pc \in {"read", "submit"} PROVE ~DecInWork
    <2>1. worker # "exe" /\ start = 0
      BY <1>2, DecInvImplies DEF DecoderQuiet, WaitsForDecode
    <2> QED BY <2>1 DEF DecInWork
  <1>3. /\ dec.index \in 0 .. 1 /\ mfc.inBuf \in 0 .. 1 /\ dec.ti \in Index /\ start \in Nat
        /\ buf \in [0 .. 1 -> Nat] /\ in.len \in Nat /\ in.stamp \in Nat /\ client.sent \in Nat
        /\ DOMAIN client = {"sent", "ended", "bare", "since", "full", "shown", "eos"}
    BY DEF DecInv, DecShapes, DecoderOK, BuffersOK, FeedOK, DecCountersOK, DecType, MfcType
  <1>4. DecInWork => mfc.inBuf = IF pc = "posted" THEN dec.index ELSE Other(dec.index)
    BY <1>1 DEF DecInv, DecFed, BufferLent
  <1>5. /\ dec.code = "ok" \/ dec.first
        /\ pc \in {"wait", "read"} => ~dec.first
        /\ ~dec.conf => dec.first
    BY DEF DecInv, DecControl, InTurn, CodeSeen, Sound
  <1>6. /\ dec.first => dec.index = 0 /\ buf[1] = 0
        /\ flushing => in.len = 0 /\ ~in.eos
        /\ ~client.ended =>
              /\ ~in.eos /\ ~dec.allDelay
              /\ in.len # 0 /\ pc \in {"call", "wait", "submit", "posted"} => ret = "none"
              /\ in.len # 0 /\ pc # "posted" => buf[dec.index] \in {0, in.len}
    BY DEF DecInv, DecFed, Untouched
  <1> QED BY <1>1, <1>2, <1>3, <1>4, <1>5, <1>6

\* Before the first submission the codec has nothing.
LEMMA NothingYet ==
  ASSUME Drains, dec.first, pc # "posted"
  PROVE  NoneWiped /\ AllStamped /\ ~EndQueued /\ ~ShowsEnd /\ ~Showing
  <1>1. 1 .. Len(Coming) = {} /\ ~Showing
    BY DEF Drains, Showing
  <1> QED BY <1>1 DEF NoneWiped, AllStamped, EndQueued, EndsBy, ShowsEnd

-----------------------------------------------------------------------------

\* Each step keeps the queue, the input and the output, as long as the stream is sound:
\* first the steps that leave the codec alone, then those that show and submit.

LEMMA DecAgain_Stamped ==
  ASSUME DecInv, DecOutShapes, Running, Sound, DecQueue, DecInput, DecOutput, Again
  PROVE  DecQueue' /\ DecInput' /\ DecOutput'
  <1>a. /\ UNCHANGED <<fixed, thumb, dec, ring, buf, start, worker, mfc, in, re, out, check, flushing, client>>
        /\ pc = "idle" /\ re /\ pc' = "call" /\ ret' = "none"
    BY DEF Again, stream, sems, fixed
  <1>q. /\ Coming' = Coming /\ (Showing' <=> Showing) /\ (DecInWork' <=> DecInWork)
        /\ (ShowsEnd' <=> ShowsEnd) /\ (EndQueued' <=> EndQueued)
        /\ (AllStamped' <=> AllStamped) /\ (NoneWiped' <=> NoneWiped)
        /\ (CodecFull' <=> CodecFull)
        /\ TagsInTurn' /\ Lag' /\ WipedFirst'
    <2>1. /\ UNCHANGED <<mfc, thumb>> /\ dec'.ti = dec.ti /\ (DecInWork' <=> DecInWork)
          /\ DecInWork => buf'[mfc.inBuf] = buf[mfc.inBuf]
      BY <1>a, DecFacts DEF DecInWork, Other
    <2>2. /\ \A i \in 1 .. Len(Coming) : ring'[Coming[i].tag] = ring[Coming[i].tag]
          /\ Showing => ring'[mfc.tag] = ring[mfc.tag]
      BY <1>a
    <2>3. TagsInTurn /\ Lag /\ WipedFirst
      BY DEF DecQueue
    <2> QED BY <2>1, <2>2, <2>3, QueueKept
  <1>1. DecQueue'
    BY <1>a, <1>q, DecFacts DEF DecQueue, DecInput, EndKnown, NothingPasses
  <1>2. EndKnown'
    BY <1>a, <1>q, DecFacts DEF DecInput, EndKnown, NotedOK, Drains, NothingPasses, ToSubmit
  <1>3. NotedOK'
    BY <1>a, <1>q, DecFacts DEF DecInput, NotedOK, EndKnown, Noted, ToSubmit
  <1>4. Drains'
    BY <1>a, <1>q, DecFacts DEF DecInput, NotedOK, EndKnown, Drains, NothingPasses, ToSubmit, Noted
  <1>5. BothFilled'
    BY <1>a, <1>q, DecFacts DEF DecInput, BothFilled, NotedOK, Drains, EndKnown, NothingPasses, ToSubmit, Other
  <1>6. OldHeldBack'
    BY <1>a, <1>q, DecFacts DEF DecOutput, OldHeldBack, OutFine, OutAway, NoOut
  <1>7. OutFine'
    BY <1>a, <1>q, DecFacts DEF DecOutput, OutFine, OldHeldBack, OutAway, NothingPasses, NoOut
  <1> QED BY <1>1, <1>2, <1>3, <1>4, <1>5, <1>6, <1>7 DEF DecInput, DecOutput

LEMMA DecWaitDone_Stamped ==
  ASSUME DecInv, DecOutShapes, Running, Sound, DecQueue, DecInput, DecOutput, WaitDone
  PROVE  DecQueue' /\ DecInput' /\ DecOutput'
  <1>a. /\ UNCHANGED <<fixed, thumb, ring, buf, start, worker, mfc, in, ret, re, out, check, flushing, client>>
        /\ pc = "wait" /\ pc' = "read" /\ dec' = [dec EXCEPT !.run = FALSE]
    BY DEF WaitDone, stream, data, fixed
  <1>q. /\ Coming' = Coming /\ (Showing' <=> Showing) /\ (DecInWork' <=> DecInWork)
        /\ (ShowsEnd' <=> ShowsEnd) /\ (EndQueued' <=> EndQueued)
        /\ (AllStamped' <=> AllStamped) /\ (NoneWiped' <=> NoneWiped)
        /\ (CodecFull' <=> CodecFull)
        /\ TagsInTurn' /\ Lag' /\ WipedFirst'
    <2>1. /\ UNCHANGED <<mfc, thumb>> /\ dec'.ti = dec.ti /\ (DecInWork' <=> DecInWork)
          /\ DecInWork => buf'[mfc.inBuf] = buf[mfc.inBuf]
      BY <1>a, DecFacts DEF DecInWork, Other
    <2>2. /\ \A i \in 1 .. Len(Coming) : ring'[Coming[i].tag] = ring[Coming[i].tag]
          /\ Showing => ring'[mfc.tag] = ring[mfc.tag]
      BY <1>a
    <2>3. TagsInTurn /\ Lag /\ WipedFirst
      BY DEF DecQueue
    <2> QED BY <2>1, <2>2, <2>3, QueueKept
  <1>1. DecQueue'
    BY <1>a, <1>q, DecFacts DEF DecQueue, DecInput, EndKnown, NothingPasses
  <1>2. EndKnown'
    BY <1>a, <1>q, DecFacts DEF DecInput, EndKnown, NotedOK, Drains, NothingPasses, ToSubmit
  <1>3. NotedOK'
    BY <1>a, <1>q, DecFacts DEF DecInput, NotedOK, EndKnown, Noted, ToSubmit
  <1>4. Drains'
    BY <1>a, <1>q, DecFacts DEF DecInput, NotedOK, EndKnown, Drains, NothingPasses, ToSubmit, Noted
  <1>5. BothFilled'
    BY <1>a, <1>q, DecFacts DEF DecInput, BothFilled, NotedOK, Drains, EndKnown, NothingPasses, ToSubmit, Other
  <1>6. OldHeldBack'
    BY <1>a, <1>q, DecFacts DEF DecOutput, OldHeldBack, OutFine, OutAway, NoOut
  <1>7. OutFine'
    BY <1>a, <1>q, DecFacts DEF DecOutput, OutFine, OldHeldBack, OutAway, NothingPasses, NoOut
  <1> QED BY <1>1, <1>2, <1>3, <1>4, <1>5, <1>6, <1>7 DEF DecInput, DecOutput

LEMMA DecSkipSubmit_Stamped ==
  ASSUME DecInv, DecOutShapes, Running, Sound, DecQueue, DecInput, DecOutput, SkipSubmit
  PROVE  DecQueue' /\ DecInput' /\ DecOutput'
  <1>a. /\ UNCHANGED <<fixed, thumb, dec, ring, buf, start, worker, mfc, out, check, flushing, client>>
        /\ pc = "submit" /\ (buf[dec.index] = 0 \/ in.len = 0 \/ out.eos)
        /\ ret' = ret /\ pc' = "deliver"
        /\ \/ ret = "yet" /\ in' = in
           \/ ret # "yet" /\ in'.len = 0 /\ ~in'.eos
    BY DEF SkipSubmit, Returns, NoData, stream, sems, fixed
  <1>q. /\ Coming' = Coming /\ (Showing' <=> Showing) /\ (DecInWork' <=> DecInWork)
        /\ (ShowsEnd' <=> ShowsEnd) /\ (EndQueued' <=> EndQueued)
        /\ (AllStamped' <=> AllStamped) /\ (NoneWiped' <=> NoneWiped)
        /\ (CodecFull' <=> CodecFull)
        /\ TagsInTurn' /\ Lag' /\ WipedFirst'
    <2>1. /\ UNCHANGED <<mfc, thumb>> /\ dec'.ti = dec.ti /\ (DecInWork' <=> DecInWork)
          /\ DecInWork => buf'[mfc.inBuf] = buf[mfc.inBuf]
      BY <1>a, DecFacts DEF DecInWork, Other
    <2>2. /\ \A i \in 1 .. Len(Coming) : ring'[Coming[i].tag] = ring[Coming[i].tag]
          /\ Showing => ring'[mfc.tag] = ring[mfc.tag]
      BY <1>a
    <2>3. TagsInTurn /\ Lag /\ WipedFirst
      BY DEF DecQueue
    <2> QED BY <2>1, <2>2, <2>3, QueueKept
  <1>1. DecQueue'
    BY <1>a, <1>q, DecFacts DEF DecQueue, DecInput, EndKnown, NothingPasses
  <1>2. EndKnown'
    BY <1>a, <1>q, DecFacts DEF DecInput, EndKnown, NotedOK, Drains, NothingPasses, ToSubmit, DecOutput, OutFine, EndQueued
  <1>3. NotedOK'
    BY <1>a, <1>q, DecFacts DEF DecInput, NotedOK, EndKnown, Noted, ToSubmit
  <1>4. Drains'
    BY <1>a, <1>q, DecFacts DEF DecInput, NotedOK, EndKnown, Drains, NothingPasses, ToSubmit, Noted
  <1>5. BothFilled'
    BY <1>a, <1>q, DecFacts DEF DecInput, BothFilled, NotedOK, Drains, EndKnown, NothingPasses, ToSubmit, Other, DecOutput, OutFine, EndQueued
  <1>6. OldHeldBack'
    BY <1>a, <1>q, DecFacts DEF DecOutput, OldHeldBack, OutFine, OutAway, NoOut
  <1>7. OutFine'
    BY <1>a, <1>q, DecFacts DEF DecOutput, OutFine, OldHeldBack, OutAway, NothingPasses, NoOut
  <1> QED BY <1>1, <1>2, <1>3, <1>4, <1>5, <1>6, <1>7 DEF DecInput, DecOutput

LEMMA DecTake_Stamped ==
  ASSUME DecInv, DecOutShapes, Running, Sound, DecQueue, DecInput, DecOutput, Take
  PROVE  DecQueue' /\ DecInput' /\ DecOutput'
  <1>a. /\ UNCHANGED <<fixed, thumb, dec, ring, buf, mfc, pc, in, ret, re, out, check, flushing, client>>
        /\ worker = "wait" /\ start > 0 /\ start' = start - 1
        /\ worker' = IF dec.exit THEN "gone" ELSE "exe"
    BY DEF Take, stream, data, fixed
  <1>q. /\ Coming' = Coming /\ (Showing' <=> Showing) /\ (DecInWork' <=> DecInWork)
        /\ (ShowsEnd' <=> ShowsEnd) /\ (EndQueued' <=> EndQueued)
        /\ (AllStamped' <=> AllStamped) /\ (NoneWiped' <=> NoneWiped)
        /\ (CodecFull' <=> CodecFull)
        /\ TagsInTurn' /\ Lag' /\ WipedFirst'
    <2>1. /\ UNCHANGED <<mfc, thumb>> /\ dec'.ti = dec.ti /\ (DecInWork' <=> DecInWork)
          /\ DecInWork => buf'[mfc.inBuf] = buf[mfc.inBuf]
      BY <1>a, DecFacts DEF DecInWork, Other
    <2>2. /\ \A i \in 1 .. Len(Coming) : ring'[Coming[i].tag] = ring[Coming[i].tag]
          /\ Showing => ring'[mfc.tag] = ring[mfc.tag]
      BY <1>a
    <2>3. TagsInTurn /\ Lag /\ WipedFirst
      BY DEF DecQueue
    <2> QED BY <2>1, <2>2, <2>3, QueueKept
  <1>1. DecQueue'
    BY <1>a, <1>q, DecFacts DEF DecQueue, DecInput, EndKnown, NothingPasses
  <1>2. EndKnown'
    BY <1>a, <1>q, DecFacts DEF DecInput, EndKnown, NotedOK, Drains, NothingPasses, ToSubmit
  <1>3. NotedOK'
    BY <1>a, <1>q, DecFacts DEF DecInput, NotedOK, EndKnown, Noted, ToSubmit
  <1>4. Drains'
    BY <1>a, <1>q, DecFacts DEF DecInput, NotedOK, EndKnown, Drains, NothingPasses, ToSubmit, Noted
  <1>5. BothFilled'
    BY <1>a, <1>q, DecFacts DEF DecInput, BothFilled, NotedOK, Drains, EndKnown, NothingPasses, ToSubmit, Other
  <1>6. OldHeldBack'
    BY <1>a, <1>q, DecFacts DEF DecOutput, OldHeldBack, OutFine, OutAway, NoOut
  <1>7. OutFine'
    BY <1>a, <1>q, DecFacts DEF DecOutput, OutFine, OldHeldBack, OutAway, NothingPasses, NoOut
  <1> QED BY <1>1, <1>2, <1>3, <1>4, <1>5, <1>6, <1>7 DEF DecInput, DecOutput

LEMMA DecFlush_Stamped ==
  ASSUME DecInv, DecOutShapes, Running, Sound, DecQueue, DecInput, DecOutput, Flush
  PROVE  DecQueue' /\ DecInput' /\ DecOutput'
  <1>a. /\ UNCHANGED <<fixed, thumb, dec, ring, buf, start, worker, mfc, pc, ret, re, out, check, client>>
        /\ pc \in {"idle", "call", "deliver"} /\ flushing' /\ in'.len = 0 /\ ~in'.eos
    BY DEF Flush, NoData, stream, sems, fixed
  <1>q. /\ Coming' = Coming /\ (Showing' <=> Showing) /\ (DecInWork' <=> DecInWork)
        /\ (ShowsEnd' <=> ShowsEnd) /\ (EndQueued' <=> EndQueued)
        /\ (AllStamped' <=> AllStamped) /\ (NoneWiped' <=> NoneWiped)
        /\ (CodecFull' <=> CodecFull)
        /\ TagsInTurn' /\ Lag' /\ WipedFirst'
    <2>1. /\ UNCHANGED <<mfc, thumb>> /\ dec'.ti = dec.ti /\ (DecInWork' <=> DecInWork)
          /\ DecInWork => buf'[mfc.inBuf] = buf[mfc.inBuf]
      BY <1>a, DecFacts DEF DecInWork, Other
    <2>2. /\ \A i \in 1 .. Len(Coming) : ring'[Coming[i].tag] = ring[Coming[i].tag]
          /\ Showing => ring'[mfc.tag] = ring[mfc.tag]
      BY <1>a
    <2>3. TagsInTurn /\ Lag /\ WipedFirst
      BY DEF DecQueue
    <2> QED BY <2>1, <2>2, <2>3, QueueKept
  <1>1. DecQueue'
    BY <1>a, <1>q, DecFacts DEF DecQueue, DecInput, EndKnown, NothingPasses
  <1>2. EndKnown'
    BY <1>a, <1>q, DecFacts DEF DecInput, EndKnown, NotedOK, Drains, NothingPasses, ToSubmit
  <1>3. NotedOK'
    BY <1>a, <1>q, DecFacts DEF DecInput, NotedOK, EndKnown, Noted, ToSubmit
  <1>4. Drains'
    BY <1>a, <1>q, DecFacts DEF DecInput, NotedOK, EndKnown, Drains, NothingPasses, ToSubmit, Noted
  <1>5. BothFilled'
    BY <1>a, <1>q, DecFacts DEF DecInput, BothFilled, NotedOK, Drains, EndKnown, NothingPasses, ToSubmit, Other
  <1>6. OldHeldBack'
    BY <1>a, <1>q, DecFacts DEF DecOutput, OldHeldBack, OutFine, OutAway, NoOut
  <1>7. OutFine'
    BY <1>a, <1>q, DecFacts DEF DecOutput, OutFine, OldHeldBack, OutAway, NothingPasses, NoOut
  <1> QED BY <1>1, <1>2, <1>3, <1>4, <1>5, <1>6, <1>7 DEF DecInput, DecOutput

LEMMA DecPosted_Stamped ==
  ASSUME DecInv, DecOutShapes, Running, Sound, DecQueue, DecInput, DecOutput, Posted
  PROVE  DecQueue' /\ DecInput' /\ DecOutput'
  <1>a. /\ UNCHANGED <<fixed, thumb, ring, buf, start, worker, mfc, out, check, flushing, client>>
        /\ pc = "posted" /\ pc' = "deliver"
        /\ dec' = [dec EXCEPT !.run = TRUE, !.code = "ok", !.index = Other(@), !.first = FALSE]
        /\ ret' = (IF thumb /\ dec.first THEN "yet" ELSE ret)
        /\ \/ ret' = "yet" /\ in' = in
           \/ ret' # "yet" /\ in'.len = 0 /\ ~in'.eos
    BY DEF Posted, Returns, NoData, stream, sems, fixed
  <1>q. /\ Coming' = Coming /\ (Showing' <=> Showing) /\ (DecInWork' <=> DecInWork)
        /\ (ShowsEnd' <=> ShowsEnd) /\ (EndQueued' <=> EndQueued)
        /\ (AllStamped' <=> AllStamped) /\ (NoneWiped' <=> NoneWiped)
        /\ (CodecFull' <=> CodecFull)
        /\ TagsInTurn' /\ Lag' /\ WipedFirst'
    <2>1. /\ UNCHANGED <<mfc, thumb>> /\ dec'.ti = dec.ti /\ (DecInWork' <=> DecInWork)
          /\ DecInWork => buf'[mfc.inBuf] = buf[mfc.inBuf]
      BY <1>a, DecFacts DEF DecInWork, Other
    <2>2. /\ \A i \in 1 .. Len(Coming) : ring'[Coming[i].tag] = ring[Coming[i].tag]
          /\ Showing => ring'[mfc.tag] = ring[mfc.tag]
      BY <1>a
    <2>3. TagsInTurn /\ Lag /\ WipedFirst
      BY DEF DecQueue
    <2> QED BY <2>1, <2>2, <2>3, QueueKept
  <1>1. DecQueue'
    BY <1>a, <1>q, DecFacts DEF DecQueue, DecInput, EndKnown, NothingPasses
  <1>2. EndKnown'
    BY <1>a, <1>q, DecFacts DEF DecInput, EndKnown, NotedOK, Drains, NothingPasses, ToSubmit
  <1>3. NotedOK'
    BY <1>a, <1>q, DecFacts DEF DecInput, NotedOK, EndKnown, Noted, ToSubmit
  <1>4. Drains'
    BY <1>a, <1>q, DecFacts DEF DecInput, NotedOK, EndKnown, Drains, NothingPasses, ToSubmit, Noted
  <1>5. BothFilled'
    BY <1>a, <1>q, DecFacts DEF DecInput, BothFilled, NotedOK, Drains, EndKnown, NothingPasses, ToSubmit, Other
  <1>6. OldHeldBack'
    BY <1>a, <1>q, DecFacts DEF DecOutput, OldHeldBack, OutFine, OutAway, NoOut
  <1>7. OutFine'
    BY <1>a, <1>q, DecFacts DEF DecOutput, OutFine, OldHeldBack, OutAway, NothingPasses, NoOut
  <1> QED BY <1>1, <1>2, <1>3, <1>4, <1>5, <1>6, <1>7 DEF DecInput, DecOutput

LEMMA DecNothingToDecode_Stamped ==
  ASSUME DecInv, DecOutShapes, Running, Sound, DecQueue, DecInput, DecOutput, NothingToDecode
  PROVE  DecQueue' /\ DecInput' /\ DecOutput'
  <1>a. /\ UNCHANGED <<fixed, thumb, dec, ring, buf, start, worker, mfc, check, flushing, client>>
        /\ pc = "call" /\ ~dec.conf /\ in.len = 0 /\ in.eos
        /\ out' = [frame |-> 0, stamp |-> in.stamp, eos |-> in.eos]
        /\ ret' = "none" /\ pc' = "deliver" /\ in'.len = 0 /\ ~in'.eos
    BY DEF NothingToDecode, EmptyEos, PassThrough, Returns, NoData, stream, sems, fixed
  <1>c. NoneWiped /\ AllStamped /\ ~EndQueued /\ ~ShowsEnd /\ dec.first
    <2>1. dec.first /\ pc # "posted" /\ Drains
      BY <1>a, DecFacts DEF DecInput
    <2> QED BY <2>1, NothingYet
  <1>q. /\ Coming' = Coming /\ (Showing' <=> Showing) /\ (DecInWork' <=> DecInWork)
        /\ (ShowsEnd' <=> ShowsEnd) /\ (EndQueued' <=> EndQueued)
        /\ (AllStamped' <=> AllStamped) /\ (NoneWiped' <=> NoneWiped)
        /\ (CodecFull' <=> CodecFull)
        /\ TagsInTurn' /\ Lag' /\ WipedFirst'
    <2>1. /\ UNCHANGED <<mfc, thumb>> /\ dec'.ti = dec.ti /\ (DecInWork' <=> DecInWork)
          /\ DecInWork => buf'[mfc.inBuf] = buf[mfc.inBuf]
      BY <1>a, <1>c, DecFacts DEF DecInWork, Other
    <2>2. /\ \A i \in 1 .. Len(Coming) : ring'[Coming[i].tag] = ring[Coming[i].tag]
          /\ Showing => ring'[mfc.tag] = ring[mfc.tag]
      BY <1>a, <1>c
    <2>3. TagsInTurn /\ Lag /\ WipedFirst
      BY DEF DecQueue
    <2> QED BY <2>1, <2>2, <2>3, QueueKept
  <1>1. DecQueue'
    BY <1>a, <1>c, <1>q, DecFacts DEF DecQueue, DecInput, EndKnown, NothingPasses
  <1>2. EndKnown'
    BY <1>a, <1>c, <1>q, DecFacts DEF DecInput, EndKnown, NotedOK, Drains, NothingPasses, ToSubmit
  <1>3. NotedOK'
    BY <1>a, <1>c, <1>q, DecFacts DEF DecInput, NotedOK, EndKnown, Noted, ToSubmit
  <1>4. Drains'
    BY <1>a, <1>c, <1>q, DecFacts DEF DecInput, NotedOK, EndKnown, Drains, NothingPasses, ToSubmit, Noted
  <1>5. BothFilled'
    BY <1>a, <1>c, <1>q, DecFacts DEF DecInput, BothFilled, NotedOK, Drains, EndKnown, NothingPasses, ToSubmit, Other
  <1>6. OldHeldBack'
    BY <1>a, <1>c, <1>q, DecFacts DEF DecOutput, OldHeldBack, OutFine, OutAway, NoOut
  <1>7. OutFine'
    BY <1>a, <1>c, <1>q, DecFacts DEF DecOutput, OutFine, OldHeldBack, OutAway, NothingPasses, NoOut
  <1> QED BY <1>1, <1>2, <1>3, <1>4, <1>5, <1>6, <1>7 DEF DecInput, DecOutput

LEMMA DecConfigure_Stamped ==
  ASSUME DecInv, DecOutShapes, Running, Sound, DecQueue, DecInput, DecOutput, ConfigureH264 \/ ConfigureMpeg4
  PROVE  DecQueue' /\ DecInput' /\ DecOutput'
  <1>a. /\ UNCHANGED <<thumb, ring, buf, start, worker, mfc, check, flushing>>
        /\ pc = "call" /\ ~dec.conf
        /\ out' = out \/ (out' = [frame |-> 0, stamp |-> in.stamp, eos |-> in.eos] /\ ret' = "none"
                            /\ pc' = "deliver")
        /\ \/ /\ dec' = [dec EXCEPT !.conf = TRUE] /\ client' = client /\ pc' = "deliver"
              /\ \/ ret' = "yet" /\ in' = in
                 \/ ret' = "none" /\ in'.len = 0 /\ ~in'.eos
           \/ /\ dec' = [dec EXCEPT !.code = "error"] /\ pc' = "idle" /\ ~re' /\ out' = out
              /\ in' = in /\ ret' = ret /\ client' = [client EXCEPT !.ended = TRUE]
    BY DEF ConfigureH264, ConfigureMpeg4, Configured, PassThrough, Returns, NoData, stream, sems, fixed
  <1>c. /\ NoneWiped /\ AllStamped /\ ~EndQueued /\ ~ShowsEnd /\ dec'.ti = dec.ti /\ dec'.index = dec.index
        /\ dec'.first = dec.first /\ dec'.allDelay = dec.allDelay /\ dec'.exit = dec.exit /\ dec.first
        /\ client'.full = client.full /\ client'.ended \in {client.ended, TRUE}
    <2>1. dec.first /\ pc # "posted" /\ Drains
      BY <1>a, DecFacts DEF DecInput
    <2>2. NoneWiped /\ AllStamped /\ ~EndQueued /\ ~ShowsEnd
      BY <2>1, NothingYet
    <2>3. dec' = [dec EXCEPT !.conf = TRUE] \/ dec' = [dec EXCEPT !.code = "error"]
      BY <1>a
    <2>4. dec \in DecType
      BY DEF DecInv, DecShapes, DecoderOK
    <2>5. /\ dec'.ti = dec.ti /\ dec'.index = dec.index /\ dec'.first = dec.first
          /\ dec'.allDelay = dec.allDelay /\ dec'.exit = dec.exit
      BY <2>3, <2>4 DEF DecType
    <2>6. client' = client \/ client' = [client EXCEPT !.ended = TRUE]
      BY <1>a
    <2>7. client'.full = client.full /\ client'.ended \in {client.ended, TRUE}
      BY <2>6, DecFacts
    <2> QED BY <2>1, <2>2, <2>5, <2>7
  <1>q. /\ Coming' = Coming /\ (Showing' <=> Showing) /\ (DecInWork' <=> DecInWork)
        /\ (ShowsEnd' <=> ShowsEnd) /\ (EndQueued' <=> EndQueued)
        /\ (AllStamped' <=> AllStamped) /\ (NoneWiped' <=> NoneWiped)
        /\ (CodecFull' <=> CodecFull)
        /\ TagsInTurn' /\ Lag' /\ WipedFirst'
    <2>1. /\ UNCHANGED <<mfc, thumb>> /\ dec'.ti = dec.ti /\ (DecInWork' <=> DecInWork)
          /\ DecInWork => buf'[mfc.inBuf] = buf[mfc.inBuf]
      BY <1>a, <1>c, DecFacts DEF DecInWork, Other
    <2>2. /\ \A i \in 1 .. Len(Coming) : ring'[Coming[i].tag] = ring[Coming[i].tag]
          /\ Showing => ring'[mfc.tag] = ring[mfc.tag]
      BY <1>a, <1>c
    <2>3. TagsInTurn /\ Lag /\ WipedFirst
      BY DEF DecQueue
    <2> QED BY <2>1, <2>2, <2>3, QueueKept
  <1>1. DecQueue'
    BY <1>a, <1>c, <1>q, DecFacts DEF DecQueue, DecInput, EndKnown, NothingPasses
  <1>2. EndKnown'
    BY <1>a, <1>c, <1>q, DecFacts DEF DecInput, EndKnown, NotedOK, Drains, NothingPasses, ToSubmit
  <1>3. NotedOK'
    BY <1>a, <1>c, <1>q, DecFacts DEF DecInput, NotedOK, EndKnown, Noted, ToSubmit
  <1>4. Drains'
    BY <1>a, <1>c, <1>q, DecFacts DEF DecInput, NotedOK, EndKnown, Drains, NothingPasses, ToSubmit, Noted
  <1>5. BothFilled'
    BY <1>a, <1>c, <1>q, DecFacts DEF DecInput, BothFilled, NotedOK, Drains, EndKnown, NothingPasses, ToSubmit, Other
  <1>6. OldHeldBack'
    BY <1>a, <1>c, <1>q, DecFacts DEF DecOutput, OldHeldBack, OutFine, OutAway, NoOut
  <1>7. OutFine'
    BY <1>a, <1>c, <1>q, DecFacts DEF DecOutput, OutFine, OldHeldBack, OutAway, NothingPasses, NoOut
  <1> QED BY <1>1, <1>2, <1>3, <1>4, <1>5, <1>6, <1>7 DEF DecInput, DecOutput

LEMMA DecFeed_Stamped ==
  ASSUME DecInv, DecOutShapes, Running, Sound, DecQueue, DecInput, DecOutput, Feed
  PROVE  DecQueue' /\ DecInput' /\ DecOutput'
  <1>a. PICK e \in BOOLEAN, empty \in BOOLEAN :
          /\ empty => e
          /\ in' = [in EXCEPT !.len = IF empty THEN in.prev ELSE client.sent + 1,
                              !.stamp = IF empty THEN 0 ELSE client.sent + 1, !.eos = e]
          /\ buf' = IF empty THEN buf ELSE [buf EXCEPT ![dec.index] = client.sent + 1]
          /\ client' = [client EXCEPT !.sent = IF empty THEN @ ELSE client.sent + 1, !.ended = e,
                                      !.bare = ~e \/ empty]
          /\ check' = IF check.set
                      THEN [set |-> FALSE, on |-> TRUE, eos |-> e,
                            stamp |-> IF empty THEN 0 ELSE client.sent + 1]
                      ELSE check
    BY DEF Feed
  <1>b. /\ UNCHANGED <<thumb, dec, ring, start, worker, mfc, re, out, flushing>> /\ pc = "idle" /\ ~flushing /\ ~re
        /\ in.len = 0 /\ ~client.ended /\ pc' = "call" /\ ret' = "none"
    BY DEF Feed, sems, fixed
  <1>c. /\ in'.eos = e /\ client'.ended = e /\ client'.full = client.full /\ client.sent + 1 \in Nat
        /\ ~e => in'.len = client.sent + 1 /\ in'.stamp = in'.len /\ buf'[dec.index] = client.sent + 1
        /\ \A b \in 0 .. 1 : b # dec.index => buf'[b] = buf[b]
        /\ check.set => check'.on /\ ~check'.set /\ check'.eos = e /\ check'.stamp \in Nat
        /\ ~check.set => check' = check
    BY <1>a, DecFacts DEF DecInv, DecShapes, BuffersOK
  <1>q. /\ Coming' = Coming /\ (Showing' <=> Showing) /\ (DecInWork' <=> DecInWork)
        /\ (ShowsEnd' <=> ShowsEnd) /\ (EndQueued' <=> EndQueued)
        /\ (AllStamped' <=> AllStamped) /\ (NoneWiped' <=> NoneWiped)
        /\ (CodecFull' <=> CodecFull)
        /\ TagsInTurn' /\ Lag' /\ WipedFirst'
    <2>1. /\ UNCHANGED <<mfc, thumb>> /\ dec'.ti = dec.ti /\ (DecInWork' <=> DecInWork)
          /\ DecInWork => buf'[mfc.inBuf] = buf[mfc.inBuf]
      BY <1>a, <1>b, <1>c, DecFacts DEF DecInWork, Other
    <2>2. /\ \A i \in 1 .. Len(Coming) : ring'[Coming[i].tag] = ring[Coming[i].tag]
          /\ Showing => ring'[mfc.tag] = ring[mfc.tag]
      BY <1>b
    <2>3. TagsInTurn /\ Lag /\ WipedFirst
      BY DEF DecQueue
    <2> QED BY <2>1, <2>2, <2>3, QueueKept
  <1>1. DecQueue'
    BY <1>b, <1>c, <1>q, DecFacts DEF DecQueue, DecInput, EndKnown, NothingPasses
  <1>2. EndKnown'
    BY <1>b, <1>c, <1>q, DecFacts DEF DecInput, EndKnown, NotedOK, Drains, NothingPasses, ToSubmit
  <1>3. NotedOK'
    BY <1>b, <1>c, <1>q, DecFacts DEF DecInput, NotedOK, EndKnown, Noted, ToSubmit
  <1>4. Drains'
    BY <1>b, <1>c, <1>q, DecFacts DEF DecInput, NotedOK, EndKnown, Drains, NothingPasses, ToSubmit, Noted
  <1>5. BothFilled'
    BY <1>b, <1>c, <1>q, DecFacts DEF DecInput, BothFilled, NotedOK, Drains, EndKnown, NothingPasses, ToSubmit, Other
  <1>6. OldHeldBack'
    BY <1>b, <1>c, <1>q, DecFacts DEF DecOutput, OldHeldBack, OutFine, OutAway, NoOut
  <1>7. OutFine'
    BY <1>b, <1>c, <1>q, DecFacts DEF DecOutput, OutFine, OldHeldBack, OutAway, NothingPasses, NoOut
  <1> QED BY <1>1, <1>2, <1>3, <1>4, <1>5, <1>6, <1>7 DEF DecInput, DecOutput

LEMMA DecDeliver_Stamped ==
  ASSUME DecInv, DecOutShapes, Running, Sound, DecQueue, DecInput, DecOutput, Deliver
  PROVE  DecQueue' /\ DecInput' /\ DecOutput'
  <1>a. /\ UNCHANGED <<thumb, dec, ring, buf, start, worker, mfc, in, ret, flushing>>
        /\ pc = "deliver" /\ pc' = "idle" /\ out' = NoOut /\ re' = (ret = "yet")
        /\ \/ check' = check
           \/ check' = NoCheck /\ check.on /\ out.stamp = check.stamp /\ out.eos = check.eos
    BY DEF Deliver, Matches, stream, sems, fixed
  <1>c. /\ client'.full = client.full /\ client'.ended = client.ended
        /\ dec.first => NoneWiped /\ AllStamped /\ ~EndQueued /\ ~ShowsEnd
        /\ NoCheck.on = FALSE /\ NoCheck.set = FALSE /\ NoOut.eos = FALSE /\ NoOut.frame = 0
    <2>1. client'.full = client.full /\ client'.ended = client.ended
      BY DecFacts DEF Deliver
    <2>2. Drains
      BY DEF DecInput
    <2> QED BY <1>a, <2>1, <2>2, NothingYet DEF NoCheck, NoOut
  <1>q. /\ Coming' = Coming /\ (Showing' <=> Showing) /\ (DecInWork' <=> DecInWork)
        /\ (ShowsEnd' <=> ShowsEnd) /\ (EndQueued' <=> EndQueued)
        /\ (AllStamped' <=> AllStamped) /\ (NoneWiped' <=> NoneWiped)
        /\ (CodecFull' <=> CodecFull)
        /\ TagsInTurn' /\ Lag' /\ WipedFirst'
    <2>1. /\ UNCHANGED <<mfc, thumb>> /\ dec'.ti = dec.ti /\ (DecInWork' <=> DecInWork)
          /\ DecInWork => buf'[mfc.inBuf] = buf[mfc.inBuf]
      BY <1>a, <1>c, DecFacts DEF DecInWork, Other
    <2>2. /\ \A i \in 1 .. Len(Coming) : ring'[Coming[i].tag] = ring[Coming[i].tag]
          /\ Showing => ring'[mfc.tag] = ring[mfc.tag]
      BY <1>a, <1>c
    <2>3. TagsInTurn /\ Lag /\ WipedFirst
      BY DEF DecQueue
    <2> QED BY <2>1, <2>2, <2>3, QueueKept
  <1>1. DecQueue'
    BY <1>a, <1>c, <1>q, DecFacts DEF DecQueue, DecInput, EndKnown, NothingPasses, DecOutput, OutFine, NotedOK, OldHeldBack
  <1>2. EndKnown'
    BY <1>a, <1>c, <1>q, DecFacts DEF DecInput, EndKnown, NotedOK, Drains, NothingPasses, ToSubmit, DecOutput, OutFine, EndQueued
  <1>3. NotedOK'
    BY <1>a, <1>c, <1>q, DecFacts DEF DecInput, NotedOK, EndKnown, Noted, ToSubmit
  <1>4. Drains'
    BY <1>a, <1>c, <1>q, DecFacts DEF DecInput, NotedOK, EndKnown, Drains, NothingPasses, ToSubmit, Noted
  <1>5. BothFilled'
    BY <1>a, <1>c, <1>q, DecFacts DEF DecInput, BothFilled, NotedOK, Drains, EndKnown, NothingPasses, ToSubmit, Other, DecOutput, OutFine
  <1>6. OldHeldBack'
    BY <1>a, <1>c, <1>q, DecFacts DEF DecOutput, OldHeldBack, OutFine, OutAway, NoOut, DecInput, NotedOK
  <1>7. OutFine'
    BY <1>a, <1>c, <1>q, DecFacts DEF DecOutput, OutFine, OldHeldBack, OutAway, NothingPasses, NoOut
  <1> QED BY <1>1, <1>2, <1>3, <1>4, <1>5, <1>6, <1>7 DEF DecInput, DecOutput

\* The call reads what the codec shows, and decides by its stamp whether it goes out.
LEMMA DecRead_Stamped ==
  ASSUME DecInv, DecOutShapes, Running, Sound, DecQueue, DecInput, DecOutput, Read
  PROVE  DecQueue' /\ DecInput' /\ DecOutput'
  <1>a. /\ UNCHANGED <<thumb, ring, buf, start, worker, mfc, re, check, flushing, client>>
        /\ pc = "read" /\ pc' = "submit" /\ in' = [in EXCEPT !.eos = FALSE]
        /\ ret' = (IF Yet THEN "yet" ELSE "none")
        /\ dec' = [dec EXCEPT !.allDelay = in.eos \/ (@ /\ ~Stamped.eos),
                              !.index = IF Yet THEN Other(@) ELSE @]
        /\ out' = [frame |-> IF Shows THEN mfc.frame ELSE 0, stamp |-> Stamped.stamp,
                   eos |-> Stamped.eos]
    BY DEF Read, sems, fixed
  <1>c. /\ ~DecInWork /\ ~dec.first
        /\ dec'.ti = dec.ti /\ dec'.first = dec.first /\ dec'.exit = dec.exit
        /\ dec'.index = IF Yet THEN Other(dec.index) ELSE dec.index
        /\ in'.len = in.len /\ in'.stamp = in.stamp /\ ~in'.eos
        /\ Yet => in.eos \/ dec.allDelay
        /\ out'.eos <=> ShowsEnd
        /\ out'.frame # 0 => Showing /\ ~ShowsEnd /\ out'.frame = mfc.frame
        /\ Showing => out'.stamp = ring[mfc.tag].stamp
        /\ ~Showing => ~CodecFull
    <2>1. ~DecInWork /\ ~dec.first
      BY <1>a, DecFacts
    <2>2. /\ Yet \in BOOLEAN /\ (Yet => in.eos \/ dec.allDelay)
      BY DEF Yet, DecInv, DecShapes, BuffersOK, DecoderOK, DecType, Shows
    <2>3. /\ dec'.ti = dec.ti /\ dec'.first = dec.first /\ dec'.exit = dec.exit
          /\ dec'.index = IF Yet THEN Other(dec.index) ELSE dec.index
          /\ in'.len = in.len /\ in'.stamp = in.stamp /\ ~in'.eos
      BY <1>a, <2>2 DEF DecInv, DecShapes, BuffersOK, DecoderOK, DecType
    <2>4. Showing <=> mfc.status = "display"
      BY <2>1 DEF Showing
    <2>5. /\ Showing => mfc.tag \in 0 .. Ring - 1
          /\ ~Showing => mfc.tag = -1
      BY <2>4, TagsElsewhere DEF DecQueue, Lag, DecInv, DecShapes, DecoderOK, MfcType, Index
    <2>6. /\ Showing => Stamped = ring[mfc.tag]
          /\ ~Showing => ~Stamped.eos
      BY <2>5 DEF Stamped
    <2>7. Shows <=> Showing /\ ~ShowsEnd
      BY <2>4, <2>6 DEF Shows, ShowsEnd
    <2>8. /\ out'.frame = (IF Shows THEN mfc.frame ELSE 0) /\ out'.stamp = Stamped.stamp
          /\ out'.eos = Stamped.eos
      BY <1>a
    <2>9. ~Showing => ~CodecFull
      BY <2>1, <2>4 DEF CodecFull
    <2> QED BY <2>1, <2>2, <2>3, <2>6, <2>7, <2>8, <2>9 DEF ShowsEnd
  <1>q. /\ Coming' = Coming /\ (Showing' <=> Showing) /\ (DecInWork' <=> DecInWork)
        /\ (ShowsEnd' <=> ShowsEnd) /\ (EndQueued' <=> EndQueued)
        /\ (AllStamped' <=> AllStamped) /\ (NoneWiped' <=> NoneWiped)
        /\ (CodecFull' <=> CodecFull)
        /\ TagsInTurn' /\ Lag' /\ WipedFirst'
    <2>1. /\ UNCHANGED <<mfc, thumb>> /\ dec'.ti = dec.ti /\ (DecInWork' <=> DecInWork)
          /\ DecInWork => buf'[mfc.inBuf] = buf[mfc.inBuf]
      BY <1>a, <1>c, DecFacts DEF DecInWork, Other
    <2>2. /\ \A i \in 1 .. Len(Coming) : ring'[Coming[i].tag] = ring[Coming[i].tag]
          /\ Showing => ring'[mfc.tag] = ring[mfc.tag]
      BY <1>a, <1>c
    <2>3. TagsInTurn /\ Lag /\ WipedFirst
      BY DEF DecQueue
    <2> QED BY <2>1, <2>2, <2>3, QueueKept
  <1>1. DecQueue'
    BY <1>a, <1>c, <1>q, DecFacts DEF DecQueue, DecInput, EndKnown, NothingPasses
  <1>2. EndKnown'
    BY <1>a, <1>c, <1>q, DecFacts DEF DecInput, EndKnown, NotedOK, Drains, NothingPasses, ToSubmit, Noted
  <1>3. NotedOK'
    BY <1>a, <1>c, <1>q, DecFacts DEF DecInput, NotedOK, EndKnown, Noted, ToSubmit
  <1>4. Drains'
    BY <1>a, <1>c, <1>q, DecFacts DEF DecInput, NotedOK, EndKnown, Drains, NothingPasses, ToSubmit, Noted, BothFilled, Other
  <1>5. BothFilled'
    BY <1>a, <1>c, <1>q, DecFacts DEF DecInput, BothFilled, NotedOK, Drains, EndKnown, NothingPasses, ToSubmit, Other
  <1>6. OldHeldBack'
    BY <1>a, <1>c, <1>q, DecFacts DEF DecOutput, OldHeldBack, OutFine, OutAway, NoOut, DecQueue, WipedFirst, Wipe
  <1>7. OutFine'
    BY <1>a, <1>c, <1>q, DecFacts DEF DecOutput, OutFine, OldHeldBack, OutAway, NothingPasses, NoOut, DecQueue, AllStamped, OwnStamp, DecInput, NotedOK, NoneWiped, Wipe
  <1> QED BY <1>1, <1>2, <1>3, <1>4, <1>5, <1>6, <1>7 DEF DecInput, DecOutput

LEMMA DecLook_Stamped ==
  ASSUME DecInv, DecOutShapes, Running, Sound, DecQueue, DecInput, DecOutput, Look
  PROVE  DecQueue' /\ DecInput' /\ DecOutput'
  <1>a. /\ UNCHANGED <<thumb, buf, start, worker, mfc, in, ret, re, check, flushing, client>>
        /\ pc = "call" /\ ring' = [ring EXCEPT ![dec.ti] = [stamp |-> in.stamp, eos |-> in.eos]]
        /\ \/ dec.code = "ok" /\ ~dec.first /\ pc' = "wait" /\ dec' = dec /\ out' = out
           \/ /\ dec.code # "ok" \/ dec.first
              /\ pc' = "submit" /\ dec' = [dec EXCEPT !.allDelay = FALSE]
              /\ out' = [frame |-> 0, stamp |-> in.stamp,
                         eos |-> (dec.allDelay \/ in.eos) /\ ~dec.first]
    BY DEF Look, sems, fixed
  <1>c. /\ dec'.ti = dec.ti /\ dec'.first = dec.first /\ dec'.exit = dec.exit /\ dec'.index = dec.index
        /\ dec'.allDelay \in {dec.allDelay, FALSE}
        /\ \A i \in 1 .. Len(Coming) : ring'[Coming[i].tag] = ring[Coming[i].tag]
        /\ Showing => ring'[mfc.tag] = ring[mfc.tag]
        /\ ring'[dec.ti].stamp = in.stamp /\ ring'[dec.ti].eos = in.eos
        /\ dec.first => NoneWiped /\ AllStamped /\ ~EndQueued /\ ~ShowsEnd
        /\ IF dec.first THEN pc' = "submit" /\ ~out'.eos /\ out'.frame = 0 ELSE pc' = "wait" /\ out' = out
    <2>1. \/ dec' = dec
          \/ dec' = [dec EXCEPT !.allDelay = FALSE]
      BY <1>a
    <2>2. dec \in DecType /\ ring \in [Index -> [stamp : Int, eos : BOOLEAN]]
      BY DEF DecInv, DecShapes, DecoderOK, DecOutShapes
    <2>3. /\ dec'.ti = dec.ti /\ dec'.first = dec.first /\ dec'.exit = dec.exit /\ dec'.index = dec.index
          /\ dec'.allDelay \in {dec.allDelay, FALSE} /\ dec.ti \in Index
      BY <2>1, <2>2 DEF DecType
    <2>4. /\ \A t \in Index : t # dec.ti => ring'[t] = ring[t]
          /\ ring'[dec.ti].stamp = in.stamp /\ ring'[dec.ti].eos = in.eos
      BY <1>a, <2>2, <2>3
    <2>5. /\ \A i \in 1 .. Len(Coming) : ring'[Coming[i].tag] = ring[Coming[i].tag]
          /\ Showing => ring'[mfc.tag] = ring[mfc.tag]
      BY <2>4, ComingIs, TagsElsewhere DEF DecInv, DecQueue
    <2>6. Drains
      BY DEF DecInput
    <2>7. dec.first => NoneWiped /\ AllStamped /\ ~EndQueued /\ ~ShowsEnd
      BY <1>a, <2>6, NothingYet
    <2>8. CASE dec.first
      <3>1. pc' = "submit" /\ out' = [frame |-> 0, stamp |-> in.stamp,
                                    eos |-> (dec.allDelay \/ in.eos) /\ ~dec.first]
        BY <1>a, <2>8
      <3>2. ((dec.allDelay \/ in.eos) /\ ~dec.first) = FALSE
        BY <2>8
      <3>3. out' = [frame |-> 0, stamp |-> in.stamp, eos |-> FALSE]
        BY <3>1, <3>2, Zenon
      <3>4. pc' = "submit" /\ ~out'.eos /\ out'.frame = 0
        BY <3>1, <3>3
      <3> QED BY <2>3, <2>4, <2>5, <2>7, <2>8, <3>4
    <2>9. CASE ~dec.first
      <3>1. pc' = "wait" /\ out' = out
        BY <1>a, <2>9, DecFacts
      <3> QED BY <2>3, <2>4, <2>5, <2>7, <2>9, <3>1
    <2> QED BY <2>8, <2>9
  <1>q. /\ Coming' = Coming /\ (Showing' <=> Showing) /\ (DecInWork' <=> DecInWork)
        /\ (ShowsEnd' <=> ShowsEnd) /\ (EndQueued' <=> EndQueued)
        /\ (AllStamped' <=> AllStamped) /\ (NoneWiped' <=> NoneWiped)
        /\ (CodecFull' <=> CodecFull)
        /\ TagsInTurn' /\ Lag' /\ WipedFirst'
    <2>1. /\ UNCHANGED <<mfc, thumb>> /\ dec'.ti = dec.ti /\ (DecInWork' <=> DecInWork)
          /\ DecInWork => buf'[mfc.inBuf] = buf[mfc.inBuf]
      BY <1>a, <1>c, DecFacts DEF DecInWork, Other
    <2>2. /\ \A i \in 1 .. Len(Coming) : ring'[Coming[i].tag] = ring[Coming[i].tag]
          /\ Showing => ring'[mfc.tag] = ring[mfc.tag]
      BY <1>a, <1>c
    <2>3. TagsInTurn /\ Lag /\ WipedFirst
      BY DEF DecQueue
    <2> QED BY <2>1, <2>2, <2>3, QueueKept
  <1>1. DecQueue'
    BY <1>a, <1>c, <1>q, DecFacts DEF DecQueue, DecInput, EndKnown, NothingPasses
  <1>2. EndKnown'
    BY <1>a, <1>c, <1>q, DecFacts DEF DecInput, EndKnown, NotedOK, Drains, NothingPasses, ToSubmit
  <1>3. NotedOK'
    BY <1>a, <1>c, <1>q, DecFacts DEF DecInput, NotedOK, EndKnown, Noted, ToSubmit
  <1>4. Drains'
    BY <1>a, <1>c, <1>q, DecFacts DEF DecInput, NotedOK, EndKnown, Drains, NothingPasses, ToSubmit, Noted
  <1>5. BothFilled'
    BY <1>a, <1>c, <1>q, DecFacts DEF DecInput, BothFilled, NotedOK, Drains, EndKnown, NothingPasses, ToSubmit, Other
  <1>6. OldHeldBack'
    BY <1>a, <1>c, <1>q, DecFacts DEF DecOutput, OldHeldBack, OutFine, OutAway, NoOut
  <1>7. OutFine'
    BY <1>a, <1>c, <1>q, DecFacts DEF DecOutput, OutFine, OldHeldBack, OutAway, NothingPasses, NoOut
  <1> QED BY <1>1, <1>2, <1>3, <1>4, <1>5, <1>6, <1>7 DEF DecInput, DecOutput

LEMMA DecFlushResets_Stamped ==
  ASSUME DecInv, DecOutShapes, Running, Sound, DecQueue, DecInput, DecOutput, FlushResets
  PROVE  DecQueue' /\ DecInput' /\ DecOutput'
  <1>a. /\ UNCHANGED <<thumb, buf, start, worker, mfc, pc, in, ret, out>>
        /\ flushing /\ ~flushing' /\ ~re'
        /\ ring' = [i \in 0 .. Ring - 1 |-> Wiped]
        /\ check' = [check EXCEPT !.set = TRUE, !.on = FALSE]
        /\ dec' = [dec EXCEPT !.allDelay = FALSE]
        /\ client'.full = IF start > 0 \/ worker = "exe" THEN Len(mfc.held) = Held
                          ELSE mfc.status = "display"
    <2>1. client'.full = IF start > 0 \/ worker = "exe" THEN Len(mfc.held) = Held
                         ELSE mfc.status = "display"
      BY DecFacts DEF FlushResets
    <2> QED BY <2>1 DEF FlushResets, fixed, sems
  <1>b. /\ in.len = 0 /\ ~in.eos /\ check'.set /\ ~check'.on
        /\ dec'.ti = dec.ti /\ dec'.first = dec.first /\ dec'.exit = dec.exit /\ ~dec'.allDelay
        /\ dec'.index = dec.index /\ 0 .. Ring - 1 = Index
        /\ \A t \in Index : ring'[t].stamp = -1 /\ ~ring'[t].eos
    BY <1>a, DecFacts DEF DecInv, DecShapes, DecoderOK, DecType, DecOutShapes, Wiped, Index
  <1>c. Coming' = Coming /\ (Showing' <=> Showing) /\ (DecInWork' <=> DecInWork) /\ Held' = Held
    BY <1>a, <1>b DEF Coming, Showing, DecInWork, Held
  <1>d. /\ \A i \in 1 .. Len(Coming) : Coming[i].tag \in Index
        /\ Showing => mfc.tag \in Index
    BY ComingIs, TagsElsewhere DEF DecInv, DecQueue
  <1>1. TagsInTurn' /\ Lag'
    BY <1>a, <1>b, <1>c DEF DecQueue, TagsInTurn, Lag, Back
  <1>2. WipedFirst'
    BY <1>a, <1>b, <1>c, <1>d DEF WipedFirst, Wipe
  <1>3. AllStamped'
    BY <1>a, <1>b, <1>c, <1>d DEF AllStamped, OwnStamp
  <1>4. ~EndQueued' /\ ~ShowsEnd' /\ ~NothingPasses'
    BY <1>a, <1>b, <1>c, <1>d DEF EndQueued, ShowsEnd, EndsBy, NothingPasses
  <1>5. EndKnown' /\ NotedOK'
    BY <1>a, <1>b, <1>4, DecFacts DEF EndKnown, NotedOK, ToSubmit, Noted, DecInput
  <1>6. Drains' /\ BothFilled'
    BY <1>a, <1>b, <1>c DEF Drains, BothFilled, ToSubmit, DecInput
  <1>7. CodecFull' <=> CodecFull
    BY <1>a, <1>b, <1>c DEF CodecFull
  <1>8. client'.full => CodecFull
    BY <1>a, DecFacts DEF CodecFull, DecInWork, DecQueue, Lag
  <1>9. OldHeldBack'
    BY <1>b, <1>7, <1>8 DEF OldHeldBack
  <1>10. OutFine'
    <2>1. UNCHANGED <<out, pc, in>> /\ check'.set /\ dec'.first = dec.first /\ in.len = 0
      BY <1>a, <1>b
    <2> QED BY <2>1, <1>4 DEF DecOutput, OutFine, OutAway, NoOut
  <1> QED BY <1>1, <1>2, <1>3, <1>5, <1>6, <1>9, <1>10 DEF DecQueue, DecInput, DecOutput

\* The frame joins those that are to be shown, with the place after theirs.
LEMMA Submitting ==
  ASSUME DecInv, DecOutShapes, Running, Sound, DecQueue, Submit
  PROVE  /\ UNCHANGED <<thumb, ring, buf, worker, in, ret, re, out, check, flushing, client>>
         /\ pc = "submit" /\ pc' = "posted" /\ buf[dec.index] # 0 /\ in.len # 0 /\ ~out.eos
         /\ mfc'.held = mfc.held /\ mfc'.status = mfc.status /\ mfc'.tag = mfc.tag
         /\ ~DecInWork /\ DecInWork' /\ ~Showing'
         /\ dec'.ti = (dec.ti + 1) % Ring /\ dec'.index = dec.index /\ dec'.first = dec.first
         /\ dec'.allDelay = dec.allDelay
         /\ Coming = mfc.held
         /\ Coming' = Append(mfc.held, [frame |-> buf[dec.index], tag |-> dec.ti])
  <1>1. /\ UNCHANGED <<thumb, ring, buf, worker, in, ret, re, out, check, flushing, client>>
        /\ pc = "submit" /\ pc' = "posted" /\ buf[dec.index] # 0 /\ in.len # 0 /\ ~out.eos
        /\ mfc' = [mfc EXCEPT !.inTag = dec.ti, !.inBuf = dec.index, !.size = FrameSize,
                              !.sent = buf[dec.index]]
        /\ dec' = [dec EXCEPT !.ti = (@ + 1) % Ring] /\ start' = start + 1
    BY DEF Submit, data, fixed
  <1>2. mfc \in MfcType /\ dec \in DecType
    BY DEF DecInv, DecShapes, DecoderOK
  <1>3. /\ mfc'.held = mfc.held /\ mfc'.status = mfc.status /\ mfc'.tag = mfc.tag
        /\ mfc'.inTag = dec.ti /\ mfc'.inBuf = dec.index
    BY <1>1, <1>2 DEF MfcType
  <1>4. /\ dec'.ti = (dec.ti + 1) % Ring /\ dec'.index = dec.index /\ dec'.first = dec.first
        /\ dec'.exit = dec.exit /\ dec'.allDelay = dec.allDelay
    BY <1>1, <1>2 DEF DecType
  <1>5. ~DecInWork /\ DecInWork'
    BY <1>1, <1>4, DecFacts DEF DecInWork
  <1> QED BY <1>1, <1>3, <1>4, <1>5 DEF Coming, Showing

\* The places of the frames before are one further from the next one.
LEMMA OneFurther ==
  ASSUME NEW t \in Index, NEW k \in Nat, 1 <= k, k + 1 <= Ring
  PROVE  LET n == (t + 1) % Ring IN
         /\ (IF n >= 1 THEN n - 1 ELSE n - 1 + Ring) = t
         /\ k + 1 < Ring => (IF n >= k + 1 THEN n - (k + 1) ELSE n - (k + 1) + Ring)
                            = (IF t >= k THEN t - k ELSE t - k + Ring)
  <1>1. CASE t + 1 < Ring
    <2>1. (t + 1) % Ring = t + 1
      BY <1>1, DecodeAssumption DEF Index
    <2> QED BY <2>1, <1>1, DecodeAssumption DEF Index
  <1>2. CASE t + 1 = Ring
    <2>1. Ring % Ring = 0
      BY DecodeAssumption
    <2> QED BY <2>1, <1>2, DecodeAssumption DEF Index
  <1> QED BY <1>1, <1>2, DecodeAssumption DEF Index

LEMMA DecSubmit_Stamped ==
  ASSUME DecInv, DecOutShapes, Running, Sound, DecQueue, DecInput, DecOutput, Submit
  PROVE  DecQueue' /\ DecInput' /\ DecOutput'
  <1> DEFINE n == Len(mfc.held)
             x == [frame |-> buf[dec.index], tag |-> dec.ti]
  <1>a. /\ UNCHANGED <<thumb, ring, buf, worker, in, ret, re, out, check, flushing, client>>
        /\ pc = "submit" /\ pc' = "posted" /\ buf[dec.index] # 0 /\ in.len # 0 /\ ~out.eos
        /\ mfc'.held = mfc.held /\ mfc'.status = mfc.status /\ mfc'.tag = mfc.tag
        /\ ~DecInWork /\ DecInWork' /\ ~Showing'
        /\ dec'.ti = (dec.ti + 1) % Ring /\ dec'.index = dec.index /\ dec'.first = dec.first
        /\ dec'.allDelay = dec.allDelay
        /\ Coming = mfc.held /\ Coming' = Append(mfc.held, x) /\ Held' = Held
    BY Submitting DEF Held
  <1>b. /\ mfc.held \in Seq(HeldType) /\ n \in Nat /\ n <= Held /\ Held \in Nat /\ Held + 1 < Ring
        /\ dec.ti \in Index /\ x \in HeldType
    <2>1. x \in HeldType
      BY DecFacts DEF HeldType
    <2> QED BY <2>1, DecFacts, ComingIs DEF DecInv
  <1>c. /\ Len(Coming') = n + 1
        /\ \A i \in 1 .. n : Coming'[i] = Coming[i]
        /\ Coming'[n + 1] = x
    <2> HIDE DEF x
    <2> QED BY <1>a, <1>b
  <1>d. x.tag = dec.ti /\ x.frame = buf[dec.index]
    OBVIOUS
  <1> HIDE DEF x, n
  <1>e. n = Len(Coming) /\ 1 .. Len(Coming') = 1 .. n \cup {n + 1} /\ n' = n
    BY <1>a, <1>b, <1>c DEF n
  <1>1. TagsInTurn'
    <2>1. ASSUME NEW i \in 1 .. n PROVE Coming'[i].tag = Back(n + 2 - i)'
      <3>1. /\ i \in Nat /\ 1 <= i /\ i <= n /\ n + 1 - i \in Nat /\ 1 <= n + 1 - i
            /\ (n + 1 - i) + 1 < Ring /\ (n + 1 - i) + 1 = n + 2 - i
        BY <1>b, DecodeAssumption
      <3>2. Coming[i].tag = Back(n + 1 - i)
        BY <1>e DEF DecQueue, TagsInTurn
      <3>3. Back((n + 1 - i) + 1)' = Back(n + 1 - i)
        <4> DEFINE k == n + 1 - i
        <4>1. k' = k
          BY <1>e
        <4>2. k \in Nat /\ 1 <= k /\ k + 1 < Ring
          BY <3>1
        <4> HIDE DEF k
        <4>3. Back(k + 1)' = (IF dec'.ti >= k + 1 THEN dec'.ti - (k + 1) ELSE dec'.ti - (k + 1) + Ring)
          BY <4>1 DEF Back
        <4>4. Back(k) = (IF dec.ti >= k THEN dec.ti - k ELSE dec.ti - k + Ring)
          BY DEF Back
        <4>5. k + 1 <= Ring
          BY <4>2, DecodeAssumption
        <4>6. Back(k + 1)' = Back(k)
          BY <4>2, <4>3, <4>4, <4>5, <1>a, <1>b, OneFurther
        <4> QED BY <4>6 DEF k
      <3>4. (n + 2 - i)' = n + 2 - i /\ ((n + 1 - i) + 1)' = n + 2 - i
        BY <3>1, <1>e
      <3> QED BY <3>2, <3>3, <3>4, <1>c DEF Back
    <2>2. Coming'[n + 1].tag = Back(1)'
      BY <1>a, <1>b, <1>c, <1>d, OneFurther, DecodeAssumption DEF Back
    <2>3. ASSUME NEW i \in 1 .. Len(Coming') PROVE (Coming[i].tag = Back(Len(Coming) + 1 - i))'
      <3>1. CASE i \in 1 .. n
        <4>1. Len(Coming') + 1 - i = n + 2 - i
          BY <1>b, <1>c, <3>1
        <4>2. Coming'[i].tag = Back(n + 2 - i)'
          BY <2>1, <3>1
        <4> QED BY <4>1, <4>2, <1>e DEF Back
      <3>2. CASE i = n + 1
        <4>1. Len(Coming') + 1 - i = 1
          BY <1>b, <1>c, <3>2
        <4> QED BY <2>2, <3>2, <4>1 DEF Back
      <3> QED BY <1>e, <3>1, <3>2
    <2> QED BY <2>3, <1>a DEF TagsInTurn
  <1>2. Lag'
    BY <1>a DEF DecQueue, Lag
  <1>3. ring[dec.ti].stamp = in.stamp /\ ring[dec.ti].stamp # -1
    BY <1>a, DecFacts DEF DecInput, NotedOK, Noted
  <1>4. WipedFirst'
    BY <1>a, <1>c, <1>d, <1>e, <1>3, <1>b DEF DecQueue, WipedFirst, Wipe
  <1>5. NoneWiped => NoneWiped'
    BY <1>a, <1>c, <1>d, <1>e, <1>3 DEF NoneWiped, Wipe
  <1>6. ~ShowsEnd
    BY <1>a DEF DecOutput, OutFine
  <1>7. /\ \A i \in 1 .. n : EndsBy(i)' <=> EndsBy(i)
        /\ EndsBy(n) \/ ring[dec.ti].eos => EndsBy(n + 1)'
        /\ EndsBy(n + 1)' => EndsBy(n) \/ ring[dec.ti].eos
    BY <1>a, <1>b, <1>c, <1>d, <1>e DEF EndsBy
  <1>8. EndQueued' <=> EndQueued \/ ring[dec.ti].eos
    BY <1>a, <1>c, <1>e, <1>6, <1>7 DEF EndQueued, ShowsEnd
  <1>9. NothingPasses' <=> NothingPasses
    BY <1>a DEF NothingPasses
  <1>10. ~client.ended => in.stamp = buf[dec.index] /\ ~ring[dec.ti].eos
    BY <1>a, DecFacts DEF DecInput, NotedOK, Noted
  <1>11. client.ended => EndQueued' \/ NothingPasses
    BY <1>a, <1>8 DEF DecInput, EndKnown, ToSubmit
  <1>12. NothingPasses \/ AllStamped'
    <2> SUFFICES ASSUME ~NothingPasses PROVE AllStamped'
      OBVIOUS
    <2>1. AllStamped
      BY <1>6 DEF DecQueue
    <2>2. ASSUME NEW i \in 1 .. n
          PROVE  OwnStamp(Coming[i].frame, Coming[i].tag)' \/ EndsBy(i)'
      BY <2>1, <1>a, <1>c, <1>e, <1>7 DEF AllStamped, OwnStamp
    <2>3. OwnStamp(Coming[n + 1].frame, Coming[n + 1].tag)' \/ EndsBy(n + 1)'
      <3>1. CASE client.ended
        BY <3>1, <1>11, <1>a, <1>c, <1>e, <1>8, <1>7, <1>6 DEF EndQueued
      <3>2. CASE ~client.ended
        <4>1. x.frame = in.stamp /\ ring'[x.tag].stamp = in.stamp
          BY <3>2, <1>10, <1>3, <1>a, <1>d
        <4>2. Coming'[n' + 1] = x
          BY <1>c, <1>e
        <4> QED BY <4>1, <4>2 DEF OwnStamp
      <3> QED BY <3>1, <3>2
    <2> QED BY <1>a, <1>e, <2>2, <2>3 DEF AllStamped
  <1>13. DecQueue'
    BY <1>1, <1>2, <1>4, <1>9, <1>12 DEF DecQueue
  <1>14. EndKnown' /\ NotedOK'
    BY <1>a, <1>8, <1>9, DecFacts DEF DecInput, EndKnown, NotedOK, Noted, ToSubmit
  <1>15. Drains' /\ BothFilled'
    BY <1>a, <1>9, <1>11 DEF DecInput, Drains, BothFilled, ToSubmit
  <1>16. OldHeldBack'
    BY <1>a, <1>5 DEF DecOutput, OldHeldBack, CodecFull, OutAway, DecQueue, Lag
  <1>17. OutFine'
    BY <1>a, <1>9 DEF DecOutput, OutFine, OutAway
  <1> QED BY <1>13, <1>14, <1>15, <1>16, <1>17 DEF DecInput, DecOutput

\* A good decode: the first of those to come is shown, if the codec holds as many as it may.
LEMMA Deciding ==
  ASSUME DecInv, DecOutShapes, Running, Sound, DecQueue, Exe, Sound'
  PROVE  /\ UNCHANGED <<thumb, ring, buf, pc, in, ret, re, out, check, flushing, client>>
         /\ dec'.ti = dec.ti /\ dec'.index = dec.index /\ dec'.first = dec.first
         /\ dec'.allDelay = dec.allDelay
         /\ DecInWork /\ ~DecInWork' /\ ~Showing /\ Len(Coming) = Len(mfc.held) + 1
         /\ \/ /\ Coming' = Coming /\ Len(mfc.held) < Held
               /\ mfc'.held = Coming /\ mfc'.status = "decoding" /\ mfc'.tag = -1
            \/ /\ Coming' = Tail(Coming) /\ Len(mfc.held) = Held
               /\ mfc'.held = Tail(Coming) /\ mfc'.status = "display"
               /\ mfc'.frame = Coming[1].frame /\ mfc'.tag = Coming[1].tag
  <1>1. /\ UNCHANGED <<thumb, ring, buf, pc, in, ret, re, out, check, flushing, client, start>>
        /\ worker = "exe" /\ end' = end + 1 /\ worker' = (IF dec.exit THEN "gone" ELSE "wait")
        /\ dec' = [dec EXCEPT !.code = "ok"] /\ mfc' = Decoded
    <2>1. PICK ok \in BOOLEAN :
            /\ mfc' = IF ok THEN Decoded ELSE mfc
            /\ dec' = [dec EXCEPT !.code = IF ok THEN "ok" ELSE "error"]
            /\ errors' = errors + (IF ok THEN 0 ELSE 1)
      BY DEF Exe
    <2>2. ok
      BY <2>1 DEF Sound
    <2> QED BY <2>1, <2>2 DEF Exe, fixed, stream, data
  <1>2. mfc \in MfcType /\ dec \in DecType
    BY DEF DecInv, DecShapes, DecoderOK
  <1>3. /\ dec'.ti = dec.ti /\ dec'.index = dec.index /\ dec'.first = dec.first
        /\ dec'.exit = dec.exit /\ dec'.allDelay = dec.allDelay
    BY <1>1, <1>2 DEF DecType
  <1>4. DecInWork /\ start = 0
    <2>1. start + end + (IF worker = "exe" THEN 1 ELSE 0) <= 1
      BY DecFacts, <1>2 DEF DecInv, DecControl, DecOneAtATime, DecUnderway, Sound, DecType
    <2> QED BY <1>1, <2>1, DecFacts DEF DecInWork, DecInv, DecShapes, DecCountersOK
  <1>5. ~DecInWork' /\ ~Showing
    BY <1>1, <1>4 DEF DecInWork, Showing
  <1>6. Coming = Append(mfc.held, [frame |-> buf[mfc.inBuf], tag |-> mfc.inTag])
    BY <1>4 DEF Coming
  <1>7. Coming' = mfc'.held
    BY <1>5 DEF Coming
  <1>8. /\ Len(Coming) = Len(mfc.held) + 1 /\ Coming \in Seq(HeldType) /\ Len(mfc.held) <= Held
        /\ Len(mfc.held) \in Nat /\ Held \in Nat
    BY <1>4, ComingIs DEF DecInv
  <1>9. mfc' = IF Len(Coming) > Held
               THEN [mfc EXCEPT !.held = Tail(Coming), !.status = "display",
                                !.frame = Head(Coming).frame, !.tag = Head(Coming).tag]
               ELSE [mfc EXCEPT !.held = Coming, !.status = "decoding", !.frame = 0, !.tag = -1]
    BY <1>1, <1>6 DEF Decoded
  <1>10. Head(Coming) = Coming[1]
    BY <1>8
  <1>11. CASE Len(Coming) > Held
    <2>1. /\ mfc'.held = Tail(Coming) /\ mfc'.status = "display"
          /\ mfc'.frame = Coming[1].frame /\ mfc'.tag = Coming[1].tag
      BY <1>9, <1>10, <1>11, <1>2 DEF MfcType
    <2>2. Len(mfc.held) = Held
      BY <1>8, <1>11
    <2> QED BY <1>1, <1>3, <1>4, <1>5, <1>7, <1>8, <2>1, <2>2
  <1>12. CASE ~(Len(Coming) > Held)
    <2>1. /\ mfc'.held = Coming /\ mfc'.status = "decoding" /\ mfc'.tag = -1
      BY <1>9, <1>12, <1>2 DEF MfcType
    <2>2. Len(mfc.held) < Held
      BY <1>8, <1>12
    <2> QED BY <1>1, <1>3, <1>4, <1>5, <1>7, <1>8, <2>1, <2>2
  <1> QED BY <1>11, <1>12

LEMMA DecExe_Stamped ==
  ASSUME DecInv, DecOutShapes, Running, Sound, DecQueue, DecInput, DecOutput, Exe, Sound'
  PROVE  DecQueue' /\ DecInput' /\ DecOutput'
  <1> DEFINE m == Len(mfc.held)
  <1>a. /\ UNCHANGED <<thumb, ring, buf, pc, in, ret, re, out, check, flushing, client>>
        /\ dec'.ti = dec.ti /\ dec'.index = dec.index /\ dec'.first = dec.first
        /\ dec'.allDelay = dec.allDelay
        /\ DecInWork /\ ~DecInWork' /\ ~Showing /\ Held' = Held
    BY Deciding DEF Held
  <1>b. /\ Coming \in Seq(HeldType) /\ m \in Nat /\ m <= Held /\ Held \in Nat /\ Len(Coming) = m + 1
    BY <1>a, ComingIs DEF DecInv
  <1>c. \/ /\ Coming' = Coming /\ m < Held
           /\ mfc'.held = Coming /\ mfc'.status = "decoding" /\ mfc'.tag = -1
        \/ /\ Coming' = Tail(Coming) /\ m = Held
           /\ mfc'.held = Tail(Coming) /\ mfc'.status = "display"
           /\ mfc'.frame = Coming[1].frame /\ mfc'.tag = Coming[1].tag
    BY Deciding
  <1>d. /\ Len(Tail(Coming)) = m
        /\ \A i \in 1 .. m : Tail(Coming)[i] = Coming[i + 1]
    BY <1>b
  <1> HIDE DEF m
  <1>1. CASE Coming' = Coming
    <2>1. /\ ~Showing' /\ mfc'.status = "decoding" /\ mfc'.tag = -1 /\ ~CodecFull
      <3>1. mfc'.status = "decoding" /\ mfc'.tag = -1 /\ m < Held
        <4>1. Coming # Tail(Coming)
          BY <1>b, <1>d
        <4> QED BY <1>1, <1>c, <4>1
      <3> QED BY <3>1, <1>b DEF Showing, CodecFull, m
    <2>2. TagsInTurn' /\ Lag'
      BY <2>1, <1>1, <1>a DEF DecQueue, TagsInTurn, Lag, Back
    <2>3. /\ WipedFirst' /\ (NoneWiped => NoneWiped')
      BY <2>1, <1>1, <1>a DEF DecQueue, WipedFirst, NoneWiped, Wipe
    <2>4. (EndQueued' <=> EndQueued) /\ (AllStamped => AllStamped')
      BY <2>1, <1>1, <1>a DEF EndQueued, EndsBy, ShowsEnd, AllStamped, OwnStamp
    <2>5. DecQueue'
      BY <2>2, <2>3, <2>4, <1>a DEF DecQueue, NothingPasses, ShowsEnd
    <2>6. EndKnown' /\ NotedOK' /\ BothFilled'
      BY <2>4, <1>a DEF DecInput, EndKnown, NotedOK, Noted, BothFilled, ToSubmit, NothingPasses
    <2>7. Drains'
      BY <2>4, <1>a, <1>1, <2>1 DEF DecInput, Drains, NothingPasses
    <2>8. OldHeldBack'
      BY <2>3, <2>1, <1>a DEF DecOutput, OldHeldBack, OutAway
    <2>9. OutFine'
      BY <2>1, <1>a DEF DecOutput, OutFine, OutAway, NothingPasses, ShowsEnd
    <2> QED BY <2>5, <2>6, <2>7, <2>8, <2>9 DEF DecInput, DecOutput
  <1>2. CASE Coming' # Coming
    <2>1. /\ Coming' = Tail(Coming) /\ m = Held /\ mfc'.held = Tail(Coming)
          /\ mfc'.status = "display" /\ Showing'
          /\ mfc'.frame = Coming[1].frame /\ mfc'.tag = Coming[1].tag
      BY <1>2, <1>c, <1>a DEF Showing
    <2>2. /\ Len(Coming') = m
          /\ \A i \in 1 .. m : Coming'[i] = Coming[i + 1] /\ i + 1 \in 1 .. m + 1
          /\ \A i \in 1 .. m + 1 : i = 1 \/ (i - 1 \in 1 .. m /\ Coming'[i - 1] = Coming[i])
          /\ 1 \in 1 .. m + 1
      <3>1. ASSUME NEW i \in 1 .. m + 1, i # 1 PROVE i - 1 \in 1 .. m /\ Coming'[i - 1] = Coming[i]
        <4>1. i - 1 \in 1 .. m /\ (i - 1) + 1 = i
          BY <1>b, <3>1
        <4> QED BY <4>1, <1>d, <2>1
      <3> QED BY <3>1, <1>b, <1>d, <2>1
    <2>3. TagsInTurn'
      <3>1. Coming[1].tag = Back(Held + 1)
        BY <1>b, <2>1, <2>2 DEF DecQueue, TagsInTurn
      <3>2. ASSUME NEW i \in 1 .. m PROVE (Coming[i].tag = Back(Len(Coming) + 1 - i))'
        <4>1. Coming[i + 1].tag = Back((m + 1) + 1 - (i + 1))
          BY <1>b, <2>2 DEF DecQueue, TagsInTurn
        <4>2. (m + 1) + 1 - (i + 1) = m + 1 - i
          BY <1>b
        <4> QED BY <4>1, <4>2, <2>2, <1>a DEF Back
      <3> QED BY <3>1, <3>2, <2>1, <2>2, <1>a DEF TagsInTurn, Back
    <2>4. Lag'
      BY <1>a, <2>1, <2>2 DEF Lag
    <2>5. NoneWiped => NoneWiped'
      BY <1>a, <1>b, <2>1, <2>2 DEF NoneWiped, Wipe
    <2>6. WipedFirst'
      <3>1. \A i, j \in 1 .. m + 1 : i < j /\ ~Wipe(Coming[i].tag) => ~Wipe(Coming[j].tag)
        BY <1>b DEF DecQueue, WipedFirst
      <3>2. \A t \in Index : Wipe(t)' <=> Wipe(t)
        BY <1>a DEF Wipe
      <3>3. \A i \in 1 .. m + 1 : Coming[i].tag \in Index
        BY <1>b, ComingIs DEF DecInv
      <3>4. ASSUME NEW i \in 1 .. m, NEW j \in 1 .. m, i < j, ~Wipe(Coming[i + 1].tag)
            PROVE  ~Wipe(Coming[j + 1].tag)
        <4>1. i + 1 \in 1 .. m + 1 /\ j + 1 \in 1 .. m + 1 /\ i + 1 < j + 1
          BY <1>b, <3>4
        <4> QED BY <3>1, <3>4, <4>1
      <3>5. ASSUME NEW j \in 1 .. m, ~Wipe(Coming[1].tag) PROVE ~Wipe(Coming[j + 1].tag)
        <4>1. 1 \in 1 .. m + 1 /\ j + 1 \in 1 .. m + 1 /\ 1 < j + 1
          BY <1>b
        <4> QED BY <3>1, <3>5, <4>1
      <3>6. \A i \in 1 .. m : Wipe(Coming[i].tag)' <=> Wipe(Coming[i + 1].tag)
        BY <1>a, <2>2 DEF Wipe
      <3>7. Wipe(mfc.tag)' <=> Wipe(Coming[1].tag)
        BY <1>a, <2>1 DEF Wipe
      <3> QED BY <2>2, <3>4, <3>5, <3>6, <3>7 DEF WipedFirst, NoneWiped
    <2>7. /\ EndQueued' <=> EndQueued
          /\ ShowsEnd' <=> ring[Coming[1].tag].eos
      <3>1. ShowsEnd' <=> ring[Coming[1].tag].eos
        BY <1>a, <2>1 DEF ShowsEnd
      <3>2. EndQueued <=> \E j \in 1 .. m + 1 : ring[Coming[j].tag].eos
        BY <1>a, <1>b DEF EndQueued, ShowsEnd, EndsBy
      <3>3. EndQueued' <=> ring[Coming[1].tag].eos \/ \E j \in 1 .. m : ring[Coming'[j].tag].eos
        BY <1>a, <2>2, <3>1 DEF EndQueued, EndsBy
      <3> QED BY <3>1, <3>2, <3>3, <2>2
    <2>8. NothingPasses \/ ShowsEnd' \/ AllStamped'
      <3> SUFFICES ASSUME ~NothingPasses, ~ShowsEnd' PROVE AllStamped'
        OBVIOUS
      <3>1. \A i \in 1 .. m + 1 : OwnStamp(Coming[i].frame, Coming[i].tag) \/ EndsBy(i)
        BY <1>a, <1>b DEF DecQueue, AllStamped, ShowsEnd
      <3>2. ~EndsBy(1)
        BY <2>7 DEF EndsBy
      <3>3. OwnStamp(mfc.frame, mfc.tag)'
        BY <3>1, <3>2, <2>1, <2>2, <1>a DEF OwnStamp
      <3>4. ASSUME NEW i \in 1 .. m PROVE (OwnStamp(Coming[i].frame, Coming[i].tag) \/ EndsBy(i))'
        <4>1. i + 1 \in 1 .. m + 1 /\ Coming'[i] = Coming[i + 1]
          BY <2>2
        <4>2. EndsBy(i + 1) => EndsBy(i)'
          <5> SUFFICES ASSUME NEW j \in 1 .. i + 1, ring[Coming[j].tag].eos PROVE EndsBy(i)'
            BY DEF EndsBy
          <5>1. j # 1 /\ j \in 1 .. m + 1 /\ j - 1 \in 1 .. i
            BY <2>7, <1>b
          <5>2. Coming'[j - 1] = Coming[j]
            BY <5>1, <2>2
          <5>3. (ring[Coming[j - 1].tag].eos)'
            BY <5>2, <1>a
          <5> QED BY <5>1, <5>3 DEF EndsBy
        <4>3. OwnStamp(Coming[i + 1].frame, Coming[i + 1].tag) =>
                OwnStamp(Coming[i].frame, Coming[i].tag)'
          BY <4>1, <1>a DEF OwnStamp
        <4> QED BY <3>1, <4>1, <4>2, <4>3
      <3> QED BY <3>3, <3>4, <2>2 DEF AllStamped
    <2>9. DecQueue'
      BY <2>3, <2>4, <2>6, <2>8, <1>a DEF DecQueue, NothingPasses
    <2>10. EndKnown' /\ NotedOK' /\ BothFilled'
      BY <2>7, <1>a DEF DecInput, EndKnown, NotedOK, Noted, BothFilled, ToSubmit, NothingPasses
    <2>11. Drains'
      BY <2>7, <1>a, <2>1 DEF DecInput, Drains, NothingPasses
    <2>12. CodecFull'
      BY <2>1, <2>2, <1>a DEF CodecFull
    <2>13. OldHeldBack'
      BY <2>5, <2>12, <1>a DEF DecOutput, OldHeldBack, OutAway
    <2>14. pc # "submit"
      BY <1>a, DecFacts
    <2>15. OutFine'
      BY <2>1, <2>14, <1>a DEF DecOutput, OutFine, OutAway, NothingPasses, ShowsEnd
    <2> QED BY <2>9, <2>10, <2>11, <2>13, <2>15 DEF DecInput, DecOutput
  <1> QED BY <1>1, <1>2

\* A stream does not become sound again, and a decoder that was left is not taken up.
LEMMA DecStaysSound ==
  ASSUME DecInv, Next, Sound' PROVE Sound /\ (Running' => Running)
  <1>1. errors \in Nat
    BY DEF DecInv, DecShapes, DecCountersOK
  <1>2. Sound
    <2>1. errors' = errors \/ (\E ok \in BOOLEAN : errors' = errors + (IF ok THEN 0 ELSE 1))
      BY DEF Next, Call, DecodeThread, Feed, Again, ConfigureH264, ConfigureMpeg4, Configured,
             NothingToDecode, Look, WaitDone, Read, Submit, SkipSubmit, Posted, Deliver, Take, Exe,
             Flush, FlushResets, Terminate, Joined
    <2> QED BY <1>1, <2>1 DEF Sound
  <1>3. Running' => Running
    BY DEF Next, Call, DecodeThread, Feed, Again, ConfigureH264, ConfigureMpeg4, Configured,
           NothingToDecode, Look, WaitDone, Read, Submit, SkipSubmit, Posted, Deliver, Take, Exe,
           Flush, FlushResets, Terminate, Joined, Returns, Running
  <1> QED BY <1>2, <1>3

LEMMA DecNextStamped ==
  ASSUME DecInv, DecOutShapes, Running, Sound, DecQueue, DecInput, DecOutput, Next, Running', Sound'
  PROVE  DecQueue' /\ DecInput' /\ DecOutput'
  <1>1. ~Terminate /\ ~Joined
    BY DEF Terminate, Joined, Running
  <1> QED BY <1>1, DecFeed_Stamped, DecAgain_Stamped, DecConfigure_Stamped, DecNothingToDecode_Stamped,
             DecLook_Stamped, DecWaitDone_Stamped, DecRead_Stamped, DecSubmit_Stamped,
             DecSkipSubmit_Stamped, DecPosted_Stamped, DecDeliver_Stamped, DecTake_Stamped,
             DecExe_Stamped, DecFlush_Stamped, DecFlushResets_Stamped
          DEF Next, Call, DecodeThread

\* What the client gets.
LEMMA DecNextShown ==
  ASSUME DecInv, DecOutShapes, Running /\ Sound => DecInput /\ DecOutput, StampOfItsFrame, Next
  PROVE  StampOfItsFrame'
  <1> SUFFICES ASSUME Sound', client'.full
               PROVE  \A i \in DOMAIN client'.shown : client'.shown[i].stamp = client'.shown[i].frame
    BY DEF StampOfItsFrame
  <1>1. Sound
    BY DecStaysSound
  <1>2. DOMAIN client = {"sent", "ended", "bare", "since", "full", "shown", "eos"}
    BY DEF DecInv, DecShapes, FeedOK
  <1>3. CASE ~Deliver /\ ~FlushResets
    <2>1. client'.shown = client.shown /\ client'.full = client.full
      BY <1>2, <1>3
         DEF Next, Call, DecodeThread, Feed, Again, ConfigureH264, ConfigureMpeg4, Configured,
             NothingToDecode, Look, WaitDone, Read, Submit, SkipSubmit, Posted, Take, Exe,
             Flush, Terminate, Joined
    <2> QED BY <2>1, <1>1 DEF StampOfItsFrame
  <1>4. CASE FlushResets
    <2>1. client'.shown = << >>
      BY <1>2, <1>4 DEF FlushResets
    <2> QED BY <2>1
  <1>5. CASE Deliver
    <2>1. /\ client'.full = client.full /\ pc = "deliver"
          /\ \/ client'.shown = client.shown
             \/ /\ client'.shown = Append(client.shown, [frame |-> out.frame, stamp |-> out.stamp])
                /\ Passes /\ out.frame # 0
      BY <1>2, <1>5 DEF Deliver
    <2>2. DecInput /\ DecOutput
      BY <1>1, <2>1 DEF Running
    <2>3. \A i \in DOMAIN client.shown : client.shown[i].stamp = client.shown[i].frame
      BY <1>1, <2>1 DEF StampOfItsFrame
    <2>4. CASE client'.shown = client.shown
      BY <2>3, <2>4
    <2>5. CASE client'.shown # client.shown
      <3>1. out.stamp = out.frame
        BY <2>1, <2>2, <2>5 DEF DecOutput, OutFine, OldHeldBack, Passes, Matches, NothingPasses
      <3> DEFINE x == [frame |-> out.frame, stamp |-> out.stamp]
      <3>2. x.stamp = x.frame /\ x \in ShownType /\ client.shown \in Seq(ShownType)
        BY <3>1 DEF DecOutShapes, ShownType
      <3>3. client'.shown = Append(client.shown, x)
        BY <2>1, <2>5
      <3> HIDE DEF x
      <3>4. /\ DOMAIN client'.shown = 1 .. Len(client.shown) + 1 /\ Len(client.shown) \in Nat
            /\ \A i \in 1 .. Len(client.shown) : client'.shown[i] = client.shown[i]
            /\ client'.shown[Len(client.shown) + 1] = x
            /\ DOMAIN client.shown = 1 .. Len(client.shown)
        BY <3>2, <3>3
      <3>5. 1 .. Len(client.shown) + 1 = 1 .. Len(client.shown) \cup {Len(client.shown) + 1}
        BY <3>4
      <3> QED BY <2>3, <3>2, <3>4, <3>5
    <2> QED BY <2>4, <2>5
  <1> QED BY <1>3, <1>4, <1>5

\* With the invariant of the thread and the buffers, it is inductive.
StampInv == DecInv /\ DecOutShapes /\ DecStamped

LEMMA StampInit == Init => StampInv
  <1> SUFFICES ASSUME Init PROVE StampInv
    OBVIOUS
  <1>1. DecInv
    BY DecInitInv
  <1>2. DecOutShapes
    <2>1. Wiped \in [stamp : Int, eos : BOOLEAN] /\ 0 .. Ring - 1 = Index
      BY DEF Wiped, Index
    <2>2. << >> \in Seq(ShownType)
      OBVIOUS
    <2> QED BY <2>1, <2>2 DEF Init, DecOutShapes, NoOut, NoCheck
  <1>3. ~DecInWork /\ Coming = << >> /\ ~Showing /\ Len(Coming) = 0 /\ 1 .. Len(Coming) = {}
    <2>1. ~DecInWork
      BY DEF Init, DecInWork
    <2> QED BY <2>1 DEF Init, Coming, Showing
  <1>4. DecQueue
    BY <1>3 DEF Init, DecQueue, TagsInTurn, Lag, WipedFirst, AllStamped
  <1>5. ~EndQueued /\ NoneWiped
    BY <1>3 DEF EndQueued, EndsBy, ShowsEnd, NoneWiped
  <1>6. DecInput
    BY <1>3, <1>5 DEF Init, DecInput, EndKnown, NotedOK, Drains, BothFilled, NothingPasses, ToSubmit,
                      Noted, NoData, NoCheck
  <1>7. DecOutput
    BY <1>5 DEF Init, DecOutput, OldHeldBack, OutFine, OutAway, NoOut, NoCheck
  <1>8. StampOfItsFrame
    BY DEF Init, StampOfItsFrame
  <1> QED BY <1>1, <1>2, <1>4, <1>6, <1>7, <1>8 DEF StampInv, DecStamped

LEMMA StampNext == StampInv /\ [Next]_vars => StampInv'
  <1> SUFFICES ASSUME StampInv, [Next]_vars PROVE StampInv'
    OBVIOUS
  <1>1. DecInv'
    BY DecNextInv DEF StampInv
  <1>2. CASE Next
    <2>1. DecOutShapes'
      BY <1>2, DecOutTypes DEF StampInv, DecInv
    <2>2. Running' /\ Sound' => (DecQueue /\ DecInput /\ DecOutput)'
      BY <1>2, DecStaysSound, DecNextStamped DEF StampInv, DecStamped
    <2>3. StampOfItsFrame'
      BY <1>2, DecNextShown DEF StampInv, DecStamped
    <2> QED BY <1>1, <2>1, <2>2, <2>3 DEF StampInv, DecStamped
  <1>3. CASE UNCHANGED vars
    <2>1. UNCHANGED <<codec, thumb, dec, ring, buf, size, start, end, worker, mfc, pc, in, out, ret, re,
                      check, flushing, client, errors>>
      BY <1>3 DEF vars, fixed, stream, sems, data
    <2>2. DecOutShapes' /\ (StampOfItsFrame => StampOfItsFrame') /\ (Running' <=> Running)
          /\ (Sound' <=> Sound)
      BY <2>1 DEF StampInv, DecOutShapes, StampOfItsFrame, Running, Sound
    <2>3. DecQueue => DecQueue'
      <3>1. DecInWork' <=> DecInWork
        BY <2>1 DEF DecInWork
      <3>2. /\ \A i \in 1 .. Len(Coming) : ring'[Coming[i].tag] = ring[Coming[i].tag]
            /\ Showing => ring'[mfc.tag] = ring[mfc.tag]
            /\ DecInWork => buf'[mfc.inBuf] = buf[mfc.inBuf]
        BY <2>1
      <3> QED BY <2>1, <3>1, <3>2, QueueKept DEF DecQueue, NothingPasses
    <2>4. (EndQueued' <=> EndQueued) /\ (ShowsEnd' <=> ShowsEnd) /\ (NoneWiped' <=> NoneWiped)
          /\ (CodecFull' <=> CodecFull) /\ (DecInWork' <=> DecInWork) /\ Coming' = Coming
      BY <2>1 DEF EndQueued, ShowsEnd, NoneWiped, CodecFull, DecInWork, Coming, Showing, EndsBy, Wipe,
                  Held
    <2>5. DecInput => DecInput'
      BY <2>1, <2>4 DEF DecInput, EndKnown, NotedOK, Drains, BothFilled, NothingPasses, ToSubmit, Noted
    <2>6. DecOutput => DecOutput'
      BY <2>1, <2>4 DEF DecOutput, OldHeldBack, OutFine, OutAway, NothingPasses, NoOut
    <2> QED BY <1>1, <2>2, <2>3, <2>5, <2>6 DEF StampInv, DecStamped
  <1> QED BY <1>2, <1>3

-----------------------------------------------------------------------------

\* The order of the frames.  What the client was not shown yet, in the order in which it
\* will be: the frame on show until the call has read it, and those to come.
Unseen == Showing /\ pc # "submit"
Line == IF Unseen THEN <<[frame |-> mfc.frame, tag |-> mfc.tag]>> \o Coming ELSE Coming
\* The number of the last frame the client was shown, with the one on its way out.
OnItsWay == OutAway /\ out.frame # 0 /\ out.stamp # -1
Went == From + Len(client.shown) + (IF OnItsWay THEN 1 ELSE 0)
\* The last one it will be shown of those submitted: the one with the end flag is not.
Last ==
  IF client.ended THEN IF client.bare THEN client.sent ELSE client.sent - 1
  ELSE IF ToSubmit THEN client.sent - 1 ELSE client.sent
Live == ~client.ended \/ EndQueued \/ ToSubmit
\* w frames from before the flush, then up to c those the client is to see, then the end
EndAt(i) == ring[Line[i].tag].eos
WipedAt(i) == ring[Line[i].tag].stamp = -1
Lined(w, c) ==
  /\ \A i \in 1 .. Len(Line) : WipedAt(i) <=> i <= w
  /\ \A i \in 1 .. c : ~EndAt(i)
  /\ c < Len(Line) => EndAt(c + 1)
  /\ \A i \in w + 1 .. c : Line[i].frame = Went + (i - w)
  /\ w > 0 => Went = client.since
  /\ Live => Went + (c - w) = Last
InLine == \E c \in 0 .. Len(Line) : \E w \in 0 .. c : Lined(w, c)
\* From a flush until its first frame goes out, or its end, nothing is claimed of the order.
Normal == ~flushing /\ ~check.set /\ ~NothingPasses
InOrder ==
  dec.conf /\ Normal =>
    /\ ~ShowsEnd => InLine
    /\ ShowsEnd => Went = Last
    /\ OnItsWay => out.frame = Went

\* What the call is about to return is what it asks for again; nothing is asked for twice.
Asked == IF pc = "deliver" THEN ret = "yet" ELSE re
Handing ==
  /\ pc = "deliver" => (in.len # 0 => ret = "yet")
  /\ Asked => dec.conf
  /\ client.sent = 0 => in.len = 0 /\ in.prev = 0 /\ dec.first
  /\ pc = "posted" => ~out.eos /\ (~dec.first => ~in.eos) /\ (ret = "yet" => ~dec.first)
\* Before the header was read, and before the first frame is with the codec.
BeforeConfig ==
  ~dec.conf =>
    /\ ~check.set /\ ~check.on
    /\ pc = "call" /\ ~EmptyEos /\ ~flushing =>
         /\ in.len # 0 /\ client.sent = 1 /\ (client.ended => ~client.bare)
         /\ ~client.ended => in.len = 1 /\ buf[dec.index] = 1
    /\ pc = "idle" /\ ~client.ended => client.sent = 0 /\ in.len = 0
    /\ pc \notin {"call", "idle"} => client.ended
BeforeFirst ==
  dec.first =>
    /\ client.since = 0 /\ client.shown = << >> /\ out.frame = 0
    /\ dec.conf /\ pc # "posted" /\ ~flushing => client.ended \/ ToSubmit \/ client.sent = 1
\* From the flush until the check lets a frame out, the client has nothing and the codec
\* shows a frame each time.
AfterFlush ==
  /\ check.set \/ check.on => CodecFull /\ client.since > 0 /\ client.shown = << >>
  /\ check.set =>
       /\ client.sent = client.since
       /\ \A i \in 1 .. Len(Coming) : Wipe(Coming[i].tag)
       /\ Showing => Wipe(mfc.tag)
  /\ check.on => IF check.eos THEN client.sent = client.since + (IF client.bare THEN 0 ELSE 1)
                 ELSE check.stamp = client.since + 1
\* The input is the frame sent last; in the drain there is always a frame to submit.
InputInTurn ==
  /\ in.eos /\ pc # "posted" => ~EndQueued
  /\ dec.conf /\ Normal =>
       /\ pc \in {"call", "wait", "read", "submit"} \/ Asked => in.len # 0
       /\ ~client.ended /\ in.len = 0 => in.prev # 0
       /\ ~client.ended /\ ToSubmit => buf[dec.index] = client.sent
       /\ client.ended /\ ToSubmit /\ ~dec.first =>
            \/ ShowsEnd
            \/ IF pc = "submit" THEN dec.allDelay /\ (Showing => ret = "yet")
                                     /\ (ret = "yet" => buf[dec.index] # 0)
               ELSE (in.eos \/ dec.allDelay) /\ buf[Other(dec.index)] # 0
       /\ pc = "posted" /\ ret = "yet" => ShowsEnd \/ dec.allDelay
\* The end goes out last.
EosOut ==
  /\ client.eos => pc = "idle" /\ ~Asked /\ client.ended /\ in.len = 0
  /\ out.eos => check.set \/ (ret = "none" /\ client.ended)
  /\ out.eos /\ dec.first /\ dec.conf => ~client.bare
Ordered == BeforeConfig /\ BeforeFirst /\ AfterFlush /\ InputInTurn /\ InOrder /\ EosOut
FullStream == client.full /\ ~thumb
Steady == DecInv /\ DecOutShapes /\ Running /\ Sound /\ DecQueue /\ DecInput /\ DecOutput /\ Handing
DecOrdered ==
  /\ Running /\ Sound => Handing /\ (FullStream => Ordered)
  /\ ShownInOrder /\ EosAfterAll

\* What the line is made of.
LEMMA LineIs ==
  ASSUME DecShapes, TagsInTurn
  PROVE  /\ Line \in Seq(HeldType) /\ Len(Line) \in Nat /\ Len(Coming) \in Nat
         /\ Unseen => /\ Len(Line) = Len(Coming) + 1
                      /\ Line[1] = [frame |-> mfc.frame, tag |-> mfc.tag]
                      /\ \A i \in 1 .. Len(Coming) : Line[i + 1] = Coming[i]
         /\ ~Unseen => Line = Coming
         /\ \A i \in 1 .. Len(Line) :
              \/ Unseen /\ Line[i].tag = mfc.tag
              \/ \E j \in 1 .. Len(Coming) : Line[i] = Coming[j]
  <1>1. Coming \in Seq(HeldType) /\ Len(Coming) \in Nat
    BY ComingIs
  <1>2. CASE Unseen
    <2> DEFINE x == [frame |-> mfc.frame, tag |-> mfc.tag]
    <2>1. x \in HeldType /\ x.tag = mfc.tag
      BY <1>2, TagsElsewhere DEF Unseen, DecShapes, DecoderOK, MfcType, HeldType
    <2>2. Line = <<x>> \o Coming
      BY <1>2 DEF Line
    <2> HIDE DEF x
    <2>3. /\ Line \in Seq(HeldType) /\ Len(Line) = Len(Coming) + 1 /\ Line[1] = x
          /\ \A i \in 1 .. Len(Coming) : Line[i + 1] = Coming[i]
      BY <1>1, <2>1, <2>2
    <2>4. ASSUME NEW i \in 1 .. Len(Line)
          PROVE  Line[i].tag = mfc.tag \/ \E j \in 1 .. Len(Coming) : Line[i] = Coming[j]
      <3>1. CASE i = 1
        BY <2>1, <2>3, <3>1
      <3>2. CASE i # 1
        <4>1. i - 1 \in 1 .. Len(Coming) /\ (i - 1) + 1 = i
          BY <1>1, <2>3, <3>2
        <4> QED BY <2>3, <4>1
      <3> QED BY <3>1, <3>2
    <2>5. x = [frame |-> mfc.frame, tag |-> mfc.tag]
      BY DEF x
    <2> QED BY <1>1, <1>2, <2>3, <2>4, <2>5
  <1>3. CASE ~Unseen
    BY <1>1, <1>3 DEF Line
  <1> QED BY <1>2, <1>3

\* The end is queued if it is in the line.
LEMMA EndInLine ==
  ASSUME DecShapes, TagsInTurn
  PROVE  /\ \A i \in 1 .. Len(Line) : EndAt(i) => EndQueued
         /\ EndQueued /\ ~ShowsEnd => \E i \in 1 .. Len(Line) : EndAt(i)
         /\ Unseen => (EndAt(1) <=> ShowsEnd)
  <1>1. ASSUME NEW i \in 1 .. Len(Line), EndAt(i) PROVE EndQueued
    <2>1. CASE Unseen /\ Line[i].tag = mfc.tag
      BY <1>1, <2>1 DEF EndAt, EndQueued, ShowsEnd, Unseen
    <2>2. CASE \E j \in 1 .. Len(Coming) : Line[i] = Coming[j]
      <3>1. PICK j \in 1 .. Len(Coming) : Line[i] = Coming[j]
        BY <2>2
      <3>2. ring[Coming[j].tag].eos
        BY <1>1, <3>1 DEF EndAt
      <3> QED BY <3>2 DEF EndQueued, EndsBy
    <2> QED BY <2>1, <2>2, LineIs
  <1>2. ASSUME EndQueued, ~ShowsEnd PROVE \E i \in 1 .. Len(Line) : EndAt(i)
    <2>1. PICK j \in 1 .. Len(Coming) : ring[Coming[j].tag].eos
      BY <1>2 DEF EndQueued, EndsBy
    <2>2. CASE Unseen
      <3>1. j + 1 \in 1 .. Len(Line) /\ Line[j + 1] = Coming[j]
        BY <2>2, LineIs
      <3> QED BY <2>1, <3>1 DEF EndAt
    <2>3. CASE ~Unseen
      BY <2>1, <2>3, LineIs DEF EndAt
    <2> QED BY <2>2, <2>3
  <1>3. ASSUME Unseen PROVE EndAt(1) <=> ShowsEnd
    <2>1. Line[1].tag = mfc.tag
      BY <1>3, LineIs
    <2> QED BY <1>3, <2>1 DEF EndAt, ShowsEnd, Unseen
  <1> QED BY <1>1, <1>2, <1>3

\* A step that neither reads nor submits leaves the line as it is.
LEMMA LineKept ==
  ASSUME DecShapes, TagsInTurn,
         UNCHANGED mfc, Coming' = Coming, Showing' <=> Showing,
         Showing => (pc' = "submit" <=> pc = "submit"),
         \A i \in 1 .. Len(Coming) : ring'[Coming[i].tag] = ring[Coming[i].tag],
         Showing => ring'[mfc.tag] = ring[mfc.tag]
  PROVE  /\ Line' = Line
         /\ \A i \in 1 .. Len(Line) : (EndAt(i)' <=> EndAt(i)) /\ (WipedAt(i)' <=> WipedAt(i))
  <1>1. Line' = Line
    BY DEF Line, Unseen
  <1>2. ASSUME NEW i \in 1 .. Len(Line) PROVE ring'[Line[i].tag] = ring[Line[i].tag]
    <2>1. CASE Unseen /\ Line[i].tag = mfc.tag
      BY <2>1 DEF Unseen
    <2>2. CASE \E j \in 1 .. Len(Coming) : Line[i] = Coming[j]
      BY <2>2
    <2> QED BY <2>1, <2>2, LineIs
  <1> QED BY <1>1, <1>2 DEF EndAt, WipedAt

LEMMA InLineKept ==
  ASSUME DecShapes, TagsInTurn, InLine,
         Line' = Line,
         \A i \in 1 .. Len(Line) : (EndAt(i)' <=> EndAt(i)) /\ (WipedAt(i)' <=> WipedAt(i)),
         Went' = Went, client'.since = client.since, Live' => Live /\ Last' = Last
  PROVE  InLine'
  <1>1. PICK c \in 0 .. Len(Line) : \E w \in 0 .. c : Lined(w, c)
    BY DEF InLine
  <1>2. PICK w \in 0 .. c : Lined(w, c)
    BY <1>1
  <1>3. Len(Line) \in Nat
    BY LineIs
  <1>4. /\ \A i \in 1 .. c : i \in 1 .. Len(Line)
        /\ c < Len(Line) => c + 1 \in 1 .. Len(Line)
    BY <1>3
  <1>5. Lined(w, c)'
    BY <1>2, <1>4 DEF Lined
  <1> QED BY <1>5 DEF InLine

\* More that is known of it.
LEMMA OrderFacts ==
  ASSUME Steady
  PROVE  /\ pc \in {"wait", "read", "submit", "posted"} => dec.conf
         /\ pc = "posted" => in.len # 0 /\ buf[dec.index] # 0
         /\ pc = "submit" /\ ret = "yet" => ~dec.first
         /\ dec.first /\ pc # "posted" => ~EndQueued /\ ~ShowsEnd /\ ~Showing /\ Coming = << >>
         /\ EndQueued \/ NothingPasses => client.ended
         /\ check.set => in.len = 0 /\ ~check.on
         /\ dec \in DecType /\ client.ended \in BOOLEAN /\ ret \in {"none", "yet"}
         /\ client.since \in Nat /\ in.prev \in Nat
         /\ client.shown \in Seq(ShownType) /\ From \in Nat
  <1>1. Drains /\ DecShapes
    BY DEF Steady, DecInput, DecInv
  <1>2. dec.first /\ pc # "posted" => ~EndQueued /\ ~ShowsEnd /\ ~Showing /\ Coming = << >>
    BY <1>1, NothingYet, ComingIs DEF Drains
  <1>3. /\ dec \in DecType /\ client.ended \in BOOLEAN /\ ret \in {"none", "yet"}
        /\ client.since \in Nat /\ in.prev \in Nat /\ client.shown \in Seq(ShownType)
    BY <1>1 DEF DecShapes, DecoderOK, BuffersOK, FeedOK, Steady, DecOutShapes
  <1>4. From \in Nat
    BY <1>3 DEF From
  <1>5. pc \in {"wait", "read", "submit", "posted"} => dec.conf
    BY DEF Steady, DecInv, DecControl, InTurn, Between
  <1> QED BY <1>1, <1>2, <1>3, <1>4, <1>5 DEF Steady, DecInput, Drains, NotedOK, EndKnown

LEMMA DecAgain_Ordered ==
  ASSUME Steady, Again
  PROVE  Handing' /\ (FullStream' => FullStream) /\ (FullStream /\ Ordered => Ordered')
  <1> USE DEF Steady
  <1>a. /\ UNCHANGED <<codec, thumb, dec, ring, buf, start, worker, mfc, in, re, out, check, flushing, client>>
        /\ pc = "idle" /\ re /\ pc' = "call" /\ ret' = "none"
    BY DEF Again, stream, sems, fixed
  <1>q. /\ Coming' = Coming /\ (Showing' <=> Showing) /\ (DecInWork' <=> DecInWork)
        /\ (ShowsEnd' <=> ShowsEnd) /\ (EndQueued' <=> EndQueued)
        /\ (CodecFull' <=> CodecFull) /\ TagsInTurn /\ mfc' = mfc
        /\ \A i \in 1 .. Len(Coming) : ring'[Coming[i].tag] = ring[Coming[i].tag]
        /\ Showing => ring'[mfc.tag] = ring[mfc.tag]
    <2>1. /\ UNCHANGED <<mfc, thumb>> /\ dec'.ti = dec.ti /\ (DecInWork' <=> DecInWork)
          /\ DecInWork => buf'[mfc.inBuf] = buf[mfc.inBuf]
      BY <1>a, DecFacts, OrderFacts DEF DecInWork, Other
    <2>2. /\ \A i \in 1 .. Len(Coming) : ring'[Coming[i].tag] = ring[Coming[i].tag]
          /\ Showing => ring'[mfc.tag] = ring[mfc.tag]
      BY <1>a
    <2>3. TagsInTurn /\ Lag /\ WipedFirst
      BY DEF DecQueue
    <2> QED BY <2>1, <2>2, <2>3, QueueKept
  <1>h. Handing'
    BY <1>a, DecFacts, OrderFacts DEF Handing, Asked, DecInput, Drains, DecOutput, OutFine, OutAway, NoOut
  <1>f. FullStream' <=> FullStream
    BY <1>a DEF FullStream
  <1> SUFFICES ASSUME FullStream, Ordered PROVE Ordered'
    BY <1>h, <1>f
  <1>1. BeforeConfig'
    BY <1>a, <1>q, DecFacts, OrderFacts DEF Ordered, BeforeConfig, Handing, Asked, EmptyEos
  <1>2. BeforeFirst'
    BY <1>a, <1>q, DecFacts, OrderFacts DEF Ordered, BeforeFirst, ToSubmit
  <1>3. AfterFlush'
    BY <1>a, <1>q, DecFacts, OrderFacts DEF Ordered, AfterFlush, Wipe
  <1>4. InputInTurn'
    BY <1>a, <1>q, DecFacts, OrderFacts DEF Ordered, InputInTurn, Asked, Normal, NothingPasses, ToSubmit, Other
  <1>5. InOrder'
    <2> SUFFICES ASSUME dec'.conf, Normal'
                 PROVE  (~ShowsEnd => InLine)' /\ (ShowsEnd => Went = Last)' /\ (OnItsWay => out.frame = Went)'
      BY DEF InOrder
    <2>1. dec.conf /\ Normal
      BY <1>a DEF Normal, NothingPasses
    <2>2. /\ Went' = Went /\ client'.since = client.since /\ (OnItsWay' => OnItsWay /\ out' = out)
          /\ Live' => Live /\ Last' = Last
          /\ ShowsEnd' => Last' = Last
      <3>1. Went' = Went /\ client'.since = client.since /\ (OnItsWay' => OnItsWay /\ out' = out)
        BY <1>a, <2>1, DecFacts, OrderFacts DEF Went, OnItsWay, OutAway, From, DecOutput, OutFine, NoOut
      <3>2. /\ Live' => Live /\ Last' = Last
            /\ ShowsEnd' => Last' = Last
        BY <1>a, <1>q, <2>1, DecFacts, OrderFacts DEF Live, Last, ToSubmit, NoOut
      <3> QED BY <3>1, <3>2
    <2>3. ~ShowsEnd /\ Showing => (pc' = "submit" <=> pc = "submit")
      BY <1>a, <1>q, <2>1
    <2>4. ~ShowsEnd => InLine'
      BY <1>a, <1>q, <2>1, <2>2, <2>3, LineKept, InLineKept DEF Ordered, InOrder, DecInv
    <2> QED BY <1>q, <2>1, <2>2, <2>4 DEF Ordered, InOrder
  <1>6. EosOut'
    BY <1>a, <1>q, DecFacts, OrderFacts DEF Ordered, EosOut, Asked, DecOutput, OutFine, OutAway, NoOut
  <1> QED BY <1>1, <1>2, <1>3, <1>4, <1>5, <1>6 DEF Ordered

LEMMA DecWaitDone_Ordered ==
  ASSUME Steady, WaitDone
  PROVE  Handing' /\ (FullStream' => FullStream) /\ (FullStream /\ Ordered => Ordered')
  <1> USE DEF Steady
  <1>a. /\ UNCHANGED <<codec, thumb, ring, buf, start, worker, mfc, in, ret, re, out, check, flushing, client>>
        /\ pc = "wait" /\ pc' = "read" /\ dec' = [dec EXCEPT !.run = FALSE]
    BY DEF WaitDone, stream, data, fixed
  <1>q. /\ Coming' = Coming /\ (Showing' <=> Showing) /\ (DecInWork' <=> DecInWork)
        /\ (ShowsEnd' <=> ShowsEnd) /\ (EndQueued' <=> EndQueued)
        /\ (CodecFull' <=> CodecFull) /\ TagsInTurn /\ mfc' = mfc
        /\ \A i \in 1 .. Len(Coming) : ring'[Coming[i].tag] = ring[Coming[i].tag]
        /\ Showing => ring'[mfc.tag] = ring[mfc.tag]
    <2>1. /\ UNCHANGED <<mfc, thumb>> /\ dec'.ti = dec.ti /\ (DecInWork' <=> DecInWork)
          /\ DecInWork => buf'[mfc.inBuf] = buf[mfc.inBuf]
      BY <1>a, DecFacts, OrderFacts DEF DecInWork, Other
    <2>2. /\ \A i \in 1 .. Len(Coming) : ring'[Coming[i].tag] = ring[Coming[i].tag]
          /\ Showing => ring'[mfc.tag] = ring[mfc.tag]
      BY <1>a
    <2>3. TagsInTurn /\ Lag /\ WipedFirst
      BY DEF DecQueue
    <2> QED BY <2>1, <2>2, <2>3, QueueKept
  <1>h. Handing'
    BY <1>a, DecFacts, OrderFacts DEF Handing, Asked, DecInput, Drains, DecOutput, OutFine, OutAway, NoOut
  <1>f. FullStream' <=> FullStream
    BY <1>a DEF FullStream
  <1> SUFFICES ASSUME FullStream, Ordered PROVE Ordered'
    BY <1>h, <1>f
  <1>1. BeforeConfig'
    BY <1>a, <1>q, DecFacts, OrderFacts DEF Ordered, BeforeConfig, Handing, Asked, EmptyEos
  <1>2. BeforeFirst'
    BY <1>a, <1>q, DecFacts, OrderFacts DEF Ordered, BeforeFirst, ToSubmit
  <1>3. AfterFlush'
    BY <1>a, <1>q, DecFacts, OrderFacts DEF Ordered, AfterFlush, Wipe
  <1>4. InputInTurn'
    BY <1>a, <1>q, DecFacts, OrderFacts DEF Ordered, InputInTurn, Asked, Normal, NothingPasses, ToSubmit, Other
  <1>5. InOrder'
    <2> SUFFICES ASSUME dec'.conf, Normal'
                 PROVE  (~ShowsEnd => InLine)' /\ (ShowsEnd => Went = Last)' /\ (OnItsWay => out.frame = Went)'
      BY DEF InOrder
    <2>1. dec.conf /\ Normal
      BY <1>a DEF Normal, NothingPasses
    <2>2. /\ Went' = Went /\ client'.since = client.since /\ (OnItsWay' => OnItsWay /\ out' = out)
          /\ Live' => Live /\ Last' = Last
          /\ ShowsEnd' => Last' = Last
      <3>1. Went' = Went /\ client'.since = client.since /\ (OnItsWay' => OnItsWay /\ out' = out)
        BY <1>a, <2>1, DecFacts, OrderFacts DEF Went, OnItsWay, OutAway, From, DecOutput, OutFine, NoOut
      <3>2. /\ Live' => Live /\ Last' = Last
            /\ ShowsEnd' => Last' = Last
        BY <1>a, <1>q, <2>1, DecFacts, OrderFacts DEF Live, Last, ToSubmit, NoOut
      <3> QED BY <3>1, <3>2
    <2>3. ~ShowsEnd /\ Showing => (pc' = "submit" <=> pc = "submit")
      BY <1>a, <1>q, <2>1
    <2>4. ~ShowsEnd => InLine'
      BY <1>a, <1>q, <2>1, <2>2, <2>3, LineKept, InLineKept DEF Ordered, InOrder, DecInv
    <2> QED BY <1>q, <2>1, <2>2, <2>4 DEF Ordered, InOrder
  <1>6. EosOut'
    BY <1>a, <1>q, DecFacts, OrderFacts DEF Ordered, EosOut, Asked, DecOutput, OutFine, OutAway, NoOut
  <1> QED BY <1>1, <1>2, <1>3, <1>4, <1>5, <1>6 DEF Ordered

LEMMA DecSkipSubmit_Ordered ==
  ASSUME Steady, SkipSubmit
  PROVE  Handing' /\ (FullStream' => FullStream) /\ (FullStream /\ Ordered => Ordered')
  <1> USE DEF Steady
  <1>a. /\ UNCHANGED <<codec, thumb, dec, ring, buf, start, worker, mfc, out, check, flushing, client>>
        /\ pc = "submit" /\ (buf[dec.index] = 0 \/ in.len = 0 \/ out.eos)
        /\ ret' = ret /\ pc' = "deliver"
        /\ \/ ret = "yet" /\ in' = in
           \/ ret # "yet" /\ in'.len = 0 /\ ~in'.eos /\ in'.prev = in.len
    BY DEF SkipSubmit, Returns, NoData, stream, sems, fixed
  <1>q. /\ Coming' = Coming /\ (Showing' <=> Showing) /\ (DecInWork' <=> DecInWork)
        /\ (ShowsEnd' <=> ShowsEnd) /\ (EndQueued' <=> EndQueued)
        /\ (CodecFull' <=> CodecFull) /\ TagsInTurn /\ mfc' = mfc
        /\ \A i \in 1 .. Len(Coming) : ring'[Coming[i].tag] = ring[Coming[i].tag]
        /\ Showing => ring'[mfc.tag] = ring[mfc.tag]
    <2>1. /\ UNCHANGED <<mfc, thumb>> /\ dec'.ti = dec.ti /\ (DecInWork' <=> DecInWork)
          /\ DecInWork => buf'[mfc.inBuf] = buf[mfc.inBuf]
      BY <1>a, DecFacts, OrderFacts DEF DecInWork, Other
    <2>2. /\ \A i \in 1 .. Len(Coming) : ring'[Coming[i].tag] = ring[Coming[i].tag]
          /\ Showing => ring'[mfc.tag] = ring[mfc.tag]
      BY <1>a
    <2>3. TagsInTurn /\ Lag /\ WipedFirst
      BY DEF DecQueue
    <2> QED BY <2>1, <2>2, <2>3, QueueKept
  <1>h. Handing'
    BY <1>a, DecFacts, OrderFacts DEF Handing, Asked, DecInput, Drains, DecOutput, OutFine, OutAway, NoOut
  <1>f. FullStream' <=> FullStream
    BY <1>a DEF FullStream
  <1> SUFFICES ASSUME FullStream, Ordered PROVE Ordered'
    BY <1>h, <1>f
  <1>d. dec.conf /\ Normal => client.ended /\ ret = "none" /\ in.len # 0 /\ (ShowsEnd \/ ~Showing)
    <2> SUFFICES ASSUME dec.conf, Normal PROVE client.ended /\ ret = "none" /\ in.len # 0 /\ (ShowsEnd \/ ~Showing)
      OBVIOUS
    <2>1. in.len # 0 /\ client.sent # 0
      BY <1>a DEF Ordered, InputInTurn, Asked, Handing
    <2>2. CASE out.eos
      BY <1>a, <2>1, <2>2 DEF Ordered, EosOut, Asked, Normal, DecOutput, OutFine
    <2>3. CASE ~out.eos
      <3>1. buf[dec.index] = 0 /\ ~ShowsEnd
        BY <1>a, <2>1, <2>3 DEF DecOutput, OutFine
      <3>2. client.ended
        BY <1>a, <2>1, <3>1 DEF Ordered, InputInTurn, Asked, ToSubmit
      <3> QED BY <1>a, <2>1, <3>1, <3>2, OrderFacts DEF Ordered, InputInTurn, Asked, ToSubmit
    <2> QED BY <2>2, <2>3
  <1>1. BeforeConfig'
    BY <1>a, <1>d, <1>q, DecFacts, OrderFacts DEF Ordered, BeforeConfig, Handing, Asked, EmptyEos
  <1>2. BeforeFirst'
    BY <1>a, <1>d, <1>q, DecFacts, OrderFacts DEF Ordered, BeforeFirst, ToSubmit, AfterFlush, Normal, NothingPasses
  <1>3. AfterFlush'
    BY <1>a, <1>d, <1>q, DecFacts, OrderFacts DEF Ordered, AfterFlush, Wipe
  <1>4. InputInTurn'
    BY <1>a, <1>d, <1>q, DecFacts, OrderFacts DEF Ordered, InputInTurn, Asked, Normal, NothingPasses, ToSubmit, Other
  <1>5. InOrder'
    <2> SUFFICES ASSUME dec'.conf, Normal'
                 PROVE  (~ShowsEnd => InLine)' /\ (ShowsEnd => Went = Last)' /\ (OnItsWay => out.frame = Went)'
      BY DEF InOrder
    <2>1. dec.conf /\ Normal
      BY <1>a DEF Normal, NothingPasses
    <2>2. /\ Went' = Went /\ client'.since = client.since /\ (OnItsWay' => OnItsWay /\ out' = out)
          /\ Live' => Live /\ Last' = Last
          /\ ShowsEnd' => Last' = Last
      <3>1. Went' = Went /\ client'.since = client.since /\ (OnItsWay' => OnItsWay /\ out' = out)
        BY <1>a, <1>d, <2>1, DecFacts, OrderFacts DEF Went, OnItsWay, OutAway, From, DecOutput, OutFine, NoOut
      <3>2. /\ Live' => Live /\ Last' = Last
            /\ ShowsEnd' => Last' = Last
        BY <1>a, <1>d, <1>q, <2>1, DecFacts, OrderFacts DEF Live, Last, ToSubmit, NoOut
      <3> QED BY <3>1, <3>2
    <2>3. ~ShowsEnd /\ Showing => (pc' = "submit" <=> pc = "submit")
      BY <1>a, <1>d, <1>q, <2>1
    <2>4. ~ShowsEnd => InLine'
      BY <1>a, <1>d, <1>q, <2>1, <2>2, <2>3, LineKept, InLineKept DEF Ordered, InOrder, DecInv
    <2> QED BY <1>q, <2>1, <2>2, <2>4 DEF Ordered, InOrder
  <1>6. EosOut'
    BY <1>a, <1>d, <1>q, DecFacts, OrderFacts DEF Ordered, EosOut, Asked, DecOutput, OutFine, OutAway, NoOut
  <1> QED BY <1>1, <1>2, <1>3, <1>4, <1>5, <1>6 DEF Ordered

LEMMA DecTake_Ordered ==
  ASSUME Steady, Take
  PROVE  Handing' /\ (FullStream' => FullStream) /\ (FullStream /\ Ordered => Ordered')
  <1> USE DEF Steady
  <1>a. /\ UNCHANGED <<codec, thumb, dec, ring, buf, mfc, pc, in, ret, re, out, check, flushing, client>>
        /\ worker = "wait" /\ start > 0 /\ start' = start - 1
        /\ worker' = IF dec.exit THEN "gone" ELSE "exe"
    BY DEF Take, stream, data, fixed
  <1>q. /\ Coming' = Coming /\ (Showing' <=> Showing) /\ (DecInWork' <=> DecInWork)
        /\ (ShowsEnd' <=> ShowsEnd) /\ (EndQueued' <=> EndQueued)
        /\ (CodecFull' <=> CodecFull) /\ TagsInTurn /\ mfc' = mfc
        /\ \A i \in 1 .. Len(Coming) : ring'[Coming[i].tag] = ring[Coming[i].tag]
        /\ Showing => ring'[mfc.tag] = ring[mfc.tag]
    <2>1. /\ UNCHANGED <<mfc, thumb>> /\ dec'.ti = dec.ti /\ (DecInWork' <=> DecInWork)
          /\ DecInWork => buf'[mfc.inBuf] = buf[mfc.inBuf]
      BY <1>a, DecFacts, OrderFacts DEF DecInWork, Other
    <2>2. /\ \A i \in 1 .. Len(Coming) : ring'[Coming[i].tag] = ring[Coming[i].tag]
          /\ Showing => ring'[mfc.tag] = ring[mfc.tag]
      BY <1>a
    <2>3. TagsInTurn /\ Lag /\ WipedFirst
      BY DEF DecQueue
    <2> QED BY <2>1, <2>2, <2>3, QueueKept
  <1>h. Handing'
    BY <1>a, DecFacts, OrderFacts DEF Handing, Asked, DecInput, Drains, DecOutput, OutFine, OutAway, NoOut
  <1>f. FullStream' <=> FullStream
    BY <1>a DEF FullStream
  <1> SUFFICES ASSUME FullStream, Ordered PROVE Ordered'
    BY <1>h, <1>f
  <1>1. BeforeConfig'
    BY <1>a, <1>q, DecFacts, OrderFacts DEF Ordered, BeforeConfig, Handing, Asked, EmptyEos
  <1>2. BeforeFirst'
    BY <1>a, <1>q, DecFacts, OrderFacts DEF Ordered, BeforeFirst, ToSubmit
  <1>3. AfterFlush'
    BY <1>a, <1>q, DecFacts, OrderFacts DEF Ordered, AfterFlush, Wipe
  <1>4. InputInTurn'
    BY <1>a, <1>q, DecFacts, OrderFacts DEF Ordered, InputInTurn, Asked, Normal, NothingPasses, ToSubmit, Other
  <1>5. InOrder'
    <2> SUFFICES ASSUME dec'.conf, Normal'
                 PROVE  (~ShowsEnd => InLine)' /\ (ShowsEnd => Went = Last)' /\ (OnItsWay => out.frame = Went)'
      BY DEF InOrder
    <2>1. dec.conf /\ Normal
      BY <1>a DEF Normal, NothingPasses
    <2>2. /\ Went' = Went /\ client'.since = client.since /\ (OnItsWay' => OnItsWay /\ out' = out)
          /\ Live' => Live /\ Last' = Last
          /\ ShowsEnd' => Last' = Last
      <3>1. Went' = Went /\ client'.since = client.since /\ (OnItsWay' => OnItsWay /\ out' = out)
        BY <1>a, <2>1, DecFacts, OrderFacts DEF Went, OnItsWay, OutAway, From, DecOutput, OutFine, NoOut
      <3>2. /\ Live' => Live /\ Last' = Last
            /\ ShowsEnd' => Last' = Last
        BY <1>a, <1>q, <2>1, DecFacts, OrderFacts DEF Live, Last, ToSubmit, NoOut
      <3> QED BY <3>1, <3>2
    <2>3. ~ShowsEnd /\ Showing => (pc' = "submit" <=> pc = "submit")
      BY <1>a, <1>q, <2>1
    <2>4. ~ShowsEnd => InLine'
      BY <1>a, <1>q, <2>1, <2>2, <2>3, LineKept, InLineKept DEF Ordered, InOrder, DecInv
    <2> QED BY <1>q, <2>1, <2>2, <2>4 DEF Ordered, InOrder
  <1>6. EosOut'
    BY <1>a, <1>q, DecFacts, OrderFacts DEF Ordered, EosOut, Asked, DecOutput, OutFine, OutAway, NoOut
  <1> QED BY <1>1, <1>2, <1>3, <1>4, <1>5, <1>6 DEF Ordered

LEMMA DecFlush_Ordered ==
  ASSUME Steady, Flush
  PROVE  Handing' /\ (FullStream' => FullStream) /\ (FullStream /\ Ordered => Ordered')
  <1> USE DEF Steady
  <1>a. /\ UNCHANGED <<codec, thumb, dec, ring, buf, start, worker, mfc, pc, ret, re, out, check, client>>
        /\ pc \in {"idle", "call", "deliver"} /\ flushing' /\ in'.len = 0 /\ ~in'.eos /\ in'.prev = in.prev
    BY DEF Flush, NoData, stream, sems, fixed
  <1>q. /\ Coming' = Coming /\ (Showing' <=> Showing) /\ (DecInWork' <=> DecInWork)
        /\ (ShowsEnd' <=> ShowsEnd) /\ (EndQueued' <=> EndQueued)
        /\ (CodecFull' <=> CodecFull) /\ TagsInTurn /\ mfc' = mfc
        /\ \A i \in 1 .. Len(Coming) : ring'[Coming[i].tag] = ring[Coming[i].tag]
        /\ Showing => ring'[mfc.tag] = ring[mfc.tag]
    <2>1. /\ UNCHANGED <<mfc, thumb>> /\ dec'.ti = dec.ti /\ (DecInWork' <=> DecInWork)
          /\ DecInWork => buf'[mfc.inBuf] = buf[mfc.inBuf]
      BY <1>a, DecFacts, OrderFacts DEF DecInWork, Other
    <2>2. /\ \A i \in 1 .. Len(Coming) : ring'[Coming[i].tag] = ring[Coming[i].tag]
          /\ Showing => ring'[mfc.tag] = ring[mfc.tag]
      BY <1>a
    <2>3. TagsInTurn /\ Lag /\ WipedFirst
      BY DEF DecQueue
    <2> QED BY <2>1, <2>2, <2>3, QueueKept
  <1>h. Handing'
    BY <1>a, DecFacts, OrderFacts DEF Handing, Asked, DecInput, Drains, DecOutput, OutFine, OutAway, NoOut
  <1>f. FullStream' <=> FullStream
    BY <1>a DEF FullStream
  <1> SUFFICES ASSUME FullStream, Ordered PROVE Ordered'
    BY <1>h, <1>f
  <1>1. BeforeConfig'
    BY <1>a, <1>q, DecFacts, OrderFacts DEF Ordered, BeforeConfig, Handing, Asked, EmptyEos
  <1>2. BeforeFirst'
    BY <1>a, <1>q, DecFacts, OrderFacts DEF Ordered, BeforeFirst, ToSubmit
  <1>3. AfterFlush'
    BY <1>a, <1>q, DecFacts, OrderFacts DEF Ordered, AfterFlush, Wipe
  <1>4. InputInTurn'
    BY <1>a, <1>q, DecFacts, OrderFacts DEF Ordered, InputInTurn, Asked, Normal, NothingPasses, ToSubmit, Other
  <1>5. InOrder'
    <2> SUFFICES ASSUME dec'.conf, Normal'
                 PROVE  (~ShowsEnd => InLine)' /\ (ShowsEnd => Went = Last)' /\ (OnItsWay => out.frame = Went)'
      BY DEF InOrder
    <2>1. dec.conf /\ Normal
      BY <1>a DEF Normal, NothingPasses
    <2>2. /\ Went' = Went /\ client'.since = client.since /\ (OnItsWay' => OnItsWay /\ out' = out)
          /\ Live' => Live /\ Last' = Last
          /\ ShowsEnd' => Last' = Last
      <3>1. Went' = Went /\ client'.since = client.since /\ (OnItsWay' => OnItsWay /\ out' = out)
        BY <1>a, <2>1, DecFacts, OrderFacts DEF Went, OnItsWay, OutAway, From, DecOutput, OutFine, NoOut
      <3>2. /\ Live' => Live /\ Last' = Last
            /\ ShowsEnd' => Last' = Last
        BY <1>a, <1>q, <2>1, DecFacts, OrderFacts DEF Live, Last, ToSubmit, NoOut, Normal
      <3> QED BY <3>1, <3>2
    <2>3. ~ShowsEnd /\ Showing => (pc' = "submit" <=> pc = "submit")
      BY <1>a, <1>q, <2>1
    <2>4. ~ShowsEnd => InLine'
      BY <1>a, <1>q, <2>1, <2>2, <2>3, LineKept, InLineKept DEF Ordered, InOrder, DecInv
    <2> QED BY <1>q, <2>1, <2>2, <2>4 DEF Ordered, InOrder
  <1>6. EosOut'
    BY <1>a, <1>q, DecFacts, OrderFacts DEF Ordered, EosOut, Asked, DecOutput, OutFine, OutAway, NoOut
  <1> QED BY <1>1, <1>2, <1>3, <1>4, <1>5, <1>6 DEF Ordered

LEMMA DecPosted_Ordered ==
  ASSUME Steady, Posted
  PROVE  Handing' /\ (FullStream' => FullStream) /\ (FullStream /\ Ordered => Ordered')
  <1> USE DEF Steady
  <1>a. /\ UNCHANGED <<codec, thumb, ring, buf, start, worker, mfc, out, check, flushing, client>>
        /\ pc = "posted" /\ pc' = "deliver"
        /\ dec' = [dec EXCEPT !.run = TRUE, !.code = "ok", !.index = Other(@), !.first = FALSE]
        /\ ret' = (IF thumb /\ dec.first THEN "yet" ELSE ret)
        /\ \/ ret' = "yet" /\ in' = in
           \/ ret' # "yet" /\ in'.len = 0 /\ ~in'.eos /\ in'.prev = in.len
    BY DEF Posted, Returns, NoData, stream, sems, fixed
  <1>c. /\ dec'.ti = dec.ti /\ dec'.index = Other(dec.index) /\ ~dec'.first /\ dec'.conf = dec.conf
        /\ dec'.allDelay = dec.allDelay /\ dec'.exit = dec.exit
    BY <1>a, OrderFacts DEF DecType
  <1>q. /\ Coming' = Coming /\ (Showing' <=> Showing) /\ (DecInWork' <=> DecInWork)
        /\ (ShowsEnd' <=> ShowsEnd) /\ (EndQueued' <=> EndQueued)
        /\ (CodecFull' <=> CodecFull) /\ TagsInTurn /\ mfc' = mfc
        /\ \A i \in 1 .. Len(Coming) : ring'[Coming[i].tag] = ring[Coming[i].tag]
        /\ Showing => ring'[mfc.tag] = ring[mfc.tag]
    <2>1. /\ UNCHANGED <<mfc, thumb>> /\ dec'.ti = dec.ti /\ (DecInWork' <=> DecInWork)
          /\ DecInWork => buf'[mfc.inBuf] = buf[mfc.inBuf]
      BY <1>a, <1>c, DecFacts, OrderFacts DEF DecInWork, Other
    <2>2. /\ \A i \in 1 .. Len(Coming) : ring'[Coming[i].tag] = ring[Coming[i].tag]
          /\ Showing => ring'[mfc.tag] = ring[mfc.tag]
      BY <1>a, <1>c
    <2>3. TagsInTurn /\ Lag /\ WipedFirst
      BY DEF DecQueue
    <2> QED BY <2>1, <2>2, <2>3, QueueKept
  <1>h. Handing'
    BY <1>a, <1>c, DecFacts, OrderFacts DEF Handing, Asked, DecInput, Drains, DecOutput, OutFine, OutAway, NoOut
  <1>f. FullStream' <=> FullStream
    BY <1>a DEF FullStream
  <1> SUFFICES ASSUME FullStream, Ordered PROVE Ordered'
    BY <1>h, <1>f
  <1>d. /\ ret' = ret /\ in.len # 0 /\ (ret = "yet" => client.ended /\ ~in.eos /\ in' = in)
        /\ ret = "none" => in'.len = 0 /\ in'.prev = in.len /\ ~in'.eos
    BY <1>a, DecFacts, OrderFacts DEF FullStream, Handing, Asked
  <1>1. BeforeConfig'
    BY <1>a, <1>c, <1>d, <1>q, DecFacts, OrderFacts DEF Ordered, BeforeConfig, Handing, Asked, EmptyEos
  <1>2. BeforeFirst'
    BY <1>a, <1>c, <1>d, <1>q, DecFacts, OrderFacts DEF Ordered, BeforeFirst, ToSubmit
  <1>3. AfterFlush'
    BY <1>a, <1>c, <1>d, <1>q, DecFacts, OrderFacts DEF Ordered, AfterFlush, Wipe
  <1>4. InputInTurn'
    BY <1>a, <1>c, <1>d, <1>q, DecFacts, OrderFacts DEF Ordered, InputInTurn, Asked, Normal, NothingPasses, ToSubmit, Other, FullStream
  <1>5. InOrder'
    <2> SUFFICES ASSUME dec'.conf, Normal'
                 PROVE  (~ShowsEnd => InLine)' /\ (ShowsEnd => Went = Last)' /\ (OnItsWay => out.frame = Went)'
      BY DEF InOrder
    <2>1. dec.conf /\ Normal
      BY <1>a DEF Normal, NothingPasses
    <2>2. /\ Went' = Went /\ client'.since = client.since /\ (OnItsWay' => OnItsWay /\ out' = out)
          /\ Live' => Live /\ Last' = Last
          /\ ShowsEnd' => Last' = Last
      <3>1. Went' = Went /\ client'.since = client.since /\ (OnItsWay' => OnItsWay /\ out' = out)
        BY <1>a, <1>c, <1>d, <2>1, DecFacts, OrderFacts DEF Went, OnItsWay, OutAway, From, DecOutput, OutFine, NoOut
      <3>2. /\ Live' => Live /\ Last' = Last
            /\ ShowsEnd' => Last' = Last
        BY <1>a, <1>c, <1>d, <1>q, <2>1, DecFacts, OrderFacts DEF Live, Last, ToSubmit, NoOut, DecInput, Drains, Normal
      <3> QED BY <3>1, <3>2
    <2>3. ~ShowsEnd /\ Showing => (pc' = "submit" <=> pc = "submit")
      BY <1>a, <1>c, <1>d, <1>q, <2>1
    <2>4. ~ShowsEnd => InLine'
      BY <1>a, <1>c, <1>d, <1>q, <2>1, <2>2, <2>3, LineKept, InLineKept DEF Ordered, InOrder, DecInv
    <2> QED BY <1>q, <2>1, <2>2, <2>4 DEF Ordered, InOrder
  <1>6. EosOut'
    BY <1>a, <1>c, <1>d, <1>q, DecFacts, OrderFacts DEF Ordered, EosOut, Asked, DecOutput, OutFine, OutAway, NoOut
  <1> QED BY <1>1, <1>2, <1>3, <1>4, <1>5, <1>6 DEF Ordered

LEMMA DecNothingToDecode_Ordered ==
  ASSUME Steady, NothingToDecode
  PROVE  Handing' /\ (FullStream' => FullStream) /\ (FullStream /\ Ordered => Ordered')
  <1> USE DEF Steady
  <1>a. /\ UNCHANGED <<codec, thumb, dec, ring, buf, start, worker, mfc, check, flushing, client>>
        /\ pc = "call" /\ ~dec.conf /\ in.len = 0 /\ in.eos
        /\ out' = [frame |-> 0, stamp |-> in.stamp, eos |-> in.eos]
        /\ ret' = "none" /\ pc' = "deliver" /\ in'.len = 0 /\ ~in'.eos /\ in'.prev = 0
    BY DEF NothingToDecode, EmptyEos, PassThrough, Returns, NoData, stream, sems, fixed
  <1>q. /\ Coming' = Coming /\ (Showing' <=> Showing) /\ (DecInWork' <=> DecInWork)
        /\ (ShowsEnd' <=> ShowsEnd) /\ (EndQueued' <=> EndQueued)
        /\ (CodecFull' <=> CodecFull) /\ TagsInTurn /\ mfc' = mfc
        /\ \A i \in 1 .. Len(Coming) : ring'[Coming[i].tag] = ring[Coming[i].tag]
        /\ Showing => ring'[mfc.tag] = ring[mfc.tag]
    <2>1. /\ UNCHANGED <<mfc, thumb>> /\ dec'.ti = dec.ti /\ (DecInWork' <=> DecInWork)
          /\ DecInWork => buf'[mfc.inBuf] = buf[mfc.inBuf]
      BY <1>a, DecFacts, OrderFacts DEF DecInWork, Other
    <2>2. /\ \A i \in 1 .. Len(Coming) : ring'[Coming[i].tag] = ring[Coming[i].tag]
          /\ Showing => ring'[mfc.tag] = ring[mfc.tag]
      BY <1>a
    <2>3. TagsInTurn /\ Lag /\ WipedFirst
      BY DEF DecQueue
    <2> QED BY <2>1, <2>2, <2>3, QueueKept
  <1>h. Handing'
    BY <1>a, DecFacts, OrderFacts DEF Handing, Asked, DecInput, Drains, DecOutput, OutFine, OutAway, NoOut
  <1>f. FullStream' <=> FullStream
    BY <1>a DEF FullStream
  <1> SUFFICES ASSUME FullStream, Ordered PROVE Ordered'
    BY <1>h, <1>f
  <1>1. BeforeConfig'
    BY <1>a, <1>q, DecFacts, OrderFacts DEF Ordered, BeforeConfig, Handing, Asked, EmptyEos
  <1>2. BeforeFirst'
    BY <1>a, <1>q, DecFacts, OrderFacts DEF Ordered, BeforeFirst, ToSubmit
  <1>3. AfterFlush'
    BY <1>a, <1>q, DecFacts, OrderFacts DEF Ordered, AfterFlush, Wipe
  <1>4. InputInTurn'
    BY <1>a, <1>q, DecFacts, OrderFacts DEF Ordered, InputInTurn, Asked, Normal, NothingPasses, ToSubmit, Other
  <1>5. InOrder'
    <2> SUFFICES ASSUME dec'.conf, Normal'
                 PROVE  (~ShowsEnd => InLine)' /\ (ShowsEnd => Went = Last)' /\ (OnItsWay => out.frame = Went)'
      BY DEF InOrder
    <2>1. dec.conf /\ Normal
      BY <1>a DEF Normal, NothingPasses
    <2>2. /\ Went' = Went /\ client'.since = client.since /\ (OnItsWay' => OnItsWay /\ out' = out)
          /\ Live' => Live /\ Last' = Last
          /\ ShowsEnd' => Last' = Last
      <3>1. Went' = Went /\ client'.since = client.since /\ (OnItsWay' => OnItsWay /\ out' = out)
        BY <1>a, <2>1, DecFacts, OrderFacts DEF Went, OnItsWay, OutAway, From, DecOutput, OutFine, NoOut
      <3>2. /\ Live' => Live /\ Last' = Last
            /\ ShowsEnd' => Last' = Last
        BY <1>a, <1>q, <2>1, DecFacts, OrderFacts DEF Live, Last, ToSubmit, NoOut
      <3> QED BY <3>1, <3>2
    <2>3. ~ShowsEnd /\ Showing => (pc' = "submit" <=> pc = "submit")
      BY <1>a, <1>q, <2>1
    <2>4. ~ShowsEnd => InLine'
      BY <1>a, <1>q, <2>1, <2>2, <2>3, LineKept, InLineKept DEF Ordered, InOrder, DecInv
    <2> QED BY <1>q, <2>1, <2>2, <2>4 DEF Ordered, InOrder
  <1>6. EosOut'
    BY <1>a, <1>q, DecFacts, OrderFacts DEF Ordered, EosOut, Asked, DecOutput, OutFine, OutAway, NoOut
  <1> QED BY <1>1, <1>2, <1>3, <1>4, <1>5, <1>6 DEF Ordered

LEMMA DecConfigure_Ordered ==
  ASSUME Steady, ConfigureH264 \/ ConfigureMpeg4
  PROVE  Handing' /\ (FullStream' => FullStream) /\ (FullStream /\ Ordered => Ordered')
  <1> USE DEF Steady
  <1>a. /\ UNCHANGED <<codec, thumb, ring, buf, start, worker, mfc, check, flushing>>
        /\ pc = "call" /\ ~dec.conf /\ ~EmptyEos
        /\ \/ /\ dec' = [dec EXCEPT !.conf = TRUE] /\ client' = client /\ pc' = "deliver"
              /\ \/ ret' = "yet" /\ in' = in /\ out' = out /\ codec = "h263"
                 \/ /\ ret' = "none" /\ in'.len = 0 /\ ~in'.eos /\ in'.prev = in.len
                    /\ out' \in {out, [frame |-> 0, stamp |-> in.stamp, eos |-> in.eos]} /\ codec # "h263"
           \/ /\ dec' = [dec EXCEPT !.code = "error"] /\ pc' = "idle" /\ ~re' /\ out' = out
              /\ in' = in /\ ret' = ret /\ client' = [client EXCEPT !.ended = TRUE]
    <2>1. CASE ConfigureH264
      <3>1. PICK ok \in BOOLEAN : Configured(ok, "none") /\ IF ok THEN PassThrough ELSE UNCHANGED out
        BY <2>1 DEF ConfigureH264
      <3>2. CASE ok
        BY <2>1, <3>1, <3>2 DEF ConfigureH264, Configured, PassThrough, Returns, NoData, stream, sems, fixed
      <3>3. CASE ~ok
        BY <2>1, <3>1, <3>3 DEF ConfigureH264, Configured, stream, sems, fixed
      <3> QED BY <3>2, <3>3
    <2>2. CASE ConfigureMpeg4
      <3>1. PICK ok \in BOOLEAN :
              /\ Configured(ok, IF codec = "h263" THEN "yet" ELSE "none")
              /\ IF ok /\ codec = "mpeg4" THEN PassThrough ELSE UNCHANGED out
        BY <2>2 DEF ConfigureMpeg4
      <3>2. CASE ok /\ codec = "h263"
        BY <2>2, <3>1, <3>2 DEF ConfigureMpeg4, Configured, Returns, stream, sems, fixed
      <3>3. CASE ok /\ codec # "h263"
        BY <2>2, <3>1, <3>3 DEF ConfigureMpeg4, Configured, PassThrough, Returns, NoData, stream, sems, fixed
      <3>4. CASE ~ok
        BY <2>2, <3>1, <3>4 DEF ConfigureMpeg4, Configured, stream, sems, fixed
      <3> QED BY <3>2, <3>3, <3>4
    <2> QED BY <2>1, <2>2
  <1>c. /\ dec'.ti = dec.ti /\ dec'.index = dec.index /\ (dec'.conf <=> pc' = "deliver")
        /\ dec'.first = dec.first /\ dec'.allDelay = dec.allDelay /\ dec'.exit = dec.exit /\ dec.first
        /\ client'.full = client.full /\ client'.sent = client.sent /\ client'.bare = client.bare
        /\ client'.since = client.since /\ client'.shown = client.shown /\ client'.eos = client.eos
        /\ IF pc' = "deliver" THEN client'.ended = client.ended ELSE client'.ended
        /\ ~DecInWork /\ ~Showing
    <2>1. dec.first /\ pc # "posted" /\ Drains
      BY <1>a, DecFacts DEF DecInput
    <2>2. CASE dec' = [dec EXCEPT !.conf = TRUE] /\ client' = client /\ pc' = "deliver"
      BY <2>1, <2>2, OrderFacts DEF DecType, Drains
    <2>3. CASE dec' = [dec EXCEPT !.code = "error"] /\ client' = [client EXCEPT !.ended = TRUE] /\ pc' = "idle"
      BY <1>a, <2>1, <2>3, DecFacts, OrderFacts DEF DecType, Drains
    <2> QED BY <1>a, <2>2, <2>3
  <1>q. /\ Coming' = Coming /\ (Showing' <=> Showing) /\ (DecInWork' <=> DecInWork)
        /\ (ShowsEnd' <=> ShowsEnd) /\ (EndQueued' <=> EndQueued)
        /\ (CodecFull' <=> CodecFull) /\ TagsInTurn /\ mfc' = mfc
        /\ \A i \in 1 .. Len(Coming) : ring'[Coming[i].tag] = ring[Coming[i].tag]
        /\ Showing => ring'[mfc.tag] = ring[mfc.tag]
    <2>1. /\ UNCHANGED <<mfc, thumb>> /\ dec'.ti = dec.ti /\ (DecInWork' <=> DecInWork)
          /\ DecInWork => buf'[mfc.inBuf] = buf[mfc.inBuf]
      BY <1>a, <1>c, DecFacts, OrderFacts DEF DecInWork, Other
    <2>2. /\ \A i \in 1 .. Len(Coming) : ring'[Coming[i].tag] = ring[Coming[i].tag]
          /\ Showing => ring'[mfc.tag] = ring[mfc.tag]
      BY <1>a, <1>c
    <2>3. TagsInTurn /\ Lag /\ WipedFirst
      BY DEF DecQueue
    <2> QED BY <2>1, <2>2, <2>3, QueueKept
  <1>h. Handing'
    BY <1>a, <1>c, DecFacts, OrderFacts DEF Handing, Asked, DecInput, Drains, DecOutput, OutFine, OutAway, NoOut
  <1>f. FullStream' <=> FullStream
    BY <1>a, <1>c DEF FullStream
  <1> SUFFICES ASSUME FullStream, Ordered PROVE Ordered'
    BY <1>h, <1>f
  <1>d. ~flushing => in.len # 0 /\ client.sent = 1 /\ (~client.ended => in.len = 1 /\ buf[dec.index] = 1)
    BY <1>a DEF Ordered, BeforeConfig
  <1>1. BeforeConfig'
    BY <1>a, <1>c, <1>d, <1>q, DecFacts, OrderFacts DEF Ordered, BeforeConfig, Handing, Asked, EmptyEos
  <1>2. BeforeFirst'
    BY <1>a, <1>c, <1>d, <1>q, DecFacts, OrderFacts DEF Ordered, BeforeFirst, ToSubmit, BeforeConfig
  <1>3. AfterFlush'
    BY <1>a, <1>c, <1>d, <1>q, DecFacts, OrderFacts DEF Ordered, AfterFlush, Wipe
  <1>4. InputInTurn'
    <2>1. ~EndQueued' /\ dec'.first
      BY <1>a, <1>c, <1>q, OrderFacts
    <2>2. CASE pc' = "idle"
      BY <1>c, <2>1, <2>2 DEF InputInTurn, Asked
    <2>3. CASE pc' = "deliver" /\ in' = in
      BY <1>a, <1>c, <1>d, <2>1, <2>3 DEF InputInTurn, Asked, ToSubmit, Normal
    <2>4. CASE pc' = "deliver" /\ ret' # "yet" /\ in'.len = 0 /\ in'.prev = in.len
      BY <1>a, <1>c, <1>d, <2>1, <2>4 DEF InputInTurn, Asked, ToSubmit, Normal
    <2> QED BY <1>a, <2>2, <2>3, <2>4
  <1>5. InOrder'
    <2> SUFFICES ASSUME dec'.conf, Normal'
                 PROVE  (~ShowsEnd => InLine)' /\ (ShowsEnd => Went = Last)' /\ (OnItsWay => out.frame = Went)'
      BY DEF InOrder
    <2>1. Line' = << >> /\ Len(Line') = 0 /\ ~OnItsWay' /\ ~ShowsEnd' /\ ~EndQueued'
      BY <1>a, <1>c, <1>q, OrderFacts DEF Line, Unseen, OnItsWay, DecOutput, OutFine, OutAway, NoOut
    <2>2. Went' = From
      <3>1. client.shown = << >> /\ From' = From /\ client'.shown = client.shown
        BY <1>a, <1>c, DecFacts DEF Ordered, BeforeFirst, From
      <3>2. Len(client'.shown) = 0
        BY <3>1
      <3> QED BY <2>1, <3>1, <3>2, OrderFacts DEF Went
    <2>3. Live' => Went' = Last'
      BY <1>a, <1>c, <1>q, <2>1, <2>2, DecFacts, OrderFacts
         DEF Live, Last, ToSubmit, Normal, From, Ordered, BeforeConfig, BeforeFirst, Handing, Asked
    <2>4. Lined(0, 0)'
      BY <2>1, <2>2, <2>3, OrderFacts DEF Lined
    <2>5. InLine'
      BY <2>1, <2>4 DEF InLine
    <2> QED BY <2>1, <2>5
  <1>6. EosOut'
    BY <1>a, <1>c, <1>d, <1>q, DecFacts, OrderFacts DEF Ordered, EosOut, Asked, DecOutput, OutFine, OutAway, NoOut, BeforeConfig
  <1> QED BY <1>1, <1>2, <1>3, <1>4, <1>5, <1>6 DEF Ordered

LEMMA DecLook_Ordered ==
  ASSUME Steady, Look
  PROVE  Handing' /\ (FullStream' => FullStream) /\ (FullStream /\ Ordered => Ordered')
  <1> USE DEF Steady
  <1>a. /\ UNCHANGED <<codec, thumb, buf, start, worker, mfc, in, ret, re, check, flushing, client>>
        /\ pc = "call" /\ dec.conf /\ ring' = [ring EXCEPT ![dec.ti] = [stamp |-> in.stamp, eos |-> in.eos]]
        /\ \/ dec.code = "ok" /\ ~dec.first /\ pc' = "wait" /\ dec' = dec /\ out' = out
           \/ /\ dec.code # "ok" \/ dec.first
              /\ pc' = "submit" /\ dec' = [dec EXCEPT !.allDelay = FALSE]
              /\ out' = [frame |-> 0, stamp |-> in.stamp,
                         eos |-> (dec.allDelay \/ in.eos) /\ ~dec.first]
    BY DEF Look, sems, fixed
  <1>c. /\ dec'.ti = dec.ti /\ dec'.first = dec.first /\ dec'.exit = dec.exit /\ dec'.index = dec.index
        /\ dec'.conf = dec.conf
        /\ \A i \in 1 .. Len(Coming) : ring'[Coming[i].tag] = ring[Coming[i].tag]
        /\ Showing => ring'[mfc.tag] = ring[mfc.tag]
        /\ IF dec.first THEN pc' = "submit" /\ ~out'.eos /\ out'.frame = 0
           ELSE pc' = "wait" /\ out' = out /\ dec'.allDelay = dec.allDelay
    <2>1. \/ dec' = dec
          \/ dec' = [dec EXCEPT !.allDelay = FALSE]
      BY <1>a
    <2>2. dec \in DecType /\ ring \in [Index -> [stamp : Int, eos : BOOLEAN]]
      BY OrderFacts DEF DecOutShapes
    <2>3. /\ dec'.ti = dec.ti /\ dec'.first = dec.first /\ dec'.exit = dec.exit /\ dec'.index = dec.index
          /\ dec'.conf = dec.conf /\ dec.ti \in Index
      BY <2>1, <2>2 DEF DecType
    <2>4. \A t \in Index : t # dec.ti => ring'[t] = ring[t]
      BY <1>a, <2>2, <2>3
    <2>5. /\ \A i \in 1 .. Len(Coming) : ring'[Coming[i].tag] = ring[Coming[i].tag]
          /\ Showing => ring'[mfc.tag] = ring[mfc.tag]
      BY <2>4, ComingIs, TagsElsewhere DEF DecInv, DecQueue
    <2>6. CASE dec.first
      <3>1. pc' = "submit" /\ out' = [frame |-> 0, stamp |-> in.stamp,
                                    eos |-> (dec.allDelay \/ in.eos) /\ ~dec.first]
        BY <1>a, <2>6
      <3>2. ((dec.allDelay \/ in.eos) /\ ~dec.first) = FALSE
        BY <2>6
      <3>3. out' = [frame |-> 0, stamp |-> in.stamp, eos |-> FALSE]
        BY <3>1, <3>2, Zenon
      <3>4. pc' = "submit" /\ ~out'.eos /\ out'.frame = 0
        BY <3>1, <3>3
      <3> QED BY <2>3, <2>5, <2>6, <3>4
    <2>7. CASE ~dec.first
      BY <1>a, <2>3, <2>5, <2>7, DecFacts
    <2> QED BY <2>6, <2>7
  <1>q. /\ Coming' = Coming /\ (Showing' <=> Showing) /\ (DecInWork' <=> DecInWork)
        /\ (ShowsEnd' <=> ShowsEnd) /\ (EndQueued' <=> EndQueued)
        /\ (CodecFull' <=> CodecFull) /\ TagsInTurn /\ mfc' = mfc
        /\ \A i \in 1 .. Len(Coming) : ring'[Coming[i].tag] = ring[Coming[i].tag]
        /\ Showing => ring'[mfc.tag] = ring[mfc.tag]
    <2>1. /\ UNCHANGED <<mfc, thumb>> /\ dec'.ti = dec.ti /\ (DecInWork' <=> DecInWork)
          /\ DecInWork => buf'[mfc.inBuf] = buf[mfc.inBuf]
      BY <1>a, <1>c, DecFacts, OrderFacts DEF DecInWork, Other
    <2>2. /\ \A i \in 1 .. Len(Coming) : ring'[Coming[i].tag] = ring[Coming[i].tag]
          /\ Showing => ring'[mfc.tag] = ring[mfc.tag]
      BY <1>a, <1>c
    <2>3. TagsInTurn /\ Lag /\ WipedFirst
      BY DEF DecQueue
    <2> QED BY <2>1, <2>2, <2>3, QueueKept
  <1>h. Handing'
    BY <1>a, <1>c, DecFacts, OrderFacts DEF Handing, Asked, DecInput, Drains, DecOutput, OutFine, OutAway, NoOut
  <1>f. FullStream' <=> FullStream
    BY <1>a DEF FullStream
  <1> SUFFICES ASSUME FullStream, Ordered PROVE Ordered'
    BY <1>h, <1>f
  <1>1. BeforeConfig'
    BY <1>a, <1>c, <1>q, DecFacts, OrderFacts DEF Ordered, BeforeConfig, Handing, Asked, EmptyEos
  <1>2. BeforeFirst'
    BY <1>a, <1>c, <1>q, DecFacts, OrderFacts DEF Ordered, BeforeFirst, ToSubmit
  <1>3. AfterFlush'
    BY <1>a, <1>c, <1>q, DecFacts, OrderFacts DEF Ordered, AfterFlush, Wipe
  <1>4. InputInTurn'
    BY <1>a, <1>c, <1>q, DecFacts, OrderFacts DEF Ordered, InputInTurn, Asked, Normal, NothingPasses, ToSubmit, Other
  <1>5. InOrder'
    <2> SUFFICES ASSUME dec'.conf, Normal'
                 PROVE  (~ShowsEnd => InLine)' /\ (ShowsEnd => Went = Last)' /\ (OnItsWay => out.frame = Went)'
      BY DEF InOrder
    <2>1. dec.conf /\ Normal
      BY <1>a, <1>c DEF Normal, NothingPasses
    <2>2. /\ Went' = Went /\ client'.since = client.since /\ (OnItsWay' => OnItsWay /\ out' = out)
          /\ Live' => Live /\ Last' = Last
          /\ ShowsEnd' => Last' = Last
      <3>1. Went' = Went /\ client'.since = client.since /\ (OnItsWay' => OnItsWay /\ out' = out)
        BY <1>a, <1>c, <2>1, DecFacts, OrderFacts DEF Went, OnItsWay, OutAway, From, DecOutput, OutFine, NoOut
      <3>2. /\ Live' => Live /\ Last' = Last
            /\ ShowsEnd' => Last' = Last
        BY <1>a, <1>c, <1>q, <2>1, DecFacts, OrderFacts DEF Live, Last, ToSubmit, NoOut
      <3> QED BY <3>1, <3>2
    <2>3. ~ShowsEnd /\ Showing => (pc' = "submit" <=> pc = "submit")
      BY <1>a, <1>c, <1>q, <2>1, OrderFacts
    <2>4. ~ShowsEnd => InLine'
      BY <1>a, <1>c, <1>q, <2>1, <2>2, <2>3, LineKept, InLineKept DEF Ordered, InOrder, DecInv
    <2> QED BY <1>q, <2>1, <2>2, <2>4 DEF Ordered, InOrder
  <1>6. EosOut'
    BY <1>a, <1>c, <1>q, DecFacts, OrderFacts DEF Ordered, EosOut, Asked, DecOutput, OutFine, OutAway, NoOut
  <1> QED BY <1>1, <1>2, <1>3, <1>4, <1>5, <1>6 DEF Ordered

LEMMA DecFeed_Ordered ==
  ASSUME Steady, Feed
  PROVE  Handing' /\ (FullStream' => FullStream) /\ (FullStream /\ Ordered => Ordered')
  <1> USE DEF Steady
  <1>a. PICK e \in BOOLEAN, empty \in BOOLEAN :
          /\ empty => e
          /\ in' = [in EXCEPT !.len = IF empty THEN in.prev ELSE client.sent + 1,
                              !.stamp = IF empty THEN 0 ELSE client.sent + 1, !.eos = e]
          /\ buf' = IF empty THEN buf ELSE [buf EXCEPT ![dec.index] = client.sent + 1]
          /\ client' = [client EXCEPT !.sent = IF empty THEN @ ELSE client.sent + 1, !.ended = e,
                                      !.bare = ~e \/ empty]
          /\ check' = IF check.set
                      THEN [set |-> FALSE, on |-> TRUE, eos |-> e,
                            stamp |-> IF empty THEN 0 ELSE client.sent + 1]
                      ELSE check
    BY DEF Feed
  <1>b. /\ UNCHANGED <<codec, thumb, dec, ring, start, worker, mfc, re, out, flushing>> /\ pc = "idle" /\ ~flushing /\ ~re
        /\ in.len = 0 /\ ~client.ended /\ pc' = "call" /\ ret' = "none" /\ (empty => e)
    BY <1>a DEF Feed, sems, fixed
  <1>c. /\ in'.eos = e /\ client'.ended = e /\ client'.full = client.full /\ client.sent + 1 \in Nat
        /\ in'.len = (IF empty THEN in.prev ELSE client.sent + 1) /\ in'.prev = in.prev
        /\ client'.sent = (IF empty THEN client.sent ELSE client.sent + 1)
        /\ (client'.bare <=> ~e \/ empty)
        /\ client'.since = client.since /\ client'.shown = client.shown /\ client'.eos = client.eos
        /\ ~empty => buf'[dec.index] = client.sent + 1
        /\ \A b \in 0 .. 1 : b # dec.index => buf'[b] = buf[b]
        /\ check.set => check'.on /\ ~check'.set /\ check'.eos = e
                        /\ check'.stamp = IF empty THEN 0 ELSE client.sent + 1
        /\ ~check.set => check' = check
    <2>1. client'.bare = (~e \/ empty)
      BY <1>a, DecFacts, Zenon
    <2>2. client.sent + 1 \in Nat /\ check' = IF check.set
                      THEN [set |-> FALSE, on |-> TRUE, eos |-> e,
                            stamp |-> IF empty THEN 0 ELSE client.sent + 1]
                      ELSE check
      BY <1>a, DecFacts
    <2>3. /\ client'.ended = e /\ client'.full = client.full
          /\ client'.sent = (IF empty THEN client.sent ELSE client.sent + 1)
          /\ client'.since = client.since /\ client'.shown = client.shown /\ client'.eos = client.eos
      BY <1>a, DecFacts
    <2>4. /\ in'.eos = e /\ in'.prev = in.prev
          /\ in'.len = (IF empty THEN in.prev ELSE client.sent + 1)
      BY <1>a DEF DecInv, DecShapes, BuffersOK
    <2>5. /\ ~empty => buf'[dec.index] = client.sent + 1
          /\ \A b \in 0 .. 1 : b # dec.index => buf'[b] = buf[b]
      BY <1>a, DecFacts
    <2> QED BY <2>1, <2>2, <2>3, <2>4, <2>5
  <1>q. /\ Coming' = Coming /\ (Showing' <=> Showing) /\ (DecInWork' <=> DecInWork)
        /\ (ShowsEnd' <=> ShowsEnd) /\ (EndQueued' <=> EndQueued)
        /\ (CodecFull' <=> CodecFull) /\ TagsInTurn /\ mfc' = mfc
        /\ \A i \in 1 .. Len(Coming) : ring'[Coming[i].tag] = ring[Coming[i].tag]
        /\ Showing => ring'[mfc.tag] = ring[mfc.tag]
    <2>1. /\ UNCHANGED <<mfc, thumb>> /\ dec'.ti = dec.ti /\ (DecInWork' <=> DecInWork)
          /\ DecInWork => buf'[mfc.inBuf] = buf[mfc.inBuf]
      BY <1>b, <1>c, DecFacts, OrderFacts DEF DecInWork, Other
    <2>2. /\ \A i \in 1 .. Len(Coming) : ring'[Coming[i].tag] = ring[Coming[i].tag]
          /\ Showing => ring'[mfc.tag] = ring[mfc.tag]
      BY <1>b, <1>c
    <2>3. TagsInTurn /\ Lag /\ WipedFirst
      BY DEF DecQueue
    <2> QED BY <2>1, <2>2, <2>3, QueueKept
  <1>h. Handing'
    BY <1>b, <1>c, DecFacts, OrderFacts DEF Handing, Asked, DecInput, Drains, DecOutput, OutFine, OutAway, NoOut
  <1>f. FullStream' <=> FullStream
    BY <1>b, <1>c DEF FullStream
  <1> SUFFICES ASSUME FullStream, Ordered PROVE Ordered'
    BY <1>h, <1>f
  <1>1. BeforeConfig'
    BY <1>b, <1>c, <1>q, DecFacts, OrderFacts DEF Ordered, BeforeConfig, Handing, Asked, EmptyEos
  <1>2. BeforeFirst'
    BY <1>b, <1>c, <1>q, DecFacts, OrderFacts DEF Ordered, BeforeFirst, ToSubmit
  <1>3. AfterFlush'
    BY <1>b, <1>c, <1>q, DecFacts, OrderFacts DEF Ordered, AfterFlush, Wipe, NothingPasses
  <1>4. InputInTurn'
    <2>1. ~EndQueued'
      BY <1>b, <1>q, OrderFacts
    <2> SUFFICES ASSUME dec'.conf, Normal'
                 PROVE  /\ in'.len # 0 /\ (~e => buf'[dec.index] = client.sent + 1 /\ client'.sent = client.sent + 1)
                        /\ e /\ ~dec.first => buf'[Other(dec.index)] # 0
      BY <1>b, <1>c, <2>1 DEF InputInTurn, Asked, ToSubmit
    <2>2. CASE check.set
      BY <1>b, <1>c, <2>2, DecFacts, OrderFacts DEF Normal, NothingPasses
    <2>3. CASE ~check.set
      <3>1. dec.conf /\ Normal
        BY <1>b, <1>c, <2>3 DEF Normal, NothingPasses
      <3>2. in.prev # 0
        BY <1>b, <3>1 DEF Ordered, InputInTurn, Asked
      <3>3. ~dec.first => buf[Other(dec.index)] # 0
        BY <1>b, <2>3 DEF DecInput, BothFilled
      <3>4. Other(dec.index) \in 0 .. 1 /\ Other(dec.index) # dec.index
        BY DecFacts DEF Other
      <3> QED BY <1>b, <1>c, <3>2, <3>3, <3>4, DecFacts
    <2> QED BY <2>2, <2>3
  <1>5. InOrder'
    <2> SUFFICES ASSUME dec'.conf, Normal'
                 PROVE  (~ShowsEnd => InLine)' /\ (ShowsEnd => Went = Last)' /\ (OnItsWay => out.frame = Went)'
      BY DEF InOrder
    <2>1. /\ ~ShowsEnd' /\ ~OnItsWay' /\ ~EndQueued'
          /\ From' = From /\ client'.shown = client.shown /\ client'.since = client.since
      BY <1>b, <1>c, <1>q, OrderFacts DEF ShowsEnd, EndQueued, OnItsWay, OutAway, From
    <2>2. /\ Line' = Line
          /\ \A i \in 1 .. Len(Line) : (EndAt(i)' <=> EndAt(i)) /\ (WipedAt(i)' <=> WipedAt(i))
      BY <1>b, <1>q, LineKept DEF DecInv
    <2>3. in'.len # 0
      BY <1>4, <1>b DEF InputInTurn, Asked
    <2>4. Last' = client.sent
      BY <1>b, <1>c, <2>3, DecFacts DEF Last, ToSubmit
    <2>5. CASE check.set
      <3>1. ~e /\ client.sent = client.since /\ client.since > 0 /\ client.shown = << >>
        BY <1>b, <1>c, <2>5 DEF Normal, NothingPasses, Ordered, AfterFlush
      <3>2. Len(client'.shown) = 0
        BY <3>1, <2>1
      <3>3. Went' = client.since
        BY <2>1, <3>1, <3>2, OrderFacts DEF Went, From
      <3>4. \A i \in 1 .. Len(Line) : WipedAt(i)' /\ ~EndAt(i)'
        <4>1. ASSUME NEW i \in 1 .. Len(Line) PROVE WipedAt(i)
          <5>1. CASE Unseen /\ Line[i].tag = mfc.tag
            BY <2>5, <5>1 DEF Ordered, AfterFlush, Wipe, WipedAt, Unseen
          <5>2. CASE \E j \in 1 .. Len(Coming) : Line[i] = Coming[j]
            BY <2>5, <5>2 DEF Ordered, AfterFlush, Wipe, WipedAt
          <5> QED BY <5>1, <5>2, <1>q, LineIs DEF DecInv
        <4>2. ASSUME NEW i \in 1 .. Len(Line) PROVE ~EndAt(i)
          BY <1>b, <1>q, EndInLine, OrderFacts DEF DecInv
        <4> QED BY <2>2, <4>1, <4>2
      <3> DEFINE n == Len(Line)
      <3>5. n \in Nat
        BY <1>q, LineIs DEF DecInv
      <3>6. Went' + (n - n) = Last'
        BY <2>4, <3>1, <3>3, <3>5, OrderFacts
      <3>7. Lined(n, n)'
        BY <2>2, <3>3, <3>4, <3>5, <3>6, <2>1 DEF Lined
      <3>8. n \in 0 .. Len(Line') /\ n \in 0 .. n
        BY <2>2, <3>5
      <3>9. InLine'
        BY <3>7, <3>8 DEF InLine
      <3> QED BY <2>1, <3>9
    <2>6. CASE ~check.set
      <3>1. dec.conf /\ Normal /\ ~ShowsEnd
        BY <1>b, <1>c, <1>q, <2>1, <2>6 DEF Normal, NothingPasses
      <3>2. Last = client.sent /\ Live
        BY <1>b DEF Last, Live, ToSubmit
      <3>3. Went' = Went
        BY <2>1, <1>b DEF Went, OnItsWay, OutAway
      <3>4. InLine'
        BY <1>q, <2>1, <2>2, <2>4, <3>1, <3>2, <3>3, InLineKept DEF Ordered, InOrder, DecInv
      <3> QED BY <2>1, <3>4
    <2> QED BY <2>5, <2>6
  <1>6. EosOut'
    BY <1>b, <1>c, <1>q, DecFacts, OrderFacts DEF Ordered, EosOut, Asked, DecOutput, OutFine, OutAway, NoOut
  <1> QED BY <1>1, <1>2, <1>3, <1>4, <1>5, <1>6 DEF Ordered

LEMMA DecDeliver_Ordered ==
  ASSUME Steady, Deliver
  PROVE  Handing' /\ (FullStream' => FullStream) /\ (FullStream /\ Ordered => Ordered')
  <1> USE DEF Steady
  <1>a. /\ UNCHANGED <<codec, thumb, dec, ring, buf, start, worker, mfc, in, ret, flushing>>
        /\ pc = "deliver" /\ pc' = "idle" /\ out' = NoOut /\ re' = (ret = "yet")
        /\ check' = IF check.on /\ Matches THEN NoCheck ELSE check
    BY DEF Deliver, stream, sems, fixed
  <1>c. /\ client'.full = client.full /\ client'.ended = client.ended /\ client'.sent = client.sent
        /\ client'.since = client.since /\ client'.bare = client.bare
        /\ client'.shown = (IF Passes /\ ~flushing /\ out.frame # 0
                            THEN Append(client.shown, [frame |-> out.frame, stamp |-> out.stamp])
                            ELSE client.shown)
        /\ client'.eos => client.eos \/ (Passes /\ out.eos)
        /\ NoCheck.on = FALSE /\ NoCheck.set = FALSE /\ NoOut.eos = FALSE /\ NoOut.frame = 0
    <2>1. CASE Passes /\ ~flushing
      <3>1. client' = [client EXCEPT !.shown = IF out.frame # 0
                                              THEN Append(@, [frame |-> out.frame, stamp |-> out.stamp])
                                              ELSE @,
                                    !.eos = @ \/ out.eos]
        BY <2>1 DEF Deliver
      <3>2. client'.eos = (client.eos \/ out.eos)
        BY <3>1, DecFacts, Zenon
      <3>3. /\ client'.full = client.full /\ client'.ended = client.ended /\ client'.sent = client.sent
            /\ client'.since = client.since /\ client'.bare = client.bare
            /\ client'.shown = (IF out.frame # 0
                                THEN Append(client.shown, [frame |-> out.frame, stamp |-> out.stamp])
                                ELSE client.shown)
        BY <3>1, DecFacts, Zenon
      <3> QED BY <2>1, <3>2, <3>3 DEF NoCheck, NoOut
    <2>2. CASE ~(Passes /\ ~flushing)
      <3>1. client' = client
        BY <2>2 DEF Deliver
      <3> QED BY <2>2, <3>1 DEF NoCheck, NoOut
    <2> QED BY <2>1, <2>2
  <1>q. /\ Coming' = Coming /\ (Showing' <=> Showing) /\ (DecInWork' <=> DecInWork)
        /\ (ShowsEnd' <=> ShowsEnd) /\ (EndQueued' <=> EndQueued)
        /\ (CodecFull' <=> CodecFull) /\ TagsInTurn /\ mfc' = mfc
        /\ \A i \in 1 .. Len(Coming) : ring'[Coming[i].tag] = ring[Coming[i].tag]
        /\ Showing => ring'[mfc.tag] = ring[mfc.tag]
    <2>1. /\ UNCHANGED <<mfc, thumb>> /\ dec'.ti = dec.ti /\ (DecInWork' <=> DecInWork)
          /\ DecInWork => buf'[mfc.inBuf] = buf[mfc.inBuf]
      BY <1>a, <1>c, DecFacts, OrderFacts DEF DecInWork, Other
    <2>2. /\ \A i \in 1 .. Len(Coming) : ring'[Coming[i].tag] = ring[Coming[i].tag]
          /\ Showing => ring'[mfc.tag] = ring[mfc.tag]
      BY <1>a, <1>c
    <2>3. TagsInTurn /\ Lag /\ WipedFirst
      BY DEF DecQueue
    <2> QED BY <2>1, <2>2, <2>3, QueueKept
  <1>h. Handing'
    BY <1>a, <1>c, DecFacts, OrderFacts DEF Handing, Asked, DecInput, Drains, DecOutput, OutFine, OutAway, NoOut
  <1>f. FullStream' <=> FullStream
    BY <1>a, <1>c DEF FullStream
  <1> SUFFICES ASSUME FullStream, Ordered PROVE Ordered'
    BY <1>h, <1>f
  <1>d. ~Normal /\ Normal' =>
          /\ ShowsEnd /\ client.since > 0 /\ client'.shown = << >> /\ ~re' /\ in.len = 0 /\ ret = "none"
          /\ client.sent = client.since + (IF client.bare THEN 0 ELSE 1) /\ client.ended
    <2> SUFFICES ASSUME ~Normal, Normal'
                 PROVE  /\ ShowsEnd /\ client.since > 0 /\ client'.shown = << >> /\ ~re' /\ in.len = 0
                        /\ ret = "none"
                        /\ client.sent = client.since + (IF client.bare THEN 0 ELSE 1) /\ client.ended
      OBVIOUS
    <2>1. /\ check.on /\ check.eos /\ Matches /\ ~check.set /\ ~flushing
      BY <1>a, OrderFacts DEF Normal, NothingPasses, NoCheck
    <2>2. out.eos /\ client.since > 0 /\ client.shown = << >>
          /\ client.sent = client.since + (IF client.bare THEN 0 ELSE 1)
      BY <2>1 DEF Matches, Ordered, AfterFlush
    <2>3. ~dec.first
      BY <2>2 DEF Ordered, BeforeFirst
    <2>4. ShowsEnd /\ out.frame = 0
      BY <2>1, <2>2, <2>3 DEF DecOutput, OutFine
    <2>5. ret = "none" /\ client.ended
      BY <2>1, <2>2 DEF Ordered, EosOut, Asked
    <2>6. ~re' /\ in.len = 0
      BY <1>a, <2>5, OrderFacts DEF Handing, Asked
    <2>7. client'.shown = << >>
      BY <1>c, <2>2, <2>4
    <2> QED BY <2>2, <2>4, <2>5, <2>6, <2>7
  <1>1. BeforeConfig'
    BY <1>a, <1>c, <1>d, <1>q, DecFacts, OrderFacts DEF Ordered, BeforeConfig, Handing, Asked, EmptyEos, Passes
  <1>2. BeforeFirst'
    BY <1>a, <1>c, <1>d, <1>q, DecFacts, OrderFacts DEF Ordered, BeforeFirst, ToSubmit, Handing, Asked, Passes
  <1>3. AfterFlush'
    BY <1>a, <1>c, <1>d, <1>q, DecFacts, OrderFacts DEF Ordered, AfterFlush, Wipe, Passes, NoCheck
  <1>4. InputInTurn'
    <2>1. in.eos => ~EndQueued'
      BY <1>a, <1>q DEF Ordered, InputInTurn, Asked
    <2>2. CASE Normal
      BY <1>a, <1>c, <1>q, <2>1, <2>2, DecFacts, OrderFacts DEF Ordered, InputInTurn, Asked, ToSubmit, Handing
    <2>3. CASE ~Normal /\ Normal'
      BY <1>a, <1>c, <1>q, <2>1, <1>d, <2>3 DEF InputInTurn, Asked, ToSubmit
    <2>4. CASE ~Normal'
      BY <1>a, <2>1, <2>4 DEF InputInTurn, Asked
    <2> QED BY <2>2, <2>3, <2>4
  <1>5. InOrder'
    <2> SUFFICES ASSUME dec'.conf, Normal'
                 PROVE  (~ShowsEnd => InLine)' /\ (ShowsEnd => Went = Last)' /\ (OnItsWay => out.frame = Went)'
      BY DEF InOrder
    <2>1. ~OnItsWay' /\ From' = From /\ Last' = Last /\ (Live' => Live)
      BY <1>a, <1>c, <1>q, DecFacts, OrderFacts DEF OnItsWay, OutAway, From, Last, Live, ToSubmit, Handing, Asked
    <2>2. CASE Normal
      <3>1. dec.conf /\ OutAway
        BY <1>a DEF OutAway
      <3>2. Went' = Went
        <4>1. CASE OnItsWay
          <5>1. /\ out.frame = Went /\ out.frame # 0 /\ out.stamp # -1 /\ ~check.set /\ ~NothingPasses /\ ~flushing
            BY <2>2, <3>1, <4>1 DEF Ordered, InOrder, Normal, OnItsWay
          <5>2. out.stamp = out.frame /\ ~out.eos
            BY <1>a, <5>1 DEF DecOutput, OutFine
          <5>3. check.on => Matches
            <6> SUFFICES ASSUME check.on PROVE Matches
              OBVIOUS
            <6>1. client.since > 0 /\ client.shown = << >> /\ check.stamp = client.since + 1 /\ ~check.eos
              BY <5>1 DEF Ordered, AfterFlush, NothingPasses
            <6>2. Len(client.shown) = 0
              BY <6>1
            <6>3. out.frame = client.since + 1
              BY <4>1, <5>1, <6>1, <6>2, OrderFacts DEF Went, From
            <6>4. out.eos = check.eos
              BY <5>2, <6>1 DEF DecOutShapes
            <6> QED BY <5>2, <6>1, <6>3, <6>4 DEF Matches
          <5>4. Passes
            BY <5>1, <5>3 DEF Passes
          <5>5. client'.shown = Append(client.shown, [frame |-> out.frame, stamp |-> out.stamp])
            BY <1>c, <5>1, <5>4
          <5>6. Len(client'.shown) = Len(client.shown) + 1 /\ Len(client.shown) \in Nat
            BY <5>5, OrderFacts
          <5> QED BY <2>1, <4>1, <5>6, OrderFacts DEF Went
        <4>2. CASE ~OnItsWay
          <5>1. out.frame # 0 => ~Passes
            <6> SUFFICES ASSUME out.frame # 0, Passes PROVE FALSE
              OBVIOUS
            <6>1. out.stamp = -1
              BY <3>1, <4>2 DEF OnItsWay
            <6>2. ~check.set /\ ~NothingPasses /\ out.frame \in Nat
              BY <2>2 DEF Normal, DecOutShapes
            <6>3. check.on /\ check.stamp # -1
              BY <6>1, <6>2 DEF FullStream, DecOutput, OutFine, OldHeldBack
            <6> QED BY <6>1, <6>3 DEF Passes, Matches
          <5>2. client'.shown = client.shown
            BY <1>c, <5>1
          <5> QED BY <2>1, <4>2, <5>2 DEF Went
        <4> QED BY <4>1, <4>2
      <3>3. ~ShowsEnd => InLine'
        BY <1>a, <1>c, <1>q, <2>1, <2>2, <3>1, <3>2, LineKept, InLineKept DEF Ordered, InOrder, DecInv
      <3> QED BY <1>q, <2>1, <2>2, <3>1, <3>2, <3>3 DEF Ordered, InOrder
    <2>3. CASE ~Normal
      <3>1. ShowsEnd /\ client.since > 0 /\ client'.shown = << >>
            /\ client.sent = client.since + (IF client.bare THEN 0 ELSE 1) /\ client.ended
        BY <1>d, <2>3
      <3>2. Len(client'.shown) = 0
        BY <3>1
      <3>3. Went' = client.since
        BY <2>1, <3>1, <3>2, OrderFacts DEF Went, From
      <3>4. Last' = client.since
        BY <2>1, <3>1, OrderFacts, DecFacts DEF Last
      <3> QED BY <1>q, <2>1, <3>1, <3>3, <3>4
    <2> QED BY <2>2, <2>3
  <1>6. EosOut'
    BY <1>a, <1>c, <1>d, <1>q, DecFacts, OrderFacts DEF Ordered, EosOut, Asked, DecOutput, OutFine, OutAway, NoOut, Passes, Handing
  <1> QED BY <1>1, <1>2, <1>3, <1>4, <1>5, <1>6 DEF Ordered

\* What goes from the line to the picture on show stays where it was.
LEMMA OnShow ==
  ASSUME NEW s \in Seq(HeldType), s # << >>
  PROVE  <<[frame |-> s[1].frame, tag |-> s[1].tag]>> \o Tail(s) = s
  <1> DEFINE x == [frame |-> s[1].frame, tag |-> s[1].tag]
  <1>1. Len(s) \in Nat \ {0} /\ s[1] \in HeldType
    OBVIOUS
  <1>2. x = s[1] /\ x \in HeldType
    BY <1>1 DEF HeldType
  <1> HIDE DEF x
  <1>3. Tail(s) \in Seq(HeldType) /\ Len(Tail(s)) = Len(s) - 1
        /\ \A i \in 1 .. Len(s) - 1 : Tail(s)[i] = s[i + 1]
    BY <1>1
  <1>4. <<x>> \o Tail(s) \in Seq(HeldType) /\ Len(<<x>> \o Tail(s)) = Len(s)
    BY <1>1, <1>2, <1>3
  <1>5. ASSUME NEW i \in 1 .. Len(s) PROVE (<<x>> \o Tail(s))[i] = s[i]
    <2>1. CASE i = 1
      BY <1>2, <1>3, <2>1
    <2>2. CASE i # 1
      <3>1. i - 1 \in 1 .. Len(s) - 1 /\ (i - 1) + 1 = i
        BY <1>1, <2>2
      <3>2. (<<x>> \o Tail(s))[i] = Tail(s)[i - 1]
        BY <1>1, <1>2, <1>3, <3>1
      <3> QED BY <1>3, <3>1, <3>2
    <2> QED BY <2>1, <2>2
  <1>6. <<x>> \o Tail(s) = s
    BY <1>4, <1>5
  <1> QED BY <1>6 DEF x

LEMMA DecExe_Ordered ==
  ASSUME Steady, Exe, Sound'
  PROVE  Handing' /\ (FullStream' => FullStream) /\ (FullStream /\ Ordered => Ordered')
  <1> USE DEF Steady
  <1>a. /\ UNCHANGED <<codec, thumb, ring, buf, pc, in, ret, re, out, check, flushing, client>>
        /\ dec'.ti = dec.ti /\ dec'.index = dec.index /\ dec'.first = dec.first
        /\ dec'.allDelay = dec.allDelay /\ dec'.conf = dec.conf
        /\ DecInWork /\ ~DecInWork' /\ ~Showing /\ Len(Coming) = Len(mfc.held) + 1
    <2>1. dec'.conf = dec.conf /\ codec' = codec
      <3>1. PICK ok \in BOOLEAN : dec' = [dec EXCEPT !.code = IF ok THEN "ok" ELSE "error"]
        BY DEF Exe
      <3> QED BY <3>1, OrderFacts DEF Exe, fixed, DecType
    <2> QED BY <2>1, Deciding
  <1>c. \/ /\ Coming' = Coming /\ mfc'.held = Coming /\ mfc'.status = "decoding"
           /\ Len(mfc.held) < Held
        \/ /\ Coming' = Tail(Coming) /\ mfc'.held = Tail(Coming) /\ mfc'.status = "display"
           /\ mfc'.frame = Coming[1].frame /\ mfc'.tag = Coming[1].tag
           /\ Len(mfc.held) = Held
    BY Deciding
  <1>d. /\ Coming \in Seq(HeldType) /\ Len(Coming) \in Nat \ {0} /\ Coming # << >>
        /\ pc \notin {"read", "submit"}
    <2>1. Coming \in Seq(HeldType) /\ Len(mfc.held) \in Nat
      BY ComingIs DEF DecInv
    <2>2. pc \notin {"read", "submit"}
      BY <1>a, DecFacts
    <2> QED BY <1>a, <2>1, <2>2
  <1>e. /\ Line = Coming /\ Line' = Coming
        /\ \A i \in 1 .. Len(Line) : (EndAt(i)' <=> EndAt(i)) /\ (WipedAt(i)' <=> WipedAt(i))
    <2>1. Line = Coming
      BY <1>a DEF Line, Unseen
    <2>2. CASE Coming' = Coming /\ mfc'.status = "decoding"
      <3>1. Line' = Coming
        BY <2>2 DEF Line, Unseen, Showing
      <3> QED BY <1>a, <2>1, <3>1 DEF EndAt, WipedAt
    <2>3. CASE /\ Coming' = Tail(Coming) /\ mfc'.status = "display"
               /\ mfc'.frame = Coming[1].frame /\ mfc'.tag = Coming[1].tag
      <3>1. Unseen'
        BY <1>a, <1>d, <2>3 DEF Unseen, Showing
      <3>2. Line' = <<[frame |-> Coming[1].frame, tag |-> Coming[1].tag]>> \o Tail(Coming)
        BY <2>3, <3>1 DEF Line
      <3>3. Line' = Coming
        BY <1>d, <3>2, OnShow
      <3> QED BY <1>a, <2>1, <3>3 DEF EndAt, WipedAt
    <2> QED BY <1>c, <2>2, <2>3
  <1>q. /\ EndQueued' <=> EndQueued
        /\ ShowsEnd' => EndAt(1) /\ EndQueued
        /\ CodecFull => CodecFull'
        /\ ~ShowsEnd /\ TagsInTurn
    <2>1. /\ EndQueued <=> \E j \in 1 .. Len(Coming) : ring[Coming[j].tag].eos
          /\ ~ShowsEnd /\ TagsInTurn
      BY <1>a DEF EndQueued, ShowsEnd, EndsBy, DecQueue
    <2>2. CASE Coming' = Coming /\ mfc'.status = "decoding" /\ Len(mfc.held) < Held
      <3>1. ~CodecFull
        BY <2>2, ComingIs DEF CodecFull, DecInv
      <3> QED BY <1>a, <2>1, <2>2, <3>1 DEF EndQueued, ShowsEnd, EndsBy, Showing
    <2>3. CASE /\ Coming' = Tail(Coming) /\ mfc'.held = Tail(Coming) /\ mfc'.status = "display"
               /\ mfc'.frame = Coming[1].frame /\ mfc'.tag = Coming[1].tag /\ Len(mfc.held) = Held
      <3>1. Len(Coming') = Len(Coming) - 1 /\ \A i \in 1 .. Len(Coming) - 1 : Coming'[i] = Coming[i + 1]
        BY <1>d, <2>3
      <3>2. ShowsEnd' <=> ring[Coming[1].tag].eos
        BY <1>a, <2>3 DEF ShowsEnd, Showing
      <3>3. EndQueued' <=> ring[Coming[1].tag].eos \/ \E j \in 1 .. Len(Coming) - 1 : ring[Coming[j + 1].tag].eos
        BY <1>a, <3>1, <3>2 DEF EndQueued, EndsBy
      <3>4. EndQueued' <=> EndQueued
        <4>1. ASSUME NEW j \in 1 .. Len(Coming), ring[Coming[j].tag].eos PROVE EndQueued'
          <5>1. CASE j = 1
            BY <3>3, <4>1, <5>1
          <5>2. CASE j # 1
            <6>1. j - 1 \in 1 .. Len(Coming) - 1 /\ (j - 1) + 1 = j
              BY <1>d, <5>2
            <6> QED BY <3>3, <4>1, <6>1
          <5> QED BY <5>1, <5>2
        <4>2. ASSUME EndQueued' PROVE EndQueued
          <5>1. 1 \in 1 .. Len(Coming) /\ \A j \in 1 .. Len(Coming) - 1 : j + 1 \in 1 .. Len(Coming)
            BY <1>d
          <5> QED BY <2>1, <3>3, <4>2, <5>1
        <4> QED BY <2>1, <4>1, <4>2
      <3>5. CodecFull'
        <4>1. Len(mfc'.held) = Held
          BY <1>a, <1>d, <2>3, <3>1, ComingIs DEF DecInv
        <4> QED BY <1>a, <2>3, <4>1 DEF CodecFull, Held
      <3>6. ShowsEnd' => EndAt(1) /\ EndQueued
        BY <1>e, <3>2, <3>3, <3>4 DEF EndAt
      <3> QED BY <2>1, <3>4, <3>5, <3>6
    <2> QED BY <1>c, <2>2, <2>3
  <1>h. Handing'
    BY <1>a DEF Handing, Asked
  <1>f. FullStream' <=> FullStream
    BY <1>a DEF FullStream
  <1> SUFFICES ASSUME FullStream, Ordered PROVE Ordered'
    BY <1>h, <1>f
  <1>1. BeforeConfig' /\ BeforeFirst' /\ EosOut'
    BY <1>a DEF Ordered, BeforeConfig, BeforeFirst, EosOut, Asked, EmptyEos, ToSubmit
  <1>3. AfterFlush'
    <2>1. check.set => (\A i \in 1 .. Len(Coming) : Wipe(Coming[i].tag))'
                       /\ (Showing => Wipe(mfc.tag))'
      <3> SUFFICES ASSUME check.set PROVE (\A i \in 1 .. Len(Coming) : Wipe(Coming[i].tag))'
                                          /\ (Showing => Wipe(mfc.tag))'
        OBVIOUS
      <3>1. \A i \in 1 .. Len(Coming) : ring'[Coming[i].tag].stamp = -1
        BY <1>a DEF Ordered, AfterFlush, Wipe
      <3>2. /\ 1 \in 1 .. Len(Coming)
            /\ Coming' = Tail(Coming) => Len(Coming') = Len(Coming) - 1 /\
                 \A i \in 1 .. Len(Coming) - 1 : Coming'[i] = Coming[i + 1] /\ i + 1 \in 1 .. Len(Coming)
        BY <1>d
      <3>3. \A i \in 1 .. Len(Coming') : ring'[Coming'[i].tag].stamp = -1
        <4>1. CASE Coming' = Coming
          BY <3>1, <4>1
        <4>2. CASE Coming' = Tail(Coming)
          BY <3>1, <3>2, <4>2
        <4> QED BY <1>c, <4>1, <4>2
      <3>4. Showing' => ring'[mfc'.tag].stamp = -1
        BY <1>c, <3>1, <3>2 DEF Showing
      <3> QED BY <3>3, <3>4 DEF Wipe
    <2> QED BY <1>a, <1>q, <2>1 DEF Ordered, AfterFlush
  <1>4. InputInTurn'
    BY <1>a, <1>d, <1>q DEF Ordered, InputInTurn, Asked, Normal, NothingPasses, ToSubmit, Other
  <1>5. InOrder'
    <2> SUFFICES ASSUME dec'.conf, Normal'
                 PROVE  (~ShowsEnd => InLine)' /\ (ShowsEnd => Went = Last)' /\ (OnItsWay => out.frame = Went)'
      BY DEF InOrder
    <2>1. dec.conf /\ Normal /\ InLine /\ (OnItsWay => out.frame = Went)
      BY <1>a, <1>q DEF Normal, NothingPasses, Ordered, InOrder
    <2>2. /\ Went' = Went /\ Last' = Last /\ (Live' <=> Live) /\ (OnItsWay' <=> OnItsWay)
          /\ client'.since = client.since
      BY <1>a, <1>q DEF Went, OnItsWay, OutAway, From, Last, Live, ToSubmit
    <2>3. InLine'
      BY <1>e, <1>q, <2>1, <2>2, InLineKept DEF DecInv
    <2>4. ASSUME ShowsEnd' PROVE Went = Last
      <3>1. PICK c \in 0 .. Len(Line) : \E w \in 0 .. c : Lined(w, c)
        BY <2>1 DEF InLine
      <3>2. PICK w \in 0 .. c : Lined(w, c)
        BY <3>1
      <3>3. EndAt(1) /\ EndQueued
        BY <1>q, <2>4
      <3>4. Len(Line) \in Nat
        BY <1>d, <1>e
      <3>5. ~(1 \in 1 .. c)
        BY <3>2, <3>3 DEF Lined
      <3>6. c = 0 /\ w = 0
        BY <3>4, <3>5
      <3>7. Went + (0 - 0) = Last
        BY <3>2, <3>3, <3>6 DEF Lined, Live
      <3>8. Went \in Int
        BY OrderFacts DEF Went
      <3> QED BY <3>7, <3>8
    <2> QED BY <1>a, <2>1, <2>2, <2>3, <2>4
  <1> QED BY <1>1, <1>3, <1>4, <1>5 DEF Ordered

\* One is read: the line is one shorter.
LEMMA LineMoves ==
  ASSUME DecShapes, TagsInTurn, Unseen, ~Unseen', Coming' = Coming, ring' = ring
  PROVE  /\ Len(Line') = Len(Line) - 1 /\ Len(Line) \in Nat \ {0}
         /\ \A i \in 1 .. Len(Line) - 1 :
              /\ i + 1 \in 1 .. Len(Line) /\ Line'[i] = Line[i + 1]
              /\ (EndAt(i)' <=> EndAt(i + 1)) /\ (WipedAt(i)' <=> WipedAt(i + 1))
  <1>1. Line' = Coming
    BY DEF Line
  <1>2. /\ Len(Line) = Len(Coming) + 1 /\ Len(Coming) \in Nat
        /\ \A i \in 1 .. Len(Coming) : Line[i + 1] = Coming[i]
    BY LineIs
  <1>3. Len(Line) - 1 = Len(Coming) /\ \A i \in 1 .. Len(Coming) : i + 1 \in 1 .. Len(Line)
    BY <1>2
  <1> QED BY <1>1, <1>2, <1>3 DEF EndAt, WipedAt

LEMMA DecRead_Ordered ==
  ASSUME Steady, Read
  PROVE  Handing' /\ (FullStream' => FullStream) /\ (FullStream /\ Ordered => Ordered')
  <1> USE DEF Steady
  <1>a. /\ UNCHANGED <<codec, thumb, ring, buf, start, worker, mfc, re, check, flushing, client>>
        /\ pc = "read" /\ pc' = "submit" /\ in' = [in EXCEPT !.eos = FALSE]
        /\ ret' = (IF Yet THEN "yet" ELSE "none")
        /\ dec' = [dec EXCEPT !.allDelay = in.eos \/ (@ /\ ~Stamped.eos),
                              !.index = IF Yet THEN Other(@) ELSE @]
        /\ out' = [frame |-> IF Shows THEN mfc.frame ELSE 0, stamp |-> Stamped.stamp,
                   eos |-> Stamped.eos]
    BY DEF Read, sems, fixed
  <1>b. /\ ~DecInWork /\ ~dec.first /\ dec.conf /\ mfc.frame \in Nat
        /\ (Showing <=> mfc.status = "display")
        /\ Showing => Stamped = ring[mfc.tag]
        /\ ~Showing => ~Stamped.eos
        /\ Stamped.eos <=> ShowsEnd
    <2>1. ~DecInWork /\ ~dec.first /\ dec.conf /\ mfc.frame \in Nat
      BY <1>a, DecFacts, OrderFacts DEF DecInv, DecShapes, DecoderOK, MfcType
    <2>4. Showing <=> mfc.status = "display"
      BY <2>1 DEF Showing
    <2>5. /\ Showing => mfc.tag \in 0 .. Ring - 1
          /\ ~Showing => mfc.tag = -1
      BY <2>4, TagsElsewhere DEF DecQueue, Lag, DecInv, DecShapes, DecoderOK, MfcType, Index
    <2>6. /\ Showing => Stamped = ring[mfc.tag]
          /\ ~Showing => ~Stamped.eos
      BY <2>5 DEF Stamped
    <2> QED BY <2>1, <2>4, <2>6 DEF ShowsEnd
  <1>c. /\ Yet <=> in.eos \/ (dec.allDelay /\ Showing /\ ~ShowsEnd)
        /\ dec'.ti = dec.ti /\ dec'.first = dec.first /\ dec'.exit = dec.exit /\ dec'.conf = dec.conf
        /\ dec'.index = (IF Yet THEN Other(dec.index) ELSE dec.index)
        /\ (dec'.allDelay <=> in.eos \/ (dec.allDelay /\ ~ShowsEnd))
        /\ in'.len = in.len /\ in'.prev = in.prev /\ ~in'.eos
        /\ (out'.eos <=> ShowsEnd)
        /\ out'.frame = (IF Showing /\ ~ShowsEnd THEN mfc.frame ELSE 0)
        /\ Showing => out'.stamp = ring[mfc.tag].stamp
    <2>1. Shows <=> Showing /\ ~ShowsEnd
      BY <1>b DEF Shows
    <2>2. /\ Yet \in BOOLEAN /\ in.eos \in BOOLEAN /\ dec.allDelay \in BOOLEAN
          /\ Yet <=> in.eos \/ (dec.allDelay /\ Showing /\ ~ShowsEnd)
      BY <2>1 DEF Yet, DecInv, DecShapes, BuffersOK, DecoderOK, DecType, Shows
    <2>3. /\ dec'.ti = dec.ti /\ dec'.first = dec.first /\ dec'.exit = dec.exit /\ dec'.conf = dec.conf
          /\ dec'.index = (IF Yet THEN Other(dec.index) ELSE dec.index)
          /\ dec'.allDelay = (in.eos \/ (dec.allDelay /\ ~Stamped.eos))
      BY <1>a, OrderFacts, Zenon DEF DecType
    <2>4. in'.len = in.len /\ in'.prev = in.prev /\ ~in'.eos
      BY <1>a DEF DecInv, DecShapes, BuffersOK
    <2>5. /\ out'.frame = (IF Shows THEN mfc.frame ELSE 0) /\ out'.stamp = Stamped.stamp
          /\ out'.eos = Stamped.eos
      BY <1>a
    <2> QED BY <1>b, <2>1, <2>2, <2>3, <2>4, <2>5
  <1>q. /\ Coming' = Coming /\ (Showing' <=> Showing) /\ (DecInWork' <=> DecInWork)
        /\ (ShowsEnd' <=> ShowsEnd) /\ (EndQueued' <=> EndQueued)
        /\ (CodecFull' <=> CodecFull) /\ TagsInTurn /\ ~Unseen' /\ (Unseen <=> Showing)
    <2>1. /\ UNCHANGED <<mfc, thumb>> /\ dec'.ti = dec.ti /\ (DecInWork' <=> DecInWork)
          /\ DecInWork => buf'[mfc.inBuf] = buf[mfc.inBuf]
      BY <1>a, <1>c DEF DecInWork
    <2>2. /\ \A i \in 1 .. Len(Coming) : ring'[Coming[i].tag] = ring[Coming[i].tag]
          /\ Showing => ring'[mfc.tag] = ring[mfc.tag]
      BY <1>a
    <2>3. TagsInTurn /\ Lag /\ WipedFirst
      BY DEF DecQueue
    <2>4. ~Unseen' /\ (Unseen <=> Showing)
      BY <1>a DEF Unseen
    <2> QED BY <2>1, <2>2, <2>3, <2>4, QueueKept
  <1>h. Handing'
    BY <1>a, <1>b, <1>c, DecFacts, OrderFacts DEF Handing, Asked
  <1>f. FullStream' <=> FullStream
    BY <1>a DEF FullStream
  <1> SUFFICES ASSUME FullStream, Ordered PROVE Ordered'
    BY <1>h, <1>f
  <1>1. BeforeConfig' /\ BeforeFirst'
    BY <1>b, <1>c DEF BeforeConfig, BeforeFirst
  <1>3. AfterFlush'
    BY <1>a, <1>q DEF Ordered, AfterFlush, Wipe
  <1>4. InputInTurn'
    BY <1>a, <1>b, <1>c, <1>q, DecFacts DEF Ordered, InputInTurn, Asked, Normal, NothingPasses, ToSubmit
  <1>5. InOrder'
    <2> SUFFICES ASSUME dec'.conf, Normal'
                 PROVE  (~ShowsEnd => InLine)' /\ (ShowsEnd => Went = Last)' /\ (OnItsWay => out.frame = Went)'
      BY DEF InOrder
    <2>1. dec.conf /\ Normal
      BY <1>a, <1>b DEF Normal, NothingPasses
    <2>2. /\ Last' = Last /\ (Live' <=> Live) /\ client' = client /\ From' = From
          /\ Went = From + Len(client.shown) /\ Went \in Nat
      <3>1. Last' = Last /\ (Live' <=> Live) /\ client' = client /\ From' = From
        BY <1>a, <1>c, <1>q DEF Last, Live, ToSubmit, From
      <3>2. Went = From + Len(client.shown) + 0
        BY <1>a DEF Went, OnItsWay, OutAway
      <3> QED BY <3>1, <3>2, OrderFacts
    <2>3. CASE ~Showing \/ ShowsEnd
      <3>1. ~OnItsWay' /\ Went' = Went
        <4>1. ~OnItsWay'
          BY <1>c, <2>3 DEF OnItsWay
        <4> QED BY <2>2, <4>1, OrderFacts DEF Went
      <3>2. ~ShowsEnd => InLine'
        <4> SUFFICES ASSUME ~ShowsEnd PROVE InLine'
          OBVIOUS
        <4>1. /\ Line' = Line
              /\ \A i \in 1 .. Len(Line) : (EndAt(i)' <=> EndAt(i)) /\ (WipedAt(i)' <=> WipedAt(i))
          BY <1>a, <1>q, <2>3 DEF Line, EndAt, WipedAt
        <4> QED BY <1>q, <2>1, <2>2, <3>1, <4>1, InLineKept DEF Ordered, InOrder, DecInv
      <3> QED BY <1>q, <2>1, <2>2, <3>1, <3>2 DEF Ordered, InOrder
    <2>4. CASE Showing /\ ~ShowsEnd
      <3>1. PICK c \in 0 .. Len(Line) : \E w \in 0 .. c : Lined(w, c)
        BY <2>1, <2>4 DEF Ordered, InOrder, InLine
      <3>2. PICK w \in 0 .. c : Lined(w, c)
        BY <3>1
      <3>3. /\ Unseen /\ DecShapes
            /\ Len(Line') = Len(Line) - 1 /\ Len(Line) \in Nat \ {0}
            /\ \A i \in 1 .. Len(Line) - 1 :
                 /\ i + 1 \in 1 .. Len(Line) /\ Line'[i] = Line[i + 1]
                 /\ (EndAt(i)' <=> EndAt(i + 1)) /\ (WipedAt(i)' <=> WipedAt(i + 1))
        BY <1>a, <1>q, <2>4, LineMoves DEF DecInv
      <3>4. c \in Nat /\ c >= 1 /\ c <= Len(Line) /\ w \in Nat /\ w <= c
        <4>1. ~EndAt(1)
          BY <1>q, <2>4, <3>3, EndInLine
        <4>2. c # 0
          <5> SUFFICES ASSUME c = 0 PROVE FALSE
            OBVIOUS
          <5>1. 0 + 1 = 1 /\ 0 < Len(Line)
            BY <3>3
          <5> QED BY <3>2, <4>1, <5>1 DEF Lined
        <4> QED BY <3>3, <4>2
      <3>5. Line[1] = [frame |-> mfc.frame, tag |-> mfc.tag] /\ (WipedAt(1) <=> 1 <= w)
        BY <1>q, <3>2, <3>3, LineIs DEF Lined
      <3>6. out'.stamp = -1 <=> 1 <= w
        BY <1>c, <2>4, <3>5 DEF WipedAt
      <3>v. PICK v \in Nat, d \in Nat : v = (IF w = 0 THEN 0 ELSE w - 1) /\ d = c - 1
        <4>1. (IF w = 0 THEN 0 ELSE w - 1) \in Nat /\ c - 1 \in Nat
          BY <3>4
        <4> QED BY <4>1
      <3>7. Went' = Went + (IF w = 0 THEN 1 ELSE 0) /\ (OnItsWay' => out'.frame = Went + 1 /\ w = 0)
        <4>1. CASE w = 0
          <5>1. Line[1].frame = Went + (1 - 0)
            BY <3>2, <3>4, <4>1 DEF Lined
          <5>2. out'.frame = Went + 1
            BY <1>c, <2>2, <2>4, <3>5, <5>1
          <5>3. OnItsWay'
            BY <1>a, <2>2, <3>6, <4>1, <5>2 DEF OnItsWay, OutAway
          <5> QED BY <2>2, <4>1, <5>2, <5>3, OrderFacts DEF Went
        <4>2. CASE w # 0
          <5>1. ~OnItsWay'
            BY <3>4, <3>6, <4>2 DEF OnItsWay
          <5> QED BY <2>2, <4>2, <5>1, OrderFacts DEF Went
        <4> QED BY <4>1, <4>2
      <3>8. /\ v \in Nat /\ d \in Nat /\ v <= d /\ d <= Len(Line') /\ Went + (c - w) = Went' + (d - v)
            /\ \A i \in 1 .. Len(Line) - 1 : i <= v <=> i + 1 <= w
            /\ \A i \in v + 1 .. d : i \in 1 .. Len(Line) - 1 /\ i + 1 \in w + 1 .. c
                                     /\ Went + ((i + 1) - w) = Went' + (i - v)
            /\ \A i \in 1 .. d : i \in 1 .. Len(Line) - 1 /\ i + 1 \in 1 .. c
            /\ d < Len(Line') => c < Len(Line) /\ d + 1 = c /\ d + 1 \in 1 .. Len(Line) - 1
            /\ v > 0 => w > 0 /\ Went' = Went
        <4> DEFINE n == Len(Line)
        <4>1. n \in Nat /\ c \in Nat /\ w \in Nat /\ c >= 1 /\ c <= n /\ w <= c /\ Went \in Nat
              /\ Len(Line') = n - 1 /\ Went' = Went + (IF w = 0 THEN 1 ELSE 0)
          BY <2>2, <3>3, <3>4, <3>7
        <4> HIDE DEF n
        <4>2. CASE w = 0
          BY <3>v, <4>1, <4>2 DEF n
        <4>3. CASE w # 0
          BY <3>v, <4>1, <4>3 DEF n
        <4> QED BY <4>2, <4>3
      <3>9. /\ \A i \in 1 .. Len(Line') : WipedAt(i)' <=> i <= v
            /\ \A i \in 1 .. d : ~EndAt(i)'
            /\ d < Len(Line') => EndAt(d + 1)'
            /\ \A i \in v + 1 .. d : Line'[i].frame = Went' + (i - v)
            /\ v > 0 => Went' = client'.since
            /\ Live' => Went' + (d - v) = Last'
        BY <2>2, <3>2, <3>3, <3>8 DEF Lined
      <3>10. Lined(v, d)'
        BY <3>9 DEF Lined
      <3>11. InLine'
        BY <3>8, <3>10 DEF InLine
      <3> QED BY <1>q, <2>2, <2>4, <3>7, <3>11
    <2> QED BY <2>3, <2>4
  <1>6. EosOut'
    BY <1>a, <1>b, <1>c, <1>q, OrderFacts DEF Ordered, EosOut, Asked, InputInTurn, EndQueued
  <1> QED BY <1>1, <1>3, <1>4, <1>5, <1>6 DEF Ordered

LEMMA DecSubmit_Ordered ==
  ASSUME Steady, Submit
  PROVE  Handing' /\ (FullStream' => FullStream) /\ (FullStream /\ Ordered => Ordered')
  <1> USE DEF Steady
  <1> DEFINE x == [frame |-> buf[dec.index], tag |-> dec.ti]
  <1>a. /\ UNCHANGED <<codec, thumb, ring, buf, worker, in, ret, re, out, check, flushing, client>>
        /\ pc = "submit" /\ pc' = "posted" /\ buf[dec.index] # 0 /\ in.len # 0 /\ ~out.eos
        /\ mfc'.held = mfc.held /\ DecInWork' /\ ~Showing' /\ dec.conf /\ dec'.conf = dec.conf
        /\ dec'.index = dec.index /\ dec'.first = dec.first /\ dec'.allDelay = dec.allDelay
        /\ Coming = mfc.held /\ Coming' = Append(mfc.held, x) /\ Held' = Held
    <2>1. codec' = codec /\ dec'.conf = dec.conf
      <3>1. dec' = [dec EXCEPT !.ti = (@ + 1) % Ring]
        BY DEF Submit
      <3> QED BY <3>1, OrderFacts DEF Submit, fixed, DecType
    <2> QED BY <2>1, Submitting, OrderFacts DEF Held
  <1>b. Coming \in Seq(HeldType) /\ x \in HeldType /\ dec.ti \in Index /\ TagsInTurn
    BY <1>a, ComingIs, DecFacts DEF DecInv, HeldType, DecQueue
  <1>c. x.tag = dec.ti /\ x.frame = buf[dec.index]
    OBVIOUS
  <1> HIDE DEF x
  <1>n. PICK n \in Nat : n = Len(Line)
    BY <1>b, LineIs DEF DecInv
  <1>d. /\ Line = Coming /\ Line' = Append(Line, x)
        /\ Len(Line') = n + 1 /\ Line'[n + 1] = x /\ \A i \in 1 .. n : Line'[i] = Line[i]
    <2>1. Line = Coming /\ Line' = Append(Coming, x)
      BY <1>a DEF Line, Unseen
    <2> QED BY <1>b, <1>n, <2>1
  <1>e. /\ ~ShowsEnd /\ ~ShowsEnd' /\ ToSubmit /\ ~ToSubmit'
        /\ ring[dec.ti].stamp # -1 /\ (ring[dec.ti].eos => client.ended)
    <2>1. ~ShowsEnd /\ ~ShowsEnd' /\ ToSubmit /\ ~ToSubmit'
      BY <1>a DEF DecOutput, OutFine, ShowsEnd, ToSubmit
    <2>2. ring[dec.ti].stamp = in.stamp /\ (ring[dec.ti].eos => client.ended) /\ in.stamp \in Nat
      BY <1>a, DecFacts DEF DecInput, NotedOK, Noted
    <2> QED BY <2>1, <2>2
  <1>h. Handing'
    BY <1>a, OrderFacts DEF Handing, Asked, DecInput, NotedOK
  <1>f. FullStream' <=> FullStream
    BY <1>a DEF FullStream
  <1> SUFFICES ASSUME FullStream, Ordered PROVE Ordered'
    BY <1>h, <1>f
  <1>1. BeforeConfig' /\ BeforeFirst' /\ EosOut'
    BY <1>a DEF Ordered, BeforeConfig, BeforeFirst, EosOut, Asked
  <1>3. AfterFlush'
    BY <1>a, OrderFacts DEF Ordered, AfterFlush, CodecFull
  <1>4. InputInTurn'
    BY <1>a, <1>e, DecFacts, OrderFacts DEF Ordered, InputInTurn, Asked, Normal, NothingPasses
  <1>5. InOrder'
    <2> SUFFICES ASSUME dec'.conf, Normal'
                 PROVE  InLine' /\ (OnItsWay => out.frame = Went)'
      BY <1>e DEF InOrder
    <2>1. dec.conf /\ Normal /\ InLine /\ (OnItsWay => out.frame = Went)
      BY <1>a, <1>e DEF Normal, NothingPasses, Ordered, InOrder
    <2>2. /\ Went' = Went /\ (OnItsWay' <=> OnItsWay) /\ client' = client /\ Went \in Int
          /\ Last = IF client.ended /\ client.bare THEN client.sent ELSE client.sent - 1
          /\ Last' = IF client.ended THEN Last ELSE Last + 1
      <3>1. Went' = Went /\ (OnItsWay' <=> OnItsWay) /\ client' = client
        BY <1>a DEF Went, OnItsWay, OutAway, From
      <3>2. Went \in Int
        BY OrderFacts DEF Went
      <3> QED BY <1>e, <3>1, <3>2, DecFacts DEF Last
    <2>3. PICK c \in 0 .. n : \E w \in 0 .. c : Lined(w, c)
      BY <1>n, <2>1 DEF InLine
    <2>4. PICK w \in 0 .. c : Lined(w, c)
      BY <2>3
    <2>5. /\ \A i \in 1 .. n : (EndAt(i)' <=> EndAt(i)) /\ (WipedAt(i)' <=> WipedAt(i))
          /\ (EndAt(n + 1)' <=> ring[dec.ti].eos) /\ ~WipedAt(n + 1)'
      BY <1>a, <1>c, <1>d, <1>e DEF EndAt, WipedAt
    <2>6. /\ \A i \in 1 .. n : WipedAt(i) <=> i <= w
          /\ \A i \in 1 .. c : ~EndAt(i)
          /\ c < n => EndAt(c + 1)
          /\ \A i \in w + 1 .. c : Line[i].frame = Went + (i - w)
          /\ w > 0 => Went = client.since
          /\ Went + (c - w) = Last
      BY <1>e, <1>n, <2>4 DEF Lined, Live
    <2>7. \A i \in 1 .. Len(Line') : WipedAt(i)' <=> i <= w
      <3>1. 1 .. Len(Line') = 1 .. n \cup {n + 1} /\ ~(n + 1 <= w)
        BY <1>d, <2>3, <2>4
      <3> QED BY <2>5, <2>6, <3>1
    <2>8. CASE client.ended
      <3>1. c = n => ring[dec.ti].eos
        <4> SUFFICES ASSUME c = n PROVE ~EndQueued
          BY <1>a, <1>e, <2>1, <2>8 DEF DecInput, EndKnown, Normal
        <4>1. EndQueued => \E i \in 1 .. n : EndAt(i)
          BY <1>b, <1>e, <1>n, EndInLine DEF DecInv
        <4> QED BY <2>6, <4>1
      <3>2. /\ \A i \in 1 .. c : i \in 1 .. n /\ ~EndAt(i)'
            /\ EndAt(c + 1)'
            /\ \A i \in w + 1 .. c : i \in 1 .. n /\ Line'[i].frame = Went + (i - w)
        <4>1. c < n => c + 1 \in 1 .. n
          BY <1>d
        <4>2. /\ \A i \in 1 .. c : i \in 1 .. n
              /\ \A i \in w + 1 .. c : i \in 1 .. n
          BY <1>d, <2>3, <2>4
        <4>3. c < n \/ c = n
          BY <1>d, <2>3
        <4> QED BY <1>d, <2>5, <2>6, <3>1, <4>1, <4>2, <4>3
      <3>3. c \in 0 .. Len(Line')
        BY <1>d, <2>3
      <3> QED BY <1>a, <2>1, <2>2, <2>4, <2>6, <2>7, <2>8, <3>2, <3>3 DEF InLine, Lined
    <2>9. CASE ~client.ended
      <3>1. c = n
        <4> SUFFICES ASSUME c # n PROVE FALSE
          OBVIOUS
        <4>1. c + 1 \in 1 .. n /\ EndAt(c + 1)
          BY <1>d, <2>3, <2>6
        <4>2. EndQueued
          BY <1>b, <4>1, <1>n, EndInLine DEF DecInv
        <4> QED BY <2>9, <4>2, OrderFacts
      <3>2. buf[dec.index] = client.sent /\ ~ring[dec.ti].eos
        BY <1>e, <2>1, <2>9 DEF Ordered, InputInTurn, Asked
      <3>3. x.frame = Went + ((n + 1) - w) /\ Went + ((n + 1) - w) = Last'
        <4>1. Went + (n - w) = client.sent - 1 /\ Last' = client.sent
          BY <2>2, <2>6, <2>9, <3>1, DecFacts
        <4> QED BY <1>c, <1>d, <2>2, <2>4, <3>1, <3>2, <4>1, DecFacts
      <3>4. /\ \A i \in 1 .. n + 1 : ~EndAt(i)'
            /\ \A i \in w + 1 .. n + 1 : Line'[i].frame = Went + (i - w)
        <4>1. /\ 1 .. n + 1 = 1 .. n \cup {n + 1}
              /\ w + 1 .. n + 1 = w + 1 .. n \cup {n + 1}
              /\ \A i \in w + 1 .. n : i \in 1 .. n
          BY <1>d, <2>4, <3>1
        <4> QED BY <1>d, <2>5, <2>6, <3>1, <3>2, <3>3, <4>1
      <3>5. n + 1 \in 0 .. Len(Line') /\ w \in 0 .. n + 1 /\ ~(n + 1 < Len(Line'))
        BY <1>d, <2>4, <3>1
      <3>6. InLine'
        <4> DEFINE d == n + 1
        <4>1. /\ d \in 0 .. Len(Line') /\ w \in 0 .. d /\ ~(d < Len(Line'))
              /\ \A i \in 1 .. d : ~EndAt(i)'
              /\ \A i \in w + 1 .. d : Line'[i].frame = Went + (i - w)
              /\ Went + (d - w) = Last'
          BY <3>3, <3>4, <3>5
        <4> HIDE DEF d
        <4> QED BY <2>2, <2>6, <2>7, <4>1 DEF InLine, Lined
      <3> QED BY <2>1, <2>2, <1>a, <3>6
    <2> QED BY <2>8, <2>9
  <1> QED BY <1>1, <1>3, <1>4, <1>5 DEF Ordered

\* A flush: if the codec is full, the order starts anew.
LEMMA DecFlushResets_Ordered ==
  ASSUME Steady, FlushResets
  PROVE  Handing' /\ (FullStream' => Ordered')
  <1> USE DEF Steady
  <1>a. /\ UNCHANGED <<codec, thumb, buf, start, worker, mfc, pc, in, ret, out>>
        /\ flushing /\ ~flushing' /\ ~re'
        /\ ring' = [i \in 0 .. Ring - 1 |-> Wiped]
        /\ check' = [check EXCEPT !.set = TRUE, !.on = FALSE]
        /\ dec' = [dec EXCEPT !.allDelay = FALSE]
    BY DEF FlushResets, fixed, sems
  <1>b. /\ in.len = 0 /\ ~in.eos /\ check'.set /\ ~check'.on
        /\ dec'.ti = dec.ti /\ dec'.first = dec.first /\ dec'.exit = dec.exit /\ dec'.conf = dec.conf
        /\ \A t \in Index : ring'[t].stamp = -1
        /\ pc # "posted"
    BY <1>a, DecFacts, OrderFacts DEF DecType, DecOutShapes, Wiped, Index
  <1>c. /\ client'.sent = client.sent /\ client'.since = client.sent /\ client'.shown = << >>
        /\ client'.eos = FALSE
        /\ client'.full = IF start > 0 \/ worker = "exe" THEN Len(mfc.held) = Held
                          ELSE mfc.status = "display"
    BY DecFacts DEF FlushResets
  <1>h. Handing'
    BY <1>a, <1>b, <1>c, OrderFacts DEF Handing, Asked
  <1> SUFFICES ASSUME FullStream' PROVE Ordered'
    BY <1>h
  <1>1. CodecFull /\ CodecFull'
    <2>1. CodecFull
      BY <1>a, <1>c, DecFacts DEF FullStream, CodecFull, DecInWork, DecQueue, Lag
    <2> QED BY <1>a, <1>b, <2>1 DEF CodecFull, DecInWork, Held
  <1>2. ~dec.first /\ dec.conf /\ client.sent > 0
    BY <1>b, <1>1, DecFacts DEF DecInput, Drains, CodecFull, Handing, Asked
  <1>3. /\ \A i \in 1 .. Len(Coming') : ring'[Coming'[i].tag].stamp = -1
        /\ Showing' => ring'[mfc'.tag].stamp = -1
    <2>1. Coming' = Coming /\ (Showing' <=> Showing) /\ mfc' = mfc
      BY <1>a, <1>b DEF Coming, Showing, DecInWork
    <2>2. /\ \A i \in 1 .. Len(Coming) : Coming[i].tag \in Index
          /\ Showing => mfc.tag \in Index
      BY ComingIs, TagsElsewhere DEF DecInv, DecQueue
    <2> QED BY <1>b, <2>1, <2>2
  <1>4. BeforeConfig' /\ BeforeFirst' /\ EosOut'
    BY <1>b, <1>c, <1>2 DEF BeforeConfig, BeforeFirst, EosOut, Asked
  <1>5. AfterFlush'
    BY <1>b, <1>c, <1>1, <1>2, <1>3 DEF AfterFlush, Wipe
  <1>6. InputInTurn' /\ InOrder'
    BY <1>a, <1>b DEF InputInTurn, Asked, InOrder, Normal
  <1> QED BY <1>4, <1>5, <1>6 DEF Ordered

\* The steps together, and what the client was shown.
LEMMA DecNextOrdered ==
  ASSUME Steady, FullStream => Ordered, Next, Running', Sound'
  PROVE  Handing' /\ (FullStream' => Ordered')
  <1>1. ~Terminate /\ ~Joined
    BY DEF Terminate, Joined, Running
  <1>2. CASE FlushResets
    BY <1>2, DecFlushResets_Ordered
  <1>3. CASE ~FlushResets
    BY <1>1, <1>3, DecFeed_Ordered, DecAgain_Ordered, DecConfigure_Ordered, DecNothingToDecode_Ordered,
       DecLook_Ordered, DecWaitDone_Ordered, DecRead_Ordered, DecSubmit_Ordered, DecSkipSubmit_Ordered,
       DecPosted_Ordered, DecDeliver_Ordered, DecTake_Ordered, DecExe_Ordered, DecFlush_Ordered
    DEF Next, Call, DecodeThread
  <1> QED BY <1>2, <1>3

LEMMA DecNextInOrder ==
  ASSUME DecInv, DecOutShapes, Running /\ Sound => Steady /\ (FullStream => Ordered),
         ShownInOrder, EosAfterAll, Next
  PROVE  ShownInOrder' /\ EosAfterAll'
  <1> SUFFICES ASSUME Sound', client'.full, ~thumb'
               PROVE  /\ \A i \in DOMAIN client'.shown : client'.shown[i].frame = From' + i
                      /\ client'.eos /\ client'.bare /\ dec'.conf =>
                           Len(client'.shown) = client'.sent - From'
    BY DEF ShownInOrder, EosAfterAll
  <1>1. Sound
    BY DecStaysSound
  <1>2. /\ DOMAIN client = {"sent", "ended", "bare", "since", "full", "shown", "eos"}
        /\ dec \in DecType /\ client.shown \in Seq(ShownType) /\ From \in Nat /\ client.sent \in Nat
    <2>1. /\ DOMAIN client = {"sent", "ended", "bare", "since", "full", "shown", "eos"}
          /\ dec \in DecType /\ client.shown \in Seq(ShownType) /\ client.since \in Nat
          /\ client.sent \in Nat
      BY DEF DecInv, DecShapes, DecoderOK, FeedOK, DecOutShapes
    <2> QED BY <2>1 DEF From
  <1>3. codec' = codec /\ thumb' = thumb
    BY DEF Next, Call, DecodeThread, Feed, Again, ConfigureH264, ConfigureMpeg4, Configured,
           NothingToDecode, Look, WaitDone, Read, Submit, SkipSubmit, Posted, Deliver, Take, Exe,
           Flush, FlushResets, Terminate, Joined, fixed
  <1>4. CASE FlushResets
    <2>1. client'.shown = << >> /\ client'.eos = FALSE
      BY <1>2, <1>4 DEF FlushResets
    <2> QED BY <2>1
  <1>5. CASE ~Deliver /\ ~FlushResets
    <2>1. /\ client'.shown = client.shown /\ client'.full = client.full /\ client'.since = client.since
          /\ client'.eos = client.eos
      BY <1>2, <1>5
         DEF Next, Call, DecodeThread, Feed, Again, ConfigureH264, ConfigureMpeg4, Configured,
             NothingToDecode, Look, WaitDone, Read, Submit, SkipSubmit, Posted, Take, Exe,
             Flush, Terminate, Joined
    <2>2. From' = From
      BY <1>3, <2>1 DEF From
    <2>3. \A i \in DOMAIN client.shown : client.shown[i].frame = From + i
      BY <1>1, <1>3, <2>1 DEF ShownInOrder
    <2>4. ASSUME client.eos, client'.bare, dec'.conf PROVE Len(client.shown) = client'.sent - From
      <3>1. client.bare /\ dec.conf => Len(client.shown) = client.sent - From
        BY <1>1, <1>3, <2>1, <2>4 DEF EosAfterAll
      <3>2. CASE ~Running
        <4>1. client' = client /\ dec'.conf = dec.conf
          BY <1>2, <1>5, <3>2
             DEF Running, Next, Call, DecodeThread, Feed, Again, ConfigureH264, ConfigureMpeg4,
                 NothingToDecode, Look, WaitDone, Read, Submit, SkipSubmit, Posted, Take, Exe,
                 Flush, Terminate, Joined, DecType
        <4> QED BY <2>4, <3>1, <4>1
      <3>3. CASE Running
        <4>1. client.ended /\ pc = "idle"
          BY <1>1, <1>3, <2>1, <2>4, <3>3 DEF Ordered, EosOut, Asked, FullStream
        <4>2. client' = client /\ dec'.conf = dec.conf
          BY <1>2, <1>5, <4>1
             DEF Next, Call, DecodeThread, Feed, Again, ConfigureH264, ConfigureMpeg4,
                 NothingToDecode, Look, WaitDone, Read, Submit, SkipSubmit, Posted, Take, Exe,
                 Flush, Terminate, Joined, DecType
        <4> QED BY <2>4, <3>1, <4>2
      <3> QED BY <3>2, <3>3
    <2> QED BY <2>1, <2>2, <2>3, <2>4
  <1>6. CASE Deliver
    <2>1. /\ client'.full = client.full /\ client'.since = client.since /\ client'.bare = client.bare
          /\ client'.sent = client.sent /\ dec' = dec /\ pc = "deliver" /\ From' = From
          /\ \/ client' = client
             \/ /\ Passes /\ ~flushing
                /\ client'.shown = (IF out.frame # 0
                                   THEN Append(client.shown, [frame |-> out.frame, stamp |-> out.stamp])
                                   ELSE client.shown)
                /\ client'.eos = (client.eos \/ out.eos)
      <3>1. CASE Passes /\ ~flushing
        <4>1. client' = [client EXCEPT !.shown = IF out.frame # 0
                                                THEN Append(@, [frame |-> out.frame, stamp |-> out.stamp])
                                                ELSE @,
                                      !.eos = @ \/ out.eos]
          BY <1>6, <3>1 DEF Deliver
        <4>2. client'.eos = (client.eos \/ out.eos)
          BY <1>2, <4>1, Zenon
        <4>3. /\ client'.full = client.full /\ client'.since = client.since /\ client'.bare = client.bare
              /\ client'.sent = client.sent
              /\ client'.shown = (IF out.frame # 0
                                 THEN Append(client.shown, [frame |-> out.frame, stamp |-> out.stamp])
                                 ELSE client.shown)
          BY <1>2, <4>1, Zenon
        <4>4. From' = From
          BY <1>3, <4>3 DEF From
        <4> QED BY <1>6, <3>1, <4>2, <4>3, <4>4 DEF Deliver
      <3>2. CASE ~(Passes /\ ~flushing)
        BY <1>6, <3>2 DEF Deliver, From, fixed
      <3> QED BY <3>1, <3>2
    <2>2. Steady /\ FullStream /\ Ordered
      BY <1>1, <1>3, <2>1 DEF Running, FullStream
    <2>3. \A i \in DOMAIN client.shown : client.shown[i].frame = From + i
      BY <1>1, <1>3, <2>1 DEF ShownInOrder
    <2>4. ~client.eos
      BY <2>1, <2>2 DEF Ordered, EosOut, Asked
    <2>5. CASE client' = client
      BY <2>1, <2>3, <2>4, <2>5
    <2>6. CASE client' # client
      <3>1. Passes /\ ~flushing /\ ~check.set
        BY <2>1, <2>6 DEF Passes
      <3>2. ASSUME out.frame # 0 PROVE out.frame = From + Len(client.shown) + 1 /\ ~out.eos
        <4>1. ~out.eos
          BY <2>2, <3>2 DEF Steady, DecOutput, OutFine
        <4>2. ~NothingPasses
          BY <3>1, <4>1 DEF Passes, Matches, NothingPasses
        <4>3. out.stamp # -1
          <5> SUFFICES ASSUME out.stamp = -1 PROVE FALSE
            OBVIOUS
          <5>1. out.frame \in Nat
            BY <2>2 DEF Steady, DecOutShapes
          <5>2. check.on
            BY <2>2, <3>1, <3>2, <4>2, <5>1 DEF Steady, DecOutput, OutFine, FullStream
          <5>3. check.stamp # -1
            BY <2>2, <5>2 DEF Steady, DecOutput, OldHeldBack
          <5> QED BY <3>1, <5>2, <5>3 DEF Passes, Matches
        <4>4. OnItsWay
          BY <2>1, <3>2, <4>3 DEF OnItsWay, OutAway
        <4>5. dec.conf /\ Normal
          <5>1. ~dec.first
            BY <2>2, <3>2 DEF Ordered, BeforeFirst
          <5> QED BY <2>2, <3>1, <4>2, <5>1, DecFacts DEF Normal, Steady
        <4>6. out.frame = Went
          BY <2>2, <4>4, <4>5 DEF Ordered, InOrder
        <4> QED BY <4>1, <4>4, <4>6 DEF Went
      <3>3. \A i \in DOMAIN client'.shown : client'.shown[i].frame = From' + i
        <4>1. CASE out.frame = 0
          BY <2>1, <2>3, <2>6, <4>1
        <4>2. CASE out.frame # 0
          <5> DEFINE x == [frame |-> out.frame, stamp |-> out.stamp]
          <5>1. x \in ShownType /\ x.frame = From + (Len(client.shown) + 1)
            BY <1>2, <3>2, <4>2 DEF DecOutShapes, ShownType
          <5>2. client'.shown = Append(client.shown, x)
            BY <2>1, <2>6, <4>2
          <5> HIDE DEF x
          <5>3. /\ DOMAIN client'.shown = 1 .. Len(client.shown) + 1 /\ Len(client.shown) \in Nat
                /\ \A i \in 1 .. Len(client.shown) : client'.shown[i] = client.shown[i]
                /\ client'.shown[Len(client.shown) + 1] = x
                /\ DOMAIN client.shown = 1 .. Len(client.shown)
            BY <1>2, <5>1, <5>2
          <5>4. 1 .. Len(client.shown) + 1 = 1 .. Len(client.shown) \cup {Len(client.shown) + 1}
            BY <5>3
          <5> QED BY <2>1, <2>3, <5>1, <5>3, <5>4
        <4> QED BY <4>1, <4>2
      <3>4. ASSUME client'.eos, client'.bare, dec'.conf PROVE Len(client'.shown) = client'.sent - From'
        <4>1. out.eos /\ client.bare /\ dec.conf
          BY <2>1, <2>4, <2>6, <3>4
        <4>2. out.frame = 0 /\ ~dec.first /\ client.ended
          BY <2>2, <3>1, <3>2, <4>1 DEF Ordered, EosOut, Asked
        <4>3. ShowsEnd
          BY <2>2, <3>1, <4>1, <4>2 DEF Steady, DecOutput, OutFine
        <4>4. CASE Normal
          <5>1. Went = client.sent
            BY <2>2, <4>1, <4>2, <4>3, <4>4 DEF Ordered, InOrder, Last
          <5>2. Went = From + Len(client.shown)
            BY <1>2, <4>2 DEF Went, OnItsWay
          <5> QED BY <1>2, <2>1, <2>6, <4>2, <5>1, <5>2
        <4>5. CASE ~Normal
          <5>1. NothingPasses /\ check.on /\ check.eos
            BY <3>1, <4>5 DEF Normal, NothingPasses
          <5>2. client.sent = client.since /\ client.shown = << >> /\ client.since > 0
            BY <2>2, <4>1, <5>1, OrderFacts DEF Ordered, AfterFlush
          <5>3. From = client.since /\ Len(client.shown) = 0
            BY <5>2 DEF From
          <5> QED BY <1>2, <2>1, <2>6, <4>2, <5>2, <5>3
        <4> QED BY <4>4, <4>5
      <3> QED BY <3>3, <3>4
    <2> QED BY <2>5, <2>6
  <1> QED BY <1>4, <1>5, <1>6

\* With the invariant of the stamps, it is inductive.
OrderInv == StampInv /\ DecOrdered

LEMMA OrderInit == Init => OrderInv
  <1> SUFFICES ASSUME Init PROVE OrderInv
    OBVIOUS
  <1>1. StampInv
    BY StampInit
  <1>2. Handing /\ BeforeConfig /\ BeforeFirst /\ AfterFlush /\ InOrder /\ EosOut
    BY DEF Init, Handing, Asked, BeforeConfig, BeforeFirst, AfterFlush, InOrder, EosOut, NoData, NoOut, NoCheck
  <1>3. InputInTurn
    BY DEF Init, InputInTurn, Asked, NoData, NoCheck
  <1>4. ShownInOrder /\ EosAfterAll
    BY DEF Init, ShownInOrder, EosAfterAll
  <1> QED BY <1>1, <1>2, <1>3, <1>4 DEF OrderInv, DecOrdered, Ordered

LEMMA OrderNext == OrderInv /\ [Next]_vars => OrderInv'
  <1> SUFFICES ASSUME OrderInv, [Next]_vars PROVE OrderInv'
    OBVIOUS
  <1>1. StampInv'
    BY StampNext DEF OrderInv
  <1>2. Running /\ Sound => Steady /\ (FullStream => Ordered)
    BY DEF OrderInv, DecOrdered, StampInv, DecStamped, Steady
  <1>3. CASE Next
    <2>1. Running' /\ Sound' => Handing' /\ (FullStream' => Ordered')
      BY <1>2, <1>3, DecStaysSound, DecNextOrdered DEF OrderInv, StampInv
    <2>2. ShownInOrder' /\ EosAfterAll'
      BY <1>2, <1>3, DecNextInOrder DEF OrderInv, StampInv, DecOrdered
    <2> QED BY <1>1, <2>1, <2>2 DEF OrderInv, DecOrdered
  <1>4. CASE UNCHANGED vars
    <2>1. UNCHANGED <<codec, thumb, dec, ring, buf, size, start, end, worker, mfc, pc, in, out, ret, re,
                      check, flushing, client, errors>>
      BY <1>4 DEF vars, fixed, stream, sems, data
    <2>2. /\ (Running' <=> Running) /\ (Sound' <=> Sound) /\ (FullStream' <=> FullStream)
          /\ Handing => Handing'
          /\ ShownInOrder => ShownInOrder'
          /\ EosAfterAll => EosAfterAll'
      BY <2>1 DEF Running, Sound, FullStream, Handing, Asked, ShownInOrder, EosAfterAll, From
    <2>3. Ordered => Ordered'
      <3>1. /\ Coming' = Coming /\ (Showing' <=> Showing) /\ (ShowsEnd' <=> ShowsEnd)
            /\ (EndQueued' <=> EndQueued) /\ (CodecFull' <=> CodecFull) /\ (Normal' <=> Normal)
            /\ (ToSubmit' <=> ToSubmit)
        BY <2>1 DEF Coming, Showing, ShowsEnd, EndQueued, EndsBy, CodecFull, Normal, NothingPasses,
                    ToSubmit, DecInWork, Held
      <3>2. /\ BeforeConfig => BeforeConfig'
            /\ BeforeFirst => BeforeFirst'
            /\ AfterFlush => AfterFlush'
            /\ InputInTurn => InputInTurn'
            /\ EosOut => EosOut'
        BY <2>1, <3>1 DEF BeforeConfig, BeforeFirst, AfterFlush, InputInTurn, Asked, EosOut, EmptyEos, Wipe, Other
      <3>3. Line' = Line /\ Went' = Went /\ Last' = Last /\ (Live' <=> Live) /\ (OnItsWay' <=> OnItsWay)
        BY <2>1, <3>1 DEF Line, Unseen, Went, Last, Live, OnItsWay, OutAway, From
      <3>4. InOrder => InOrder'
        BY <2>1, <3>1, <3>3 DEF InOrder, InLine, Lined, EndAt, WipedAt
      <3> QED BY <3>2, <3>4 DEF Ordered
    <2> QED BY <1>1, <2>2, <2>3 DEF OrderInv, DecOrdered
  <1> QED BY <1>3, <1>4

(***************************************************************************)
(* The encoder                                                             *)
(***************************************************************************)

\* What each record is made of.
EncType == [conf : BOOLEAN, first : BOOLEAN, run : BOOLEAN, code : {"ok", "error"},
            index : 0 .. 1, ti : Index, exit : BOOLEAN]
ContextType == [open : BOOLEAN, half : [0 .. 1 -> Int], cnt : 0 .. 1, tag : Index, inTag : Index,
                inBuf : 0 .. 1, sent : Nat]
StreamType == [frame : Int, stamp : Int]
ClientType == [sent : Nat, filled : Nat, ended : BOOLEAN, since : Nat, got : Seq(StreamType),
               header : BOOLEAN, eos : BOOLEAN, error : BOOLEAN]
OutType == [kind : {"none", "header", "frame"}, half : 0 .. 1, stamp : Int, eos : BOOLEAN]
EncCodecOK == enc \in EncType /\ encMfc \in ContextType
EncDataOK ==
  /\ encRing \in [Index -> [stamp : Int, eos : BOOLEAN]] /\ encBuf \in [0 .. 1 -> Nat]
  /\ encIn \in [len : Nat, stamp : Nat, eos : BOOLEAN] /\ encOut \in OutType
  /\ encCheck \in [set : BOOLEAN, on : BOOLEAN, stamp : Nat] /\ encRe \in BOOLEAN
EncCountersOK ==
  /\ encStart \in Nat /\ encEnd \in Nat /\ encErrors \in Nat /\ encFlushes \in Nat
  /\ session \in Nat \ {0}
  /\ encWorker \in {"wait", "exe", "gone"} /\ encFlushing \in {"no", "input", "output"}
EncShapes == EncCodecOK /\ EncDataOK /\ EncCountersOK /\ encClient \in ClientType

\* Each frame handed over is in one place, on its way to the encode thread, with it or
\* on its way back, until the call has collected it.  A frame that failed is back.  From
\* the first failure that is seen on, this is over.
EncUnderway == encStart + encEnd + (IF encWorker = "exe" THEN 1 ELSE 0)
EncOneAtATime ==
  ~encClient.error =>
    /\ ~enc.exit => EncUnderway = IF enc.run THEN 1 ELSE 0
    /\ enc.first => ~enc.run
    /\ enc.code = "error" /\ ~enc.exit => encStart = 0 /\ encWorker # "exe"
    /\ encPc = "collect" => ~enc.run
    /\ encPc = "submit" => ~enc.run \/ enc.code = "error"

\* The thread leaves at the end, and before it does the codec is open.
EncEnds ==
  /\ enc.exit => encPc \in {"join", "closed"}
  /\ encWorker # "gone" => encMfc.open

\* A frame that the codec has yet to read, and the buffer it lies in.
EncInWork == encWorker = "exe" \/ (encStart > 0 /\ ~enc.exit)
Filled ==
  /\ encPc \in {"wait", "collect", "submit"} => encIn.len # 0
  /\ encPc \in {"join", "closed"} => encIn.len = 0
  /\ encFlushing # "no" => encPc \in {"idle", "fed", "out"} /\ encIn.len = 0
  /\ ~encClient.error =>
       /\ encIn.len # 0 /\ ~lent => encBuf[enc.index] = encIn.len
       /\ encPc \in {"idle", "out"} /\ ~encRe => encIn.len = 0
Submitted ==
  EncInWork /\ ~lent /\ ~encClient.error =>
    /\ encBuf[encMfc.inBuf] = encMfc.sent
    /\ ~enc.exit => encMfc.inBuf = Encoder!Other(enc.index)

\* Every step leaves the records what they are.
LEMMA EncRefill_Types == EncShapes /\ Encoder!Refill => EncShapes'
  <1> SUFFICES ASSUME EncShapes, Encoder!Refill PROVE EncShapes'
    OBVIOUS
  <1>1. EncCodecOK'
    BY DEF Encoder!Refill, EncShapes, EncCodecOK, EncDataOK, EncType, ContextType, Encoder!sems,
           Encoder!data, Encoder!bounds, Index
  <1>2. EncDataOK'
    BY DEF Encoder!Refill, EncShapes, EncCodecOK, EncDataOK, EncType, ContextType, OutType,
           ClientType, Encoder!sems, Encoder!data, Encoder!bounds, Index
  <1>3. EncCountersOK'
    BY DEF Encoder!Refill, EncShapes, EncCountersOK, Encoder!sems, Encoder!data, Encoder!bounds
  <1>4. encClient' \in ClientType
    <2>1. /\ encClient.filled + 1 \in Nat
          /\ encClient' = [encClient EXCEPT !.filled = encClient.filled + 1]
      BY DEF Encoder!Refill, EncShapes, ClientType
    <2> QED BY <2>1 DEF EncShapes, ClientType
  <1> QED BY <1>1, <1>2, <1>3, <1>4 DEF EncShapes

LEMMA EncFeed_Types == EncShapes /\ Encoder!Feed => EncShapes'
  <1> SUFFICES ASSUME EncShapes, Encoder!Feed PROVE EncShapes'
    OBVIOUS
  <1>1. EncCodecOK'
    BY DEF Encoder!Feed, EncShapes, EncCodecOK, EncDataOK, EncType, ContextType, Encoder!sems,
           Encoder!bounds, Index
  <1>2. EncDataOK'
    <2>1. encRing' \in [Index -> [stamp : Int, eos : BOOLEAN]] /\ encBuf' \in [0 .. 1 -> Nat]
      BY DEF Encoder!Feed, EncShapes, EncCodecOK, EncDataOK, EncType, ClientType, Encoder!sems,
             Encoder!bounds, Index
    <2>2. encIn' \in [len : Nat, stamp : Nat, eos : BOOLEAN] /\ encRe' \in BOOLEAN
      BY DEF Encoder!Feed, EncShapes, EncDataOK, ClientType, Encoder!sems, Encoder!bounds
    <2>3. encOut' \in OutType
      BY DEF Encoder!Feed, EncShapes, EncCodecOK, EncDataOK, ContextType, OutType, Encoder!sems,
             Encoder!bounds, Index
    <2>4. encCheck' \in [set : BOOLEAN, on : BOOLEAN, stamp : Nat]
      BY DEF Encoder!Feed, EncShapes, EncDataOK, ClientType, Encoder!sems, Encoder!bounds
    <2> QED BY <2>1, <2>2, <2>3, <2>4 DEF EncDataOK
  <1>3. EncCountersOK'
    BY DEF Encoder!Feed, EncShapes, EncCountersOK, Encoder!sems, Encoder!bounds
  <1>4. encClient' \in ClientType
    <2>1. PICK eos \in BOOLEAN, n \in Nat :
            encClient' = [encClient EXCEPT !.sent = n, !.ended = eos]
      <3>1. encClient.sent \in Nat /\ encClient.sent + 1 \in Nat
        BY DEF EncShapes, ClientType
      <3> QED BY <3>1 DEF Encoder!Feed
    <2> QED BY <2>1 DEF EncShapes, ClientType
  <1> QED BY <1>1, <1>2, <1>3, <1>4 DEF EncShapes

LEMMA EncAgain_Types == EncShapes /\ Encoder!Again => EncShapes'
  <1> SUFFICES ASSUME EncShapes, Encoder!Again PROVE EncShapes'
    OBVIOUS
  <1>1. EncCodecOK'
    BY DEF Encoder!Again, EncShapes, EncCodecOK, EncDataOK, EncType, ContextType, Encoder!sems,
           Encoder!data, Encoder!bounds, Index
  <1>2. EncDataOK'
    BY DEF Encoder!Again, EncShapes, EncCodecOK, EncDataOK, EncType, ContextType, OutType,
           ClientType, Encoder!sems, Encoder!data, Encoder!bounds, Index
  <1>3. EncCountersOK'
    BY DEF Encoder!Again, EncShapes, EncCountersOK, Encoder!sems, Encoder!data, Encoder!bounds
  <1>4. encClient' \in ClientType
    BY DEF Encoder!Again, EncShapes, EncCodecOK, EncDataOK, ContextType, OutType, ClientType,
           Encoder!sems, Encoder!data, Encoder!bounds
  <1> QED BY <1>1, <1>2, <1>3, <1>4 DEF EncShapes

LEMMA EncConfigure_Types == EncShapes /\ Encoder!Configure => EncShapes'
  <1> SUFFICES ASSUME EncShapes, Encoder!Configure PROVE EncShapes'
    OBVIOUS
  <1>1. enc' \in EncType
    BY DEF Encoder!Configure, EncShapes, EncCodecOK, EncType, Encoder!Returns, Encoder!sems,
           Encoder!bounds, Encoder!NextHalf, Encoder!Other, Index
  <1>2. encMfc' \in ContextType
    <2>1. encMfc.cnt \in 0 .. 1 /\ Encoder!NextHalf(encMfc.cnt) \in 0 .. 1
      BY DEF EncShapes, EncCodecOK, ContextType, Encoder!NextHalf, Encoder!Other
    <2>2. [encMfc.half EXCEPT ![encMfc.cnt] = Encoder!Header] \in [0 .. 1 -> Int]
      BY <2>1 DEF EncShapes, EncCodecOK, ContextType, Encoder!Header
    <2>3. encMfc' = [encMfc EXCEPT !.half = [encMfc.half EXCEPT ![encMfc.cnt] = Encoder!Header],
                                   !.cnt = Encoder!NextHalf(encMfc.cnt)]
      BY DEF Encoder!Configure, EncShapes, EncCodecOK, ContextType
    <2> QED BY <2>1, <2>2, <2>3 DEF EncShapes, EncCodecOK, ContextType
  <1>3. EncDataOK'
    BY DEF Encoder!Configure, EncShapes, EncCodecOK, EncDataOK, EncType, ContextType, OutType,
           ClientType, Encoder!Returns, Encoder!sems, Encoder!bounds, Encoder!NoData,
           Encoder!NextHalf, Encoder!Other, Index
  <1>4. EncCountersOK'
    BY DEF Encoder!Configure, EncShapes, EncCountersOK, Encoder!Returns, Encoder!sems,
           Encoder!bounds, Encoder!NextHalf, Encoder!Other
  <1>5. encClient' \in ClientType
    BY DEF Encoder!Configure, EncShapes, EncCodecOK, EncDataOK, ContextType, OutType, ClientType,
           Encoder!Returns, Encoder!sems, Encoder!bounds, Encoder!NextHalf, Encoder!Other
  <1> QED BY <1>1, <1>2, <1>3, <1>4, <1>5 DEF EncShapes, EncCodecOK

LEMMA EncEmptyInput_Types == EncShapes /\ Encoder!EmptyInput => EncShapes'
  <1> SUFFICES ASSUME EncShapes, Encoder!EmptyInput PROVE EncShapes'
    OBVIOUS
  <1>1. EncCodecOK'
    BY DEF Encoder!EmptyInput, EncShapes, EncCodecOK, EncDataOK, EncType, ContextType,
           Encoder!Returns, Encoder!sems, Encoder!bounds, Index
  <1>2. EncDataOK'
    <2>1. encRing' \in [Index -> [stamp : Int, eos : BOOLEAN]] /\ encBuf' \in [0 .. 1 -> Nat]
      BY DEF Encoder!EmptyInput, EncShapes, EncCodecOK, EncDataOK, EncType, ClientType,
             Encoder!Returns, Encoder!sems, Encoder!bounds, Index
    <2>2. encIn' \in [len : Nat, stamp : Nat, eos : BOOLEAN] /\ encRe' \in BOOLEAN
      BY DEF Encoder!EmptyInput, EncShapes, EncDataOK, ClientType, Encoder!Returns, Encoder!sems,
             Encoder!bounds, Encoder!NoData
    <2>3. encOut' \in OutType
      BY DEF Encoder!EmptyInput, EncShapes, EncCodecOK, EncDataOK, ContextType, OutType,
             Encoder!Returns, Encoder!sems, Encoder!bounds, Index
    <2>4. encCheck' \in [set : BOOLEAN, on : BOOLEAN, stamp : Nat]
      BY DEF Encoder!EmptyInput, EncShapes, EncDataOK, ClientType, Encoder!Returns, Encoder!sems,
             Encoder!bounds
    <2> QED BY <2>1, <2>2, <2>3, <2>4 DEF EncDataOK
  <1>3. EncCountersOK'
    BY DEF Encoder!EmptyInput, EncShapes, EncCountersOK, Encoder!Returns, Encoder!sems,
           Encoder!bounds
  <1>4. encClient' \in ClientType
    BY DEF Encoder!EmptyInput, EncShapes, EncCodecOK, EncDataOK, ContextType, OutType, ClientType,
           Encoder!Returns, Encoder!sems, Encoder!bounds
  <1> QED BY <1>1, <1>2, <1>3, <1>4 DEF EncShapes

LEMMA EncLook_Types == EncShapes /\ Encoder!Look => EncShapes'
  <1> SUFFICES ASSUME EncShapes, Encoder!Look PROVE EncShapes'
    OBVIOUS
  <1>1. EncCodecOK'
    BY DEF Encoder!Look, EncShapes, EncCodecOK, EncDataOK, EncType, ContextType, Encoder!sems,
           Encoder!data, Encoder!bounds, Index
  <1>2. EncDataOK'
    BY DEF Encoder!Look, EncShapes, EncCodecOK, EncDataOK, EncType, ContextType, OutType,
           ClientType, Encoder!sems, Encoder!data, Encoder!bounds, Index
  <1>3. EncCountersOK'
    BY DEF Encoder!Look, EncShapes, EncCountersOK, Encoder!sems, Encoder!data, Encoder!bounds
  <1>4. encClient' \in ClientType
    BY DEF Encoder!Look, EncShapes, EncCodecOK, EncDataOK, ContextType, OutType, ClientType,
           Encoder!sems, Encoder!data, Encoder!bounds
  <1> QED BY <1>1, <1>2, <1>3, <1>4 DEF EncShapes

LEMMA EncWaitDone_Types == EncShapes /\ Encoder!WaitDone => EncShapes'
  <1> SUFFICES ASSUME EncShapes, Encoder!WaitDone PROVE EncShapes'
    OBVIOUS
  <1>1. EncCodecOK'
    BY DEF Encoder!WaitDone, EncShapes, EncCodecOK, EncDataOK, EncType, ContextType, Encoder!data,
           Encoder!bounds, Index
  <1>2. EncDataOK'
    BY DEF Encoder!WaitDone, EncShapes, EncCodecOK, EncDataOK, EncType, ContextType, OutType,
           ClientType, Encoder!data, Encoder!bounds, Index
  <1>3. EncCountersOK'
    BY DEF Encoder!WaitDone, EncShapes, EncCountersOK, Encoder!data, Encoder!bounds
  <1>4. encClient' \in ClientType
    BY DEF Encoder!WaitDone, EncShapes, EncCodecOK, EncDataOK, ContextType, OutType, ClientType,
           Encoder!data, Encoder!bounds
  <1> QED BY <1>1, <1>2, <1>3, <1>4 DEF EncShapes

LEMMA EncCollect_Types == EncShapes /\ Encoder!Collect => EncShapes'
  <1> SUFFICES ASSUME EncShapes, Encoder!Collect PROVE EncShapes'
    OBVIOUS
  <1>1. enc' \in EncType
    BY DEF Encoder!Collect, EncShapes, EncCodecOK, EncType, Encoder!sems, Encoder!bounds,
           Encoder!NextHalf, Encoder!Other, Index
  <1>2. encMfc' \in ContextType
    <2>1. Encoder!NextHalf(encMfc.cnt) \in 0 .. 1
      BY DEF EncShapes, EncCodecOK, ContextType, Encoder!NextHalf, Encoder!Other
    <2>2. encMfc' = [encMfc EXCEPT !.cnt = Encoder!NextHalf(encMfc.cnt)]
      BY DEF Encoder!Collect, EncShapes, EncCodecOK, ContextType
    <2> QED BY <2>1, <2>2 DEF EncShapes, EncCodecOK, ContextType
  <1>3. EncDataOK'
    BY DEF Encoder!Collect, EncShapes, EncCodecOK, EncDataOK, EncType, ContextType, OutType,
           ClientType, Encoder!sems, Encoder!bounds, Encoder!NextHalf, Encoder!Other, Index
  <1>4. EncCountersOK'
    BY DEF Encoder!Collect, EncShapes, EncCountersOK, Encoder!sems, Encoder!bounds,
           Encoder!NextHalf, Encoder!Other
  <1>5. encClient' \in ClientType
    BY DEF Encoder!Collect, EncShapes, EncCodecOK, EncDataOK, ContextType, OutType, ClientType,
           Encoder!sems, Encoder!bounds, Encoder!NextHalf, Encoder!Other
  <1> QED BY <1>1, <1>2, <1>3, <1>4, <1>5 DEF EncShapes, EncCodecOK

LEMMA EncSubmit_Types == EncShapes /\ Encoder!Submit => EncShapes'
  <1> SUFFICES ASSUME EncShapes, Encoder!Submit PROVE EncShapes'
    OBVIOUS
  <1>1. enc' \in EncType
    <2>1. enc.ti \in Index /\ Encoder!Other(enc.index) \in 0 .. 1
      BY DEF EncShapes, EncCodecOK, EncType, Encoder!Other
    <2>2. (enc.ti + 1) % Ring \in Index
      BY <2>1, NextIndex
    <2>3. enc' = [enc EXCEPT !.code = "ok", !.run = TRUE, !.index = Encoder!Other(enc.index),
                             !.ti = (enc.ti + 1) % Ring, !.first = FALSE]
      BY DEF Encoder!Submit, EncShapes, EncCodecOK, EncType
    <2> QED BY <2>1, <2>2, <2>3 DEF EncShapes, EncCodecOK, EncType
  <1>2. encMfc' \in ContextType
    BY DEF Encoder!Submit, EncShapes, EncCodecOK, EncDataOK, EncType, ContextType,
           Encoder!bounds, Encoder!Other, Index
  <1>3. EncDataOK'
    BY DEF Encoder!Submit, EncShapes, EncCodecOK, EncDataOK, EncType, ContextType, OutType,
           ClientType, Encoder!bounds, Encoder!NoData, Encoder!Other, Index
  <1>4. EncCountersOK'
    BY DEF Encoder!Submit, EncShapes, EncCountersOK, Encoder!bounds,
           Encoder!Other
  <1>5. encClient' \in ClientType
    BY DEF Encoder!Submit, EncShapes, EncCodecOK, EncDataOK, ContextType, OutType, ClientType,
           Encoder!bounds, Encoder!Other
  <1> QED BY <1>1, <1>2, <1>3, <1>4, <1>5 DEF EncShapes, EncCodecOK

LEMMA EncFeedOnTop_Types == EncShapes /\ Encoder!FeedOnTop => EncShapes'
  <1> SUFFICES ASSUME EncShapes, Encoder!FeedOnTop PROVE EncShapes'
    OBVIOUS
  <1>1. EncCodecOK'
    BY DEF Encoder!FeedOnTop, EncShapes, EncCodecOK, Encoder!sems, Encoder!bounds
  <1>2. /\ encIn \in [len : Nat, stamp : Nat, eos : BOOLEAN]
        /\ encCheck \in [set : BOOLEAN, on : BOOLEAN, stamp : Nat]
        /\ encBuf \in [0 .. 1 -> Nat] /\ encClient \in ClientType /\ encClient.sent + 1 \in Nat
        /\ UNCHANGED <<encRing, encOut, encRe>>
    <2>1. encClient.sent \in Nat
      BY DEF EncShapes, ClientType
    <2>2. encClient.sent + 1 \in Nat
      BY <2>1
    <2>3. UNCHANGED <<encRing, encOut, encRe>>
      BY DEF Encoder!FeedOnTop
    <2> QED BY <2>2, <2>3 DEF EncShapes, EncDataOK
  <1>3. ASSUME encIn' = Encoder!NoData, UNCHANGED <<encBuf, encCheck, encClient>>
        PROVE  EncDataOK' /\ encClient' \in ClientType
    <2>1. encIn' \in [len : Nat, stamp : Nat, eos : BOOLEAN]
      BY <1>3 DEF Encoder!NoData
    <2> QED BY <1>2, <1>3, <2>1 DEF EncShapes, EncDataOK
  <1>4. ASSUME NEW eos \in BOOLEAN, NEW empty \in BOOLEAN,
               encIn' = [encIn EXCEPT !.len = IF empty THEN @ ELSE encClient.sent + 1, !.eos = @ \/ eos],
               encBuf' = IF lent THEN encBuf
                         ELSE [encBuf EXCEPT ![enc.index] = IF empty THEN 0 ELSE encClient.sent + 1],
               encClient' = [encClient EXCEPT !.sent = IF empty THEN @ ELSE encClient.sent + 1,
                                              !.ended = eos],
               encCheck' = IF encCheck.set
                           THEN [set |-> FALSE, on |-> TRUE, stamp |-> encIn.stamp] ELSE encCheck
        PROVE  EncDataOK' /\ encClient' \in ClientType
    <2>1. encIn' \in [len : Nat, stamp : Nat, eos : BOOLEAN]
      BY <1>2, <1>4
    <2>2. encBuf' \in [0 .. 1 -> Nat]
      BY <1>2, <1>4
    <2>3. encCheck' \in [set : BOOLEAN, on : BOOLEAN, stamp : Nat]
      <3>1. encIn.stamp \in Nat
        BY <1>2
      <3> QED BY <1>2, <1>4, <3>1
    <2>4. encClient' \in ClientType
      BY <1>2, <1>4 DEF ClientType
    <2> QED BY <1>2, <2>1, <2>2, <2>3, <2>4 DEF EncShapes, EncDataOK
  <1>5. EncDataOK' /\ encClient' \in ClientType
    BY <1>2, <1>3, <1>4 DEF Encoder!FeedOnTop, EncShapes
  <1>6. EncCountersOK'
    BY DEF Encoder!FeedOnTop, EncShapes, EncCountersOK, Encoder!sems, Encoder!bounds
  <1> QED BY <1>1, <1>5, <1>6 DEF EncShapes

LEMMA EncDeliver_Types == EncShapes /\ Encoder!Deliver => EncShapes'
  <1> SUFFICES ASSUME EncShapes, Encoder!Deliver PROVE EncShapes'
    OBVIOUS
  <1>1. EncCodecOK'
    BY DEF Encoder!Deliver, EncShapes, EncCodecOK, EncDataOK, EncType, ContextType, Encoder!sems,
           Encoder!bounds, Encoder!Header, Encoder!Received, Encoder!Passes, Encoder!NoCheck,
           Encoder!NoOut, StreamType, Index
  <1>2. EncDataOK'
    BY DEF Encoder!Deliver, EncShapes, EncCodecOK, EncDataOK, EncType, ContextType, OutType,
           ClientType, Encoder!sems, Encoder!bounds, Encoder!Received, Encoder!Passes,
           Encoder!NoCheck, Encoder!NoOut, StreamType, Index
  <1>3. EncCountersOK'
    BY DEF Encoder!Deliver, EncShapes, EncCountersOK, Encoder!sems, Encoder!bounds,
           Encoder!Received, Encoder!Passes, Encoder!NoCheck, Encoder!NoOut, StreamType
  <1>4. encClient' \in ClientType
    <2>1. [frame |-> encMfc.half[encOut.half], stamp |-> encOut.stamp] \in StreamType
      BY DEF EncShapes, EncCodecOK, EncDataOK, ContextType, OutType, StreamType
    <2>2. Encoder!Received(encOut) \in Seq(StreamType)
      BY <2>1 DEF Encoder!Received
    <2>3. encClient.got \o Encoder!Received(encOut) \in Seq(StreamType)
      BY <2>2 DEF EncShapes, ClientType
    <2>4. PICK eos \in BOOLEAN, header \in BOOLEAN :
            encClient' = IF Encoder!Passes /\ encFlushing = "no"
                         THEN [encClient EXCEPT !.got = encClient.got \o Encoder!Received(encOut), !.eos = eos,
                                                !.header = header]
                         ELSE encClient
      BY DEF Encoder!Deliver, EncShapes, ClientType, EncDataOK, OutType
    <2> QED BY <2>3, <2>4 DEF EncShapes, ClientType
  <1> QED BY <1>1, <1>2, <1>3, <1>4 DEF EncShapes

LEMMA EncTake_Types == EncShapes /\ Encoder!Take => EncShapes'
  <1> SUFFICES ASSUME EncShapes, Encoder!Take PROVE EncShapes'
    OBVIOUS
  <1>1. EncCodecOK'
    BY DEF Encoder!Take, EncShapes, EncCodecOK, EncDataOK, EncType, ContextType, Encoder!data,
           Encoder!bounds, Index
  <1>2. EncDataOK'
    BY DEF Encoder!Take, EncShapes, EncCodecOK, EncDataOK, EncType, ContextType, OutType,
           ClientType, Encoder!data, Encoder!bounds, Index
  <1>3. EncCountersOK'
    BY DEF Encoder!Take, EncShapes, EncCountersOK, Encoder!data, Encoder!bounds
  <1>4. encClient' \in ClientType
    BY DEF Encoder!Take, EncShapes, EncCodecOK, EncDataOK, ContextType, OutType, ClientType,
           Encoder!data, Encoder!bounds
  <1> QED BY <1>1, <1>2, <1>3, <1>4 DEF EncShapes

LEMMA EncExe_Types == EncShapes /\ Encoder!Exe => EncShapes'
  <1> SUFFICES ASSUME EncShapes, Encoder!Exe PROVE EncShapes'
    OBVIOUS
  <1>1. enc' \in EncType
    BY DEF Encoder!Exe, EncShapes, EncCodecOK, EncType, Encoder!data, Index
  <1>2. encMfc' \in ContextType
    <2>1. CASE encMfc' = encMfc
      BY <2>1 DEF EncShapes, EncCodecOK
    <2>2. CASE encMfc' = [encMfc EXCEPT !.half[encMfc.cnt] = encMfc.sent, !.tag = encMfc.inTag]
      <3>1. [encMfc.half EXCEPT ![encMfc.cnt] = encMfc.sent] \in [0 .. 1 -> Int]
        BY DEF EncShapes, EncCodecOK, ContextType
      <3>2. encMfc' = [encMfc EXCEPT !.half = [encMfc.half EXCEPT ![encMfc.cnt] = encMfc.sent],
                                     !.tag = encMfc.inTag]
        BY <2>2 DEF EncShapes, EncCodecOK, ContextType
      <3> QED BY <3>1, <3>2 DEF EncShapes, EncCodecOK, ContextType
    <2> QED BY <2>1, <2>2 DEF Encoder!Exe
  <1>3. EncDataOK'
    BY DEF Encoder!Exe, EncShapes, EncCodecOK, EncDataOK, EncType, ContextType, OutType,
           ClientType, Encoder!data, Index
  <1>4. EncCountersOK'
    BY DEF Encoder!Exe, EncShapes, EncCountersOK, Encoder!data
  <1>5. encClient' \in ClientType
    BY DEF Encoder!Exe, EncShapes, EncCodecOK, EncDataOK, ContextType, OutType, ClientType,
           Encoder!data
  <1> QED BY <1>1, <1>2, <1>3, <1>4, <1>5 DEF EncShapes, EncCodecOK

LEMMA EncFlush_Types == EncShapes /\ Encoder!Flush => EncShapes'
  <1> SUFFICES ASSUME EncShapes, Encoder!Flush PROVE EncShapes'
    OBVIOUS
  <1>1. EncCodecOK'
    BY DEF Encoder!Flush, EncShapes, EncCodecOK, EncDataOK, EncType, ContextType, Encoder!sems,
           Encoder!NoData, Index
  <1>2. EncDataOK'
    BY DEF Encoder!Flush, EncShapes, EncCodecOK, EncDataOK, EncType, ContextType, OutType,
           ClientType, Encoder!sems, Encoder!NoData, Index
  <1>3. EncCountersOK'
    BY DEF Encoder!Flush, EncShapes, EncCountersOK, Encoder!sems, Encoder!NoData
  <1>4. encClient' \in ClientType
    BY DEF Encoder!Flush, EncShapes, EncCodecOK, EncDataOK, ContextType, OutType, ClientType,
           Encoder!sems, Encoder!NoData
  <1> QED BY <1>1, <1>2, <1>3, <1>4 DEF EncShapes

LEMMA EncFlushResets_Types == EncShapes /\ Encoder!FlushResets => EncShapes'
  <1> SUFFICES ASSUME EncShapes, Encoder!FlushResets PROVE EncShapes'
    OBVIOUS
  <1>1. EncCodecOK'
    BY DEF Encoder!FlushResets, EncShapes, EncCodecOK, EncDataOK, EncType, ContextType,
           Encoder!sems, Encoder!bounds, Encoder!WipedRing, Encoder!Wiped, Index
  <1>2. EncDataOK'
    <2>1. encRing' \in [Index -> [stamp : Int, eos : BOOLEAN]] /\ encBuf' \in [0 .. 1 -> Nat]
      BY DEF Encoder!FlushResets, EncShapes, EncCodecOK, EncDataOK, EncType, ClientType,
             Encoder!sems, Encoder!bounds, Encoder!WipedRing, Encoder!Wiped, Index
    <2>2. encIn' \in [len : Nat, stamp : Nat, eos : BOOLEAN] /\ encRe' \in BOOLEAN
      BY DEF Encoder!FlushResets, EncShapes, EncDataOK, ClientType, Encoder!sems, Encoder!bounds,
             Encoder!WipedRing, Encoder!Wiped
    <2>3. encOut' \in OutType
      BY DEF Encoder!FlushResets, EncShapes, EncCodecOK, EncDataOK, ContextType, OutType,
             Encoder!sems, Encoder!bounds, Encoder!WipedRing, Encoder!Wiped, Index
    <2>4. encCheck' \in [set : BOOLEAN, on : BOOLEAN, stamp : Nat]
      BY DEF Encoder!FlushResets, EncShapes, EncDataOK, ClientType, Encoder!sems, Encoder!bounds,
             Encoder!WipedRing, Encoder!Wiped
    <2> QED BY <2>1, <2>2, <2>3, <2>4 DEF EncDataOK
  <1>3. EncCountersOK'
    BY DEF Encoder!FlushResets, EncShapes, EncCountersOK, Encoder!sems, Encoder!bounds,
           Encoder!WipedRing, Encoder!Wiped
  <1>4. encClient' \in ClientType
    BY DEF Encoder!FlushResets, EncShapes, EncCodecOK, EncDataOK, ContextType, OutType,
           ClientType, Encoder!sems, Encoder!bounds, Encoder!WipedRing, Encoder!Wiped
  <1> QED BY <1>1, <1>2, <1>3, <1>4 DEF EncShapes

LEMMA EncFlushOutput_Types == EncShapes /\ Encoder!FlushOutput => EncShapes'
  <1> SUFFICES ASSUME EncShapes, Encoder!FlushOutput PROVE EncShapes'
    OBVIOUS
  <1>1. EncCodecOK'
    BY DEF Encoder!FlushOutput, EncShapes, EncCodecOK, EncDataOK, EncType, ContextType,
           Encoder!sems, Encoder!bounds, Encoder!NoOut, Index
  <1>2. EncDataOK'
    BY DEF Encoder!FlushOutput, EncShapes, EncCodecOK, EncDataOK, EncType, ContextType, OutType,
           ClientType, Encoder!sems, Encoder!bounds, Encoder!NoOut, Index
  <1>3. EncCountersOK'
    BY DEF Encoder!FlushOutput, EncShapes, EncCountersOK, Encoder!sems, Encoder!bounds,
           Encoder!NoOut
  <1>4. encClient' \in ClientType
    <2>1. << >> \in Seq(StreamType)
      OBVIOUS
    <2>2. encClient' = [encClient EXCEPT !.ended = FALSE, !.since = encClient.sent, !.got = << >>,
                                         !.eos = FALSE]
      BY DEF Encoder!FlushOutput
    <2> QED BY <2>1, <2>2 DEF EncShapes, ClientType
  <1> QED BY <1>1, <1>2, <1>3, <1>4 DEF EncShapes

LEMMA EncTerminate_Types == EncShapes /\ Encoder!Terminate => EncShapes'
  <1> SUFFICES ASSUME EncShapes, Encoder!Terminate PROVE EncShapes'
    OBVIOUS
  <1>1. EncCodecOK'
    BY DEF Encoder!Terminate, EncShapes, EncCodecOK, EncDataOK, EncType, ContextType,
           Encoder!bounds, Encoder!NoData, Encoder!NoOut, Index
  <1>2. EncDataOK'
    <2>1. encRing' \in [Index -> [stamp : Int, eos : BOOLEAN]] /\ encBuf' \in [0 .. 1 -> Nat]
      BY DEF Encoder!Terminate, EncShapes, EncCodecOK, EncDataOK, EncType, ClientType,
             Encoder!bounds, Encoder!NoData, Encoder!NoOut, Index
    <2>2. encIn' \in [len : Nat, stamp : Nat, eos : BOOLEAN] /\ encRe' \in BOOLEAN
      BY DEF Encoder!Terminate, EncShapes, EncDataOK, ClientType, Encoder!bounds, Encoder!NoData,
             Encoder!NoOut
    <2>3. encOut' \in OutType
      BY DEF Encoder!Terminate, EncShapes, EncCodecOK, EncDataOK, ContextType, OutType,
             Encoder!bounds, Encoder!NoData, Encoder!NoOut, Index
    <2>4. encCheck' \in [set : BOOLEAN, on : BOOLEAN, stamp : Nat]
      BY DEF Encoder!Terminate, EncShapes, EncDataOK, ClientType, Encoder!bounds, Encoder!NoData,
             Encoder!NoOut
    <2> QED BY <2>1, <2>2, <2>3, <2>4 DEF EncDataOK
  <1>3. EncCountersOK'
    BY DEF Encoder!Terminate, EncShapes, EncCountersOK, Encoder!bounds, Encoder!NoData,
           Encoder!NoOut
  <1>4. encClient' \in ClientType
    BY DEF Encoder!Terminate, EncShapes, EncCodecOK, EncDataOK, ContextType, OutType, ClientType,
           Encoder!bounds, Encoder!NoData, Encoder!NoOut
  <1> QED BY <1>1, <1>2, <1>3, <1>4 DEF EncShapes

LEMMA EncJoined_Types == EncShapes /\ Encoder!Joined => EncShapes'
  <1> SUFFICES ASSUME EncShapes, Encoder!Joined PROVE EncShapes'
    OBVIOUS
  <1>1. EncCodecOK'
    BY DEF Encoder!Joined, EncShapes, EncCodecOK, EncDataOK, EncType, ContextType, Encoder!sems,
           Encoder!data, Encoder!bounds, Index
  <1>2. EncDataOK'
    BY DEF Encoder!Joined, EncShapes, EncCodecOK, EncDataOK, EncType, ContextType, OutType,
           ClientType, Encoder!sems, Encoder!data, Encoder!bounds, Index
  <1>3. EncCountersOK'
    BY DEF Encoder!Joined, EncShapes, EncCountersOK, Encoder!sems, Encoder!data, Encoder!bounds
  <1>4. encClient' \in ClientType
    BY DEF Encoder!Joined, EncShapes, EncCodecOK, EncDataOK, ContextType, OutType, ClientType,
           Encoder!sems, Encoder!data, Encoder!bounds
  <1> QED BY <1>1, <1>2, <1>3, <1>4 DEF EncShapes

LEMMA EncRestart_Types == EncShapes /\ Encoder!Restart => EncShapes'
  <1> SUFFICES ASSUME EncShapes, Encoder!Restart PROVE EncShapes'
    OBVIOUS
  <1>1. EncCodecOK'
    BY DecodeAssumption
       DEF Encoder!Restart, EncShapes, EncCodecOK, EncDataOK, EncType, ContextType, Encoder!data,
           Encoder!FreshCodec, Encoder!FreshContext, Encoder!WipedRing, Encoder!Wiped, Index
  <1>2. EncDataOK'
    BY DEF Encoder!Restart, EncShapes, EncCodecOK, EncDataOK, EncType, ContextType, OutType,
           ClientType, Encoder!data, Encoder!FreshCodec, Encoder!FreshContext, Encoder!WipedRing,
           Encoder!Wiped, Index
  <1>3. EncCountersOK'
    BY DEF Encoder!Restart, EncShapes, EncCountersOK, Encoder!data, Encoder!FreshCodec,
           Encoder!FreshContext, Encoder!WipedRing, Encoder!Wiped
  <1>4. encClient' \in ClientType
    <2>1. << >> \in Seq(StreamType)
      OBVIOUS
    <2>2. encClient' = [encClient EXCEPT !.ended = FALSE, !.since = encClient.sent, !.got = << >>,
                                         !.eos = FALSE, !.header = FALSE, !.error = FALSE]
      BY DEF Encoder!Restart
    <2> QED BY <2>1, <2>2 DEF EncShapes, ClientType
  <1> QED BY <1>1, <1>2, <1>3, <1>4 DEF EncShapes

LEMMA EncInit_Types == Encoder!Init => EncShapes
  <1> SUFFICES ASSUME Encoder!Init PROVE EncShapes
    OBVIOUS
  <1>1. enc \in EncType /\ encMfc \in ContextType
    BY DEF Encoder!Init, EncType, ContextType, Encoder!FreshCodec, Encoder!FreshContext, Index
  <1>2. EncDataOK
    <2>1. encRing \in [Index -> [stamp : Int, eos : BOOLEAN]] /\ encBuf \in [0 .. 1 -> Nat]
      BY DEF Encoder!Init, Encoder!WipedRing, Encoder!Wiped, Index
    <2>2. encIn \in [len : Nat, stamp : Nat, eos : BOOLEAN] /\ encRe \in BOOLEAN
      BY DEF Encoder!Init, Encoder!NoData
    <2>3. encOut \in OutType
      BY DEF Encoder!Init, OutType, Encoder!NoOut
    <2>4. encCheck \in [set : BOOLEAN, on : BOOLEAN, stamp : Nat]
      BY DEF Encoder!Init, Encoder!NoCheck
    <2> QED BY <2>1, <2>2, <2>3, <2>4 DEF EncDataOK
  <1>3. EncCountersOK
    BY DEF Encoder!Init, EncCountersOK
  <1>4. encClient \in ClientType
    <2>1. << >> \in Seq(StreamType)
      OBVIOUS
    <2> QED BY <2>1 DEF Encoder!Init, ClientType
  <1> QED BY <1>1, <1>2, <1>3, <1>4 DEF EncShapes, EncCodecOK

LEMMA EncTyped == EncShapes /\ [Encoder!Next]_(Encoder!vars) => EncShapes'
  <1> SUFFICES ASSUME EncShapes, [Encoder!Next]_(Encoder!vars) PROVE EncShapes'
    OBVIOUS
  <1>1. CASE UNCHANGED Encoder!vars
    BY <1>1
       DEF Encoder!vars, Encoder!sems, Encoder!data, Encoder!bounds, EncShapes, EncCodecOK,
           EncDataOK, EncCountersOK
  <1>2. CASE Encoder!Call
    BY <1>2, EncFeed_Types, EncAgain_Types, EncConfigure_Types, EncEmptyInput_Types,
       EncLook_Types, EncWaitDone_Types,
       EncCollect_Types, EncSubmit_Types, EncFeedOnTop_Types, EncDeliver_Types DEF Encoder!Call
  <1>3. CASE \/ Encoder!Refill \/ Encoder!EncodeThread
             \/ Encoder!Flush \/ Encoder!FlushResets \/ Encoder!FlushOutput
    BY <1>3, EncRefill_Types, EncTake_Types, EncExe_Types, EncFlush_Types, EncFlushResets_Types,
       EncFlushOutput_Types DEF Encoder!EncodeThread
  <1>4. CASE Encoder!Terminate \/ Encoder!Joined \/ Encoder!Restart
    BY <1>4, EncTerminate_Types, EncJoined_Types, EncRestart_Types
  <1> QED BY <1>1, <1>2, <1>3, <1>4 DEF Encoder!Next

-----------------------------------------------------------------------------

\* Every step keeps the two threads in turn.
LEMMA EncRefill_Control ==
  ASSUME EncShapes, EncOneAtATime, EncEnds, Encoder!Refill PROVE EncOneAtATime' /\ EncEnds'
  BY DEF Encoder!Refill, EncShapes, EncCodecOK, EncCountersOK, EncType, ContextType,
         EncOneAtATime, EncEnds, EncUnderway, Encoder!sems, Encoder!data, Encoder!bounds

LEMMA EncFeed_Control ==
  ASSUME EncShapes, EncOneAtATime, EncEnds, Encoder!Feed PROVE EncOneAtATime' /\ EncEnds'
  BY DEF Encoder!Feed, EncShapes, EncCodecOK, EncCountersOK, EncType, ContextType, EncOneAtATime,
         EncEnds, EncUnderway, Encoder!sems, Encoder!bounds

LEMMA EncAgain_Control ==
  ASSUME EncShapes, EncOneAtATime, EncEnds, Encoder!Again PROVE EncOneAtATime' /\ EncEnds'
  BY DEF Encoder!Again, EncShapes, EncCodecOK, EncCountersOK, EncType, ContextType, EncOneAtATime,
         EncEnds, EncUnderway, Encoder!sems, Encoder!data, Encoder!bounds

LEMMA EncConfigure_Control ==
  ASSUME EncShapes, EncOneAtATime, EncEnds, Encoder!Configure PROVE EncOneAtATime' /\ EncEnds'
  BY DEF Encoder!Configure, EncShapes, EncCodecOK, EncCountersOK, EncType, ContextType,
         EncOneAtATime, EncEnds, EncUnderway, Encoder!Returns, Encoder!sems, Encoder!bounds

LEMMA EncEmptyInput_Control ==
  ASSUME EncShapes, EncOneAtATime, EncEnds, Encoder!EmptyInput PROVE EncOneAtATime' /\ EncEnds'
  BY DEF Encoder!EmptyInput, EncShapes, EncCodecOK, EncCountersOK, EncType, ContextType,
         EncOneAtATime, EncEnds, EncUnderway, Encoder!Returns, Encoder!sems, Encoder!bounds

LEMMA EncLook_Control ==
  ASSUME EncShapes, EncOneAtATime, EncEnds, Encoder!Look PROVE EncOneAtATime' /\ EncEnds'
  BY DEF Encoder!Look, EncShapes, EncCodecOK, EncCountersOK, EncType, ContextType, EncOneAtATime,
         EncEnds, EncUnderway, Encoder!sems, Encoder!data, Encoder!bounds

LEMMA EncWaitDone_Control ==
  ASSUME EncShapes, EncOneAtATime, EncEnds, Encoder!WaitDone PROVE EncOneAtATime' /\ EncEnds'
  BY DEF Encoder!WaitDone, EncShapes, EncCodecOK, EncCountersOK, EncType, ContextType,
         EncOneAtATime, EncEnds, EncUnderway, Encoder!data, Encoder!bounds

LEMMA EncCollect_Control ==
  ASSUME EncShapes, EncOneAtATime, EncEnds, Encoder!Collect PROVE EncOneAtATime' /\ EncEnds'
  BY DEF Encoder!Collect, EncShapes, EncCodecOK, EncCountersOK, EncType, ContextType,
         EncOneAtATime, EncEnds, EncUnderway, Encoder!sems, Encoder!bounds

LEMMA EncSubmit_Control ==
  ASSUME EncShapes, EncOneAtATime, EncEnds, Encoder!Submit PROVE EncOneAtATime' /\ EncEnds'
  BY DEF Encoder!Submit, EncShapes, EncCodecOK, EncCountersOK, EncType, ContextType, ClientType,
         EncOneAtATime, EncEnds, EncUnderway, Encoder!Failed, Encoder!bounds

LEMMA EncFeedOnTop_Control ==
  ASSUME EncShapes, EncOneAtATime, EncEnds, Encoder!FeedOnTop PROVE EncOneAtATime' /\ EncEnds'
  <1>1. /\ UNCHANGED <<enc, encStart, encEnd, encWorker, encMfc>>
        /\ encPc = "idle" /\ encPc' \in {"idle", "fed"}
        /\ encClient'.error = encClient.error
    BY DEF Encoder!FeedOnTop, Encoder!sems, EncShapes, ClientType
  <1> QED BY <1>1 DEF EncOneAtATime, EncEnds, EncUnderway

LEMMA EncDeliver_Control ==
  ASSUME EncShapes, EncOneAtATime, EncEnds, Encoder!Deliver PROVE EncOneAtATime' /\ EncEnds'
  BY DEF Encoder!Deliver, EncShapes, EncCodecOK, EncCountersOK, EncType, ContextType,
         EncOneAtATime, EncEnds, EncUnderway, Encoder!sems, Encoder!bounds

LEMMA EncTake_Control ==
  ASSUME EncShapes, EncOneAtATime, EncEnds, Encoder!Take PROVE EncOneAtATime' /\ EncEnds'
  BY DEF Encoder!Take, EncShapes, EncCodecOK, EncCountersOK, EncType, ContextType, EncOneAtATime,
         EncEnds, EncUnderway, Encoder!data, Encoder!bounds

LEMMA EncExe_Control ==
  ASSUME EncShapes, EncOneAtATime, EncEnds, Encoder!Exe PROVE EncOneAtATime' /\ EncEnds'
  BY DEF Encoder!Exe, EncShapes, EncCodecOK, EncCountersOK, EncType, ContextType, EncOneAtATime,
         EncEnds, EncUnderway, Encoder!data

LEMMA EncFlush_Control ==
  ASSUME EncShapes, EncOneAtATime, EncEnds, Encoder!Flush PROVE EncOneAtATime' /\ EncEnds'
  BY DEF Encoder!Flush, EncShapes, EncCodecOK, EncCountersOK, EncType, ContextType, EncOneAtATime,
         EncEnds, EncUnderway, Encoder!sems

LEMMA EncFlushResets_Control ==
  ASSUME EncShapes, EncOneAtATime, EncEnds, Encoder!FlushResets PROVE EncOneAtATime' /\ EncEnds'
  BY DEF Encoder!FlushResets, EncShapes, EncCodecOK, EncCountersOK, EncType, ContextType,
         EncOneAtATime, EncEnds, EncUnderway, Encoder!sems, Encoder!bounds

LEMMA EncFlushOutput_Control ==
  ASSUME EncShapes, EncOneAtATime, EncEnds, Encoder!FlushOutput PROVE EncOneAtATime' /\ EncEnds'
  BY DEF Encoder!FlushOutput, EncShapes, EncCodecOK, EncCountersOK, EncType, ContextType,
         EncOneAtATime, EncEnds, EncUnderway, Encoder!sems, Encoder!bounds

LEMMA EncTerminate_Control ==
  ASSUME EncShapes, EncOneAtATime, EncEnds, Encoder!Terminate PROVE EncOneAtATime' /\ EncEnds'
  BY DEF Encoder!Terminate, EncShapes, EncCodecOK, EncCountersOK, EncType, ContextType,
         EncOneAtATime, EncEnds, EncUnderway, Encoder!bounds

LEMMA EncJoined_Control ==
  ASSUME EncShapes, EncOneAtATime, EncEnds, Encoder!Joined PROVE EncOneAtATime' /\ EncEnds'
  BY DEF Encoder!Joined, EncShapes, EncCodecOK, EncCountersOK, EncType, ContextType,
         EncOneAtATime, EncEnds, EncUnderway, Encoder!sems, Encoder!data, Encoder!bounds

LEMMA EncRestart_Control ==
  ASSUME EncShapes, EncOneAtATime, EncEnds, Encoder!Restart PROVE EncOneAtATime' /\ EncEnds'
  BY DEF Encoder!Restart, EncShapes, EncCodecOK, EncCountersOK, EncType, ContextType,
         EncOneAtATime, EncEnds, EncUnderway, Encoder!data, Encoder!FreshCodec,
         Encoder!FreshContext

-----------------------------------------------------------------------------
\* Every step leaves a buffer that is under encode alone.
LEMMA EncRefill_Fed ==
  ASSUME EncShapes, EncOneAtATime, EncEnds, Filled, Submitted, Encoder!Refill
  PROVE  Filled' /\ Submitted'
  BY DEF Encoder!Refill, EncShapes, EncCodecOK, EncCountersOK, EncDataOK, EncType, ContextType,
         EncOneAtATime, EncEnds, EncUnderway, EncInWork, Filled, Submitted, Encoder!Other,
         Encoder!sems, Encoder!data, Encoder!bounds

LEMMA EncFeed_Fed ==
  ASSUME EncShapes, EncOneAtATime, EncEnds, Filled, Submitted, Encoder!Feed
  PROVE  Filled' /\ Submitted'
  BY DEF Encoder!Feed, EncShapes, EncCodecOK, EncCountersOK, EncDataOK, EncType, ContextType,
         EncOneAtATime, EncEnds, EncUnderway, EncInWork, Filled, Submitted, Encoder!Other,
         Encoder!sems, Encoder!bounds

LEMMA EncAgain_Fed ==
  ASSUME EncShapes, EncOneAtATime, EncEnds, Filled, Submitted, Encoder!Again
  PROVE  Filled' /\ Submitted'
  BY DEF Encoder!Again, EncShapes, EncCodecOK, EncCountersOK, EncDataOK, EncType, ContextType,
         EncOneAtATime, EncEnds, EncUnderway, EncInWork, Filled, Submitted, Encoder!Other,
         Encoder!sems, Encoder!data, Encoder!bounds

LEMMA EncConfigure_Fed ==
  ASSUME EncShapes, EncOneAtATime, EncEnds, Filled, Submitted, Encoder!Configure
  PROVE  Filled' /\ Submitted'
  BY DEF Encoder!Configure, EncShapes, EncCodecOK, EncCountersOK, EncDataOK, EncType, ContextType,
         EncOneAtATime, EncEnds, EncUnderway, EncInWork, Filled, Submitted, Encoder!Other,
         Encoder!Returns, Encoder!sems, Encoder!bounds, Encoder!NoData

LEMMA EncEmptyInput_Fed ==
  ASSUME EncShapes, EncOneAtATime, EncEnds, Filled, Submitted, Encoder!EmptyInput
  PROVE  Filled' /\ Submitted'
  BY DEF Encoder!EmptyInput, EncShapes, EncCodecOK, EncCountersOK, EncDataOK, EncType,
         ContextType, EncOneAtATime, EncEnds, EncUnderway, EncInWork, Filled, Submitted,
         Encoder!Other, Encoder!Returns, Encoder!sems, Encoder!bounds, Encoder!NoData

LEMMA EncLook_Fed ==
  ASSUME EncShapes, EncOneAtATime, EncEnds, Filled, Submitted, Encoder!Look
  PROVE  Filled' /\ Submitted'
  BY DEF Encoder!Look, EncShapes, EncCodecOK, EncCountersOK, EncDataOK, EncType, ContextType,
         EncOneAtATime, EncEnds, EncUnderway, EncInWork, Filled, Submitted, Encoder!Other,
         Encoder!sems, Encoder!data, Encoder!bounds

LEMMA EncWaitDone_Fed ==
  ASSUME EncShapes, EncOneAtATime, EncEnds, Filled, Submitted, Encoder!WaitDone
  PROVE  Filled' /\ Submitted'
  BY DEF Encoder!WaitDone, EncShapes, EncCodecOK, EncCountersOK, EncDataOK, EncType, ContextType,
         EncOneAtATime, EncEnds, EncUnderway, EncInWork, Filled, Submitted, Encoder!Other,
         Encoder!data, Encoder!bounds

LEMMA EncCollect_Fed ==
  ASSUME EncShapes, EncOneAtATime, EncEnds, Filled, Submitted, Encoder!Collect
  PROVE  Filled' /\ Submitted'
  BY DEF Encoder!Collect, EncShapes, EncCodecOK, EncCountersOK, EncDataOK, EncType, ContextType,
         EncOneAtATime, EncEnds, EncUnderway, EncInWork, Filled, Submitted, Encoder!Other,
         Encoder!sems, Encoder!bounds

LEMMA EncSubmit_Fed ==
  ASSUME EncShapes, EncOneAtATime, EncEnds, Filled, Submitted, Encoder!Submit
  PROVE  Filled' /\ Submitted'
  <1>1. /\ UNCHANGED <<lent, encBuf, encWorker, encFlushing>> /\ encPc = "submit" /\ encPc' = "out"
        /\ encMfc'.sent = encIn.len /\ encMfc'.inBuf = enc.index
        /\ enc'.index = Encoder!Other(enc.index)
        /\ enc'.exit = enc.exit
        /\ encClient'.error \/ (encIn'.len = 0 /\ ~encClient.error)
    BY DEF Encoder!Submit, Encoder!Failed, Encoder!NoData, EncShapes, EncCodecOK, EncType,
           ContextType, ClientType
  <1>2. enc.index \in 0 .. 1 /\ encIn.len # 0
    BY <1>1 DEF EncShapes, EncCodecOK, EncType, Filled
  <1> QED BY <1>1, <1>2 DEF Filled, Submitted, Encoder!Other

LEMMA EncFeedOnTop_Fed ==
  ASSUME EncShapes, EncOneAtATime, EncEnds, Filled, Submitted, Encoder!FeedOnTop
  PROVE  Filled' /\ Submitted'
  <1>1. /\ encPc = "idle" /\ ~encRe /\ encIn.len # 0 /\ encPc' \in {"idle", "fed"}
        /\ encFlushing = "no" /\ encFlushing' = "no"
        /\ encClient'.error = encClient.error
    BY DEF Encoder!FeedOnTop, EncShapes, ClientType
  <1>2. encClient.error
    BY <1>1 DEF Filled
  <1> QED BY <1>1, <1>2 DEF Filled, Submitted

LEMMA EncDeliver_Fed ==
  ASSUME EncShapes, EncOneAtATime, EncEnds, Filled, Submitted, Encoder!Deliver
  PROVE  Filled' /\ Submitted'
  BY DEF Encoder!Deliver, EncShapes, EncCodecOK, EncCountersOK, EncDataOK, EncType, ContextType,
         EncOneAtATime, EncEnds, EncUnderway, EncInWork, Filled, Submitted, Encoder!Other,
         Encoder!sems, Encoder!bounds

LEMMA EncTake_Fed ==
  ASSUME EncShapes, EncOneAtATime, EncEnds, Filled, Submitted, Encoder!Take
  PROVE  Filled' /\ Submitted'
  BY DEF Encoder!Take, EncShapes, EncCodecOK, EncCountersOK, EncDataOK, EncType, ContextType,
         EncOneAtATime, EncEnds, EncUnderway, EncInWork, Filled, Submitted, Encoder!Other,
         Encoder!data, Encoder!bounds

LEMMA EncExe_Fed ==
  ASSUME EncShapes, EncOneAtATime, EncEnds, Filled, Submitted, Encoder!Exe
  PROVE  Filled' /\ Submitted'
  BY DEF Encoder!Exe, EncShapes, EncCodecOK, EncCountersOK, EncDataOK, EncType, ContextType,
         EncOneAtATime, EncEnds, EncUnderway, EncInWork, Filled, Submitted, Encoder!Other,
         Encoder!data

LEMMA EncFlush_Fed ==
  ASSUME EncShapes, EncOneAtATime, EncEnds, Filled, Submitted, Encoder!Flush
  PROVE  Filled' /\ Submitted'
  BY DEF Encoder!Flush, EncShapes, EncCodecOK, EncCountersOK, EncDataOK, EncType, ContextType,
         EncOneAtATime, EncEnds, EncUnderway, EncInWork, Filled, Submitted, Encoder!Other,
         Encoder!sems, Encoder!NoData, Encoder!BetweenLocks

LEMMA EncFlushResets_Fed ==
  ASSUME EncShapes, EncOneAtATime, EncEnds, Filled, Submitted, Encoder!FlushResets
  PROVE  Filled' /\ Submitted'
  BY DEF Encoder!FlushResets, EncShapes, EncCodecOK, EncCountersOK, EncDataOK, EncType,
         ContextType, EncOneAtATime, EncEnds, EncUnderway, EncInWork, Filled, Submitted,
         Encoder!Other, Encoder!sems, Encoder!bounds

LEMMA EncFlushOutput_Fed ==
  ASSUME EncShapes, EncOneAtATime, EncEnds, Filled, Submitted, Encoder!FlushOutput
  PROVE  Filled' /\ Submitted'
  BY DEF Encoder!FlushOutput, EncShapes, EncCodecOK, EncCountersOK, EncDataOK, EncType,
         ContextType, EncOneAtATime, EncEnds, EncUnderway, EncInWork, Filled, Submitted,
         Encoder!Other, Encoder!sems, Encoder!bounds, Encoder!BetweenLocks

LEMMA EncTerminate_Fed ==
  ASSUME EncShapes, EncOneAtATime, EncEnds, Filled, Submitted, Encoder!Terminate
  PROVE  Filled' /\ Submitted'
  BY DEF Encoder!Terminate, EncShapes, EncCodecOK, EncCountersOK, EncDataOK, EncType, ContextType,
         EncOneAtATime, EncEnds, EncUnderway, EncInWork, Filled, Submitted, Encoder!Other,
         Encoder!bounds, Encoder!NoData

LEMMA EncJoined_Fed ==
  ASSUME EncShapes, EncOneAtATime, EncEnds, Filled, Submitted, Encoder!Joined
  PROVE  Filled' /\ Submitted'
  BY DEF Encoder!Joined, EncShapes, EncCodecOK, EncCountersOK, EncDataOK, EncType, ContextType,
         EncOneAtATime, EncEnds, EncUnderway, EncInWork, Filled, Submitted, Encoder!Other,
         Encoder!sems, Encoder!data, Encoder!bounds

LEMMA EncRestart_Fed ==
  ASSUME EncShapes, EncOneAtATime, EncEnds, Filled, Submitted, Encoder!Restart
  PROVE  Filled' /\ Submitted'
  BY DEF Encoder!Restart, EncShapes, EncCodecOK, EncCountersOK, EncDataOK, EncType, ContextType,
         EncOneAtATime, EncEnds, EncUnderway, EncInWork, Filled, Submitted, Encoder!Other,
         Encoder!data, Encoder!FreshCodec, Encoder!FreshContext
-----------------------------------------------------------------------------
\* A flush leaves no input, and when the output is flushed no stamp.
FlushedInput ==
  /\ encFlushing # "no" => encPc \in {"idle", "fed", "out"} /\ encIn.len = 0
  /\ encFlushing = "output" =>
       encCheck.set /\ ~encCheck.on /\ \A i \in Index : encRing[i].stamp = -1
\* A codec that was left has nothing to give.
LeftBehind ==
  encPc \in {"join", "closed"} =>
       /\ encFlushing = "no" /\ encIn.len = 0 /\ ~encRe /\ encOut.kind = "none"
       /\ encCheck.set /\ ~encCheck.on

\* The input is the last frame sent, and its stamp is noted where the codec is told.
LastSent ==
  /\ encMfc.sent <= encClient.sent /\ encClient.since <= encClient.sent
  /\ encIn.len # 0 =>
          /\ encIn.len = encClient.sent /\ encIn.stamp = encIn.len
          /\ encIn.len > encClient.since /\ ~encCheck.set
  /\ encIn.len # 0 /\ encPc \in {"idle", "out"} => encRe
  /\ encRe => enc.first \/ encIn.len = 0
  /\ encPc \in {"wait", "collect", "submit"} => enc.conf /\ encRing[enc.ti].stamp = encIn.len
  /\ encPc \in {"wait", "collect"} => ~enc.first
  /\ ~enc.conf => enc.first

\* The codec has a frame to give, whether it is done with it or not.
Loaded == encPc \in {"wait", "collect"} \/ (~enc.first /\ encPc \in {"idle", "fed", "out"})
New(f) == f > encClient.since
StampOf(f) == IF New(f) THEN f ELSE -1     \* a frame from before the flush has lost its stamp
\* Its tag leads to its stamp, and the next frame has another tag.
Tagged ==
  Loaded =>
    /\ enc.ti # encMfc.inTag
    /\ encFlushing = "no" => encRing[encMfc.inTag].stamp = StampOf(encMfc.sent)
    /\ ~EncInWork => encMfc.half[encMfc.cnt] = encMfc.sent /\ encMfc.tag = encMfc.inTag

\* The last frame the client has got, and the one in the half on its way out.
Given == encClient.since + Len(encClient.got)
Out == encMfc.half[encOut.half]
\* A stream on its way out is not overwritten, and is the next one, or an old one.
Leaving ==
  encOut.kind = "frame" =>
    /\ encPc \in {"submit", "out"} /\ encOut.half = Encoder!Other(encMfc.cnt)
    /\ Out <= encClient.sent
    /\ encFlushing = "no" =>
         /\ encOut.stamp = StampOf(Out)
         /\ IF New(Out) THEN Out = Given + 1 ELSE encClient.got = << >>

\* The frames sent since the flush are with the client but for the one on its way out,
\* the one in the codec and the one that is the input.
Consumed == IF encIn.len # 0 THEN encClient.sent - 1 ELSE encClient.sent
Leaves == IF encOut.kind = "frame" /\ New(Out) THEN Given + 1 ELSE Given
Complete ==
  encFlushing = "no" /\ encPc \notin {"join", "closed"} =>
    IF Loaded /\ New(encMfc.sent)
    THEN encMfc.sent = Consumed /\ Leaves + 1 = Consumed
    ELSE Leaves = Consumed /\ (Loaded => encClient.got = << >> /\ Leaves = Given)

\* As long as a frame from before the flush may come, the check holds it back.
HeldBack ==
  encFlushing = "no" /\ encPc \notin {"join", "closed"} =>
    /\ encCheck.set \/ encCheck.on => encClient.got = << >>
    /\ encCheck.set => encClient.sent = encClient.since /\ ~encCheck.on /\ ~encClient.ended
    /\ encCheck.on =>
         \/ encCheck.stamp = encClient.since + 1 /\ encClient.sent > encClient.since
         \/ encCheck.stamp = 0 /\ encClient.ended /\ encClient.sent = encClient.since
    /\ ~encCheck.set /\ ~encCheck.on =>
         /\ (encClient.ended /\ encClient.sent = encClient.since) \/ (Loaded => New(encMfc.sent))
         /\ encOut.kind = "frame" => New(Out)

\* What the client has got since the flush: one frame after the other, with its stamp.
GivenInOrder ==
  \A i \in DOMAIN encClient.got :
    encClient.got[i].frame = encClient.since + i /\ encClient.got[i].stamp = encClient.got[i].frame

Order ==
  /\ enc.code = "ok" /\ FlushedInput /\ LeftBehind /\ LastSent /\ Tagged /\ Leaving /\ Complete
  /\ HeldBack /\ GivenInOrder

\* The header is on its way out or with the client, unless a flush dropped it.
Headed ==
  encFlushes = 0 /\ session <= 1 =>
    /\ encClient.got # << >> => encClient.header
    /\ encPc \notin {"join", "closed"} => ~encCheck.set /\ ~encCheck.on /\ encFlushing = "no"
    /\ enc.conf =>
         \/ encClient.header \/ encPc \in {"join", "closed"}
         \/ encPc = "out" /\ encOut.kind = "header" /\ Out = Encoder!Header
    /\ encOut.kind = "header" => encOut.half = Encoder!Other(encMfc.cnt)
    /\ encOut.kind = "frame" => enc.conf /\ encPc \in {"submit", "out"}
    /\ encPc \notin {"idle", "fed", "out", "join", "closed"} => enc.conf /\ encClient.header

-----------------------------------------------------------------------------
\* Every step that leaves the stream without a failure keeps it in order.
LEMMA EncRefill_Order ==
  ASSUME EncShapes, EncOneAtATime, EncEnds, Order, Encoder!Refill PROVE Order'
  <1> USE DEF Encoder!Refill, Encoder!sems, Encoder!data, Encoder!bounds, EncShapes, EncCodecOK,
             EncDataOK, EncType, ContextType, OutType, Order
  <1>1. enc'.code = "ok" /\ FlushedInput' /\ LeftBehind' /\ LastSent' /\ GivenInOrder'
    BY DEF FlushedInput, Index, LeftBehind, LastSent, GivenInOrder
  <1>2. Tagged' /\ Leaving'
    BY DEF Tagged, Leaving, Loaded, New, StampOf, EncInWork, Out, Given
  <1>3. Complete' /\ HeldBack'
    BY DEF Complete, HeldBack, Loaded, New, Out, Given, Consumed, Leaves
  <1> QED BY <1>1, <1>2, <1>3

LEMMA EncFeed_Order ==
  ASSUME EncShapes, Order, Encoder!Feed PROVE Order'
  <1>1. PICK eos \in BOOLEAN, empty \in BOOLEAN :
          /\ empty => eos
          /\ encIn' = [len |-> IF empty THEN 0 ELSE encClient.sent + 1,
                       stamp |-> IF empty THEN 0 ELSE encClient.sent + 1, eos |-> eos]
          /\ encClient' = [encClient EXCEPT !.sent = IF empty THEN @ ELSE encClient.sent + 1,
                                            !.ended = eos]
          /\ encCheck' = IF encCheck.set
                         THEN [set |-> FALSE, on |-> TRUE,
                               stamp |-> IF empty THEN 0 ELSE encClient.sent + 1]
                         ELSE encCheck
    BY DEF Encoder!Feed
  <1>2. /\ UNCHANGED <<enc, encMfc, encRing, encOut, encFlushing, encStart, encWorker, encRe>>
        /\ encPc = "idle" /\ encPc' = "fed" /\ encIn.len = 0 /\ ~encRe /\ encFlushing = "no"
        /\ ~encClient.ended
        /\ encClient'.got = encClient.got /\ encClient'.since = encClient.since
    BY <1>1 DEF Encoder!Feed, EncShapes, ClientType, Encoder!sems
  <1>3. \/ /\ encIn'.len = 0 /\ encClient'.sent = encClient.sent /\ encClient'.ended
           /\ encCheck' = IF encCheck.set THEN [set |-> FALSE, on |-> TRUE, stamp |-> 0]
                                        ELSE encCheck
        \/ /\ encIn'.len = encClient.sent + 1 /\ encIn'.stamp = encIn'.len
           /\ encClient'.sent = encClient.sent + 1
           /\ encCheck' = IF encCheck.set
                         THEN [set |-> FALSE, on |-> TRUE, stamp |-> encClient.sent + 1]
                          ELSE encCheck
    BY <1>1 DEF EncShapes, ClientType
  <1>4. /\ encClient.sent \in Nat /\ encClient.since \in Nat /\ encMfc.sent \in Nat
        /\ encClient.got \in Seq(StreamType)
        /\ encCheck.set \in BOOLEAN /\ encCheck.on \in BOOLEAN /\ encCheck.stamp \in Nat
        /\ encMfc.half[encOut.half] \in Int
    BY DEF EncShapes, EncCodecOK, EncDataOK, ContextType, ClientType, OutType
  <1>5. enc'.code = "ok" /\ FlushedInput' /\ LeftBehind'
    BY <1>2 DEF Order, FlushedInput, LeftBehind
  <1>6. LastSent'
    BY <1>2, <1>3, <1>4 DEF Order, LastSent
  <1>7. Tagged' /\ Leaving'
    BY <1>2, <1>3, <1>4 DEF Order, Tagged, Leaving, Loaded, StampOf, New, EncInWork, Out, Given
  <1>8. Complete'
    <2>1. Given \in Nat /\ Given' = Given
      BY <1>2, <1>4 DEF Given
    <2> QED BY <2>1, <1>2, <1>3, <1>4
               DEF Order, Complete, Loaded, New, Consumed, Leaves, Out, Leaving
  <1>9. HeldBack'
    BY <1>2, <1>3, <1>4 DEF Order, LastSent, Leaving, HeldBack, Loaded, New, Out
  <1>10. GivenInOrder'
    BY <1>2 DEF Order, GivenInOrder
  <1> QED BY <1>5, <1>6, <1>7, <1>8, <1>9, <1>10 DEF Order

LEMMA EncAgain_Order ==
  ASSUME EncShapes, EncOneAtATime, EncEnds, Order, Encoder!Again PROVE Order'
  <1> USE DEF Encoder!Again, Encoder!sems, Encoder!data, Encoder!bounds, EncShapes, EncCodecOK,
             EncDataOK, EncType, ContextType, OutType, Order
  <1>1. enc'.code = "ok" /\ FlushedInput' /\ LeftBehind' /\ LastSent' /\ GivenInOrder'
    BY DEF FlushedInput, Index, LeftBehind, LastSent, GivenInOrder
  <1>2. Tagged' /\ Leaving'
    BY DEF Tagged, Leaving, Loaded, New, StampOf, EncInWork, Out, Given
  <1>3. Complete' /\ HeldBack'
    BY DEF Complete, HeldBack, Loaded, New, Out, Given, Consumed, Leaves
  <1> QED BY <1>1, <1>2, <1>3

LEMMA EncConfigure_Order ==
  ASSUME EncShapes, EncOneAtATime, EncEnds, Order, Encoder!Configure PROVE Order'
  <1> USE DEF Encoder!Configure, Encoder!Returns, Encoder!sems, Encoder!bounds, Encoder!NoData,
             Encoder!Header, Encoder!NextHalf, EncShapes, EncCodecOK, EncDataOK, EncType,
             ContextType, OutType, Order
  <1>1. enc'.code = "ok" /\ FlushedInput' /\ LeftBehind' /\ LastSent' /\ GivenInOrder'
    BY DEF FlushedInput, Index, LeftBehind, LastSent, GivenInOrder
  <1>2. Tagged' /\ Leaving'
    BY DEF Tagged, Leaving, Loaded, New, StampOf, EncInWork, Out, Given, LastSent
  <1>3. Complete' /\ HeldBack'
    BY DEF Complete, HeldBack, Loaded, New, Out, Given, Consumed, Leaves, LastSent, Leaving
  <1> QED BY <1>1, <1>2, <1>3

LEMMA EncEmptyInput_Order ==
  ASSUME EncShapes, EncOneAtATime, EncEnds, Order, Encoder!EmptyInput PROVE Order'
  <1> USE DEF Encoder!EmptyInput, Encoder!Returns, Encoder!sems, Encoder!bounds, Encoder!NoData,
             EncShapes, EncCodecOK, EncDataOK, EncType, ContextType, OutType, Order
  <1>1. enc'.code = "ok" /\ FlushedInput' /\ LeftBehind' /\ LastSent' /\ GivenInOrder'
    BY DEF FlushedInput, Index, LeftBehind, LastSent, GivenInOrder
  <1>2. Tagged' /\ Leaving'
    BY DEF Tagged, Leaving, Loaded, New, StampOf, EncInWork, Out, Given
  <1>3. Complete' /\ HeldBack'
    BY DEF Complete, HeldBack, Loaded, New, Out, Given, Consumed, Leaves, Leaving
  <1> QED BY <1>1, <1>2, <1>3

LEMMA EncLook_Order ==
  ASSUME EncShapes, EncOneAtATime, EncEnds, Order, Encoder!Look PROVE Order'
  <1> USE DEF Encoder!Look, Encoder!sems, Encoder!data, Encoder!bounds, EncShapes, EncCodecOK,
             EncDataOK, EncType, ContextType, OutType, Order
  <1>1. enc'.code = "ok" /\ FlushedInput' /\ LeftBehind' /\ LastSent' /\ GivenInOrder'
    BY DEF FlushedInput, Index, LeftBehind, LastSent, GivenInOrder
  <1>2. Tagged' /\ Leaving'
    BY DEF Tagged, Leaving, Loaded, New, StampOf, EncInWork, Out, Given
  <1>3. Complete' /\ HeldBack'
    BY DEF Complete, HeldBack, Loaded, New, Out, Given, Consumed, Leaves
  <1> QED BY <1>1, <1>2, <1>3

LEMMA EncWaitDone_Order ==
  ASSUME EncShapes, EncOneAtATime, EncEnds, Order, Encoder!WaitDone PROVE Order'
  <1> USE DEF Encoder!WaitDone, Encoder!data, Encoder!bounds, EncShapes, EncCodecOK, EncDataOK,
             EncType, ContextType, OutType, Order
  <1>1. enc'.code = "ok" /\ FlushedInput' /\ LeftBehind' /\ LastSent' /\ GivenInOrder'
    BY DEF FlushedInput, Index, LeftBehind, LastSent, GivenInOrder
  <1>2. Tagged' /\ Leaving'
    BY DEF Tagged, Leaving, Loaded, New, StampOf, EncInWork, Out, Given
  <1>3. Complete' /\ HeldBack'
    BY DEF Complete, HeldBack, Loaded, New, Out, Given, Consumed, Leaves
  <1> QED BY <1>1, <1>2, <1>3

LEMMA EncCollect_Order ==
  ASSUME EncShapes, EncOneAtATime, EncEnds, Filled, Order, ~encClient.error, Encoder!Collect
  PROVE  Order'
  <1>1. /\ UNCHANGED <<encRing, encIn, encClient, encFlushing, encCheck, encStart, encWorker,
                        encRe>>
        /\ encPc = "collect" /\ encPc' = "submit"
        /\ encOut'.kind = "frame" /\ encOut'.half = encMfc.cnt
        /\ encOut'.stamp = encRing[encMfc.tag].stamp
        /\ encMfc'.cnt = Encoder!Other(encMfc.cnt) /\ encMfc'.half = encMfc.half
        /\ encMfc'.sent = encMfc.sent
        /\ encMfc'.inTag = encMfc.inTag
        /\ enc'.code = "ok" /\ enc'.first = enc.first /\ enc'.conf = enc.conf /\ enc'.ti = enc.ti
    BY DEF Encoder!Collect, Encoder!NextHalf, EncShapes, EncCodecOK, EncType, ContextType,
           Encoder!sems
  <1>2. /\ encClient.sent \in Nat /\ encClient.since \in Nat /\ encMfc.sent \in Nat
        /\ encClient.got \in Seq(StreamType) /\ encMfc.half \in [0 .. 1 -> Int]
        /\ encMfc.cnt \in 0 .. 1
        /\ encOut.half \in 0 .. 1 /\ encCheck.set \in BOOLEAN /\ encCheck.on \in BOOLEAN
        /\ encCheck.stamp \in Nat
    BY DEF EncShapes, EncCodecOK, EncDataOK, ContextType, ClientType, OutType
  \* The frame is done: it is in the half that the codec wrote last.
  <1>3. /\ encFlushing = "no" /\ ~encCheck.set /\ Loaded /\ ~Loaded' /\ encIn.len = encClient.sent
        /\ encIn.len # 0
        /\ encIn.len > encClient.since
        /\ encMfc.half[encMfc.cnt] = encMfc.sent /\ encMfc.tag = encMfc.inTag
        /\ encOut.kind # "frame"
    <2>1. ~EncInWork
      <3>1. ~enc.exit /\ enc.run = FALSE
        BY <1>1 DEF EncEnds, EncOneAtATime, EncShapes, EncCodecOK, EncType
      <3>2. encStart + encEnd + (IF encWorker = "exe" THEN 1 ELSE 0) = 0
        BY <3>1 DEF EncOneAtATime, EncUnderway
      <3> QED BY <3>2 DEF EncInWork, EncShapes, EncCountersOK
    <2> QED BY <2>1, <1>1 DEF Order, FlushedInput, LastSent, Tagged, Leaving, Loaded, Filled
  <1>4. /\ Out' = encMfc.sent /\ encOut'.stamp = StampOf(encMfc.sent)
        /\ encOut'.half = Encoder!Other(encMfc'.cnt)
    BY <1>1, <1>3, <1>2 DEF Order, Tagged, Out, Encoder!Other
  <1>5. enc'.code = "ok" /\ FlushedInput' /\ LeftBehind' /\ LastSent' /\ Tagged' /\ GivenInOrder'
    BY <1>1, <1>3 DEF Order, FlushedInput, LeftBehind, LastSent, Tagged, GivenInOrder
  <1>6. Given \in Nat /\ Given' = Given /\ Consumed' = Consumed /\ Leaves = Given
        /\ Consumed = encClient.sent - 1
    BY <1>1, <1>3, <1>2 DEF Given, Consumed, Leaves
  <1>7. IF New(encMfc.sent) THEN encMfc.sent = Consumed /\ Given + 1 = Consumed
        ELSE Given = Consumed /\ encClient.got = << >>
    BY <1>1, <1>3, <1>6 DEF Order, Complete
  <1>8. Leaving' /\ Complete'
    BY <1>1, <1>3, <1>2, <1>4, <1>6, <1>7
       DEF Order, LastSent, Leaving, Complete, New, StampOf, Leaves, Loaded
  <1>9. HeldBack'
    BY <1>1, <1>3, <1>2, <1>4 DEF Order, HeldBack, New, Loaded
  <1> QED BY <1>5, <1>8, <1>9 DEF Order

LEMMA EncSubmit_Order ==
  ASSUME EncShapes, EncOneAtATime, EncEnds, Filled, Order, ~encClient.error, Encoder!Submit PROVE Order'
  <1>1. /\ UNCHANGED <<encRing, encOut, encClient, encFlushing, encCheck, encEnd, encWorker>>
        /\ encPc = "submit" /\ encPc' = "out" /\ encIn'.len = 0 /\ encRe' = FALSE
        /\ encStart' = encStart + 1
        /\ encMfc'.half = encMfc.half /\ encMfc'.cnt = encMfc.cnt /\ encMfc'.sent = encIn.len
        /\ encMfc'.inTag = enc.ti
        /\ encMfc'.tag = encMfc.tag
        /\ enc'.code = "ok" /\ enc'.first = FALSE /\ enc'.conf = enc.conf /\ enc'.exit = enc.exit
        /\ enc'.ti = (enc.ti + 1) % Ring
    BY DEF Encoder!Submit, Encoder!Failed, Encoder!NoData, Order, EncShapes, EncCodecOK, EncType,
           ContextType, ClientType
  <1>2. /\ encClient.sent \in Nat /\ encClient.since \in Nat /\ encMfc.sent \in Nat
        /\ encClient.got \in Seq(StreamType) /\ encMfc.half \in [0 .. 1 -> Int]
        /\ encMfc.cnt \in 0 .. 1
        /\ encOut.half \in 0 .. 1 /\ encCheck.set \in BOOLEAN /\ encCheck.on \in BOOLEAN
        /\ encCheck.stamp \in Nat
    BY DEF EncShapes, EncCodecOK, EncDataOK, ContextType, ClientType, OutType
  <1>3. /\ encFlushing = "no" /\ ~encCheck.set /\ ~Loaded /\ Loaded' /\ encIn.len = encClient.sent
        /\ encIn.len # 0
        /\ encIn.len > encClient.since /\ encRing[enc.ti].stamp = encIn.len /\ ~enc.exit
    BY <1>1 DEF Order, FlushedInput, LastSent, Loaded, EncShapes, EncCountersOK, Filled, EncEnds
  <1>4. enc'.ti # enc.ti
    BY <1>1, NextIndex DEF EncShapes, EncCodecOK, EncType
  <1>5. FlushedInput' /\ LeftBehind' /\ LastSent' /\ GivenInOrder'
    BY <1>1, <1>3, <1>2 DEF Order, FlushedInput, LeftBehind, LastSent, GivenInOrder
  <1>6. EncInWork' /\ Tagged'
    <2>1. encStart + 1 > 0
      BY DEF EncShapes, EncCountersOK
    <2> QED BY <2>1, <1>1, <1>3, <1>4 DEF Tagged, EncInWork, StampOf, New
  <1>7. /\ Given \in Nat /\ Given' = Given
        /\ Consumed' = encClient.sent /\ Consumed = encClient.sent - 1
        /\ Leaves' = Leaves /\ Out' = Out
    BY <1>1, <1>3, <1>2 DEF Given, Consumed, Leaves, Out, New
  <1>8. Leaving' /\ Complete'
    <2>1. Leaves = Consumed
      BY <1>1, <1>3 DEF Order, Complete
    <2> QED BY <2>1, <1>1, <1>3, <1>2, <1>7 DEF Order, Leaving, Complete, New, StampOf
  <1>9. HeldBack'
    BY <1>1, <1>3, <1>2, <1>7 DEF Order, HeldBack, New, Loaded
  <1> QED BY <1>1, <1>5, <1>6, <1>8, <1>9 DEF Order

LEMMA EncFeedOnTop_Order ==
  ASSUME EncShapes, Filled, ~encClient.error, Encoder!FeedOnTop PROVE Order'
  BY DEF Encoder!FeedOnTop, Filled

LEMMA EncDeliver_Order ==
  ASSUME EncShapes, Order, Encoder!Deliver PROVE Order'
  <1>1. /\ UNCHANGED <<enc, encMfc, encRing, encStart, encWorker, encIn, encRe, encFlushing>>
        /\ encPc = "out" /\ encPc' = "idle" /\ encOut'.kind = "none"
        /\ encClient'.sent = encClient.sent /\ encClient'.since = encClient.since
        /\ encClient'.ended = encClient.ended
        /\ encCheck' = IF encCheck.on /\ encOut.stamp = encCheck.stamp THEN Encoder!NoCheck
                                                                      ELSE encCheck
        /\ encClient'.got = IF Encoder!Passes /\ encFlushing = "no"
                            THEN encClient.got \o Encoder!Received(encOut)
                            ELSE encClient.got
    BY DEF Encoder!Deliver, Encoder!NoOut, EncShapes, ClientType, Encoder!sems
  <1>2. /\ encClient.sent \in Nat /\ encClient.since \in Nat /\ encMfc.sent \in Nat
        /\ encClient.got \in Seq(StreamType) /\ encMfc.half \in [0 .. 1 -> Int]
        /\ encMfc.cnt \in 0 .. 1
        /\ encOut.half \in 0 .. 1 /\ encCheck.set \in BOOLEAN /\ encCheck.on \in BOOLEAN
        /\ encCheck.stamp \in Nat
    BY DEF EncShapes, EncCodecOK, EncDataOK, ContextType, ClientType, OutType
  <1>3. LeftBehind' /\ LastSent' /\ Tagged' /\ Leaving'
    <2>1. LeftBehind' /\ LastSent'
      BY <1>1 DEF Order, LeftBehind, LastSent, Encoder!NoCheck
    <2>2. Tagged' /\ Leaving'
      BY <1>1 DEF Order, Tagged, Leaving, Loaded, StampOf, New, EncInWork
    <2> QED BY <2>1, <2>2
  <1>4. FlushedInput'
    <2>1. encFlushing = "output" => encCheck.set /\ ~encCheck.on
      BY DEF Order, FlushedInput
    <2> QED BY <2>1, <1>1 DEF Order, FlushedInput
  <1>5. CASE encFlushing # "no"
    <2>1. encClient'.got = encClient.got
      BY <1>5, <1>1
    <2> QED BY <2>1, <1>5, <1>1, <1>3, <1>4 DEF Order, Complete, HeldBack, GivenInOrder
  <1>6. CASE encFlushing = "no" /\ encOut.kind = "frame" /\ New(Out)
    <2>1. /\ encOut.stamp = Out /\ Out = Given + 1 /\ Out <= encClient.sent
          /\ Given = encClient.since + Len(encClient.got)
      BY <1>6 DEF Order, Leaving, StampOf, Given
    \* A frame sent since the flush goes out: the check is for the first of them.
    <2>2. Encoder!Passes
      <3>1. ~encCheck.set
        BY <1>1, <1>2, <1>6, <2>1 DEF Order, HeldBack, New
      <3>2. encCheck.on => encOut.stamp = encCheck.stamp
        <4> SUFFICES ASSUME encCheck.on PROVE encOut.stamp = encCheck.stamp
          OBVIOUS
        <4>1. encClient.got = << >>
          BY <1>1, <1>6 DEF Order, HeldBack
        <4>2. encCheck.stamp = encClient.since + 1
          BY <1>1, <1>2, <1>6, <2>1 DEF Order, HeldBack, New
        <4> QED BY <4>1, <4>2, <2>1, <1>2
      <3> QED BY <3>1, <3>2 DEF Encoder!Passes
    <2>3. encClient'.got = Append(encClient.got, [frame |-> Out, stamp |-> Out])
      BY <1>1, <1>2, <1>6, <2>1, <2>2 DEF Encoder!Received, Out
    <2>4. /\ Len(encClient'.got) = Len(encClient.got) + 1
          /\ \A i \in DOMAIN encClient'.got :
               encClient'.got[i] = IF i \in DOMAIN encClient.got THEN encClient.got[i]
                                   ELSE [frame |-> Out, stamp |-> Out]
          /\ \A i \in DOMAIN encClient'.got :
               i \in DOMAIN encClient.got \/ i = Len(encClient.got) + 1
          /\ Len(encClient.got) \in Nat
      BY <2>3, <1>2
    <2>5. GivenInOrder'
      <3> SUFFICES ASSUME NEW i \in DOMAIN encClient'.got
                   PROVE  /\ encClient'.got[i].frame = encClient'.since + i
                          /\ encClient'.got[i].stamp = encClient'.got[i].frame
        BY DEF GivenInOrder
      <3>1. CASE i \in DOMAIN encClient.got
        BY <3>1, <2>4, <1>1 DEF Order, GivenInOrder
      <3>2. CASE i \notin DOMAIN encClient.got
        <4>1. /\ encClient'.got[i].frame = Out /\ encClient'.got[i].stamp = Out
              /\ i = Len(encClient.got) + 1
          BY <3>2, <2>4
        <4> QED BY <4>1, <2>1, <2>4, <1>1, <1>2
      <3> QED BY <3>1, <3>2
    <2>6. Given' = Given + 1 /\ Leaves' = Leaves /\ Consumed' = Consumed
      <3>1. Given' = Given + 1
        BY <2>4, <1>1, <1>2 DEF Given
      <3>2. Leaves = Given + 1 /\ Leaves' = Given'
        BY <1>1, <1>6 DEF Leaves
      <3> QED BY <3>1, <3>2, <1>1 DEF Consumed
    <2>7. Loaded' = Loaded /\ (Loaded => New(encMfc.sent))
      BY <1>1, <1>2, <1>6, <2>1 DEF Order, Complete, Loaded, Leaves, Consumed, New, Given
    <2>8. Complete'
      BY <2>6, <2>7, <1>1, <1>6 DEF Order, Complete, New
    <2>9. ~encCheck'.set /\ ~encCheck'.on
      BY <2>2, <1>1, <1>2 DEF Encoder!Passes, Encoder!NoCheck
    <2>10. HeldBack'
      BY <2>7, <2>9, <1>1 DEF HeldBack, New
    <2> QED BY <1>1, <1>3, <1>4, <2>5, <2>8, <2>10 DEF Order
  <1>7. CASE encFlushing = "no" /\ ~(encOut.kind = "frame" /\ New(Out))
    \* A frame from before the flush has no stamp, so the check holds it back.
    <2>1. encOut.kind = "frame" => ~Encoder!Passes
      BY <1>1, <1>2, <1>7 DEF Order, Leaving, HeldBack, Encoder!Passes, StampOf
    <2>2. encClient'.got = encClient.got
      <3>1. encClient.got \o << >> = encClient.got
        BY <1>2
      <3> QED BY <3>1, <2>1, <1>1 DEF Encoder!Received
    <2>3. GivenInOrder'
      BY <2>2, <1>1 DEF Order, GivenInOrder
    <2>4. /\ Given' = Given /\ Leaves = Given /\ Leaves' = Given
          /\ Consumed' = Consumed /\ Loaded' = Loaded
      BY <2>2, <1>1, <1>7 DEF Given, Leaves, Consumed, Loaded
    <2>5. Complete'
      BY <2>2, <2>4, <1>1, <1>7 DEF Order, Complete, New
    <2>6. HeldBack'
      <3>1. CASE encCheck' = encCheck
        BY <3>1, <2>2, <2>4, <1>1, <1>7 DEF Order, HeldBack, New
      <3>2. CASE encCheck.on /\ encOut.stamp = encCheck.stamp /\ encCheck' = Encoder!NoCheck
        <4>1. (encClient.ended /\ encClient.sent = encClient.since) \/ (Loaded => New(encMfc.sent))
          BY <3>2, <2>1, <2>4, <1>1, <1>2, <1>7, SMTT(30)
             DEF Order, HeldBack, Complete, Loaded, New, Given, Consumed, LastSent, Leaving,
                 StampOf
        <4> QED BY <4>1, <3>2, <2>4, <1>1 DEF HeldBack, Encoder!NoCheck, New
      <3> QED BY <3>1, <3>2, <1>1
    <2> QED BY <1>1, <1>3, <1>4, <2>3, <2>5, <2>6 DEF Order
  <1> QED BY <1>5, <1>6, <1>7

LEMMA EncTake_Order ==
  ASSUME EncShapes, EncOneAtATime, EncEnds, Order, Encoder!Take PROVE Order'
  <1> USE DEF Encoder!Take, Encoder!data, Encoder!bounds, EncShapes, EncCodecOK, EncDataOK,
             EncType, ContextType, OutType, Order
  <1>1. enc'.code = "ok" /\ FlushedInput' /\ LeftBehind' /\ LastSent' /\ GivenInOrder'
    BY DEF FlushedInput, Index, LeftBehind, LastSent, GivenInOrder
  <1>2. Tagged' /\ Leaving'
    BY DEF Tagged, Leaving, Loaded, New, StampOf, EncInWork, Out, Given
  <1>3. Complete' /\ HeldBack'
    BY DEF Complete, HeldBack, Loaded, New, Out, Given, Consumed, Leaves
  <1> QED BY <1>1, <1>2, <1>3

LEMMA EncExe_Order ==
  ASSUME EncShapes, EncOneAtATime, EncEnds, Order, Encoder!Sound', Encoder!Exe PROVE Order'
  <1>1. /\ UNCHANGED <<encRing, encOut, encClient, encFlushing, encCheck, encStart, encPc, encIn,
                        encRe>>
        /\ encWorker = "exe" /\ encWorker' # "exe"
        /\ encMfc'.half = [encMfc.half EXCEPT ![encMfc.cnt] = encMfc.sent]
        /\ encMfc'.cnt = encMfc.cnt
        /\ encMfc'.sent = encMfc.sent /\ encMfc'.inTag = encMfc.inTag
        /\ encMfc'.tag = encMfc.inTag
        /\ enc'.code = "ok" /\ enc'.first = enc.first /\ enc'.conf = enc.conf
        /\ enc'.exit = enc.exit /\ enc'.ti = enc.ti
    <2>1. PICK ok \in BOOLEAN :
            /\ encMfc' =
                 IF ok THEN [encMfc EXCEPT !.half[encMfc.cnt] = encMfc.sent, !.tag = encMfc.inTag]
                       ELSE encMfc
            /\ enc' = [enc EXCEPT !.code = IF ok THEN "ok" ELSE "error"]
            /\ encErrors' = encErrors + (IF ok THEN 0 ELSE 1)
      BY DEF Encoder!Exe
    <2>2. ok
      BY <2>1 DEF Encoder!Sound, EncShapes, EncCountersOK
    <2>3. UNCHANGED <<encRing, encOut, encClient, encFlushing, encCheck, encStart, encPc, encIn,
                      encRe>>
          /\ encWorker = "exe" /\ encWorker' # "exe"
      BY DEF Encoder!Exe, Encoder!data
    <2> QED BY <2>1, <2>2, <2>3 DEF EncShapes, EncCodecOK, EncType, ContextType
  <1>2. /\ encClient.sent \in Nat /\ encClient.since \in Nat /\ encMfc.sent \in Nat
        /\ encClient.got \in Seq(StreamType) /\ encMfc.half \in [0 .. 1 -> Int]
        /\ encMfc.cnt \in 0 .. 1
        /\ encOut.half \in 0 .. 1 /\ encCheck.set \in BOOLEAN /\ encCheck.on \in BOOLEAN
        /\ encCheck.stamp \in Nat
    BY DEF EncShapes, EncCodecOK, EncDataOK, ContextType, ClientType, OutType
  \* The stream that waits to be copied is in the other half.
  <1>3. encOut.kind = "frame" => Out' = Out
    BY <1>1, <1>2 DEF Order, Leaving, Out, Encoder!Other
  <1>4. FlushedInput' /\ LeftBehind' /\ LastSent' /\ GivenInOrder'
    BY <1>1 DEF Order, FlushedInput, LeftBehind, LastSent, GivenInOrder
  <1>5. Loaded' = Loaded /\ Given' = Given /\ Consumed' = Consumed /\ Leaves' = Leaves
    BY <1>1, <1>3 DEF Loaded, Given, Consumed, Leaves, New
  <1>6. Tagged'
    BY <1>1, <1>2, <1>5 DEF Order, Tagged, StampOf, New
  <1>7. Leaving' /\ Complete'
    BY <1>1, <1>3, <1>5 DEF Order, Leaving, Complete, New, StampOf
  <1>8. HeldBack'
    BY <1>1, <1>3, <1>5 DEF Order, HeldBack, New
  <1> QED BY <1>1, <1>4, <1>6, <1>7, <1>8 DEF Order

LEMMA EncFlush_Order ==
  ASSUME EncShapes, EncOneAtATime, EncEnds, Order, Encoder!Flush PROVE Order'
  <1> USE DEF Encoder!Flush, Encoder!sems, Encoder!NoData, Encoder!BetweenLocks, EncShapes,
             EncCodecOK, EncDataOK, EncType, ContextType, OutType, Order
  <1>1. enc'.code = "ok" /\ FlushedInput' /\ LeftBehind' /\ LastSent' /\ GivenInOrder'
    BY DEF FlushedInput, Index, LeftBehind, LastSent, GivenInOrder
  <1>2. Tagged' /\ Leaving'
    BY DEF Tagged, Leaving, Loaded, New, StampOf, EncInWork, Out, Given
  <1>3. Complete' /\ HeldBack'
    BY DEF Complete, HeldBack, Loaded, New, Out, Given, Consumed, Leaves
  <1> QED BY <1>1, <1>2, <1>3

LEMMA EncFlushResets_Order ==
  ASSUME EncShapes, EncOneAtATime, EncEnds, Order, Encoder!FlushResets PROVE Order'
  <1> USE DEF Encoder!FlushResets, Encoder!sems, Encoder!bounds, Encoder!WipedRing, Encoder!Wiped,
             EncShapes, EncCodecOK, EncDataOK, EncType, ContextType, OutType, Order
  <1>1. enc'.code = "ok" /\ FlushedInput' /\ LeftBehind' /\ LastSent' /\ GivenInOrder'
    BY DEF FlushedInput, Index, LeftBehind, LastSent, GivenInOrder
  <1>2. Tagged' /\ Leaving'
    BY DEF Tagged, Leaving, Loaded, New, StampOf, EncInWork, Out, Given
  <1>3. Complete' /\ HeldBack'
    BY DEF Complete, HeldBack, Loaded, New, Out, Given, Consumed, Leaves
  <1> QED BY <1>1, <1>2, <1>3

LEMMA EncFlushOutput_Order ==
  ASSUME EncShapes, Order, Encoder!FlushOutput PROVE Order'
  <1>1. /\ UNCHANGED <<encRing, enc, encMfc, encCheck, encStart, encWorker, encIn, encRe, encPc>>
        /\ encFlushing = "output" /\ encFlushing' = "no" /\ encOut'.kind = "none"
        /\ encClient'.sent = encClient.sent /\ encClient'.since = encClient.sent
        /\ encClient'.got = << >>
        /\ encClient'.ended = FALSE
    BY DEF Encoder!FlushOutput, Encoder!NoOut, EncShapes, ClientType, Encoder!sems
  <1>2. /\ encClient.sent \in Nat /\ encClient.since \in Nat /\ encMfc.sent \in Nat
        /\ encClient.got \in Seq(StreamType) /\ encMfc.half \in [0 .. 1 -> Int]
        /\ encMfc.cnt \in 0 .. 1
        /\ encOut.half \in 0 .. 1 /\ encCheck.set \in BOOLEAN /\ encCheck.on \in BOOLEAN
        /\ encCheck.stamp \in Nat
    BY DEF EncShapes, EncCodecOK, EncDataOK, ContextType, ClientType, OutType
  <1>3. /\ encIn.len = 0 /\ encCheck.set /\ encMfc.sent <= encClient.sent
        /\ encPc \in {"idle", "fed", "out"}
    BY <1>1 DEF Order, FlushedInput, LastSent
  <1>4. encRing[encMfc.inTag].stamp = -1
    BY <1>1 DEF Order, FlushedInput, EncShapes, EncCodecOK, ContextType
  <1>5. FlushedInput' /\ LeftBehind' /\ LastSent'
    BY <1>1, <1>3, <1>2 DEF Order, FlushedInput, LeftBehind, LastSent
  <1>6. ~New(encMfc.sent)' /\ (Loaded => Loaded) /\ Loaded' = Loaded
    BY <1>1, <1>3, <1>2 DEF New, Loaded
  <1>7. Tagged' /\ Leaving' /\ GivenInOrder'
    BY <1>1, <1>4, <1>6 DEF Order, Tagged, Leaving, GivenInOrder, StampOf, EncInWork
  <1>8. Given' = encClient.sent /\ Consumed' = encClient.sent /\ Leaves' = encClient.sent
    BY <1>1, <1>3, <1>2 DEF Given, Consumed, Leaves
  <1>9. Complete' /\ HeldBack'
    <2>1. ~encCheck.on
      BY <1>1, <1>3 DEF Order, FlushedInput
    <2> QED BY <2>1, <1>1, <1>3, <1>6, <1>8 DEF Complete, HeldBack
  <1> QED BY <1>1, <1>5, <1>7, <1>9 DEF Order

LEMMA EncTerminate_Order ==
  ASSUME EncShapes, EncOneAtATime, EncEnds, Order, Encoder!Terminate PROVE Order'
  <1> USE DEF Encoder!Terminate, Encoder!bounds, Encoder!NoData, Encoder!NoOut, EncShapes,
             EncCodecOK, EncDataOK, EncType, ContextType, OutType, Order
  <1>1. enc'.code = "ok" /\ FlushedInput' /\ LeftBehind' /\ LastSent' /\ GivenInOrder'
    BY DEF FlushedInput, Index, LeftBehind, LastSent, GivenInOrder
  <1>2. Tagged' /\ Leaving'
    BY DEF Tagged, Leaving, Loaded, New, StampOf, EncInWork, Out, Given
  <1>3. Complete' /\ HeldBack'
    BY DEF Complete, HeldBack, Loaded, New, Out, Given, Consumed, Leaves
  <1> QED BY <1>1, <1>2, <1>3

LEMMA EncJoined_Order ==
  ASSUME EncShapes, EncOneAtATime, EncEnds, Order, Encoder!Joined PROVE Order'
  <1> USE DEF Encoder!Joined, Encoder!sems, Encoder!data, Encoder!bounds, EncShapes, EncCodecOK,
             EncDataOK, EncType, ContextType, OutType, Order
  <1>1. enc'.code = "ok" /\ FlushedInput' /\ LeftBehind' /\ LastSent' /\ GivenInOrder'
    BY DEF FlushedInput, Index, LeftBehind, LastSent, GivenInOrder
  <1>2. Tagged' /\ Leaving'
    BY DEF Tagged, Leaving, Loaded, New, StampOf, EncInWork, Out, Given
  <1>3. Complete' /\ HeldBack'
    BY DEF Complete, HeldBack, Loaded, New, Out, Given, Consumed, Leaves
  <1> QED BY <1>1, <1>2, <1>3

LEMMA EncRestart_Order ==
  ASSUME EncShapes, EncOneAtATime, EncEnds, Order, Encoder!Restart PROVE Order'
  <1>1. /\ encClient'.got = << >> /\ encClient'.since = encClient.sent
        /\ encClient'.sent = encClient.sent
        /\ encClient'.ended = FALSE /\ encClient.sent \in Nat
    BY DEF Encoder!Restart, EncShapes, ClientType
  <1>2. /\ encPc' = "idle" /\ encFlushing' = "no" /\ encIn'.len = 0 /\ ~encRe'
        /\ encOut'.kind = "none"
        /\ encCheck'.set /\ ~encCheck'.on
    BY DEF Encoder!Restart, Encoder!data, Order, LeftBehind
  <1>3. /\ enc'.code = "ok" /\ enc'.first /\ ~enc'.conf /\ encMfc'.sent = 0
    BY DEF Encoder!Restart, Encoder!FreshCodec, Encoder!FreshContext
  <1>4. FlushedInput' /\ LeftBehind' /\ LastSent'
    BY <1>1, <1>2, <1>3 DEF FlushedInput, LeftBehind, LastSent
  <1>5. Tagged' /\ Leaving'
    BY <1>2, <1>3 DEF Tagged, Leaving, Loaded
  <1>6. Complete' /\ HeldBack'
    BY <1>1, <1>2, <1>3 DEF Complete, HeldBack, Loaded, Given, Consumed, Leaves
  <1>7. GivenInOrder'
    BY <1>1 DEF GivenInOrder
  <1> QED BY <1>3, <1>4, <1>5, <1>6, <1>7 DEF Order

LEMMA EncInit_Order == Encoder!Init => Order
  BY DEF Encoder!Init, Order, FlushedInput, LeftBehind, LastSent, Tagged, Leaving, Complete,
         HeldBack, GivenInOrder, Loaded, New, Given, Consumed, Leaves, Encoder!NoData,
         Encoder!NoOut, Encoder!NoCheck, Encoder!FreshCodec, Encoder!FreshContext,
         Encoder!WipedRing, Encoder!Wiped

LEMMA EncInit_Control == Encoder!Init => EncOneAtATime /\ EncEnds /\ Filled /\ Submitted
  BY DEF Encoder!Init, EncOneAtATime, EncEnds, EncUnderway, Filled, Submitted, EncInWork,
         Encoder!NoData, Encoder!FreshCodec, Encoder!FreshContext

LEMMA EncInit_Headed == Encoder!Init => Headed
  BY DEF Encoder!Init, Headed, Encoder!NoData, Encoder!NoOut, Encoder!NoCheck, Encoder!FreshCodec,
         Encoder!FreshContext

-----------------------------------------------------------------------------
\* Every step keeps the header in front.
LEMMA EncRefill_Headed ==
  ASSUME EncShapes, EncOneAtATime, EncEnds, Headed, Encoder!Refill PROVE Headed'
  BY DEF Headed, Out, EncShapes, EncCodecOK, EncDataOK, EncCountersOK, EncType, ContextType,
         OutType, ClientType, EncOneAtATime, EncUnderway, EncEnds, Encoder!Header, Encoder!Refill,
         Encoder!sems, Encoder!data, Encoder!bounds, Encoder!Other

LEMMA EncFeed_Headed ==
  ASSUME EncShapes, EncOneAtATime, EncEnds, Headed, Encoder!Feed PROVE Headed'
  BY DEF Headed, Out, EncShapes, EncCodecOK, EncDataOK, EncCountersOK, EncType, ContextType,
         OutType, ClientType, EncOneAtATime, EncUnderway, EncEnds, Encoder!Header, Encoder!Feed,
         Encoder!sems, Encoder!bounds, Encoder!Other

LEMMA EncAgain_Headed ==
  ASSUME EncShapes, EncOneAtATime, EncEnds, Headed, Encoder!Again PROVE Headed'
  BY DEF Headed, Out, EncShapes, EncCodecOK, EncDataOK, EncCountersOK, EncType, ContextType,
         OutType, ClientType, EncOneAtATime, EncUnderway, EncEnds, Encoder!Header, Encoder!Again,
         Encoder!sems, Encoder!data, Encoder!bounds, Encoder!Other

LEMMA EncConfigure_Headed ==
  ASSUME EncShapes, EncOneAtATime, EncEnds, Headed, Encoder!Configure PROVE Headed'
  <1>1. /\ UNCHANGED <<encCheck, encFlushing, encClient, encFlushes, session>>
        /\ encPc = "fed" /\ encPc' = "out" /\ enc'.conf
        /\ encOut'.kind = "header" /\ encOut'.half = encMfc.cnt
        /\ encMfc'.half[encMfc.cnt] = Encoder!Header
        /\ encMfc.cnt = Encoder!Other(encMfc'.cnt)
    BY DEF Encoder!Configure, Encoder!Returns, Encoder!bounds, Encoder!NextHalf, Encoder!Other,
           EncShapes, EncCodecOK, EncType, ContextType
  <1> QED BY <1>1 DEF Headed, Out

LEMMA EncEmptyInput_Headed ==
  ASSUME EncShapes, EncOneAtATime, EncEnds, Headed, Encoder!EmptyInput PROVE Headed'
  BY DEF Headed, Out, EncShapes, EncCodecOK, EncDataOK, EncCountersOK, EncType, ContextType,
         OutType, ClientType, EncOneAtATime, EncUnderway, EncEnds, Encoder!Header,
         Encoder!EmptyInput, Encoder!Returns, Encoder!sems, Encoder!bounds, Encoder!NoData,
         Encoder!Other

LEMMA EncLook_Headed ==
  ASSUME EncShapes, EncOneAtATime, EncEnds, Headed, Encoder!Look PROVE Headed'
  BY DEF Headed, Out, EncShapes, EncCodecOK, EncDataOK, EncCountersOK, EncType, ContextType,
         OutType, ClientType, EncOneAtATime, EncUnderway, EncEnds, Encoder!Header, Encoder!Look,
         Encoder!sems, Encoder!data, Encoder!bounds, Encoder!Other

LEMMA EncWaitDone_Headed ==
  ASSUME EncShapes, EncOneAtATime, EncEnds, Headed, Encoder!WaitDone PROVE Headed'
  BY DEF Headed, Out, EncShapes, EncCodecOK, EncDataOK, EncCountersOK, EncType, ContextType,
         OutType, ClientType, EncOneAtATime, EncUnderway, EncEnds, Encoder!Header,
         Encoder!WaitDone, Encoder!data, Encoder!bounds, Encoder!Other

LEMMA EncCollect_Headed ==
  ASSUME EncShapes, EncOneAtATime, EncEnds, Headed, Encoder!Collect PROVE Headed'
  BY DEF Headed, Out, EncShapes, EncCodecOK, EncDataOK, EncCountersOK, EncType, ContextType,
         OutType, ClientType, EncOneAtATime, EncUnderway, EncEnds, Encoder!Header,
         Encoder!Collect, Encoder!sems, Encoder!bounds, Encoder!NextHalf, Encoder!Other

LEMMA EncSubmit_Headed ==
  ASSUME EncShapes, EncOneAtATime, EncEnds, Headed, Encoder!Submit PROVE Headed'
  BY DEF Headed, Out, EncShapes, EncCodecOK, EncDataOK, EncCountersOK, EncType, ContextType,
         OutType, ClientType, EncOneAtATime, EncUnderway, EncEnds, Encoder!Header, Encoder!Submit,
         Encoder!Failed, Encoder!bounds, Encoder!NoData, Encoder!Other

LEMMA EncFeedOnTop_Headed ==
  ASSUME EncShapes, EncOneAtATime, EncEnds, Headed, Encoder!FeedOnTop PROVE Headed'
  <1>1. /\ UNCHANGED <<enc, encMfc, encOut, encFlushing, encFlushes, session>>
        /\ encPc = "idle" /\ encPc' \in {"idle", "fed"}
        /\ encClient'.got = encClient.got /\ encClient'.header = encClient.header
        /\ ~encCheck.set => encCheck' = encCheck
    BY DEF Encoder!FeedOnTop, Encoder!bounds, EncShapes, ClientType
  <1> QED BY <1>1 DEF Headed, Out

LEMMA EncDeliver_Headed ==
  ASSUME EncShapes, EncOneAtATime, EncEnds, Headed, Encoder!Deliver PROVE Headed'
  <1>1. /\ UNCHANGED <<enc, encMfc, encFlushing, encFlushes, session>>
        /\ encPc = "out" /\ encPc' = "idle" /\ encOut'.kind = "none"
        /\ encCheck' \in {encCheck, Encoder!NoCheck}
    BY DEF Encoder!Deliver, Encoder!bounds, Encoder!NoOut
  <1>2. /\ encClient.header => encClient'.header
        /\ encOut.kind # "frame" => encClient'.got = encClient.got
        /\ Encoder!Passes /\ encFlushing = "no" /\ encOut.kind = "header" /\ Out = Encoder!Header =>
             encClient'.header
    <2>1. encClient \in ClientType /\ encClient.got \o << >> = encClient.got
      BY DEF EncShapes, ClientType
    <2>2. CASE Encoder!Passes /\ encFlushing = "no"
      <3>1. /\ encClient'.got = encClient.got \o Encoder!Received(encOut)
            /\ encClient'.header = (encClient.header \/ (encOut.kind = "header" /\ Out = Encoder!Header))
        BY <2>1, <2>2, Zenon DEF Encoder!Deliver, ClientType, Out
      <3> QED BY <2>1, <3>1 DEF Encoder!Received
    <2>3. CASE ~(Encoder!Passes /\ encFlushing = "no")
      BY <2>3 DEF Encoder!Deliver
    <2> QED BY <2>2, <2>3
  <1> QED BY <1>1, <1>2 DEF Headed, Encoder!Passes, Encoder!NoCheck

LEMMA EncTake_Headed ==
  ASSUME EncShapes, EncOneAtATime, EncEnds, Headed, Encoder!Take PROVE Headed'
  BY DEF Headed, Out, EncShapes, EncCodecOK, EncDataOK, EncCountersOK, EncType, ContextType,
         OutType, ClientType, EncOneAtATime, EncUnderway, EncEnds, Encoder!Header, Encoder!Take,
         Encoder!data, Encoder!bounds, Encoder!Other

LEMMA EncExe_Headed ==
  ASSUME EncShapes, Headed, Encoder!Exe PROVE Headed'
  <1>1. /\ UNCHANGED <<encOut, encClient, encFlushing, encCheck, encPc, encFlushes, session>>
        /\ enc'.conf = enc.conf /\ encMfc'.cnt = encMfc.cnt
        /\ encMfc'.half \in {encMfc.half, [encMfc.half EXCEPT ![encMfc.cnt] = encMfc.sent]}
    BY DEF Encoder!Exe, Encoder!data, EncShapes, EncCodecOK, EncType, ContextType
  <1>2. encOut.half = Encoder!Other(encMfc.cnt) => Out' = Out
    BY <1>1 DEF Out, Encoder!Other, EncShapes, EncCodecOK, EncDataOK, ContextType, OutType
  <1> QED BY <1>1, <1>2 DEF Headed

LEMMA EncFlush_Headed ==
  ASSUME EncShapes, EncOneAtATime, EncEnds, Headed, Encoder!Flush PROVE Headed'
  BY DEF Headed, Out, EncShapes, EncCodecOK, EncDataOK, EncCountersOK, EncType, ContextType,
         OutType, ClientType, EncOneAtATime, EncUnderway, EncEnds, Encoder!Header, Encoder!Flush,
         Encoder!sems, Encoder!NoData, Encoder!Other, Encoder!BetweenLocks

LEMMA EncFlushResets_Headed ==
  ASSUME EncShapes, EncOneAtATime, EncEnds, Headed, Encoder!FlushResets PROVE Headed'
  BY DEF Headed, Out, EncShapes, EncCodecOK, EncDataOK, EncCountersOK, EncType, ContextType,
         OutType, ClientType, EncOneAtATime, EncUnderway, EncEnds, Encoder!Header,
         Encoder!FlushResets, Encoder!sems, Encoder!bounds, Encoder!Other, Encoder!WipedRing,
         Encoder!Wiped

LEMMA EncFlushOutput_Headed ==
  ASSUME EncShapes, EncOneAtATime, EncEnds, Headed, Encoder!FlushOutput PROVE Headed'
  BY DEF Headed, Out, EncShapes, EncCodecOK, EncDataOK, EncCountersOK, EncType, ContextType,
         OutType, ClientType, EncOneAtATime, EncUnderway, EncEnds, Encoder!Header,
         Encoder!FlushOutput, Encoder!sems, Encoder!bounds, Encoder!Other, Encoder!NoOut,
         Encoder!BetweenLocks

LEMMA EncTerminate_Headed ==
  ASSUME EncShapes, EncOneAtATime, EncEnds, Headed, Encoder!Terminate PROVE Headed'
  BY DEF Headed, Out, EncShapes, EncCodecOK, EncDataOK, EncCountersOK, EncType, ContextType,
         OutType, ClientType, EncOneAtATime, EncUnderway, EncEnds, Encoder!Header,
         Encoder!Terminate, Encoder!bounds, Encoder!NoData, Encoder!Other, Encoder!NoOut

LEMMA EncJoined_Headed ==
  ASSUME EncShapes, EncOneAtATime, EncEnds, Headed, Encoder!Joined PROVE Headed'
  BY DEF Headed, Out, EncShapes, EncCodecOK, EncDataOK, EncCountersOK, EncType, ContextType,
         OutType, ClientType, EncOneAtATime, EncUnderway, EncEnds, Encoder!Header, Encoder!Joined,
         Encoder!sems, Encoder!data, Encoder!bounds, Encoder!Other

LEMMA EncRestart_Headed ==
  ASSUME EncShapes, Encoder!Restart PROVE Headed'
  <1>1. session' > 1 /\ session' \in Nat
    BY DEF Encoder!Restart, EncShapes, EncCountersOK
  <1> QED BY <1>1 DEF Headed
-----------------------------------------------------------------------------
\* All of it together is inductive.
EncInv ==
  /\ EncShapes /\ EncOneAtATime /\ EncEnds /\ Filled /\ Submitted /\ Headed
  /\ Encoder!Sound => Order /\ ~encClient.error

LEMMA EncInitInv == Encoder!Init => EncInv
  <1>1. Encoder!Init => ~encClient.error
    BY DEF Encoder!Init
  <1> QED BY <1>1, EncInit_Types, EncInit_Control, EncInit_Order, EncInit_Headed DEF EncInv

\* A stream in which no encode has failed so far is one before the step, too.

LEMMA EncStaysSound ==
  ASSUME EncShapes, Encoder!Next, Encoder!Sound' PROVE Encoder!Sound
  <1>1. CASE Encoder!Exe
    BY <1>1 DEF Encoder!Exe, Encoder!Sound, EncShapes, EncCountersOK
  <1>2. CASE ~Encoder!Exe
    <2>1. encErrors' = encErrors
      BY <1>2
         DEF Encoder!Next, Encoder!Call, Encoder!EncodeThread, Encoder!Refill, Encoder!Feed,
             Encoder!Again, Encoder!Configure, Encoder!EmptyInput, Encoder!Look, Encoder!WaitDone,
             Encoder!Collect, Encoder!Submit, Encoder!FeedOnTop, Encoder!Deliver,
             Encoder!Take, Encoder!Flush, Encoder!FlushResets, Encoder!FlushOutput,
             Encoder!Terminate, Encoder!Joined, Encoder!Restart, Encoder!bounds
    <2> QED BY <2>1 DEF Encoder!Sound
  <1> QED BY <1>1, <1>2

\* A failure that did not happen is not seen.
LEMMA EncNextUnseen ==
  ASSUME EncShapes, Order, ~encClient.error, Encoder!Next PROVE ~encClient'.error
  <1>1. encClient \in ClientType
    BY DEF EncShapes
  <1>2. CASE Encoder!Submit
    BY <1>1, <1>2 DEF Encoder!Submit, Encoder!Failed, Order, ClientType
  <1>3. CASE \/ Encoder!Refill \/ Encoder!Feed \/ Encoder!FeedOnTop \/ Encoder!Deliver
            \/ Encoder!FlushOutput \/ Encoder!Restart
    BY <1>1, <1>3 DEF Encoder!Refill, Encoder!Feed, Encoder!FeedOnTop, Encoder!Deliver,
                      Encoder!FlushOutput, Encoder!Restart, ClientType
  <1>4. CASE UNCHANGED encClient
    BY <1>4
  <1> QED BY <1>2, <1>3, <1>4
             DEF Encoder!Next, Encoder!Call, Encoder!EncodeThread, Encoder!Again,
                 Encoder!Configure, Encoder!EmptyInput, Encoder!Look, Encoder!WaitDone,
                 Encoder!Collect, Encoder!Take, Encoder!Exe, Encoder!Flush,
                 Encoder!FlushResets, Encoder!Terminate, Encoder!Joined

LEMMA EncNextControl ==
  ASSUME EncShapes, EncOneAtATime, EncEnds, Encoder!Next PROVE EncOneAtATime' /\ EncEnds'
  BY EncRefill_Control, EncFeed_Control, EncAgain_Control, EncConfigure_Control,
     EncEmptyInput_Control, EncLook_Control, EncWaitDone_Control, EncCollect_Control,
     EncSubmit_Control, EncFeedOnTop_Control, EncDeliver_Control, EncTake_Control,
     EncExe_Control, EncFlush_Control, EncFlushResets_Control, EncFlushOutput_Control,
     EncTerminate_Control, EncJoined_Control, EncRestart_Control
     DEF Encoder!Next, Encoder!Call, Encoder!EncodeThread

LEMMA EncNextFed ==
  ASSUME EncShapes, EncOneAtATime, EncEnds, Filled, Submitted, Encoder!Next
  PROVE  Filled' /\ Submitted'
  BY EncRefill_Fed, EncFeed_Fed, EncAgain_Fed, EncConfigure_Fed, EncEmptyInput_Fed, EncLook_Fed,
     EncWaitDone_Fed, EncCollect_Fed, EncSubmit_Fed, EncFeedOnTop_Fed, EncDeliver_Fed,
     EncTake_Fed, EncExe_Fed, EncFlush_Fed, EncFlushResets_Fed, EncFlushOutput_Fed,
     EncTerminate_Fed, EncJoined_Fed, EncRestart_Fed
     DEF Encoder!Next, Encoder!Call, Encoder!EncodeThread

LEMMA EncNextOrder ==
  ASSUME EncShapes, EncShapes', EncOneAtATime, EncEnds, Filled, Order, ~encClient.error,
         Encoder!Sound', Encoder!Next
  PROVE  Order'
  BY EncRefill_Order, EncFeed_Order, EncAgain_Order, EncConfigure_Order, EncEmptyInput_Order,
     EncLook_Order, EncWaitDone_Order, EncCollect_Order, EncSubmit_Order, EncFeedOnTop_Order,
     EncDeliver_Order, EncTake_Order, EncExe_Order, EncFlush_Order, EncFlushResets_Order,
     EncFlushOutput_Order, EncTerminate_Order, EncJoined_Order, EncRestart_Order
     DEF Encoder!Next, Encoder!Call, Encoder!EncodeThread

LEMMA EncNextHeaded ==
  ASSUME EncShapes, EncOneAtATime, EncEnds, Headed, Encoder!Next PROVE Headed'
  BY EncRefill_Headed, EncFeed_Headed, EncAgain_Headed, EncConfigure_Headed, EncEmptyInput_Headed,
     EncLook_Headed, EncWaitDone_Headed, EncCollect_Headed, EncSubmit_Headed,
     EncFeedOnTop_Headed, EncDeliver_Headed, EncTake_Headed, EncExe_Headed, EncFlush_Headed,
     EncFlushResets_Headed, EncFlushOutput_Headed, EncTerminate_Headed, EncJoined_Headed,
     EncRestart_Headed DEF Encoder!Next, Encoder!Call, Encoder!EncodeThread

LEMMA EncNextInv == EncInv /\ [Encoder!Next]_(Encoder!vars) => EncInv'
  <1> SUFFICES ASSUME EncInv, [Encoder!Next]_(Encoder!vars) PROVE EncInv'
    OBVIOUS
  <1>1. CASE UNCHANGED Encoder!vars
    BY <1>1
       DEF Encoder!vars, Encoder!sems, Encoder!data, Encoder!bounds, EncInv, EncShapes,
           EncCodecOK, EncDataOK, EncCountersOK, EncOneAtATime, EncUnderway, EncEnds, Filled,
           Submitted, EncInWork, Encoder!Sound, Order, FlushedInput, LeftBehind, LastSent, Tagged,
           Leaving, Complete, HeldBack, GivenInOrder, Headed, Loaded, New, StampOf, Given, Out,
           Consumed, Leaves
  <1>2. CASE Encoder!Next
    <2>1. EncShapes'
      BY <1>2, EncTyped DEF EncInv
    <2>2. Encoder!Sound' => Order' /\ ~encClient'.error
      BY <1>2, <2>1, EncStaysSound, EncNextOrder, EncNextUnseen DEF EncInv
    <2> QED BY <1>2, <2>1, <2>2, EncNextControl, EncNextFed, EncNextHeaded DEF EncInv
  <1> QED BY <1>1, <1>2

LEMMA EncInvImplies ==
  ASSUME EncInv
  PROVE  /\ Encoder!TypeOK /\ Encoder!EncoderQuiet /\ Encoder!EncodesWhatWasSent
         /\ Encoder!StreamsInOrder /\ Encoder!HeaderFirst
  <1>1. Encoder!TypeOK
    BY DEF EncInv, Encoder!TypeOK, EncShapes, EncCodecOK, EncCountersOK, EncType, ContextType,
           Index
  <1>2. Encoder!EncoderQuiet
    <2>1. ASSUME encPc \in {"collect", "submit"}, ~encClient.error
          PROVE  encWorker # "exe" /\ encStart = 0
      <3>1. ~enc.exit
        BY <2>1 DEF EncInv, EncEnds, EncShapes, EncCodecOK, EncType
      <3>2. CASE enc.code = "error"
        BY <2>1, <3>1, <3>2 DEF EncInv, EncOneAtATime
      <3>3. CASE ~enc.run
        <4>1. encStart + encEnd + (IF encWorker = "exe" THEN 1 ELSE 0) = 0
          BY <2>1, <3>1, <3>3 DEF EncInv, EncOneAtATime, EncUnderway
        <4> QED BY <4>1 DEF EncInv, EncShapes, EncCountersOK
      <3> QED BY <2>1, <3>2, <3>3 DEF EncInv, EncOneAtATime
    <2>2. encWorker = "exe" => encMfc.open
      BY DEF EncInv, EncEnds
    <2> QED BY <2>1, <2>2 DEF Encoder!EncoderQuiet
  <1>3. Encoder!EncodesWhatWasSent
    BY DEF EncInv, Encoder!EncodesWhatWasSent, Submitted, EncInWork, Encoder!Source
  <1>4. Encoder!StreamsInOrder
    BY DEF EncInv, Encoder!StreamsInOrder, Order, GivenInOrder
  <1>5. Encoder!HeaderFirst
    BY DEF EncInv, Encoder!HeaderFirst, Headed
  <1> QED BY <1>1, <1>2, <1>3, <1>4, <1>5

(***************************************************************************)
(* The frames of a stream: numbers, bytes and codes                        *)
(***************************************************************************)

\* The least of some numbers, and the greatest of bounded ones: what Min and Max give.
LEMMA MinIsLeast ==
  ASSUME NEW S \in SUBSET Nat, S # {}
  PROVE  Cutter!Min(S) \in S /\ \A y \in S : Cutter!Min(S) <= y
  <1> DEFINE R == OpToRel(<, Nat)
  <1>1. IsWellFoundedOn(R, Nat)
    BY NatLessThanWellFounded
  <1>2. PICK n \in S : \A m \in Nat : <<m, n>> \in R => m \notin S
    BY <1>1, WFMin
  <1>3. ASSUME NEW m \in S PROVE n <= m
    <2>1. CASE m < n
      <3>1. <<m, n>> \in R
        BY <2>1 DEF OpToRel
      <3> QED BY <1>2, <3>1
    <2> QED BY <2>1
  <1>4. \E z \in S : \A y \in S : z =< y
    BY <1>3
  <1> QED BY <1>4 DEF Cutter!Min

LEMMA MaxIsGreatest ==
  ASSUME NEW N \in Nat, NEW S \in SUBSET (0 .. N), S # {}
  PROVE  Cutter!Max(S) \in S /\ \A y \in S : y <= Cutter!Max(S)
  <1> DEFINE T == {k \in Nat : N - k \in S}
  <1>1. PICK x \in S : TRUE
    OBVIOUS
  <1>2. N - x \in T /\ T \in SUBSET Nat
    BY <1>1
  <1> DEFINE m == Cutter!Min(T)
  <1> HIDE DEF T
  <1>3. m \in T /\ \A k \in T : m <= k
    BY <1>2, MinIsLeast
  <1> HIDE DEF m
  <1>4. m \in Nat /\ N - m \in S
    BY <1>3 DEF T
  <1>5. ASSUME NEW y \in S PROVE y <= N - m
    <2>1. N - y \in T
      BY DEF T
    <2> QED BY <1>3, <1>4, <2>1
  <1>6. \E z \in S : \A y \in S : z >= y
    BY <1>4, <1>5
  <1>7. Cutter!Max(S) \in S /\ \A y \in S : Cutter!Max(S) >= y
    BY <1>6 DEF Cutter!Max
  <1> QED BY <1>7

\* The bytes of a stream that are left in a buffer.
LEMMA RestBytes ==
  ASSUME NEW b \in Seq(Cutter!ByteClasses), NEW i \in 0 .. Len(b), NEW j \in i .. Len(b)
  PROVE  /\ SubSeq(b, i + 1, j) \in Seq(Cutter!ByteClasses)
         /\ Len(SubSeq(b, i + 1, j)) = j - i
         /\ \A k \in 1 .. j - i : SubSeq(b, i + 1, j)[k] = b[i + k]
  <1>1. i + 1 \in Int /\ j \in Int /\ \A k \in i + 1 .. j : b[k] \in Cutter!ByteClasses
    BY ElementOfSeq
  <1> DEFINE r == SubSeq(b, i + 1, j)
  <1>2. /\ r \in Seq(Cutter!ByteClasses)
        /\ Len(r) = IF i + 1 <= j THEN j - (i + 1) + 1 ELSE 0
        /\ \A k \in 1 .. j - (i + 1) + 1 : r[k] = b[(i + 1) + k - 1]
    BY <1>1, SubSeqProperties
  <1> HIDE DEF r
  <1>3. /\ j - (i + 1) + 1 = j - i /\ (IF i + 1 <= j THEN j - i ELSE 0) = j - i
        /\ \A k \in 1 .. j - i : (i + 1) + k - 1 = i + k
    OBVIOUS
  <1>4. /\ r \in Seq(Cutter!ByteClasses) /\ Len(r) = j - i
        /\ \A k \in 1 .. j - i : r[k] = b[i + k]
    BY <1>2, <1>3
  <1> QED BY <1>4 DEF r

\* A code of four bytes, byte by byte.
LEMMA CodesAre ==
  ASSUME NEW b \in Seq(Cutter!ByteClasses), NEW code \in Seq(Cutter!ByteClasses), Len(code) = 4
  PROVE  Cutter!CodesIn(b, code) =
           {p \in 0 .. Len(b) - 4 : /\ b[p + 1] = code[1] /\ b[p + 2] = code[2]
                                    /\ b[p + 3] = code[3] /\ b[p + 4] = code[4]}
  <1> SUFFICES ASSUME NEW p \in 0 .. Len(b) - 4
               PROVE  SubSeq(b, p + 1, p + 4) = code
                        <=> /\ b[p + 1] = code[1] /\ b[p + 2] = code[2]
                            /\ b[p + 3] = code[3] /\ b[p + 4] = code[4]
    BY DEF Cutter!CodesIn
  <1> DEFINE r == SubSeq(b, p + 1, p + 4)
  <1>1. r \in Seq(Cutter!ByteClasses) /\ Len(r) = 4 /\ \A k \in 1 .. 4 : r[k] = b[p + k]
    <2>1. p \in 0 .. Len(b) /\ p + 4 \in p .. Len(b) /\ (p + 4) - p = 4
      OBVIOUS
    <2> QED BY <2>1, RestBytes
  <1> HIDE DEF r
  <1>2. r = code <=> \A k \in 1 .. 4 : r[k] = code[k]
    BY <1>1, SeqEqual
  <1>3. r = code <=> r[1] = code[1] /\ r[2] = code[2] /\ r[3] = code[3] /\ r[4] = code[4]
    BY <1>2
  <1>4. r[1] = b[p + 1] /\ r[2] = b[p + 2] /\ r[3] = b[p + 3] /\ r[4] = b[p + 4]
    BY <1>1
  <1> QED BY <1>3, <1>4 DEF r

\* Three bytes, one by one.
LEMMA ThreeBytes ==
  ASSUME NEW b \in Seq(Cutter!ByteClasses), NEW code \in Seq(Cutter!ByteClasses), Len(code) = 3,
         NEW p \in 0 .. Len(b) - 3
  PROVE  SubSeq(b, p + 1, p + 3) = code
           <=> b[p + 1] = code[1] /\ b[p + 2] = code[2] /\ b[p + 3] = code[3]
  <1> DEFINE r == SubSeq(b, p + 1, p + 3)
  <1>1. r \in Seq(Cutter!ByteClasses) /\ Len(r) = 3 /\ \A k \in 1 .. 3 : r[k] = b[p + k]
    <2>1. p \in 0 .. Len(b) /\ p + 3 \in p .. Len(b) /\ (p + 3) - p = 3
      OBVIOUS
    <2> QED BY <2>1, RestBytes
  <1> HIDE DEF r
  <1>2. r = code <=> \A k \in 1 .. 3 : r[k] = code[k]
    BY <1>1, SeqEqual
  <1>3. r = code <=> r[1] = code[1] /\ r[2] = code[2] /\ r[3] = code[3]
    BY <1>2
  <1>4. r[1] = b[p + 1] /\ r[2] = b[p + 2] /\ r[3] = b[p + 3]
    BY <1>1
  <1> QED BY <1>3, <1>4 DEF r

\* A start code of three bytes.
LEMMA NalsAre ==
  ASSUME NEW b \in Seq(Cutter!ByteClasses)
  PROVE  Cutter!Nals(b) =
           {n \in 4 .. Len(b) : b[n - 3] = "00" /\ b[n - 2] = "00" /\ b[n - 1] = "01"}
  <1> SUFFICES ASSUME NEW n \in 4 .. Len(b)
               PROVE  SubSeq(b, n - 3, n - 1) = <<"00", "00", "01">>
                        <=> b[n - 3] = "00" /\ b[n - 2] = "00" /\ b[n - 1] = "01"
    BY DEF Cutter!Nals
  <1> DEFINE code == <<"00", "00", "01">>
  <1>1. code \in Seq(Cutter!ByteClasses) /\ Len(code) = 3
    BY DEF Cutter!ByteClasses
  <1>2. code[1] = "00" /\ code[2] = "00" /\ code[3] = "01"
    OBVIOUS
  <1> HIDE DEF code
  <1>3. /\ n - 4 \in 0 .. Len(b) - 3 /\ (n - 4) + 1 = n - 3 /\ (n - 4) + 2 = n - 2
        /\ (n - 4) + 3 = n - 1
    OBVIOUS
  <1>4. SubSeq(b, (n - 4) + 1, (n - 4) + 3) = code
          <=> b[(n - 4) + 1] = code[1] /\ b[(n - 4) + 2] = code[2] /\ b[(n - 4) + 3] = code[3]
    BY <1>1, <1>3, ThreeBytes
  <1>5. SubSeq(b, n - 3, n - 1) = code
          <=> b[n - 3] = code[1] /\ b[n - 2] = code[2] /\ b[n - 1] = code[3]
    BY <1>3, <1>4
  <1> QED BY <1>2, <1>5 DEF code

\* The code of a picture in MPEG-4 and the one in H.263.
LEMMA VopCodes ==
  ASSUME NEW b \in Seq(Cutter!ByteClasses)
  PROVE  Cutter!CodesIn(b, Cutter!VopCode) =
           {p \in 0 .. Len(b) - 4 : b[p + 1] = "00" /\ b[p + 2] = "00" /\ b[p + 3] = "01"
                                    /\ b[p + 4] = "B6"}
  <1> DEFINE code == Cutter!VopCode
  <1>1. code \in Seq(Cutter!ByteClasses) /\ Len(code) = 4
    BY DEF Cutter!VopCode, Cutter!ByteClasses
  <1>2. code[1] = "00" /\ code[2] = "00" /\ code[3] = "01" /\ code[4] = "B6"
    BY DEF Cutter!VopCode
  <1> HIDE DEF code
  <1>3. Cutter!CodesIn(b, code) =
          {p \in 0 .. Len(b) - 4 : /\ b[p + 1] = code[1] /\ b[p + 2] = code[2]
                                   /\ b[p + 3] = code[3] /\ b[p + 4] = code[4]}
    BY <1>1, CodesAre
  <1> QED BY <1>2, <1>3 DEF code

LEMMA PscCodes ==
  ASSUME NEW b \in Seq(Cutter!ByteClasses)
  PROVE  Cutter!CodesIn(b, Cutter!PscCode) =
           {p \in 0 .. Len(b) - 4 : b[p + 1] = "00" /\ b[p + 2] = "00" /\ b[p + 3] = "80"
                                    /\ b[p + 4] = "02"}
  <1> DEFINE code == Cutter!PscCode
  <1>1. code \in Seq(Cutter!ByteClasses) /\ Len(code) = 4
    BY DEF Cutter!PscCode, Cutter!ByteClasses
  <1>2. code[1] = "00" /\ code[2] = "00" /\ code[3] = "80" /\ code[4] = "02"
    BY DEF Cutter!PscCode
  <1> HIDE DEF code
  <1>3. Cutter!CodesIn(b, code) =
          {p \in 0 .. Len(b) - 4 : /\ b[p + 1] = code[1] /\ b[p + 2] = code[2]
                                   /\ b[p + 3] = code[3] /\ b[p + 4] = code[4]}
    BY <1>1, CodesAre
  <1> QED BY <1>2, <1>3 DEF code

(***************************************************************************)
(* What a search finds                                                     *)
(***************************************************************************)

\* Where a picture may be cut off from the frame before it, and how far its code reaches.
StartsAt(st) ==
  \A p \in Cutter!StartsOf(st) :
    /\ p.at \in Nat /\ p.last \in p.at + 4 .. p.at + 5 /\ p.last <= Len(st.bytes)
    /\ p.at \in Cutter!Before(st.bytes, p)

\* A cut after what was read up to i is before a picture and within the bytes up to j;
\* nothing but a slice type at the end is left for later; and what lies between is at most
\* one picture, the first of the frame.
Searched(st, i, j, some, cut) ==
  /\ cut \in [eof : BOOLEAN, size : 0 .. j - i]
  /\ cut.eof => /\ cut.size < j - i
                /\ \E p \in Cutter!StartsOf(st) : i + cut.size \in Cutter!Before(st.bytes, p)
  /\ ~cut.eof /\ j = Len(st.bytes) => cut.size = j - i
  /\ \A p \in Cutter!StartsOf(st) :
       (i <= p.at /\ p.last <= (IF cut.eof THEN i + cut.size ELSE j)) =>
         ~some /\ \A t \in Cutter!OpeningsOf(st) : ~(i <= t.at /\ t.at < p.at)

\* A search for codes of four bytes, wherever it finds them.
LEMMA CodesSearched ==
  ASSUME NEW st, StartsAt(st), NEW i \in 0 .. Len(st.bytes), NEW j \in i .. Len(st.bytes),
         Len(st.bytes) \in Nat, NEW some \in BOOLEAN, NEW r, Len(r) = j - i,
         Cutter!OpeningsOf(st) = Cutter!StartsOf(st),
         NEW P \in SUBSET Nat, \A k \in P : k < j - i,
         \A k \in P : \E p \in Cutter!StartsOf(st) : p.at = i + k,
         \A p \in Cutter!StartsOf(st) : i <= p.at /\ p.last <= j => p.at - i \in P
  PROVE  Searched(st, i, j, some, Cutter!Found(r, IF some THEN P ELSE Cutter!AfterFirst(P)))
  <1> DEFINE Q == IF some THEN P ELSE Cutter!AfterFirst(P)
             cut == Cutter!Found(r, Q)
  <1>1. Q \subseteq P
    BY DEF Cutter!AfterFirst
  <1>2. some \/ P = {} \/ (Cutter!Min(P) \in P /\ \A k \in P : Cutter!Min(P) <= k)
    BY MinIsLeast
  <1>3. ASSUME NEW k \in P, k \notin Q
        PROVE  ~some /\ \A l \in P : k <= l
    BY <1>2, <1>3 DEF Cutter!AfterFirst
  <1> HIDE DEF Q
  <1> DEFINE m == Cutter!Min(Q)
  <1>4. Q # {} => m \in Q /\ \A k \in Q : m <= k
    BY <1>1, MinIsLeast
  <1>5. /\ Q # {} => cut = [eof |-> TRUE, size |-> m]
        /\ Q = {} => cut = [eof |-> FALSE, size |-> j - i]
    BY DEF Cutter!Found
  <1> HIDE DEF cut, m
  <1>6. cut \in [eof : BOOLEAN, size : 0 .. j - i]
    <2>1. CASE Q = {}
      <3>1. j - i \in 0 .. j - i
        OBVIOUS
      <3>2. cut = [eof |-> FALSE, size |-> j - i]
        BY <1>5, <2>1
      <3> QED BY <3>1, <3>2
    <2>2. CASE Q # {}
      <3>1. m \in Nat /\ m < j - i
        BY <1>1, <1>4, <2>2
      <3>2. m \in 0 .. j - i
        BY <3>1
      <3>3. cut = [eof |-> TRUE, size |-> m]
        BY <1>5, <2>2
      <3> QED BY <3>2, <3>3
    <2> QED BY <2>1, <2>2
  <1>7. ASSUME cut.eof
        PROVE  /\ cut.size < j - i
               /\ \E p \in Cutter!StartsOf(st) : i + cut.size \in Cutter!Before(st.bytes, p)
    <2>1. cut.size \in P
      <3>1. Q # {}
        BY <1>5, <1>7
      <3>2. cut.size = m
        BY <1>5, <3>1
      <3>3. m \in P
        BY <1>1, <1>4, <3>1
      <3> QED BY <3>2, <3>3
    <2>2. PICK p \in Cutter!StartsOf(st) : p.at = i + cut.size
      BY <2>1
    <2> QED BY <2>1, <2>2 DEF StartsAt
  <1>8. ~cut.eof /\ j = Len(st.bytes) => cut.size = j - i
    BY <1>5
  <1>9. ASSUME NEW p \in Cutter!StartsOf(st),
               i <= p.at, p.last <= (IF cut.eof THEN i + cut.size ELSE j)
        PROVE  ~some /\ \A t \in Cutter!OpeningsOf(st) : ~(i <= t.at /\ t.at < p.at)
    <2>1. p.at \in Nat /\ p.at < p.last /\ p.last \in Nat
      BY DEF StartsAt
    <2>2. p.last <= j
      BY <1>6, <1>9, <2>1
    <2>3. p.at - i \in P
      BY <1>9, <2>2
    <2>4. p.at - i \notin Q
      <3>1. CASE Q = {}
        BY <3>1
      <3>2. CASE Q # {}
        <4>1. cut = [eof |-> TRUE, size |-> m]
          BY <1>5, <3>2
        <4>2. m \in Nat /\ p.last <= i + m
          BY <1>1, <1>4, <1>9, <3>2, <4>1
        <4> QED BY <1>4, <2>1, <3>2, <4>1, <4>2
      <3> QED BY <3>1, <3>2
    <2>5. ~some /\ \A l \in P : p.at - i <= l
      BY <1>3, <2>3, <2>4
    <2>6. ASSUME NEW t \in Cutter!StartsOf(st), i <= t.at, t.at < p.at PROVE FALSE
      <3>1. t.at \in Nat /\ t.last \in t.at + 4 .. t.at + 5
        BY DEF StartsAt
      <3>2. CASE t.last <= j
        <4>1. t.at - i \in P
          BY <2>6, <3>2
        <4> QED BY <2>1, <2>5, <2>6, <3>1, <4>1
      <3>3. CASE t.last > j
        BY <2>1, <2>2, <2>6, <3>1, <3>3 DEF StartsAt
      <3> QED BY <3>1, <3>2, <3>3
    <2> QED BY <2>5, <2>6
  <1>10. Searched(st, i, j, some, cut)
    BY <1>6, <1>7, <1>8, <1>9 DEF Searched
  <1> QED BY <1>10 DEF cut, Q

\* The pictures of an MPEG-4 stream and of an H.263 stream.
LEMMA VopStarts ==
  ASSUME NEW st, Cutter!WellFormed(st), st.codec = "mpeg4", NEW b, b = st.bytes
  PROVE  /\ b \in Seq(Cutter!ByteClasses) /\ Len(b) \in Nat
         /\ Cutter!OpeningsOf(st) = Cutter!StartsOf(st)
         /\ Cutter!StartsOf(st) = {[at |-> p, last |-> p + 4] : p \in
              {p \in 0 .. Len(b) - 4 : b[p + 1] = "00" /\ b[p + 2] = "00" /\ b[p + 3] = "01"
                                       /\ b[p + 4] = "B6"}}
  <1>1. b \in Seq(Cutter!ByteClasses) /\ Len(b) \in Nat
    BY LenProperties DEF Cutter!WellFormed
  <1>2. Cutter!CodesIn(b, Cutter!VopCode) =
          {p \in 0 .. Len(b) - 4 : b[p + 1] = "00" /\ b[p + 2] = "00" /\ b[p + 3] = "01"
                                   /\ b[p + 4] = "B6"}
    BY <1>1, VopCodes
  <1>3. Cutter!StartsOf(st) =
          {[at |-> p, last |-> p + 4] : p \in Cutter!CodesIn(b, Cutter!VopCode)}
    BY DEF Cutter!StartsOf
  <1> QED BY <1>1, <1>2, <1>3 DEF Cutter!OpeningsOf

LEMMA PscStarts ==
  ASSUME NEW st, Cutter!WellFormed(st), st.codec = "h263", NEW b, b = st.bytes
  PROVE  /\ b \in Seq(Cutter!ByteClasses) /\ Len(b) \in Nat
         /\ Cutter!OpeningsOf(st) = Cutter!StartsOf(st)
         /\ Cutter!StartsOf(st) = {[at |-> p, last |-> p + 4] : p \in
              {p \in 0 .. Len(b) - 4 : b[p + 1] = "00" /\ b[p + 2] = "00" /\ b[p + 3] = "80"
                                       /\ b[p + 4] = "02"}}
         /\ \A p \in 0 .. Len(b) - 3 : b[p + 1] = "00" /\ b[p + 2] = "00" /\ b[p + 3] = "80" =>
              p + 4 <= Len(b) /\ b[p + 4] = "02"
  <1>1. b \in Seq(Cutter!ByteClasses) /\ Len(b) \in Nat
    BY LenProperties DEF Cutter!WellFormed
  <1>2. Cutter!CodesIn(b, Cutter!PscCode) =
          {p \in 0 .. Len(b) - 4 : b[p + 1] = "00" /\ b[p + 2] = "00" /\ b[p + 3] = "80"
                                   /\ b[p + 4] = "02"}
    BY <1>1, PscCodes
  <1>3. Cutter!StartsOf(st) =
          {[at |-> p, last |-> p + 4] : p \in Cutter!CodesIn(b, Cutter!PscCode)}
    BY DEF Cutter!StartsOf
  <1>4. ASSUME NEW p \in 0 .. Len(b) - 3, b[p + 1] = "00", b[p + 2] = "00", b[p + 3] = "80"
        PROVE  p + 4 <= Len(b) /\ b[p + 4] = "02"
    <2> DEFINE code == <<"00", "00", "80">>
    <2>1. code \in Seq(Cutter!ByteClasses) /\ Len(code) = 3
      BY DEF Cutter!ByteClasses
    <2>2. code[1] = "00" /\ code[2] = "00" /\ code[3] = "80"
      OBVIOUS
    <2>3. SubSeq(b, p + 1, p + 3) = code => p + 4 <= Len(b) /\ b[p + 4] = "02"
      BY DEF Cutter!WellFormed
    <2> HIDE DEF code
    <2> QED BY <1>1, <1>4, <2>1, <2>2, <2>3, ThreeBytes
  <1> QED BY <1>1, <1>2, <1>3, <1>4 DEF Cutter!OpeningsOf

\* Where the bytes before a picture begin.
LEMMA BeforeIs ==
  ASSUME NEW b, NEW p, p.at \in Nat
  PROVE  Cutter!Before(b, p) =
           (IF p.at > 0 /\ b[p.at] = "00" THEN p.at - 1 ELSE p.at) .. p.at
  <1>1. (p.at + 4) - 4 = p.at /\ (p.at + 4) - 5 = p.at - 1 /\ (p.at + 4 > 4 <=> p.at > 0)
    OBVIOUS
  <1> QED BY <1>1 DEF Cutter!Before, Cutter!CodeBefore

LEMMA CodeStartsAt ==
  ASSUME NEW st, Cutter!WellFormed(st), st.codec \in {"mpeg4", "h263"}
  PROVE  /\ StartsAt(st)
         /\ \A p \in Cutter!StartsOf(st) : p.last = p.at + 4
  <1>1. ASSUME NEW p \in Cutter!StartsOf(st)
        PROVE  p.at \in 0 .. Len(st.bytes) - 4 /\ p.last = p.at + 4 /\ Len(st.bytes) \in Nat
    <2>1. CASE st.codec = "mpeg4"
      BY <2>1, VopStarts
    <2>2. CASE st.codec = "h263"
      BY <2>2, PscStarts
    <2> QED BY <2>1, <2>2
  <1>2. ASSUME NEW p \in Cutter!StartsOf(st) PROVE p.at \in Cutter!Before(st.bytes, p)
    BY <1>1, BeforeIs
  <1> QED BY <1>1, <1>2 DEF StartsAt

LEMMA Mpeg4Searched ==
  ASSUME NEW st, Cutter!WellFormed(st), st.codec = "mpeg4",
         NEW i \in 0 .. Len(st.bytes), NEW j \in i .. Len(st.bytes), NEW some \in BOOLEAN,
         NEW cut \in Cutter!Check_Mpeg4_Frame(SubSeq(st.bytes, i + 1, j), some)
  PROVE  Searched(st, i, j, some, cut)
  <1> DEFINE b == st.bytes
             r == SubSeq(b, i + 1, j)
             P == Cutter!CodesIn(r, Cutter!VopCode)
  <1>1. cut = Cutter!Found(r, IF some THEN P ELSE Cutter!AfterFirst(P))
    BY DEF Cutter!Check_Mpeg4_Frame
  <1>2. /\ b \in Seq(Cutter!ByteClasses) /\ Len(b) \in Nat
        /\ Cutter!OpeningsOf(st) = Cutter!StartsOf(st)
        /\ Cutter!StartsOf(st) = {[at |-> p, last |-> p + 4] : p \in
              {p \in 0 .. Len(b) - 4 : b[p + 1] = "00" /\ b[p + 2] = "00" /\ b[p + 3] = "01"
                                       /\ b[p + 4] = "B6"}}
    BY VopStarts
  <1>3. r \in Seq(Cutter!ByteClasses) /\ Len(r) = j - i /\ \A k \in 1 .. j - i : r[k] = b[i + k]
    BY <1>2, RestBytes
  <1> HIDE DEF r
  <1>4. P = {p \in 0 .. Len(r) - 4 : r[p + 1] = "00" /\ r[p + 2] = "00" /\ r[p + 3] = "01"
                                     /\ r[p + 4] = "B6"}
    BY <1>3, VopCodes
  <1> HIDE DEF P
  <1>5. \A k \in 0 .. (j - i) - 4 : /\ r[k + 1] = b[(i + k) + 1] /\ r[k + 2] = b[(i + k) + 2]
                                    /\ r[k + 3] = b[(i + k) + 3] /\ r[k + 4] = b[(i + k) + 4]
    BY <1>2, <1>3
  <1>6. P \in SUBSET Nat /\ \A k \in P : k < j - i
    BY <1>2, <1>3, <1>4
  <1>7. ASSUME NEW k \in P PROVE \E p \in Cutter!StartsOf(st) : p.at = i + k
    <2>1. i + k \in 0 .. Len(b) - 4 /\ k \in 0 .. (j - i) - 4
      BY <1>2, <1>3, <1>4
    <2>2. /\ b[(i + k) + 1] = "00" /\ b[(i + k) + 2] = "00" /\ b[(i + k) + 3] = "01"
          /\ b[(i + k) + 4] = "B6"
      BY <1>4, <1>5, <2>1
    <2>3. [at |-> i + k, last |-> (i + k) + 4] \in Cutter!StartsOf(st)
      BY <1>2, <2>1, <2>2
    <2> QED BY <2>3
  <1>8. ASSUME NEW p \in Cutter!StartsOf(st), i <= p.at, p.last <= j PROVE p.at - i \in P
    <2>1. /\ p.at \in 0 .. Len(b) - 4 /\ p.last = p.at + 4
          /\ b[p.at + 1] = "00" /\ b[p.at + 2] = "00" /\ b[p.at + 3] = "01" /\ b[p.at + 4] = "B6"
      BY <1>2, SMTT(30)
    <2>2. i \in Nat /\ j \in Nat /\ p.at \in Nat /\ p.at + 4 <= j
      BY <1>2, <1>8, <2>1
    <2>3. p.at - i \in 0 .. (j - i) - 4 /\ i + (p.at - i) = p.at
      BY <1>8, <2>2
    <2> DEFINE k == p.at - i
    <2>4. k \in 0 .. (j - i) - 4 /\ i + k = p.at
      BY <2>3
    <2> HIDE DEF k, b
    <2>5. r[k + 1] = "00" /\ r[k + 2] = "00" /\ r[k + 3] = "01" /\ r[k + 4] = "B6"
      BY <1>5, <2>1, <2>4
    <2>6. k \in P
      BY <1>3, <1>4, <2>4, <2>5
    <2> QED BY <2>6 DEF k
  <1>9. StartsAt(st)
    BY CodeStartsAt
  <1> HIDE DEF b
  <1>10. Searched(st, i, j, some, Cutter!Found(r, IF some THEN P ELSE Cutter!AfterFirst(P)))
    BY <1>2, <1>3, <1>6, <1>7, <1>8, <1>9, CodesSearched DEF b
  <1> QED BY <1>1, <1>10

LEMMA H263Searched ==
  ASSUME NEW st, Cutter!WellFormed(st), st.codec = "h263",
         NEW i \in 0 .. Len(st.bytes), NEW j \in i .. Len(st.bytes), NEW some \in BOOLEAN,
         NEW cut \in Cutter!Check_H263_Frame(SubSeq(st.bytes, i + 1, j), some)
  PROVE  Searched(st, i, j, some, cut)
  <1> DEFINE b == st.bytes
             r == SubSeq(b, i + 1, j)
  <1>1. PICK old \in {"02", "xx"} :
          cut = Cutter!Found(r, IF some THEN Cutter!CodesIn(Append(r, old), Cutter!PscCode)
                  ELSE Cutter!AfterFirst(Cutter!CodesIn(Append(r, old), Cutter!PscCode)))
    BY DEF Cutter!Check_H263_Frame
  <1> DEFINE a == Append(r, old)
             P == Cutter!CodesIn(a, Cutter!PscCode)
  <1>2. /\ b \in Seq(Cutter!ByteClasses) /\ Len(b) \in Nat
        /\ Cutter!OpeningsOf(st) = Cutter!StartsOf(st)
        /\ Cutter!StartsOf(st) = {[at |-> p, last |-> p + 4] : p \in
              {p \in 0 .. Len(b) - 4 : b[p + 1] = "00" /\ b[p + 2] = "00" /\ b[p + 3] = "80"
                                       /\ b[p + 4] = "02"}}
        /\ \A p \in 0 .. Len(b) - 3 : b[p + 1] = "00" /\ b[p + 2] = "00" /\ b[p + 3] = "80" =>
              p + 4 <= Len(b) /\ b[p + 4] = "02"
    BY PscStarts, SMTT(30)
  <1>3. r \in Seq(Cutter!ByteClasses) /\ Len(r) = j - i /\ \A k \in 1 .. j - i : r[k] = b[i + k]
    BY <1>2, RestBytes
  <1>4. /\ a \in Seq(Cutter!ByteClasses) /\ Len(a) = (j - i) + 1
        /\ \A k \in 1 .. j - i : a[k] = b[i + k]
    <2>1. old \in Cutter!ByteClasses
      BY DEF Cutter!ByteClasses
    <2>2. /\ a \in Seq(Cutter!ByteClasses) /\ Len(a) = Len(r) + 1
          /\ \A k \in 1 .. Len(r) : a[k] = r[k]
      BY <1>3, <2>1, AppendProperties
    <2> QED BY <1>3, <2>2
  <1> HIDE DEF r, a
  <1>5. P = {p \in 0 .. Len(a) - 4 : a[p + 1] = "00" /\ a[p + 2] = "00" /\ a[p + 3] = "80"
                                     /\ a[p + 4] = "02"}
    BY <1>4, PscCodes
  <1> HIDE DEF P
  <1>6. Cutter!StartsOf(st) = {[at |-> p, last |-> p + 4] : p \in
          {p \in 0 .. Len(b) - 4 : b[p + 1] = "00" /\ b[p + 2] = "00" /\ b[p + 3] = "80"
                                   /\ b[p + 4] = "02"}}
    BY <1>2
  <1>7. i \in Nat /\ j \in Nat /\ i <= j /\ j <= Len(b)
    BY <1>2
  <1>8. \A k \in 0 .. (j - i) - 3 : /\ a[k + 1] = b[(i + k) + 1] /\ a[k + 2] = b[(i + k) + 2]
                                    /\ a[k + 3] = b[(i + k) + 3]
    <2>1. ASSUME NEW k \in 0 .. (j - i) - 3
          PROVE  /\ k + 1 \in 1 .. j - i /\ k + 2 \in 1 .. j - i /\ k + 3 \in 1 .. j - i
                 /\ i + (k + 1) = (i + k) + 1 /\ i + (k + 2) = (i + k) + 2
                 /\ i + (k + 3) = (i + k) + 3
      BY <1>7
    <2>2. ASSUME NEW k \in 0 .. (j - i) - 3
          PROVE  /\ a[k + 1] = b[i + (k + 1)] /\ a[k + 2] = b[i + (k + 2)]
                 /\ a[k + 3] = b[i + (k + 3)]
      BY <1>4, <2>1
    <2> HIDE DEF b
    <2> QED BY <2>1, <2>2
  <1>9. P \in SUBSET Nat /\ \A k \in P : k < j - i
    BY <1>7, <1>4, <1>5
  <1>10. ASSUME NEW k \in P PROVE \E p \in Cutter!StartsOf(st) : p.at = i + k
    <2>1. i + k \in 0 .. Len(b) - 3 /\ k \in 0 .. (j - i) - 3
      BY <1>7, <1>2, <1>4, <1>5
    <2>2. b[(i + k) + 1] = "00" /\ b[(i + k) + 2] = "00" /\ b[(i + k) + 3] = "80"
      BY <1>5, <1>8, <2>1
    <2>3. (i + k) + 4 <= Len(b) /\ b[(i + k) + 4] = "02"
      BY <1>2, <2>1, <2>2
    <2>4. i + k \in 0 .. Len(b) - 4
      BY <1>7, <1>2, <2>1, <2>3
    <2>5. [at |-> i + k, last |-> (i + k) + 4] \in Cutter!StartsOf(st)
      BY <1>2, <2>2, <2>3, <2>4
    <2> QED BY <2>5
  <1>11. ASSUME NEW p \in Cutter!StartsOf(st), i <= p.at, p.last <= j PROVE p.at - i \in P
    <2>1. /\ p.at \in 0 .. Len(b) - 4 /\ p.last = p.at + 4
          /\ b[p.at + 1] = "00" /\ b[p.at + 2] = "00" /\ b[p.at + 3] = "80" /\ b[p.at + 4] = "02"
      BY <1>6, SMTT(30)
    <2>2. p.at \in Nat /\ p.at + 4 <= j
      BY <1>2, <1>11, <2>1
    <2>3. /\ p.at - i \in 0 .. Len(a) - 4 /\ p.at - i \in 0 .. (j - i) - 4
          /\ i + (p.at - i) = p.at
      BY <1>7, <1>4, <1>11, <2>2
    <2>4. /\ (p.at - i) + 4 \in 1 .. j - i /\ i + ((p.at - i) + 4) = p.at + 4
          /\ p.at - i \in 0 .. (j - i) - 3
      BY <1>7, <2>2, <2>3, SMTT(30)
    <2>5. a[(p.at - i) + 4] = "02"
      BY <1>4, <2>1, <2>4
    <2> QED BY <1>5, <1>8, <2>1, <2>3, <2>4, <2>5
  <1>12. StartsAt(st)
    BY CodeStartsAt
  <1> HIDE DEF b
  <1>13. Searched(st, i, j, some, Cutter!Found(r, IF some THEN P ELSE Cutter!AfterFirst(P)))
    BY <1>2, <1>3, <1>9, <1>10, <1>11, <1>12, CodesSearched, ZenonT(30) DEF b
  <1> QED BY <1>1, <1>13 DEF P, a, r, b

\* The pictures of an H.264 stream: NAL units that begin one.
H264Start(b, n) ==
  /\ n \in 4 .. Len(b) /\ b[n - 3] = "00" /\ b[n - 2] = "00" /\ b[n - 1] = "01"
  /\ b[n] = "au" \/ (b[n] \in Cutter!Slice /\ n < Len(b) /\ b[n + 1] = "ff")
H264Last(b, n) == IF b[n] = "au" THEN n ELSE n + 1

LEMMA H264Starts ==
  ASSUME NEW st, Cutter!WellFormed(st), st.codec = "h264", NEW b, b = st.bytes
  PROVE  /\ b \in Seq(Cutter!ByteClasses) /\ Len(b) \in Nat
         /\ \A p \in Cutter!StartsOf(st) :
              \E n \in 4 .. Len(b) : /\ H264Start(b, n)
                                     /\ p = [at |-> n - 4, last |-> H264Last(b, n)]
         /\ \A n \in 4 .. Len(b) : H264Start(b, n) =>
              [at |-> n - 4, last |-> H264Last(b, n)] \in Cutter!StartsOf(st)
         /\ \A t \in Cutter!OpeningsOf(st) : \E n \in 4 .. Len(b) :
              /\ b[n - 3] = "00" /\ b[n - 2] = "00" /\ b[n - 1] = "01"
              /\ b[n] \in Cutter!Slice \cup {"hd"} /\ t = [at |-> n - 4, last |-> n]
         /\ ~(Len(b) \in Cutter!Nals(b) /\ b[Len(b)] \in Cutter!Slice)
  <1>1. b \in Seq(Cutter!ByteClasses) /\ Len(b) \in Nat
    BY LenProperties DEF Cutter!WellFormed
  <1>2. Cutter!Nals(b) = {n \in 4 .. Len(b) : b[n - 3] = "00" /\ b[n - 2] = "00" /\ b[n - 1] = "01"}
    BY <1>1, NalsAre
  <1>3. Cutter!StartsOf(st) =
          {[at |-> n - 4, last |-> n] : n \in {n \in Cutter!Nals(b) : b[n] = "au"}}
            \cup {[at |-> n - 4, last |-> n + 1] : n \in
                    {n \in Cutter!Nals(b) \ {Len(b)} : b[n] \in Cutter!Slice /\ b[n + 1] = "ff"}}
    BY DEF Cutter!StartsOf
  <1>4. ASSUME NEW p \in Cutter!StartsOf(st)
        PROVE  \E n \in 4 .. Len(b) : /\ H264Start(b, n)
                                      /\ p = [at |-> n - 4, last |-> H264Last(b, n)]
    <2>1. CASE \E n \in Cutter!Nals(b) : b[n] = "au" /\ p = [at |-> n - 4, last |-> n]
      <3>1. PICK n \in Cutter!Nals(b) : b[n] = "au" /\ p = [at |-> n - 4, last |-> n]
        BY <2>1
      <3> QED BY <1>2, <3>1 DEF H264Start, H264Last
    <2>2. CASE \E n \in Cutter!Nals(b) \ {Len(b)} :
                 b[n] \in Cutter!Slice /\ b[n + 1] = "ff" /\ p = [at |-> n - 4, last |-> n + 1]
      <3>1. PICK n \in Cutter!Nals(b) \ {Len(b)} :
                 b[n] \in Cutter!Slice /\ b[n + 1] = "ff" /\ p = [at |-> n - 4, last |-> n + 1]
        BY <2>2
      <3>2. n \in 4 .. Len(b) /\ n < Len(b)
        BY <1>1, <1>2
      <3>3. b[n] # "au"
        BY <3>1 DEF Cutter!Slice
      <3> QED BY <1>2, <3>1, <3>2, <3>3 DEF H264Start, H264Last
    <2> QED BY <1>3, <2>1, <2>2
  <1>5. ASSUME NEW n \in 4 .. Len(b), H264Start(b, n)
        PROVE  [at |-> n - 4, last |-> H264Last(b, n)] \in Cutter!StartsOf(st)
    <2>1. n \in Cutter!Nals(b)
      BY <1>2, <1>5 DEF H264Start
    <2>2. CASE b[n] = "au"
      BY <1>3, <2>1, <2>2 DEF H264Last
    <2>3. CASE b[n] # "au"
      <3>1. b[n] \in Cutter!Slice /\ n # Len(b) /\ b[n + 1] = "ff"
        BY <1>1, <1>5, <2>3 DEF H264Start
      <3> QED BY <1>3, <2>1, <2>3, <3>1 DEF H264Last
    <2> QED BY <2>2, <2>3
  <1>6. ASSUME NEW t \in Cutter!OpeningsOf(st)
        PROVE  \E n \in 4 .. Len(b) :
                 /\ b[n - 3] = "00" /\ b[n - 2] = "00" /\ b[n - 1] = "01"
                 /\ b[n] \in Cutter!Slice \cup {"hd"} /\ t = [at |-> n - 4, last |-> n]
    BY <1>2 DEF Cutter!OpeningsOf, Cutter!Opens
  <1>7. ~(Len(b) \in Cutter!Nals(b) /\ b[Len(b)] \in Cutter!Slice)
    BY DEF Cutter!WellFormed
  <1> QED BY <1>1, <1>4, <1>5, <1>6, <1>7

LEMMA H264StartsAt ==
  ASSUME NEW st, Cutter!WellFormed(st), st.codec = "h264"
  PROVE  StartsAt(st)
  <1> DEFINE b == st.bytes
  <1>1. ASSUME NEW p \in Cutter!StartsOf(st)
        PROVE  /\ p.at \in Nat /\ p.last \in p.at + 4 .. p.at + 5 /\ p.last <= Len(b)
    <2>1. Len(b) \in Nat
      BY H264Starts
    <2>2. PICK n \in 4 .. Len(b) : H264Start(b, n) /\ p = [at |-> n - 4, last |-> H264Last(b, n)]
      BY H264Starts
    <2>3. H264Last(b, n) \in n .. n + 1 /\ H264Last(b, n) <= Len(b)
      BY <2>1, <2>2 DEF H264Start, H264Last
    <2>4. p.at = n - 4 /\ p.last = H264Last(b, n)
      BY <2>2
    <2> QED BY <2>1, <2>3, <2>4
  <1>2. ASSUME NEW p \in Cutter!StartsOf(st) PROVE p.at \in Cutter!Before(b, p)
    BY <1>1, BeforeIs
  <1> QED BY <1>1, <1>2 DEF StartsAt

LEMMA H264Searched ==
  ASSUME NEW st, Cutter!WellFormed(st), st.codec = "h264",
         NEW i \in 0 .. Len(st.bytes), NEW j \in i .. Len(st.bytes), NEW some \in BOOLEAN,
         NEW cut \in Cutter!Check_H264_Frame(SubSeq(st.bytes, i + 1, j), some)
  PROVE  Searched(st, i, j, some, cut)
  <1> DEFINE b == st.bytes
             r == SubSeq(b, i + 1, j)
             O == Cutter!Opens(r)
             from == IF some THEN 0 ELSE Cutter!Min(O \cup {Len(r)})
             nals == {n \in Cutter!Nals(r) : n > from}
             S == {n \in nals : \/ r[n] = "au"
                                \/ r[n] \in Cutter!Slice /\ n < Len(r) /\ r[n + 1] = "ff"}
             cutOff == Len(r) \in nals /\ r[Len(r)] \in Cutter!Slice
             least == Cutter!Min(S)
             here == Cutter!CodeBefore(r, least)
  <1>1. /\ S # {} => cut = [eof |-> TRUE, size |-> here]
        /\ S = {} => cut = [eof |-> FALSE, size |-> IF cutOff THEN Len(r) - 1 ELSE Len(r)]
    BY DEF Cutter!Check_H264_Frame
  <1>2. b \in Seq(Cutter!ByteClasses) /\ Len(b) \in Nat
    BY H264Starts
  <1>3. i \in Nat /\ j \in Nat /\ i <= j /\ j <= Len(b)
    BY <1>2
  <1>4. r \in Seq(Cutter!ByteClasses) /\ Len(r) = j - i /\ \A k \in 1 .. j - i : r[k] = b[i + k]
    BY <1>2, RestBytes
  <1> HIDE DEF r
  <1>5. Cutter!Nals(r) = {n \in 4 .. j - i : r[n - 3] = "00" /\ r[n - 2] = "00" /\ r[n - 1] = "01"}
    BY <1>4, NalsAre
  <1>6. ASSUME NEW n \in 4 .. j - i
        PROVE  /\ r[n - 3] = b[(i + n) - 3] /\ r[n - 2] = b[(i + n) - 2]
               /\ r[n - 1] = b[(i + n) - 1] /\ r[n] = b[i + n]
               /\ n < j - i => r[n + 1] = b[(i + n) + 1]
               /\ n > 4 => r[n - 4] = b[(i + n) - 4]
    <2>1. /\ n - 3 \in 1 .. j - i /\ n - 2 \in 1 .. j - i /\ n - 1 \in 1 .. j - i
          /\ n \in 1 .. j - i
          /\ i + (n - 3) = (i + n) - 3 /\ i + (n - 2) = (i + n) - 2 /\ i + (n - 1) = (i + n) - 1
          /\ n < j - i => n + 1 \in 1 .. j - i /\ i + (n + 1) = (i + n) + 1
          /\ n > 4 => n - 4 \in 1 .. j - i /\ i + (n - 4) = (i + n) - 4
      BY <1>3
    <2> HIDE DEF b
    <2> QED BY <1>4, <2>1
  <1>7. O = {n \in Cutter!Nals(r) : r[n] \in Cutter!Slice \cup {"hd"}}
    BY DEF Cutter!Opens
  <1> HIDE DEF O
  <1>8. /\ from \in Nat
        /\ some => from = 0
        /\ ~some => \A n \in O : from <= n
    <2>1. O \cup {Len(r)} \in SUBSET Nat
      BY <1>3, <1>4, <1>5, <1>7
    <2> QED BY <2>1, MinIsLeast
  <1> HIDE DEF from
  <1>9. S \in SUBSET Nat
    BY <1>5
  <1>10. S # {} => least \in S /\ \A n \in S : least <= n
    BY <1>9, MinIsLeast
  <1>11. \A n \in S : /\ n \in 4 .. j - i /\ r[n - 3] = "00" /\ r[n - 2] = "00" /\ r[n - 1] = "01"
                      /\ r[n] = "au" \/ (r[n] \in Cutter!Slice /\ n < j - i /\ r[n + 1] = "ff")
    BY <1>4, <1>5
  <1>12. \A n \in 4 .. j - i :
           (/\ r[n - 3] = "00" /\ r[n - 2] = "00" /\ r[n - 1] = "01"
            /\ r[n] = "au" \/ (r[n] \in Cutter!Slice /\ n < j - i /\ r[n + 1] = "ff")
            /\ n > from) => n \in S
    BY <1>4, <1>5
  <1>13. cutOff => /\ j - i \in 4 .. j - i /\ r[(j - i) - 3] = "00" /\ r[(j - i) - 2] = "00"
                   /\ r[(j - i) - 1] = "01" /\ r[j - i] \in Cutter!Slice
    BY <1>4, <1>5
  <1> HIDE DEF S, cutOff, least
  <1>14. S # {} => cut = [eof |-> TRUE, size |-> here]
    BY <1>1
  <1>15. S # {} => /\ least \in 4 .. j - i /\ here \in 0 .. least - 4
                   /\ here = IF least > 4 /\ r[least - 4] = "00" THEN least - 5 ELSE least - 4
    <2>1. S # {} => least \in 4 .. j - i
      BY <1>10, <1>11
    <2> QED BY <2>1 DEF Cutter!CodeBefore
  <1> HIDE DEF here
  <1>16. S = {} => /\ cut.size \in 0 .. j - i /\ (cut.size = j - i \/ cutOff)
                   /\ cut = [eof |-> FALSE, size |-> cut.size]
    <2>1. CASE S = {}
      <3>1. cut = [eof |-> FALSE, size |-> IF cutOff THEN Len(r) - 1 ELSE Len(r)]
        BY <1>1, <2>1
      <3>2. cut.size = (IF cutOff THEN Len(r) - 1 ELSE Len(r))
        BY <3>1
      <3> QED BY <1>3, <1>4, <1>13, <3>1, <3>2
    <2> QED BY <2>1
  <1>17. cut \in [eof : BOOLEAN, size : 0 .. j - i]
    <2>1. CASE S = {}
      <3>1. PICK z \in 0 .. j - i : cut = [eof |-> FALSE, size |-> z]
        BY <1>16, <2>1
      <3> QED BY <3>1
    <2>2. CASE S # {}
      <3>1. here \in 0 .. j - i
        BY <1>3, <1>15, <2>2
      <3>2. cut = [eof |-> TRUE, size |-> here]
        BY <1>14, <2>2
      <3> QED BY <3>1, <3>2
    <2> QED BY <2>1, <2>2
  <1>18. ASSUME cut.eof
         PROVE  /\ cut.size < j - i
                /\ \E p \in Cutter!StartsOf(st) : i + cut.size \in Cutter!Before(b, p)
    <2>1. S # {} /\ cut.size = here
      BY <1>14, <1>18, <1>16
    <2>2. /\ least \in 4 .. j - i /\ r[least - 3] = "00" /\ r[least - 2] = "00"
          /\ r[least - 1] = "01"
          /\ \/ r[least] = "au"
             \/ r[least] \in Cutter!Slice /\ least < j - i /\ r[least + 1] = "ff"
      BY <1>10, <1>11, <2>1
    <2> DEFINE n == i + least
               p == [at |-> n - 4, last |-> H264Last(b, n)]
    <2>3. n \in 4 .. Len(b) /\ (least < j - i => n < Len(b))
      BY <1>3, <2>2
    <2>4. H264Start(b, n)
      BY <1>6, <2>2, <2>3 DEF H264Start
    <2>5. p \in Cutter!StartsOf(st)
      BY <2>3, <2>4, H264Starts
    <2>6. i + here \in Cutter!Before(b, p)
      <3>1. p.at \in Nat /\ p.at = n - 4
        BY <2>3
      <3>2. Cutter!Before(b, p) = (IF p.at > 0 /\ b[p.at] = "00" THEN p.at - 1 ELSE p.at) .. p.at
        BY <3>1, BeforeIs
      <3>3. CASE least > 4 /\ r[least - 4] = "00"
        <4>1. b[n - 4] = "00"
          BY <1>6, <2>2, <3>3
        <4>2. n - 4 > 0 /\ here = least - 5
          BY <1>3, <1>15, <2>1, <2>2, <3>3
        <4>3. i + here = (n - 4) - 1
          BY <1>3, <2>2, <4>2
        <4>4. n - 4 \in Nat
          BY <2>3
        <4> HIDE DEF p, n
        <4>5. Cutter!Before(b, p) = (n - 4) - 1 .. n - 4
          BY <3>1, <3>2, <4>1, <4>2
        <4> QED BY <4>3, <4>4, <4>5
      <3>4. CASE ~(least > 4 /\ r[least - 4] = "00")
        <4>1. i + here = n - 4
          BY <1>3, <1>15, <2>1, <2>2, <3>4
        <4> HIDE DEF p, n
        <4> QED BY <3>1, <3>2, <4>1
      <3> QED BY <3>3, <3>4
    <2>7. here < j - i
      BY <1>3, <1>15, <2>1, <2>2
    <2> QED BY <2>1, <2>5, <2>6, <2>7
  <1>19. ASSUME ~cut.eof, j = Len(b) PROVE cut.size = j - i
    <2>1. S = {}
      BY <1>14, <1>19
    <2>2. ASSUME cutOff PROVE FALSE
      <3>1. i + (j - i) = Len(b) /\ Len(b) \in 4 .. Len(b)
        BY <1>3, <1>13, <1>19, <2>2
      <3>2. /\ b[Len(b) - 3] = "00" /\ b[Len(b) - 2] = "00" /\ b[Len(b) - 1] = "01"
            /\ b[Len(b)] \in Cutter!Slice
        BY <1>6, <1>13, <2>2, <3>1
      <3>3. Len(b) \in Cutter!Nals(b)
        BY <1>2, <3>1, <3>2, NalsAre
      <3> QED BY <3>2, <3>3, H264Starts
    <2> QED BY <1>16, <2>1, <2>2
  <1>20. \A t \in Cutter!OpeningsOf(st) : \E n \in 4 .. Len(b) :
           /\ b[n - 3] = "00" /\ b[n - 2] = "00" /\ b[n - 1] = "01"
           /\ b[n] \in Cutter!Slice \cup {"hd"} /\ t = [at |-> n - 4, last |-> n]
    BY H264Starts
  <1>21. ASSUME NEW p \in Cutter!StartsOf(st),
                i <= p.at, p.last <= (IF cut.eof THEN i + cut.size ELSE j)
         PROVE  ~some /\ \A t \in Cutter!OpeningsOf(st) : ~(i <= t.at /\ t.at < p.at)
    <2>1. PICK n \in 4 .. Len(b) : H264Start(b, n) /\ p = [at |-> n - 4, last |-> H264Last(b, n)]
      BY H264Starts
    <2>2. p.at = n - 4 /\ p.last = H264Last(b, n) /\ n <= p.last /\ n \in Nat
      BY <1>2, <2>1 DEF H264Last
    <2>3. p.last \in Nat /\ p.last <= j
      BY <1>3, <1>17, <1>21, <2>1, <2>2 DEF H264Last
    <2>4. n - i \in 4 .. j - i /\ i + (n - i) = n
      BY <1>3, <1>21, <2>2, <2>3
    <2>5. ~(n - i > from)
      <3>1. ASSUME n - i > from PROVE FALSE
        <4>1. b[n] # "au" => n - i < j - i
          BY <1>3, <2>1, <2>2, <2>3 DEF H264Last
        <4> DEFINE k == n - i
        <4>2. /\ b[n - 3] = "00" /\ b[n - 2] = "00" /\ b[n - 1] = "01"
              /\ b[n] = "au" \/ (b[n] \in Cutter!Slice /\ b[n + 1] = "ff")
          BY <2>1 DEF H264Start
        <4>3. k \in 4 .. j - i /\ i + k = n /\ k > from /\ (b[n] # "au" => k < j - i)
          BY <2>4, <3>1, <4>1
        <4> HIDE DEF k, b
        <4>4. /\ r[k - 3] = b[n - 3] /\ r[k - 2] = b[n - 2] /\ r[k - 1] = b[n - 1] /\ r[k] = b[n]
              /\ k < j - i => r[k + 1] = b[n + 1]
          BY <1>6, <4>3
        <4>5. k \in S
          BY <1>12, <4>2, <4>3, <4>4
        <4>6. S # {} /\ least <= k
          BY <1>10, <4>5
        <4>7. least <= n - i
          BY <4>6 DEF k
        <4>8. /\ cut.eof /\ cut.size = here /\ here \in 0 .. least - 4 /\ least \in 4 .. j - i
          BY <1>14, <1>15, <4>6
        <4>9. p.last <= i + here
          BY <1>21, <4>8
        <4> QED BY <1>3, <2>2, <2>3, <2>4, <4>8, <4>9, <4>7
      <3> QED BY <3>1
    <2>6. ~some
      <3>1. n - i > 0
        BY <1>3, <2>2, <2>4
      <3> QED BY <1>8, <2>5, <3>1
    <2>7. ASSUME NEW t \in Cutter!OpeningsOf(st), i <= t.at, t.at < p.at PROVE FALSE
      <3>1. PICK k \in 4 .. Len(b) :
              /\ b[k - 3] = "00" /\ b[k - 2] = "00" /\ b[k - 1] = "01"
              /\ b[k] \in Cutter!Slice \cup {"hd"} /\ t = [at |-> k - 4, last |-> k]
        BY <1>20
      <3>2. t.at = k - 4
        BY <3>1
      <3>3. k - i \in 4 .. j - i /\ i + (k - i) = k /\ k < n
        BY <1>3, <2>2, <2>3, <2>7, <3>2
      <3>4. k - i \in O
        <4> DEFINE l == k - i
        <4>1. l \in 4 .. j - i /\ i + l = k
          BY <3>3
        <4> HIDE DEF l, b
        <4>2. r[l - 3] = b[k - 3] /\ r[l - 2] = b[k - 2] /\ r[l - 1] = b[k - 1] /\ r[l] = b[k]
          BY <1>6, <4>1
        <4>3. l \in O
          BY <1>5, <1>7, <3>1, <4>1, <4>2
        <4> QED BY <4>3 DEF l
      <3>5. from <= k - i
        BY <1>8, <2>6, <3>4
      <3>6. n - i \in Int /\ k - i \in Int /\ k - i < n - i
        BY <1>3, <2>2, <3>3
      <3> QED BY <1>8, <2>5, <3>5, <3>6
    <2> QED BY <2>6, <2>7
  <1> QED BY <1>17, <1>18, <1>19, <1>21 DEF Searched

\* No picture is cut off within the code of another one.
LEMMA CodesApart ==
  ASSUME NEW st, Cutter!WellFormed(st), NEW p \in Cutter!StartsOf(st),
         NEW q \in Cutter!StartsOf(st), NEW c \in Cutter!Before(st.bytes, q)
  PROVE  ~(p.at < c /\ c < p.last)
  <1> SUFFICES ASSUME p.at < c, c < p.last PROVE FALSE
    OBVIOUS
  <1> DEFINE b == st.bytes
  <1>1. CASE st.codec = "mpeg4"
    <2>1. /\ p.at \in Nat /\ p.last = p.at + 4
          /\ b[p.at + 1] = "00" /\ b[p.at + 2] = "00" /\ b[p.at + 3] = "01" /\ b[p.at + 4] = "B6"
      BY <1>1, VopStarts, SMTT(30)
    <2>2. /\ q.at \in Nat
          /\ b[q.at + 1] = "00" /\ b[q.at + 2] = "00" /\ b[q.at + 3] = "01" /\ b[q.at + 4] = "B6"
      BY <1>1, VopStarts, SMTT(30)
    <2>3. c = q.at \/ (c = q.at - 1 /\ b[q.at] = "00")
      BY <2>2, BeforeIs
    <2>4. q.at \in p.at + 1 .. p.at + 4 /\ (q.at = p.at + 4 => b[q.at] = "00")
      BY <2>1, <2>2, <2>3
    <2> HIDE DEF b
    <2>5. CASE q.at = p.at + 1
      <3>1. q.at + 2 = p.at + 3
        BY <2>1, <2>5
      <3> QED BY <2>1, <2>2, <3>1
    <2>6. CASE q.at = p.at + 2
      <3>1. q.at + 1 = p.at + 3
        BY <2>1, <2>6
      <3> QED BY <2>1, <2>2, <3>1
    <2>7. CASE q.at = p.at + 3
      <3>1. q.at + 1 = p.at + 4
        BY <2>1, <2>7
      <3> QED BY <2>1, <2>2, <3>1
    <2>8. CASE q.at = p.at + 4
      BY <2>1, <2>4, <2>8
    <2> QED BY <2>1, <2>4, <2>5, <2>6, <2>7, <2>8
  <1>2. CASE st.codec = "h263"
    <2>1. /\ p.at \in Nat /\ p.last = p.at + 4
          /\ b[p.at + 1] = "00" /\ b[p.at + 2] = "00" /\ b[p.at + 3] = "80" /\ b[p.at + 4] = "02"
      BY <1>2, PscStarts, SMTT(30)
    <2>2. /\ q.at \in Nat
          /\ b[q.at + 1] = "00" /\ b[q.at + 2] = "00" /\ b[q.at + 3] = "80" /\ b[q.at + 4] = "02"
      BY <1>2, PscStarts
    <2>3. c = q.at \/ (c = q.at - 1 /\ b[q.at] = "00")
      BY <2>2, BeforeIs
    <2>4. q.at \in p.at + 1 .. p.at + 4 /\ (q.at = p.at + 4 => b[q.at] = "00")
      BY <2>1, <2>2, <2>3
    <2> HIDE DEF b
    <2>5. CASE q.at = p.at + 1
      <3>1. q.at + 2 = p.at + 3
        BY <2>1, <2>5
      <3> QED BY <2>1, <2>2, <3>1
    <2>6. CASE q.at = p.at + 2
      <3>1. q.at + 1 = p.at + 3
        BY <2>1, <2>6
      <3> QED BY <2>1, <2>2, <3>1
    <2>7. CASE q.at = p.at + 3
      <3>1. q.at + 1 = p.at + 4
        BY <2>1, <2>7
      <3> QED BY <2>1, <2>2, <3>1
    <2>8. CASE q.at = p.at + 4
      BY <2>1, <2>4, <2>8
    <2> QED BY <2>1, <2>4, <2>5, <2>6, <2>7, <2>8
  <1>3. CASE st.codec = "h264"
    <2>1. PICK n \in 4 .. Len(b) : H264Start(b, n) /\ p = [at |-> n - 4, last |-> H264Last(b, n)]
      BY <1>3, H264Starts
    <2>2. PICK m \in 4 .. Len(b) : H264Start(b, m) /\ q = [at |-> m - 4, last |-> H264Last(b, m)]
      BY <1>3, H264Starts
    <2>3. n \in Nat /\ m \in Nat /\ p.at = n - 4 /\ p.last = H264Last(b, n) /\ q.at = m - 4
          /\ q.at \in Nat
      BY <2>1, <2>2, <1>3, H264Starts
    <2>4. /\ b[n - 3] = "00" /\ b[n - 2] = "00" /\ b[n - 1] = "01" /\ b[n] # "00"
          /\ H264Last(b, n) = n + 1 => b[n + 1] = "ff"
          /\ H264Last(b, n) \in n .. n + 1
      BY <2>1, <2>3 DEF H264Start, H264Last, Cutter!Slice
    <2>5. b[m - 3] = "00" /\ b[m - 2] = "00" /\ b[m - 1] = "01"
      BY <2>2 DEF H264Start
    <2>6. c = m - 4 \/ (c = m - 5 /\ b[m - 4] = "00")
      <3>1. c = q.at \/ (c = q.at - 1 /\ b[q.at] = "00")
        BY <2>3, BeforeIs
      <3> QED BY <2>3, <3>1
    <2> HIDE DEF b
    <2>7. m \in n + 1 .. n + 5 /\ (m > n + 3 /\ b[m - 4] # "00" => m = n + 4)
      BY <2>3, <2>4, <2>6
    <2>8. CASE m = n + 1
      <3>1. m - 2 = n - 1
        BY <2>3, <2>8
      <3> QED BY <2>4, <2>5, <3>1
    <2>9. CASE m = n + 2
      <3>1. m - 3 = n - 1
        BY <2>3, <2>9
      <3> QED BY <2>4, <2>5, <3>1
    <2>10. CASE m = n + 3
      <3>1. m - 3 = n
        BY <2>3, <2>10
      <3> QED BY <2>4, <2>5, <3>1
    <2>11. CASE m = n + 4
      <3>1. m - 3 = n + 1 /\ m - 4 = n /\ m - 5 = n - 1
        BY <2>3, <2>11
      <3>2. c = n
        BY <2>4, <2>6, <3>1
      <3>3. H264Last(b, n) = n + 1
        BY <2>3, <2>4, <3>2
      <3> QED BY <2>4, <2>5, <3>1, <3>3
    <2>12. CASE m = n + 5
      <3>1. m - 5 = n /\ m - 4 = n + 1
        BY <2>3, <2>12
      <3>2. H264Last(b, n) = n + 1 /\ b[n + 1] = "00"
        BY <2>3, <2>4, <2>6, <3>1
      <3> QED BY <2>4, <3>2
    <2> QED BY <2>3, <2>7, <2>8, <2>9, <2>10, <2>11, <2>12
  <1> QED BY <1>1, <1>2, <1>3 DEF Cutter!WellFormed

\* Whatever a codec is searched for.
LEMMA SearchSound ==
  ASSUME Cutter!WellFormed(bytes), NEW i \in 0 .. Len(bytes.bytes),
         NEW j \in i .. Len(bytes.bytes), NEW some \in BOOLEAN,
         NEW cut \in Cutter!sec_checkInputFrame(SubSeq(bytes.bytes, i + 1, j), some)
  PROVE  Searched(bytes, i, j, some, cut)
  <1>1. CASE bytes.codec = "mpeg4"
    BY <1>1, Mpeg4Searched DEF Cutter!sec_checkInputFrame
  <1>2. CASE bytes.codec = "h263"
    BY <1>2, H263Searched DEF Cutter!sec_checkInputFrame
  <1>3. CASE bytes.codec = "h264"
    BY <1>3, H264Searched DEF Cutter!sec_checkInputFrame
  <1> QED BY <1>1, <1>2, <1>3 DEF Cutter!WellFormed

LEMMA StartsFound ==
  ASSUME NEW st, Cutter!WellFormed(st)
  PROVE  Len(st.bytes) \in Nat /\ StartsAt(st)
  <1>1. Len(st.bytes) \in Nat
    BY LenProperties DEF Cutter!WellFormed
  <1>2. CASE st.codec = "h264"
    BY <1>2, H264StartsAt
  <1>3. CASE st.codec \in {"mpeg4", "h263"}
    BY <1>3, CodeStartsAt
  <1> QED BY <1>1, <1>2, <1>3 DEF Cutter!WellFormed

(***************************************************************************)
(* The frames of a stream: the invariant                                   *)
(***************************************************************************)

FlagsType == [config : BOOLEAN, eof : BOOLEAN, eos : BOOLEAN]
CutTypes ==
  /\ Cutter!WellFormed(bytes) /\ marked \in BOOLEAN /\ ends \subseteq 0 .. Len(bytes.bytes)
  /\ buffer \in [to : 0 .. Len(bytes.bytes), flags : FlagsType] /\ inFlags \in FlagsType
  /\ copied \in 0 .. Len(bytes.bytes) /\ done \in 0 .. copied
  /\ useFlag \in BOOLEAN /\ saveEos \in BOOLEAN /\ began \in BOOLEAN /\ ended \in BOOLEAN
  /\ cutPc \in {"input", "frame"}
\* What was not read yet is in the buffer, which is the last one.
CutReading ==
  /\ buffer # Cutter!NoBuffer => copied <= buffer.to /\ buffer.to \in ends
  /\ \A e \in ends : e <= copied \/ (buffer # Cutter!NoBuffer /\ e = buffer.to)
  /\ buffer.flags.eos => buffer.to = Len(bytes.bytes)
\* A frame that goes on was gathered up to the end of a buffer, and not from marked ones.
CutGathering == cutPc = "input" /\ done < copied => copied \in ends /\ ~useFlag
\* The marks are used only if the client sets them, and then each buffer ends at the next.
CutMarking ==
  /\ useFlag \/ inFlags.eof \/ buffer.flags.eof => marked
  /\ marked /\ buffer # Cutter!NoBuffer =>
       /\ buffer.to \in bytes.marks \cup {Len(bytes.bytes)}
       /\ \A m \in bytes.marks : ~(copied < m /\ m < buffer.to)
\* A frame ends before a picture or with the stream.
CutPlaces ==
  /\ done \in cuts \cup {0} /\ cuts \subseteq 1 .. done
  /\ cutPc = "frame" => \/ copied = Len(bytes.bytes)
                        \/ \E p \in Cutter!Starts : copied \in Cutter!Before(bytes.bytes, p)
\* What PicturesSeparated says, of the frame that is being gathered.
CutThisFrame ==
  \A p \in Cutter!Starts :
    (/\ done <= p.at /\ p.last <= copied /\ Cutter!InOneBuffer(p)
     /\ done \notin Cutter!Before(bytes.bytes, p)) =>
      /\ \A e \in ends : ~(done < e /\ e <= p.at)
      /\ \A t \in Cutter!Openings : (done <= t.at /\ t.at < p.at) => ~Cutter!InOneBuffer(t)
\* The end of the stream is in the flags of the buffer, then in what is saved of it.
CutEnding ==
  ended \/ saveEos \/ (cutPc = "frame" /\ inFlags.eos) =>
    IF buffer # Cutter!NoBuffer THEN buffer.flags.eos
    ELSE /\ copied = Len(bytes.bytes)
         /\ cutPc = "frame" => inFlags.eos \/ saveEos
         /\ cutPc = "input" => ended /\ done = copied
CutterInv ==
  /\ CutTypes /\ CutReading /\ CutGathering /\ CutMarking /\ CutPlaces /\ CutThisFrame
  /\ CutEnding /\ Cutter!CutsAtPictures /\ Cutter!PicturesSeparated

LEMMA CutInit == Cutter!Init => CutterInv
  <1> SUFFICES ASSUME Cutter!Init PROVE CutterInv
    OBVIOUS
  <1>1. Cutter!WellFormed(bytes) /\ Len(bytes.bytes) \in Nat /\ StartsAt(bytes)
    BY StreamsAssumption, StartsFound DEF Cutter!Init
  <1>2. /\ buffer = Cutter!NoBuffer /\ buffer.to = 0 /\ buffer.flags = Cutter!NoFlags
        /\ Cutter!NoFlags \in FlagsType /\ ~Cutter!NoFlags.eos /\ ~Cutter!NoFlags.eof
        /\ buffer = [to |-> 0, flags |-> Cutter!NoFlags]
    BY DEF Cutter!Init, Cutter!NoBuffer, Cutter!NoFlags, FlagsType
  <1>3. CutTypes
    <2>1. buffer \in [to : 0 .. Len(bytes.bytes), flags : FlagsType]
      <3>1. 0 \in 0 .. Len(bytes.bytes)
        BY <1>1
      <3> QED BY <1>2, <3>1
    <2>2. inFlags \in FlagsType /\ copied \in 0 .. Len(bytes.bytes) /\ done \in 0 .. copied
      BY <1>1, <1>2 DEF Cutter!Init
    <2>3. ends \subseteq 0 .. Len(bytes.bytes) /\ marked \in BOOLEAN
      BY DEF Cutter!Init
    <2> QED BY <1>1, <2>1, <2>2, <2>3 DEF Cutter!Init, CutTypes
  <1>4. CutReading /\ CutGathering /\ CutMarking /\ CutPlaces /\ CutEnding
    BY <1>1, <1>2
       DEF Cutter!Init, CutReading, CutGathering, CutMarking, CutPlaces, CutEnding
  <1>5. \A p \in Cutter!Starts : ~(p.last <= 0)
    BY <1>1 DEF StartsAt, Cutter!Starts
  <1>6. CutThisFrame /\ Cutter!CutsAtPictures /\ Cutter!PicturesSeparated
    BY <1>5 DEF Cutter!Init, CutThisFrame, Cutter!CutsAtPictures, Cutter!PicturesSeparated
  <1> QED BY <1>3, <1>4, <1>6 DEF CutterInv

\* What the invariant says of the numbers.
LEMMA CutNumbers ==
  ASSUME CutTypes
  PROVE  /\ Len(bytes.bytes) \in Nat /\ copied \in Nat /\ done \in Nat /\ done <= copied
         /\ copied <= Len(bytes.bytes) /\ buffer.to \in Nat /\ buffer.to <= Len(bytes.bytes)
         /\ \A e \in ends : e \in Nat
         /\ StartsAt(bytes)
         /\ \A p \in Cutter!Starts : /\ p.at \in Nat /\ p.last \in Nat /\ p.at < p.last
                                     /\ p.last <= Len(bytes.bytes)
  <1>1. Len(bytes.bytes) \in Nat /\ StartsAt(bytes)
    BY StartsFound DEF CutTypes
  <1>2. buffer.to \in 0 .. Len(bytes.bytes)
    BY DEF CutTypes
  <1>3. \A p \in Cutter!Starts : /\ p.at \in Nat /\ p.last \in Nat /\ p.at < p.last
                                 /\ p.last <= Len(bytes.bytes)
    BY <1>1 DEF StartsAt, Cutter!Starts
  <1>4. /\ copied \in 0 .. Len(bytes.bytes) /\ done \in 0 .. copied
        /\ ends \subseteq 0 .. Len(bytes.bytes)
    BY DEF CutTypes
  <1> QED BY <1>1, <1>2, <1>3, <1>4

\* The openings of a stream are numbered too.
LEMMA OpeningsNumbered ==
  ASSUME NEW st, Cutter!WellFormed(st), NEW t \in Cutter!OpeningsOf(st)
  PROVE  t.at \in Nat
  <1>1. CASE st.codec = "h264"
    <2>1. PICK n \in 4 .. Len(st.bytes) : t = [at |-> n - 4, last |-> n]
      BY <1>1, H264Starts
    <2>2. Len(st.bytes) \in Nat
      BY <1>1, H264Starts
    <2> QED BY <2>1, <2>2
  <1>2. CASE st.codec # "h264"
    <2>1. t \in Cutter!StartsOf(st)
      BY <1>2 DEF Cutter!OpeningsOf
    <2> QED BY <2>1, StartsFound DEF StartsAt
  <1> QED BY <1>1, <1>2

\* The bytes and the start of what is left unchanged by the calls: the stream never changes.
LEMMA CutKept ==
  ASSUME bytes' = bytes
  PROVE  /\ Cutter!Starts' = Cutter!Starts /\ Cutter!Openings' = Cutter!Openings
         /\ Cutter!Bytes' = Cutter!Bytes
  BY DEF Cutter!Starts, Cutter!Openings, Cutter!Bytes

\* The client fills a buffer.
LEMMA FillSound == CutterInv /\ Cutter!Fill => CutterInv'
  <1> SUFFICES ASSUME CutterInv, Cutter!Fill PROVE CutterInv'
    OBVIOUS
  <1> USE DEF Cutter!Bytes
  <1>1. /\ CutTypes /\ CutReading /\ CutGathering /\ CutMarking /\ CutPlaces /\ CutThisFrame
        /\ Cutter!CutsAtPictures /\ Cutter!PicturesSeparated
    BY DEF CutterInv
  <1>2. /\ cutPc = "input" /\ buffer = Cutter!NoBuffer /\ ~ended /\ ~saveEos
        /\ bytes' = bytes /\ marked' = marked /\ copied' = copied /\ done' = done
        /\ inFlags' = inFlags /\ useFlag' = useFlag /\ saveEos' = saveEos /\ began' = began
        /\ cuts' = cuts /\ ended' = ended /\ cutPc' = cutPc
    BY DEF Cutter!Fill
  <1>3. PICK to \in copied .. Len(bytes.bytes), eos \in BOOLEAN :
          /\ marked => to = Cutter!Min({m \in bytes.marks : m > copied} \cup {Len(bytes.bytes)})
          /\ eos => to = Len(bytes.bytes)
          /\ to > copied \/ eos
          /\ buffer' = [to |-> to, flags |->
               [config |-> marked /\ copied = 0 /\ bytes.codec # "h263", eof |-> marked,
                eos |-> eos]]
          /\ ends' = ends \cup {to}
    BY DEF Cutter!Fill
  <1>4. /\ Len(bytes.bytes) \in Nat /\ copied \in Nat /\ done \in Nat /\ done <= copied
        /\ copied <= Len(bytes.bytes) /\ \A e \in ends : e \in Nat
        /\ \A p \in Cutter!Starts : /\ p.at \in Nat /\ p.last \in Nat /\ p.at < p.last
                                    /\ p.last <= Len(bytes.bytes)
    BY <1>1, CutNumbers
  <1>5. to \in Nat /\ copied <= to /\ to <= Len(bytes.bytes) /\ to \in 0 .. Len(bytes.bytes)
    BY <1>3, <1>4
  <1>6. Cutter!Starts' = Cutter!Starts /\ Cutter!Openings' = Cutter!Openings
    BY <1>2, CutKept
  <1>7. /\ buffer'.to = to /\ buffer'.flags.eos = eos /\ buffer'.flags.eof = marked
        /\ buffer'.flags \in FlagsType /\ buffer' = [to |-> to, flags |-> buffer'.flags]
    BY <1>1, <1>3 DEF CutTypes, FlagsType
  <1>8. CutTypes'
    <2>1. buffer' \in [to : 0 .. Len(bytes.bytes), flags : FlagsType]
      BY <1>5, <1>7
    <2>2. ends' \subseteq 0 .. Len(bytes.bytes)
      BY <1>1, <1>3, <1>5 DEF CutTypes
    <2> QED BY <1>1, <1>2, <2>1, <2>2 DEF CutTypes
  <1>9. buffer' # Cutter!NoBuffer
    <2>1. Cutter!NoBuffer.to = 0 /\ Cutter!NoBuffer.flags.eos = FALSE
      BY DEF Cutter!NoBuffer, Cutter!NoFlags
    <2>2. to # 0 \/ eos
      BY <1>3, <1>4, <1>5
    <2> QED BY <1>7, <2>1, <2>2
  <1>10. CutReading'
    <2>1. \A e \in ends' : e <= copied \/ e = to
      BY <1>1, <1>2, <1>3 DEF CutReading
    <2>2. to \in ends'
      BY <1>3
    <2> QED BY <1>2, <1>3, <1>5, <1>7, <1>9, <2>1, <2>2 DEF CutReading
  <1>11. CutGathering'
    BY <1>1, <1>2, <1>3 DEF CutGathering
  <1>12. CutMarking'
    <2>1. ASSUME marked
          PROVE  /\ to \in bytes.marks \cup {Len(bytes.bytes)}
                 /\ \A m \in bytes.marks : ~(copied < m /\ m < to)
      <3> DEFINE M == {m \in bytes.marks : m > copied} \cup {Len(bytes.bytes)}
      <3>1. M \in SUBSET Nat /\ M # {}
        BY <1>1, <1>4 DEF CutTypes, Cutter!WellFormed
      <3>2. to = Cutter!Min(M)
        BY <1>3, <2>1
      <3>3. \A m \in bytes.marks : m \in Nat /\ (m > copied => m \in M)
        BY <3>1, <1>1 DEF CutTypes, Cutter!WellFormed
      <3>4. to \in M => to \in bytes.marks \cup {Len(bytes.bytes)}
        OBVIOUS
      <3> HIDE DEF M
      <3>5. to \in M /\ \A m \in M : to <= m
        BY <3>1, <3>2, MinIsLeast
      <3> QED BY <1>4, <1>5, <3>3, <3>4, <3>5
    <2>2. useFlag \/ inFlags.eof => marked
      BY <1>1 DEF CutMarking
    <2> QED BY <1>2, <1>7, <2>1, <2>2 DEF CutMarking
  <1>13. CutPlaces'
    BY <1>1, <1>2, <1>6 DEF CutPlaces
  <1>14. \A p : Cutter!InOneBuffer(p)' => Cutter!InOneBuffer(p)
    BY <1>3 DEF Cutter!InOneBuffer
  <1>15. CutThisFrame'
    <2> SUFFICES ASSUME NEW p \in Cutter!Starts, done <= p.at, p.last <= copied,
                        Cutter!InOneBuffer(p)', done \notin Cutter!Before(bytes.bytes, p)
                 PROVE  /\ \A e \in ends' : ~(done < e /\ e <= p.at)
                        /\ \A t \in Cutter!Openings :
                             (done <= t.at /\ t.at < p.at) => ~Cutter!InOneBuffer(t)'
      BY <1>2, <1>6 DEF CutThisFrame
    <2>1. /\ \A e \in ends : ~(done < e /\ e <= p.at)
          /\ \A t \in Cutter!Openings : (done <= t.at /\ t.at < p.at) => ~Cutter!InOneBuffer(t)
      BY <1>1, <1>14 DEF CutThisFrame
    <2>2. ~(to <= p.at)
      BY <1>4, <1>5
    <2> QED BY <1>3, <1>14, <2>1, <2>2
  <1>16. CutEnding'
    BY <1>2 DEF CutEnding
  <1>17. Cutter!CutsAtPictures'
    BY <1>1, <1>2, <1>6 DEF Cutter!CutsAtPictures
  <1>18. Cutter!PicturesSeparated'
    <2> SUFFICES ASSUME NEW p \in Cutter!Starts, p.last <= done, Cutter!InOneBuffer(p)',
                        ~Cutter!CutAt(p)'
                 PROVE  /\ \A e \in ends' : ~(Cutter!FrameOf(p)' < e /\ e <= p.at)
                        /\ \A t \in Cutter!Openings :
                             (Cutter!FrameOf(p)' <= t.at /\ t.at < p.at) => ~Cutter!InOneBuffer(t)'
      BY <1>2, <1>6 DEF Cutter!PicturesSeparated
    <2>1. Cutter!FrameOf(p)' = Cutter!FrameOf(p) /\ Cutter!CutAt(p)' = Cutter!CutAt(p)
      BY <1>2 DEF Cutter!FrameOf, Cutter!CutAt
    <2>2. /\ \A e \in ends : ~(Cutter!FrameOf(p) < e /\ e <= p.at)
          /\ \A t \in Cutter!Openings :
               (Cutter!FrameOf(p) <= t.at /\ t.at < p.at) => ~Cutter!InOneBuffer(t)
      BY <1>1, <1>14, <2>1 DEF Cutter!PicturesSeparated
    <2>3. ~(to <= p.at)
      BY <1>4, <1>5
    <2> QED BY <1>3, <1>14, <2>1, <2>2, <2>3
  <1> QED BY <1>8, <1>10, <1>11, <1>12, <1>13, <1>15, <1>16, <1>17, <1>18 DEF CutterInv

\* The decode call takes what was gathered.
LEMMA DecodeSound == CutterInv /\ Cutter!Decode => CutterInv'
  <1> SUFFICES ASSUME CutterInv, Cutter!Decode PROVE CutterInv'
    OBVIOUS
  <1> USE DEF Cutter!Bytes
  <1>1. /\ CutTypes /\ CutReading /\ CutMarking /\ CutPlaces /\ CutThisFrame
        /\ CutEnding /\ Cutter!CutsAtPictures /\ Cutter!PicturesSeparated
    BY DEF CutterInv
  <1>2. /\ cutPc = "frame" /\ cutPc' = "input" /\ done' = copied
        /\ cuts' = IF copied > done THEN cuts \cup {copied} ELSE cuts
        /\ ended' = (ended \/ inFlags.eos \/ saveEos)
        /\ bytes' = bytes /\ marked' = marked /\ ends' = ends /\ buffer' = buffer
        /\ copied' = copied /\ inFlags' = inFlags /\ saveEos' = saveEos
    BY DEF Cutter!Decode
  <1>3. /\ began' \in BOOLEAN /\ useFlag' \in BOOLEAN
        /\ useFlag' => useFlag \/ inFlags.eof
    BY <1>1 DEF Cutter!Decode, CutTypes, FlagsType
  <1>4. /\ Len(bytes.bytes) \in Nat /\ copied \in Nat /\ done \in Nat /\ done <= copied
        /\ copied <= Len(bytes.bytes) /\ \A e \in ends : e \in Nat
        /\ \A p \in Cutter!Starts : /\ p.at \in Nat /\ p.last \in Nat /\ p.at < p.last
                                    /\ p.last <= Len(bytes.bytes)
    BY <1>1, CutNumbers
  <1>5. Cutter!Starts' = Cutter!Starts /\ Cutter!Openings' = Cutter!Openings
    BY <1>2, CutKept
  <1>6. CutTypes'
    <2>1. done' \in 0 .. copied' /\ ended' \in BOOLEAN
      BY <1>1, <1>2, <1>4 DEF CutTypes, FlagsType
    <2> QED BY <1>1, <1>2, <1>3, <2>1 DEF CutTypes
  <1>7. CutReading'
    BY <1>1, <1>2 DEF CutReading
  <1>8. CutGathering'
    BY <1>2, <1>4 DEF CutGathering
  <1>9. CutMarking'
    BY <1>1, <1>2, <1>3 DEF CutMarking
  <1>10. done \in cuts \cup {0} /\ \A c \in cuts : c \in Nat /\ 0 < c /\ c <= done
    BY <1>1, <1>4 DEF CutPlaces
  <1>11. CutPlaces'
    <2>1. done' \in cuts' \cup {0}
      <3>1. CASE copied > done
        BY <1>2, <3>1
      <3>2. CASE copied = done
        BY <1>2, <1>10, <3>2
      <3> QED BY <1>4, <3>1, <3>2
    <2>2. cuts' \subseteq 1 .. done'
      BY <1>2, <1>4, <1>10
    <2> QED BY <1>2, <2>1, <2>2 DEF CutPlaces
  <1>12. CutThisFrame'
    <2>1. \A p \in Cutter!Starts : ~(copied <= p.at /\ p.last <= copied)
      BY <1>4
    <2> QED BY <1>2, <1>5, <2>1 DEF CutThisFrame
  <1>13. CutEnding'
    BY <1>1, <1>2 DEF CutEnding
  <1>14. Cutter!CutsAtPictures'
    <2>1. ASSUME NEW c \in cuts', c # Len(bytes.bytes)
          PROVE  \E p \in Cutter!Starts : c \in Cutter!Before(bytes.bytes, p)
      <3>1. CASE c \in cuts
        BY <1>1, <2>1, <3>1 DEF Cutter!CutsAtPictures
      <3>2. CASE c = copied
        BY <1>1, <1>2, <2>1, <3>2 DEF CutPlaces
      <3> QED BY <1>2, <2>1, <3>1, <3>2
    <2> QED BY <1>2, <1>5, <2>1 DEF Cutter!CutsAtPictures
  <1>15. Cutter!PicturesSeparated'
    <2> SUFFICES ASSUME NEW p \in Cutter!Starts, p.last <= copied, Cutter!InOneBuffer(p),
                        ~Cutter!CutAt(p)'
                 PROVE  /\ \A e \in ends : ~(Cutter!FrameOf(p)' < e /\ e <= p.at)
                        /\ \A t \in Cutter!Openings :
                             (Cutter!FrameOf(p)' <= t.at /\ t.at < p.at) => ~Cutter!InOneBuffer(t)
      BY <1>2, <1>5 DEF Cutter!PicturesSeparated, Cutter!InOneBuffer
    <2>1. ~Cutter!CutAt(p) /\ done \notin Cutter!Before(bytes.bytes, p)
      BY <1>2, <1>10 DEF Cutter!CutAt
    <2> DEFINE C == {c \in cuts \cup {0} : c <= p.at}
    <2>2. Cutter!FrameOf(p)' = Cutter!Max(C) /\ Cutter!FrameOf(p) = Cutter!Max(C)
      <3>1. ~(copied <= p.at)
        BY <1>4
      <3>2. {c \in cuts' \cup {0} : c <= p.at} = C
        BY <1>2, <3>1
      <3>3. Cutter!FrameOf(p) = Cutter!Max(C)
        BY DEF Cutter!FrameOf
      <3>4. Cutter!FrameOf(p)' = Cutter!Max({c \in cuts' \cup {0} : c <= p.at})
        BY DEF Cutter!FrameOf
      <3> QED BY <3>2, <3>3, <3>4
    <2>3. CASE p.last <= done
      BY <1>1, <2>1, <2>2, <2>3 DEF Cutter!PicturesSeparated
    <2>4. CASE ~(p.last <= done)
      <3>1. done <= p.at
        <4>1. ASSUME p.at < done PROVE FALSE
          <5>1. done \in cuts /\ done # Len(bytes.bytes)
            BY <1>4, <1>10, <2>4, <4>1
          <5>2. PICK q \in Cutter!Starts : done \in Cutter!Before(bytes.bytes, q)
            BY <1>1, <5>1 DEF Cutter!CutsAtPictures
          <5> QED BY <1>1, <1>4, <2>4, <4>1, <5>2, CodesApart DEF CutTypes, Cutter!Starts
        <4> QED BY <1>4, <4>1
      <3>2. /\ \A e \in ends : ~(done < e /\ e <= p.at)
            /\ \A t \in Cutter!Openings : (done <= t.at /\ t.at < p.at) => ~Cutter!InOneBuffer(t)
        BY <1>1, <2>1, <3>1 DEF CutThisFrame
      <3>3. Cutter!Max(C) = done
        <4>1. done \in C /\ C \in SUBSET (0 .. done)
          <5>1. done \in C
            BY <1>10, <3>1
          <5>2. \A c \in cuts \cup {0} : c \in 0 .. done
            BY <1>4, <1>10
          <5> QED BY <5>1, <5>2
        <4> HIDE DEF C
        <4>2. Cutter!Max(C) \in 0 .. done /\ done <= Cutter!Max(C)
          BY <1>4, <4>1, MaxIsGreatest
        <4> QED BY <1>4, <4>2
      <3> QED BY <2>2, <3>2, <3>3
    <2> QED BY <2>3, <2>4
  <1> QED BY <1>6, <1>7, <1>8, <1>9, <1>11, <1>12, <1>13, <1>14, <1>15 DEF CutterInv

\* What the next part of a buffer becomes: to is where the bytes given to the codec end.
LEMMA GatherSound ==
  ASSUME CutterInv, cutPc = "input", buffer # Cutter!NoBuffer,
         bytes' = bytes, marked' = marked, ends' = ends, done' = done, began' = began,
         cuts' = cuts, ended' = ended,
         NEW to \in Nat, copied <= to, to <= buffer.to, copied' = to,
         buffer' = (IF to = buffer.to THEN Cutter!NoBuffer ELSE buffer),
         cutPc' \in {"input", "frame"}, inFlags' \in FlagsType, useFlag' \in BOOLEAN,
         saveEos' \in BOOLEAN,
         useFlag' => useFlag /\ cutPc' = "frame",
         inFlags'.eof => inFlags.eof \/ buffer.flags.eof,
         cutPc' = "input" => to = buffer.to,
         cutPc' = "frame" => \/ to = Len(bytes.bytes)
                             \/ \E p \in Cutter!Starts : to \in Cutter!Before(bytes.bytes, p),
         \A p \in Cutter!Starts : copied <= p.at /\ p.last <= to =>
            /\ done = copied
            /\ \A t \in Cutter!Openings : ~(copied <= t.at /\ t.at < p.at),
         ended \/ saveEos' \/ inFlags'.eos => buffer.flags.eos,
         buffer.flags.eos /\ to = buffer.to => cutPc' = "frame" /\ (inFlags'.eos \/ saveEos')
  PROVE  CutterInv'
  <1> USE DEF Cutter!Bytes
  <1>1. /\ CutTypes /\ CutReading /\ CutGathering /\ CutMarking /\ CutPlaces /\ CutThisFrame
        /\ Cutter!CutsAtPictures /\ Cutter!PicturesSeparated
    BY DEF CutterInv
  <1>2. /\ Len(bytes.bytes) \in Nat /\ copied \in Nat /\ done \in Nat /\ done <= copied
        /\ copied <= Len(bytes.bytes) /\ \A e \in ends : e \in Nat
        /\ buffer.to \in Nat /\ buffer.to <= Len(bytes.bytes)
        /\ \A p \in Cutter!Starts : /\ p.at \in Nat /\ p.last \in Nat /\ p.at < p.last
                                    /\ p.last <= Len(bytes.bytes)
    BY <1>1, CutNumbers
  <1>3. Cutter!Starts' = Cutter!Starts /\ Cutter!Openings' = Cutter!Openings
    BY CutKept
  <1>4. /\ Cutter!NoBuffer = [to |-> 0, flags |-> Cutter!NoFlags]
        /\ Cutter!NoFlags \in FlagsType /\ ~Cutter!NoFlags.eos /\ ~Cutter!NoFlags.eof
        /\ Cutter!NoBuffer.flags = Cutter!NoFlags
    BY DEF Cutter!NoBuffer, Cutter!NoFlags, FlagsType
  <1>5. CutTypes'
    <2>1. buffer' \in [to : 0 .. Len(bytes.bytes), flags : FlagsType]
      <3>1. 0 \in 0 .. Len(bytes.bytes)
        BY <1>2
      <3>2. Cutter!NoBuffer \in [to : 0 .. Len(bytes.bytes), flags : FlagsType]
        BY <1>4, <3>1
      <3>3. buffer \in [to : 0 .. Len(bytes.bytes), flags : FlagsType]
        BY <1>1 DEF CutTypes
      <3> QED BY <3>2, <3>3
    <2>2. copied' \in 0 .. Len(bytes.bytes) /\ done' \in 0 .. copied'
      BY <1>2
    <2> QED BY <1>1, <2>1, <2>2 DEF CutTypes
  <1>6. CutReading'
    <2>1. ASSUME NEW e \in ends, ~(e <= to) PROVE to # buffer.to /\ e = buffer.to
      BY <1>1, <1>2, <2>1 DEF CutReading
    <2>2. buffer.to \in ends /\ (buffer.flags.eos => buffer.to = Len(bytes.bytes))
      BY <1>1 DEF CutReading
    <2>3. CASE to = buffer.to
      <3>1. buffer' = Cutter!NoBuffer /\ ~buffer'.flags.eos
        BY <1>4, <2>3
      <3> QED BY <2>1, <2>3, <3>1 DEF CutReading
    <2>4. CASE to # buffer.to
      <3>1. buffer' = buffer
        BY <2>4
      <3> QED BY <2>1, <2>2, <3>1 DEF CutReading
    <2> QED BY <2>3, <2>4
  <1>7. CutGathering'
    <2>1. buffer.to \in ends
      BY <1>1 DEF CutReading
    <2> QED BY <2>1 DEF CutGathering
  <1>8. CutMarking'
    <2>1. useFlag' \/ inFlags'.eof \/ buffer'.flags.eof => marked
      BY <1>1, <1>4 DEF CutMarking
    <2>2. ASSUME marked, buffer' # Cutter!NoBuffer
          PROVE  /\ buffer' = buffer /\ buffer.to \in bytes.marks \cup {Len(bytes.bytes)}
                 /\ \A m \in bytes.marks : ~(to < m /\ m < buffer.to)
      <3>1. \A m \in bytes.marks : m \in Nat
        BY <1>1 DEF CutTypes, Cutter!WellFormed
      <3>2. /\ buffer.to \in bytes.marks \cup {Len(bytes.bytes)}
            /\ \A m \in bytes.marks : ~(copied < m /\ m < buffer.to)
        BY <1>1, <2>2 DEF CutMarking
      <3> QED BY <1>2, <2>2, <3>1, <3>2
    <2> QED BY <2>1, <2>2 DEF CutMarking
  <1>9. CutPlaces'
    BY <1>1, <1>3 DEF CutPlaces
  <1>10. \A p : Cutter!InOneBuffer(p)' = Cutter!InOneBuffer(p)
    BY DEF Cutter!InOneBuffer
  <1>11. CutThisFrame'
    <2> SUFFICES ASSUME NEW p \in Cutter!Starts, done <= p.at, p.last <= to,
                        Cutter!InOneBuffer(p), done \notin Cutter!Before(bytes.bytes, p)
                 PROVE  /\ \A e \in ends : ~(done < e /\ e <= p.at)
                        /\ \A t \in Cutter!Openings :
                             (done <= t.at /\ t.at < p.at) => ~Cutter!InOneBuffer(t)
      BY <1>3, <1>10 DEF CutThisFrame
    <2>1. CASE p.last <= copied
      BY <1>1, <2>1 DEF CutThisFrame
    <2>2. CASE ~(p.last <= copied) /\ p.at < copied
      <3>1. copied \in ends
        BY <1>1, <1>2, <2>2 DEF CutGathering
      <3> QED BY <1>2, <2>2, <3>1 DEF Cutter!InOneBuffer
    <2>3. CASE copied <= p.at
      <3>1. /\ done = copied
            /\ \A t \in Cutter!Openings : ~(copied <= t.at /\ t.at < p.at)
        BY <2>3
      <3>2. \A e \in ends : ~(done < e /\ e <= p.at)
        BY <1>1, <1>2, <3>1 DEF CutReading
      <3> QED BY <3>1, <3>2
    <2> QED BY <1>2, <2>1, <2>2, <2>3
  <1>12. CutEnding'
    <2> SUFFICES ASSUME ended \/ saveEos' \/ inFlags'.eos
                 PROVE  IF buffer' # Cutter!NoBuffer THEN buffer'.flags.eos
                        ELSE /\ to = Len(bytes.bytes)
                             /\ cutPc' = "frame" => inFlags'.eos \/ saveEos'
                             /\ cutPc' = "input" => ended /\ done = to
      BY DEF CutEnding
    <2>1. buffer.flags.eos /\ buffer.to = Len(bytes.bytes)
      BY <1>1 DEF CutReading
    <2>2. CASE to = buffer.to
      BY <2>1, <2>2
    <2>3. CASE to # buffer.to
      BY <2>1, <2>3
    <2> QED BY <2>2, <2>3
  <1>13. Cutter!CutsAtPictures'
    BY <1>1, <1>3 DEF Cutter!CutsAtPictures
  <1>14. Cutter!PicturesSeparated'
    <2>1. \A p : Cutter!FrameOf(p)' = Cutter!FrameOf(p) /\ Cutter!CutAt(p)' = Cutter!CutAt(p)
      BY DEF Cutter!FrameOf, Cutter!CutAt
    <2> QED BY <1>1, <1>3, <1>10, <2>1 DEF Cutter!PicturesSeparated
  <1> QED BY <1>5, <1>6, <1>7, <1>8, <1>9, <1>11, <1>12, <1>13, <1>14 DEF CutterInv

LEMMA PreprocessSound == CutterInv /\ Cutter!Preprocess => CutterInv'
  <1> SUFFICES ASSUME CutterInv, Cutter!Preprocess PROVE CutterInv'
    OBVIOUS
  <1> USE DEF Cutter!Bytes
  <1>1. /\ CutTypes /\ CutReading /\ CutGathering /\ CutMarking /\ CutEnding
    BY DEF CutterInv
  <1>2. /\ Len(bytes.bytes) \in Nat /\ copied \in Nat /\ done \in Nat /\ done <= copied
        /\ copied <= Len(bytes.bytes) /\ buffer.to \in Nat /\ buffer.to <= Len(bytes.bytes)
        /\ StartsAt(bytes)
        /\ \A p \in Cutter!Starts : /\ p.at \in Nat /\ p.last \in Nat /\ p.at < p.last
                                    /\ p.last <= Len(bytes.bytes)
    BY <1>1, CutNumbers
  <1> DEFINE rest == SubSeq(bytes.bytes, copied + 1, buffer.to)
             own == buffer.flags
             whole == useFlag /\ ~own.config
             eos == saveEos \/ own.eos
             f == IF Cutter!FrameBegan THEN inFlags ELSE own
             CopySize(cut) == IF cut.eof THEN cut.size ELSE Len(rest)
             After(cut) == IF whole THEN Cutter!MarkedEnd(eos, f)
                           ELSE Cutter!SavedEnd(cut.size, rest, cut.eof, eos, own, f,
                                                copied + CopySize(cut) - done)
  <1>3. /\ cutPc = "input" /\ buffer # Cutter!NoBuffer
        /\ bytes' = bytes /\ marked' = marked /\ ends' = ends /\ done' = done /\ began' = began
        /\ cuts' = cuts /\ ended' = ended
    BY DEF Cutter!Preprocess
  <1>4. PICK cut \in IF whole THEN {[eof |-> TRUE, size |-> Len(rest)]}
                     ELSE Cutter!sec_checkInputFrame(rest, Cutter!FrameBegan) :
          /\ copied' = copied + CopySize(cut)
          /\ inFlags' = After(cut).flags /\ saveEos' = After(cut).save /\ useFlag' = whole
          /\ cutPc' = IF After(cut).eof THEN "frame" ELSE "input"
          /\ buffer' = IF CopySize(cut) = Len(rest) THEN Cutter!NoBuffer ELSE buffer
    BY DEF Cutter!Preprocess
  <1>5. copied <= buffer.to /\ (own.eos => buffer.to = Len(bytes.bytes))
    BY <1>1, <1>3 DEF CutReading
  <1>6. Len(rest) = buffer.to - copied
    <2>1. bytes.bytes \in Seq(Cutter!ByteClasses)
      BY <1>1 DEF CutTypes, Cutter!WellFormed
    <2>2. copied \in 0 .. Len(bytes.bytes) /\ buffer.to \in copied .. Len(bytes.bytes)
      BY <1>2, <1>5
    <2> QED BY <2>1, <2>2, RestBytes
  <1>7. /\ ended \/ saveEos => own.eos
        /\ eos <=> own.eos
    BY <1>1, <1>3 DEF CutEnding
  <1>8. /\ own \in FlagsType /\ inFlags \in FlagsType /\ f \in FlagsType
        /\ f.eof => inFlags.eof \/ own.eof
        /\ useFlag \in BOOLEAN /\ saveEos \in BOOLEAN /\ own.eos \in BOOLEAN
        /\ Cutter!FrameBegan \in BOOLEAN
    BY <1>1 DEF CutTypes, FlagsType, Cutter!FrameBegan
  <1> DEFINE given == After(cut)
  <1>9. /\ whole => cut \in {[eof |-> TRUE, size |-> Len(rest)]}
        /\ ~whole => cut \in Cutter!sec_checkInputFrame(rest, Cutter!FrameBegan)
    BY <1>4
  <1>10. /\ inFlags' = given.flags /\ saveEos' = given.save /\ useFlag' = whole
         /\ cutPc' = IF given.eof THEN "frame" ELSE "input"
    BY <1>4
  <1>11. CASE whole
    <2>1. copied' = buffer.to /\ CopySize(cut) = Len(rest) /\ buffer' = Cutter!NoBuffer
      <3>1. cut.eof /\ cut.size = Len(rest)
        <4> HIDE DEF rest, whole
        <4> QED BY <1>11, <1>9
      <3>2. CopySize(cut) = Len(rest)
        BY <3>1
      <3> HIDE DEF rest, CopySize
      <3> QED BY <1>2, <1>4, <1>5, <1>6, <3>2
    <2>2. /\ inFlags' = [f EXCEPT !.eos = eos] /\ saveEos' = FALSE /\ cutPc' = "frame"
          /\ useFlag' = TRUE
      <3>1. given = [flags |-> [f EXCEPT !.eos = eos], eof |-> TRUE, save |-> FALSE]
        BY <1>11 DEF Cutter!MarkedEnd
      <3> HIDE DEF given, f, eos, whole
      <3> QED BY <1>11, <1>10, <3>1
    <2> HIDE DEF f
    <2>3. inFlags' \in FlagsType /\ inFlags'.eos = eos /\ inFlags'.eof = f.eof
      BY <1>8, <2>2 DEF FlagsType
    <2>4. done = copied
      BY <1>1, <1>2, <1>3, <1>11 DEF CutGathering
    <2>5. /\ buffer.to \in bytes.marks \cup {Len(bytes.bytes)}
          /\ \A m \in bytes.marks : ~(copied < m /\ m < buffer.to)
      BY <1>1, <1>3, <1>11 DEF CutMarking
    <2>6. \/ buffer.to = Len(bytes.bytes)
          \/ \E p \in Cutter!Starts : buffer.to \in Cutter!Before(bytes.bytes, p)
      BY <1>1, <2>5 DEF CutTypes, Cutter!WellFormed, Cutter!Starts
    <2>7. ASSUME NEW p \in Cutter!Starts, copied <= p.at, p.last <= buffer.to,
                 NEW t \in Cutter!Openings, copied <= t.at, t.at < p.at
          PROVE  FALSE
      <3>1. PICK m \in bytes.marks : t.at < m /\ m <= p.at
        BY <1>1, <2>7 DEF CutTypes, Cutter!WellFormed, Cutter!Starts, Cutter!Openings
      <3>2. m \in Nat
        BY <1>1 DEF CutTypes, Cutter!WellFormed
      <3>3. t.at \in Nat
        BY <1>1, OpeningsNumbered DEF CutTypes, Cutter!Openings
      <3> QED BY <1>2, <2>5, <2>7, <3>1, <3>2, <3>3
    <2> DEFINE to == buffer.to
    <2>8. /\ to \in Nat /\ copied <= to /\ to <= buffer.to /\ copied' = to
          /\ buffer' = (IF to = buffer.to THEN Cutter!NoBuffer ELSE buffer)
          /\ to = Len(bytes.bytes) \/ \E p \in Cutter!Starts : to \in Cutter!Before(bytes.bytes, p)
          /\ cutPc' = "frame" /\ useFlag /\ saveEos' = FALSE /\ useFlag' = TRUE
      BY <1>2, <1>5, <1>11, <2>1, <2>2, <2>6
    <2>9. \A p \in Cutter!Starts : copied <= p.at /\ p.last <= to =>
            /\ done = copied
            /\ \A t \in Cutter!Openings : ~(copied <= t.at /\ t.at < p.at)
      BY <2>4, <2>7
    <2>10. /\ ended \/ saveEos' \/ inFlags'.eos => buffer.flags.eos
           /\ buffer.flags.eos => inFlags'.eos
           /\ inFlags'.eof => inFlags.eof \/ buffer.flags.eof
           /\ inFlags' \in FlagsType
      BY <1>7, <1>8, <2>2, <2>3
    <2> HIDE DEF to, eos, whole, rest, CopySize, After, given
    <2> QED BY <1>3, <2>8, <2>9, <2>10, GatherSound
  <1>12. CASE ~whole
    <2>1. Searched(bytes, copied, buffer.to, Cutter!FrameBegan, cut)
      <3>1. copied \in 0 .. Len(bytes.bytes) /\ buffer.to \in copied .. Len(bytes.bytes)
        BY <1>2, <1>5
      <3>2. cut \in Cutter!sec_checkInputFrame(rest, Cutter!FrameBegan)
        BY <1>4, <1>12
      <3> QED BY <1>1, <1>8, <3>1, <3>2, SearchSound DEF CutTypes
    <2>2. /\ cut \in [eof : BOOLEAN, size : 0 .. buffer.to - copied]
          /\ cut.eof => cut.size < buffer.to - copied
          /\ cut.eof => \E p \in Cutter!Starts : copied + cut.size \in Cutter!Before(bytes.bytes, p)
          /\ ~cut.eof /\ buffer.to = Len(bytes.bytes) => cut.size = buffer.to - copied
          /\ \A p \in Cutter!Starts :
               (copied <= p.at /\ p.last <= (IF cut.eof THEN copied + cut.size ELSE buffer.to)) =>
                 ~Cutter!FrameBegan /\ \A t \in Cutter!Openings : ~(copied <= t.at /\ t.at < p.at)
      BY <2>1 DEF Searched, Cutter!Starts, Cutter!Openings
    <2>3. useFlag' = FALSE
      BY <1>4, <1>12
    <2> DEFINE to == copied + CopySize(cut)
    <2>4. /\ to \in Nat /\ copied <= to /\ to <= buffer.to /\ copied' = to
          /\ cut.eof => to = copied + cut.size /\ to # buffer.to
          /\ ~cut.eof => to = buffer.to
          /\ buffer' = (IF to = buffer.to THEN Cutter!NoBuffer ELSE buffer)
      <3> DEFINE n == CopySize(cut)
      <3>1. IF cut.eof THEN n = cut.size ELSE n = buffer.to - copied
        BY <1>6
      <3>2. /\ n \in Nat /\ n <= buffer.to - copied
            /\ cut.eof => n < buffer.to - copied
        BY <1>2, <1>5, <2>2, <3>1
      <3>3. /\ copied' = copied + n
            /\ buffer' = IF n = buffer.to - copied THEN Cutter!NoBuffer ELSE buffer
        BY <1>4, <1>6
      <3> HIDE DEF n
      <3>4. /\ copied + n \in Nat /\ copied <= copied + n /\ copied + n <= buffer.to
            /\ n = buffer.to - copied <=> copied + n = buffer.to
        BY <1>2, <1>5, <3>2
      <3>5. /\ cut.eof => copied + n = copied + cut.size /\ copied + n # buffer.to
            /\ ~cut.eof => copied + n = buffer.to
        BY <1>2, <1>5, <3>1, <3>2
      <3> QED BY <3>3, <3>4, <3>5 DEF n
    <2>5. \A p \in Cutter!Starts : copied <= p.at /\ p.last <= to =>
            /\ done = copied
            /\ \A t \in Cutter!Openings : ~(copied <= t.at /\ t.at < p.at)
      <3> HIDE DEF to
      <3>1. ~Cutter!FrameBegan => done = copied
        BY <1>2 DEF Cutter!FrameBegan
      <3> QED BY <2>2, <2>4, <3>1
    <2>6. CASE cut.eof
      <3>1. ~(cut.size = Len(rest) /\ eos)
        BY <1>2, <1>5, <1>6, <2>2, <2>6
      <3>2. given = [flags |-> [own EXCEPT !.eos = FALSE], eof |-> cut.eof, save |-> eos]
        BY <1>12, <3>1 DEF Cutter!SavedEnd
      <3>3. inFlags' = [own EXCEPT !.eos = FALSE] /\ saveEos' = eos /\ cutPc' = "frame"
        <4> HIDE DEF given, f, own, eos
        <4> QED BY <1>10, <2>6, <3>2
      <3>4. inFlags' \in FlagsType /\ ~inFlags'.eos /\ inFlags'.eof = own.eof
        BY <1>8, <3>3 DEF FlagsType
      <3>5. to = copied + cut.size /\ to # buffer.to
        BY <2>4, <2>6
      <3>6. \E p \in Cutter!Starts : to \in Cutter!Before(bytes.bytes, p)
        BY <2>2, <2>6, <3>5
      <3> HIDE DEF to, After, given
      <3> QED BY <1>3, <1>7, <1>8, <2>3, <2>4, <2>5, <3>3, <3>4, <3>5, <3>6, GatherSound
    <2>7. CASE ~cut.eof /\ own.eos
      <3>1. cut.size = Len(rest) /\ eos /\ to = Len(bytes.bytes) /\ to = buffer.to
        BY <1>5, <1>6, <2>2, <2>4, <2>7
      <3> DEFINE last == f.config \/ copied + CopySize(cut) - done = 0
      <3>2. given = [flags |-> [f EXCEPT !.eos = last], eof |-> TRUE, save |-> ~last]
        BY <1>12, <2>7, <3>1 DEF Cutter!SavedEnd
      <3>3. inFlags' = [f EXCEPT !.eos = last] /\ saveEos' = ~last /\ cutPc' = "frame"
        <4> HIDE DEF given, f, own, eos, last
        <4> QED BY <1>10, <3>2
      <3>4. last \in BOOLEAN
        BY <1>8 DEF FlagsType
      <3> HIDE DEF last, f
      <3>5. inFlags' \in FlagsType /\ inFlags'.eos = last /\ inFlags'.eof = f.eof
        BY <1>8, <3>3, <3>4 DEF FlagsType
      <3> HIDE DEF to, After, given
      <3> QED BY <1>3, <1>7, <1>8, <2>3, <2>4, <2>5, <2>7, <3>1, <3>3, <3>4, <3>5, GatherSound
    <2>8. CASE ~cut.eof /\ ~own.eos
      <3>1. given = [flags |-> [own EXCEPT !.eos = FALSE], eof |-> FALSE, save |-> FALSE]
        BY <1>7, <1>12, <2>2, <2>8 DEF Cutter!SavedEnd
      <3>2. inFlags' = [own EXCEPT !.eos = FALSE] /\ saveEos' = FALSE /\ cutPc' = "input"
        <4> HIDE DEF given, f, own, eos
        <4> QED BY <1>10, <3>1
      <3>3. inFlags' \in FlagsType /\ ~inFlags'.eos /\ inFlags'.eof = own.eof
        BY <1>8, <3>2 DEF FlagsType
      <3>4. to = buffer.to
        BY <2>4, <2>8
      <3> HIDE DEF to, After, given
      <3> QED BY <1>3, <1>7, <1>8, <2>3, <2>4, <2>5, <2>8, <3>2, <3>3, <3>4, GatherSound
    <2> QED BY <1>8, <2>6, <2>7, <2>8
  <1> QED BY <1>11, <1>12

LEMMA CutStill == CutterInv /\ UNCHANGED Cutter!vars => CutterInv'
  <1> SUFFICES ASSUME CutterInv, UNCHANGED Cutter!vars PROVE CutterInv'
    OBVIOUS
  <1>1. /\ bytes' = bytes /\ marked' = marked /\ ends' = ends /\ buffer' = buffer
        /\ copied' = copied /\ done' = done /\ inFlags' = inFlags /\ useFlag' = useFlag
        /\ saveEos' = saveEos /\ began' = began /\ cuts' = cuts /\ ended' = ended /\ cutPc' = cutPc
    BY DEF Cutter!vars
  <1>2. Cutter!Starts' = Cutter!Starts /\ Cutter!Openings' = Cutter!Openings
        /\ Cutter!Bytes' = Cutter!Bytes
    BY <1>1, CutKept
  <1>3. CutTypes' /\ CutReading' /\ CutGathering' /\ CutMarking' /\ CutEnding'
    BY <1>1 DEF CutterInv, CutTypes, CutReading, CutGathering, CutMarking, CutEnding
  <1>4. \A p : /\ Cutter!InOneBuffer(p)' = Cutter!InOneBuffer(p)
               /\ Cutter!FrameOf(p)' = Cutter!FrameOf(p) /\ Cutter!CutAt(p)' = Cutter!CutAt(p)
    BY <1>1, <1>2 DEF Cutter!InOneBuffer, Cutter!FrameOf, Cutter!CutAt
  <1>5. CutPlaces' /\ CutThisFrame' /\ Cutter!CutsAtPictures'
    BY <1>1, <1>2, <1>4 DEF CutterInv, CutPlaces, CutThisFrame, Cutter!CutsAtPictures
  <1>6. Cutter!PicturesSeparated'
    BY <1>1, <1>2, <1>4 DEF CutterInv, Cutter!PicturesSeparated
  <1> QED BY <1>3, <1>5, <1>6 DEF CutterInv

LEMMA CutNext == CutterInv /\ [Cutter!Next]_(Cutter!vars) => CutterInv'
  BY FillSound, PreprocessSound, DecodeSound, CutStill DEF Cutter!Next

LEMMA CutInvImplies == CutterInv => FramesCutRight
  <1> SUFFICES ASSUME CutterInv PROVE Cutter!WholeStreamDecoded
    BY DEF CutterInv, FramesCutRight
  <1> QED BY DEF CutterInv, CutEnding, Cutter!WholeStreamDecoded, Cutter!Bytes

(***************************************************************************)
(* The theorems                                                            *)
(***************************************************************************)

\* The buffer process thread collects from the codec and submits to it only while the
\* decode thread (the encode thread) is not in it, and what the codec reads is the frame
\* that was submitted: as long as no decode has failed, and until the caller of the encoder
\* has seen an encode fail (SEC_MFC_H264_Decode, SEC_MFC_Mpeg4_Decode, SEC_MFC_H264_Encode,
\* SEC_MFC_Mpeg4_Encode and the two threads).
THEOREM CodecsAlone == Spec /\ Encoder!Spec => []CodecsLeftAlone
  <1>1. Spec => [](TypeOK /\ DecoderQuiet /\ BufferInFlight)
    BY DecInitInv, DecNextInv, DecInvImplies, PTL DEF Spec
  <1>2. Encoder!Spec => [](Encoder!TypeOK /\ Encoder!EncoderQuiet /\ Encoder!EncodesWhatWasSent)
    BY EncInitInv, EncNextInv, EncInvImplies, PTL DEF Encoder!Spec
  <1>3. TypeOK /\ DecoderQuiet /\ BufferInFlight
        /\ Encoder!TypeOK /\ Encoder!EncoderQuiet /\ Encoder!EncodesWhatWasSent => CodecsLeftAlone
    BY DEF CodecsLeftAlone
  <1> QED BY <1>1, <1>2, <1>3, PTL

\* As long as no decode has failed, and in a stream that was not flushed before the codec
\* showed its frames, every picture goes out with the time stamp the client gave to its
\* frame: indexTimestamp, timeStamp[] and the frame tags of SEC_MFC_H264_Decode_Nonblock and
\* SEC_MFC_Mpeg4_Decode_Nonblock, with checkTimeStamp after a flush.
THEOREM PicturesCarryTheirStamp == Spec => []StampOfItsFrame
  <1>1. StampInv => StampOfItsFrame
    BY DEF StampInv, DecStamped
  <1> QED BY <1>1, StampInit, StampNext, PTL DEF Spec

\* As long as no decode has failed, and outside thumbnail mode, the frames go out once, in
\* the order in which they were sent and without a gap, from the first one after the header
\* or after a flush that found the codec showing frames; and the end of the stream, when it
\* comes in a buffer of its own, goes out after all of them: the pipeline and the drain of
\* SEC_MFC_H264_Decode_Nonblock and SEC_MFC_Mpeg4_Decode_Nonblock, and the check of the
\* stamps in SEC_Postprocess_OutputData.
THEOREM FramesComeInOrder == Spec => []DecodedInOrder
  <1>1. OrderInv => DecodedInOrder
    BY DEF OrderInv, DecOrdered, DecodedInOrder
  <1> QED BY <1>1, OrderInit, OrderNext, PTL DEF Spec

\* What the client of an encoder gets after a flush is the next frame each time, with its
\* own stamp, and none from before the flush; and in the first session the header first.
THEOREM StreamsComeInOrder == Encoder!Spec => []StreamsInOrder
  <1>1. EncInv => StreamsInOrder
    BY EncInvImplies DEF StreamsInOrder
  <1> QED BY <1>1, EncInitInv, EncNextInv, PTL DEF Encoder!Spec

\* However the client fills its buffers with a stream whose marks are where its pictures
\* begin, every frame handed to the codec ends before a picture or with the stream; two
\* pictures share one only if the code of one of them is cut in two by the end of a buffer;
\* and the codec gets every byte and the end of the stream: SEC_Preprocessor_InputData with
\* Check_H264_Frame, Check_Mpeg4_Frame and Check_H263_Frame.
THEOREM FramesAreCutRight == Cutter!Spec => []FramesCutRight
  BY CutInit, CutNext, CutInvImplies, PTL DEF Cutter!Spec
=============================================================================
