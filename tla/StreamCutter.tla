---------------------------- MODULE StreamCutter ----------------------------
(***************************************************************************)
(* How a video decoder finds the frames in a stream of bytes.  The client  *)
(* puts the stream into buffers as it likes; SEC_Preprocessor_InputData of *)
(* SEC_OMX_Vdec.c looks for the next picture in what is left of the buffer *)
(* with the function of the codec (Check_H264_Frame, Check_Mpeg4_Frame,    *)
(* Check_H263_Frame), gathers bytes until one is found and then has them   *)
(* decoded.  Once a decoded frame came from a buffer marked ENDOFFRAME     *)
(* every buffer is taken as one frame.                                     *)
(* Bytes are the ones the functions tell apart: "80" stands for 80 to 83,  *)
(* "02" for a byte whose two low bits are 10, "sl", "hd" and "au" for the  *)
(* types of a slice, a parameter set and a delimiter, "ff" for 80 and more.*)
(* Left out: FIMV1 streams, a frame larger than the input buffer, and a    *)
(* frame the codec refuses.                                                *)
(***************************************************************************)
EXTENDS Integers, Sequences, FiniteSetsExt

CONSTANTS Streams,     \* records of a codec, its bytes and the ends of its frames
          MaxBuffers   \* how many buffers a client fills with one unmarked stream

VARIABLES stream,     \* one of Streams
          marked,     \* the client marks each buffer as one frame
          ends,       \* where the buffers filled so far end
          buffer,     \* the one being read: secDataBuffer, or NoBuffer
          copied,     \* bytes copied to inputData so far
          done,       \* bytes handed to the codec so far
          flags,      \* nFlags of inputData
          useFlag,    \* bUseFlagEOF
          saveEos,    \* bSaveFlagEOS
          configured, \* bConfiguredMFC
          cuts,       \* where the frames handed to the codec end
          ended,      \* the codec was told of the end of the stream
          pc          \* "input", "frame"

vars == <<stream, marked, ends, buffer, copied, done, flags, useFlag, saveEos, configured, cuts,
          ended, pc>>

NoFlags == [config |-> FALSE, eof |-> FALSE, eos |-> FALSE]
NoBuffer == [to |-> 0, flags |-> NoFlags]
Bytes == stream.bytes

Init ==
  /\ stream \in Streams /\ marked \in BOOLEAN
  /\ ends = {} /\ buffer = NoBuffer /\ copied = 0 /\ done = 0 /\ flags = NoFlags
  /\ useFlag = FALSE /\ saveEos = FALSE /\ configured = FALSE
  /\ cuts = {} /\ ended = FALSE /\ pc = "input"

----------------------------------------------------------------------------
(* The next picture in the bytes b; began: some of the frame was gathered   *)

Found(b, starts) == IF starts = {} THEN [eof |-> FALSE, size |-> Len(b)]
                                   ELSE [eof |-> TRUE, size |-> Min(starts)]
AfterFirst(starts) == IF starts = {} THEN {} ELSE starts \ {Min(starts)}

\* A code of four bytes, by the number of bytes before it.
CodesIn(b, code) == {p \in 0 .. Len(b) - 4 : SubSeq(b, p + 1, p + 4) = code}

VopCode == <<"00", "00", "01", "B6">>
Check_Mpeg4_Frame(b, began) ==
  LET starts == CodesIn(b, VopCode)
  IN {Found(b, IF began THEN starts ELSE AfterFirst(starts))}

\* The byte after the code is read even when the buffer ends before it: old data.
PscCode == <<"00", "00", "80", "02">>
Check_H263_Frame(b, began) ==
  LET starts(old) == CodesIn(Append(b, old), PscCode)
  IN {Found(b, IF began THEN starts(old) ELSE AfterFirst(starts(old))) : old \in {"02", "xx"}}

\* A picture begins with a delimiter or with a slice whose first macroblock is 0.
Nals(b) == {n \in 4 .. Len(b) : SubSeq(b, n - 3, n - 1) = <<"00", "00", "01">>}
Slice == {"sl", "01"}
Opens(b) == {n \in Nals(b) : b[n] \in Slice \cup {"hd"}}
CodeBefore(b, n) == IF n > 4 /\ b[n - 4] = "00" THEN n - 5 ELSE n - 4
Check_H264_Frame(b, began) ==
  LET from == IF began THEN 0 ELSE Min(Opens(b) \cup {Len(b)})
      nals == {n \in Nals(b) : n > from}
      starts == {n \in nals : \/ b[n] = "au"
                              \/ b[n] \in Slice /\ n < Len(b) /\ b[n + 1] = "ff"}
      cutOff == Len(b) \in nals /\ b[Len(b)] \in Slice
  IN {IF starts # {} THEN [eof |-> TRUE, size |-> CodeBefore(b, Min(starts))]
      ELSE [eof |-> FALSE, size |-> IF cutOff THEN Len(b) - 1 ELSE Len(b)]}

sec_checkInputFrame(b, began) ==
  CASE stream.codec = "mpeg4" -> Check_Mpeg4_Frame(b, began)
    [] stream.codec = "h263" -> Check_H263_Frame(b, began)
    [] OTHER -> Check_H264_Frame(b, began)

----------------------------------------------------------------------------
(* The client fills the next buffer, the last one with the end of the stream *)

Fill ==
  /\ pc = "input" /\ buffer = NoBuffer /\ ~ended /\ ~saveEos
  /\ \E to \in copied .. Len(Bytes), eos \in BOOLEAN :
       /\ IF marked THEN to = Min({m \in stream.marks : m > copied} \cup {Len(Bytes)})
                    ELSE to = Len(Bytes) \/ Cardinality(ends) + 1 < MaxBuffers
       /\ eos => to = Len(Bytes)
       /\ to > copied \/ eos
       /\ buffer' = [to |-> to, flags |->
            [config |-> marked /\ copied = 0 /\ stream.codec # "h263", eof |-> marked, eos |-> eos]]
       /\ ends' = ends \cup {to}
  /\ UNCHANGED <<stream, marked, copied, done, flags, useFlag, saveEos, configured, cuts, ended, pc>>

FrameBegan_Never == FALSE        \* MUTANT: previousFrameEOF is always true
FrameBegan == copied > done

\* With marked buffers the end of the stream goes with the frame; else it is saved until
\* the codec has the last one.
MarkedEnd(eos, f) == [flags |-> [f EXCEPT !.eos = eos], eof |-> TRUE, save |-> FALSE]
SavedEnd(size, rest, eof, eos, own, f, gathered) ==
  IF size = Len(rest) /\ eos
  THEN IF own.eos
       THEN LET last == f.config \/ gathered = 0
            IN [flags |-> [f EXCEPT !.eos = last], eof |-> TRUE, save |-> ~last]
       ELSE [flags |-> f, eof |-> eof, save |-> TRUE]
  ELSE [flags |-> [own EXCEPT !.eos = FALSE], eof |-> eof, save |-> eos]

\* SEC_Preprocessor_InputData: what is left of the buffer, up to the next picture.
Preprocess ==
  /\ pc = "input" /\ buffer # NoBuffer
  /\ LET rest == SubSeq(Bytes, copied + 1, buffer.to)
         own == buffer.flags
         whole == useFlag /\ ~own.config
         eos == saveEos \/ own.eos
         f == IF FrameBegan THEN flags ELSE own
     IN \E cut \in IF whole THEN {[eof |-> TRUE, size |-> Len(rest)]}
                            ELSE sec_checkInputFrame(rest, FrameBegan) :
          LET copySize == IF cut.eof THEN cut.size ELSE Len(rest)
              end == IF whole THEN MarkedEnd(eos, f)
                     ELSE SavedEnd(cut.size, rest, cut.eof, eos, own, f, copied + copySize - done)
          IN /\ copied' = copied + copySize
             /\ flags' = end.flags /\ saveEos' = end.save /\ useFlag' = whole
             /\ pc' = IF end.eof THEN "frame" ELSE "input"
             /\ buffer' = IF copySize = Len(rest) THEN NoBuffer ELSE buffer
  /\ UNCHANGED <<stream, marked, ends, done, configured, cuts, ended>>

\* The decode call takes the frame.  The call that configures the codec does not look at
\* the mark, unless the stream has no header and its frame is decoded at once.
Decode ==
  /\ pc = "frame" /\ pc' = "input"
  /\ LET nothing == copied = done /\ flags.eos /\ ~configured
         decoded == configured \/ (stream.codec = "h263" /\ ~nothing)
     IN /\ configured' = (configured \/ ~nothing)
        /\ useFlag' = (useFlag \/ (decoded /\ flags.eof))
  /\ done' = copied /\ cuts' = IF copied > done THEN cuts \cup {copied} ELSE cuts
  /\ ended' = (ended \/ flags.eos \/ saveEos)
  /\ UNCHANGED <<stream, marked, ends, buffer, copied, flags, saveEos>>

Next == Fill \/ Preprocess \/ Decode
Spec == Init /\ [][Next]_vars

----------------------------------------------------------------------------
(* The pictures of the whole stream, wherever its buffers end: the bytes    *)
(* before the code of each and the last byte its discovery needs.           *)
StartsOf(s) ==
  CASE s.codec = "mpeg4" ->
         {[at |-> p, last |-> p + 4] : p \in CodesIn(s.bytes, VopCode)}
    [] s.codec = "h263" ->
         {[at |-> p, last |-> p + 4] : p \in CodesIn(s.bytes, PscCode)}
    [] OTHER ->
         {[at |-> n - 4, last |-> n] : n \in {n \in Nals(s.bytes) : s.bytes[n] = "au"}}
           \cup {[at |-> n - 4, last |-> n + 1] : n \in
                   {n \in Nals(s.bytes) \ {Len(s.bytes)} :
                      s.bytes[n] \in Slice /\ s.bytes[n + 1] = "ff"}}
OpeningsOf(s) ==
  IF s.codec = "h264" THEN {[at |-> n - 4, last |-> n] : n \in Opens(s.bytes)} ELSE StartsOf(s)
Starts == StartsOf(stream)
Openings == OpeningsOf(stream)
\* Where a frame may end before a picture: a zero before its code is of the code.
Before(b, s) == CodeBefore(b, s.at + 4) .. s.at

(* A stream the codecs are made for: in H.263 what looks like the start of a    *)
(* picture is one; H.264 does not end in the middle of a slice; and the marks    *)
(* are where pictures begin, one between an opening and each later picture.     *)
ByteClasses == {"00", "01", "02", "80", "B6", "sl", "hd", "au", "ff", "xx"}
WellFormed(s) ==
  /\ s.codec \in {"mpeg4", "h263", "h264"} /\ s.bytes \in Seq(ByteClasses) /\ s.marks \subseteq Nat
  /\ s.codec = "h263" => \A p \in 0 .. Len(s.bytes) - 3 :
       SubSeq(s.bytes, p + 1, p + 3) = <<"00", "00", "80">> =>
         p + 4 <= Len(s.bytes) /\ s.bytes[p + 4] = "02"
  /\ s.codec = "h264" => ~(Len(s.bytes) \in Nals(s.bytes) /\ s.bytes[Len(s.bytes)] \in Slice)
  /\ \A m \in s.marks : \E p \in StartsOf(s) : m \in Before(s.bytes, p)
  /\ \A p \in StartsOf(s), o \in OpeningsOf(s) :
       o.at < p.at => \E m \in s.marks : o.at < m /\ m <= p.at

InOneBuffer(s) == \A e \in ends: ~(s.at < e /\ e < s.last)
FrameOf(s) == Max({c \in cuts \cup {0} : c <= s.at})
CutAt(s) == \E c \in cuts \cup {0} : c \in Before(Bytes, s)

(* Every frame but the last ends where a picture begins.                        *)
CutsAtPictures ==
  \A c \in cuts \ {Len(Bytes)} : \E s \in Starts : c \in Before(Bytes, s)

(* A picture whose code lies in one buffer begins a frame of its own, unless it *)
(* is the first of the frame and the frame began in that very buffer: however   *)
(* the client fills its buffers, two pictures are merged only when the code of  *)
(* one of them is cut in two.                                                   *)
PicturesSeparated ==
  \A s \in Starts: (s.last <= done /\ InOneBuffer(s) /\ ~CutAt(s)) =>
    /\ \A e \in ends: ~(FrameOf(s) < e /\ e <= s.at)
    /\ \A t \in Openings: (FrameOf(s) <= t.at /\ t.at < s.at) => ~InOneBuffer(t)

(* When the last buffer is read the codec was given every byte of the stream    *)
(* and knows that it ended, wherever the end flag came.                         *)
WholeStreamDecoded ==
  (pc = "input" /\ buffer = NoBuffer /\ (ended \/ saveEos)) =>
    done = Len(Bytes) /\ copied = done /\ ended
=============================================================================
