------------------------------ MODULE MC_Codecs ------------------------------
(* A decoder, an encoder and the way a decoder cuts its input into frames, in   *)
(* one run: a behaviour is about one of them; the others stay as they were.     *)
EXTENDS DecodePipeline

CONSTANTS Sessions, EncodeErrors,              \* of EncodePipeline
          Streams, MaxBuffers                  \* of StreamCutter

\* Pictures of each codec: MPEG-4 after a header, H.263, H.264 with a parameter set, a
\* picture of two slices, both lengths of start code and a delimiter.
Vop == <<"00", "00", "01", "B6", "xx">>
Psc == <<"00", "00", "80", "02", "xx">>
MCStreams ==
  {[codec |-> "mpeg4", bytes |-> <<"00", "00", "01", "xx">> \o Vop \o Vop \o Vop, marks |-> {4, 9, 14}],
   [codec |-> "h263", bytes |-> Psc \o Psc \o Psc, marks |-> {5, 10}],
   [codec |-> "h264", marks |-> {5, 16, 21}, bytes |->
      <<"00", "00", "00", "01", "hd", "00", "00", "00", "01", "sl", "ff", "00", "00", "01", "sl", "xx",
        "00", "00", "01", "01", "ff", "00", "00", "00", "01", "au", "00", "00", "01", "sl", "ff">>]}

VARIABLES
  lent, enc, encRing, encBuf, encStart, encEnd, encWorker, encMfc, encPc, encIn, encOut, encRe,
  encCheck, encFlushing, encClient, encErrors, encFlushes, session,      \* of EncodePipeline
  bytes, marked, ends, buffer, copied, done, inFlags, useFlag, saveEos, began, cuts, ended,
  cutPc,                                       \* of StreamCutter
  about                                        \* "decoder", "encoder" or "cutter"

Encoder == INSTANCE EncodePipeline WITH
  ring <- encRing, buf <- encBuf, start <- encStart, end <- encEnd, worker <- encWorker,
  mfc <- encMfc, pc <- encPc, in <- encIn, out <- encOut, re <- encRe, check <- encCheck,
  flushing <- encFlushing, client <- encClient, errors <- encErrors, flushes <- encFlushes,
  MaxErrors <- EncodeErrors

Cutter == INSTANCE StreamCutter WITH
  stream <- bytes, flags <- inFlags, configured <- began, pc <- cutPc

ASSUME StreamsAssumption == \A s \in Streams : Cutter!WellFormed(s)

cutterVars == <<bytes, marked, ends, buffer, copied, done, inFlags, useFlag, saveEos, began, cuts,
                ended, cutPc>>
encoderVars ==
  <<lent, enc, encRing, encBuf, encStart, encEnd, encWorker, encMfc, encPc, encIn, encOut, encRe,
    encCheck, encFlushing, encClient, encErrors, encFlushes, session>>
allVars == <<vars, encoderVars, cutterVars, about>>

MCInit ==
  /\ Init /\ Encoder!Init /\ Cutter!Init
  /\ \/ about = "decoder" /\ ~lent
     \/ about \in {"encoder", "cutter"} /\ codec = "h264" /\ ~thumb
  /\ about = "cutter" => ~lent
  /\ about # "cutter" => bytes.codec = "h263" /\ ~marked

Decoding(A) == about = "decoder" /\ A /\ UNCHANGED <<encoderVars, cutterVars, about>>
Encoding(A) == about = "encoder" /\ A /\ UNCHANGED <<vars, cutterVars, about>>
Cutting(A) == about = "cutter" /\ A /\ UNCHANGED <<vars, encoderVars, about>>

MCNext == Decoding(Next) \/ Encoding(Encoder!Next) \/ Cutting(Cutter!Next)

\* the fairness of the one or of the other
MCSpec ==
  /\ MCInit /\ [][MCNext]_allVars
  /\ WF_allVars(Decoding(Call) \/ Encoding(Encoder!Call))
  /\ WF_allVars(Decoding(DecodeThread) \/ Encoding(Encoder!EncodeThread))
  /\ WF_allVars(Decoding(FlushResets) \/ Encoding(Encoder!FlushResets))
  /\ WF_allVars(Decoding(Joined) \/ Encoding(Encoder!Joined))
  /\ WF_allVars(Encoding(Encoder!FlushOutput))

\* A codec is left alone while it works, and reads what was submitted.
CodecsLeftAlone ==
  /\ TypeOK /\ DecoderQuiet /\ BufferInFlight
  /\ Encoder!TypeOK /\ Encoder!EncoderQuiet /\ Encoder!EncodesWhatWasSent
\* Frames come out once, in order, without a gap, and the end of the stream after them.
DecodedInOrder == ShownInOrder /\ EosAfterAll
\* The client of an encoder gets the header, then every frame once and in order.
StreamsInOrder == Encoder!StreamsInOrder /\ Encoder!HeaderFirst
\* A stream is cut where its pictures begin, and all of it is decoded.
FramesCutRight == Cutter!CutsAtPictures /\ Cutter!PicturesSeparated /\ Cutter!WholeStreamDecoded
\* Every wait for a codec, every drain and every termination ends.
WaitsEnd ==
  TerminateReturns /\ WaitEnds /\ DrainEnds /\ Encoder!EncTerminateReturns /\ Encoder!EncWaitEnds
=============================================================================
