-------------------------------- MODULE Edid --------------------------------
(* What libedid finds in the data of a sink: a base block and its extensions,  *)
(* each with a checksum, detailed timings and, in a timing extension, a list   *)
(* of data blocks.  The functions walk the list by the lengths in it; here it  *)
(* is a sequence, and a video mode is named as aVideoParams names it.          *)
EXTENDS Naturals, Sequences, FiniteSets

\* A sink is [base : block, ext : Seq(block)]; a block is [valid : BOOLEAN, tag : "timing",
\* "map" or "base", dtds : set of modes, ycc : BOOLEAN, data : Seq(data block)]; a data
\* block is [tag : "video", vics : set of modes] or [tag : "vendor", hdmi : BOOLEAN, port].

ReadEDIDBlock(b) == b.valid

\* More than one extension needs a block map as the first.
EDIDRead(s) ==
  /\ ReadEDIDBlock(s.base) /\ \A i \in DOMAIN s.ext : ReadEDIDBlock(s.ext[i])
  /\ Len(s.ext) > 1 => s.ext[1].tag = "map"

IsTimingExtension(b) == b.tag = "timing"

VsdbOf(b) == {i \in DOMAIN b.data : b.data[i].tag = "vendor" /\ b.data[i].hdmi}
GetVSDBOffset(b) ==
  IF VsdbOf(b) = {} THEN 0 ELSE CHOOSE i \in VsdbOf(b) : \A j \in VsdbOf(b) : i <= j

IsContainVideoDTD(b, r) == r \in b.dtds
IsContainVIC(b, r) == \E i \in DOMAIN b.data : b.data[i].tag = "video" /\ r \in b.data[i].vics

CheckResolution(s, r) ==
  \/ IsContainVideoDTD(s.base, r)
  \/ \E i \in DOMAIN s.ext :
       IsTimingExtension(s.ext[i]) /\ (IsContainVIC(s.ext[i], r) \/ IsContainVideoDTD(s.ext[i], r))

\* YCbCr 4:4:4; RGB is always there.
CheckColorSpace(s) == \E i \in DOMAIN s.ext : IsTimingExtension(s.ext[i]) /\ s.ext[i].ycc

WithVsdb(s) == {i \in DOMAIN s.ext : IsTimingExtension(s.ext[i]) /\ GetVSDBOffset(s.ext[i]) > 0}
CheckHDMIMode(s) == WithVsdb(s) # {}

\* The port of the first vendor block: where in the tree of displays we hang.
EDIDGetCECPhysicalAddress(s) ==
  LET i == CHOOSE i \in WithVsdb(s) : \A j \in WithVsdb(s) : i <= j
  IN  s.ext[i].data[GetVSDBOffset(s.ext[i])].port
=============================================================================
