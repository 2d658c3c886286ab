------------------------------- MODULE SecFimc -------------------------------
(* SecFimc, the converter between picture formats and sizes: what a client     *)
(* asks for is rounded to what the hardware takes, remembered in mS5pFimc, and *)
(* sent to the device.  The device is external: it keeps what an ioctl that    *)
(* succeeds gives it.                                                          *)
EXTENDS Naturals

CONSTANTS
  Sources,      \* [width, height, x, y, cropWidth, cropHeight, format]
  Targets,      \* the same, for the destination
  Rotations, Addresses, Keys,
  Version,      \* hw_ver
  MaxFailures,  \* bound: kinds of ioctl that fail
  None

VARIABLES
  made,         \* mFlagCreate
  lost,         \* devices opened that nothing can close any more
  src, dst,     \* mS5pFimc.params
  set,          \* mFlagSetSrcParam, mFlagSetDstParam
  rot,          \* mRotVal
  key,          \* mColorKey with mFlagColorKey
  on,           \* mFlagStreamOn
  address,      \* out_buf.phys_addr
  dev,          \* what dev_fd is: open, its src, dst, rot, key flag and colour, address,
                \* buffers, stream
  asked,        \* the requests that were granted: src, dst with the rotation of then, key;
                \* formats: of that destination and of those refused since
  hurt          \* the kinds of failure that happened

vars == <<made, lost, src, dst, set, rot, key, on, address, dev, asked, hurt>>

NoPicture == [width |-> 0, height |-> 0, x |-> 0, y |-> 0, cropWidth |-> 0, cropHeight |-> 0,
              format |-> "none"]
NoWindow == [fullWidth |-> 0, fullHeight |-> 0, x |-> 0, y |-> 0, width |-> 0, height |-> 0,
             format |-> "none"]
Device(is) ==
  [open |-> is, src |-> NoPicture, dst |-> NoWindow, rot |-> 0, flag |-> FALSE, colour |-> None,
   address |-> None, buffers |-> 0, stream |-> FALSE]
Closed == Device(FALSE)
Opened == Device(TRUE)
Nothing == [src |-> None, dst |-> None, key |-> None, formats |-> {}]
Init ==
  /\ made = FALSE /\ lost = 0 /\ src = NoPicture /\ dst = NoWindow
  /\ set = [src |-> FALSE, dst |-> FALSE] /\ rot = 0 /\ key = None /\ on = FALSE
  /\ address = None /\ dev = Closed /\ asked = Nothing /\ hurt = {}

Size(s) == IF s = {} THEN 0 ELSE 1
Well == UNCHANGED hurt
Fails(kind) == Size(hurt) < MaxFailures /\ hurt' = hurt \cup {kind}

\* create sets every member back, the descriptor that a failed create left among them; a
\* failure after the device is open leaves it open in dev_fd, and destroy refuses.
create ==
  /\ ~made
  /\ src' = NoPicture /\ dst' = NoWindow /\ set' = [src |-> FALSE, dst |-> FALSE]
  /\ rot' = 0 /\ key' = None /\ on' = FALSE /\ asked' = Nothing
  /\ lost' = lost + (IF dev.open THEN 1 ELSE 0)
  /\ \/ made' = TRUE /\ dev' = Opened /\ address' = "reserved" /\ Well
     \/ Fails("create") /\ dev' \in {Closed, Opened} /\ address' = None /\ UNCHANGED made

destroy ==
  /\ made /\ made' = FALSE /\ address' = None /\ dev' = Closed
  /\ UNCHANGED <<lost, src, dst, set, rot, key, on, asked, hurt>>

-----------------------------------------------------------------------------
(* Sizes the hardware takes                                                   *)

multipleOf(n, number) == number - (number % n)
AtLeast(low, from, n) == IF from >= low /\ n < low THEN low ELSE n

\* What checkFimcSrcSize makes of the crop; that it may say no is not looked at.
checkFimcSrcSize(q) ==
  LET w == AtLeast(16, q.width, q.cropWidth)
      h == AtLeast(8, q.height, q.cropHeight)
  IN  CASE Version = "5.0" /\ q.format = "yuv422" ->
             [q EXCEPT !.cropWidth = multipleOf(2, w), !.cropHeight = multipleOf(2, h)]
        [] Version # "5.0" /\ q.height >= 8 /\ q.width % 16 = 0 ->
             [q EXCEPT !.cropWidth = multipleOf(16, w), !.cropHeight = h]
        [] OTHER -> [q EXCEPT !.cropWidth = w, !.cropHeight = h]

Sideways(r) == r \in {90, 270}
\* The side that is the height once turned is even for the formats with half the chroma rows.
checkFimcDstSize(q, r) ==
  LET high == IF Sideways(r) THEN q.width ELSE q.height
      wide == IF Sideways(r) THEN q.height ELSE q.width
  IN  IF high < 8 \/ wide % 8 # 0 \/ q.format \notin {"yuv420", "tiled"} THEN q
      ELSE IF Sideways(r) THEN [q EXCEPT !.cropWidth = multipleOf(2, q.cropWidth)]
      ELSE [q EXCEPT !.cropHeight = multipleOf(2, q.cropHeight)]

\* The destination as the device wants it: in the frame of the turned picture.
Window(q, r) ==
  IF Sideways(r)
  THEN [fullWidth |-> q.height, fullHeight |-> q.width,
        x |-> IF r = 90 THEN q.y ELSE q.height - (q.y + q.cropHeight),
        y |-> IF r = 90 THEN q.width - (q.x + q.cropWidth) ELSE q.x,
        width |-> q.cropHeight, height |-> q.cropWidth, format |-> q.format]
  ELSE [fullWidth |-> q.width, fullHeight |-> q.height,
        x |-> IF r = 180 THEN q.width - (q.x + q.cropWidth) ELSE q.x,
        y |-> IF r = 180 THEN q.height - (q.y + q.cropHeight) ELSE q.y,
        width |-> q.cropWidth, height |-> q.cropHeight, format |-> q.format]

-----------------------------------------------------------------------------
(* Requests                                                                   *)

fimc_v4l2_clr_buf(d) == [d EXCEPT !.buffers = 0]
fimc_v4l2_req_buf(d) == [d EXCEPT !.buffers = 1]

\* S_FMT and S_CROP; only version 5.0 is told where the crop begins.
Cropped(s) == IF Version = "5.0" THEN s ELSE [s EXCEPT !.x = 0, !.y = 0]
fimc_v4l2_set_src(d, s) == [d EXCEPT !.src = Cropped(s)]
Uncropped(d, s) == [d EXCEPT !.src = [@ EXCEPT !.width = s.width, !.height = s.height,
                                               !.format = s.format]]

\* The rotation, the frame with its address (its flags stay) and the window, whose colour
\* nobody sets (sFormat is not initialised).
fimc_v4l2_set_dst(d, w, a) ==
  [d EXCEPT !.rot = rot, !.dst = w, !.address = a, !.colour = None]
SetPartly(d, w, a) ==
  {d, [d EXCEPT !.rot = rot],
   [d EXCEPT !.rot = rot, !.address = a,
             !.dst = [@ EXCEPT !.fullWidth = w.fullWidth, !.fullHeight = w.fullHeight,
                               !.format = w.format]]}

Asked(what, v) == asked' = [asked EXCEPT ![what] = v]

\* MUTANT: a picture of the same size is not looked at again.
Same_Size(s) ==
  src.width = s.width /\ src.height = s.height /\
  src.cropWidth = s.cropWidth /\ src.cropHeight = s.cropHeight
Same(s) == src = s

\* The parameters are stored first; the same ones again are granted without the device.
setSrcParams(q, force) ==
  LET s == checkFimcSrcSize(q) IN
  /\ made /\ (force \/ s = q)
  /\ \/ Same(s) /\ Asked("src", s) /\ Well /\ UNCHANGED <<src, set, dev>>
     \/ /\ ~Same(s) /\ src' = s
        /\ \E d \in {dev} \cup (IF set.src THEN {fimc_v4l2_clr_buf(dev)} ELSE {}) :
             \/ /\ dev' = fimc_v4l2_req_buf(fimc_v4l2_set_src(d, s))
                /\ set' = [set EXCEPT !.src = TRUE] /\ Asked("src", s) /\ Well
             \/ /\ Fails("src") /\ dev' \in {d, Uncropped(d, s), fimc_v4l2_set_src(d, s)}
                /\ UNCHANGED <<set, asked>>
  /\ UNCHANGED <<made, lost, dst, rot, key, on, address>>

\* The size is looked at after the format is stored.
DstRefused(q, force) ==
  /\ made /\ ~force /\ checkFimcDstSize(q, rot) # q
  /\ dst' = [dst EXCEPT !.format = q.format]
  /\ asked' = [asked EXCEPT !.formats = @ \cup {q.format}]
  /\ UNCHANGED <<made, lost, src, set, rot, key, on, address, dev, hurt>>
setDstParams(q, force) ==
  LET s == checkFimcDstSize(q, rot)
      w == Window(s, rot)
  IN  /\ made /\ (force \/ s = q) /\ dst' = w
      /\ \/ /\ dev' = fimc_v4l2_set_dst(dev, w, address)
            /\ set' = [set EXCEPT !.dst = TRUE]
            /\ asked' = [asked EXCEPT !.dst = [request |-> s, rot |-> rot],
                                      !.formats = {q.format}] /\ Well
         \/ Fails("dst") /\ dev' \in SetPartly(dev, w, address) /\ UNCHANGED <<set, asked>>
      /\ UNCHANGED <<made, lost, src, rot, key, on, address>>

\* Where the picture goes; the window of before is sent again.  It does not stop when there
\* is no converter, and its ioctls then meet whatever dev_fd is.
setDstPhyAddr(a) ==
  /\ address' = a
  /\ \/ dev.open /\ dev' = fimc_v4l2_set_dst(dev, dst, a) /\ Well
     \/ dev.open /\ Fails("dst") /\ dev' \in SetPartly(dev, dst, a)
     \/ ~dev.open /\ Well /\ UNCHANGED dev
  /\ UNCHANGED <<made, lost, src, dst, set, rot, key, on, asked>>

setRotVal(r) ==
  /\ made /\ ~on /\ rot' = r /\ dev' = [dev EXCEPT !.rot = r]
  /\ UNCHANGED <<made, lost, src, dst, set, key, on, address, asked, hurt>>

\* k = None turns the key off.  When the flag is set and the window cannot be read the call
\* is refused; when the window cannot be written the key is remembered all the same.
setColorKey(k) ==
  /\ made /\ ~on
  /\ \/ key = k /\ Asked("key", k) /\ Well /\ UNCHANGED <<key, dev>>
     \/ /\ key # k \/ k = None
        /\ key' = k /\ Asked("key", k) /\ Well
        /\ dev' = [dev EXCEPT !.flag = (k # None), !.colour = IF k = None THEN @ ELSE k]
     \/ /\ k # None /\ Fails("key") /\ dev' = [dev EXCEPT !.flag = TRUE]
        /\ key # k
        /\ \/ key' = k /\ Asked("key", k)
           \/ UNCHANGED <<key, asked>>
  /\ UNCHANGED <<made, lost, src, dst, set, rot, on, address>>

streamOn ==
  /\ dev.open /\ ~on /\ on' = TRUE /\ dev' = [dev EXCEPT !.stream = TRUE]
  /\ UNCHANGED <<made, lost, src, dst, set, rot, key, address, asked, hurt>>
streamOff ==
  /\ dev.open /\ on /\ on' = FALSE /\ dev' = [dev EXCEPT !.stream = FALSE]
  /\ UNCHANGED <<made, lost, src, dst, set, rot, key, address, asked, hurt>>

\* handleOneShot: on, queue, dequeue, off, whatever mFlagStreamOn says; a step that fails
\* after the first leaves the stream on.
handleOneShot ==
  /\ made /\ set.src /\ set.dst
  /\ \/ dev' = [dev EXCEPT !.stream = FALSE] /\ Well
     \/ dev' = [dev EXCEPT !.stream = TRUE] /\ Fails("oneshot")
  /\ UNCHANGED <<made, lost, src, dst, set, rot, key, on, address, asked>>

Next ==
  \/ create \/ destroy
  \/ \E q \in Sources, force \in BOOLEAN : setSrcParams(q, force)
  \/ \E q \in Targets, force \in BOOLEAN : setDstParams(q, force) \/ DstRefused(q, force)
  \/ \E a \in Addresses : setDstPhyAddr(a)
  \/ \E r \in Rotations : setRotVal(r)
  \/ \E k \in Keys \cup {None} : setColorKey(k)
  \/ streamOn \/ streamOff \/ handleOneShot
Spec == Init /\ [][Next]_vars

-----------------------------------------------------------------------------
\* A pixel of the picture, where it is once the picture is turned.
Turned(p, q, r) ==
  CASE r = 0 -> p
    [] r = 90 -> <<p[2], q.width - 1 - p[1]>>
    [] r = 180 -> <<q.width - 1 - p[1], q.height - 1 - p[2]>>
    [] OTHER -> <<q.height - 1 - p[2], p[1]>>
Corners(x, y, w, h) == {<<x, y>>, <<x + w - 1, y>>, <<x, y + h - 1>>, <<x + w - 1, y + h - 1>>}

\* What the device would convert is what the last granted requests asked for: that
\* source, that part of the destination once turned, in its format, that key.  The
\* exceptions: only version 5.0 crops from where it was asked to, the others from the
\* corner; a refused destination leaves its format to be sent with the next address; a
\* rotation set after the destination waits for the next destination; the colour of the
\* key lasts until the next destination or address; and once an ioctl about a part failed
\* that part is not claimed (the source and the key are then remembered as done).  No
\* stream runs but the client's or one that a failed one-shot left; the client's may be
\* over, ended by a one-shot.
ConvertsAsAsked ==
  /\ made /\ set.src /\ "src" \notin hurt =>
       /\ \A part \in {"width", "height", "cropWidth", "cropHeight", "format"} :
            dev.src[part] = asked.src[part]
       /\ \A side \in {"x", "y"} :
            dev.src[side] = IF Version = "5.0" THEN asked.src[side] ELSE 0
       /\ dev.buffers = 1
  /\ made /\ set.dst /\ "dst" \notin hurt =>
       LET q == asked.dst.request IN
       /\ Corners(dev.dst.x, dev.dst.y, dev.dst.width, dev.dst.height)
            = {Turned(p, q, asked.dst.rot) : p \in Corners(q.x, q.y, q.cropWidth, q.cropHeight)}
       /\ dev.dst.x + dev.dst.width <= dev.dst.fullWidth
       /\ dev.dst.y + dev.dst.height <= dev.dst.fullHeight
       /\ dev.dst.format \in asked.formats
       /\ dev.rot = rot /\ dev.address = address
  /\ made /\ "key" \notin hurt =>
       (dev.flag <=> asked.key # None) /\ (dev.flag => dev.colour \in {asked.key, None})
  /\ made => dev.open /\ (dev.stream => on \/ "oneshot" \in hurt)
=============================================================================
