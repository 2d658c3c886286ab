----------------------------- MODULE HwComposer -----------------------------
(* The hardware composer: hwc_prepare chooses the layers that get a window of  *)
(* the display controller, hwc_set converts their buffers with the FIMC into   *)
(* the two buffers of each window (SecHWC.cpp), and the scaler's source memory *)
(* is kept for the next frame (SecHWCUtils.cpp).  Not in the build, and not    *)
(* here: SUB_TITLES_HWC, the second pass over RGB layers.                      *)
EXTENDS Naturals, Sequences, FiniteSetsExt

CONSTANTS
  Handles,           \* graphics buffers, each named by the size of its frame
  PmemSize,          \* size of the pmem region, 0 if there is none
  Places,            \* rectangles on the screen
  Lists,             \* layer lists: sequences of Layer
  MaxFailures,       \* bound: calls of a driver that fail
  NoHandle, NoList

NUM_OF_WIN == 2
NUM_OF_WIN_BUF == 2
Wins == 1..NUM_OF_WIN

VARIABLES
  win,       \* hwc_win_info_t, and of the hardware: pos, pan (the buffer shown), mem (what is
             \* in each), refused (it did not pan or power down the window when it was told to)
  list,      \* the client's layers
  comp,      \* compositionType of each layer
  layers,    \* num_of_hwc_layer
  pc,        \* "idle", "prepared" or "set"
  next,      \* hwc_set's i
  skipped,   \* skipped_window_mask
  s3c,       \* the s3c_mem entry: size as recorded, real size, is it still allocated
  failures

vars == <<win, list, comp, layers, pc, next, skipped, s3c, failures>>

\* A layer whose format the FIMC reads, large enough and not blended, is "yuv".
Layer == [kind : {"yuv"}, handle : Handles, place : Places]
           \cup [kind : {"rgb"}, handle : {NoHandle}, place : {"screen"}]

window_open ==
  [status |-> "free", index |-> 0, prev |-> NoHandle, buf |-> 0, power |-> 0, place |-> "screen",
   pos |-> "screen", pan |-> 0, fresh |-> TRUE, lost |-> FALSE, refused |-> FALSE,
   mem |-> [b \in 0..NUM_OF_WIN_BUF - 1 |-> NoHandle]]
Init ==
  /\ win = [w \in Wins |-> window_open]
  /\ list = NoList /\ comp = <<>> /\ layers = 0
  /\ pc = "idle" /\ next = 1 /\ skipped = {}
  /\ s3c = [size |-> 0, real |-> 0, live |-> FALSE, stale |-> FALSE]
  /\ failures = 0

-----------------------------------------------------------------------------
(* hwc_prepare                                                               *)

\* The driver may refuse; power_state says then that the window is still on.
window_hide(w, still) ==
  IF w.power = 1 /\ still THEN [w EXCEPT !.refused = TRUE]
                          ELSE [w EXCEPT !.power = 0, !.refused = FALSE]

Overlayable(layer) == layer.kind = "yuv"                 \* get_hwc_compos_decision

window_set_pos(w, ok, still) ==
  LET hidden == window_hide(w, still)
  IN  IF ok /\ hidden.power = 0
      THEN [hidden EXCEPT !.pos = w.place, !.prev = NoHandle, !.lost = FALSE]
      ELSE [hidden EXCEPT !.lost = TRUE]
\* rect_info is the new one also when the window cannot be moved.
Placed(w, layer, ok, still) ==
  IF layer.place = w.place THEN w
  ELSE window_set_pos([w EXCEPT !.place = layer.place], ok, still)

\* The window that could not be moved is left to the next layer; what the driver refuses,
\* bad, is a set of calls: <<"place", layer>>, <<"hide", layer>> and <<"free", window>>.
assign_overlay_window(st, i, layer, bad) ==
  LET old == st.win[st.used + 1]
      w == Placed(old, layer, <<"place", i>> \notin bad, <<"hide", i>> \in bad)
  IN  IF w.place # old.place /\ w.lost
      THEN [st EXCEPT !.win[st.used + 1] = w]
      ELSE [st EXCEPT !.win[st.used + 1] = [w EXCEPT !.index = i, !.status = "reserved"],
                      !.used = @ + 1, !.overlays = @ \cup {i}]

\* The loop comes to the next layer that could have a window, while one while one is free.
Assign(st, l, bad) ==
  IF st.used = NUM_OF_WIN \/ st.left = {} THEN st
  ELSE LET i == Min(st.left)
       IN  assign_overlay_window([st EXCEPT !.left = @ \ {i}], i, l[i], bad)

\* The windows after the pass over the layers; one call at most is refused, so that two
\* windows are given after three layers.
Assigned(l, bad) ==
  LET start == [win |-> [w \in Wins |-> [win[w] EXCEPT !.status = "free", !.buf = 0, !.fresh = TRUE]],
                used |-> 0, overlays |-> {}, left |-> {i \in DOMAIN l : Overlayable(l[i])}]
  IN  Assign(Assign(Assign(start, l, bad), l, bad), l, bad)
Composition(l, overlays) == [i \in DOMAIN l |-> IF i \in overlays THEN "overlay" ELSE "framebuffer"]

Refusable(l) == ({"place", "hide"} \X DOMAIN l) \cup ({"free"} \X Wins)
\* The list changed: HWC_GEOMETRY_CHANGED.
Prepare ==
  /\ pc = "idle"
  /\ \E l \in Lists : \E bad \in {{}} \cup {{c} : c \in Refusable(l)} :
       LET p == Assigned(l, bad)
       IN  /\ bad # {} => failures < MaxFailures
           /\ failures' = failures + (IF bad = {} THEN 0 ELSE 1)
           /\ list' = l /\ comp' = Composition(l, p.overlays) /\ layers' = p.used
           /\ win' = [w \in Wins |-> IF w > p.used
                                    THEN window_hide(p.win[w], <<"free", w>> \in bad)
                                    ELSE p.win[w]]
  /\ pc' = "prepared"
  /\ UNCHANGED <<next, skipped, s3c>>

\* The same layers with other buffers: prepare returns at once.
PrepareSame ==
  /\ pc = "idle" /\ list # NoList
  /\ \E hs \in [DOMAIN list -> Handles] :
       list' = [i \in DOMAIN list |->
                  IF list[i].kind = "yuv" THEN [list[i] EXCEPT !.handle = hs[i]] ELSE list[i]]
  /\ pc' = "prepared"
  /\ UNCHANGED <<win, comp, layers, next, skipped, s3c, failures>>

-----------------------------------------------------------------------------
(* hwc_set                                                                   *)

\* No list: the screen goes off.
SetNothing ==
  /\ pc = "idle"
  /\ \E stay \in {{}} \cup {{w} : w \in Wins} :
       /\ stay # {} => failures < MaxFailures
       /\ failures' = failures + Cardinality(stay)
       /\ win' = [w \in Wins |-> [window_hide(win[w], w \in stay) EXCEPT !.status = "free"]]
  /\ layers' = 0 /\ list' = NoList /\ comp' = <<>>
  /\ UNCHANGED <<pc, next, skipped, s3c>>

SetBegins ==
  /\ pc = "prepared"
  /\ pc' = "set"
  /\ UNCHANGED <<win, list, comp, layers, next, skipped, s3c, failures>>

Current == list[win[next].index].handle
Setting == pc = "set" /\ next <= layers
SameBuffer == win[next].prev = Current

SetSame ==
  /\ Setting /\ SameBuffer
  /\ next' = next + 1
  /\ UNCHANGED <<win, list, comp, layers, pc, skipped, s3c, failures>>

createMem(size) == [size |-> size, real |-> size, live |-> TRUE, stale |-> FALSE]
destroyMem(m) == [m EXCEPT !.live = FALSE]

\* checkMem, and the size noted by get_src_phys_addr: an entry too small is freed
\* before the new one is asked for, and kept as it was when there is none.
checkMem(size, ok) ==
  CASE s3c.size >= size -> [s3c EXCEPT !.size = size]
    [] s3c.size < size /\ ok -> createMem(size)
    [] OTHER -> [destroyMem(s3c) EXCEPT !.stale = TRUE]
checkPmem(size) == size <= PmemSize

\* The source's memory: pmem if the frame fits it, else the s3c entry; both outlive the call.
get_src_phys_addr(h, ok) ==
  s3c' = IF checkPmem(h) THEN s3c ELSE checkMem(h, ok)

\* The frame, scaled, turned and converted, is in the window's next buffer.
runcFimcCore(w, h) == [w EXCEPT !.mem[w.buf] = h]
runFimc(w, h) == runcFimcCore([w EXCEPT !.prev = h], h)
\* hwc_set looks at neither result.
window_pan_display(w, bad) ==
  IF "pan" \in bad THEN [w EXCEPT !.refused = TRUE]
                   ELSE [w EXCEPT !.pan = w.buf, !.fresh = FALSE, !.refused = FALSE]
window_show(w, bad) == IF "show" \in bad THEN w ELSE [w EXCEPT !.power = 1]
Flipped(w) == [w EXCEPT !.buf = (@ + 1) % NUM_OF_WIN_BUF]

SetBlits ==
  /\ Setting /\ ~SameBuffer
  /\ get_src_phys_addr(Current, TRUE)
  /\ \E bad \in SUBSET ({"pan"} \cup {c \in {"show"} : win[next].power = 0}) :
       /\ failures + Cardinality(bad) <= MaxFailures
       /\ failures' = failures + Cardinality(bad)
       /\ LET shown == window_pan_display(runFimc(win[next], Current), bad)
          IN  win' = [win EXCEPT ![next] = window_show(Flipped(shown), bad)]
  /\ next' = next + 1
  /\ UNCHANGED <<list, comp, layers, pc, skipped>>

\* No memory or the FIMC refuses: layer_prev_buf is the new buffer all the same.
SetFails ==
  /\ Setting /\ ~SameBuffer /\ failures < MaxFailures
  /\ \E memory \in BOOLEAN : get_src_phys_addr(Current, memory)
  /\ win' = [win EXCEPT ![next].prev = Current]
  /\ skipped' = skipped \cup {next}
  /\ next' = next + 1 /\ failures' = failures + 1
  /\ UNCHANGED <<list, comp, layers, pc>>

\* MUTANT: a window that was skipped stays on the screen.
SetEnds_KeepsSkipped ==
  /\ pc = "set" /\ next > layers
  /\ pc' = "idle" /\ next' = 1 /\ skipped' = {}
  /\ UNCHANGED <<win, list, comp, layers, s3c, failures>>
SetEnds ==
  /\ pc = "set" /\ next > layers
  /\ \E stay \in {{}} \cup {{w} : w \in skipped} :
       /\ stay # {} => failures < MaxFailures
       /\ failures' = failures + Cardinality(stay)
       /\ win' = [w \in Wins |->
                   IF w \in skipped THEN window_hide(win[w], w \in stay) ELSE win[w]]
  /\ pc' = "idle" /\ next' = 1 /\ skipped' = {}
  /\ UNCHANGED <<list, comp, layers, s3c>>

Next == Prepare \/ PrepareSame \/ SetNothing \/ SetBegins \/ SetSame \/ SetBlits \/ SetFails \/ SetEnds
Spec == Init /\ [][Next]_vars

-----------------------------------------------------------------------------
\* Between two compositions every window on the screen belongs to a layer that was
\* given to the composer, holds that layer's current buffer and lies where the layer
\* is; nothing is on the screen without a list.  A window is at the old place only
\* after the driver refused to move it: rect_info hides that from the next prepare.
\* Nothing is said of a window that the driver did not pan or power down when it was
\* told to, until it does: hwc_set and hwc_prepare look at neither result.
Obeyed(w) == w.power = 1 /\ ~w.refused
ShownIsCurrent ==
  pc = "idle" =>
    \A w \in Wins : Obeyed(win[w]) =>
      /\ list # NoList /\ win[w].status = "reserved" /\ w <= layers
      /\ comp[win[w].index] = "overlay"
      /\ win[w].mem[win[w].pan] = list[win[w].index].handle
      /\ win[w].pos = list[win[w].index].place \/ win[w].lost

\* The FIMC never writes into the buffer a window shows, except for the first frame
\* after a geometry change, which resets buf_index whatever is shown, and after a pan
\* that failed, which flips buf_index all the same.
NeverTorn == \A w \in Wins : Obeyed(win[w]) /\ ~win[w].fresh => win[w].buf # win[w].pan

\* A frame that is copied for the FIMC lies in memory that is allocated and large
\* enough, unless an allocation failed: then the freed address stays with its size.
CopyFits == s3c.size > 0 /\ ~s3c.stale => s3c.live /\ s3c.size <= s3c.real
=============================================================================
