---------------------------- MODULE OmxCoreProofs ----------------------------
(* The message handler thread of a component never outlives the component's     *)
(* memory, the list of handles loses no entry, nothing is left of a component   *)
(* that is gone, for any clients, handles, commands and failures; and of the    *)
(* components that share the codecs each gives back what it had.                *)
EXTENDS MC_Handles, SequenceTheorems, FiniteSetTheorems, TLAPS

Needed == {"base", "sema", "inputPort", "outputPort", "codec"}
Places == {"idle", "load", "append", "unlink", "undo"}

Steps == {"load", "library", "component", "base", "sema", "mutex", "thread", "inputPort",
          "outputPort", "mime", "name", "codec", "ask", "wake", "join"}

Types ==
  /\ held \in [Handles -> SUBSET Steps]
  /\ handler \in [Handles -> {None, "waiting", "busy", "gone"}]
  /\ messages \in [Handles -> Seq({"command", "deinit"})] /\ unanswered \in [Handles -> Nat]
  /\ owned \in [Clients -> SUBSET Handles] /\ pc \in [Clients -> Places]
  /\ at \in [Clients -> Handles \cup {None}] /\ todo \in [Clients -> Seq(Steps)]
  /\ \A c \in Clients : pc[c] # "idle" => at[c] \in Handles

\* A handle is with one client, who has it or is getting or freeing it.
Working(c, h) == pc[c] # "idle" /\ at[c] = h
Sole ==
  \A c, d \in Clients, h \in Handles :
    /\ h \in owned[c] /\ h \in owned[d] => c = d
    /\ Working(c, h) => h \notin owned[d]
    /\ Working(c, h) /\ Working(d, h) => c = d

Runs(h) == handler[h] \in {"waiting", "busy"}
Only(h, m) == \A i \in 1..Len(messages[h]) : messages[h][i] = m

\* Somebody's component is complete, and what is unanswered is queued or carried out.
Owned(h) ==
  /\ Needed \subseteq held[h] /\ Runs(h) /\ Only(h, "command")
  /\ unanswered[h] = Len(messages[h]) + (IF handler[h] = "busy" THEN 1 ELSE 0)
Unowned(h) == unanswered[h] = 0 /\ handler[h] # "busy" /\ Only(h, "deinit")
IsOwned(h) == \E c \in Clients : h \in owned[c]
Content(h) == IF IsOwned(h) THEN Owned(h) ELSE Unowned(h)
Contents == \A h \in Handles : Content(h)

\* While a component is made: what the thread needs is there or to come, its semaphore
\* and its memory before the thread itself.
ToCome(s, x) == \E j \in 1..Len(s) : s[j] = x
ThreadLast(s) ==
  \A i, j \in 1..Len(s) :
    /\ s[i] \in {"base", "sema"} /\ s[j] = "thread" => i < j
    /\ s[i] = "thread" /\ s[j] = "thread" => i = j
Loading(h, s) ==
  /\ \A x \in Needed : x \in held[h] \/ ToCome(s, x)
  /\ ThreadLast(s)
  /\ IF ToCome(s, "thread") THEN ~Runs(h) ELSE handler[h] = "waiting" /\ messages[h] = <<>>

\* While one is destroyed: the thread is joined before its memory goes.
JoinFirst(s) ==
  \A j \in 1..Len(s) : s[j] \in {"base", "sema"} => \E i \in 1..Len(s) : i < j /\ s[i] = "join"

Work(c) ==
  /\ pc[c] = "load" => Loading(at[c], todo[c])
  /\ pc[c] \in {"append", "unlink"} => Loading(at[c], <<>>)
  /\ pc[c] = "undo" => ~Runs(at[c]) \/ JoinFirst(todo[c])
AtWork == \A c \in Clients : Work(c)

IInv == Types /\ Sole /\ Contents /\ AtWork /\ HandlerHasMemory

-----------------------------------------------------------------------------
\* What holds of two sequences holds of both together.
Plain(s) == \A j \in 1..Len(s) : s[j] \notin {"base", "sema", "thread"}

LEMMA Together ==
  ASSUME NEW s \in Seq(Steps), NEW t \in Seq(Steps)
  PROVE  /\ s \o t \in Seq(Steps)
         /\ \A x : ToCome(s \o t, x) <=> ToCome(s, x) \/ ToCome(t, x)
         /\ Plain(s) /\ Plain(t) => Plain(s \o t)
         /\ ThreadLast(s) /\ Plain(t) => ThreadLast(s \o t)
         /\ Plain(s) /\ ThreadLast(t) => ThreadLast(s \o t)
         /\ JoinFirst(s) /\ JoinFirst(t) => JoinFirst(s \o t)
  <1>1. /\ s \o t \in Seq(Steps)
        /\ Len(s \o t) = Len(s) + Len(t) /\ Len(s) \in Nat /\ Len(t) \in Nat
        /\ \A i \in 1..Len(s \o t) :
             (s \o t)[i] = IF i <= Len(s) THEN s[i] ELSE t[i - Len(s)]
    BY ConcatProperties, LenProperties
  <1>2. /\ \A i \in 1..Len(s) : i \in 1..Len(s \o t) /\ (s \o t)[i] = s[i]
        /\ \A i \in 1..Len(t) :
             Len(s) + i \in 1..Len(s \o t) /\ (s \o t)[Len(s) + i] = t[i]
    BY <1>1
  <1>3. \A x : ToCome(s \o t, x) <=> ToCome(s, x) \/ ToCome(t, x)
    BY <1>1, <1>2 DEF ToCome
  <1>4. Plain(s) /\ Plain(t) => Plain(s \o t)
    BY <1>1 DEF Plain
  <1>5. ThreadLast(s) /\ Plain(t) => ThreadLast(s \o t)
    BY <1>1 DEF Plain, ThreadLast
  <1>6. Plain(s) /\ ThreadLast(t) => ThreadLast(s \o t)
    BY <1>1 DEF Plain, ThreadLast
  <1>7. ASSUME JoinFirst(s), JoinFirst(t)
        PROVE  JoinFirst(s \o t)
    <2> SUFFICES ASSUME NEW j \in 1..Len(s \o t), (s \o t)[j] \in {"base", "sema"}
                 PROVE  \E i \in 1..Len(s \o t) : i < j /\ (s \o t)[i] = "join"
      BY DEF JoinFirst
    <2>1. CASE j <= Len(s)
      BY <1>1, <1>2, <1>7, <2>1 DEF JoinFirst
    <2>2. CASE ~(j <= Len(s))
      <3>1. j - Len(s) \in 1..Len(t) /\ t[j - Len(s)] \in {"base", "sema"}
        BY <1>1, <2>2
      <3>2. PICK i \in 1..Len(t) : i < j - Len(s) /\ t[i] = "join"
        BY <3>1, <1>7 DEF JoinFirst
      <3> QED BY <3>2, <1>1, <1>2
    <2> QED BY <2>1, <2>2
  <1> QED BY <1>1, <1>3, <1>4, <1>5, <1>6, <1>7

\* The order of the constructors of the four components.
LEMMA LoadOrder ==
  ASSUME NEW k
  PROVE  /\ ComponentLoad(k) \in Seq(Steps)
         /\ ThreadLast(ComponentLoad(k)) /\ ToCome(ComponentLoad(k), "thread")
         /\ \A x \in Needed : ToCome(ComponentLoad(k), x)
  <1> DEFINE first == <<"library", "component">>  last == <<"name", "codec">>
             base == BaseConstructor  ports == PortConstructor  mime == <<"mime">>
  <1>1. /\ first \in Seq(Steps) /\ last \in Seq(Steps) /\ base \in Seq(Steps)
        /\ ports \in Seq(Steps) /\ mime \in Seq(Steps)
    BY DEF Steps, BaseConstructor, PortConstructor
  <1>2. Plain(first) /\ Plain(last) /\ Plain(ports) /\ Plain(mime) /\ ThreadLast(base)
    BY DEF Plain, ThreadLast, BaseConstructor, PortConstructor
  <1>3. /\ ToCome(base, "base") /\ ToCome(base, "sema") /\ ToCome(base, "thread")
        /\ ToCome(ports, "inputPort") /\ ToCome(ports, "outputPort") /\ ToCome(last, "codec")
    BY DEF ToCome, BaseConstructor, PortConstructor
  <1> DEFINE two == base \o ports  three == two \o mime  four == three \o last
  <1>4. ComponentLoad(k) = first \o four
    BY DEF ComponentLoad, ComponentInit, H264DecInit, Mpeg4DecInit, H264EncInit,
       Mpeg4EncInit, VideoDecodeInit, VideoEncodeInit
  <1> HIDE DEF first, last, base, ports, mime
  <1>5. /\ two \in Seq(Steps) /\ ThreadLast(two) /\ ToCome(two, "thread")
        /\ \A x \in Needed \ {"codec"} : ToCome(two, x)
    BY <1>1, <1>2, <1>3, Together DEF Needed
  <1> HIDE DEF two
  <1>6. /\ three \in Seq(Steps) /\ ThreadLast(three) /\ ToCome(three, "thread")
        /\ \A x \in Needed \ {"codec"} : ToCome(three, x)
    BY <1>1, <1>2, <1>5, Together
  <1> HIDE DEF three
  <1>7. /\ four \in Seq(Steps) /\ ThreadLast(four) /\ ToCome(four, "thread")
        /\ \A x \in Needed : ToCome(four, x)
    BY <1>1, <1>2, <1>3, <1>6, Together
  <1> HIDE DEF four
  <1> QED BY <1>1, <1>2, <1>4, <1>7, Together

\* The order of the destructors, after FreeHandle and after a creation that failed.
LEMMA UnloadOrder ==
  ASSUME NEW k
  PROVE  /\ ComponentUnload(k) \o <<"load">> \in Seq(Steps)
         /\ JoinFirst(ComponentUnload(k) \o <<"load">>)
         /\ \A step : Undo(k, step) \in Seq(Steps) /\ JoinFirst(Undo(k, step))
  <1> DEFINE mime == <<"mime">>  ports == PortDestructor  base == BaseDestructor
             own == <<"name", "codec">>  unload == <<"component", "library">>
             load == <<"load">>  outer == <<"component", "library", "load">>
             input == <<"inputPort">>
  <1>1. /\ mime \in Seq(Steps) /\ ports \in Seq(Steps) /\ base \in Seq(Steps)
        /\ own \in Seq(Steps) /\ unload \in Seq(Steps) /\ load \in Seq(Steps)
        /\ outer \in Seq(Steps) /\ input \in Seq(Steps)
    BY DEF Steps, BaseDestructor, PortDestructor
  <1>2. /\ JoinFirst(mime) /\ JoinFirst(ports) /\ JoinFirst(own) /\ JoinFirst(unload)
        /\ JoinFirst(load) /\ JoinFirst(outer) /\ JoinFirst(input)
    BY DEF JoinFirst, PortDestructor
  <1>3. JoinFirst(base)
    <2>1. Len(base) = 6 /\ base[3] = "join"
      BY DEF BaseDestructor
    <2>2. \A j \in 1..6 : base[j] \in {"base", "sema"} => 3 < j
      BY DEF BaseDestructor
    <2> QED BY <2>1, <2>2 DEF JoinFirst
  <1> DEFINE video == (mime \o ports) \o base  all == own \o video
             cut == input \o base
  <1>4. ComponentUnload(k) \o load = (all \o unload) \o load
    BY DEF ComponentUnload, ComponentDeinit, H264DecDeinit, Mpeg4DecDeinit, H264EncDeinit,
       Mpeg4EncDeinit, VideoDecodeDeinit, VideoEncodeDeinit
  <1>5. ASSUME NEW step
        PROVE  Undo(k, step) \in {load, outer, base \o outer, cut \o outer, video \o outer}
    BY DEF Undo, VideoDecodeDeinit, VideoEncodeDeinit
  <1> HIDE DEF mime, ports, base, own, unload, load, outer, input
  <1>6. mime \o ports \in Seq(Steps) /\ JoinFirst(mime \o ports)
    BY <1>1, <1>2, Together
  <1>7. video \in Seq(Steps) /\ JoinFirst(video)
    BY <1>1, <1>3, <1>6, Together
  <1>8. cut \in Seq(Steps) /\ JoinFirst(cut)
    BY <1>1, <1>2, <1>3, Together
  <1> HIDE DEF video, cut
  <1>9. all \in Seq(Steps) /\ JoinFirst(all)
    BY <1>1, <1>2, <1>7, Together
  <1> HIDE DEF all
  <1>10. all \o unload \in Seq(Steps) /\ JoinFirst(all \o unload)
    BY <1>1, <1>2, <1>9, Together
  <1>11. (all \o unload) \o load \in Seq(Steps) /\ JoinFirst((all \o unload) \o load)
    BY <1>1, <1>2, <1>10, Together
  <1>12. /\ base \o outer \in Seq(Steps) /\ JoinFirst(base \o outer)
         /\ cut \o outer \in Seq(Steps) /\ JoinFirst(cut \o outer)
         /\ video \o outer \in Seq(Steps) /\ JoinFirst(video \o outer)
    BY <1>1, <1>2, <1>3, <1>7, <1>8, Together
  <1>13. ASSUME NEW step
         PROVE  Undo(k, step) \in Seq(Steps) /\ JoinFirst(Undo(k, step))
    BY <1>1, <1>2, <1>5, <1>12
  <1>14. /\ ComponentUnload(k) \o load \in Seq(Steps)
         /\ JoinFirst(ComponentUnload(k) \o load)
    BY <1>4, <1>11
  <1> QED BY <1>13, <1>14 DEF load

\* One step of a creation or a destruction is done.
LEMMA OneLess ==
  ASSUME NEW s \in Seq(Steps), s # <<>>
  PROVE  /\ Head(s) \in Steps /\ Head(s) = s[1] /\ Tail(s) \in Seq(Steps)
         /\ \A x : ToCome(s, x) => x = Head(s) \/ ToCome(Tail(s), x)
         /\ \A x : ToCome(Tail(s), x) => ToCome(s, x)
         /\ ToCome(s, Head(s))
         /\ ThreadLast(s) => ThreadLast(Tail(s))
         /\ ThreadLast(s) /\ Head(s) = "thread" =>
              \A x \in {"base", "sema", "thread"} : ~ToCome(Tail(s), x)
         /\ JoinFirst(s) => Head(s) \notin {"base", "sema"}
         /\ JoinFirst(s) /\ Head(s) # "join" => JoinFirst(Tail(s))
  <1>1. /\ Len(s) \in Nat /\ Len(s) >= 1 /\ Head(s) = s[1] /\ Tail(s) \in Seq(Steps)
        /\ Len(Tail(s)) = Len(s) - 1
        /\ \A i \in 1..Len(s) - 1 : Tail(s)[i] = s[i + 1]
        /\ \A i \in 1..Len(s) : s[i] \in Steps
    OBVIOUS
  <1>2. \A i \in 1..Len(s) : i # 1 => i - 1 \in 1..Len(s) - 1 /\ Tail(s)[i - 1] = s[i]
    BY <1>1
  <1>3. \A x : ToCome(s, x) => x = Head(s) \/ ToCome(Tail(s), x)
    BY <1>1, <1>2 DEF ToCome
  <1>4. \A x : ToCome(Tail(s), x) => ToCome(s, x)
    BY <1>1 DEF ToCome
  <1>5. ToCome(s, Head(s))
    BY <1>1 DEF ToCome
  <1>6. ThreadLast(s) => ThreadLast(Tail(s))
    BY <1>1 DEF ThreadLast
  <1>7. ThreadLast(s) /\ Head(s) = "thread" =>
          \A x \in {"base", "sema", "thread"} : ~ToCome(Tail(s), x)
    BY <1>1 DEF ThreadLast, ToCome
  <1>8. JoinFirst(s) => Head(s) \notin {"base", "sema"}
    BY <1>1 DEF JoinFirst
  <1>9. ASSUME JoinFirst(s), Head(s) # "join"
        PROVE  JoinFirst(Tail(s))
    <2> SUFFICES ASSUME NEW j \in 1..Len(Tail(s)), Tail(s)[j] \in {"base", "sema"}
                 PROVE  \E i \in 1..Len(Tail(s)) : i < j /\ Tail(s)[i] = "join"
      BY DEF JoinFirst
    <2>1. PICK i \in 1..Len(s) : i < j + 1 /\ s[i] = "join"
      BY <1>1, <1>9 DEF JoinFirst
    <2> QED BY <2>1, <1>1, <1>2, <1>9, SMTT(30)
  <1> QED BY <1>1, <1>3, <1>4, <1>5, <1>6, <1>7, <1>8, <1>9

\* A client whose handle nobody else touches is where it was.
LEMMA Undisturbed ==
  ASSUME IInv, NEW d \in Clients, pc'[d] = pc[d], at'[d] = at[d], todo'[d] = todo[d],
         pc[d] # "idle" => /\ held'[at[d]] = held[at[d]] /\ handler'[at[d]] = handler[at[d]]
                           /\ messages'[at[d]] = messages[at[d]]
  PROVE  Work(d)'
  <1>1. Work(d)
    BY DEF IInv, AtWork
  <1>2. CASE pc[d] = "idle"
    BY <1>2 DEF Work
  <1>3. CASE pc[d] = "load"
    BY <1>1, <1>3 DEF Work, Loading, Runs, ThreadLast, ToCome
  <1>4. CASE pc[d] \in {"append", "unlink"}
    BY <1>1, <1>4 DEF Work, Loading, Runs, ThreadLast, ToCome
  <1>5. CASE pc[d] = "undo"
    BY <1>1, <1>5 DEF Work, Runs, JoinFirst
  <1> QED BY <1>2, <1>3, <1>4, <1>5 DEF IInv, Types, Places

\* And so is a handle.
LEMMA Untouched ==
  ASSUME IInv, NEW h \in Handles, IsOwned(h)' = IsOwned(h),
         handler'[h] = handler[h], messages'[h] = messages[h],
         unanswered'[h] = unanswered[h], IsOwned(h) => held'[h] = held[h]
  PROVE  Content(h)'
  BY DEF IInv, Contents, Content, Owned, Unowned, Runs, Only

LEMMA InitInv == Init => IInv
  <1> SUFFICES ASSUME Init
               PROVE  IInv
    OBVIOUS
  <1>1. Types
    <2>1. <<>> \in Seq(Steps) /\ <<>> \in Seq({"command", "deinit"})
      BY EmptySeq
    <2> QED BY <2>1 DEF Init, Types, Places, Steps, None
  <1>2. Sole /\ AtWork
    BY DEF Init, Sole, Working, AtWork, Work
  <1>3. Contents
    BY DEF Init, Contents, Content, IsOwned, Unowned, Only, None
  <1>4. HandlerHasMemory
    BY DEF Init, HandlerHasMemory, None
  <1> QED BY <1>1, <1>2, <1>3, <1>4 DEF IInv

-----------------------------------------------------------------------------
\* The clients

LEMMA GetHandle_Step ==
  ASSUME IInv, NEW c \in Clients, GetHandle(c)
  PROVE  IInv'
  <1>1. PICK h \in Handles :
          /\ held[h] = {} /\ \A d \in Clients : at[d] # h
          /\ held' = [held EXCEPT ![h] = {"load"}]
          /\ at' = [at EXCEPT ![c] = h] /\ todo' = [todo EXCEPT ![c] = ComponentLoad(kind[h])]
          /\ pc' = [pc EXCEPT ![c] = "load"]
    BY DEF GetHandle
  <1>2. pc[c] = "idle" /\ UNCHANGED <<handler, messages, unanswered, owned>>
    BY DEF GetHandle, handlerVars
  <1>3. ~Runs(h) /\ \A d \in Clients : h \notin owned[d]
    BY <1>1 DEF IInv, Types, HandlerHasMemory, Runs, Contents, Content, IsOwned, Owned, Needed
  <1>4. Types'
    BY <1>1, <1>2, LoadOrder DEF IInv, Types, Places, Steps
  <1>5. Sole'
    BY <1>1, <1>2, <1>3 DEF IInv, Types, Sole, Working
  <1>6. Contents'
    BY <1>1, <1>2, <1>3, Untouched DEF IInv, Types, Contents, IsOwned
  <1>7. AtWork'
    <2>1. pc'[c] = "load" /\ at'[c] = h /\ todo'[c] = ComponentLoad(kind[h])
      BY <1>1 DEF IInv, Types
    <2>2. Work(c)'
      BY <1>2, <1>3, <2>1, LoadOrder DEF Work, Loading, Runs
    <2>3. ASSUME NEW d \in Clients, d # c
          PROVE  Work(d)'
      BY <1>1, <1>2, <2>3, Undisturbed DEF IInv, Types
    <2> QED BY <2>2, <2>3 DEF AtWork
  <1>8. HandlerHasMemory'
    BY <1>1, <1>2, <1>3 DEF IInv, Types, HandlerHasMemory, Runs
  <1> QED BY <1>4, <1>5, <1>6, <1>7, <1>8 DEF IInv

LEMMA Create_Step ==
  ASSUME IInv, NEW c \in Clients, Create(c)
  PROVE  IInv'
  <1>1. PICK h \in Handles, x \in {Head(todo[c])} :
        /\ pc[c] = "load" /\ todo[c] # <<>> /\ at[c] = h
        /\ held' = [held EXCEPT ![h] = @ \cup {x}]
        /\ handler' = IF x = "thread" THEN [handler EXCEPT ![h] = "waiting"] ELSE handler
        /\ messages' = IF x = "thread" THEN [messages EXCEPT ![h] = <<>>] ELSE messages
        /\ todo' = [todo EXCEPT ![c] = Tail(@)]
        /\ UNCHANGED <<unanswered, owned, pc, at>>
    BY DEF Create, IInv, Types
  <1>2. /\ \A d \in Clients : h \notin owned[d]
        /\ \A d \in Clients : d # c /\ pc[d] # "idle" => at[d] # h
    BY <1>1 DEF IInv, Sole, Working
  <1>3. ~IsOwned(h) /\ Unowned(h) /\ Loading(h, todo[c]) /\ todo[c] \in Seq(Steps)
    BY <1>1, <1>2 DEF IInv, Types, Contents, Content, IsOwned, AtWork, Work
  <1>4. x \in Steps /\ todo'[c] = Tail(todo[c]) /\ Tail(todo[c]) \in Seq(Steps)
    BY <1>1, <1>3, OneLess DEF IInv, Types
  <1>5. Types'
    <2>1. <<>> \in Seq({"command", "deinit"})
      BY EmptySeq
    <2> QED BY <1>1, <1>4, <2>1 DEF IInv, Types
  <1>6. Sole'
    BY <1>1 DEF IInv, Sole, Working
  <1>7. Contents'
    <2>1. ASSUME NEW g \in Handles, g # h
          PROVE  Content(g)'
      BY <1>1, <2>1, Untouched DEF IInv, Types, IsOwned
    <2>2. Content(h)'
      <3>1. messages'[h] = messages[h] \/ messages'[h] = <<>>
        BY <1>1 DEF IInv, Types
      <3>2. handler'[h] # "busy"
        BY <1>1, <1>3 DEF IInv, Types, Unowned
      <3>3. Unowned(h)'
        BY <1>1, <1>3, <3>1, <3>2 DEF Unowned, Only
      <3> QED BY <3>3, <1>1, <1>2 DEF Content, IsOwned
    <2> QED BY <2>1, <2>2 DEF Contents
  <1>8. AtWork'
    <2>1. ASSUME NEW d \in Clients, d # c
          PROVE  Work(d)'
      BY <1>1, <1>2, <2>1, Undisturbed DEF IInv, Types
    <2>2. pc'[c] = "load" /\ at'[c] = h /\ held'[h] = held[h] \cup {x}
      BY <1>1 DEF IInv, Types
    <2>3. \A y \in Needed : y \in held'[h] \/ ToCome(Tail(todo[c]), y)
      BY <1>1, <1>3, <2>2, OneLess DEF Loading
    <2>4. ThreadLast(Tail(todo[c]))
      BY <1>1, <1>3, OneLess DEF Loading
    <2>5. IF ToCome(Tail(todo[c]), "thread") THEN ~Runs(h)'
          ELSE handler'[h] = "waiting" /\ messages'[h] = <<>>
      <3>1. CASE x = "thread"
        BY <1>1, <1>3, <3>1, OneLess DEF Loading, IInv, Types
      <3>2. CASE x # "thread"
        BY <1>1, <1>3, <3>2, OneLess DEF Loading, Runs
      <3> QED BY <3>1, <3>2
    <2>6. Work(c)'
      BY <1>4, <2>2, <2>3, <2>4, <2>5 DEF Work, Loading, Runs
    <2> QED BY <2>1, <2>6 DEF AtWork
  <1>9. HandlerHasMemory'
    <2>1. ASSUME NEW g \in Handles, handler[g] \in {"waiting", "busy"} \/ g # h
          PROVE  handler'[g] \in {"waiting", "busy"} => {"base", "sema"} \subseteq held'[g]
      BY <1>1, <2>1 DEF IInv, Types, HandlerHasMemory
    <2>2. handler'[h] \in {"waiting", "busy"} => {"base", "sema"} \subseteq held'[h]
      <3>1. CASE x = "thread"
        BY <1>1, <1>3, <3>1, OneLess DEF IInv, Types, Loading, Needed
      <3>2. CASE x # "thread"
        BY <1>1, <3>2 DEF IInv, Types, HandlerHasMemory
      <3> QED BY <3>1, <3>2
    <2>3. \A g \in Handles : handler'[g] = "busy" => handler[g] = "busy"
      BY <1>1 DEF IInv, Types
    <2>4. \A g \in Handles : held[g] \subseteq held'[g]
      BY <1>1 DEF IInv, Types
    <2> QED BY <2>1, <2>2, <2>3, <2>4 DEF IInv, HandlerHasMemory
  <1> QED BY <1>5, <1>6, <1>7, <1>8, <1>9 DEF IInv

\* The handle a client works on is nobody else's.
LEMMA InHand ==
  ASSUME IInv, NEW c \in Clients, pc[c] # "idle"
  PROVE  /\ at[c] \in Handles /\ todo[c] \in Seq(Steps) /\ Work(c)
         /\ \A d \in Clients : at[c] \notin owned[d]
         /\ \A d \in Clients : d # c /\ pc[d] # "idle" => at[d] # at[c]
         /\ ~IsOwned(at[c]) /\ Unowned(at[c])
  <1>1. at[c] \in Handles /\ todo[c] \in Seq(Steps) /\ Work(c)
    BY DEF IInv, Types, AtWork
  <1>2. \A d \in Clients : at[c] \notin owned[d]
    BY <1>1 DEF IInv, Sole, Working
  <1>3. \A d \in Clients : d # c /\ pc[d] # "idle" => at[d] # at[c]
    BY <1>1 DEF IInv, Sole, Working
  <1> QED BY <1>1, <1>2, <1>3 DEF IInv, Contents, Content, IsOwned

\* Steps of a client from place to place with its handle, or that let go of it.
LEMMA PlacesOnly ==
  ASSUME IInv, NEW c \in Clients, NEW place \in Places, NEW s \in Seq(Steps),
         pc[c] # "idle", pc' = [pc EXCEPT ![c] = place], todo' = [todo EXCEPT ![c] = s],
         place # "idle" => UNCHANGED at,
         place = "idle" => at' = [at EXCEPT ![c] = None],
         place # "idle" => Work(c)',
         UNCHANGED <<held, handler, messages, unanswered, owned>>
  PROVE  IInv'
  <1>1. Types'
    BY DEF IInv, Types, Places
  <1>2. Sole'
    BY DEF IInv, Types, Sole, Working
  <1>3. Contents'
    BY Untouched DEF Contents, IsOwned
  <1>4. HandlerHasMemory'
    BY DEF IInv, HandlerHasMemory
  <1>5. ASSUME NEW d \in Clients, d # c
        PROVE  Work(d)'
    BY <1>5, Undisturbed DEF IInv, Types
  <1>6. Work(c)'
    <2>1. CASE place = "idle"
      BY <2>1 DEF IInv, Types, Work
    <2> QED BY <2>1
  <1> QED BY <1>1, <1>2, <1>3, <1>4, <1>5, <1>6 DEF IInv, AtWork

LEMMA CreateFails_Step ==
  ASSUME IInv, NEW c \in Clients, CreateFails(c)
  PROVE  IInv'
  <1>1. PICK s \in Seq(Steps) :
          /\ JoinFirst(s) /\ pc[c] = "load" /\ pc' = [pc EXCEPT ![c] = "undo"]
          /\ todo' = [todo EXCEPT ![c] = s]
          /\ UNCHANGED <<held, handler, messages, unanswered, owned, at>>
    BY UnloadOrder DEF CreateFails, handlerVars, IInv, Types
  <1>2. Work(c)'
    BY <1>1 DEF Work, IInv, Types
  <1> QED BY <1>1, <1>2, PlacesOnly DEF Places

LEMMA AppendLocks_Step ==
  ASSUME IInv, NEW c \in Clients, AppendLocks(c)
  PROVE  IInv'
  <1>1. /\ pc[c] = "load" /\ todo[c] = <<>> /\ pc' = [pc EXCEPT ![c] = "append"]
        /\ todo' = [todo EXCEPT ![c] = todo[c]]
        /\ UNCHANGED <<held, handler, messages, unanswered, owned, at>>
    BY DEF AppendLocks, Step, handlerVars, IInv, Types
  <1>2. Loading(at[c], <<>>) /\ pc'[c] = "append"
    BY <1>1, InHand DEF Work, IInv, Types
  <1>3. Work(c)'
    BY <1>1, <1>2 DEF Work, Loading, Runs
  <1> QED BY <1>1, <1>3, InHand, PlacesOnly DEF Places

LEMMA FreeUnlinks_Step ==
  ASSUME IInv, NEW c \in Clients, FreeUnlinks(c)
  PROVE  IInv'
  <1>1. PICK s \in Seq(Steps) :
          /\ JoinFirst(s) /\ pc[c] = "unlink" /\ pc' = [pc EXCEPT ![c] = "undo"]
          /\ todo' = [todo EXCEPT ![c] = s]
          /\ UNCHANGED <<held, handler, messages, unanswered, owned, at>>
    BY UnloadOrder DEF FreeUnlinks, Step, handlerVars, IInv, Types
  <1>2. Work(c)'
    BY <1>1 DEF Work, IInv, Types
  <1> QED BY <1>1, <1>2, PlacesOnly DEF Places

LEMMA Finish_Step ==
  ASSUME IInv, NEW c \in Clients, Finish(c)
  PROVE  IInv'
  <1>1. /\ pc[c] = "undo" /\ pc' = [pc EXCEPT ![c] = "idle"]
        /\ todo' = [todo EXCEPT ![c] = todo[c]] /\ at' = [at EXCEPT ![c] = None]
        /\ UNCHANGED <<held, handler, messages, unanswered, owned>>
    BY DEF Finish, Step, handlerVars, IInv, Types
  <1> QED BY <1>1, InHand, PlacesOnly DEF Places

LEMMA Wake_Step ==
  ASSUME IInv, NEW c \in Clients, Wake(c)
  PROVE  IInv'
  <1>1. /\ pc[c] = "undo" /\ pc' = [pc EXCEPT ![c] = "undo"]
        /\ todo[c] # <<>> /\ Head(todo[c]) = "wake"
        /\ todo' = [todo EXCEPT ![c] = Tail(todo[c])]
        /\ UNCHANGED <<held, handler, messages, unanswered, owned, at>>
    BY DEF Wake, Advance, IInv, Types
  <1>2. /\ ~Runs(at[c]) \/ (JoinFirst(Tail(todo[c])) /\ Tail(todo[c]) \in Seq(Steps))
        /\ Tail(todo[c]) \in Seq(Steps) /\ pc'[c] = "undo" /\ todo'[c] = Tail(todo[c])
    BY <1>1, InHand, OneLess DEF Work, IInv, Types
  <1>3. Work(c)'
    BY <1>1, <1>2 DEF Work, Runs
  <1> QED BY <1>1, <1>2, <1>3, PlacesOnly DEF Places

\* A component that is handed out is complete, and its thread waits for commands.
LEMMA Nothing ==
  /\ <<>> \in Seq(Steps) /\ <<>> \in Seq({"command", "deinit"}) /\ Len(<<>>) = 0
  /\ \A x : ~ToCome(<<>>, x)
  /\ ThreadLast(<<>>)
  <1>1. <<>> \in Seq(Steps) /\ <<>> \in Seq({"command", "deinit"}) /\ Len(<<>>) = 0
    BY EmptySeq
  <1> QED BY <1>1 DEF ToCome, ThreadLast

LEMMA AppendLinks_Step ==
  ASSUME IInv, NEW c \in Clients, AppendLinks(c)
  PROVE  IInv'
  <1>1. PICK h \in Handles :
          /\ pc[c] = "append" /\ at[c] = h /\ pc' = [pc EXCEPT ![c] = "idle"]
          /\ owned' = [owned EXCEPT ![c] = @ \cup {h}] /\ at' = [at EXCEPT ![c] = None]
          /\ UNCHANGED <<held, handler, messages, unanswered, todo>>
    BY DEF AppendLinks, Step, handlerVars, IInv, Types
  <1>2. /\ \A d \in Clients : h \notin owned[d]
        /\ \A d \in Clients : d # c /\ pc[d] # "idle" => at[d] # h
        /\ Unowned(h) /\ Loading(h, <<>>)
    BY <1>1, InHand DEF Work
  <1>3. Types'
    BY <1>1 DEF IInv, Types, Places
  <1>4. Sole'
    BY <1>1, <1>2 DEF IInv, Types, Sole, Working
  <1>5. Contents'
    <2>1. ASSUME NEW g \in Handles, g # h
          PROVE  Content(g)'
      BY <1>1, <2>1, Untouched DEF IInv, Types, IsOwned
    <2>2. IsOwned(h)'
      BY <1>1 DEF IsOwned, IInv, Types
    <2>3. Owned(h)'
      <3>1. Needed \subseteq held[h] /\ handler[h] = "waiting" /\ messages[h] = <<>>
        BY <1>2, Nothing DEF Loading
      <3> QED BY <1>1, <1>2, <3>1, Nothing DEF Owned, Unowned, Runs, Only
    <2>4. Content(h)'
      BY <2>2, <2>3 DEF Content
    <2> QED BY <2>1, <2>4 DEF Contents
  <1>6. AtWork'
    <2>1. ASSUME NEW d \in Clients, d # c
          PROVE  Work(d)'
      BY <1>1, <2>1, Undisturbed DEF IInv, Types
    <2>2. Work(c)'
      BY <1>1 DEF IInv, Types, Work
    <2> QED BY <2>1, <2>2 DEF AtWork
  <1>7. HandlerHasMemory'
    BY <1>1 DEF IInv, HandlerHasMemory
  <1> QED BY <1>3, <1>4, <1>5, <1>6, <1>7 DEF IInv

LEMMA FreeHandle_Step ==
  ASSUME IInv, NEW c \in Clients, FreeHandle(c)
  PROVE  IInv'
  <1>1. PICK h \in owned[c] :
          /\ pc[c] = "idle" /\ pc' = [pc EXCEPT ![c] = "unlink"] /\ unanswered[h] = 0
          /\ owned' = [owned EXCEPT ![c] = @ \ {h}] /\ at' = [at EXCEPT ![c] = h]
          /\ UNCHANGED <<held, handler, messages, unanswered, todo>>
    BY DEF FreeHandle, Step, handlerVars
  <1>2. /\ h \in Handles /\ messages[h] \in Seq({"command", "deinit"})
        /\ \A d \in Clients : d # c => h \notin owned[d]
        /\ \A d \in Clients : pc[d] # "idle" => at[d] # h
        /\ Owned(h)
    BY <1>1 DEF IInv, Types, Sole, Working, Contents, Content, IsOwned
  <1>3. Needed \subseteq held[h] /\ handler[h] = "waiting" /\ Len(messages[h]) = 0
    <2>1. Len(messages[h]) \in Nat
      BY <1>2
    <2>2. 0 = Len(messages[h]) + (IF handler[h] = "busy" THEN 1 ELSE 0)
      BY <1>1, <1>2 DEF Owned
    <2>3. CASE handler[h] = "busy"
      BY <2>1, <2>2, <2>3
    <2>4. CASE handler[h] # "busy"
      BY <1>2, <2>1, <2>2, <2>4 DEF Owned, Runs
    <2> QED BY <2>3, <2>4
  <1>4. messages[h] = <<>>
    BY <1>2, <1>3
  <1>5. Types'
    BY <1>1, <1>2 DEF IInv, Types, Places
  <1>6. Sole'
    BY <1>1, <1>2 DEF IInv, Types, Sole, Working
  <1>7. Contents'
    <2>1. ASSUME NEW g \in Handles, g # h
          PROVE  Content(g)'
      BY <1>1, <2>1, Untouched DEF IInv, Types, IsOwned
    <2>2. ~IsOwned(h)'
      BY <1>1, <1>2 DEF IsOwned, IInv, Types
    <2>3. Unowned(h)'
      BY <1>1, <1>3 DEF Unowned, Only
    <2>4. Content(h)'
      BY <2>2, <2>3 DEF Content
    <2> QED BY <2>1, <2>4 DEF Contents
  <1>8. AtWork'
    <2>1. ASSUME NEW d \in Clients, d # c
          PROVE  Work(d)'
      BY <1>1, <2>1, Undisturbed DEF IInv, Types
    <2>2. pc'[c] = "unlink" /\ at'[c] = h
      BY <1>1 DEF IInv, Types
    <2>3. Work(c)'
      BY <1>1, <1>3, <1>4, <2>2, Nothing DEF Work, Loading
    <2> QED BY <2>1, <2>3 DEF AtWork
  <1>9. HandlerHasMemory'
    BY <1>1 DEF IInv, HandlerHasMemory
  <1> QED BY <1>5, <1>6, <1>7, <1>8, <1>9 DEF IInv

\* A destruction changes what its own handle holds, and its thread.
Destroys(c, h) ==
  /\ pc[c] = "undo" /\ at[c] = h /\ todo[c] # <<>> /\ todo' = [todo EXCEPT ![c] = Tail(@)]
  /\ UNCHANGED <<unanswered, owned, pc, at>>
  /\ held' \in [Handles -> SUBSET Steps]
  /\ messages' \in [Handles -> Seq({"command", "deinit"})]
  /\ handler' \in [Handles -> {None, "waiting", "busy", "gone"}]
  /\ \A g \in Handles : g # h => /\ held'[g] = held[g] /\ messages'[g] = messages[g]
                                 /\ handler'[g] = handler[g]
  /\ \A i \in 1..Len(messages'[h]) : messages'[h][i] = "deinit"
  /\ handler'[h] \in {handler[h], None}
  /\ handler'[h] = "waiting" => /\ {"base", "sema"} \cap held[h] \subseteq held'[h]
                                /\ Head(todo[c]) # "join"

LEMMA Destroying ==
  ASSUME IInv, NEW c \in Clients, NEW h \in Handles, Destroys(c, h)
  PROVE  IInv'
  <1>1. /\ \A d \in Clients : h \notin owned[d]
        /\ \A d \in Clients : d # c /\ pc[d] # "idle" => at[d] # h
        /\ Unowned(h) /\ ~IsOwned(h) /\ Work(c) /\ todo[c] \in Seq(Steps)
    BY InHand DEF Destroys
  <1>2. handler'[h] # "busy"
    BY <1>1 DEF Destroys, Unowned, None
  <1>3. Types'
    BY <1>1, OneLess DEF Destroys, IInv, Types
  <1>4. Sole'
    BY DEF Destroys, IInv, Sole, Working
  <1>5. Contents'
    <2>1. ASSUME NEW g \in Handles, g # h
          PROVE  Content(g)'
      BY <2>1, Untouched DEF Destroys, IsOwned
    <2>2. Content(h)'
      BY <1>1, <1>2 DEF Destroys, Content, IsOwned, Unowned, Only
    <2> QED BY <2>1, <2>2 DEF Contents
  <1>6. AtWork'
    <2>1. ASSUME NEW d \in Clients, d # c
          PROVE  Work(d)'
      BY <1>1, <2>1, Undisturbed DEF Destroys, IInv, Types
    <2>2. todo'[c] = Tail(todo[c])
      BY DEF Destroys, IInv, Types
    <2>3. Runs(h)' => JoinFirst(Tail(todo[c]))
      BY <1>1, <1>2, OneLess DEF Destroys, Work, Runs, None
    <2>4. Work(c)'
      BY <2>2, <2>3 DEF Destroys, Work, Runs
    <2> QED BY <2>1, <2>4 DEF AtWork
  <1>7. HandlerHasMemory'
    BY <1>2 DEF Destroys, IInv, HandlerHasMemory, None
  <1> QED BY <1>3, <1>4, <1>5, <1>6, <1>7 DEF IInv

\* No memory is released before the thread has been joined.
LEMMA Release_Step ==
  ASSUME IInv, NEW c \in Clients, Release(c)
  PROVE  IInv'
  <1>1. PICK h \in Handles, x \in Steps :
          /\ pc[c] = "undo" /\ at[c] = h /\ todo[c] # <<>> /\ x = Head(todo[c]) /\ x # "join"
          /\ held' = [held EXCEPT ![h] = @ \ {x}]
          /\ todo' = [todo EXCEPT ![c] = Tail(@)]
          /\ UNCHANGED <<handler, messages, unanswered, owned, pc, at>>
    BY InHand, OneLess DEF Release, Advance, handlerVars
  <1>2. /\ Unowned(h) /\ Work(c) /\ todo[c] \in Seq(Steps)
        /\ messages[h] \in Seq({"command", "deinit"}) /\ held[h] \in SUBSET Steps
        /\ handler[h] \in {None, "waiting", "busy", "gone"}
    BY <1>1, InHand DEF IInv, Types
  <1>3. handler[h] = "waiting" => x \notin {"base", "sema"}
    BY <1>1, <1>2, OneLess DEF Work, Runs
  <1>4. /\ held'[h] = held[h] \ {x} /\ \A g \in Handles : g # h => held'[g] = held[g]
        /\ held' \in [Handles -> SUBSET Steps]
        /\ messages \in [Handles -> Seq({"command", "deinit"})]
        /\ handler \in [Handles -> {None, "waiting", "busy", "gone"}]
    BY <1>1 DEF IInv, Types
  <1>5. handler[h] = "waiting" => {"base", "sema"} \cap held[h] \subseteq held'[h]
    BY <1>3, <1>4
  <1>6. \A i \in 1..Len(messages[h]) : messages[h][i] = "deinit"
    BY <1>2 DEF Unowned, Only
  <1>7. Destroys(c, h)
    BY <1>1, <1>4, <1>5, <1>6 DEF Destroys
  <1> QED BY <1>7, Destroying

\* The command that ends the thread is queued.
LEMMA Ask_Step ==
  ASSUME IInv, NEW c \in Clients, Ask(c)
  PROVE  IInv'
  <1>1. PICK h \in Handles :
          /\ pc[c] = "undo" /\ at[c] = h /\ todo[c] # <<>> /\ Head(todo[c]) = "ask"
          /\ messages' = [messages EXCEPT ![h] = Append(@, "deinit")]
          /\ todo' = [todo EXCEPT ![c] = Tail(@)]
          /\ UNCHANGED <<held, handler, unanswered, owned, pc, at>>
    BY InHand DEF Ask, AskToExit, Advance
  <1>2. /\ Unowned(h) /\ messages[h] \in Seq({"command", "deinit"}) /\ held[h] \in SUBSET Steps
    BY <1>1, InHand DEF IInv, Types
  <1> DEFINE m == Append(messages[h], "deinit")
  <1>3. /\ m \in Seq({"command", "deinit"}) /\ Len(m) = Len(messages[h]) + 1
        /\ \A i \in 1..Len(messages[h]) : m[i] = messages[h][i]
        /\ m[Len(messages[h]) + 1] = "deinit"
    BY <1>2, AppendProperties
  <1>4. \A i \in 1..Len(m) : m[i] = "deinit"
    BY <1>2, <1>3, LenProperties DEF Unowned, Only
  <1>5. /\ messages'[h] = m /\ \A g \in Handles : g # h => messages'[g] = messages[g]
        /\ held \in [Handles -> SUBSET Steps]
        /\ messages' \in [Handles -> Seq({"command", "deinit"})]
        /\ handler \in [Handles -> {None, "waiting", "busy", "gone"}]
    BY <1>1, <1>3 DEF IInv, Types
  <1> HIDE DEF m
  <1>6. Destroys(c, h)
    BY <1>1, <1>4, <1>5 DEF Destroys
  <1> QED BY <1>6, Destroying

LEMMA Join_Step ==
  ASSUME IInv, NEW c \in Clients, Join(c)
  PROVE  IInv'
  <1>1. PICK h \in Handles :
          /\ pc[c] = "undo" /\ at[c] = h /\ todo[c] # <<>>
          /\ held' = [held EXCEPT ![h] = @ \ {"thread"}]
          /\ handler' = [handler EXCEPT ![h] = None]
          /\ todo' = [todo EXCEPT ![c] = Tail(@)]
          /\ UNCHANGED <<messages, unanswered, owned, pc, at>>
    BY InHand DEF Join, Advance
  <1>2. /\ Unowned(h) /\ messages[h] \in Seq({"command", "deinit"}) /\ held[h] \in SUBSET Steps
    BY <1>1, InHand DEF IInv, Types
  <1>3. /\ \A g \in Handles : g # h => held'[g] = held[g] /\ handler'[g] = handler[g]
        /\ handler'[h] = None /\ held' \in [Handles -> SUBSET Steps]
        /\ messages \in [Handles -> Seq({"command", "deinit"})]
        /\ handler' \in [Handles -> {None, "waiting", "busy", "gone"}]
    BY <1>1 DEF IInv, Types
  <1>4. None # "waiting"
    BY DEF None
  <1>5. \A i \in 1..Len(messages[h]) : messages[h][i] = "deinit"
    BY <1>2 DEF Unowned, Only
  <1>6. Destroys(c, h)
    BY <1>1, <1>3, <1>4, <1>5 DEF Destroys
  <1> QED BY <1>6, Destroying

-----------------------------------------------------------------------------
\* Commands, and the message handler thread: steps that change no place of a client.
Serves(h) ==
  /\ UNCHANGED <<held, owned, pc, at, todo>>
  /\ messages' \in [Handles -> Seq({"command", "deinit"})]
  /\ handler' \in [Handles -> {None, "waiting", "busy", "gone"}]
  /\ unanswered' \in [Handles -> Nat]
  /\ \A g \in Handles : g # h => /\ messages'[g] = messages[g] /\ handler'[g] = handler[g]
                                 /\ unanswered'[g] = unanswered[g]
  /\ Content(h)'
  /\ Runs(h)' => Runs(h)
  /\ ~IsOwned(h) /\ handler[h] = "waiting" /\ messages[h] = <<>> =>
       messages'[h] = <<>> /\ handler'[h] = "waiting"

LEMMA Serving ==
  ASSUME IInv, NEW h \in Handles, Serves(h)
  PROVE  IInv'
  <1>1. Types'
    BY DEF Serves, IInv, Types
  <1>2. Sole'
    BY DEF Serves, IInv, Sole, Working
  <1>3. Contents'
    <2>1. ASSUME NEW g \in Handles, g # h
          PROVE  Content(g)'
      BY <2>1, Untouched DEF Serves, IsOwned
    <2> QED BY <2>1 DEF Serves, Contents
  <1>4. AtWork'
    <2> SUFFICES ASSUME NEW d \in Clients
                 PROVE  Work(d)'
      BY DEF AtWork
    <2>1. CASE pc[d] = "idle" \/ at[d] # h
      BY <2>1, Undisturbed DEF Serves, IInv, Types
    <2>2. CASE pc[d] # "idle" /\ at[d] = h
      <3>1. ~IsOwned(h) /\ Work(d)
        BY <2>2, InHand
      <3>2. ~Runs(h) => ~Runs(h)'
        BY DEF Serves
      <3>3. ASSUME NEW s, Loading(h, s)
            PROVE  Loading(h, s)'
        BY <3>1, <3>2, <3>3 DEF Serves, Loading
      <3>4. pc'[d] = pc[d] /\ at'[d] = h /\ todo'[d] = todo[d]
        BY <2>2 DEF Serves
      <3>5. (pc[d] = "load" => Loading(h, todo[d])') /\
            (pc[d] \in {"append", "unlink"} => Loading(h, <<>>)')
        BY <2>2, <3>1, <3>3, <3>4 DEF Work, Loading
      <3> QED BY <2>2, <3>1, <3>2, <3>4, <3>5 DEF Work, Loading, Runs
    <2> QED BY <2>1, <2>2
  <1>5. HandlerHasMemory'
    <2>1. handler'[h] = "busy" => Needed \subseteq held[h]
      BY DEF Serves, Content, Owned, Unowned
    <2>2. handler'[h] \in {"waiting", "busy"} => {"base", "sema"} \subseteq held[h]
      BY DEF Serves, Runs, IInv, HandlerHasMemory
    <2> QED BY <2>1, <2>2 DEF Serves, IInv, HandlerHasMemory, Needed
  <1> QED BY <1>1, <1>2, <1>3, <1>4, <1>5 DEF IInv

LEMMA Send_Step ==
  ASSUME IInv, NEW c \in Clients, Send(c)
  PROVE  IInv'
  <1>1. PICK h \in owned[c] :
          /\ messages' = [messages EXCEPT ![h] = Append(@, "command")]
          /\ unanswered' = [unanswered EXCEPT ![h] = @ + 1]
          /\ UNCHANGED <<held, handler, owned, pc, at, todo>>
    BY DEF Send
  <1>2. /\ h \in Handles /\ messages[h] \in Seq({"command", "deinit"}) /\ IsOwned(h)
        /\ unanswered[h] \in Nat /\ handler[h] \in {None, "waiting", "busy", "gone"}
    BY <1>1 DEF IInv, Types, IsOwned
  <1>3. Owned(h) /\ IsOwned(h)'
    BY <1>1, <1>2 DEF IInv, Contents, Content, IsOwned
  <1> DEFINE m == Append(messages[h], "command")
  <1>4. /\ m \in Seq({"command", "deinit"}) /\ Len(m) = Len(messages[h]) + 1
        /\ \A i \in 1..Len(messages[h]) : m[i] = messages[h][i]
        /\ m[Len(messages[h]) + 1] = "command" /\ Len(messages[h]) \in Nat
    BY <1>2, AppendProperties, LenProperties
  <1>5. \A i \in 1..Len(m) : m[i] = "command"
    BY <1>3, <1>4 DEF Owned, Only
  <1>6. messages'[h] = m /\ unanswered'[h] = unanswered[h] + 1 /\ handler'[h] = handler[h]
    BY <1>1, <1>2 DEF IInv, Types
  <1>7. /\ messages' \in [Handles -> Seq({"command", "deinit"})]
        /\ unanswered' \in [Handles -> Nat]
        /\ \A g \in Handles : g # h => messages'[g] = messages[g]
                                      /\ unanswered'[g] = unanswered[g]
    BY <1>1, <1>2, <1>4 DEF IInv, Types
  <1> HIDE DEF m
  <1>8. unanswered'[h] = Len(m) + (IF handler[h] = "busy" THEN 1 ELSE 0)
    <2>1. unanswered[h] = Len(messages[h]) + (IF handler[h] = "busy" THEN 1 ELSE 0)
      BY <1>3 DEF Owned
    <2>2. CASE handler[h] = "busy"
      BY <1>2, <1>4, <1>6, <2>1, <2>2
    <2>3. CASE handler[h] # "busy"
      BY <1>2, <1>4, <1>6, <2>1, <2>3
    <2> QED BY <2>2, <2>3
  <1>9. Content(h)'
    BY <1>1, <1>3, <1>5, <1>6, <1>8 DEF Content, Owned, Only, Runs
  <1>10. Serves(h)
    BY <1>1, <1>2, <1>6, <1>7, <1>9 DEF Serves, Runs, IInv, Types
  <1> QED BY <1>2, <1>10, Serving

LEMMA Answer_Step ==
  ASSUME IInv, NEW h \in Handles, Answer(h)
  PROVE  IInv'
  <1>1. /\ handler[h] = "busy" /\ handler' = [handler EXCEPT ![h] = "waiting"]
        /\ unanswered' = [unanswered EXCEPT ![h] = @ - 1]
        /\ UNCHANGED <<held, messages, owned, pc, at, todo>>
    BY DEF Answer, HandlerSame
  <1>2. IsOwned(h) /\ Owned(h) /\ IsOwned(h)'
    BY <1>1 DEF IInv, Contents, Content, Unowned, IsOwned
  <1>3. /\ Len(messages[h]) \in Nat /\ handler'[h] = "waiting"
        /\ unanswered'[h] = unanswered[h] - 1
        /\ unanswered[h] = Len(messages[h]) + 1
    <2>1. messages[h] \in Seq({"command", "deinit"})
      BY DEF IInv, Types
    <2>2. Len(messages[h]) \in Nat
      BY <2>1
    <2>3. unanswered[h] = Len(messages[h]) + 1
      BY <1>1, <1>2 DEF Owned
    <2> QED BY <1>1, <2>2, <2>3 DEF IInv, Types
  <1>4. Content(h)'
    <2>1. unanswered'[h] = Len(messages'[h]) + 0
      BY <1>1, <1>3
    <2>2. handler'[h] # "busy" /\ Runs(h)' /\ Only(h, "command")'
      BY <1>1, <1>2, <1>3 DEF Runs, Owned, Only
    <2> QED BY <1>1, <1>2, <2>1, <2>2 DEF Content, Owned
  <1>5. Serves(h)
    BY <1>1, <1>2, <1>3, <1>4 DEF Serves, Runs, IInv, Types
  <1> QED BY <1>5, Serving

LEMMA Handle_Step ==
  ASSUME IInv, NEW h \in Handles, Handle(h)
  PROVE  IInv'
  <1>1. /\ handler[h] = "waiting" /\ messages[h] \in Seq({"command", "deinit"})
        /\ UNCHANGED <<held, owned, pc, at, todo, unanswered>>
        /\ IsOwned(h)' = IsOwned(h)
    BY DEF Handle, HandlerSame, IInv, Types, IsOwned
  <1>2. CASE messages[h] = <<>>
    <2>1. UNCHANGED <<handler, messages>>
      BY <1>2 DEF Handle
    <2>2. Content(h)'
      BY <1>1, <2>1, Untouched
    <2>3. Serves(h)
      BY <1>1, <2>1, <2>2 DEF Serves, Runs, IInv, Types
    <2> QED BY <2>3, Serving
  <1>3. CASE messages[h] # <<>>
    <2> DEFINE x == Head(messages[h])
    <2>1. /\ messages' = [messages EXCEPT ![h] = Tail(@)]
          /\ handler' = [handler EXCEPT ![h] = IF x = "deinit" THEN "gone" ELSE "busy"]
      BY <1>3 DEF Handle
    <2>2. /\ Len(messages[h]) \in Nat \ {0} /\ x = messages[h][1]
          /\ Tail(messages[h]) \in Seq({"command", "deinit"})
          /\ Len(Tail(messages[h])) = Len(messages[h]) - 1
          /\ \A i \in 1..Len(messages[h]) - 1 : Tail(messages[h])[i] = messages[h][i + 1]
      BY <1>1, <1>3
    <2>3. /\ messages'[h] = Tail(messages[h])
          /\ handler'[h] = (IF x = "deinit" THEN "gone" ELSE "busy")
      BY <2>1 DEF IInv, Types
    <2>4. CASE IsOwned(h)
      <3>1. Owned(h)
        BY <2>4 DEF IInv, Contents, Content
      <3>2. handler'[h] = "busy" /\ unanswered[h] = Len(messages[h])
        <4>1. x = "command"
          BY <2>2, <3>1 DEF Owned, Only
        <4>2. unanswered[h] = Len(messages[h]) + 0
          BY <1>1, <3>1 DEF Owned
        <4> QED BY <2>2, <2>3, <4>1, <4>2
      <3>3. Only(h, "command")'
        BY <2>2, <2>3, <3>1 DEF Owned, Only
      <3>4. Content(h)'
        <4>1. unanswered'[h] = Len(messages'[h]) + 1
          BY <1>1, <2>2, <2>3, <3>2
        <4> QED BY <1>1, <2>4, <3>1, <3>2, <3>3, <4>1 DEF Content, Owned, Runs
      <3>5. Serves(h)
        BY <1>1, <1>3, <2>1, <2>2, <3>2, <3>4 DEF Serves, Runs, IInv, Types
      <3> QED BY <3>5, Serving
    <2>5. CASE ~IsOwned(h)
      <3>1. Unowned(h)
        BY <2>5 DEF IInv, Contents, Content
      <3>2. handler'[h] = "gone"
        BY <2>2, <2>3, <3>1 DEF Unowned, Only
      <3>3. Only(h, "deinit")'
        BY <2>2, <2>3, <3>1 DEF Unowned, Only
      <3>4. Content(h)'
        BY <1>1, <2>5, <3>1, <3>2, <3>3 DEF Content, Unowned
      <3>5. Serves(h)
        BY <1>1, <1>3, <2>1, <2>2, <3>2, <3>4 DEF Serves, Runs, IInv, Types
      <3> QED BY <3>5, Serving
    <2> QED BY <2>4, <2>5
  <1> QED BY <1>2, <1>3

\* Steps that touch nothing of a handle.
LEMMA Still ==
  ASSUME IInv, UNCHANGED <<held, handler, messages, unanswered, owned, pc, at, todo>>
  PROVE  IInv'
  BY DEF IInv, Types, Sole, Working, Contents, Content, IsOwned, Owned, Unowned, Only, Runs,
     AtWork, Work, Loading, HandlerHasMemory

LEMMA NextInv == IInv /\ [Next]_vars => IInv'
  <1> SUFFICES ASSUME IInv, [Next]_vars
               PROVE  IInv'
    OBVIOUS
  <1>1. CASE OmxInit \/ OmxDeinit
    BY <1>1, Still DEF OmxInit, OmxDeinit, handlerVars
  <1>2. ASSUME NEW c \in Clients,
               GetHandle(c) \/ FreeHandle(c) \/ CreateFails(c) \/ Send(c) \/ ClientStep(c)
        PROVE  IInv'
    BY <1>2, GetHandle_Step, FreeHandle_Step, CreateFails_Step, Send_Step, AppendLinks_Step,
       AppendLocks_Step, FreeUnlinks_Step, Create_Step, Release_Step, Ask_Step, Wake_Step,
       Join_Step, Finish_Step DEF ClientStep
  <1>3. ASSUME NEW h \in Handles, HandlerStep(h)
        PROVE  IInv'
    BY <1>3, Handle_Step, Answer_Step DEF HandlerStep
  <1>4. CASE UNCHANGED vars
    BY <1>4, Still DEF vars, handlerVars
  <1> QED BY <1>1, <1>2, <1>3, <1>4 DEF Next

-----------------------------------------------------------------------------
\* The message handler thread runs only while the component's memory and its semaphore
\* are allocated, and carries out commands only on ports and a codec that are there
\* (SEC_OMX_GetHandle, SEC_OMX_FreeHandle, the constructors and destructors), whichever
\* creations fail and however many clients there are.
THEOREM Alive == Spec => []HandlerHasMemory
  <1>1. IInv => HandlerHasMemory
    BY DEF IInv
  <1> QED BY <1>1, InitInv, NextInv, PTL DEF Spec

-----------------------------------------------------------------------------
(* The list of the handles.                                                     *)

Listed(h) == \E i \in 1..Len(list) : list[i] = h
ListTypes ==
  /\ initialized \in BOOLEAN /\ listMutex \in Clients \cup {"free"}
  /\ list \in Seq(Handles) /\ sema \in [Handles -> Nat]

\* Who changes the list holds its mutex, and has read the list as it is.
Locked == \A c \in Clients : pc[c] \in {"append", "unlink"} => listMutex = c /\ seen = list
\* SEC_OMX_Init makes the mutex when nobody can hold it.
Before == ~initialized => \A c \in Clients : pc[c] = "idle"

\* No handle is in the list twice, and the handles there are those that somebody has or
\* is taking out.
Distinct(s) == \A i, j \in 1..Len(s) : s[i] = s[j] => i = j
Leaving(h) == \E c \in Clients : pc[c] = "unlink" /\ at[c] = h
Entries == \A h \in Handles : Listed(h) <=> IsOwned(h) \/ Leaving(h)

ListInv == ListTypes /\ Locked /\ Before /\ Distinct(list) /\ Entries

\* What is left of a list without one of its elements.
Cut(s, k) == SubSeq(s, 1, k - 1) \o SubSeq(s, k + 1, Len(s))
LEMMA CutOut ==
  ASSUME NEW S, NEW s \in Seq(S), Distinct(s), NEW k \in 1..Len(s)
  PROVE  /\ Cut(s, k) \in Seq(S) /\ Distinct(Cut(s, k))
         /\ \A g : (\E i \in 1..Len(Cut(s, k)) : Cut(s, k)[i] = g)
                     <=> g # s[k] /\ \E i \in 1..Len(s) : s[i] = g
  <1> DEFINE h == s[k]
             front == SubSeq(s, 1, k - 1)
             back == SubSeq(s, k + 1, Len(s))
             glued == front \o back
  <1>1. Len(s) \in Nat /\ DOMAIN s = 1..Len(s) /\ \A i \in 1..Len(s) : s[i] \in S
    BY LenProperties, ElementOfSeq
  <1>2. \A i \in 1..Len(s) : s[i] = h => i = k
    BY <1>1 DEF Distinct
  <1>3. Cut(s, k) = glued
    BY DEF Cut
  <1>5. /\ front \in Seq(S) /\ Len(front) = k - 1
        /\ \A i \in 1..(k - 1) : front[i] = s[i]
    <2>1. k - 1 \in Int /\ 1 \in Int /\ \A i \in 1..(k - 1) : s[i] \in S
      BY <1>1
    <2> QED BY <2>1, <1>1, SubSeqProperties
  <1>6. /\ back \in Seq(S) /\ Len(back) = Len(s) - k
        /\ \A i \in 1..(Len(s) - k) : back[i] = s[k + i]
    <2>1. k + 1 \in Int /\ Len(s) \in Int /\ \A i \in (k + 1)..Len(s) : s[i] \in S
      BY <1>1
    <2>2. \A i \in 1..(Len(s) - k) : i \in 1..(Len(s) - (k + 1) + 1) /\ (k + 1) + i - 1 = k + i
      BY <1>1
    <2>3. /\ back \in Seq(S)
          /\ Len(back) = IF k + 1 <= Len(s) THEN Len(s) - (k + 1) + 1 ELSE 0
          /\ \A i \in 1..(Len(s) - (k + 1) + 1) : back[i] = s[(k + 1) + i - 1]
      BY <2>1, SubSeqProperties
    <2> HIDE DEF back
    <2>4. Len(back) = Len(s) - k
      <3>1. k \in Nat /\ k <= Len(s) /\ Len(s) \in Nat
        BY <1>1
      <3>2. CASE k + 1 <= Len(s)
        BY <2>3, <3>1, <3>2
      <3>3. CASE ~(k + 1 <= Len(s))
        BY <2>3, <3>1, <3>3
      <3> QED BY <3>2, <3>3
    <2> QED BY <2>2, <2>3, <2>4
  <1> HIDE DEF front, back
  <1>7. /\ glued \in Seq(S) /\ Len(glued) = Len(s) - 1
        /\ \A i \in 1..(Len(s) - 1) : glued[i] = IF i <= k - 1 THEN s[i] ELSE s[i + 1]
    <2>1. /\ glued \in Seq(S) /\ Len(glued) = Len(front) + Len(back)
          /\ \A i \in 1..(Len(front) + Len(back)) :
               glued[i] = IF i <= Len(front) THEN front[i] ELSE back[i - Len(front)]
      BY <1>5, <1>6, ConcatProperties, Zenon
    <2>2. Len(front) + Len(back) = Len(s) - 1
      BY <1>1, <1>5, <1>6
    <2> HIDE DEF glued
    <2>3. ASSUME NEW i \in 1..(Len(s) - 1)
          PROVE  glued[i] = IF i <= k - 1 THEN s[i] ELSE s[i + 1]
      <3>1. CASE i <= k - 1
        BY <1>1, <1>5, <2>1, <2>2, <3>1
      <3>2. CASE ~(i <= k - 1)
        <4>1. i - (k - 1) \in 1..(Len(s) - k) /\ k + (i - (k - 1)) = i + 1
          BY <1>1, <3>2
        <4> QED BY <1>1, <1>5, <1>6, <2>1, <2>2, <3>2, <4>1
      <3> QED BY <3>1, <3>2
    <2> QED BY <2>1, <2>2, <2>3
  <1> HIDE DEF glued
  <1>8. Distinct(glued)
    BY <1>1, <1>7 DEF Distinct
  <1>9. ASSUME NEW g
        PROVE  (\E i \in 1..Len(glued) : glued[i] = g) <=> g # h /\ \E i \in 1..Len(s) : s[i] = g
    <2>1. ASSUME NEW i \in 1..Len(glued), glued[i] = g
          PROVE  g # h /\ \E j \in 1..Len(s) : s[j] = g
      BY <1>1, <1>7, <2>1 DEF Distinct
    <2>2. ASSUME g # h, NEW i \in 1..Len(s), s[i] = g
          PROVE  \E j \in 1..Len(glued) : glued[j] = g
      <3>1. CASE i < k
        <4>1. i \in 1..Len(glued) /\ glued[i] = g
          BY <1>1, <1>7, <2>2, <3>1
        <4> QED BY <4>1
      <3>2. CASE i > k
        <4>1. i - 1 \in 1..Len(glued) /\ glued[i - 1] = g
          BY <1>1, <1>7, <2>2, <3>2
        <4> QED BY <4>1
      <3> QED BY <1>1, <2>2, <3>1, <3>2
    <2> QED BY <2>1, <2>2
  <1> QED BY <1>3, <1>7, <1>8, <1>9

\* What FreeHandle leaves of the list.
LEMMA Removal ==
  ASSUME NEW s \in Seq(Handles), Distinct(s), NEW k \in 1..Len(s)
  PROVE  /\ Without(s, s[k]) \in Seq(Handles) /\ Distinct(Without(s, s[k]))
         /\ \A g : (\E i \in 1..Len(Without(s, s[k])) : Without(s, s[k])[i] = g)
                     <=> g # s[k] /\ \E i \in 1..Len(s) : s[i] = g
  <1> DEFINE h == s[k]
             P(i) == s[i] = h /\ \A j \in 1..(i - 1) : s[j] # h
             n == CHOOSE i \in DOMAIN s : P(i)
  <1>1. Len(s) \in Nat /\ DOMAIN s = 1..Len(s) /\ \A i \in 1..Len(s) : s[i] \in Handles
    BY LenProperties, ElementOfSeq
  <1>2. P(k) /\ \A i \in 1..Len(s) : P(i) => i = k
    BY <1>1 DEF Distinct
  <1>3. n = k
    <2>1. \E i \in DOMAIN s : P(i)
      BY <1>1, <1>2
    <2>2. n \in DOMAIN s /\ P(n)
      <3> HIDE DEF P
      <3> QED BY <2>1, Zenon
    <2> HIDE DEF P
    <2> QED BY <1>1, <1>2, <2>2
  <1>4. Without(s, h) = Cut(s, k)
    BY <1>3 DEF Without, Cut
  <1> HIDE DEF n, P
  <1>5. /\ Cut(s, k) \in Seq(Handles) /\ Distinct(Cut(s, k))
        /\ \A g : (\E i \in 1..Len(Cut(s, k)) : Cut(s, k)[i] = g)
                    <=> g # h /\ \E i \in 1..Len(s) : s[i] = g
    BY CutOut
  <1> QED BY <1>4, <1>5

\* Steps that leave the list, its mutex and who has what as they are.
LEMMA SameList ==
  ASSUME IInv, ListInv, sema' \in [Handles -> Nat],
         UNCHANGED <<initialized, list, listMutex, seen, owned>>,
         \A c \in Clients : pc'[c] \in {"append", "unlink"} <=> pc[c] \in {"append", "unlink"},
         \A c \in Clients : pc[c] = "unlink" => pc'[c] = "unlink" /\ at'[c] = at[c],
         \A c \in Clients : pc'[c] = "unlink" => pc[c] = "unlink",
         \A c \in Clients : ~initialized /\ pc[c] = "idle" => pc'[c] = "idle"
  PROVE  ListInv'
  <1>1. ListTypes' /\ Locked' /\ Before' /\ Distinct(list)'
    BY DEF ListInv, ListTypes, Locked, Before, Distinct
  <1>2. Entries'
    BY DEF ListInv, Entries, Listed, IsOwned, Leaving
  <1> QED BY <1>1, <1>2 DEF ListInv

LEMMA InitList == Init => ListInv
  <1>1. <<>> \in Seq(Handles) /\ Len(<<>>) = 0
    BY EmptySeq
  <1> SUFFICES ASSUME Init
               PROVE  ListInv
    OBVIOUS
  <1>2. ListTypes
    BY <1>1 DEF Init, ListTypes
  <1>3. Locked /\ Before /\ Distinct(list)
    BY <1>1 DEF Init, Locked, Before, Distinct
  <1>4. Entries
    BY <1>1 DEF Init, Entries, Listed, IsOwned, Leaving
  <1> QED BY <1>2, <1>3, <1>4 DEF ListInv

LEMMA OmxInit_List == ASSUME IInv, ListInv, OmxInit  PROVE  ListInv'
  <1>1. ListTypes' /\ Locked' /\ Before' /\ Distinct(list)'
    BY DEF OmxInit, handlerVars, ListInv, ListTypes, Locked, Before, Distinct
  <1>2. Entries'
    BY DEF OmxInit, ListInv, Entries, Listed, IsOwned, Leaving
  <1> QED BY <1>1, <1>2 DEF ListInv

LEMMA OmxDeinit_List == ASSUME IInv, ListInv, OmxDeinit  PROVE  ListInv'
  <1>1. ListTypes' /\ Locked' /\ Before' /\ Distinct(list)'
    BY DEF OmxDeinit, Quiet, handlerVars, ListInv, ListTypes, Locked, Before, Distinct
  <1>2. Entries'
    BY DEF OmxDeinit, ListInv, Entries, Listed, IsOwned, Leaving
  <1> QED BY <1>1, <1>2 DEF ListInv

\* The list as the client that holds its mutex has read it.
LEMMA Reading ==
  ASSUME IInv, ListInv, NEW c \in Clients, initialized, listMutex = "free",
         pc[c] \in {"load", "idle"}, NEW place \in {"append", "unlink"},
         listMutex' = c, seen' = list, pc' = [pc EXCEPT ![c] = place],
         UNCHANGED <<initialized, list, sema>>
  PROVE  ListTypes' /\ Locked' /\ Before' /\ Distinct(list)'
  <1>1. \A d \in Clients : pc[d] \notin {"append", "unlink"}
    BY CoreAssumption DEF ListInv, Locked
  <1>2. \A d \in Clients : pc'[d] = IF d = c THEN place ELSE pc[d]
    BY DEF IInv, Types
  <1>3. Locked'
    BY <1>1, <1>2 DEF Locked
  <1>4. ListTypes' /\ Before' /\ Distinct(list)'
    BY DEF ListInv, ListTypes, Before, Distinct
  <1> QED BY <1>3, <1>4

\* And as it has changed it.
LEMMA Writing ==
  ASSUME IInv, ListInv, NEW c \in Clients, pc[c] \in {"append", "unlink"},
         NEW place \in {"idle", "undo"}, listMutex' = "free", pc' = [pc EXCEPT ![c] = place],
         list' \in Seq(Handles), Distinct(list)', UNCHANGED <<initialized, sema>>
  PROVE  ListTypes' /\ Locked' /\ Before'
  <1>1. \A d \in Clients : d # c => pc[d] \notin {"append", "unlink"}
    BY DEF ListInv, Locked
  <1>2. \A d \in Clients : pc'[d] = IF d = c THEN place ELSE pc[d]
    BY DEF IInv, Types
  <1>3. Locked'
    BY <1>1, <1>2 DEF Locked
  <1>4. ListTypes' /\ Before'
    BY DEF ListInv, ListTypes, Before
  <1> QED BY <1>3, <1>4

LEMMA AppendLocks_List ==
  ASSUME IInv, ListInv, NEW c \in Clients, AppendLocks(c)
  PROVE  ListInv'
  <1>1. /\ pc[c] = "load" /\ pc' = [pc EXCEPT ![c] = "append"] /\ listMutex = "free"
        /\ listMutex' = c /\ seen' = list /\ UNCHANGED <<initialized, list, sema, owned, at>>
    BY DEF AppendLocks, Step, CanLock, handlerVars
  <1>2. initialized
    BY <1>1 DEF ListInv, Before
  <1>3. ListTypes' /\ Locked' /\ Before' /\ Distinct(list)'
    BY <1>1, <1>2, Reading
  <1>4. \A h : Leaving(h)' <=> Leaving(h)
    BY <1>1 DEF Leaving, IInv, Types
  <1>5. Entries'
    BY <1>1, <1>4 DEF ListInv, Entries, Listed, IsOwned
  <1> QED BY <1>3, <1>5 DEF ListInv

LEMMA FreeHandle_List ==
  ASSUME IInv, ListInv, NEW c \in Clients, FreeHandle(c)
  PROVE  ListInv'
  <1>1. PICK h \in owned[c] :
          /\ initialized /\ pc[c] = "idle" /\ pc' = [pc EXCEPT ![c] = "unlink"]
          /\ listMutex = "free" /\ listMutex' = c /\ seen' = list /\ at' = [at EXCEPT ![c] = h]
          /\ owned' = [owned EXCEPT ![c] = @ \ {h}] /\ UNCHANGED <<initialized, list, sema>>
    BY DEF FreeHandle, Step, CanLock, handlerVars
  <1>2. ListTypes' /\ Locked' /\ Before' /\ Distinct(list)'
    BY <1>1, Reading
  <1>3. /\ h \in Handles /\ IsOwned(h) /\ Leaving(h)'
        /\ \A d \in Clients : d # c => h \notin owned[d]
    BY <1>1 DEF IsOwned, Leaving, IInv, Types, Sole
  <1>4. \A g \in Handles : g # h => (IsOwned(g)' <=> IsOwned(g))
    BY <1>1 DEF IsOwned, IInv, Types
  <1>5. \A g \in Handles : g # h => (Leaving(g)' <=> Leaving(g))
    BY <1>1 DEF Leaving, IInv, Types
  <1>6. \A g \in Handles : Listed(g)' <=> Listed(g)
    BY <1>1 DEF Listed
  <1>7. Entries'
    BY <1>3, <1>4, <1>5, <1>6 DEF ListInv, Entries
  <1> QED BY <1>2, <1>7 DEF ListInv

LEMMA AppendLinks_List ==
  ASSUME IInv, ListInv, NEW c \in Clients, AppendLinks(c)
  PROVE  ListInv'
  <1>1. PICK h \in Handles :
          /\ pc[c] = "append" /\ at[c] = h /\ pc' = [pc EXCEPT ![c] = "idle"]
          /\ list' = Append(list, h) /\ listMutex' = "free" /\ at' = [at EXCEPT ![c] = None]
          /\ owned' = [owned EXCEPT ![c] = @ \cup {h}] /\ UNCHANGED <<initialized, sema>>
    BY InHand DEF AppendLinks, Step, handlerVars, ListInv, Locked
  <1>2. ~IsOwned(h) /\ ~Leaving(h) /\ list \in Seq(Handles)
    BY <1>1, InHand DEF Leaving, ListInv, ListTypes
  <1>3. ~Listed(h)
    BY <1>2 DEF ListInv, Entries
  <1>4. /\ list' \in Seq(Handles) /\ Len(list') = Len(list) + 1 /\ Len(list) \in Nat
        /\ \A i \in 1..Len(list) : list'[i] = list[i]
        /\ list'[Len(list) + 1] = h
    BY <1>1, <1>2, AppendProperties, LenProperties
  <1>5. Distinct(list')
    BY <1>3, <1>4 DEF ListInv, Distinct, Listed
  <1>6. \A g \in Handles : Listed(g)' <=> Listed(g) \/ g = h
    BY <1>4 DEF Listed
  <1>7. \A g \in Handles : IsOwned(g)' <=> IsOwned(g) \/ g = h
    BY <1>1 DEF IsOwned, IInv, Types
  <1>8. \A g \in Handles : Leaving(g)' <=> Leaving(g)
    BY <1>1 DEF Leaving, IInv, Types
  <1>9. Entries'
    BY <1>6, <1>7, <1>8 DEF ListInv, Entries
  <1>10. ListTypes' /\ Locked' /\ Before'
    BY <1>1, <1>4, <1>5, Writing DEF Distinct
  <1> QED BY <1>5, <1>9, <1>10 DEF ListInv, Distinct

LEMMA FreeUnlinks_List ==
  ASSUME IInv, ListInv, NEW c \in Clients, FreeUnlinks(c)
  PROVE  ListInv'
  <1>1. PICK h \in Handles :
          /\ pc[c] = "unlink" /\ at[c] = h /\ pc' = [pc EXCEPT ![c] = "undo"]
          /\ list' = Without(list, h) /\ listMutex' = "free"
          /\ UNCHANGED <<initialized, sema, owned, at>>
    BY InHand DEF FreeUnlinks, Step, handlerVars, ListInv, Locked
  <1>2. ~IsOwned(h) /\ Leaving(h) /\ list \in Seq(Handles) /\ Distinct(list) /\ Listed(h)
    BY <1>1, InHand DEF Leaving, ListInv, ListTypes, Entries
  <1>3. PICK k \in 1..Len(list) : list[k] = h
    BY <1>2 DEF Listed
  <1>4. /\ list' \in Seq(Handles) /\ Distinct(list')
        /\ \A g \in Handles : Listed(g)' <=> g # h /\ Listed(g)
    <2>1. list' = Without(list, list[k])
      BY <1>1, <1>3
    <2>2. /\ Without(list, list[k]) \in Seq(Handles) /\ Distinct(Without(list, list[k]))
          /\ \A g : (\E i \in 1..Len(Without(list, list[k])) : Without(list, list[k])[i] = g)
                      <=> g # list[k] /\ \E i \in 1..Len(list) : list[i] = g
      BY <1>2, Removal
    <2> QED BY <1>3, <2>1, <2>2 DEF Listed
  <1>5. \A g \in Handles : IsOwned(g)' <=> IsOwned(g)
    BY <1>1 DEF IsOwned
  <1>6. \A g \in Handles : Leaving(g)' <=> g # h /\ Leaving(g)
    <2>1. \A d \in Clients : d # c /\ pc[d] = "unlink" => at[d] # h
      BY <1>1, InHand
    <2> QED BY <1>1, <2>1 DEF Leaving, IInv, Types
  <1>7. Entries'
    BY <1>2, <1>4, <1>5, <1>6 DEF ListInv, Entries
  <1>8. ListTypes' /\ Locked' /\ Before'
    BY <1>1, <1>4, Writing DEF Distinct
  <1> QED BY <1>4, <1>7, <1>8 DEF ListInv, Distinct

LEMMA GetHandle_List ==
  ASSUME IInv, ListInv, NEW c \in Clients, GetHandle(c)
  PROVE  ListInv'
  BY SameList DEF GetHandle, handlerVars, IInv, Types, ListInv, ListTypes

LEMMA Creation_List ==
  ASSUME IInv, ListInv, NEW c \in Clients, Create(c) \/ CreateFails(c)
  PROVE  ListInv'
  <1>1. CASE Create(c)
    <2>1. sema' \in [Handles -> Nat]
      BY <1>1 DEF Create, ListInv, ListTypes
    <2> QED BY <1>1, <2>1, SameList DEF Create
  <1>2. CASE CreateFails(c)
    BY <1>2, SameList DEF CreateFails, handlerVars, IInv, Types, ListInv, ListTypes
  <1> QED BY <1>1, <1>2

LEMMA Destruction_List ==
  ASSUME IInv, ListInv, NEW c \in Clients,
         Release(c) \/ Ask(c) \/ Wake(c) \/ Join(c) \/ Finish(c)
  PROVE  ListInv'
  <1>1. sema \in [Handles -> Nat] /\ at[c] \in Handles
    BY InHand DEF ListInv, ListTypes, Release, Ask, Wake, Join, Finish, Step
  <1>2. CASE Release(c)
    BY <1>1, <1>2, SameList DEF Release, handlerVars
  <1>3. CASE Ask(c)
    <2>1. sema' = [sema EXCEPT ![at[c]] = @ + 1]
      BY <1>3 DEF Ask, AskToExit
    <2>2. sema' \in [Handles -> Nat]
      BY <1>1, <2>1
    <2> QED BY <1>3, <2>2, SameList DEF Ask
  <1>4. CASE Wake(c)
    <2>1. sema' = [sema EXCEPT ![at[c]] = @ + (IF @ = 0 THEN 2 ELSE 1)]
      BY <1>4 DEF Wake
    <2>2. sema[at[c]] \in Nat /\ sema[at[c]] + (IF sema[at[c]] = 0 THEN 2 ELSE 1) \in Nat
      BY <1>1
    <2>3. sema' \in [Handles -> Nat]
      BY <1>1, <2>1, <2>2
    <2> QED BY <1>4, <2>3, SameList DEF Wake
  <1>5. CASE Join(c)
    BY <1>1, <1>5, SameList DEF Join
  <1>6. CASE Finish(c)
    BY <1>1, <1>6, SameList DEF Finish, Step, handlerVars, IInv, Types
  <1> QED BY <1>2, <1>3, <1>4, <1>5, <1>6

LEMMA Send_List ==
  ASSUME IInv, ListInv, NEW c \in Clients, Send(c)
  PROVE  ListInv'
  <1>1. PICK h \in Handles : sema' = [sema EXCEPT ![h] = @ + 1]
    BY DEF Send, IInv, Types
  <1>2. sema \in [Handles -> Nat]
    BY DEF ListInv, ListTypes
  <1>3. sema' \in [Handles -> Nat]
    BY <1>1, <1>2
  <1> QED BY <1>3, SameList DEF Send

LEMMA Handler_List ==
  ASSUME IInv, ListInv, NEW h \in Handles, HandlerStep(h)
  PROVE  ListInv'
  <1>1. CASE Handle(h)
    <2>1. sema' \in [Handles -> Nat]
      BY <1>1 DEF Handle, ListInv, ListTypes
    <2> QED BY <1>1, <2>1, SameList DEF Handle, HandlerSame
  <1>2. CASE Answer(h)
    BY <1>2, SameList DEF Answer, HandlerSame, ListInv, ListTypes
  <1> QED BY <1>1, <1>2 DEF HandlerStep

LEMMA NextList == IInv /\ ListInv /\ [Next]_vars => ListInv'
  <1> SUFFICES ASSUME IInv, ListInv, [Next]_vars
               PROVE  ListInv'
    OBVIOUS
  <1>1. CASE OmxInit \/ OmxDeinit
    BY <1>1, OmxInit_List, OmxDeinit_List
  <1>2. ASSUME NEW c \in Clients,
               GetHandle(c) \/ FreeHandle(c) \/ CreateFails(c) \/ Send(c) \/ ClientStep(c)
        PROVE  ListInv'
    BY <1>2, GetHandle_List, FreeHandle_List, Creation_List, Send_List, AppendLinks_List,
       AppendLocks_List, FreeUnlinks_List, Destruction_List DEF ClientStep
  <1>3. ASSUME NEW h \in Handles, HandlerStep(h)
        PROVE  ListInv'
    BY <1>3, Handler_List
  <1>4. CASE UNCHANGED vars
    BY <1>4, SameList DEF vars, handlerVars, ListInv, ListTypes
  <1> QED BY <1>1, <1>2, <1>3, <1>4 DEF Next

LEMMA EachListedOnce == IInv /\ ListInv => ListedOnce
  <1> SUFFICES ASSUME IInv, ListInv, NEW h \in Handles
               PROVE  /\ Owners(h) # {} => Cardinality({i \in DOMAIN list : list[i] = h}) = 1
                      /\ AtRest(h) /\ Owners(h) = {} => \A i \in DOMAIN list : list[i] # h
    BY DEF ListedOnce
  <1>1. DOMAIN list = 1..Len(list) /\ (IsOwned(h) <=> Owners(h) # {})
    BY LenProperties DEF ListInv, ListTypes, IsOwned, Owners
  <1>2. ASSUME Owners(h) # {}
        PROVE  Cardinality({i \in DOMAIN list : list[i] = h}) = 1
    <2>1. PICK i \in 1..Len(list) : list[i] = h
      BY <1>1, <1>2 DEF ListInv, Entries, Listed
    <2>2. {j \in DOMAIN list : list[j] = h} = {i}
      BY <1>1, <2>1 DEF ListInv, Distinct
    <2> QED BY <2>2, FS_Singleton
  <1>3. ASSUME AtRest(h), Owners(h) = {}
        PROVE  \A i \in DOMAIN list : list[i] # h
    BY <1>1, <1>3 DEF ListInv, Entries, Listed, Leaving, AtRest
  <1> QED BY <1>2, <1>3

-----------------------------------------------------------------------------
(* What is allocated.                                                           *)

Resources == Steps \ {"ask", "wake", "join"}
\* What releases it.
Gives(x) == IF x = "thread" THEN "join" ELSE x

\* The place of a creation in the order of the constructors.
Rank(x) == CASE x = "load" -> 0 [] x = "library" -> 1 [] x = "component" -> 2 [] x = "base" -> 3
             [] x = "sema" -> 4 [] x = "mutex" -> 5 [] x = "thread" -> 6 [] x = "inputPort" -> 7
             [] x = "outputPort" -> 8 [] x = "mime" -> 9 [] x = "name" -> 10 [] x = "codec" -> 11
             [] OTHER -> 12

\* The creations after whose failure the code gives back all that came before.
Undone == {"library", "component", "base", "inputPort", "outputPort", "name"}

\* While a component is made it holds what comes before the creations to come, in the
\* order of the constructors.
Ordered(s) == Len(s) <= 11 /\ \A j \in 1..Len(s) : Rank(s[j]) = 11 - Len(s) + j
Begun(c) ==
  pc[c] = "load" => Ordered(todo[c]) /\ \A x \in held[at[c]] : Rank(x) <= 11 - Len(todo[c])
\* While it is destroyed, what it still holds is among the releases to come.
Covered(c) == pc[c] = "undo" => \A x \in held[at[c]] : ToCome(todo[c], Gives(x))
\* Nobody's handle holds nothing.
Bare(h) == ~IsOwned(h) /\ (\A c \in Clients : ~Working(c, h)) => held[h] = {}

RoomInv ==
  /\ held \in [Handles -> SUBSET Resources]
  /\ \A c \in Clients : Begun(c) /\ Covered(c)
  /\ \A h \in Handles : Bare(h)

\* The creations of s are those that follow the first n.
Follow(s, n) == \A j \in 1..Len(s) : Rank(s[j]) = n + j

LEMMA Following ==
  ASSUME NEW s \in Seq(Steps), NEW t \in Seq(Steps), NEW n \in Nat, Follow(s, n), NEW m \in Nat,
         m = n + Len(s), Follow(t, m)
  PROVE  s \o t \in Seq(Steps) /\ Len(s \o t) = Len(s) + Len(t) /\ Follow(s \o t, n)
  <1>1. /\ s \o t \in Seq(Steps)
        /\ Len(s \o t) = Len(s) + Len(t) /\ Len(s) \in Nat /\ Len(t) \in Nat
        /\ \A i \in 1..Len(s \o t) :
             (s \o t)[i] = IF i <= Len(s) THEN s[i] ELSE t[i - Len(s)]
    BY ConcatProperties, LenProperties
  <1> DEFINE u == s \o t
  <1> HIDE DEF u
  <1>2. ASSUME NEW j \in 1..Len(u)
        PROVE  Rank(u[j]) = n + j
    <2>1. CASE j <= Len(s)
      BY <1>1, <2>1 DEF u, Follow
    <2>2. CASE ~(j <= Len(s))
      <3>1. j - Len(s) \in 1..Len(t) /\ u[j] = t[j - Len(s)]
        BY <1>1, <2>2 DEF u
      <3>2. Rank(u[j]) = m + (j - Len(s))
        BY <3>1 DEF Follow
      <3> QED BY <1>1, <3>2
    <2> QED BY <2>1, <2>2
  <1> QED BY <1>1, <1>2 DEF u, Follow

LEMMA LoadRanks == ASSUME NEW k  PROVE  Ordered(ComponentLoad(k)) /\ Len(ComponentLoad(k)) = 11
  <1> DEFINE first == <<"library", "component">>  last == <<"name", "codec">>
             base == BaseConstructor  ports == PortConstructor  mime == <<"mime">>
             two == base \o ports  three == two \o mime  four == three \o last
  <1>1. /\ first \in Seq(Steps) /\ last \in Seq(Steps) /\ base \in Seq(Steps)
        /\ ports \in Seq(Steps) /\ mime \in Seq(Steps)
    BY DEF Steps, BaseConstructor, PortConstructor
  <1>2. /\ Len(first) = 2 /\ Len(base) = 4 /\ Len(ports) = 2 /\ Len(mime) = 1 /\ Len(last) = 2
    BY DEF BaseConstructor, PortConstructor
  <1>3. Follow(first, 0) /\ Follow(base, 2) /\ Follow(ports, 6)
    BY DEF Follow, Rank, BaseConstructor, PortConstructor
  <1>4. Follow(mime, 8) /\ Follow(last, 9)
    BY DEF Follow, Rank
  <1>5. ComponentLoad(k) = first \o four
    BY DEF ComponentLoad, ComponentInit, H264DecInit, Mpeg4DecInit, H264EncInit,
       Mpeg4EncInit, VideoDecodeInit, VideoEncodeInit
  <1> HIDE DEF first, last, base, ports, mime
  <1>6. two \in Seq(Steps) /\ Len(two) = 6 /\ Follow(two, 2)
    <2>1. 2 \in Nat /\ 6 \in Nat /\ 6 = 2 + Len(base)
      BY <1>2
    <2>2. two \in Seq(Steps) /\ Len(two) = Len(base) + Len(ports) /\ Follow(two, 2)
      BY <1>1, <1>3, <2>1, Following, Zenon
    <2> QED BY <1>2, <2>2
  <1> HIDE DEF two
  <1>7. three \in Seq(Steps) /\ Len(three) = 7 /\ Follow(three, 2)
    <2>1. 2 \in Nat /\ 8 \in Nat /\ 8 = 2 + Len(two)
      BY <1>6
    <2>2. three \in Seq(Steps) /\ Len(three) = Len(two) + Len(mime) /\ Follow(three, 2)
      BY <1>1, <1>4, <1>6, <2>1, Following, Zenon
    <2> QED BY <1>2, <1>6, <2>2
  <1> HIDE DEF three
  <1>8. four \in Seq(Steps) /\ Len(four) = 9 /\ Follow(four, 2)
    <2>1. 2 \in Nat /\ 9 \in Nat /\ 9 = 2 + Len(three)
      BY <1>7
    <2>2. four \in Seq(Steps) /\ Len(four) = Len(three) + Len(last) /\ Follow(four, 2)
      BY <1>1, <1>4, <1>7, <2>1, Following, Zenon
    <2> QED BY <1>2, <1>7, <2>2
  <1> HIDE DEF four
  <1>9. Len(first \o four) = 11 /\ Follow(first \o four, 0)
    <2>1. 0 \in Nat /\ 2 \in Nat /\ 2 = 0 + Len(first)
      BY <1>2
    <2>2. Len(first \o four) = Len(first) + Len(four) /\ Follow(first \o four, 0)
      BY <1>1, <1>3, <1>8, <2>1, Following, Zenon
    <2> QED BY <1>2, <1>8, <2>2
  <1> DEFINE whole == ComponentLoad(k)
  <1>10. Len(whole) = 11 /\ \A j \in 1..Len(whole) : Rank(whole[j]) = 0 + j
    BY <1>5, <1>9 DEF Follow
  <1> HIDE DEF whole
  <1>11. Ordered(whole)
    BY <1>10 DEF Ordered
  <1> QED BY <1>10, <1>11 DEF whole

\* What the destructors release, after FreeHandle and after a creation that failed.
LEMMA ReleasedThen ==
  ASSUME NEW k
  PROVE  LET mime == <<"mime">>  own == <<"name", "codec">>  unload == <<"component", "library">>
             load == <<"load">>  outer == <<"component", "library", "load">>
             input == <<"inputPort">>  ports == PortDestructor  base == BaseDestructor
         IN /\ \A x : ToCome(ComponentUnload(k) \o <<"load">>, x) <=>
                        \/ ToCome(own, x) \/ ToCome(mime, x) \/ ToCome(ports, x)
                        \/ ToCome(base, x) \/ ToCome(unload, x) \/ ToCome(load, x)
            /\ \A x : ToCome(Undo(k, "inputPort"), x) <=> ToCome(base, x) \/ ToCome(outer, x)
            /\ \A x : ToCome(Undo(k, "outputPort"), x) <=>
                        ToCome(input, x) \/ ToCome(base, x) \/ ToCome(outer, x)
            /\ \A x : ToCome(Undo(k, "name"), x) <=>
                        \/ ToCome(mime, x) \/ ToCome(ports, x)
                        \/ ToCome(base, x) \/ ToCome(outer, x)
  <1> DEFINE mime == <<"mime">>  ports == PortDestructor  base == BaseDestructor
             own == <<"name", "codec">>  unload == <<"component", "library">>
             load == <<"load">>  outer == <<"component", "library", "load">>
             input == <<"inputPort">>  both == mime \o ports  video == both \o base
             mine == own \o video  all == mine \o unload  cut == input \o base
  <1>1. /\ mime \in Seq(Steps) /\ ports \in Seq(Steps) /\ base \in Seq(Steps)
        /\ own \in Seq(Steps) /\ unload \in Seq(Steps) /\ load \in Seq(Steps)
        /\ outer \in Seq(Steps) /\ input \in Seq(Steps)
    BY DEF Steps, BaseDestructor, PortDestructor
  <1>2. ComponentUnload(k) \o load = all \o load
    BY DEF ComponentUnload, ComponentDeinit, H264DecDeinit, Mpeg4DecDeinit, H264EncDeinit,
       Mpeg4EncDeinit, VideoDecodeDeinit, VideoEncodeDeinit
  <1>3. /\ Undo(k, "inputPort") = base \o outer /\ Undo(k, "outputPort") = cut \o outer
        /\ Undo(k, "name") = video \o outer
    BY DEF Undo, VideoDecodeDeinit, VideoEncodeDeinit
  <1> HIDE DEF mime, ports, base, own, unload, load, outer, input
  <1>4. both \in Seq(Steps) /\ \A x : ToCome(both, x) <=> ToCome(mime, x) \/ ToCome(ports, x)
    BY <1>1, Together
  <1> HIDE DEF both
  <1>5. video \in Seq(Steps) /\ \A x : ToCome(video, x) <=> ToCome(both, x) \/ ToCome(base, x)
    BY <1>1, <1>4, Together
  <1> HIDE DEF video
  <1>6. mine \in Seq(Steps) /\ \A x : ToCome(mine, x) <=> ToCome(own, x) \/ ToCome(video, x)
    BY <1>1, <1>5, Together
  <1> HIDE DEF mine
  <1>7. all \in Seq(Steps) /\ \A x : ToCome(all, x) <=> ToCome(mine, x) \/ ToCome(unload, x)
    BY <1>1, <1>6, Together
  <1>8. cut \in Seq(Steps) /\ \A x : ToCome(cut, x) <=> ToCome(input, x) \/ ToCome(base, x)
    BY <1>1, Together
  <1> HIDE DEF all, cut
  <1>9. /\ \A x : ToCome(all \o load, x) <=> ToCome(all, x) \/ ToCome(load, x)
        /\ \A x : ToCome(base \o outer, x) <=> ToCome(base, x) \/ ToCome(outer, x)
        /\ \A x : ToCome(cut \o outer, x) <=> ToCome(cut, x) \/ ToCome(outer, x)
        /\ \A x : ToCome(video \o outer, x) <=> ToCome(video, x) \/ ToCome(outer, x)
    BY <1>1, <1>5, <1>7, <1>8, Together
  <1>10. \A x : ToCome(ComponentUnload(k) \o load, x) <=>
                  \/ ToCome(own, x) \/ ToCome(mime, x) \/ ToCome(ports, x)
                  \/ ToCome(base, x) \/ ToCome(unload, x) \/ ToCome(load, x)
    BY <1>2, <1>4, <1>5, <1>6, <1>7, <1>9
  <1>11. /\ \A x : ToCome(Undo(k, "inputPort"), x) <=> ToCome(base, x) \/ ToCome(outer, x)
         /\ \A x : ToCome(Undo(k, "outputPort"), x) <=>
                     ToCome(input, x) \/ ToCome(base, x) \/ ToCome(outer, x)
         /\ \A x : ToCome(Undo(k, "name"), x) <=>
                     ToCome(mime, x) \/ ToCome(ports, x) \/ ToCome(base, x) \/ ToCome(outer, x)
    BY <1>3, <1>4, <1>5, <1>8, <1>9
  <1> QED BY <1>10, <1>11 DEF mime, ports, base, own, unload, load, outer, input

\* What the pieces of the destructors release.
LEMMA Releases ==
  /\ ToCome(<<"mime">>, "mime") /\ ToCome(<<"load">>, "load")
  /\ ToCome(<<"inputPort">>, "inputPort")
  /\ ToCome(<<"name", "codec">>, "name") /\ ToCome(<<"name", "codec">>, "codec")
  /\ \A x \in {"component", "library"} : ToCome(<<"component", "library">>, x)
  /\ \A x \in {"component", "library", "load"} : ToCome(<<"component", "library", "load">>, x)
  /\ \A x \in {"inputPort", "outputPort"} : ToCome(PortDestructor, x)
  /\ \A x \in {"join", "mutex", "sema", "base"} : ToCome(BaseDestructor, x)
  BY DEF ToCome, PortDestructor, BaseDestructor

LEMMA UnloadCovers ==
  ASSUME NEW k, NEW x \in Resources
  PROVE  ToCome(ComponentUnload(k) \o <<"load">>, Gives(x))
  BY ReleasedThen, Releases DEF Gives, Resources, Steps

LEMMA UndoCovers ==
  ASSUME NEW k, NEW step \in Undone, NEW x \in Resources, Rank(x) < Rank(step)
  PROVE  ToCome(Undo(k, step), Gives(x))
  <1>1. CASE step = "library"
    <2>1. x = "load" /\ Undo(k, step) = <<"load">>
      BY <1>1 DEF Resources, Steps, Rank, Undo
    <2> QED BY <2>1, Releases DEF Gives
  <1>2. CASE step \in {"component", "base"}
    <2>1. /\ x \in {"load", "library", "component"}
          /\ Undo(k, step) = <<"component", "library", "load">>
      BY <1>2 DEF Resources, Steps, Rank, Undo
    <2> QED BY <2>1, Releases DEF Gives
  <1>3. CASE step = "inputPort"
    <2>1. x \in {"load", "library", "component", "base", "sema", "mutex", "thread"}
      BY <1>3 DEF Resources, Steps, Rank
    <2> QED BY <1>3, <2>1, ReleasedThen, Releases DEF Gives
  <1>4. CASE step = "outputPort"
    <2>1. x \in {"load", "library", "component", "base", "sema", "mutex", "thread", "inputPort"}
      BY <1>4 DEF Resources, Steps, Rank
    <2> QED BY <1>4, <2>1, ReleasedThen, Releases DEF Gives
  <1>5. CASE step = "name"
    <2>1. x \in {"load", "library", "component", "base", "sema", "mutex", "thread", "inputPort",
                 "outputPort", "mime"}
      BY <1>5 DEF Resources, Steps, Rank
    <2> QED BY <1>5, <2>1, ReleasedThen, Releases DEF Gives
  <1> QED BY <1>1, <1>2, <1>3, <1>4, <1>5 DEF Undone

LEMMA InitRoom == Init => RoomInv
  BY DEF Init, RoomInv, Begun, Covered, Bare

\* A client whose handle keeps what it holds, and has the same steps to come.
LEMMA SameWork ==
  ASSUME IInv, RoomInv, NEW d \in Clients, pc'[d] = pc[d], at'[d] = at[d], todo'[d] = todo[d],
         pc[d] # "idle" => held'[at[d]] = held[at[d]]
  PROVE  Begun(d)' /\ Covered(d)'
  <1>1. Begun(d) /\ Covered(d)
    BY DEF RoomInv
  <1>2. pc[d] = "load" => Begun(d)'
    BY <1>1 DEF Begun, Ordered
  <1>3. pc[d] = "undo" => Covered(d)'
    BY <1>1 DEF Covered, ToCome
  <1> QED BY <1>2, <1>3 DEF Begun, Covered

\* Steps of a client that change what its own handle holds, if anything.
LEMMA OwnRoom ==
  ASSUME IInv, RoomInv, NEW c \in Clients, pc[c] # "idle", pc'[c] # "idle",
         UNCHANGED owned, at'[c] = at[c], held' \in [Handles -> SUBSET Resources],
         \A d \in Clients : d # c => pc'[d] = pc[d] /\ at'[d] = at[d] /\ todo'[d] = todo[d],
         \A h \in Handles : h # at[c] => held'[h] = held[h],
         Begun(c)' /\ Covered(c)'
  PROVE  RoomInv'
  <1>1. ASSUME NEW d \in Clients, d # c
        PROVE  Begun(d)' /\ Covered(d)'
    <2>1. pc[d] # "idle" => at[d] \in Handles /\ at[d] # at[c]
      BY <1>1, InHand DEF IInv, Types
    <2> QED BY <1>1, <2>1, SameWork
  <1>2. ASSUME NEW h \in Handles
        PROVE  Bare(h)'
    <2>1. CASE h = at[c]
      BY <2>1 DEF Bare, Working
    <2>2. CASE h # at[c]
      <3>1. IsOwned(h)' <=> IsOwned(h)
        BY DEF IsOwned
      <3>2. \A d \in Clients : Working(d, h) => Working(d, h)'
        BY <2>2 DEF Working
      <3>3. Bare(h) /\ held'[h] = held[h]
        BY <2>2 DEF RoomInv
      <3> QED BY <3>1, <3>2, <3>3 DEF Bare
    <2> QED BY <2>1, <2>2
  <1> QED BY <1>1, <1>2 DEF RoomInv

LEMMA GetHandle_Room ==
  ASSUME IInv, RoomInv, NEW c \in Clients, GetHandle(c)
  PROVE  RoomInv'
  <1>1. PICK h \in Handles :
          /\ held[h] = {} /\ \A d \in Clients : at[d] # h
          /\ held' = [held EXCEPT ![h] = {"load"}]
          /\ at' = [at EXCEPT ![c] = h] /\ todo' = [todo EXCEPT ![c] = ComponentLoad(kind[h])]
          /\ pc' = [pc EXCEPT ![c] = "load"] /\ pc[c] = "idle" /\ UNCHANGED owned
    BY DEF GetHandle
  <1>2. /\ held'[h] = {"load"} /\ \A g \in Handles : g # h => held'[g] = held[g]
        /\ held' \in [Handles -> SUBSET Resources]
    BY <1>1 DEF RoomInv, Resources, Steps
  <1>3. /\ pc'[c] = "load" /\ at'[c] = h /\ todo'[c] = ComponentLoad(kind[h])
        /\ \A d \in Clients : d # c => pc'[d] = pc[d] /\ at'[d] = at[d] /\ todo'[d] = todo[d]
    BY <1>1 DEF IInv, Types
  <1>4. Begun(c)' /\ Covered(c)'
    <2>1. Ordered(todo'[c]) /\ Len(todo'[c]) = 11
      BY <1>3, LoadRanks
    <2>2. \A x \in held'[at'[c]] : Rank(x) <= 11 - Len(todo'[c])
      BY <1>2, <1>3, <2>1 DEF Rank
    <2> QED BY <1>3, <2>1, <2>2 DEF Begun, Covered, Ordered
  <1>5. ASSUME NEW d \in Clients, d # c
        PROVE  Begun(d)' /\ Covered(d)'
    <2>1. pc[d] # "idle" => at[d] \in Handles /\ at[d] # h
      BY <1>1 DEF IInv, Types
    <2> QED BY <1>2, <1>3, <1>5, <2>1, SameWork
  <1>6. ASSUME NEW g \in Handles
        PROVE  Bare(g)'
    <2>1. CASE g = h
      BY <1>3, <2>1 DEF Bare, Working
    <2>2. CASE g # h
      <3>1. \A d \in Clients : Working(d, g) => Working(d, g)'
        BY <1>1, <1>3 DEF Working
      <3> QED BY <1>1, <1>2, <2>2, <3>1 DEF RoomInv, Bare, IsOwned
    <2> QED BY <2>1, <2>2
  <1> QED BY <1>2, <1>4, <1>5, <1>6 DEF RoomInv

LEMMA Create_Room ==
  ASSUME IInv, RoomInv, NEW c \in Clients, Create(c)
  PROVE  RoomInv'
  <1> DEFINE x == Head(todo[c])  s == Tail(todo[c])
  <1>1. PICK h \in Handles :
          /\ at[c] = h /\ pc[c] = "load" /\ todo[c] # <<>> /\ todo[c] \in Seq(Steps)
          /\ held' = [held EXCEPT ![h] = @ \cup {x}] /\ todo' = [todo EXCEPT ![c] = s]
          /\ UNCHANGED <<owned, pc, at>>
    BY InHand DEF Create
  <1>2. /\ Len(todo[c]) \in Nat \ {0} /\ s \in Seq(Steps) /\ Len(s) = Len(todo[c]) - 1
        /\ x = todo[c][1] /\ x \in Steps /\ \A j \in 1..Len(s) : s[j] = todo[c][j + 1]
    BY <1>1
  <1>3. /\ Ordered(todo[c]) /\ \A y \in held[h] : Rank(y) <= 11 - Len(todo[c])
    BY <1>1 DEF RoomInv, Begun
  <1>4. Rank(x) = 11 - Len(s) /\ Ordered(s) /\ Len(s) \in Nat /\ Len(s) <= 10
    <2> HIDE DEF s, x
    <2>1. Len(s) \in Nat /\ Len(s) <= 10
      BY <1>2, <1>3 DEF Ordered
    <2>2. \A j \in 1..Len(todo[c]) : Rank(todo[c][j]) = 11 - Len(todo[c]) + j
      BY <1>3 DEF Ordered
    <2>3. Rank(x) = 11 - Len(s)
      <3>1. 1 \in 1..Len(todo[c]) /\ 11 - Len(todo[c]) + 1 = 11 - Len(s)
        BY <1>2
      <3>2. Rank(x) = 11 - Len(todo[c]) + 1
        BY <1>2, <2>2, <3>1
      <3> QED BY <3>1, <3>2
    <2>4. ASSUME NEW j \in 1..Len(s)
          PROVE  Rank(s[j]) = 11 - Len(s) + j
      <3>1. j + 1 \in 1..Len(todo[c]) /\ s[j] = todo[c][j + 1]
        BY <1>2
      <3>2. Rank(s[j]) = 11 - Len(todo[c]) + (j + 1)
        BY <2>2, <3>1
      <3> QED BY <1>2, <3>2
    <2> QED BY <2>1, <2>3, <2>4 DEF Ordered
  <1>5. x \in Resources
    <2>1. Rank("ask") = 12 /\ Rank("wake") = 12 /\ Rank("join") = 12
      BY DEF Rank
    <2>2. x \notin {"ask", "wake", "join"}
      BY <1>4, <2>1
    <2> QED BY <1>2, <2>2 DEF Resources
  <1>6. /\ held'[h] = held[h] \cup {x} /\ \A g \in Handles : g # h => held'[g] = held[g]
        /\ held' \in [Handles -> SUBSET Resources] /\ todo'[c] = s
        /\ \A d \in Clients : d # c => todo'[d] = todo[d]
    BY <1>1, <1>5 DEF RoomInv, IInv, Types
  <1>7. \A y \in held'[h] : Rank(y) <= 11 - Len(s)
    <2>1. \A y \in held[h] : Rank(y) <= 11 - Len(s)
      <3>1. ASSUME NEW r \in Nat, r <= 11 - Len(todo[c])
            PROVE  r <= 11 - Len(s)
        BY <1>2, <3>1
      <3>2. \A y : Rank(y) \in Nat
        BY DEF Rank
      <3> QED BY <1>3, <3>1, <3>2
    <2> QED BY <1>4, <1>6, <2>1
  <1> HIDE DEF x, s
  <1>8. Begun(c)' /\ Covered(c)'
    BY <1>1, <1>4, <1>6, <1>7 DEF Begun, Covered, Ordered
  <1> QED BY <1>1, <1>6, <1>8, OwnRoom

LEMMA CreateFails_Room ==
  ASSUME FailingSteps \subseteq Undone, IInv, RoomInv, NEW c \in Clients, CreateFails(c)
  PROVE  RoomInv'
  <1> DEFINE x == Head(todo[c])
  <1>1. PICK h \in Handles :
          /\ at[c] = h /\ pc[c] = "load" /\ todo[c] # <<>> /\ todo[c] \in Seq(Steps)
          /\ x \in Undone /\ pc' = [pc EXCEPT ![c] = "undo"]
          /\ todo' = [todo EXCEPT ![c] = Undo(kind[h], x)]
          /\ UNCHANGED <<owned, held, at>>
    BY InHand DEF CreateFails
  <1>2. Len(todo[c]) \in Nat \ {0} /\ x = todo[c][1]
    BY <1>1
  <1>3. /\ Ordered(todo[c]) /\ \A y \in held[h] : Rank(y) <= 11 - Len(todo[c])
        /\ held[h] \subseteq Resources
    BY <1>1 DEF RoomInv, Begun
  <1>4. \A y \in held[h] : Rank(y) < Rank(x)
    <2> HIDE DEF x
    <2>1. Rank(x) = 11 - Len(todo[c]) + 1
      <3>1. 1 \in 1..Len(todo[c])
        BY <1>2
      <3> QED BY <1>2, <1>3, <3>1 DEF Ordered
    <2>2. \A y : Rank(y) \in Nat
      BY DEF Rank
    <2> QED BY <1>2, <1>3, <2>1, <2>2
  <1>5. /\ pc'[c] = "undo" /\ todo'[c] = Undo(kind[h], x)
        /\ \A d \in Clients : d # c => pc'[d] = pc[d] /\ todo'[d] = todo[d]
    BY <1>1 DEF IInv, Types
  <1> HIDE DEF x
  <1>6. \A y \in held[h] : ToCome(todo'[c], Gives(y))
    BY <1>1, <1>3, <1>4, <1>5, UndoCovers
  <1>7. Begun(c)' /\ Covered(c)'
    BY <1>1, <1>5, <1>6 DEF Begun, Covered, ToCome
  <1>8. held \in [Handles -> SUBSET Resources]
    BY DEF RoomInv
  <1> QED BY <1>1, <1>5, <1>7, <1>8, OwnRoom

LEMMA AppendLocks_Room ==
  ASSUME IInv, RoomInv, NEW c \in Clients, AppendLocks(c)
  PROVE  RoomInv'
  <1>1. /\ pc[c] = "load" /\ pc'[c] = "append" /\ UNCHANGED <<held, owned, at, todo>>
        /\ \A d \in Clients : d # c => pc'[d] = pc[d]
    BY DEF AppendLocks, Step, IInv, Types
  <1>2. Begun(c)' /\ Covered(c)'
    BY <1>1 DEF Begun, Covered
  <1>3. held \in [Handles -> SUBSET Resources]
    BY DEF RoomInv
  <1> QED BY <1>1, <1>2, <1>3, OwnRoom

LEMMA FreeUnlinks_Room ==
  ASSUME IInv, RoomInv, NEW c \in Clients, FreeUnlinks(c)
  PROVE  RoomInv'
  <1>1. PICK h \in Handles :
          /\ at[c] = h /\ pc[c] = "unlink" /\ pc' = [pc EXCEPT ![c] = "undo"]
          /\ todo' = [todo EXCEPT ![c] = ComponentUnload(kind[h]) \o <<"load">>]
          /\ UNCHANGED <<owned, held, at>>
    BY InHand DEF FreeUnlinks, Step
  <1>2. held \in [Handles -> SUBSET Resources]
    BY DEF RoomInv
  <1>3. /\ pc'[c] = "undo" /\ todo'[c] = ComponentUnload(kind[h]) \o <<"load">>
        /\ \A d \in Clients : d # c => pc'[d] = pc[d] /\ todo'[d] = todo[d]
    BY <1>1 DEF IInv, Types
  <1>4. \A y \in held[h] : ToCome(todo'[c], Gives(y))
    BY <1>2, <1>3, UnloadCovers
  <1>5. Begun(c)' /\ Covered(c)'
    BY <1>1, <1>3, <1>4 DEF Begun, Covered, ToCome
  <1> QED BY <1>1, <1>2, <1>3, <1>5, OwnRoom

LEMMA AppendLinks_Room ==
  ASSUME IInv, RoomInv, NEW c \in Clients, AppendLinks(c)
  PROVE  RoomInv'
  <1>1. PICK h \in Handles :
          /\ at[c] = h /\ pc[c] = "append" /\ pc' = [pc EXCEPT ![c] = "idle"]
          /\ owned' = [owned EXCEPT ![c] = @ \cup {h}] /\ at' = [at EXCEPT ![c] = None]
          /\ UNCHANGED <<held, todo>>
    BY InHand DEF AppendLinks, Step
  <1>2. /\ pc'[c] = "idle" /\ \A d \in Clients : d # c => pc'[d] = pc[d] /\ at'[d] = at[d]
    BY <1>1 DEF IInv, Types
  <1>3. ASSUME NEW d \in Clients
        PROVE  Begun(d)' /\ Covered(d)'
    <2>1. CASE d = c
      BY <1>2, <2>1 DEF Begun, Covered
    <2>2. CASE d # c
      BY <1>1, <1>2, <2>2, SameWork
    <2> QED BY <2>1, <2>2
  <1>4. ASSUME NEW g \in Handles
        PROVE  Bare(g)'
    <2>1. IsOwned(g)' <=> IsOwned(g) \/ g = h
      BY <1>1 DEF IsOwned, IInv, Types
    <2>2. \A d \in Clients : g # h /\ Working(d, g) => Working(d, g)'
      BY <1>1, <1>2 DEF Working
    <2> QED BY <1>1, <2>1, <2>2 DEF RoomInv, Bare
  <1> QED BY <1>1, <1>3, <1>4 DEF RoomInv

LEMMA FreeHandle_Room ==
  ASSUME IInv, RoomInv, NEW c \in Clients, FreeHandle(c)
  PROVE  RoomInv'
  <1>1. PICK h \in owned[c] :
          /\ pc[c] = "idle" /\ pc' = [pc EXCEPT ![c] = "unlink"] /\ at' = [at EXCEPT ![c] = h]
          /\ owned' = [owned EXCEPT ![c] = @ \ {h}] /\ UNCHANGED <<held, todo>>
    BY DEF FreeHandle, Step
  <1>2. /\ pc'[c] = "unlink" /\ at'[c] = h
        /\ \A d \in Clients : d # c => pc'[d] = pc[d] /\ at'[d] = at[d]
    BY <1>1 DEF IInv, Types
  <1>3. ASSUME NEW d \in Clients
        PROVE  Begun(d)' /\ Covered(d)'
    <2>1. CASE d = c
      BY <1>2, <2>1 DEF Begun, Covered
    <2>2. CASE d # c
      BY <1>1, <1>2, <2>2, SameWork
    <2> QED BY <2>1, <2>2
  <1>4. ASSUME NEW g \in Handles
        PROVE  Bare(g)'
    <2>1. g # h => (IsOwned(g)' <=> IsOwned(g))
      BY <1>1 DEF IsOwned, IInv, Types
    <2>2. g # h => \A d \in Clients : Working(d, g) => Working(d, g)'
      BY <1>1, <1>2 DEF Working
    <2>3. g = h => Working(c, g)'
      BY <1>2 DEF Working
    <2> QED BY <1>1, <2>1, <2>2, <2>3 DEF RoomInv, Bare
  <1> QED BY <1>1, <1>3, <1>4 DEF RoomInv

LEMMA Finish_Room ==
  ASSUME IInv, RoomInv, NEW c \in Clients, Finish(c)
  PROVE  RoomInv'
  <1>1. PICK h \in Handles :
          /\ at[c] = h /\ pc[c] = "undo" /\ pc' = [pc EXCEPT ![c] = "idle"] /\ todo[c] = <<>>
          /\ at' = [at EXCEPT ![c] = None] /\ UNCHANGED <<held, owned, todo>>
    BY InHand DEF Finish, Step
  <1>2. held[h] = {}
    BY <1>1, Nothing DEF RoomInv, Covered
  <1>3. /\ pc'[c] = "idle" /\ \A d \in Clients : d # c => pc'[d] = pc[d] /\ at'[d] = at[d]
    BY <1>1 DEF IInv, Types
  <1>4. ASSUME NEW d \in Clients
        PROVE  Begun(d)' /\ Covered(d)'
    <2>1. CASE d = c
      BY <1>3, <2>1 DEF Begun, Covered
    <2>2. CASE d # c
      BY <1>1, <1>3, <2>2, SameWork
    <2> QED BY <2>1, <2>2
  <1>5. ASSUME NEW g \in Handles
        PROVE  Bare(g)'
    <2>1. IsOwned(g)' <=> IsOwned(g)
      BY <1>1 DEF IsOwned
    <2>2. \A d \in Clients : g # h /\ Working(d, g) => Working(d, g)'
      BY <1>1, <1>3 DEF Working
    <2> QED BY <1>1, <1>2, <2>1, <2>2 DEF RoomInv, Bare
  <1> QED BY <1>1, <1>4, <1>5 DEF RoomInv

\* One release of a destruction, or one step of ending the thread.
LEMMA Destroyed ==
  ASSUME IInv, RoomInv, NEW c \in Clients, pc[c] = "undo", todo[c] # <<>>,
         todo' = [todo EXCEPT ![c] = Tail(@)], UNCHANGED <<owned, pc, at>>,
         NEW X \in SUBSET Resources, held' = [held EXCEPT ![at[c]] = @ \ X],
         \A y \in Resources : Gives(y) = Head(todo[c]) => y \in X
  PROVE  RoomInv'
  <1>1. PICK h \in Handles : at[c] = h /\ todo[c] \in Seq(Steps)
    BY InHand
  <1>2. /\ held'[h] = held[h] \ X /\ \A g \in Handles : g # h => held'[g] = held[g]
        /\ held' \in [Handles -> SUBSET Resources] /\ todo'[c] = Tail(todo[c])
        /\ \A d \in Clients : d # c => todo'[d] = todo[d]
    BY <1>1 DEF RoomInv, IInv, Types
  <1>3. ASSUME NEW y \in held'[h]
        PROVE  ToCome(todo'[c], Gives(y))
    <2>1. y \in held[h] /\ y \notin X /\ y \in Resources
      BY <1>2 DEF RoomInv
    <2>2. ToCome(todo[c], Gives(y)) /\ Gives(y) # Head(todo[c])
      BY <1>1, <2>1 DEF RoomInv, Covered
    <2> QED BY <1>1, <1>2, <2>2, OneLess
  <1>4. Begun(c)' /\ Covered(c)'
    BY <1>1, <1>3 DEF Begun, Covered, ToCome
  <1> QED BY <1>1, <1>2, <1>4, OwnRoom

LEMMA Destruction_Room ==
  ASSUME IInv, RoomInv, NEW c \in Clients, Release(c) \/ Ask(c) \/ Wake(c) \/ Join(c)
  PROVE  RoomInv'
  <1>1. held \in [Handles -> SUBSET Resources]
    BY DEF RoomInv
  <1>2. CASE Release(c)
    <2> DEFINE x == Head(todo[c])
    <2>1. /\ pc[c] = "undo" /\ todo[c] # <<>> /\ x \notin {"ask", "wake", "join"}
          /\ held' = [held EXCEPT ![at[c]] = @ \ {x}]
          /\ todo' = [todo EXCEPT ![c] = Tail(@)] /\ UNCHANGED <<owned, pc, at>>
      BY <1>2 DEF Release, Advance
    <2>2. {x} \in SUBSET Resources
      BY <2>1, InHand, OneLess DEF Resources
    <2>3. \A y \in Resources : Gives(y) = x => y \in {x}
      BY <2>1 DEF Gives
    <2> QED BY <2>1, <2>2, <2>3, Destroyed
  <1>3. CASE Ask(c) \/ Wake(c)
    <2>1. /\ pc[c] = "undo" /\ todo[c] # <<>> /\ Head(todo[c]) \in {"ask", "wake"}
          /\ todo' = [todo EXCEPT ![c] = Tail(@)] /\ UNCHANGED <<held, owned, pc, at>>
      BY <1>3 DEF Ask, Wake, Advance
    <2>2. held' = [held EXCEPT ![at[c]] = @ \ {}] /\ {} \in SUBSET Resources
      BY <1>1, <2>1
    <2>3. \A y \in Resources : Gives(y) # Head(todo[c])
      BY <2>1 DEF Gives, Resources
    <2> QED BY <2>1, <2>2, <2>3, Destroyed
  <1>4. CASE Join(c)
    <2>1. /\ pc[c] = "undo" /\ todo[c] # <<>> /\ Head(todo[c]) = "join"
          /\ held' = [held EXCEPT ![at[c]] = @ \ {"thread"}]
          /\ todo' = [todo EXCEPT ![c] = Tail(@)] /\ UNCHANGED <<owned, pc, at>>
      BY <1>4 DEF Join, Advance
    <2>2. {"thread"} \in SUBSET Resources
      BY DEF Resources, Steps
    <2>3. \A y \in Resources : Gives(y) = Head(todo[c]) => y \in {"thread"}
      BY <2>1 DEF Gives, Resources
    <2> QED BY <2>1, <2>2, <2>3, Destroyed
  <1> QED BY <1>2, <1>3, <1>4

LEMMA SameRoom ==
  ASSUME RoomInv, UNCHANGED <<held, owned, pc, at, todo>>
  PROVE  RoomInv'
  <1>1. ASSUME NEW c \in Clients
        PROVE  Begun(c)' /\ Covered(c)'
    <2>1. Begun(c) /\ Covered(c)
      BY DEF RoomInv
    <2> QED BY <2>1 DEF Begun, Covered, Ordered, ToCome
  <1>2. ASSUME NEW h \in Handles
        PROVE  Bare(h)'
    BY DEF RoomInv, Bare, IsOwned, Working
  <1>3. (held \in [Handles -> SUBSET Resources])'
    BY DEF RoomInv
  <1> QED BY <1>1, <1>2, <1>3 DEF RoomInv

LEMMA NextRoom ==
  ASSUME FailingSteps \subseteq Undone, IInv, RoomInv, [Next]_vars
  PROVE  RoomInv'
  <1>1. CASE OmxInit \/ OmxDeinit
    BY <1>1, SameRoom DEF OmxInit, OmxDeinit
  <1>2. ASSUME NEW c \in Clients,
               GetHandle(c) \/ FreeHandle(c) \/ CreateFails(c) \/ Send(c) \/ ClientStep(c)
        PROVE  RoomInv'
    <2>1. CASE Send(c)
      BY <2>1, SameRoom DEF Send
    <2> QED BY <1>2, <2>1, GetHandle_Room, FreeHandle_Room, CreateFails_Room, AppendLinks_Room,
            AppendLocks_Room, FreeUnlinks_Room, Create_Room, Destruction_Room, Finish_Room
            DEF ClientStep
  <1>3. ASSUME NEW h \in Handles, HandlerStep(h)
        PROVE  RoomInv'
    BY <1>3, SameRoom DEF HandlerStep, Handle, Answer, HandlerSame
  <1>4. CASE UNCHANGED vars
    BY <1>4, SameRoom DEF vars
  <1> QED BY <1>1, <1>2, <1>3, <1>4 DEF Next

\* However the calls of the clients interleave (SEC_OMX_GetHandle and SEC_OMX_FreeHandle),
\* the list of loaded components has every component that somebody has, once, and
\* none that is gone; and nothing is left of a component that was freed or whose making
\* failed, when what fails is one of the creations after which the code gives back all
\* that came before.
THEOREM Accounted == FailingSteps \subseteq Undone => (Spec => []HandlesAccountedFor)
  <1> SUFFICES ASSUME FailingSteps \subseteq Undone
               PROVE  Spec => []HandlesAccountedFor
    OBVIOUS
  <1>1. Init => IInv /\ ListInv /\ RoomInv
    BY InitInv, InitList, InitRoom
  <1>2. IInv /\ ListInv /\ RoomInv /\ [Next]_vars => (IInv /\ ListInv /\ RoomInv)'
    BY NextInv, NextList, NextRoom
  <1>3. IInv /\ ListInv /\ RoomInv => HandlesAccountedFor
    <2> SUFFICES ASSUME IInv, ListInv, RoomInv
                 PROVE  TypeOK /\ ListedOnce /\ NothingLeft
      BY DEF HandlesAccountedFor
    <2>1. TypeOK
      BY DEF IInv, Types, ListInv, ListTypes, TypeOK, Places
    <2>2. ListedOnce
      BY EachListedOnce
    <2>3. NothingLeft
      BY DEF RoomInv, Bare, Working, NothingLeft, AtRest, Owners, IsOwned
    <2> QED BY <2>1, <2>2, <2>3
  <1> QED BY <1>1, <1>2, <1>3, PTL DEF Spec

-----------------------------------------------------------------------------
(* The components that share the codecs, when no codec fails to open.         *)

Resting == {"Idle", "Executing", "Pause"}
Waiting == {"Loaded", "WaitForResources"}
Lining == {"inWait", "outWait", "setWait", "setLoaded"}
Has(c) == Manager!Listed(c) \/ codec[c]

ShareTypes ==
  /\ componentList \in Seq(Components) /\ Distinct(componentList)
  /\ currentState = [c \in Components |-> currentState[c]]
  /\ rmPc = [c \in Components |-> rmPc[c]] /\ cmd = [c \in Components |-> cmd[c]]
  /\ codec \in [Components -> BOOLEAN]

\* A component that is Loaded or waits has nothing but on its way to Idle, and one that has
\* released and unloaded has nothing left.
Rolled(c) ==
  /\ currentState[c] \in Waiting /\ rmPc[c] \notin {"loaded", "init"} => ~Has(c)
  /\ rmPc[c] \in {"get", "preempt", "loaded", "init"} => currentState[c] = "Loaded"
  /\ rmPc[c] \in Lining => currentState[c] \in Waiting
  /\ rmPc[c] = "move" => cmd[c].dest \in Resting
  /\ rmPc[c] \in {"unload", "unloaded"} => ~Manager!Listed(c)
  /\ rmPc[c] = "unloaded" => ~codec[c]

ShareInv == ShareTypes /\ \A c \in Components : Rolled(c)

LEMMA ShareInit == Manager!Init => ShareInv
  BY DEF Manager!Init, ShareInv, ShareTypes, Rolled, Has, Manager!Listed, Distinct, Lining

\* removeElementList, of any component.
LEMMA Discard ==
  ASSUME NEW s \in Seq(Components), Distinct(s), NEW c
  PROVE  /\ Manager!Without(s, c) \in Seq(Components) /\ Distinct(Manager!Without(s, c))
         /\ \A g : Manager!Queued(Manager!Without(s, c), g) => g # c /\ Manager!Queued(s, g)
  <1>0. DOMAIN s = 1..Len(s)
    BY LenProperties
  <1>1. CASE ~\E i \in DOMAIN s : s[i] = c
    <2>1. Manager!Without(s, c) = s
      BY <1>1 DEF Manager!Without
    <2> QED BY <1>1, <2>1 DEF Manager!Queued
  <1>2. ASSUME NEW k \in DOMAIN s, s[k] = c
        PROVE  /\ Manager!Without(s, c) \in Seq(Components) /\ Distinct(Manager!Without(s, c))
               /\ \A g : Manager!Queued(Manager!Without(s, c), g) => g # c /\ Manager!Queued(s, g)
    <2> DEFINE P(i) == s[i] = c /\ \A j \in 1..i - 1 : s[j] # c
               n == Manager!FirstOf(s, c)
               rest == Cut(s, k)
    <2>1. P(k) /\ \A i \in DOMAIN s : P(i) => i = k
      BY <1>0, <1>2 DEF Distinct
    <2>2. n = k
      <3>1. n = CHOOSE i \in DOMAIN s : P(i)
        BY DEF Manager!FirstOf
      <3> HIDE DEF n, P
      <3>2. n \in DOMAIN s /\ P(n)
        BY <2>1, <3>1, Zenon
      <3> QED BY <2>1, <3>2
    <2>3. Manager!Without(s, c) = rest
      BY <1>2, <2>2 DEF Manager!Without, Cut
    <2> HIDE DEF n, P
    <2>4. k \in 1..Len(s)
      BY <1>0
    <2>5. /\ rest \in Seq(Components) /\ Distinct(rest)
          /\ \A g : (\E i \in 1..Len(rest) : rest[i] = g) <=> g # s[k] /\ \E i \in 1..Len(s) : s[i] = g
      BY <2>4, CutOut
    <2> HIDE DEF rest
    <2>6. DOMAIN rest = 1..Len(rest)
      BY <2>5, LenProperties
    <2> QED BY <1>0, <1>2, <2>3, <2>5, <2>6 DEF Manager!Queued
  <1> QED BY <1>1, <1>2

LEMMA Enlist ==
  ASSUME NEW s \in Seq(Components), Distinct(s), NEW c \in Components, ~Manager!Queued(s, c)
  PROVE  /\ Append(s, c) \in Seq(Components) /\ Distinct(Append(s, c))
         /\ \A g : Manager!Queued(Append(s, c), g) => g = c \/ Manager!Queued(s, g)
  <1> DEFINE t == Append(s, c)
  <1>1. /\ t \in Seq(Components) /\ Len(t) = Len(s) + 1 /\ Len(s) \in Nat
        /\ \A i \in 1..Len(s) : t[i] = s[i]
        /\ t[Len(s) + 1] = c /\ DOMAIN s = 1..Len(s) /\ DOMAIN t = 1..Len(t)
    BY AppendProperties, LenProperties
  <1> HIDE DEF t
  <1>2. \A i \in 1..Len(s) : s[i] # c
    BY <1>1 DEF Manager!Queued
  <1>3. \A i \in 1..Len(t) : i \in 1..Len(s) \/ i = Len(s) + 1
    BY <1>1
  <1>4. Distinct(t)
    BY <1>1, <1>2, <1>3 DEF Distinct
  <1>5. \A g : Manager!Queued(t, g) => g = c \/ Manager!Queued(s, g)
    BY <1>1, <1>3 DEF Manager!Queued
  <1> QED BY <1>1, <1>4, <1>5 DEF t

\* A step of one component by which nobody else gets an entry.
LEMMA ByItself ==
  ASSUME ShareInv, NEW c \in Components, ShareTypes', Rolled(c)',
         \A d \in Components \ {c} :
           /\ currentState'[d] = currentState[d] /\ cmd'[d] = cmd[d]
           /\ rmPc'[d] = rmPc[d] /\ codec'[d] = codec[d]
           /\ Manager!Listed(d)' => Manager!Listed(d)
  PROVE  ShareInv'
  <1>1. ASSUME NEW d \in Components \ {c} PROVE Rolled(d)'
    <2>1. Rolled(d)
      BY DEF ShareInv
    <2> QED BY <2>1 DEF Rolled, Has
  <1> QED BY <1>1 DEF ShareInv

\* Buffers, messages and the list of those who wait do not matter.
LEMMA Aside ==
  ASSUME ShareInv, componentList' = componentList, currentState' = currentState,
         cmd' = cmd, rmPc' = rmPc, codec' = codec
  PROVE  ShareInv'
  BY DEF ShareInv, ShareTypes, Rolled, Has, Manager!Listed

LEMMA FirstStepTells ==
  ASSUME NEW s, NEW d
  PROVE  /\ Manager!FirstStep(s, d) \notin {"preempt", "loaded", "init", "unload", "unloaded"}
         /\ Manager!FirstStep(s, d) = "get" => s = "Loaded"
         /\ Manager!FirstStep(s, d) = "move" => d \in Resting
         /\ Manager!FirstStep(s, d) \in Lining => s \in Waiting
  <1>1. CASE <<s, d>> \in Manager!Moves
    <2>1. d \in Resting
      BY <1>1 DEF Manager!Moves, Resting
    <2> QED BY <2>1 DEF Manager!FirstStep, Lining, Waiting
  <1>2. CASE <<s, d>> \notin Manager!Moves
    BY <1>2 DEF Manager!FirstStep, Lining, Waiting
  <1> QED BY <1>1, <1>2

\* The steps of a thread that leave the list alone.
LEMMA ThreadSteps ==
  ASSUME ShareInv, NEW c \in Components, NEW s, NEW l, NEW m, NEW b \in BOOLEAN,
         componentList' = componentList,
         currentState' = [currentState EXCEPT ![c] = s], rmPc' = [rmPc EXCEPT ![c] = l],
         cmd' = [cmd EXCEPT ![c] = m], codec' = [codec EXCEPT ![c] = b],
         Manager!Listed(c)' = Manager!Listed(c) =>
           /\ s \in Waiting /\ l \notin {"loaded", "init"} => ~Manager!Listed(c) /\ ~b
           /\ l \in {"get", "preempt", "loaded", "init"} => s = "Loaded"
           /\ l = "move" => m.dest \in Resting
           /\ l \in Lining => s \in Waiting
           /\ l \in {"unload", "unloaded"} => ~Manager!Listed(c)
           /\ l = "unloaded" => ~b
  PROVE  ShareInv'
  <1>1. ShareTypes
    BY DEF ShareInv
  <1>2. \A d \in Components : Manager!Listed(d)' = Manager!Listed(d)
    BY DEF Manager!Listed
  <1>3. /\ ShareTypes' /\ currentState'[c] = s /\ rmPc'[c] = l /\ cmd'[c] = m /\ codec'[c] = b
        /\ \A d \in Components \ {c} :
             /\ currentState'[d] = currentState[d] /\ cmd'[d] = cmd[d]
             /\ rmPc'[d] = rmPc[d] /\ codec'[d] = codec[d]
    BY <1>1 DEF ShareTypes
  <1>4. Rolled(c)'
    BY <1>2, <1>3 DEF Rolled, Has
  <1> QED BY <1>2, <1>3, <1>4, ByItself

LEMMA TakeCommand_Share ==
  ASSUME ShareInv, NEW c \in Components, Manager!TakeCommand(c)
  PROVE  ShareInv'
  <1> DEFINE m == Head(messageQ[c])
             l == Manager!FirstStep(currentState[c], m.dest)
  <1>1. ShareTypes /\ Rolled(c)
    BY DEF ShareInv
  <1>2. /\ componentList' = componentList /\ rmPc[c] = "idle"
        /\ currentState' = [currentState EXCEPT ![c] = currentState[c]]
        /\ rmPc' = [rmPc EXCEPT ![c] = l] /\ cmd' = [cmd EXCEPT ![c] = m]
        /\ codec' = [codec EXCEPT ![c] = codec[c]] /\ codec[c] \in BOOLEAN
    BY <1>1 DEF Manager!TakeCommand, Manager!Goto, Manager!listVars, ShareTypes
  <1>3. /\ l \notin {"preempt", "loaded", "init", "unload", "unloaded"}
        /\ l = "get" => currentState[c] = "Loaded"
        /\ l = "move" => m.dest \in Resting
        /\ l \in Lining => currentState[c] \in Waiting
    BY FirstStepTells
  <1> HIDE DEF m, l
  <1> QED BY <1>1, <1>2, <1>3, ThreadSteps DEF Rolled, Has

LEMMA Thread_Share ==
  ASSUME ShareInv, NEW c \in Components, InitResults \subseteq {"ok"},
         \/ Manager!Refuse(c) \/ Manager!Move(c) \/ Manager!GetRefused(c) \/ Manager!PreemptTell(c)
         \/ Manager!WaitLoaded(c) \/ \E r \in InitResults : Manager!CodecInit(c, r)
         \/ Manager!Unload(c) \/ Manager!WaitUnloaded(c)
         \/ Manager!Invalidate(c) \/ Manager!Terminate(c)
         \/ Manager!InWait(c) \/ Manager!OutWait(c) \/ Manager!SetWaiting(c)
  PROVE  ShareInv'
  <1> USE DEF Manager!Finish, Manager!Goto, Manager!SetState, Lining
  <1>1. ShareTypes /\ Rolled(c)
    BY DEF ShareInv
  <1>2. /\ currentState = [currentState EXCEPT ![c] = currentState[c]] /\ codec[c] \in BOOLEAN
        /\ codec = [codec EXCEPT ![c] = codec[c]] /\ cmd = [cmd EXCEPT ![c] = cmd[c]]
    BY <1>1 DEF ShareTypes
  <1>3. CASE Manager!Refuse(c) \/ Manager!GetRefused(c)
    <2>1. /\ currentState' = currentState /\ codec' = codec /\ componentList' = componentList
          /\ rmPc[c] \in {"refuse", "get"} /\ rmPc' = [rmPc EXCEPT ![c] = "idle"]
          /\ cmd' = [cmd EXCEPT ![c] = Manager!NoCommand]
      BY <1>3 DEF Manager!Refuse, Manager!GetRefused, Manager!listVars
    <2> QED BY <1>1, <1>2, <2>1, ThreadSteps DEF Rolled, Has
  <1>4. CASE Manager!Move(c)
    <2>1. cmd[c].dest \notin Waiting
      BY <1>1, <1>4 DEF Manager!Move, Rolled, Resting, Waiting
    <2> QED BY <1>1, <1>2, <1>4, <2>1, ThreadSteps DEF Manager!Move, Manager!listVars
  <1>5. CASE Manager!PreemptTell(c)
    <2>1. /\ currentState' = currentState /\ codec' = codec /\ componentList' = componentList
          /\ rmPc[c] = "get" /\ rmPc' = [rmPc EXCEPT ![c] = "preempt"] /\ cmd' = cmd
      BY <1>5 DEF Manager!PreemptTell
    <2> QED BY <1>1, <1>2, <2>1, ThreadSteps DEF Rolled, Has
  <1>6. CASE Manager!WaitLoaded(c)
    BY <1>1, <1>2, <1>6, ThreadSteps DEF Manager!WaitLoaded, Manager!listVars, Rolled, Has
  <1>7. ASSUME NEW r \in InitResults, Manager!CodecInit(c, r) PROVE ShareInv'
    <2>1. /\ currentState' = [currentState EXCEPT ![c] = "Idle"]
          /\ codec' = [codec EXCEPT ![c] = TRUE] /\ "Idle" \notin Waiting
          /\ componentList' = componentList
          /\ rmPc' = [rmPc EXCEPT ![c] = "idle"] /\ cmd' = [cmd EXCEPT ![c] = Manager!NoCommand]
      <3>1. r = "ok"
        OBVIOUS
      <3> QED BY <1>7, <3>1 DEF Manager!CodecInit, Waiting, Manager!listVars
    <2> QED BY <2>1, ThreadSteps
  <1>8. CASE Manager!Unload(c)
    BY <1>1, <1>2, <1>8, ThreadSteps DEF Manager!Unload, Manager!listVars, Rolled, Has
  <1>9. CASE Manager!WaitUnloaded(c)
    BY <1>1, <1>2, <1>9, ThreadSteps DEF Manager!WaitUnloaded, Manager!listVars, Rolled, Has
  <1>10. CASE Manager!Invalidate(c)
    BY <1>1, <1>2, <1>10, ThreadSteps DEF Manager!Invalidate, Manager!listVars, Waiting
  <1>11. CASE Manager!Terminate(c)
    BY <1>1, <1>2, <1>11, ThreadSteps DEF Manager!Terminate, Manager!listVars, Rolled, Has
  <1>12. CASE Manager!InWait(c) \/ Manager!OutWait(c)
    <2>1. /\ currentState' = currentState /\ codec' = codec /\ componentList' = componentList
          /\ cmd' = cmd /\ rmPc[c] \in {"inWait", "outWait"}
          /\ \/ rmPc' = [rmPc EXCEPT ![c] = "setWait"]
             \/ rmPc' = [rmPc EXCEPT ![c] = "setLoaded"]
      BY <1>12 DEF Manager!InWait, Manager!OutWait
    <2> QED BY <1>1, <1>2, <2>1, ThreadSteps DEF Rolled, Has
  <1>13. CASE Manager!SetWaiting(c)
    BY <1>1, <1>2, <1>13, ThreadSteps DEF Manager!SetWaiting, Manager!listVars, Rolled, Has
  <1> QED BY <1>3, <1>4, <1>5, <1>6, <1>7, <1>8, <1>9, <1>10, <1>11, <1>12, <1>13

\* To get an entry, also in exchange for one that another loses.
LEMMA Joining ==
  ASSUME ShareInv, NEW c \in Components, rmPc[c] \in {"get", "preempt"},
         NEW rest \in Seq(Components), Distinct(rest),
         \A g : Manager!Queued(rest, g) => Manager!Queued(componentList, g),
         componentList' = Append(rest, c), rmPc' = [rmPc EXCEPT ![c] = "loaded"],
         currentState' = currentState, cmd' = cmd, codec' = codec
  PROVE  ShareInv'
  <1>1. ShareTypes /\ Rolled(c)
    BY DEF ShareInv
  <1>2. currentState[c] = "Loaded" /\ ~Manager!Listed(c)
    BY <1>1 DEF Rolled, Has, Waiting
  <1>3. ~Manager!Queued(rest, c)
    BY <1>2 DEF Manager!Listed, Manager!Queued
  <1>4. /\ componentList' \in Seq(Components) /\ Distinct(componentList')
        /\ \A g : Manager!Queued(componentList', g) => g = c \/ Manager!Queued(rest, g)
    BY <1>3, Enlist
  <1>5. /\ ShareTypes' /\ rmPc'[c] = "loaded" /\ \A d \in Components \ {c} : rmPc'[d] = rmPc[d]
    BY <1>1, <1>4 DEF ShareTypes
  <1>6. Rolled(c)'
    BY <1>1, <1>2, <1>5 DEF Rolled, Lining
  <1>7. ASSUME NEW d \in Components \ {c}, Manager!Listed(d)' PROVE Manager!Listed(d)
    <2>1. Manager!Queued(componentList', d)
      BY <1>7 DEF Manager!Listed, Manager!Queued
    <2>2. Manager!Queued(componentList, d)
      BY <1>4, <2>1
    <2> QED BY <2>2 DEF Manager!Listed, Manager!Queued
  <1> QED BY <1>5, <1>6, <1>7, ByItself

LEMMA Get_Share ==
  ASSUME ShareInv, NEW c \in Components,
         \/ Manager!GetFree(c) \/ Manager!PreemptSilently(c) \/ Manager!PreemptSend(c)
  PROVE  ShareInv'
  <1>1. /\ rmPc[c] \in {"get", "preempt"} /\ rmPc' = [rmPc EXCEPT ![c] = "loaded"]
        /\ currentState' = currentState /\ cmd' = cmd /\ codec' = codec
    BY DEF Manager!GetFree, Manager!PreemptSilently, Manager!PreemptSend, Manager!Goto
  <1>2. componentList \in Seq(Components) /\ Distinct(componentList)
    BY DEF ShareInv, ShareTypes
  <1>3. CASE Manager!GetFree(c)
    BY <1>1, <1>2, <1>3, Joining DEF Manager!GetFree
  <1>4. CASE Manager!PreemptSilently(c) \/ Manager!PreemptSend(c)
    <2> DEFINE v == Manager!Victim(c)
               rest == Manager!Without(componentList, v)
    <2>1. componentList' = Append(rest, c)
      BY <1>4 DEF Manager!PreemptSilently, Manager!PreemptSend, Manager!HandOver
    <2>2. /\ rest \in Seq(Components) /\ Distinct(rest)
          /\ \A g : Manager!Queued(rest, g) => Manager!Queued(componentList, g)
      <3> HIDE DEF v
      <3> QED BY <1>2, Discard
    <2> HIDE DEF v, rest
    <2> QED BY <1>1, <2>1, <2>2, Joining
  <1> QED BY <1>3, <1>4

LEMMA Release_Share ==
  ASSUME ShareInv, NEW c \in Components, Manager!Release(c)
  PROVE  ShareInv'
  <1> DEFINE l == Manager!AfterRelease(c)
  <1>1. ShareTypes /\ Rolled(c)
    BY DEF ShareInv
  <1>2. /\ componentList' = Manager!Without(componentList, c) /\ rmPc' = [rmPc EXCEPT ![c] = l]
        /\ currentState' = currentState /\ cmd' = cmd /\ codec' = codec /\ rmPc[c] = "release"
        /\ l \in {"unload", "invalidate"}
    BY DEF Manager!Release, Manager!Goto, Manager!AfterRelease
  <1> HIDE DEF l
  <1>3. /\ componentList' \in Seq(Components) /\ Distinct(componentList')
        /\ \A g : Manager!Queued(componentList', g) => g # c /\ Manager!Queued(componentList, g)
    BY <1>1, <1>2, Discard DEF ShareTypes
  <1>4. /\ ShareTypes' /\ rmPc'[c] = l /\ \A d \in Components \ {c} : rmPc'[d] = rmPc[d]
    BY <1>1, <1>2, <1>3 DEF ShareTypes
  <1>5. ~Manager!Listed(c)' /\ \A d \in Components : Manager!Listed(d)' => Manager!Listed(d)
    BY <1>3 DEF Manager!Listed, Manager!Queued
  <1>6. Rolled(c)'
    BY <1>1, <1>2, <1>4, <1>5 DEF Rolled, Has, Lining
  <1> QED BY <1>2, <1>4, <1>5, <1>6, ByItself

LEMMA NextShare ==
  ASSUME InitResults \subseteq {"ok"}, ShareInv, [Manager!Next]_(Manager!vars)
  PROVE  ShareInv'
  <1>1. ASSUME NEW c \in Components, Manager!Handler(c) PROVE ShareInv'
    BY <1>1, TakeCommand_Share, Thread_Share, Get_Share, Release_Share
       DEF Manager!Handler, Manager!Get, Manager!Acquire, Manager!GiveUp, Manager!Waiting
  <1>2. ASSUME NEW c \in Components, Manager!Client(c) PROVE ShareInv'
    BY <1>2, Aside DEF Manager!Client, Manager!Send, Manager!UseBuffers, Manager!FreeBuffers,
       Manager!listVars
  <1>3. CASE UNCHANGED Manager!vars
    BY <1>3, Aside DEF Manager!vars, Manager!listVars
  <1> QED BY <1>1, <1>2, <1>3 DEF Manager!Next

\* Components of any importance that share any number of codecs, preempt one another, wait
\* for a codec and give up waiting: one that is Loaded and at rest has neither an entry in
\* the manager's list nor an open codec, whatever it went through, as long as no codec fails
\* to open (after which the code leaves the entry behind).
THEOREM AllRolledBack == InitResults \subseteq {"ok"} => (Manager!Spec => []RolledBack)
  <1> SUFFICES ASSUME InitResults \subseteq {"ok"} PROVE Manager!Spec => []RolledBack
    OBVIOUS
  <1>1. ShareInv /\ [Manager!Next]_(Manager!vars) => ShareInv'
    BY NextShare
  <1>2. ShareInv => RolledBack
    BY DEF ShareInv, Rolled, Has, Waiting, RolledBack, Manager!RolledBack, Manager!Quiet
  <1> QED BY <1>1, <1>2, ShareInit, PTL DEF Manager!Spec
=============================================================================
