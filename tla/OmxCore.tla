------------------------------ MODULE OmxCore ------------------------------
(***************************************************************************)
(* The life of OMX components: SEC_OMX_Core.c (Init, GetHandle, FreeHandle,*)
(* Deinit and the list of loaded components), SEC_OMX_Component_Register.c *)
(* (loading the library, calling its ComponentInit), the constructors and  *)
(* destructors of the base component, its ports, the video components and  *)
(* the four codecs, and the message handler thread each component has.     *)
(* What is allocated is a set of named resources; each creation may fail.  *)
(* A client frees a handle when its commands have been answered, and       *)
(* the core is deinitialised when no handle is left.                       *)
(***************************************************************************)
EXTENDS Integers, Sequences, FiniteSets

CONSTANTS Clients, Handles,
          Kinds,          \* the components that are asked for
          FailingSteps,   \* creations that may fail
          MaxFailures, MaxCommands, MaxGets      \* bounds

ASSUME CoreAssumption == "free" \notin Clients

Groups == {[h \in Handles |-> k] : k \in Kinds}      \* what the handles may be

VARIABLES initialized,    \* gInitialized
          list,           \* gLoadComponentList
          listMutex,      \* ghLoadComponentListMutex: its holder, or "free"
          held,           \* resources allocated for each handle
          kind,           \* the component behind each handle
          handler,        \* the message handler thread
          messages, sema, \* messageQ and its semaphore
          unanswered,     \* commands whose event has not come
          owned,          \* handles each client has
          pc, at,         \* of each client: its step, and the handle it works on
          todo,           \* creations (GetHandle) or releases (FreeHandle) to come
          seen,           \* the list as the client that holds the mutex read it
          failures, gets

vars == <<initialized, list, listMutex, held, kind, handler, messages, sema, unanswered,
          owned, pc, at, todo, seen, failures, gets>>
handlerVars == <<handler, messages, sema, unanswered>>

None == "none"
AllKinds == {"h264dec", "mpeg4dec", "h264enc", "mpeg4enc"}

----------------------------------------------------------------------------
(* What is created, in the order of the code                                *)

BaseConstructor == <<"base", "sema", "mutex", "thread">>
PortConstructor == <<"inputPort", "outputPort">>
VideoDecodeInit == BaseConstructor \o PortConstructor \o <<"mime">>
VideoEncodeInit == BaseConstructor \o PortConstructor \o <<"mime">>
H264DecInit == VideoDecodeInit \o <<"name", "codec">>
Mpeg4DecInit == VideoDecodeInit \o <<"name", "codec">>
H264EncInit == VideoEncodeInit \o <<"name", "codec">>
Mpeg4EncInit == VideoEncodeInit \o <<"name", "codec">>
ComponentInit(k) == CASE k = "h264dec" -> H264DecInit [] k = "mpeg4dec" -> Mpeg4DecInit
                      [] k = "h264enc" -> H264EncInit [] OTHER -> Mpeg4EncInit
ComponentLoad(k) == <<"library", "component">> \o ComponentInit(k)

(* What is released, in the order of the code; "join" ends the handler thread.  *)
BaseDestructor_KeepsThread == <<"ask", "wake", "mutex", "sema", "base">>  \* MUTANT: no join
BaseDestructor == <<"ask", "wake", "join", "mutex", "sema", "base">>
PortDestructor == <<"inputPort", "outputPort">>
VideoDecodeDeinit == <<"mime">> \o PortDestructor \o BaseDestructor
VideoEncodeDeinit == <<"mime">> \o PortDestructor \o BaseDestructor
H264DecDeinit == <<"name", "codec">> \o VideoDecodeDeinit
Mpeg4DecDeinit == <<"name", "codec">> \o VideoDecodeDeinit
H264EncDeinit == <<"name", "codec">> \o VideoEncodeDeinit
Mpeg4EncDeinit == <<"name", "codec">> \o VideoEncodeDeinit
ComponentDeinit(k) == CASE k = "h264dec" -> H264DecDeinit [] k = "mpeg4dec" -> Mpeg4DecDeinit
                        [] k = "h264enc" -> H264EncDeinit [] OTHER -> Mpeg4EncDeinit
ComponentUnload(k) == ComponentDeinit(k) \o <<"component", "library">>

\* What follows a creation that failed: each layer gives back what it knows of.
Undo_Forgets(k, step) == <<"component", "library", "load">>     \* MUTANT: only the caller's own
Undo(k, step) ==
  LET outer == <<"component", "library", "load">>
      video == IF k \in {"h264dec", "mpeg4dec"} THEN VideoDecodeDeinit ELSE VideoEncodeDeinit
  IN CASE step = "library" -> <<"load">>
       [] step \in {"base", "sema", "mutex", "thread"} -> outer
       [] step = "inputPort" -> BaseDestructor \o outer
       [] step = "outputPort" -> <<"inputPort">> \o BaseDestructor \o outer
       [] step \in {"name", "codec"} -> video \o outer
       [] OTHER -> outer

----------------------------------------------------------------------------
Init ==
  /\ initialized = FALSE /\ list = <<>> /\ listMutex = "free"
  /\ held = [h \in Handles |-> {}] /\ kind \in Groups
  /\ handler = [h \in Handles |-> None] /\ messages = [h \in Handles |-> <<>>]
  /\ sema = [h \in Handles |-> 0] /\ unanswered = [h \in Handles |-> 0]
  /\ owned = [c \in Clients |-> {}] /\ pc = [c \in Clients |-> "idle"]
  /\ at = [c \in Clients |-> None] /\ todo = [c \in Clients |-> <<>>]
  /\ seen = <<>> /\ failures = 0 /\ gets = 0

Step(c, from, to) == pc[c] = from /\ pc' = [pc EXCEPT ![c] = to]
Quiet == \A c \in Clients: pc[c] = "idle" /\ owned[c] = {}

\* SEC_OMX_Init registers the components, and makes the mutex of the list.
OmxInit == /\ ~initialized /\ initialized' = TRUE /\ listMutex' = "free"
           /\ UNCHANGED <<list, held, kind, handlerVars, owned, pc, at, todo, seen, failures, gets>>
OmxDeinit == /\ initialized /\ Quiet /\ initialized' = FALSE
             /\ UNCHANGED <<list, listMutex, held, kind, handlerVars, owned, pc, at, todo, seen,
                            failures, gets>>

\* GetHandle: refused before Init; else the name is looked up and the component loaded.
GetHandle(c) ==
  /\ gets < MaxGets /\ gets' = gets + 1 /\ pc[c] = "idle" /\ initialized
  /\ \E h \in Handles:
       /\ held[h] = {} /\ \A d \in Clients: at[d] # h
       /\ held' = [held EXCEPT ![h] = {"load"}]
       /\ at' = [at EXCEPT ![c] = h] /\ todo' = [todo EXCEPT ![c] = ComponentLoad(kind[h])]
       /\ pc' = [pc EXCEPT ![c] = "load"]
  /\ UNCHANGED <<initialized, list, listMutex, kind, handlerVars, owned, seen, failures>>

\* One creation after the other; the handler thread runs as soon as it is created.
Create(c) ==
  /\ pc[c] = "load" /\ todo[c] # <<>>
  /\ LET h == at[c]  x == Head(todo[c])
     IN /\ held' = [held EXCEPT ![h] = @ \cup {x}]
        /\ handler' = IF x = "thread" THEN [handler EXCEPT ![h] = "waiting"] ELSE handler
        /\ messages' = IF x = "thread" THEN [messages EXCEPT ![h] = <<>>] ELSE messages
        /\ sema' = IF x = "sema" THEN [sema EXCEPT ![h] = 0] ELSE sema
  /\ todo' = [todo EXCEPT ![c] = Tail(@)]
  /\ UNCHANGED <<initialized, list, listMutex, kind, unanswered, owned, pc, at, seen, failures, gets>>

CreateFails(c) ==
  /\ pc[c] = "load" /\ todo[c] # <<>> /\ Head(todo[c]) \in FailingSteps
  /\ failures < MaxFailures /\ failures' = failures + 1
  /\ todo' = [todo EXCEPT ![c] = Undo(kind[at[c]], Head(@))]
  /\ pc' = [pc EXCEPT ![c] = "undo"]
  /\ UNCHANGED <<initialized, list, listMutex, held, kind, handlerVars, owned, at, seen, gets>>

\* The loaded component is appended to the list, under its mutex.
CanLock(c) == listMutex = "free"

AppendLocks(c) ==
  /\ todo[c] = <<>> /\ Step(c, "load", "append") /\ CanLock(c)
  /\ listMutex' = c /\ seen' = list
  /\ UNCHANGED <<initialized, list, held, kind, handlerVars, owned, at, todo, failures, gets>>

AppendLinks(c) ==
  /\ Step(c, "append", "idle")
  /\ list' = Append(seen, at[c]) /\ listMutex' = "free"
  /\ owned' = [owned EXCEPT ![c] = @ \cup {at[c]}] /\ at' = [at EXCEPT ![c] = None]
  /\ UNCHANGED <<initialized, held, kind, handlerVars, todo, seen, failures, gets>>

\* FreeHandle: out of the list, under the mutex; then the component is unloaded.
FreeHandle(c) ==
  /\ initialized /\ CanLock(c) /\ Step(c, "idle", "unlink")
  /\ \E h \in owned[c]: /\ unanswered[h] = 0 /\ at' = [at EXCEPT ![c] = h]
                        /\ owned' = [owned EXCEPT ![c] = @ \ {h}]
  /\ listMutex' = c /\ seen' = list
  /\ UNCHANGED <<initialized, list, held, kind, handlerVars, todo, failures, gets>>

\* The walk along the list stops at the first entry of the handle.
Without(s, h) ==
  LET k == CHOOSE i \in DOMAIN s : s[i] = h /\ \A j \in 1..(i - 1) : s[j] # h
  IN SubSeq(s, 1, k - 1) \o SubSeq(s, k + 1, Len(s))

FreeUnlinks(c) ==
  /\ Step(c, "unlink", "undo")
  /\ list' = Without(seen, at[c]) /\ listMutex' = "free"
  /\ todo' = [todo EXCEPT ![c] = ComponentUnload(kind[at[c]]) \o <<"load">>]
  /\ UNCHANGED <<initialized, held, kind, handlerVars, owned, at, seen, failures, gets>>

\* One release after the other.  The destructor queues the command that ends the handler
\* thread, posts its semaphore, and joins it.
Advance(c) == todo' = [todo EXCEPT ![c] = Tail(@)]
Release(c) ==
  /\ pc[c] = "undo" /\ todo[c] # <<>> /\ Head(todo[c]) \notin {"ask", "wake", "join"}
  /\ held' = [held EXCEPT ![at[c]] = @ \ {Head(todo[c])}]
  /\ Advance(c)
  /\ UNCHANGED <<initialized, list, listMutex, kind, handlerVars, owned, pc, at, seen, failures, gets>>

AskToExit_OnlyPosts(h) ==                               \* MUTANT: no command, only the posts
  sema' = [sema EXCEPT ![h] = @ + 1] /\ UNCHANGED messages
AskToExit(h) ==
  /\ messages' = [messages EXCEPT ![h] = Append(@, "deinit")]
  /\ sema' = [sema EXCEPT ![h] = @ + 1]

Ask(c) ==
  /\ pc[c] = "undo" /\ todo[c] # <<>> /\ Head(todo[c]) = "ask"
  /\ AskToExit(at[c]) /\ Advance(c)
  /\ UNCHANGED <<initialized, list, listMutex, held, kind, handler, unanswered, owned, pc, at, seen,
                 failures, gets>>

Wake(c) ==
  /\ pc[c] = "undo" /\ todo[c] # <<>> /\ Head(todo[c]) = "wake"
  /\ sema' = [sema EXCEPT ![at[c]] = @ + (IF @ = 0 THEN 2 ELSE 1)] /\ Advance(c)
  /\ UNCHANGED <<initialized, list, listMutex, held, kind, handler, messages, unanswered, owned, pc,
                 at, seen, failures, gets>>

Join(c) ==
  /\ pc[c] = "undo" /\ todo[c] # <<>> /\ Head(todo[c]) = "join" /\ handler[at[c]] = "gone"
  /\ handler' = [handler EXCEPT ![at[c]] = None] /\ held' = [held EXCEPT ![at[c]] = @ \ {"thread"}]
  /\ Advance(c)
  /\ UNCHANGED <<initialized, list, listMutex, kind, messages, sema, unanswered, owned, pc, at, seen,
                 failures, gets>>

Finish(c) ==
  /\ todo[c] = <<>> /\ Step(c, "undo", "idle") /\ at' = [at EXCEPT ![c] = None]
  /\ UNCHANGED <<initialized, list, listMutex, held, kind, handlerVars, owned, todo, seen, failures,
                 gets>>

\* SendCommand, as far as the queue and the handler thread are concerned.
Send(c) ==
  /\ pc[c] = "idle"
  /\ \E h \in owned[c]:
       /\ unanswered[h] < MaxCommands
       /\ messages' = [messages EXCEPT ![h] = Append(@, "command")]
       /\ sema' = [sema EXCEPT ![h] = @ + 1] /\ unanswered' = [unanswered EXCEPT ![h] = @ + 1]
  /\ UNCHANGED <<initialized, list, listMutex, held, kind, handler, owned, pc, at, todo, seen,
                 failures, gets>>

(* The message handler thread                                                   *)
HandlerSame == UNCHANGED <<initialized, list, listMutex, held, kind, owned, pc, at, todo, seen,
                           failures, gets>>
Handle(h) ==
  /\ handler[h] = "waiting" /\ sema[h] > 0
  /\ sema' = [sema EXCEPT ![h] = @ - 1]
  /\ IF messages[h] = <<>> THEN UNCHANGED <<handler, messages>>
     ELSE /\ messages' = [messages EXCEPT ![h] = Tail(@)]
          /\ handler' = [handler EXCEPT ![h] = IF Head(messages[h]) = "deinit" THEN "gone"
                                                                              ELSE "busy"]
  /\ UNCHANGED unanswered /\ HandlerSame

\* The command is carried out on the ports, and its event sent; the message is freed later.
Answer(h) ==
  /\ handler[h] = "busy" /\ handler' = [handler EXCEPT ![h] = "waiting"]
  /\ unanswered' = [unanswered EXCEPT ![h] = @ - 1]
  /\ UNCHANGED <<messages, sema>> /\ HandlerSame

ClientStep(c) == AppendLinks(c) \/ AppendLocks(c) \/ FreeUnlinks(c) \/ Create(c) \/ Release(c)
                 \/ Ask(c) \/ Wake(c) \/ Join(c) \/ Finish(c)
HandlerStep(h) == Handle(h) \/ Answer(h)
Next == \/ OmxInit \/ OmxDeinit
        \/ \E c \in Clients: GetHandle(c) \/ FreeHandle(c) \/ CreateFails(c) \/ Send(c) \/ ClientStep(c)
        \/ \E h \in Handles: HandlerStep(h)
Spec == Init /\ [][Next]_vars
FairSpec == /\ Spec
            /\ \A c \in Clients: WF_vars(ClientStep(c) \/ CreateFails(c)) /\ SF_vars(AppendLocks(c))
            /\ \A h \in Handles: WF_vars(HandlerStep(h))

----------------------------------------------------------------------------
TypeOK ==
  /\ initialized \in BOOLEAN /\ listMutex \in Clients \cup {"free"}
  /\ \A h \in Handles: handler[h] \in {None, "waiting", "busy", "gone"} /\ sema[h] \in Nat
  /\ \A c \in Clients: pc[c] \in {"idle", "load", "append", "unlink", "undo"}

AtRest(h) == \A c \in Clients: at[c] # h
Owners(h) == {c \in Clients: h \in owned[c]}

(* Every handle a client has is in the list, once, and the list has no other    *)
(* handle but one that is being unlinked: calls of two clients lose no entry.   *)
ListedOnce ==
  \A h \in Handles:
    /\ Owners(h) # {} => Cardinality({i \in DOMAIN list : list[i] = h}) = 1
    /\ AtRest(h) /\ Owners(h) = {} => \A i \in DOMAIN list : list[i] # h

(* What no client has, or is getting or freeing, has nothing allocated, also    *)
(* after a creation that failed half way.                                       *)
NothingLeft == \A h \in Handles: AtRest(h) /\ Owners(h) = {} => held[h] = {}

(* A handler thread never outlives the memory of its component, nor carries     *)
(* out a command on ports that are freed.                                       *)
HandlerHasMemory ==
  \A h \in Handles: /\ handler[h] \in {"waiting", "busy"} => {"base", "sema"} \subseteq held[h]
                    /\ handler[h] = "busy" => {"inputPort", "outputPort", "codec"} \subseteq held[h]

(* GetHandle and FreeHandle return, whatever creation fails: the handler thread *)
(* ends when its component is destroyed, also while it still has messages.      *)
HandleCallsReturn == \A c \in Clients: pc[c] # "idle" ~> pc[c] = "idle"
=============================================================================
