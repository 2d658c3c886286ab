------------------------------ MODULE MC_Calls ------------------------------
(* Three systems whose every step is one call, in one run: the ring of a queue  *)
(* with the size the code uses; the parameters of a component; and three        *)
(* components, equally important, that share two codecs.  A behaviour is about  *)
(* one of them, the others stay as they were.                                   *)
EXTENDS OsalQueue

FlushCounts == {0}      \* a bufferQ: FlushPort calls SetElemNum(q, 0)

CONSTANTS Clients, Frames, Counts, Colors, MaxAge,                  \* of OmxParameters
          Components, MAX_RESOURCE_VIDEO, InitResults, Dests, MaxCommands   \* of ResourceManager

\* Every codec's own settings, and the buffers of a decoder and of an encoder.
MCClients == {<<"h264dec", "codec">>, <<"mpeg4dec", "codec">>, <<"h264enc", "codec">>,
              <<"h263enc", "codec">>, <<"h264dec", "buffers">>, <<"h264enc", "buffers">>}

VARIABLES
  kind, state, port, anb, meta, profile, errcorr, thumb, configured, held, got, told, excuses,
  ret, topic,
  componentList, waitingList, rmMutex, currentState, portState, messageQ, cmd, pc, codec,
  allocated, loadedResource, unloadedResource, sent,
  about                                          \* "queue", "parameters" or "manager"

Parameters == INSTANCE OmxParameters
Manager == INSTANCE ResourceManager WITH
  Priority <- [c \in Components |-> 1], MaxPriority <- 1

\* The components are those of this code; a picture takes room, and a component starts
\* with one of size 1; clients ask for states there are.
ASSUME CallsAssumption ==
  /\ Clients \subseteq Parameters!AllKinds \X Parameters!Topics
  /\ Frames \subseteq Nat \ {0} /\ 1 \in Frames /\ Counts \subseteq Nat
  /\ Colors \subseteq Parameters!Formats /\ MaxAge \in Nat
  /\ Dests \subseteq Manager!States

parameterVars ==
  <<kind, state, port, anb, meta, profile, errcorr, thumb, configured, held, got, told,
    excuses, ret, topic>>
managerVars ==
  <<componentList, waitingList, rmMutex, currentState, portState, messageQ, cmd, pc, codec,
    allocated, loadedResource, unloadedResource, sent>>
allVars == <<vars, parameterVars, managerVars, about>>

MCInit ==
  /\ Init /\ Parameters!Init /\ Manager!Init
  /\ about \in {"queue", "parameters", "manager"}
  /\ about # "parameters" => <<kind, topic>> = CHOOSE c \in Clients: TRUE

MCNext ==
  \/ about = "queue" /\ Next /\ UNCHANGED <<parameterVars, managerVars, about>>
  \/ about = "parameters" /\ Parameters!Next /\ UNCHANGED <<vars, managerVars, about>>
  \/ about = "manager" /\ Manager!Next /\ UNCHANGED <<vars, parameterVars, about>>

MCSpec == MCInit /\ [][MCNext]_allVars

\* What a client was told of a port and what it gave or allocated goes with what the
\* component uses.
ParametersAgree ==
  /\ Parameters!TypeOK /\ Parameters!BufferHoldsFrame /\ Parameters!CountAtLeastMin
  /\ Parameters!AllocatedFits /\ Parameters!ProfileReported
RefusedChangesNothing == Parameters!RefusedChangesNothing
\* The states of the components, their codecs, their ports and the manager's list agree.
CodecsAccountedFor ==
  Manager!CodecHasEntry /\ Manager!IdleHasCodec /\ Manager!PortsFollowState
=============================================================================
