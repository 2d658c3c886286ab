----------------------------- MODULE MC_Handles -----------------------------
(* Two questions about what must come to an end, in one run: a behaviour is    *)
(* about the components that share the codecs, with preemption, or about       *)
(* clients that make and release components; what it is not about stays as it  *)
(* was.                                                                        *)
EXTENDS OmxCore, TLC

CONSTANTS c1, c2, c3,
          Components, Priority, MaxPriority, MAX_RESOURCE_VIDEO, InitResults, Dests,
          MaxStates        \* of ResourceManager

Three == {c1, c2, c3}
\* c1 is more important than c2, and as important as the third
Ranked == [c \in Three |-> IF c = c2 THEN 2 ELSE 1]
LoadAndPlay == {"Loaded", "Idle", "Executing"}

VARIABLES
  componentList, waitingList, rmMutex, currentState, portState, messageQ, cmd, rmPc, codec,
  allocated, loadedResource, unloadedResource, sent,      \* of ResourceManager
  about                                                   \* "manager" or "core"

Manager == INSTANCE ResourceManager WITH MaxCommands <- MaxStates, pc <- rmPc

managerVars ==
  <<componentList, waitingList, rmMutex, currentState, portState, messageQ, cmd, rmPc, codec,
    allocated, loadedResource, unloadedResource, sent>>
allVars == <<vars, managerVars, about>>

MCInit ==
  /\ Init /\ Manager!Init /\ about \in {"manager", "core"}
  /\ about # "core" => kind = [h \in Handles |-> CHOOSE k \in Kinds : TRUE]

Managing(A) == about = "manager" /\ A /\ UNCHANGED <<vars, about>>
Making(A) == about = "core" /\ A /\ UNCHANGED <<managerVars, about>>

MCNext == Managing(Manager!Next) \/ Making(Next)

\* the fairness of the one or of the other
MCSpec ==
  /\ MCInit /\ [][MCNext]_allVars
  /\ \A c \in Components :
       /\ WF_allVars(Managing(Manager!Handler(c)))
       /\ WF_allVars(Managing(Manager!UseBuffers(c)))
       /\ WF_allVars(Managing(Manager!FreeBuffers(c)))
  /\ \A c \in Clients : WF_allVars(Making(ClientStep(c) \/ CreateFails(c)))
                        /\ SF_allVars(Making(AppendLocks(c)))
  /\ \A h \in Handles : WF_allVars(Making(HandlerStep(h)))

\* A component that cannot have what it needs gives back what it had.
RolledBack == Manager!RolledBack
\* The list has each component that is there once; of one that is gone nothing is left.
HandlesAccountedFor == TypeOK /\ ListedOnce /\ NothingLeft
\* Every command concludes and every call of a client returns.
CallsEnd == Manager!CommandsFinish /\ HandleCallsReturn
=============================================================================
