------------------------ MODULE ResourceManagerProofs ------------------------
(***************************************************************************)
(* For any components, priorities and number of codecs: the entries given  *)
(* out never exceed the codecs, preemption takes the least important       *)
(* holder, no waiting component is forgotten, and the lists implement      *)
(* CodecPool.                                                              *)
(***************************************************************************)
EXTENDS ResourceManager, SequenceTheorems, FiniteSetTheorems, WellFoundedInduction, TLAPS

USE PoolAssumption

LEMMA LeastNat ==
  ASSUME NEW T \in SUBSET Nat, T # {}
  PROVE  \E x \in T : \A y \in T : x <= y
  <1>1. PICK x \in T : \A y \in T : ~ (<<y, x>> \in OpToRel(<, Nat))
    BY NatLessThanWellFounded, WFMin
  <1>2. ASSUME NEW y \in T PROVE x <= y
    <2>1. ~(y < x)
      BY <1>1 DEF OpToRel
    <2> QED BY <2>1
  <1> QED BY <1>2

-----------------------------------------------------------------------------
(* The lists.                                                              *)

\* removeElementList takes out the first element of c, and those behind move up.
LEMMA RemovedAt ==
  ASSUME NEW list \in Seq(Components), NEW c \in Components, Queued(list, c)
  PROVE  \E k \in 1 .. Len(list) :
           /\ list[k] = c /\ \A j \in 1 .. k - 1 : list[j] # c
           /\ Without(list, c) = SubSeq(list, 1, k - 1) \o SubSeq(list, k + 1, Len(list))
           /\ Without(list, c) \in Seq(Components)
           /\ Len(Without(list, c)) = Len(list) - 1
           /\ \A i \in 1 .. Len(list) - 1 :
                Without(list, c)[i] = IF i <= k - 1 THEN list[i] ELSE list[i + 1]
  <1> DEFINE T == {i \in 1 .. Len(list) : list[i] = c}
             k == FirstOf(list, c)
             front == SubSeq(list, 1, k - 1)
             back == SubSeq(list, k + 1, Len(list))
  <1>1. PICK x \in T : \A y \in T : x <= y
    <2>1. T # {} /\ T \subseteq Nat
      BY DEF Queued
    <2> QED BY <2>1, LeastNat
  <1>2. list[x] = c /\ \A j \in 1 .. x - 1 : list[j] # c
    BY <1>1
  <1>3. k \in 1 .. Len(list) /\ list[k] = c /\ \A j \in 1 .. k - 1 : list[j] # c
    <2> DEFINE P(i) == list[i] = c /\ \A j \in 1 .. i - 1 : list[j] # c
    <2>1. \E i \in DOMAIN list : P(i)
      BY <1>1, <1>2
    <2>2. k = CHOOSE i \in DOMAIN list : P(i)
      BY DEF FirstOf
    <2>3. k \in DOMAIN list /\ P(k)
      <3> HIDE DEF P, k
      <3> QED BY <2>1, <2>2, Zenon
    <2> QED BY <2>3
  <1>4. Without(list, c) = front \o back
    BY DEF Queued, Without
  <1> HIDE DEF k
  <1>5. /\ front \in Seq(Components) /\ Len(front) = k - 1
        /\ \A i \in 1 .. k - 1 : front[i] = list[i]
    BY <1>3, SubSeqProperties, ElementOfSeq
  <1>6. /\ back \in Seq(Components) /\ Len(back) = Len(list) - k
        /\ \A i \in 1 .. Len(list) - k : back[i] = list[k + i]
    <2>1. k + 1 \in 1 .. Len(list) + 1 /\ Len(list) \in 1 .. Len(list) /\ Len(list) \in Nat
      BY <1>3
    <2>2. /\ back \in Seq(Components)
          /\ Len(back) = IF k + 1 <= Len(list) THEN Len(list) - (k + 1) + 1 ELSE 0
          /\ \A i \in 1 .. Len(list) - (k + 1) + 1 : back[i] = list[(k + 1) + i - 1]
      <3>1. \A i \in k + 1 .. Len(list) : list[i] \in Components
        BY <1>3, ElementOfSeq
      <3> QED BY <2>1, <3>1, SubSeqProperties, SMTT(30)
    <2>3. /\ Len(list) - (k + 1) + 1 = Len(list) - k
          /\ (IF k + 1 <= Len(list) THEN Len(list) - k ELSE 0) = Len(list) - k
          /\ \A i \in 1 .. Len(list) - k : (k + 1) + i - 1 = k + i
      BY <2>1, <1>3
    <2> HIDE DEF back
    <2> QED BY <2>2, <2>3
  <1>7. Without(list, c) = SubSeq(list, 1, k - 1) \o SubSeq(list, k + 1, Len(list))
    BY <1>4
  <1> HIDE DEF front, back
  <1>8. /\ front \o back \in Seq(Components)
        /\ Len(front \o back) = Len(front) + Len(back)
        /\ \A i \in 1 .. Len(front) + Len(back) : (front \o back)[i] =
             IF i <= Len(front) THEN front[i] ELSE back[i - Len(front)]
    BY <1>5, <1>6, ConcatProperties, Zenon
  <1>9. Len(front) + Len(back) = Len(list) - 1
    BY <1>3, <1>5, <1>6
  <1>10. ASSUME NEW i \in 1 .. Len(list) - 1
         PROVE  (front \o back)[i] = IF i <= k - 1 THEN list[i] ELSE list[i + 1]
    <2>1. CASE i <= k - 1
      <3>1. i \in 1 .. k - 1 /\ i <= Len(front)
        BY <2>1, <1>5, <1>3
      <3> QED BY <2>1, <3>1, <1>5, <1>8, <1>9
    <2>2. CASE ~(i <= k - 1)
      <3>1. /\ ~(i <= Len(front)) /\ i - Len(front) \in 1 .. Len(list) - k
            /\ k + (i - Len(front)) = i + 1
        BY <2>2, <1>5, <1>3
      <3>2. (front \o back)[i] = back[i - Len(front)]
        BY <3>1, <1>8, <1>9
      <3> QED BY <2>2, <3>1, <3>2, <1>6
    <2> QED BY <2>1, <2>2
  <1> QED BY <1>3, <1>4, <1>7, <1>8, <1>9, <1>10

\* What removeElementList leaves.
LEMMA Removal ==
  ASSUME NEW list \in Seq(Components), NEW c \in Components
  PROVE  /\ Without(list, c) \in Seq(Components)
         /\ Len(Without(list, c)) <= Len(list)
         /\ Queued(list, c) => Len(Without(list, c)) < Len(list)
         /\ \A d \in Components \ {c} : Queued(list, d) => Queued(Without(list, c), d)
  <1>1. CASE ~Queued(list, c)
    BY <1>1 DEF Queued, Without
  <1>2. CASE Queued(list, c)
    <2>1. PICK k \in 1 .. Len(list) :
            /\ list[k] = c /\ \A j \in 1 .. k - 1 : list[j] # c
            /\ Without(list, c) = SubSeq(list, 1, k - 1) \o SubSeq(list, k + 1, Len(list))
            /\ Without(list, c) \in Seq(Components)
            /\ Len(Without(list, c)) = Len(list) - 1
            /\ \A i \in 1 .. Len(list) - 1 :
                 Without(list, c)[i] = IF i <= k - 1 THEN list[i] ELSE list[i + 1]
      BY <1>2, RemovedAt, Zenon
    <2> DEFINE out == Without(list, c)
    <2>3. /\ list[k] = c /\ Len(list) \in Nat /\ Len(out) = Len(list) - 1
          /\ DOMAIN out = 1 .. Len(list) - 1
          /\ \A i \in 1 .. Len(list) - 1 :
               out[i] = IF i <= k - 1 THEN list[i] ELSE list[i + 1]
      <3> HIDE DEF out
      <3>1. /\ out \in Seq(Components) /\ Len(out) = Len(list) - 1
            /\ \A i \in 1 .. Len(list) - 1 :
                 out[i] = IF i <= k - 1 THEN list[i] ELSE list[i + 1]
        BY <2>1, Zenon DEF out
      <3>2. list[k] = c /\ Len(list) \in Nat
        BY <2>1
      <3> QED BY <3>1, <3>2
    <2> HIDE DEF out
    <2>2. ASSUME NEW d \in Components \ {c}, Queued(list, d)
          PROVE  Queued(out, d)
      <3>1. PICK i \in 1 .. Len(list) : list[i] = d
        BY <2>2 DEF Queued
      <3>2. i # k
        BY <3>1, <2>3, <2>2
      <3>3. CASE i < k
        <4>1. i \in 1 .. Len(list) - 1 /\ i <= k - 1
          BY <3>3
        <4>2. i \in DOMAIN out /\ out[i] = d
          BY <4>1, <2>3, <3>1
        <4> QED BY <4>2 DEF Queued
      <3>4. CASE i > k
        <4>1. i - 1 \in 1 .. Len(list) - 1 /\ ~(i - 1 <= k - 1) /\ (i - 1) + 1 = i
          BY <3>4
        <4>2. i - 1 \in DOMAIN out /\ out[i - 1] = d
          BY <4>1, <2>3, <3>1
        <4> QED BY <4>2 DEF Queued
      <3> QED BY <3>2, <3>3, <3>4
    <2>4. out \in Seq(Components) /\ Len(out) < Len(list)
      <3>1. out \in Seq(Components)
        BY <2>1, Zenon DEF out
      <3>2. Len(out) < Len(list)
        BY <2>3
      <3> QED BY <3>1, <3>2
    <2> QED BY <2>2, <2>4 DEF out
  <1> QED BY <1>1, <1>2

\* searchLowPriority finds an entry, and none less important.
LEMMA VictimIsLeast ==
  ASSUME componentList \in Seq(Components), NEW c \in Components, LessImportant(c) # {}
  PROVE  /\ Victim(c) \in Components /\ Listed(Victim(c))
         /\ Priority[Victim(c)] > Priority[c]
         /\ \A e \in Components : Listed(e) => Priority[e] <= Priority[Victim(c)]
  <1> DEFINE Prio(i) == Priority[componentList[i]]
             L == LessImportant(c)
             Before(i, j) == \/ Prio(i) > Prio(j)
                             \/ Prio(i) = Prio(j) /\ i <= j
  <1>1. /\ L \subseteq 1 .. Len(componentList)
        /\ \A i \in 1 .. Len(componentList) : componentList[i] \in Components /\ Prio(i) \in 0 .. MaxPriority
        /\ \A i \in 1 .. Len(componentList) : i \in L <=> Prio(i) > Priority[c]
    BY ElementOfSeq DEF LessImportant
  <1> DEFINE M == {MaxPriority - Prio(i) : i \in L}
  <1>2. PICK m \in M : \A n \in M : m <= n
    <2>1. M \in SUBSET Nat /\ M # {}
      BY <1>1
    <2> QED BY <2>1, LeastNat
  <1> DEFINE F == {i \in L : MaxPriority - Prio(i) = m}
  <1>3. PICK f \in F : \A i \in F : f <= i
    <2>1. F \in SUBSET Nat /\ F # {}
      BY <1>1, <1>2
    <2> QED BY <2>1, LeastNat
  <1>4. f \in L /\ \A j \in L : Before(f, j)
    <2>1. ASSUME NEW j \in L PROVE Before(f, j)
      <3>1. Prio(j) \in Nat /\ Prio(f) \in Nat /\ MaxPriority - Prio(f) = m
        BY <1>1, <1>3
      <3>2. MaxPriority - Prio(j) \in M
        OBVIOUS
      <3>3. m <= MaxPriority - Prio(j)
        BY <3>2, <1>2
      <3>4. Prio(j) <= Prio(f)
        BY <3>1, <3>3
      <3>5. Prio(j) = Prio(f) => f <= j
        BY <3>1, <1>3
      <3> QED BY <3>1, <3>4, <3>5
    <2> QED BY <2>1, <1>3
  <1> DEFINE v == CHOOSE i \in L : \A j \in L : Before(i, j)
  <1>5. v \in L /\ \A j \in L : Before(v, j)
    <2> HIDE DEF L, Before
    <2> QED BY <1>4
  <1>6. Victim(c) = componentList[v]
    BY Zenon DEF Victim
  <1> HIDE DEF v
  <1>7. ASSUME NEW e \in Components, Listed(e) PROVE Priority[e] <= Prio(v)
    <2>1. PICK i \in 1 .. Len(componentList) : componentList[i] = e
      BY <1>7 DEF Listed
    <2>2. CASE i \in L
      <3>1. Before(v, i) /\ Prio(i) \in Nat /\ Prio(v) \in Nat /\ Prio(i) = Priority[e]
        BY <2>1, <2>2, <1>1, <1>5, SMTT(30)
      <3> HIDE DEF Prio
      <3> QED BY <3>1
    <2>3. CASE i \notin L
      <3>1. /\ ~(Prio(i) > Priority[c]) /\ Prio(v) > Priority[c] /\ Prio(i) = Priority[e]
            /\ Prio(i) \in Nat /\ Prio(v) \in Nat /\ Priority[c] \in Nat
        BY <2>1, <2>3, <1>1, <1>5, SMTT(30)
      <3> HIDE DEF Prio
      <3> QED BY <3>1
    <2> QED BY <2>2, <2>3
  <1> HIDE DEF L
  <1> QED BY <1>1, <1>5, <1>6, <1>7 DEF Listed

-----------------------------------------------------------------------------
(* Type correctness.                                                       *)

USE DEF listVars, bufferVars, vars

LEMMA CommandType ==
  /\ \A d \in States : /\ Command(d, "client") \in AllCommands
                       /\ Command(d, "manager") \in AllCommands
                       /\ Command(d, "client").dest = d
                       /\ Command(d, "manager").dest = d
  /\ \A m \in AllCommands : m.dest \in States
  /\ NoCommand.dest = "Loaded"
  BY DEF Command, AllCommands, NoCommand

LEMMA InitType == Init => TypeOK
  <1> SUFFICES ASSUME Init PROVE TypeOK
    OBVIOUS
  <1>1. <<>> \in Seq(Components) /\ <<>> \in Seq(AllCommands)
    BY EmptySeq
  <1>2. messageQ \in [Components -> Seq(AllCommands)]
    BY <1>1 DEF Init
  <1>3. cmd \in [Components -> AllCommands \cup {NoCommand}]
    BY DEF Init
  <1>4. /\ currentState \in [Components -> States] /\ portState \in [Components -> States]
        /\ pc \in [Components -> Labels]
    BY DEF Init, States, Labels
  <1>5. /\ codec \in [Components -> BOOLEAN] /\ allocated \in [Components -> BOOLEAN]
        /\ loadedResource \in [Components -> Nat] /\ unloadedResource \in [Components -> Nat]
        /\ sent \in 0 .. MaxCommands
    BY DEF Init
  <1> QED BY <1>1, <1>2, <1>3, <1>4, <1>5 DEF Init, TypeOK

LEMMA SendType ==
  ASSUME TypeOK, NEW c \in Components, NEW m \in AllCommands, SendCommand(c, m)
  PROVE  /\ portState' \in [Components -> States]
         /\ messageQ' \in [Components -> Seq(AllCommands)]
  <1>1. PortStateAfter(c, m.dest) \in States
    BY DEF PortStateAfter, TypeOK, States
  <1> QED BY <1>1, AppendProperties DEF SendCommand, TypeOK

LEMMA FirstStepType ==
  ASSUME NEW s \in States, NEW d \in States
  PROVE  /\ FirstStep(s, d) \in Labels
         /\ FirstStep(s, d) \in {"get", "inWait"} => s = "Loaded"
         /\ FirstStep(s, d) = "outWait" => s = "WaitForResources" /\ d = "Loaded"
         /\ FirstStep(s, d) = "inWait" => d = "WaitForResources"
         /\ FirstStep(s, d) = "move" => d \in {"Idle", "Executing", "Pause"}
         /\ FirstStep(s, d) \notin {"idle", "preempt", "loaded", "init", "setWait", "setLoaded"}
         /\ s = "WaitForResources" /\ d = "Idle" => FirstStep(s, d) = "move"
  BY DEF FirstStep, States, Labels, Moves

LEMMA HandOverType ==
  ASSUME componentList \in Seq(Components), NEW v \in Components, NEW c \in Components,
         HandOver(v, c)
  PROVE  /\ componentList' \in Seq(Components)
         /\ Listed(v) => Len(componentList') <= Len(componentList)
         /\ \A d \in Components \ {v} : Listed(d) => Listed(d)'
  <1>1. /\ Without(componentList, v) \in Seq(Components)
        /\ Listed(v) => Len(Without(componentList, v)) < Len(componentList)
        /\ \A d \in Components \ {v} : Listed(d) => Queued(Without(componentList, v), d)
    BY Removal DEF Listed, Queued
  <1> DEFINE rest == Without(componentList, v)
  <1>2. /\ componentList' \in Seq(Components)
        /\ Len(componentList') = Len(rest) + 1
        /\ \A i \in 1 .. Len(rest) : componentList'[i] = rest[i]
    BY <1>1, AppendProperties DEF HandOver
  <1>3. ASSUME NEW d \in Components \ {v}, Listed(d) PROVE Listed(d)'
    <2> HIDE DEF rest
    <2>1. Queued(rest, d)
      BY <1>1, <1>3 DEF rest
    <2>2. rest \in Seq(Components)
      BY <1>1 DEF rest
    <2>3. PICK i \in 1 .. Len(rest) : rest[i] = d
      BY <2>1, <2>2 DEF Queued
    <2>4. i \in DOMAIN componentList' /\ componentList'[i] = d
      BY <1>2, <2>2, <2>3 DEF rest
    <2> QED BY <2>4 DEF Listed
  <1>4. Len(rest) \in Nat /\ Len(componentList) \in Nat
    BY <1>1
  <1> QED BY <1>1, <1>2, <1>3, <1>4

\* While the mutex is held between two steps it is held by one component; the list
\* stays full, with its victim in it.
LockInv ==
  \A c \in Components : pc[c] = "preempt" =>
    /\ rmMutex /\ ListFull /\ LessImportant(c) # {}
    /\ \A d \in Components : pc[d] = "preempt" => d = c

LEMMA StepType == TypeOK /\ LockInv /\ [Next]_vars => TypeOK'
  <1> SUFFICES ASSUME TypeOK, LockInv, [Next]_vars PROVE TypeOK'
    OBVIOUS
  <1>1. CASE UNCHANGED vars
    BY <1>1 DEF TypeOK
  <1>2. ASSUME NEW c \in Components, NEW d \in Dests, Send(c, d) PROVE TypeOK'
    <2>1. Command(d, "client") \in AllCommands
      BY CommandType
    <2>2. /\ portState' \in [Components -> States]
          /\ messageQ' \in [Components -> Seq(AllCommands)]
      BY <1>2, <2>1, SendType DEF Send
    <2> QED BY <1>2, <2>2 DEF TypeOK, Send
  <1>3. ASSUME NEW c \in Components, UseBuffers(c) \/ FreeBuffers(c) PROVE TypeOK'
    <2>1. allocated' \in [Components -> BOOLEAN]
      BY <1>3 DEF TypeOK, UseBuffers, FreeBuffers
    <2>2. CASE UseBuffers(c)
      <3>1. loadedResource' \in [Components -> Nat]
        BY <2>2 DEF TypeOK, UseBuffers
      <3> QED BY <2>2, <2>1, <3>1 DEF TypeOK, UseBuffers
    <2>3. CASE FreeBuffers(c)
      <3>1. unloadedResource' \in [Components -> Nat]
        BY <2>3 DEF TypeOK, FreeBuffers
      <3> QED BY <2>3, <2>1, <3>1 DEF TypeOK, FreeBuffers
    <2> QED BY <1>3, <2>2, <2>3
  <1>4. ASSUME NEW c \in Components, TakeCommand(c) PROVE TypeOK'
    <2>1. /\ Head(messageQ[c]) \in AllCommands
          /\ Tail(messageQ[c]) \in Seq(AllCommands)
      BY <1>4, HeadTailProperties DEF TypeOK, TakeCommand
    <2>2. FirstStep(currentState[c], Head(messageQ[c]).dest) \in Labels
      BY <2>1, CommandType, FirstStepType DEF TypeOK
    <2> QED BY <1>4, <2>1, <2>2 DEF TypeOK, TakeCommand, Goto
  <1>5. ASSUME NEW c \in Components, Refuse(c) \/ GetRefused(c) PROVE TypeOK'
    BY <1>5 DEF TypeOK, Refuse, GetRefused, Finish, Goto, Labels
  <1>6. ASSUME NEW c \in Components, Move(c) \/ SetWaiting(c) PROVE TypeOK'
    <2>1. cmd[c].dest \in States
      BY CommandType DEF TypeOK, States
    <2> QED BY <1>6, <2>1 DEF TypeOK, Move, SetWaiting, SetState, Finish, Goto, Labels
  <1>7. ASSUME NEW c \in Components, GetFree(c) PROVE TypeOK'
    <2>1. componentList' \in Seq(Components)
      BY <1>7, AppendProperties DEF TypeOK, GetFree
    <2> QED BY <1>7, <2>1 DEF TypeOK, GetFree, Goto, Labels
  <1>8. ASSUME NEW c \in Components, PreemptSilently(c) PROVE TypeOK'
    <2>1. Victim(c) \in Components
      BY <1>8, VictimIsLeast DEF TypeOK, PreemptSilently
    <2>2. componentList' \in Seq(Components)
      BY <1>8, <2>1, HandOverType DEF TypeOK, PreemptSilently
    <2> QED BY <1>8, <2>2 DEF TypeOK, PreemptSilently, Goto, Labels
  <1>9. ASSUME NEW c \in Components, PreemptTell(c) PROVE TypeOK'
    BY <1>9 DEF TypeOK, PreemptTell, Goto, Labels
  <1>11. ASSUME NEW c \in Components, WaitLoaded(c) PROVE TypeOK'
    BY <1>11 DEF TypeOK, WaitLoaded, Goto, Labels
  <1>12. ASSUME NEW c \in Components, NEW r \in InitResults, CodecInit(c, r) PROVE TypeOK'
    <2>1. codec' \in [Components -> BOOLEAN]
      BY <1>12 DEF TypeOK, CodecInit
    <2>2. currentState' \in [Components -> States]
      BY <1>12 DEF TypeOK, CodecInit, SetState, States
    <2>3. /\ pc' \in [Components -> Labels]
          /\ cmd' \in [Components -> AllCommands \cup {NoCommand}]
      BY <1>12 DEF TypeOK, CodecInit, Finish, Goto, Labels
    <2> QED BY <1>12, <2>1, <2>2, <2>3 DEF TypeOK, CodecInit
  <1>14. ASSUME NEW c \in Components, Unload(c) \/ Terminate(c) PROVE TypeOK'
    BY <1>14 DEF TypeOK, Unload, Terminate, Finish, Goto, Labels
  <1>15. ASSUME NEW c \in Components, WaitUnloaded(c) \/ Invalidate(c) PROVE TypeOK'
    <2>1. currentState' \in [Components -> States]
      BY <1>15 DEF TypeOK, WaitUnloaded, Invalidate, SetState, States
    <2>2. /\ pc' \in [Components -> Labels]
          /\ cmd' \in [Components -> AllCommands \cup {NoCommand}]
      BY <1>15 DEF TypeOK, WaitUnloaded, Invalidate, Finish, Goto, Labels
    <2>3. CASE WaitUnloaded(c)
      <3>1. unloadedResource' \in [Components -> Nat]
        BY <2>3 DEF TypeOK, WaitUnloaded
      <3> QED BY <2>3, <2>1, <2>2, <3>1 DEF TypeOK, WaitUnloaded
    <2>4. CASE Invalidate(c)
      BY <2>4, <2>1, <2>2 DEF TypeOK, Invalidate
    <2> QED BY <1>15, <2>3, <2>4
  <1>16. ASSUME NEW c \in Components, InWait(c) PROVE TypeOK'
    <2>1. waitingList' \in Seq(Components)
      BY <1>16, AppendProperties DEF TypeOK, InWait
    <2> QED BY <1>16, <2>1 DEF TypeOK, InWait, Goto, Labels
  <1>17. ASSUME NEW c \in Components, OutWait(c) PROVE TypeOK'
    <2>1. waitingList' \in Seq(Components)
      BY <1>17, Removal DEF TypeOK, OutWait
    <2> QED BY <1>17, <2>1 DEF TypeOK, OutWait, Goto, Labels
  <1>18. ASSUME NEW c \in Components, PreemptSend(c) PROVE TypeOK'
    <2>4. Victim(c) \in Components
      BY <1>18, VictimIsLeast DEF TypeOK, LockInv, PreemptSend
    <2>1. componentList' \in Seq(Components)
      BY <1>18, <2>4, HandOverType DEF TypeOK, PreemptSend
    <2>2. Command("Loaded", "manager") \in AllCommands
      BY CommandType DEF States
    <2>3. /\ portState' \in [Components -> States]
          /\ messageQ' \in [Components -> Seq(AllCommands)]
      BY <1>18, <2>2, <2>4, SendType DEF PreemptSend
    <2> QED BY <1>18, <2>1, <2>3 DEF TypeOK, PreemptSend, Goto, Labels
  <1>19. ASSUME NEW c \in Components, Release(c) PROVE TypeOK'
    <2>1. componentList' \in Seq(Components)
      BY <1>19, Removal DEF TypeOK, Release
    <2>2. /\ waitingList' \in Seq(Components)
          /\ portState' \in [Components -> States]
          /\ messageQ' \in [Components -> Seq(AllCommands)]
      <3>1. CASE ~(Listed(c) /\ waitingList # <<>>)
        BY <1>19, <3>1 DEF TypeOK, Release
      <3>2. CASE Listed(c) /\ waitingList # <<>>
        <4>1. Wake /\ Tail(waitingList) \in Seq(Components) /\ Head(waitingList) \in Components
          BY <1>19, <3>2, HeadTailProperties DEF TypeOK, Release
        <4>2. Command("Idle", "manager") \in AllCommands
          BY CommandType DEF States
        <4>3. CASE currentState[Head(waitingList)] = "Invalid"
          BY <4>1, <4>3 DEF Wake, TypeOK
        <4>4. CASE currentState[Head(waitingList)] # "Invalid"
          BY <4>1, <4>2, <4>4, SendType DEF Wake
        <4> QED BY <4>1, <4>3, <4>4 DEF Wake
      <3> QED BY <3>1, <3>2
    <2> QED BY <1>19, <2>1, <2>2 DEF TypeOK, Release, AfterRelease, Goto, Labels
  <1> QED BY <1>1, <1>2, <1>3, <1>4, <1>5, <1>6, <1>7, <1>8, <1>9, <1>11, <1>12, <1>14,
             <1>15, <1>16, <1>17, <1>18, <1>19
          DEF Next, Handler, Client, Get, Acquire, GiveUp, Waiting

\* A step that leaves the list alone, and brings nobody to "preempt", keeps it.
LEMMA StepLock == TypeOK /\ LockInv /\ [Next]_vars => LockInv'
  <1> SUFFICES ASSUME TypeOK, LockInv, [Next]_vars PROVE LockInv'
    OBVIOUS
  <1>1. ASSUME UNCHANGED <<componentList, rmMutex>>,
               \A c \in Components : pc'[c] = "preempt" => pc[c] = "preempt"
        PROVE  LockInv'
    BY <1>1 DEF LockInv, LessImportant, ListFull
  <1>2. ASSUME ~rmMutex, \A c \in Components : pc'[c] = "preempt" => pc[c] = "preempt"
        PROVE  LockInv'
    BY <1>2 DEF LockInv
  <1>3. CASE UNCHANGED vars
    BY <1>3, <1>1
  <1>4. ASSUME NEW c \in Components, Client(c) PROVE LockInv'
    BY <1>4, <1>1 DEF Client, Send, UseBuffers, FreeBuffers
  <1>5. ASSUME NEW c \in Components, TakeCommand(c) PROVE LockInv'
    <2>1. Head(messageQ[c]) \in AllCommands
      BY <1>5, HeadTailProperties DEF TypeOK, TakeCommand
    <2>2. FirstStep(currentState[c], Head(messageQ[c]).dest) # "preempt"
      BY <2>1, CommandType, FirstStepType DEF TypeOK
    <2> QED BY <1>1, <1>5, <2>2 DEF TypeOK, TakeCommand, Goto
  <1>6. ASSUME NEW c \in Components,
               \/ Refuse(c) \/ Move(c) \/ WaitLoaded(c) \/ Unload(c) \/ WaitUnloaded(c)
               \/ Invalidate(c) \/ Terminate(c) \/ SetWaiting(c)
               \/ \E r \in InitResults : CodecInit(c, r)
        PROVE  LockInv'
    <2>1. UNCHANGED <<componentList, rmMutex>>
      BY <1>6 DEF Refuse, Move, WaitLoaded, Unload, WaitUnloaded, Invalidate, Terminate,
                  SetWaiting, CodecInit
    <2>2. \E l \in Labels \ {"preempt"} : pc' = [pc EXCEPT ![c] = l]
      BY <1>6 DEF Refuse, Move, WaitLoaded, Unload, WaitUnloaded, Invalidate, Terminate,
                  SetWaiting, CodecInit, Finish, Goto, Labels
    <2> QED BY <1>1, <2>1, <2>2 DEF TypeOK
  <1>7. ASSUME NEW c \in Components,
               \/ GetFree(c) \/ GetRefused(c) \/ PreemptSilently(c) \/ Release(c)
               \/ InWait(c) \/ OutWait(c)
        PROVE  LockInv'
    <2>1. ~rmMutex
      BY <1>7 DEF GetFree, GetRefused, PreemptSilently, Release, InWait, OutWait
    <2>2. \E l \in Labels \ {"preempt"} : pc' = [pc EXCEPT ![c] = l]
      BY <1>7 DEF GetFree, GetRefused, PreemptSilently, Release, InWait, OutWait,
                  AfterRelease, Finish, Goto, Labels
    <2> QED BY <1>2, <2>1, <2>2 DEF TypeOK
  <1>8. ASSUME NEW c \in Components, PreemptTell(c) PROVE LockInv'
    <2>1. \A d \in Components : pc'[d] = "preempt" => d = c
      BY <1>8 DEF PreemptTell, Goto, TypeOK, LockInv
    <2>2. rmMutex' /\ ListFull' /\ LessImportant(c)' # {}
      BY <1>8 DEF PreemptTell, LessImportant, ListFull
    <2> QED BY <2>1, <2>2 DEF LockInv
  <1>9. ASSUME NEW c \in Components, PreemptSend(c) PROVE LockInv'
    BY <1>9 DEF PreemptSend, Goto, TypeOK, LockInv
  <1> QED BY <1>3, <1>4, <1>5, <1>6, <1>7, <1>8, <1>9
          DEF Next, Handler, Get, Acquire, GiveUp, Waiting

LEMMA Invariant == Spec => [](TypeOK /\ LockInv)
  <1>1. Init => LockInv
    BY DEF Init, LockInv
  <1> QED BY <1>1, InitType, StepType, StepLock, PTL DEF Spec

\* The lists hold components, the semaphores do not go below zero and each
\* handler thread stays in its program.
THEOREM TypeCorrect == Spec => []TypeOK
  BY Invariant, PTL

-----------------------------------------------------------------------------
(* The list of holders.                                                    *)

\* An entry is added only where there is room or where one has been removed.
LEMMA StepBounded == TypeOK /\ LockInv /\ ListBounded /\ [Next]_vars => ListBounded'
  <1> SUFFICES ASSUME TypeOK, LockInv, ListBounded, [Next]_vars PROVE ListBounded'
    OBVIOUS
  <1>1. Len(componentList) \in Nat
    BY LenProperties DEF TypeOK
  <1>2. CASE UNCHANGED componentList
    BY <1>2 DEF ListBounded
  <1>3. ASSUME NEW c \in Components, GetFree(c) PROVE ListBounded'
    <2>1. Len(componentList') = Len(componentList) + 1
      BY <1>3, AppendProperties DEF GetFree, TypeOK
    <2> QED BY <1>1, <1>3, <2>1 DEF GetFree, ListFull, ListBounded
  <1>4. ASSUME NEW c \in Components, PreemptSilently(c) \/ PreemptSend(c) PROVE ListBounded'
    <2>1. LessImportant(c) # {} /\ HandOver(Victim(c), c)
      BY <1>4 DEF PreemptSilently, PreemptSend, LockInv
    <2>2. Len(componentList') <= Len(componentList) /\ componentList' \in Seq(Components)
      BY <2>1, VictimIsLeast, HandOverType DEF TypeOK
    <2>3. Len(componentList') \in Nat
      BY <2>2, LenProperties
    <2> QED BY <1>1, <2>2, <2>3 DEF ListBounded
  <1>5. ASSUME NEW c \in Components, Release(c) PROVE ListBounded'
    <2>1. Len(componentList') <= Len(componentList) /\ componentList' \in Seq(Components)
      BY <1>5, Removal DEF Release, TypeOK
    <2>2. Len(componentList') \in Nat
      BY <2>1, LenProperties
    <2> QED BY <1>1, <2>1, <2>2 DEF ListBounded
  <1>6. ASSUME NEW c \in Components, Handler(c),
               ~GetFree(c), ~PreemptSilently(c), ~PreemptSend(c), ~Release(c)
        PROVE  UNCHANGED componentList
    BY <1>6 DEF Handler, Get, Acquire, GiveUp, Waiting, TakeCommand, Refuse, Move, GetRefused,
       PreemptTell, WaitLoaded, CodecInit, Unload, WaitUnloaded, Invalidate, Terminate,
       InWait, OutWait, SetWaiting
  <1>7. ASSUME NEW c \in Components, Client(c) PROVE UNCHANGED componentList
    BY <1>7 DEF Client, Send, UseBuffers, FreeBuffers
  <1> QED BY <1>2, <1>3, <1>4, <1>5, <1>6, <1>7 DEF Next

\* No more entries are given out than there are codecs, for any components,
\* priorities and commands.
THEOREM Bounded == Spec => []ListBounded
  <1>1. Init => ListBounded
    BY EmptySeq DEF Init, ListBounded
  <1> QED BY <1>1, Invariant, StepBounded, PTL DEF Spec

-----------------------------------------------------------------------------
(* Preemption.                                                             *)

LEMMA StepPreempts == TypeOK /\ LockInv /\ [Next]_vars => LeastImportantLoses
  <1> SUFFICES ASSUME TypeOK, LockInv, [Next]_vars PROVE LeastImportantLoses
    OBVIOUS
  <1>1. CASE UNCHANGED componentList
    BY <1>1 DEF LeastImportantLoses, Listed
  <1>2. ASSUME NEW c \in Components, GetFree(c) PROVE LeastImportantLoses
    <2>1. ASSUME NEW d \in Components, Listed(d) PROVE Listed(d)'
      <3>1. /\ componentList' \in Seq(Components)
            /\ Len(componentList') = Len(componentList) + 1
            /\ \A i \in 1 .. Len(componentList) : componentList'[i] = componentList[i]
        BY <1>2, AppendProperties DEF GetFree, TypeOK
      <3>2. PICK i \in 1 .. Len(componentList) : componentList[i] = d
        BY <2>1 DEF Listed, TypeOK
      <3>3. i \in DOMAIN componentList'
        BY <3>1, <3>2 DEF TypeOK
      <3> QED BY <3>1, <3>2, <3>3 DEF Listed
    <2> QED BY <2>1 DEF LeastImportantLoses
  <1>3. ASSUME NEW c \in Components, PreemptSilently(c) \/ PreemptSend(c)
        PROVE  LeastImportantLoses
    <2>1. /\ LessImportant(c) # {} /\ HandOver(Victim(c), c)
          /\ pc[c] \in {"get", "preempt"}
      BY <1>3 DEF PreemptSilently, PreemptSend, LockInv
    <2>2. /\ Victim(c) \in Components /\ Priority[Victim(c)] > Priority[c]
          /\ \A e \in Components : Listed(e) => Priority[e] <= Priority[Victim(c)]
      BY <2>1, VictimIsLeast DEF TypeOK
    <2>3. \A d \in Components \ {Victim(c)} : Listed(d) => Listed(d)'
      BY <2>1, <2>2, HandOverType DEF TypeOK
    <2> QED BY <2>1, <2>2, <2>3 DEF LeastImportantLoses
  <1>4. ASSUME NEW c \in Components, Release(c) PROVE LeastImportantLoses
    <2>1. \A d \in Components \ {c} : Listed(d) => Listed(d)'
      <3>1. componentList' = Without(componentList, c)
        BY <1>4 DEF Release
      <3>2. \A d \in Components \ {c} :
              Queued(componentList, d) => Queued(Without(componentList, c), d)
        BY Removal DEF TypeOK
      <3> QED BY <3>1, <3>2 DEF Listed, Queued
    <2>2. pc[c] = "release"
      BY <1>4 DEF Release
    <2> QED BY <2>1, <2>2 DEF LeastImportantLoses
  <1>6. ASSUME NEW c \in Components, Handler(c),
               ~GetFree(c), ~PreemptSilently(c), ~PreemptSend(c), ~Release(c)
        PROVE  UNCHANGED componentList
    BY <1>6 DEF Handler, Get, Acquire, GiveUp, Waiting, TakeCommand, Refuse, Move, GetRefused,
       PreemptTell, WaitLoaded, CodecInit, Unload, WaitUnloaded, Invalidate, Terminate,
       InWait, OutWait, SetWaiting
  <1>7. ASSUME NEW c \in Components, Client(c) PROVE UNCHANGED componentList
    BY <1>7 DEF Client, Send, UseBuffers, FreeBuffers
  <1> QED BY <1>1, <1>2, <1>3, <1>4, <1>6, <1>7 DEF Next

\* A holder loses its entry only by giving it back, or, being the least
\* important one, to a more important component.
THEOREM Preempts == Spec => PreemptsLeastImportant
  <1>1. TypeOK /\ LockInv /\ [Next]_vars => [LeastImportantLoses]_vars
    BY StepPreempts
  <1> QED BY <1>1, Invariant, PTL DEF Spec, PreemptsLeastImportant

-----------------------------------------------------------------------------
(* The waiting list.                                                       *)

HasIdle(c) == \E i \in DOMAIN messageQ[c] : messageQ[c][i].dest = "Idle"

\* The line, a command in the queue, or the command at work: one of them knows
\* that c waits.
Remembered(c) == \/ Queued(waitingList, c)
                 \/ HasIdle(c)
                 \/ pc[c] = "move" /\ cmd[c].dest = "Idle"

\* What makes WaiterNotForgotten inductive: entering the line comes before the
\* state, leaving it before the other state, and Wake may come in between.
WaitsWell(c) ==
  /\ pc[c] \in {"get", "preempt", "loaded", "init", "inWait", "setWait"}
       => currentState[c] = "Loaded"
  /\ pc[c] \in {"inWait", "setWait"} => cmd[c].dest = "WaitForResources"
  /\ pc[c] \in {"outWait", "setLoaded"} => cmd[c].dest = "Loaded"
  /\ pc[c] = "move" => cmd[c].dest # "WaitForResources"
  /\ pc[c] = "setWait" => Remembered(c)
  /\ currentState[c] = "WaitForResources" /\ pc[c] # "setLoaded" => Remembered(c)

WaitInv == \A c \in Components : WaitsWell(c)

\* A command is only added behind the others.
LEMMA SendKeeps ==
  ASSUME TypeOK, NEW c \in Components, NEW m \in AllCommands, SendCommand(c, m)
  PROVE  /\ \A d \in Components : HasIdle(d) => HasIdle(d)'
         /\ m.dest = "Idle" => HasIdle(c)'
  <1>1. messageQ' = [messageQ EXCEPT ![c] = Append(@, m)]
    BY DEF SendCommand
  <1>2. /\ messageQ[c] \in Seq(AllCommands)
        /\ Append(messageQ[c], m) \in Seq(AllCommands)
        /\ Len(Append(messageQ[c], m)) = Len(messageQ[c]) + 1
        /\ \A i \in 1 .. Len(messageQ[c]) : Append(messageQ[c], m)[i] = messageQ[c][i]
        /\ Append(messageQ[c], m)[Len(messageQ[c]) + 1] = m
    BY AppendProperties DEF TypeOK
  <1>3. messageQ'[c] = Append(messageQ[c], m)
    BY <1>1 DEF TypeOK
  <1>4. \A d \in Components \ {c} : messageQ'[d] = messageQ[d]
    BY <1>1 DEF TypeOK
  <1>5. HasIdle(c) => HasIdle(c)'
    <2>1. SUFFICES ASSUME HasIdle(c) PROVE HasIdle(c)'
      OBVIOUS
    <2>2. PICK i \in 1 .. Len(messageQ[c]) : messageQ[c][i].dest = "Idle"
      BY <2>1, <1>2 DEF HasIdle
    <2>3. i \in DOMAIN messageQ'[c] /\ messageQ'[c][i].dest = "Idle"
      BY <2>2, <1>2, <1>3
    <2> QED BY <2>3 DEF HasIdle
  <1>6. m.dest = "Idle" => HasIdle(c)'
    <2>1. Len(messageQ[c]) + 1 \in DOMAIN messageQ'[c]
      BY <1>2, <1>3
    <2>2. messageQ'[c][Len(messageQ[c]) + 1] = m
      BY <1>2, <1>3
    <2> QED BY <2>1, <2>2 DEF HasIdle
  <1>7. \A d \in Components \ {c} : HasIdle(d) => HasIdle(d)'
    BY <1>4 DEF HasIdle
  <1> QED BY <1>5, <1>6, <1>7

LEMMA InitWait == Init => WaitInv
  BY DEF Init, WaitInv, WaitsWell

\* What a step of one thread leaves of the others.
LEMMA OthersWaitWell ==
  ASSUME WaitInv, NEW c \in Components,
         \A d \in Components \ {c} : /\ pc'[d] = pc[d] /\ cmd'[d] = cmd[d]
                                     /\ currentState'[d] = currentState[d]
                                     /\ Remembered(d) => Remembered(d)'
  PROVE  \A d \in Components \ {c} : WaitsWell(d)'
  <1>1. ASSUME NEW d \in Components \ {c} PROVE WaitsWell(d)'
    <2>1. d \in Components /\ WaitsWell(d)
      BY DEF WaitInv
    <2>2. pc'[d] = pc[d] /\ cmd'[d] = cmd[d] /\ currentState'[d] = currentState[d]
      OBVIOUS
    <2>3. Remembered(d) => Remembered(d)'
      OBVIOUS
    <2> QED BY <2>1, <2>2, <2>3 DEF WaitsWell
  <1> QED BY <1>1

\* A step of c by which nobody is forgotten, and which does not take c where it
\* would wait.
LEMMA Keeps ==
  ASSUME TypeOK, WaitInv, NEW c \in Components,
         \A d \in Components \ {c} : /\ pc'[d] = pc[d] /\ cmd'[d] = cmd[d]
                                     /\ currentState'[d] = currentState[d]
                                     /\ Remembered(d) => Remembered(d)',
         pc'[c] \notin {"inWait", "setWait", "outWait", "setLoaded", "move"},
         pc'[c] \in {"get", "preempt", "loaded", "init"} => currentState'[c] = "Loaded",
         currentState'[c] = "WaitForResources" => Remembered(c)'
  PROVE  WaitInv'
  <1>1. \A d \in Components \ {c} : WaitsWell(d)'
    BY OthersWaitWell
  <1>2. WaitsWell(c)'
    BY DEF WaitsWell
  <1> QED BY <1>1, <1>2 DEF WaitInv

LEMMA StepWait == TypeOK /\ LockInv /\ WaitInv /\ [Next]_vars => WaitInv'
  <1> SUFFICES ASSUME TypeOK, LockInv, WaitInv, [Next]_vars PROVE WaitInv'
    OBVIOUS
  <1>1. CASE UNCHANGED vars
    BY <1>1 DEF WaitInv, WaitsWell, Remembered, Queued, HasIdle
  <1>2. ASSUME NEW c \in Components, NEW d \in Dests, Send(c, d) PROVE WaitInv'
    <2>1. Command(d, "client") \in AllCommands
      BY CommandType
    <2>2. \A e \in Components : HasIdle(e) => HasIdle(e)'
      BY <1>2, <2>1, SendKeeps DEF Send
    <2>3. \A e \in Components : Remembered(e) => Remembered(e)'
      BY <1>2, <2>2 DEF Send, Remembered, Queued
    <2> QED BY <1>2, <2>3 DEF Send, WaitInv, WaitsWell
  <1>3. ASSUME NEW c \in Components, UseBuffers(c) \/ FreeBuffers(c) PROVE WaitInv'
    BY <1>3 DEF UseBuffers, FreeBuffers, WaitInv, WaitsWell, Remembered, Queued, HasIdle
  <1>4. ASSUME NEW c \in Components, TakeCommand(c) PROVE WaitInv'
    <2> DEFINE m == Head(messageQ[c])
               l == FirstStep(currentState[c], m.dest)
    <2>1. /\ m \in AllCommands /\ m.dest \in States /\ currentState[c] \in States
          /\ messageQ[c] \in Seq(AllCommands) /\ messageQ[c] # <<>>
          /\ cmd'[c] = m /\ pc'[c] = l /\ messageQ'[c] = Tail(messageQ[c])
          /\ currentState' = currentState /\ waitingList' = waitingList
          /\ \A d \in Components \ {c} : /\ pc'[d] = pc[d] /\ cmd'[d] = cmd[d]
                                         /\ messageQ'[d] = messageQ[d]
      BY <1>4, HeadTailProperties, CommandType DEF TakeCommand, Goto, TypeOK
    <2>2. ASSUME NEW d \in Components \ {c}, Remembered(d) PROVE Remembered(d)'
      BY <2>1, <2>2 DEF Remembered, Queued, HasIdle
    <2>3. HasIdle(c) => HasIdle(c)' \/ m.dest = "Idle"
      <3>1. SUFFICES ASSUME HasIdle(c) PROVE HasIdle(c)' \/ m.dest = "Idle"
        OBVIOUS
      <3>2. PICK i \in 1 .. Len(messageQ[c]) : messageQ[c][i].dest = "Idle"
        BY <2>1, <3>1 DEF HasIdle
      <3>3. CASE i = 1
        BY <2>1, <3>2, <3>3
      <3>4. CASE i # 1
        <4>1. /\ Tail(messageQ[c]) \in Seq(AllCommands)
              /\ Len(Tail(messageQ[c])) = Len(messageQ[c]) - 1
              /\ \A j \in 1 .. Len(Tail(messageQ[c])) :
                   Tail(messageQ[c])[j] = messageQ[c][j + 1]
          BY <2>1, HeadTailProperties
        <4>2. i - 1 \in 1 .. Len(Tail(messageQ[c])) /\ (i - 1) + 1 = i
          BY <3>4, <4>1, <2>1
        <4>3. Tail(messageQ[c])[i - 1].dest = "Idle" /\ i - 1 \in DOMAIN Tail(messageQ[c])
          BY <4>1, <4>2, <3>2
        <4> QED BY <4>3, <2>1 DEF HasIdle
      <3> QED BY <3>3, <3>4
    <2>4. /\ l \in {"get", "inWait"} => currentState[c] = "Loaded"
          /\ l = "outWait" => m.dest = "Loaded"
          /\ l = "inWait" => m.dest = "WaitForResources"
          /\ l = "move" => m.dest # "WaitForResources"
          /\ l \notin {"idle", "preempt", "loaded", "init", "setWait", "setLoaded"}
          /\ currentState[c] = "WaitForResources" /\ m.dest = "Idle" => l = "move"
      BY <2>1, FirstStepType
    <2> HIDE DEF l, m
    <2>5. currentState[c] = "WaitForResources" => Remembered(c)'
      <3>1. SUFFICES ASSUME currentState[c] = "WaitForResources" PROVE Remembered(c)'
        OBVIOUS
      <3>2. Queued(waitingList, c) \/ HasIdle(c)
        BY <1>4, <3>1 DEF WaitInv, WaitsWell, Remembered, TakeCommand
      <3>3. Queued(waitingList, c) => Queued(waitingList, c)'
        BY <2>1 DEF Queued
      <3>4. CASE m.dest = "Idle"
        BY <2>1, <2>4, <3>1, <3>4 DEF Remembered
      <3> QED BY <2>3, <3>2, <3>3, <3>4 DEF Remembered
    <2>6. \A d \in Components \ {c} : WaitsWell(d)'
      BY <2>1, <2>2, OthersWaitWell
    <2>7. WaitsWell(c)'
      BY <2>1, <2>4, <2>5 DEF WaitsWell
    <2> QED BY <2>6, <2>7 DEF WaitInv
  <1>5. ASSUME NEW c \in Components,
               \/ Refuse(c) \/ GetFree(c) \/ GetRefused(c) \/ PreemptSilently(c)
               \/ PreemptTell(c) \/ WaitLoaded(c) \/ Unload(c) \/ Terminate(c)
        PROVE  WaitInv'
    <2>1. /\ UNCHANGED <<currentState, messageQ, waitingList>>
          /\ \E l \in {"idle", "preempt", "loaded", "init", "unloaded"} : pc' = [pc EXCEPT ![c] = l]
          /\ \A d \in Components \ {c} : cmd'[d] = cmd[d]
      BY <1>5 DEF Refuse, GetFree, GetRefused, PreemptSilently, PreemptTell, WaitLoaded,
                  Unload, Terminate, Finish, Goto, TypeOK
    <2>2. \A d \in Components : Queued(waitingList, d)' = Queued(waitingList, d)
                                /\ HasIdle(d)' = HasIdle(d)
      BY <2>1 DEF Queued, HasIdle
    <2>3. /\ pc[c] \in {"refuse", "get", "loaded", "unload", "terminate"}
          /\ pc'[c] \in {"preempt", "loaded", "init"} => pc[c] \in {"get", "loaded"}
      BY <1>5 DEF Refuse, GetFree, GetRefused, PreemptSilently, PreemptTell, WaitLoaded,
                  Unload, Terminate, Finish, Goto, TypeOK
    <2> QED BY <2>1, <2>2, <2>3, Keeps DEF Remembered, WaitInv, WaitsWell, TypeOK
  <1>6. ASSUME NEW c \in Components, PreemptSend(c) PROVE WaitInv'
    <2>1. Victim(c) \in Components
      BY <1>6, VictimIsLeast DEF TypeOK, LockInv, PreemptSend
    <2>2. Command("Loaded", "manager") \in AllCommands
      BY CommandType DEF States
    <2>3. \A d \in Components : HasIdle(d) => HasIdle(d)'
      BY <1>6, <2>1, <2>2, SendKeeps DEF PreemptSend
    <2>4. \A d \in Components : Queued(waitingList, d)' = Queued(waitingList, d)
      BY <1>6 DEF PreemptSend, Queued
    <2>5. /\ currentState' = currentState /\ cmd' = cmd /\ pc[c] = "preempt"
          /\ pc' = [pc EXCEPT ![c] = "loaded"]
      BY <1>6 DEF PreemptSend, Goto
    <2> QED BY <2>3, <2>4, <2>5, Keeps DEF Remembered, WaitInv, WaitsWell, TypeOK
  <1>7. ASSUME NEW c \in Components,
               \/ Move(c) \/ SetWaiting(c) \/ WaitUnloaded(c) \/ Invalidate(c)
               \/ \E r \in InitResults : CodecInit(c, r)
        PROVE  WaitInv'
    <2>1. /\ UNCHANGED <<messageQ, waitingList>>
          /\ \E l \in {"idle", "terminate"} : pc' = [pc EXCEPT ![c] = l]
          /\ \A d \in Components \ {c} : /\ cmd'[d] = cmd[d]
                                         /\ currentState'[d] = currentState[d]
      BY <1>7, SMTT(30) DEF Move, SetWaiting, WaitUnloaded, Invalidate, CodecInit, SetState, Finish,
                  Goto, TypeOK
    <2>2. \A d \in Components : Queued(waitingList, d)' = Queued(waitingList, d)
                                /\ HasIdle(d)' = HasIdle(d)
      BY <2>1 DEF Queued, HasIdle
    <2>3. currentState'[c] = "WaitForResources" => pc[c] = "setWait"
      BY <1>7 DEF Move, SetWaiting, WaitUnloaded, Invalidate, CodecInit, SetState,
                  TypeOK, WaitInv, WaitsWell
    <2>4. pc[c] = "setWait" => Queued(waitingList, c) \/ HasIdle(c)
      BY DEF WaitInv, WaitsWell, Remembered
    <2> QED BY <2>1, <2>2, <2>3, <2>4, Keeps DEF Remembered, TypeOK
  <1>8. ASSUME NEW c \in Components, Release(c) PROVE WaitInv'
    <2>1. /\ pc[c] = "release" /\ pc' = [pc EXCEPT ![c] = AfterRelease(c)]
          /\ AfterRelease(c) \in {"unload", "invalidate"}
          /\ UNCHANGED <<currentState, cmd>>
      BY <1>8 DEF Release, AfterRelease, Goto
    <2>2. CASE ~(Listed(c) /\ waitingList # <<>>)
      <3>1. UNCHANGED <<waitingList, messageQ>>
        BY <1>8, <2>2 DEF Release
      <3>2. \A d \in Components : Queued(waitingList, d)' = Queued(waitingList, d)
                                  /\ HasIdle(d)' = HasIdle(d)
        BY <3>1 DEF Queued, HasIdle
      <3> QED BY <2>1, <3>2, Keeps DEF Remembered, WaitInv, WaitsWell, TypeOK
    <2>3. CASE Listed(c) /\ waitingList # <<>>
      <3> PICK w \in Components : w = Head(waitingList)
        BY <2>3, HeadTailProperties DEF TypeOK
      <3>1. /\ waitingList' = Tail(waitingList)
            /\ IF currentState[w] = "Invalid" THEN UNCHANGED <<portState, messageQ>>
               ELSE SendCommand(w, Command("Idle", "manager"))
        BY <1>8, <2>3 DEF Release, Wake
      <3>2. /\ \A d \in Components : HasIdle(d) => HasIdle(d)'
            /\ currentState[w] # "Invalid" => HasIdle(w)'
        <4>1. CASE currentState[w] = "Invalid"
          BY <3>1, <4>1 DEF HasIdle
        <4>2. CASE currentState[w] # "Invalid"
          <5>1. Command("Idle", "manager") \in AllCommands /\ Command("Idle", "manager").dest = "Idle"
            BY CommandType DEF States
          <5>2. SendCommand(w, Command("Idle", "manager"))
            BY <3>1, <4>2
          <5>3. HasIdle(w)'
            BY <5>1, <5>2, SendKeeps
          <5>4. \A d \in Components : HasIdle(d) => HasIdle(d)'
            BY <5>1, <5>2, SendKeeps
          <5> QED BY <5>3, <5>4
        <4> QED BY <4>1, <4>2
      <3>3. ASSUME NEW d \in Components, Queued(waitingList, d) PROVE d = w \/ Queued(waitingList, d)'
        <4>1. PICK i \in 1 .. Len(waitingList) : waitingList[i] = d
          BY <3>3 DEF Queued, TypeOK
        <4>2. CASE i = 1
          BY <4>1, <4>2, <2>3 DEF TypeOK
        <4>3. CASE i # 1
          <5>1. /\ Tail(waitingList) \in Seq(Components)
                /\ Len(Tail(waitingList)) = Len(waitingList) - 1
                /\ \A j \in 1 .. Len(Tail(waitingList)) :
                     Tail(waitingList)[j] = waitingList[j + 1]
            BY <2>3, HeadTailProperties DEF TypeOK
          <5>2. i - 1 \in 1 .. Len(Tail(waitingList)) /\ (i - 1) + 1 = i
            BY <4>1, <4>3, <5>1 DEF TypeOK
          <5>3. Tail(waitingList)[i - 1] = d /\ i - 1 \in DOMAIN Tail(waitingList)
            BY <4>1, <5>1, <5>2
          <5> QED BY <3>1, <5>3 DEF Queued
        <4> QED BY <4>2, <4>3
      <3>4. ASSUME NEW d \in Components, Remembered(d), currentState[d] # "Invalid"
            PROVE  Remembered(d)'
        <4>1. pc[d] = "move" => pc'[d] = "move" /\ cmd'[d] = cmd[d]
          BY <2>1 DEF TypeOK
        <4>2. ASSUME d = w PROVE HasIdle(d)'
          BY <3>2, <3>4, <4>2 DEF HasIdle
        <4>3. Queued(waitingList, d) /\ d # w => Queued(waitingList, d)'
          BY <3>3 DEF Queued
        <4>4. HasIdle(d) => HasIdle(d)'
          BY <3>2 DEF HasIdle
        <4> QED BY <3>4, <4>1, <4>2, <4>3, <4>4 DEF Remembered
      <3>5. WaitsWell(c)'
        BY <2>1, <3>4 DEF WaitInv, WaitsWell, TypeOK
      <3>6. ASSUME NEW d \in Components \ {c} PROVE WaitsWell(d)'
        BY <2>1, <3>4 DEF WaitInv, WaitsWell, TypeOK
      <3> QED BY <3>5, <3>6 DEF WaitInv
    <2> QED BY <2>2, <2>3
  <1>9. ASSUME NEW c \in Components, InWait(c) PROVE WaitInv'
    <2>1. /\ pc[c] = "inWait" /\ pc' = [pc EXCEPT ![c] = "setWait"]
          /\ waitingList' = Append(waitingList, c)
          /\ UNCHANGED <<currentState, cmd, messageQ>>
      BY <1>9 DEF InWait, Goto
    <2>2. /\ Len(waitingList') = Len(waitingList) + 1
          /\ waitingList' \in Seq(Components) /\ waitingList \in Seq(Components)
          /\ \A i \in 1 .. Len(waitingList) : waitingList'[i] = waitingList[i]
          /\ waitingList'[Len(waitingList) + 1] = c
      BY <2>1, AppendProperties DEF TypeOK
    <2>3. Queued(waitingList, c)'
      <3>1. Len(waitingList) + 1 \in DOMAIN waitingList'
        BY <2>2
      <3> QED BY <2>2, <3>1 DEF Queued
    <2>4. ASSUME NEW d \in Components, Queued(waitingList, d) PROVE Queued(waitingList, d)'
      <3>1. PICK i \in 1 .. Len(waitingList) : waitingList[i] = d
        BY <2>2, <2>4 DEF Queued
      <3>2. i \in DOMAIN waitingList'
        BY <2>2
      <3> QED BY <2>2, <3>1, <3>2 DEF Queued
    <2>5. \A d \in Components \ {c} : WaitsWell(d)'
      <3>1. \A d \in Components \ {c} : Remembered(d) => Remembered(d)'
        BY <2>1, <2>4 DEF Remembered, HasIdle
      <3> QED BY <2>1, <3>1, OthersWaitWell DEF TypeOK
    <2>6. WaitsWell(c)'
      BY <2>1, <2>3 DEF WaitsWell, WaitInv, Remembered, TypeOK
    <2> QED BY <2>5, <2>6 DEF WaitInv
  <1>10. ASSUME NEW c \in Components, OutWait(c) PROVE WaitInv'
    <2>1. /\ pc[c] = "outWait" /\ pc' = [pc EXCEPT ![c] = "setLoaded"]
          /\ waitingList' = Without(waitingList, c)
          /\ UNCHANGED <<currentState, cmd, messageQ>>
      BY <1>10 DEF OutWait, Goto
    <2>2. \A d \in Components \ {c} : Queued(waitingList, d) => Queued(Without(waitingList, c), d)
      BY Removal DEF TypeOK
    <2>3. \A d \in Components \ {c} : Remembered(d) => Remembered(d)'
      BY <2>1, <2>2 DEF Remembered, HasIdle, Queued
    <2>4. \A d \in Components \ {c} : WaitsWell(d)'
      BY <2>1, <2>3, OthersWaitWell DEF TypeOK
    <2>5. WaitsWell(c)'
      BY <2>1 DEF WaitsWell, WaitInv, TypeOK
    <2> QED BY <2>4, <2>5 DEF WaitInv
  <1> QED BY <1>1, <1>2, <1>3, <1>4, <1>5, <1>6, <1>7, <1>8, <1>9, <1>10
          DEF Next, Handler, Client, Get, Acquire, GiveUp, Waiting

\* No order of entering the line, giving up and being woken forgets a component
\* that waits.
THEOREM NobodyForgotten == Spec => []WaiterNotForgotten
  <1>1. TypeOK /\ WaitInv => WaiterNotForgotten
    <2> SUFFICES ASSUME TypeOK, WaitInv, NEW c \in Components,
                        currentState[c] = "WaitForResources", Quiet(c)
                 PROVE  Queued(waitingList, c)
      BY DEF WaiterNotForgotten
    <2>1. pc[c] = "idle" /\ Remembered(c)
      BY DEF WaitInv, WaitsWell, Quiet
    <2>2. ~HasIdle(c)
      BY EmptySeq DEF HasIdle, Quiet
    <2> QED BY <2>1, <2>2 DEF Remembered
  <1> QED BY <1>1, InitWait, StepWait, Invariant, PTL DEF Spec

-----------------------------------------------------------------------------
(* The abstract pool.                                                      *)

\* A component has entries if it is in the list.
LEMMA EntriesType ==
  ASSUME NEW list \in Seq(Components), NEW c
  PROVE  /\ IsFiniteSet({i \in DOMAIN list : list[i] = c})
         /\ EntriesOf(list, c) \in Nat
         /\ EntriesOf(list, c) > 0 <=> Queued(list, c)
  <1> DEFINE S == {i \in DOMAIN list : list[i] = c}
  <1>1. IsFiniteSet(DOMAIN list)
    BY FS_Interval
  <1>2. IsFiniteSet(S)
    BY <1>1, FS_Subset
  <1>3. S = {} <=> ~Queued(list, c)
    BY DEF Queued
  <1> HIDE DEF S
  <1>4. Cardinality(S) \in Nat /\ (Cardinality(S) = 0 <=> S = {})
    BY <1>2, FS_CardinalityType, FS_EmptySet
  <1>5. EntriesOf(list, c) = Cardinality(S)
    BY DEF EntriesOf, S
  <1>6. IsFiniteSet({i \in DOMAIN list : list[i] = c})
    BY <1>2 DEF S
  <1> QED BY <1>3, <1>4, <1>5, <1>6

\* addElementList adds one entry, of its component.
LEMMA EntriesAdded ==
  ASSUME NEW list \in Seq(Components), NEW c \in Components, NEW d
  PROVE  EntriesOf(Append(list, c), d) =
           IF d = c THEN EntriesOf(list, d) + 1 ELSE EntriesOf(list, d)
  <1> DEFINE S == {i \in DOMAIN list : list[i] = d}
             T == {i \in DOMAIN Append(list, c) : Append(list, c)[i] = d}
             n == Len(list) + 1
  <1>1. /\ DOMAIN Append(list, c) = 1 .. n /\ DOMAIN list = 1 .. Len(list)
        /\ Append(list, c)[n] = c /\ Len(list) \in Nat
        /\ \A i \in 1 .. Len(list) : Append(list, c)[i] = list[i]
    BY AppendProperties
  <1>2. T = IF d = c THEN S \cup {n} ELSE S
    BY <1>1
  <1>3. n \notin S
    BY <1>1
  <1>4. IsFiniteSet(S) /\ Cardinality(S) \in Nat
    BY EntriesType DEF EntriesOf
  <1> HIDE DEF S, T, n
  <1>5. Cardinality(T) = IF d = c THEN Cardinality(S) + 1 ELSE Cardinality(S)
    <2>1. Cardinality(S \cup {n}) = Cardinality(S) + 1
      BY <1>3, <1>4, FS_AddElement
    <2>2. CASE d = c
      BY <2>1, <2>2, <1>2
    <2>3. CASE d # c
      BY <2>3, <1>2, <1>4
    <2> QED BY <2>2, <2>3
  <1> QED BY <1>5 DEF EntriesOf, S, T

\* removeElementList takes one entry, of its component.
LEMMA EntriesRemoved ==
  ASSUME NEW list \in Seq(Components), NEW c \in Components, Queued(list, c), NEW d
  PROVE  EntriesOf(Without(list, c), d) =
           IF d = c THEN EntriesOf(list, d) - 1 ELSE EntriesOf(list, d)
  <1> DEFINE out == Without(list, c)
             S == {i \in DOMAIN list : list[i] = d}
             T == {i \in DOMAIN out : out[i] = d}
  <1>1. PICK k \in 1 .. Len(list) :
          /\ list[k] = c /\ \A j \in 1 .. k - 1 : list[j] # c
          /\ out = SubSeq(list, 1, k - 1) \o SubSeq(list, k + 1, Len(list))
          /\ out \in Seq(Components)
          /\ Len(out) = Len(list) - 1
          /\ \A i \in 1 .. Len(list) - 1 :
               out[i] = IF i <= k - 1 THEN list[i] ELSE list[i + 1]
    BY RemovedAt, Zenon
  <1> HIDE DEF out
  <1>2. /\ list[k] = c /\ DOMAIN list = 1 .. Len(list) /\ Len(list) \in Nat
        /\ DOMAIN out = 1 .. Len(list) - 1
        /\ \A i \in 1 .. Len(list) - 1 :
             out[i] = IF i <= k - 1 THEN list[i] ELSE list[i + 1]
    <2>1. /\ out \in Seq(Components) /\ Len(out) = Len(list) - 1
          /\ list[k] = c
          /\ \A i \in 1 .. Len(list) - 1 :
               out[i] = IF i <= k - 1 THEN list[i] ELSE list[i + 1]
      BY <1>1, Zenon
    <2>2. DOMAIN list = 1 .. Len(list) /\ Len(list) \in Nat
      OBVIOUS
    <2>3. DOMAIN out = 1 .. Len(list) - 1
      BY <2>1
    <2> QED BY <2>1, <2>2, <2>3, Zenon
  <1> DEFINE Back(i) == IF i <= k - 1 THEN i ELSE i + 1
             f == [i \in T |-> Back(i)]
  <1>3. ASSUME NEW i \in 1 .. Len(list) - 1
        PROVE  Back(i) \in 1 .. Len(list) /\ Back(i) # k /\ out[i] = list[Back(i)]
    BY <1>2
  <1>4. f \in [T -> S \ {k}]
    BY <1>2, <1>3
  <1>5. \A i, j \in T : f[i] = f[j] => i = j
    BY <1>2
  <1>6. ASSUME NEW j \in S \ {k} PROVE \E i \in T : f[i] = j
    <2> DEFINE i == IF j < k THEN j ELSE j - 1
    <2>1. i \in 1 .. Len(list) - 1 /\ Back(i) = j
      BY <1>2
    <2>2. i \in T
      BY <2>1, <1>2, <1>3
    <2> QED BY <2>1, <2>2
  <1>7. IsFiniteSet(S) /\ Cardinality(S) \in Nat
    BY EntriesType DEF EntriesOf
  <1>8. IsFiniteSet(T)
    BY <1>1, EntriesType
  <1>9. k \in S <=> d = c
    BY <1>1, <1>2
  <1> HIDE DEF S, T, f
  <1>10. ExistsBijection(T, S \ {k})
    <2>1. f \in Bijection(T, S \ {k})
      BY <1>4, <1>5, <1>6 DEF Bijection, Injection, Surjection, IsInjective
    <2> QED BY <2>1 DEF ExistsBijection
  <1>11. Cardinality(T) = Cardinality(S \ {k})
    BY <1>8, <1>10, FS_Bijection
  <1>12. Cardinality(S \ {k}) = IF d = c THEN Cardinality(S) - 1 ELSE Cardinality(S)
    <2>1. Cardinality(S \ {k}) = IF k \in S THEN Cardinality(S) - 1 ELSE Cardinality(S)
      BY <1>7, FS_RemoveElement
    <2>2. CASE d = c
      BY <2>1, <2>2, <1>9
    <2>3. CASE d # c
      BY <2>1, <2>3, <1>7, <1>9
    <2> QED BY <2>2, <2>3
  <1> QED BY <1>11, <1>12 DEF EntriesOf, S, T, out

\* An entry that changes hands is a preemption.
LEMMA HandOverPreempts ==
  ASSUME TypeOK, ListBounded, ListFull, NEW c \in Components, LessImportant(c) # {},
         HandOver(Victim(c), c), UNCHANGED waitingList
  PROVE  Pool!Preempt(c, Victim(c))
  <1> DEFINE v == Victim(c)
             rest == Without(componentList, v)
             Held(list) == [d \in Components |-> EntriesOf(list, d)]
  <1>1. /\ v \in Components /\ Queued(componentList, v) /\ Priority[v] > Priority[c]
        /\ \A d \in Components : Queued(componentList, d) => Priority[d] <= Priority[v]
    BY VictimIsLeast DEF TypeOK, Listed, Queued
  <1>2. v # c
    BY <1>1
  <1>3. componentList \in Seq(Components) /\ Len(componentList) \in Nat
    BY DEF TypeOK
  <1> HIDE DEF v
  <1>4. rest \in Seq(Components) /\ Len(rest) = Len(componentList) - 1
    BY <1>1, <1>3, RemovedAt
  <1>5. componentList' = Append(rest, c)
    BY DEF HandOver, v
  <1>6. Len(componentList') = Len(componentList)
    BY <1>3, <1>4, <1>5, AppendProperties
  <1>7. ASSUME NEW d \in Components
        PROVE  EntriesOf(componentList, d)' =
                 IF d = v THEN EntriesOf(componentList, d) - 1
                 ELSE IF d = c THEN EntriesOf(componentList, d) + 1
                               ELSE EntriesOf(componentList, d)
    <2>1. EntriesOf(Append(rest, c), d) =
            IF d = c THEN EntriesOf(rest, d) + 1 ELSE EntriesOf(rest, d)
      BY <1>4, EntriesAdded
    <2>2. EntriesOf(rest, d) =
            IF d = v THEN EntriesOf(componentList, d) - 1 ELSE EntriesOf(componentList, d)
      BY <1>1, <1>3, EntriesRemoved
    <2>3. EntriesOf(componentList, d)' = EntriesOf(Append(rest, c), d)
      BY <1>5 DEF EntriesOf
    <2> QED BY <2>1, <2>2, <2>3, <1>2
  <1> HIDE DEF rest
  <1>8. \A d \in Components :
          /\ EntriesOf(componentList, d) \in Nat
          /\ EntriesOf(componentList, d) > 0 <=> Queued(componentList, d)
    BY <1>3, EntriesType
  <1>9. Held(componentList)' = [Held(componentList) EXCEPT ![v] = @ - 1, ![c] = @ + 1]
    <2> DEFINE h == Held(componentList)
    <2>1. h' = [d \in Components |-> EntriesOf(componentList, d)']
      OBVIOUS
    <2>2. h \in [Components -> Nat] /\ \A d \in Components : h[d] = EntriesOf(componentList, d)
      BY <1>8
    <2>3. h' = [d \in Components |->
                 IF d = v THEN h[d] - 1 ELSE IF d = c THEN h[d] + 1 ELSE h[d]]
      BY <2>1, <2>2, <1>7, Zenon
    <2> HIDE DEF h
    <2>4. [h EXCEPT ![v] = @ - 1, ![c] = @ + 1]
            = [d \in Components |->
                 IF d = v THEN h[d] - 1 ELSE IF d = c THEN h[d] + 1 ELSE h[d]]
      BY <1>1, <1>2, <2>2
    <2>5. h' = [h EXCEPT ![v] = @ - 1, ![c] = @ + 1]
      BY <2>3, <2>4, Zenon
    <2> QED BY <2>5 DEF h
  <1>10. MAX_RESOURCE_VIDEO - Len(componentList) = 0
    BY <1>3 DEF ListFull, ListBounded
  <1>11. /\ Held(componentList)[v] > 0
         /\ \A d \in Components : Held(componentList)[d] > 0 => Priority[d] <= Priority[v]
    BY <1>1, <1>8
  <1> QED BY <1>1, <1>6, <1>9, <1>10, <1>11 DEF Pool!Preempt, v

\* An entry that is given back.
LEMMA ReleaseReturns ==
  ASSUME TypeOK, NEW c \in Components, Release(c), Listed(c)
  PROVE  Pool!Return(c)
  <1> DEFINE Held(list) == [d \in Components |-> EntriesOf(list, d)]
  <1>1. /\ componentList \in Seq(Components) /\ Len(componentList) \in Nat
        /\ Queued(componentList, c) /\ componentList' = Without(componentList, c)
    BY DEF TypeOK, Release, Listed, Queued
  <1>2. Len(componentList') = Len(componentList) - 1
    BY <1>1, RemovedAt
  <1>3. ASSUME NEW d \in Components
        PROVE  EntriesOf(componentList, d)' =
                 IF d = c THEN EntriesOf(componentList, d) - 1 ELSE EntriesOf(componentList, d)
    <2>1. EntriesOf(componentList, d)' = EntriesOf(Without(componentList, c), d)
      BY <1>1 DEF EntriesOf
    <2> QED BY <1>1, <2>1, EntriesRemoved
  <1>4. \A d \in Components :
          /\ EntriesOf(componentList, d) \in Nat
          /\ EntriesOf(componentList, d) > 0 <=> Queued(componentList, d)
    BY <1>1, EntriesType
  <1>5. Held(componentList)' = [Held(componentList) EXCEPT ![c] = @ - 1]
    <2> DEFINE h == Held(componentList)
    <2>1. h' = [d \in Components |-> EntriesOf(componentList, d)']
      OBVIOUS
    <2>2. h \in [Components -> Nat] /\ \A d \in Components : h[d] = EntriesOf(componentList, d)
      BY <1>4
    <2>3. h' = [d \in Components |-> IF d = c THEN h[d] - 1 ELSE h[d]]
      BY <2>1, <2>2, <1>3, Zenon
    <2> HIDE DEF h
    <2>4. [h EXCEPT ![c] = @ - 1] = [d \in Components |-> IF d = c THEN h[d] - 1 ELSE h[d]]
      BY <2>2
    <2>5. h' = [h EXCEPT ![c] = @ - 1]
      BY <2>3, <2>4, Zenon
    <2> QED BY <2>5 DEF h
  <1>6. waitingList' = IF waitingList = <<>> THEN waitingList ELSE Tail(waitingList)
    BY DEF Release, Wake
  <1>7. Held(componentList)[c] > 0
    BY <1>1, <1>4
  <1>8. MAX_RESOURCE_VIDEO - Len(componentList') = (MAX_RESOURCE_VIDEO - Len(componentList)) + 1
    BY <1>1, <1>2
  <1> QED BY <1>5, <1>6, <1>7, <1>8 DEF Pool!Return

\* An entry where there is room.
LEMMA GetFreeGrants ==
  ASSUME TypeOK, NEW c \in Components, GetFree(c)
  PROVE  Pool!Grant(c)
  <1> DEFINE Held(list) == [d \in Components |-> EntriesOf(list, d)]
  <1>1. /\ componentList \in Seq(Components) /\ Len(componentList) \in Nat
        /\ componentList' = Append(componentList, c)
        /\ UNCHANGED waitingList /\ ~(Len(componentList) >= MAX_RESOURCE_VIDEO)
    BY DEF TypeOK, GetFree, ListFull
  <1>2. Len(componentList') = Len(componentList) + 1
    BY <1>1, AppendProperties
  <1>3. ASSUME NEW d \in Components
        PROVE  EntriesOf(componentList, d)' =
                 IF d = c THEN EntriesOf(componentList, d) + 1 ELSE EntriesOf(componentList, d)
    <2>1. EntriesOf(componentList, d)' = EntriesOf(Append(componentList, c), d)
      BY <1>1 DEF EntriesOf
    <2> QED BY <1>1, <2>1, EntriesAdded
  <1>4. \A d \in Components : EntriesOf(componentList, d) \in Nat
    BY <1>1, EntriesType
  <1>5. Held(componentList)' = [Held(componentList) EXCEPT ![c] = @ + 1]
    <2> DEFINE h == Held(componentList)
    <2>1. h' = [d \in Components |-> EntriesOf(componentList, d)']
      OBVIOUS
    <2>2. h \in [Components -> Nat] /\ \A d \in Components : h[d] = EntriesOf(componentList, d)
      BY <1>4
    <2>3. h' = [d \in Components |-> IF d = c THEN h[d] + 1 ELSE h[d]]
      BY <2>1, <2>2, <1>3, Zenon
    <2> HIDE DEF h
    <2>4. [h EXCEPT ![c] = @ + 1] = [d \in Components |-> IF d = c THEN h[d] + 1 ELSE h[d]]
      BY <2>2
    <2>5. h' = [h EXCEPT ![c] = @ + 1]
      BY <2>3, <2>4, Zenon
    <2> QED BY <2>5 DEF h
  <1>6. /\ MAX_RESOURCE_VIDEO - Len(componentList) > 0
        /\ MAX_RESOURCE_VIDEO - Len(componentList') = (MAX_RESOURCE_VIDEO - Len(componentList)) - 1
    BY <1>1, <1>2
  <1> QED BY <1>1, <1>5, <1>6 DEF Pool!Grant

\* Each step of the components is a step of the pool, or none.
LEMMA StepPool == TypeOK /\ LockInv /\ ListBounded /\ [Next]_vars => [Pool!Next]_(Pool!vars)
  <1> SUFFICES ASSUME TypeOK, LockInv, ListBounded, [Next]_vars
               PROVE  [Pool!Next]_(Pool!vars)
    OBVIOUS
  <1>1. ASSUME UNCHANGED <<componentList, waitingList>> PROVE UNCHANGED Pool!vars
    BY <1>1 DEF Pool!vars, EntriesOf
  <1>2. ASSUME NEW c \in Components, GetFree(c) PROVE Pool!Next
    BY <1>2, GetFreeGrants DEF Pool!Next
  <1>3. ASSUME NEW c \in Components, PreemptSilently(c) \/ PreemptSend(c) PROVE Pool!Next
    <2>1. /\ ListFull /\ LessImportant(c) # {} /\ HandOver(Victim(c), c)
          /\ UNCHANGED waitingList
      BY <1>3 DEF PreemptSilently, PreemptSend, LockInv
    <2>2. Victim(c) \in Components
      BY <2>1, VictimIsLeast DEF TypeOK
    <2> QED BY <2>1, <2>2, HandOverPreempts DEF Pool!Next
  <1>4. ASSUME NEW c \in Components, Release(c) PROVE [Pool!Next]_(Pool!vars)
    <2>1. CASE Listed(c)
      BY <1>4, <2>1, ReleaseReturns DEF Pool!Next
    <2>2. CASE ~Listed(c)
      <3>1. UNCHANGED <<componentList, waitingList>>
        BY <1>4, <2>2 DEF Release, Listed, Without
      <3> QED BY <3>1, <1>1
    <2> QED BY <2>1, <2>2
  <1>5. ASSUME NEW c \in Components, InWait(c) PROVE Pool!Next
    <2>1. Pool!Enter(c)
      BY <1>5 DEF InWait, Pool!Enter, EntriesOf
    <2> QED BY <2>1 DEF Pool!Next
  <1>6. ASSUME NEW c \in Components, OutWait(c) PROVE [Pool!Next]_(Pool!vars)
    <2>1. waitingList' = Without(waitingList, c) /\ UNCHANGED componentList
      BY <1>6 DEF OutWait
    <2>2. CASE ~Queued(waitingList, c)
      <3>1. UNCHANGED <<componentList, waitingList>>
        BY <2>1, <2>2 DEF Queued, Without
      <3> QED BY <3>1, <1>1
    <2>3. CASE Queued(waitingList, c)
      <3>1. \E i \in DOMAIN waitingList :
              /\ waitingList[i] = c /\ \A j \in 1 .. i - 1 : waitingList[j] # c
              /\ waitingList' = SubSeq(waitingList, 1, i - 1)
                                  \o SubSeq(waitingList, i + 1, Len(waitingList))
        <4>1. waitingList \in Seq(Components) /\ DOMAIN waitingList = 1 .. Len(waitingList)
          BY DEF TypeOK
        <4>2. PICK k \in 1 .. Len(waitingList) :
                /\ waitingList[k] = c /\ \A j \in 1 .. k - 1 : waitingList[j] # c
                /\ Without(waitingList, c) = SubSeq(waitingList, 1, k - 1)
                                               \o SubSeq(waitingList, k + 1, Len(waitingList))
                /\ Without(waitingList, c) \in Seq(Components)
                /\ Len(Without(waitingList, c)) = Len(waitingList) - 1
                /\ \A i \in 1 .. Len(waitingList) - 1 :
                     Without(waitingList, c)[i] = IF i <= k - 1 THEN waitingList[i]
                                                                ELSE waitingList[i + 1]
          BY <2>3, <4>1, RemovedAt, Zenon
        <4> QED BY <2>1, <4>1, <4>2, Zenon
      <3>2. Pool!Leave(c)
        BY <2>1, <3>1 DEF Pool!Leave, EntriesOf
      <3> QED BY <3>2 DEF Pool!Next
    <2> QED BY <2>2, <2>3
  <1>7. ASSUME NEW c \in Components, Handler(c),
               ~GetFree(c), ~PreemptSilently(c), ~PreemptSend(c), ~Release(c),
               ~InWait(c), ~OutWait(c)
        PROVE  UNCHANGED <<componentList, waitingList>>
    BY <1>7 DEF Handler, Get, Acquire, GiveUp, Waiting, TakeCommand, Refuse, Move, GetRefused,
       PreemptTell, WaitLoaded, CodecInit, Unload, WaitUnloaded, Invalidate, Terminate,
       SetWaiting
  <1>8. ASSUME NEW c \in Components, Client(c) PROVE UNCHANGED <<componentList, waitingList>>
    BY <1>8 DEF Client, Send, UseBuffers, FreeBuffers
  <1>9. CASE UNCHANGED vars
    BY <1>9, <1>1
  <1> QED BY <1>1, <1>2, <1>3, <1>4, <1>5, <1>6, <1>7, <1>8, <1>9 DEF Next

\* The two lists, for any components, priorities and number of codecs, behave as a
\* pool from which codecs are granted, preempted and given back one at a time, with
\* a line of waiters: the mutex, the steps under it and the commands do not show.
THEOREM ImplementsPool == Spec => RefinesPool
  <1>1. Init => Pool!Init
    <2> SUFFICES ASSUME Init PROVE Pool!Init
      OBVIOUS
    <2>1. componentList = <<>> /\ waitingList = <<>> /\ Len(componentList) = 0
      BY EmptySeq DEF Init
    <2>2. \A c \in Components : EntriesOf(componentList, c) = 0
      <3>1. \A c \in Components : {i \in DOMAIN componentList : componentList[i] = c} = {}
        BY <2>1
      <3> QED BY <3>1, FS_EmptySet DEF EntriesOf
    <2> QED BY <2>1, <2>2 DEF Pool!Init
  <1> QED BY <1>1, Invariant, Bounded, StepPool, PTL DEF Spec, RefinesPool, Pool!Spec
=============================================================================
