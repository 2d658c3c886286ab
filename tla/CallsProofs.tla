----------------------------- MODULE CallsProofs -----------------------------
(***************************************************************************)
(* The three systems of MC_Calls, for every value of their constants.  The *)
(* parameters of a component and what a client was told of them agree, and *)
(* a refused call has changed nothing.  Components that share the codecs   *)
(* have them accounted for.  The ring of a queue keeps its invariant and   *)
(* implements CountedFifo.                                                 *)
(***************************************************************************)
EXTENDS MC_Calls, SequenceTheorems, WellFoundedInduction, TLAPS

-----------------------------------------------------------------------------
(* The parameters of a component.                                            *)

Definitions == [enabled : BOOLEAN, min : Nat, actual : Nat, frame : Frames, size : Nat,
                color : Parameters!Formats, stream : Parameters!Streams,
                rate : {"default", "set"}]
Holdings == [count : Nat, size : Nat]
Readings == [port : {"in", "out"}, def : Definitions, age : Nat]
ParameterStates == {"loaded", "idle", "executing", "invalid"}
Flags == {"unsupported", "outgrown", "staleMin", "changed", "metadata"}

ParameterTypes ==
  /\ kind \in Parameters!AllKinds /\ <<kind, topic>> \in Clients /\ state \in ParameterStates
  /\ port \in [{"in", "out"} -> Definitions] /\ held \in [{"in", "out"} -> Holdings]
  /\ anb \in BOOLEAN /\ meta \in BOOLEAN /\ thumb \in BOOLEAN /\ configured \in BOOLEAN
  /\ profile \in [{"in", "out"} -> Parameters!Profiles] /\ told = profile
  /\ excuses \subseteq Flags

\* The minimum of the input port is of no time: nothing changes it.
SameMinimum ==
  /\ port["in"].min = 5
  /\ got = Parameters!None \/ (got \in Readings /\ (got.port = "in" => got.def.min = 5))
\* A component that is Loaded, and a port that is disabled, has no buffers.
NobodyHolds ==
  \A p \in {"in", "out"} :
    state = "loaded" \/ ~port[p].enabled => held[p] = Parameters!NoBuffers
RoomyIn ==
  kind \in Parameters!Decoders =>
    port["in"].size >= Parameters!Room(port["in"].frame) \/ "outgrown" \in excuses
RoomyOut ==
  kind \in Parameters!Decoders =>
    port["out"].size >= Parameters!Room(port["out"].frame) \/ "unsupported" \in excuses
Enough ==
  /\ port["in"].actual >= port["in"].min
  /\ port["out"].actual >= port["out"].min \/ "staleMin" \in excuses
Suffices(p) ==
  held[p].count = port[p].actual /\ held[p].size >= Parameters!GetDefinition(p).size
Fits ==
  /\ held["in"] # Parameters!NoBuffers => Suffices("in") \/ "metadata" \in excuses
  /\ held["out"] # Parameters!NoBuffers => Suffices("out") \/ "changed" \in excuses

ParameterInv ==
  ParameterTypes /\ SameMinimum /\ NobodyHolds /\ RoomyIn /\ RoomyOut /\ Enough /\ Fits

LEMMA Kinships ==
  ASSUME kind \in Parameters!AllKinds
  PROVE  /\ kind \in Parameters!Decoders <=> kind \notin Parameters!Encoders
         /\ Parameters!StreamOf(kind) \in {"avc", "mpeg4", "h263"}
         /\ Parameters!StreamPort \in {"in", "out"}
  BY DEF Parameters!AllKinds, Parameters!Decoders, Parameters!Encoders, Parameters!StreamOf,
         Parameters!StreamPort

\* The room of a picture is a number.
LEMMA Rooms ==
  \A f \in Frames : /\ f \in Nat
                    /\ Parameters!Room(f) \in Nat /\ Parameters!Room16(f) \in Nat
                    /\ Parameters!RoomAligned(f) \in Nat
                    /\ Parameters!Room16(f) >= Parameters!Room(f)
                    /\ Parameters!RoomAligned(f) >= Parameters!Room(f)
  BY CallsAssumption DEF Parameters!Room, Parameters!Room16, Parameters!RoomAligned

\* What the client was told of the size of a port is the port's size, or that of metadata.
LEMMA Sizes ==
  ASSUME ParameterTypes, NEW p \in {"in", "out"}
  PROVE  /\ Parameters!GetDefinition(p) \in Definitions
         /\ Parameters!GetDefinition(p).min = port[p].min
         /\ Parameters!GetDefinition(p).actual = port[p].actual
         /\ Parameters!GetDefinition(p).size =
              IF kind \notin Parameters!Decoders /\ p = "in" /\ meta THEN 0 ELSE port[p].size
  <1>1. port[p] \in Definitions
    BY DEF ParameterTypes
  <1> QED BY <1>1 DEF Parameters!GetDefinition, Parameters!VideoDecodeGetParameter,
     Parameters!VideoEncodeGetParameter, Parameters!MetadataSize, Definitions

LEMMA ParameterInit == Parameters!Init => ParameterInv
  <1> SUFFICES ASSUME Parameters!Init PROVE ParameterInv
    OBVIOUS
  <1>0. /\ kind \in Parameters!AllKinds /\ <<kind, topic>> \in Clients
        /\ 1 \in Frames /\ state = "loaded"
    <2>1. PICK client \in Clients : kind = client[1] /\ topic = client[2]
      BY DEF Parameters!Init
    <2>2. client \in Parameters!AllKinds \X Parameters!Topics
      BY CallsAssumption
    <2>3. client = <<client[1], client[2]>> /\ client[1] \in Parameters!AllKinds
      BY <2>2
    <2> QED BY <2>1, <2>3, CallsAssumption DEF Parameters!Init
  <1>1. /\ port \in [{"in", "out"} -> Definitions] /\ port["in"].min = 5
        /\ \A p \in {"in", "out"} : /\ port[p].actual = port[p].min
                                    /\ port[p].size >= Parameters!Room(port[p].frame)
    <2>1. CASE kind \in Parameters!Decoders
      <3>1. port = Parameters!VideoDecodeComponentInit(kind, 1)
        BY <2>1 DEF Parameters!Init
      <3> QED BY <1>0, <2>1, <3>1, Kinships
              DEF Parameters!VideoDecodeComponentInit, Parameters!Definition, Definitions,
                  Parameters!Formats, Parameters!Streams, Parameters!Ports, Parameters!Room,
                  Parameters!Room16
    <2>2. CASE kind \notin Parameters!Decoders
      <3>1. port = Parameters!VideoEncodeComponentInit(kind, 1)
        BY <2>2 DEF Parameters!Init
      <3> QED BY <1>0, <2>2, <3>1, Kinships
              DEF Parameters!VideoEncodeComponentInit, Parameters!Definition, Definitions,
                  Parameters!Formats, Parameters!Streams, Parameters!Ports, Parameters!Room,
                  Parameters!RoomAligned
    <2> QED BY <2>1, <2>2
  <1>2. ParameterTypes
    BY <1>0, <1>1 DEF Parameters!Init, ParameterTypes, ParameterStates, Holdings, Flags,
       Parameters!NoBuffers, Parameters!Profiles, Parameters!Ports
  <1>3. NobodyHolds /\ Fits /\ SameMinimum
    BY <1>0, <1>1 DEF Parameters!Init, NobodyHolds, Fits, SameMinimum, Parameters!Ports
  <1>4. RoomyIn /\ RoomyOut /\ Enough
    BY <1>1 DEF RoomyIn, RoomyOut, Enough, Definitions
  <1> QED BY <1>2, <1>3, <1>4 DEF ParameterInv

\* A structure that gets older is the one that was read.
LEMMA Ageing ==
  ASSUME ParameterInv, Parameters!Ages, port'["in"].min = 5
  PROVE  SameMinimum'
  <1>1. CASE got = Parameters!None \/ got.age >= MaxAge
    BY <1>1 DEF Parameters!Ages, Parameters!Older, SameMinimum
  <1>2. CASE ~(got = Parameters!None \/ got.age >= MaxAge)
    <2>1. got' = [got EXCEPT !.age = @ + 1] /\ got \in Readings
      BY <1>2 DEF Parameters!Ages, Parameters!Older, ParameterInv, SameMinimum
    <2>2. got' \in Readings /\ got'.port = got.port /\ got'.def = got.def
      BY <2>1 DEF Readings
    <2> QED BY <1>2, <2>2 DEF SameMinimum, ParameterInv
  <1> QED BY <1>1, <1>2

\* A definition that is put in place of one of a port, whenever it was read.
LEMMA SetDefinition_Inv ==
  ASSUME ParameterInv, NEW p \in {"in", "out"}, NEW d \in Definitions,
         p = "in" => d.min = 5,
         Parameters!Settable(p), Parameters!Accepts(d, port[p]), Parameters!Store(p, d),
         Parameters!others' = Parameters!others
  PROVE  ParameterInv'
  <1> USE DEF ParameterInv
  <1>0. /\ kind' = kind /\ state' = state /\ configured' = configured
        /\ held' = held /\ topic' = topic
        /\ UNCHANGED <<anb, meta, profile, errcorr, thumb, told>>
        /\ excuses' = Parameters!Excused(p, d) /\ Parameters!Ages
    BY DEF Parameters!others, Parameters!Store
  <1>1. /\ port \in [{"in", "out"} -> Definitions]
        /\ d.frame \in Frames /\ d.size \in Nat /\ d.actual \in Nat /\ d.min \in Nat
    BY DEF ParameterTypes, Definitions
  <1>2. held[p] = Parameters!NoBuffers
    BY DEF Parameters!Settable, NobodyHolds, ParameterTypes, ParameterStates
  <1>3. d.actual >= port[p].min
    BY DEF Parameters!Accepts
  <1> DEFINE own == [d EXCEPT !.size = Parameters!AtLeast(d.frame, d.size)]
             out == [port["out"] EXCEPT !.frame = d.frame,
                       !.size = IF port["out"].color \in Parameters!Supported
                                THEN Parameters!Room(d.frame) ELSE @]
             follow == [port["out"] EXCEPT !.frame = d.frame, !.size = Parameters!Room(d.frame)]
             mine == IF kind \in Parameters!Decoders THEN own ELSE d
             its == IF kind \in Parameters!Decoders THEN out ELSE follow
  <1>4. /\ mine \in Definitions /\ mine.actual = d.actual /\ mine.min = d.min
        /\ kind \in Parameters!Decoders => mine.size >= Parameters!Room(mine.frame)
    BY <1>1, Rooms DEF Definitions, Parameters!AtLeast
  <1>5. /\ its \in Definitions /\ its.enabled = port["out"].enabled
        /\ its.actual = port["out"].actual /\ its.min = port["out"].min
        /\ kind \in Parameters!Decoders /\ port["out"].color \in Parameters!Supported =>
             its.size >= Parameters!Room(its.frame)
    <2>1. port["out"] \in Definitions /\ Parameters!Room(d.frame) \in Nat
      BY <1>1, Rooms
    <2> DEFINE room == IF port["out"].color \in Parameters!Supported
                       THEN Parameters!Room(d.frame) ELSE port["out"].size
    <2>2. room \in Nat /\ out = [port["out"] EXCEPT !.frame = d.frame, !.size = room]
      BY <2>1 DEF Definitions
    <2>3. port["out"].color \in Parameters!Supported => room = Parameters!Room(d.frame)
      OBVIOUS
    <2> HIDE DEF room
    <2>4. /\ out \in Definitions /\ out.enabled = port["out"].enabled
          /\ out.actual = port["out"].actual /\ out.min = port["out"].min
          /\ out.frame = d.frame /\ out.size = room
      BY <1>1, <2>1, <2>2 DEF Definitions
    <2>5. /\ follow \in Definitions /\ follow.enabled = port["out"].enabled
          /\ follow.actual = port["out"].actual /\ follow.min = port["out"].min
      BY <1>1, <2>1 DEF Definitions
    <2> HIDE DEF out, follow
    <2> QED BY <2>1, <2>3, <2>4, <2>5
  <1>6. /\ p = "out" => port' = [port EXCEPT !["out"] = mine]
        /\ p = "in" => port' = [port EXCEPT !["in"] = mine, !["out"] = its]
    <2>1. CASE kind \in Parameters!Decoders
      BY <2>1 DEF Parameters!Store, Parameters!DecoderSetDefinition
    <2>2. CASE kind \notin Parameters!Decoders /\ p = "out"
      BY <2>2 DEF Parameters!Store, Parameters!EncoderSetDefinition, Parameters!BaseSetDefinition
    <2>3. CASE kind \notin Parameters!Decoders /\ p = "in"
      BY <1>1, <2>3
         DEF Parameters!Store, Parameters!EncoderSetDefinition, Parameters!BaseSetDefinition
    <2> QED BY <2>1, <2>2, <2>3
  <1> HIDE DEF own, out, follow, mine, its
  <1>7. /\ port' \in [{"in", "out"} -> Definitions] /\ port'[p] = mine
        /\ p = "out" => port'["in"] = port["in"]
        /\ p = "in" => port'["out"] = its
    BY <1>1, <1>4, <1>5, <1>6
  <1>8. /\ p = "in" =>
             /\ "unsupported" \in excuses' <=> Parameters!Unsupported("in")
             /\ "staleMin" \in excuses' <=> "staleMin" \in excuses
             /\ "metadata" \in excuses' <=> "metadata" \in excuses
             /\ held["out"] # Parameters!NoBuffers => "changed" \in excuses'
        /\ p = "out" =>
             /\ d.min # port["out"].min => "staleMin" \in excuses'
             /\ \A e \in {"outgrown", "metadata", "changed"} : e \in excuses' <=> e \in excuses
        /\ excuses' \subseteq Flags
    BY <1>0 DEF Parameters!Excused, Flags, ParameterTypes, Parameters!Unsupported
  <1>9. ParameterTypes'
    BY <1>0, <1>7, <1>8 DEF ParameterTypes
  <1>10. SameMinimum'
    <2>1. port'["in"].min = 5
      BY <1>4, <1>7 DEF SameMinimum
    <2> QED BY <1>0, <2>1, Ageing
  <1>11. NobodyHolds'
    BY <1>0, <1>2, <1>5, <1>7 DEF NobodyHolds
  <1>12. RoomyIn' /\ RoomyOut'
    BY <1>0, <1>4, <1>5, <1>7, <1>8 DEF RoomyIn, RoomyOut, Parameters!Unsupported
  <1>13. Enough'
    BY <1>3, <1>4, <1>5, <1>7, <1>8 DEF Enough, SameMinimum
  <1>14. Fits'
    <2>1. CASE p = "in"
      BY <1>0, <1>2, <1>8, <2>1 DEF Fits
    <2>2. CASE p = "out"
      <3>1. Suffices("in")' <=> Suffices("in")
        BY <1>0, <1>7, <2>2 DEF Suffices, Parameters!GetDefinition,
           Parameters!VideoDecodeGetParameter, Parameters!VideoEncodeGetParameter
      <3> QED BY <1>0, <1>2, <1>8, <2>2, <3>1 DEF Fits
    <2> QED BY <2>1, <2>2
  <1> QED BY <1>9, <1>10, <1>11, <1>12, <1>13, <1>14

\* A step that leaves what the ports need and what they hold as it is.
LEMMA NeedsStay ==
  ASSUME ParameterInv, kind' = kind, topic' = topic, held' = held, excuses' = excuses,
         state' \in ParameterStates, state' = "loaded" <=> state = "loaded",
         configured' \in BOOLEAN,
         port' \in [{"in", "out"} -> Definitions],
         \A q \in {"in", "out"} :
           /\ port'[q].enabled = port[q].enabled /\ port'[q].min = port[q].min
           /\ port'[q].actual = port[q].actual /\ port'[q].frame = port[q].frame
           /\ port'[q].size = port[q].size,
         anb' \in BOOLEAN, thumb' \in BOOLEAN, meta' = meta,
         profile' \in [{"in", "out"} -> Parameters!Profiles], told' = profile',
         Parameters!Ages \/ (port' = port /\ SameMinimum')
  PROVE  ParameterInv'
  <1> USE DEF ParameterInv
  <1>1. ParameterTypes'
    BY DEF ParameterTypes
  <1>2. SameMinimum'
    <2>1. port'["in"].min = 5
      BY DEF SameMinimum
    <2> QED BY <2>1, Ageing
  <1>3. NobodyHolds'
    BY DEF NobodyHolds
  <1>4. RoomyIn' /\ RoomyOut' /\ Enough'
    BY DEF RoomyIn, RoomyOut, Enough
  <1>5. Fits'
    <2>1. ASSUME NEW p \in {"in", "out"}
          PROVE  Parameters!GetDefinition(p)'.size = Parameters!GetDefinition(p).size
      <3>1. Parameters!GetDefinition(p).size =
              IF kind \notin Parameters!Decoders /\ p = "in" /\ meta THEN 0 ELSE port[p].size
        BY Sizes
      <3>2. port'[p] \in Definitions /\ port[p] \in Definitions
        BY DEF ParameterTypes
      <3>3. Parameters!GetDefinition(p)'.size =
              IF kind \notin Parameters!Decoders /\ p = "in" /\ meta THEN 0 ELSE port'[p].size
        BY <3>2 DEF Parameters!GetDefinition, Parameters!VideoDecodeGetParameter,
           Parameters!VideoEncodeGetParameter, Parameters!MetadataSize, Definitions
      <3> QED BY <3>1, <3>3
    <2>2. Suffices("in")' <=> Suffices("in")
      BY <2>1 DEF Suffices
    <2>3. Suffices("out")' <=> Suffices("out")
      BY <2>1 DEF Suffices
    <2> QED BY <2>2, <2>3 DEF Fits
  <1> QED BY <1>1, <1>2, <1>3, <1>4, <1>5

LEMMA Others ==
  ASSUME ParameterInv, Parameters!others' = Parameters!others
  PROVE  /\ kind' = kind /\ topic' = topic /\ held' = held /\ configured' \in BOOLEAN
         /\ state' \in ParameterStates /\ state' = state
  BY DEF Parameters!others, ParameterInv, ParameterTypes

LEMMA Refuse_Inv ==
  ASSUME ParameterInv, NEW e, Parameters!Refuse(e), Parameters!others' = Parameters!others
  PROVE  ParameterInv'
  <1>1. /\ port' = port /\ anb' = anb /\ meta' = meta /\ profile' = profile /\ thumb' = thumb
        /\ told' = told /\ excuses' = excuses /\ Parameters!Ages
    BY DEF Parameters!Refuse, Parameters!settings
  <1> QED BY <1>1, Others, NeedsStay DEF ParameterInv, ParameterTypes

LEMMA WriteBack_Inv ==
  ASSUME ParameterInv, Parameters!WriteBack, Parameters!others' = Parameters!others
  PROVE  ParameterInv'
  <1> DEFINE p == got.port
             g == got.def
  <1>1. /\ p \in {"in", "out"} /\ g \in Definitions /\ (p = "in" => g.min = 5)
    BY DEF Readings, ParameterInv, SameMinimum, Parameters!WriteBack
  <1>2. PICK d \in Parameters!Edited(g) : Parameters!SetDefinition(p, d)
    BY DEF Parameters!WriteBack
  <1>3. d \in Definitions /\ d.min = g.min
    BY <1>1, Rooms, CallsAssumption DEF Parameters!Edited, Definitions
  <1> HIDE DEF p, g
  <1>4. \/ \E e : Parameters!Refuse(e)
        \/ /\ Parameters!Settable(p) /\ Parameters!Accepts(d, port[p])
           /\ Parameters!Store(p, d)
    BY <1>2 DEF Parameters!SetDefinition
  <1> QED BY <1>1, <1>3, <1>4, Refuse_Inv, SetDefinition_Inv

LEMMA SetFormat_Inv ==
  ASSUME ParameterInv, NEW p \in {"in", "out"}, NEW color \in Parameters!Formats,
         NEW stream \in Parameters!Streams,
         Parameters!SetFormat(p, color, stream), Parameters!others' = Parameters!others
  PROVE  ParameterInv'
  <1>1. /\ port' = [port EXCEPT ![p].color = color, ![p].stream = stream] /\ Parameters!Ages
        /\ anb' = anb /\ meta' = meta /\ profile' = profile /\ thumb' = thumb /\ told' = told
        /\ excuses' = excuses
    BY DEF Parameters!SetFormat
  <1>2. port \in [{"in", "out"} -> Definitions]
    BY DEF ParameterInv, ParameterTypes
  <1>3. port' = [port EXCEPT ![p] = [port[p] EXCEPT !.color = color, !.stream = stream]]
    BY <1>1, <1>2 DEF Definitions
  <1>4. port' \in [{"in", "out"} -> Definitions]
    BY <1>2, <1>3 DEF Definitions
  <1>5. \A q \in {"in", "out"} :
           /\ port'[q].enabled = port[q].enabled /\ port'[q].min = port[q].min
           /\ port'[q].actual = port[q].actual /\ port'[q].frame = port[q].frame
           /\ port'[q].size = port[q].size
    BY <1>2, <1>3 DEF Definitions
  <1> QED BY <1>1, <1>4, <1>5, Others, NeedsStay DEF ParameterInv, ParameterTypes

LEMMA SetBitrate_Inv ==
  ASSUME ParameterInv, NEW p \in {"in", "out"},
         Parameters!SetBitrate(p, "set"), Parameters!others' = Parameters!others
  PROVE  ParameterInv'
  <1>1. CASE p # Parameters!StreamPort
    BY <1>1, Refuse_Inv DEF Parameters!SetBitrate
  <1>2. CASE p = Parameters!StreamPort
    <2>1. /\ port' = [port EXCEPT ![p].rate = "set"] /\ Parameters!Ages /\ excuses' = excuses
          /\ anb' = anb /\ meta' = meta /\ profile' = profile /\ thumb' = thumb /\ told' = told
      BY <1>2 DEF Parameters!SetBitrate
    <2>2. port \in [{"in", "out"} -> Definitions]
      BY DEF ParameterInv, ParameterTypes
    <2>3. port' \in [{"in", "out"} -> Definitions]
      BY <2>1, <2>2 DEF Definitions
    <2>4. \A q \in {"in", "out"} :
             /\ port'[q].enabled = port[q].enabled /\ port'[q].min = port[q].min
             /\ port'[q].actual = port[q].actual /\ port'[q].frame = port[q].frame
             /\ port'[q].size = port[q].size
      BY <2>1, <2>2 DEF Definitions
    <2> QED BY <2>1, <2>3, <2>4, Others, NeedsStay DEF ParameterInv, ParameterTypes
  <1> QED BY <1>1, <1>2

LEMMA SetRole_Inv ==
  ASSUME ParameterInv, NEW r \in Parameters!Streams,
         Parameters!SetRole(r), Parameters!others' = Parameters!others
  PROVE  ParameterInv'
  <1>1. ASSUME NEW e, Parameters!Refuse(e) PROVE ParameterInv'
    BY <1>1, Refuse_Inv
  <1>2. CASE /\ port' = [port EXCEPT ![Parameters!StreamPort].stream = r] /\ Parameters!Ages
             /\ UNCHANGED <<anb, meta, profile, errcorr, thumb, told, excuses>>
    <2> DEFINE p == Parameters!StreamPort
    <2>2. port \in [{"in", "out"} -> Definitions] /\ p \in {"in", "out"}
      BY Kinships DEF ParameterInv, ParameterTypes
    <2> HIDE DEF p
    <2>1. port' = [port EXCEPT ![p].stream = r]
      BY <1>2 DEF p
    <2>3. port' \in [{"in", "out"} -> Definitions]
      BY <2>1, <2>2 DEF Definitions
    <2>4. \A q \in {"in", "out"} :
             /\ port'[q].enabled = port[q].enabled /\ port'[q].min = port[q].min
             /\ port'[q].actual = port[q].actual /\ port'[q].frame = port[q].frame
             /\ port'[q].size = port[q].size
      BY <2>1, <2>2 DEF Definitions
    <2> QED BY <1>2, <2>3, <2>4, Others, NeedsStay DEF ParameterInv, ParameterTypes
  <1> QED BY <1>1, <1>2 DEF Parameters!SetRole

LEMMA SetProfile_Inv ==
  ASSUME ParameterInv, NEW p \in {"in", "out"}, NEW v \in Parameters!Profiles,
         Parameters!SetProfile(p, v), Parameters!others' = Parameters!others
  PROVE  ParameterInv'
  <1>1. /\ port' = port /\ anb' = anb /\ meta' = meta /\ thumb' = thumb /\ Parameters!Ages
        /\ profile' \in [{"in", "out"} -> Parameters!Profiles] /\ told' = profile'
        /\ excuses' = excuses
    BY DEF Parameters!SetProfile, Parameters!StoreProfile, ParameterInv, ParameterTypes
  <1> QED BY <1>1, Others, NeedsStay DEF ParameterInv, ParameterTypes

LEMMA SetErrorCorrection_Inv ==
  ASSUME ParameterInv, NEW p, NEW v,
         Parameters!SetErrorCorrection(p, v), Parameters!others' = Parameters!others
  PROVE  ParameterInv'
  <1>1. CASE p # Parameters!StreamPort
    BY <1>1, Refuse_Inv DEF Parameters!SetErrorCorrection
  <1>2. CASE p = Parameters!StreamPort
    <2>1. /\ port' = port /\ anb' = anb /\ meta' = meta /\ thumb' = thumb /\ Parameters!Ages
          /\ profile' = profile /\ told' = told /\ excuses' = excuses
      BY <1>2 DEF Parameters!SetErrorCorrection
    <2> QED BY <2>1, Others, NeedsStay DEF ParameterInv, ParameterTypes
  <1> QED BY <1>1, <1>2

\* Native buffers may be chosen while the output port has buffers; the client knows.
LEMMA EnableAndroidBuffers_Inv ==
  ASSUME ParameterInv, NEW on \in BOOLEAN,
         Parameters!EnableAndroidBuffers(on), Parameters!others' = Parameters!others
  PROVE  ParameterInv'
  <1> USE DEF ParameterInv
  <1> DEFINE n == Parameters!NativeBuffers(on)
             colour == IF on THEN "anb" ELSE port["out"].color
  <1>1. n \in Nat
    BY DEF Parameters!NativeBuffers
  <1>2. port \in [{"in", "out"} -> Definitions]
    BY DEF ParameterTypes
  <1>3. colour \in Parameters!Formats
    BY <1>2 DEF Definitions, Parameters!Formats
  <1>4. /\ port' = [port EXCEPT !["out"].min = n, !["out"].actual = n, !["out"].color = colour]
        /\ anb' = on /\ Parameters!Ages
        /\ meta' = meta /\ profile' = profile /\ thumb' = thumb /\ told' = told
        /\ excuses' = (excuses \ {"staleMin"}) \cup
                        (IF held["out"] = Parameters!NoBuffers THEN {} ELSE {"changed"})
    BY <1>2 DEF Parameters!EnableAndroidBuffers, Definitions
  <1> HIDE DEF n, colour
  <1>5. /\ port' \in [{"in", "out"} -> Definitions] /\ port'["in"] = port["in"]
        /\ port'["out"].min = n /\ port'["out"].actual = n
        /\ port'["out"].frame = port["out"].frame /\ port'["out"].size = port["out"].size
        /\ port'["out"].enabled = port["out"].enabled
    BY <1>1, <1>2, <1>3, <1>4 DEF Definitions
  <1>6. ParameterTypes'
    BY <1>4, <1>5, Others DEF ParameterTypes, Flags
  <1>7. SameMinimum'
    BY <1>4, <1>5, Ageing DEF SameMinimum
  <1>8. NobodyHolds'
    BY <1>5, Others DEF NobodyHolds
  <1>9. RoomyIn' /\ RoomyOut' /\ Enough'
    BY <1>1, <1>4, <1>5, Others DEF RoomyIn, RoomyOut, Enough
  <1>10. Fits'
    <2>1. Suffices("in")' <=> Suffices("in")
      BY <1>4, <1>5, Others DEF Suffices, Parameters!GetDefinition,
         Parameters!VideoDecodeGetParameter, Parameters!VideoEncodeGetParameter
    <2> QED BY <1>4, <2>1, Others DEF Fits
  <1> QED BY <1>6, <1>7, <1>8, <1>9, <1>10

LEMMA StoreMetaData_Inv ==
  ASSUME ParameterInv, NEW on \in BOOLEAN,
         Parameters!StoreMetaData(on), Parameters!others' = Parameters!others
  PROVE  ParameterInv'
  <1> USE DEF ParameterInv
  <1>1. /\ port' = port /\ anb' = anb /\ meta' = on /\ Parameters!Ages
        /\ profile' = profile /\ thumb' = thumb /\ told' = told
        /\ excuses' = IF held["in"] = Parameters!NoBuffers THEN excuses
                                                           ELSE excuses \cup {"metadata"}
    BY DEF Parameters!StoreMetaData
  <1>2. ParameterTypes'
    BY <1>1, Others DEF ParameterTypes, Flags
  <1>3. SameMinimum'
    BY <1>1, Ageing DEF SameMinimum
  <1>4. NobodyHolds' /\ RoomyIn' /\ RoomyOut' /\ Enough'
    BY <1>1, Others DEF NobodyHolds, RoomyIn, RoomyOut, Enough
  <1>5. Fits'
    <2>1. Suffices("out")' <=> Suffices("out")
      BY <1>1, Others DEF Suffices, Parameters!GetDefinition,
         Parameters!VideoDecodeGetParameter, Parameters!VideoEncodeGetParameter
    <2> QED BY <1>1, <2>1, Others DEF Fits
  <1> QED BY <1>2, <1>3, <1>4, <1>5

LEMMA SetParameter_Inv ==
  ASSUME ParameterInv, Parameters!SetParameter
  PROVE  ParameterInv'
  <1> USE DEF Parameters!Ports
  <1>0. Parameters!others' = Parameters!others /\ Parameters!StreamPort \in {"in", "out"}
    BY Kinships DEF Parameters!SetParameter, ParameterInv, ParameterTypes
  <1>1. ASSUME NEW streams, Parameters!CodecSetParameter(streams) PROVE ParameterInv'
    BY <1>0, <1>1, SetRole_Inv, SetProfile_Inv, SetErrorCorrection_Inv
       DEF Parameters!CodecSetParameter
  <1>2. CASE Parameters!WriteBack
    BY <1>0, <1>2, WriteBack_Inv
  <1>3. CASE Parameters!SetOneFormat
    <2>1. \A p \in {"in", "out"} : /\ port[p].color \in Parameters!Formats
                                   /\ port[p].stream \in Parameters!Streams
      BY DEF ParameterInv, ParameterTypes, Definitions
    <2>2. PICK p \in {"in", "out"}, color \in Parameters!Formats, stream \in Parameters!Streams :
            Parameters!SetFormat(p, color, stream)
      BY <1>0, <1>3, <2>1, CallsAssumption DEF Parameters!SetOneFormat
    <2> QED BY <1>0, <2>2, SetFormat_Inv
  <1>4. CASE Parameters!VideoDecodeSetParameter
    BY <1>0, <1>3, <1>4, EnableAndroidBuffers_Inv, SetBitrate_Inv, Refuse_Inv
       DEF Parameters!VideoDecodeSetParameter, Parameters!BaseSetParameter,
           Parameters!OtherVersion
  <1>5. CASE Parameters!VideoEncodeSetParameter
    BY <1>0, <1>3, <1>5, StoreMetaData_Inv, SetBitrate_Inv, Refuse_Inv
       DEF Parameters!VideoEncodeSetParameter, Parameters!BaseSetParameter,
           Parameters!OtherVersion
  <1>6. ASSUME NEW e, Parameters!Refuse(e) PROVE ParameterInv'
    BY <1>0, <1>6, Refuse_Inv
  <1> QED BY <1>1, <1>2, <1>4, <1>5, <1>6
          DEF Parameters!SetParameter, Parameters!H264DecSetParameter,
              Parameters!Mpeg4DecSetParameter, Parameters!H264EncSetParameter,
              Parameters!Mpeg4EncSetParameter

\* The calls that read.
LEMMA GetParameter_Inv ==
  ASSUME ParameterInv, NEW p \in {"in", "out"}, Parameters!GetParameter(p)
  PROVE  ParameterInv'
  <1>0. /\ Parameters!others' = Parameters!others /\ port' = port /\ anb' = anb /\ meta' = meta
        /\ profile' = profile /\ thumb' = thumb /\ told' = told /\ excuses' = excuses
    BY DEF Parameters!GetParameter, Parameters!settings
  <1>1. CASE Parameters!Ages
    BY <1>0, <1>1, Others, NeedsStay DEF ParameterInv, ParameterTypes
  <1>2. CASE got' = [port |-> p, def |-> Parameters!CodecGetParameter(p).def, age |-> 0]
    <2>1. Parameters!CodecGetParameter(p).def = Parameters!GetDefinition(p)
      BY DEF Parameters!CodecGetParameter, Parameters!H264DecGetParameter,
         Parameters!Mpeg4DecGetParameter, Parameters!H264EncGetParameter,
         Parameters!Mpeg4EncGetParameter
    <2>2. /\ Parameters!GetDefinition(p) \in Definitions
          /\ p = "in" => Parameters!GetDefinition(p).min = 5
      BY Sizes DEF ParameterInv, SameMinimum
    <2>3. SameMinimum'
      BY <1>0, <1>2, <2>1, <2>2 DEF Readings, SameMinimum, ParameterInv
    <2> QED BY <1>0, <2>3, Others, NeedsStay DEF ParameterInv, ParameterTypes
  <1> QED BY <1>1, <1>2 DEF Parameters!GetParameter

LEMMA Asks_Inv ==
  ASSUME ParameterInv,
         \/ Parameters!GetConfig \/ Parameters!SetConfig
         \/ \E name \in Parameters!Names: Parameters!GetExtensionIndex(name)
         \/ \E n \in 1 .. 2: Parameters!ComponentRoleEnum(n)
  PROVE  ParameterInv'
  <1>1. /\ Parameters!others' = Parameters!others /\ port' = port /\ anb' = anb /\ meta' = meta
        /\ profile' = profile /\ told' = told /\ Parameters!Ages /\ thumb' \in BOOLEAN
        /\ excuses' = excuses
    BY DEF Parameters!GetConfig, Parameters!SetConfig, Parameters!GetExtensionIndex,
       Parameters!ComponentRoleEnum, Parameters!settings, ParameterInv, ParameterTypes,
       Parameters!H264DecSetConfig, Parameters!Mpeg4DecSetConfig, Parameters!H264EncSetConfig,
       Parameters!Mpeg4EncSetConfig
  <1> QED BY <1>1, Others, NeedsStay DEF ParameterInv, ParameterTypes

\* The commands.
LEMMA AllocatedFor ==
  ASSUME ParameterInv, NEW p \in {"in", "out"}
  PROVE  /\ Parameters!Allocated(p) \in Holdings
         /\ Parameters!Allocated(p).count = port[p].actual
         /\ Parameters!Allocated(p).size = Parameters!GetDefinition(p).size
         /\ Parameters!GetDefinition(p).size \in Nat
  <1>1. /\ port[p] \in Definitions /\ Parameters!GetDefinition(p) \in Definitions
    BY Sizes DEF ParameterInv, ParameterTypes
  <1> QED BY <1>1 DEF Parameters!Allocated, Holdings, Definitions

\* Commands change nothing a client set.
LEMMA Commands ==
  ASSUME ParameterInv, Parameters!Unaffected, excuses' \subseteq excuses
  PROVE  /\ kind' = kind /\ topic' = topic /\ anb' = anb /\ meta' = meta /\ told' = told
         /\ profile' = profile /\ thumb' = thumb /\ Parameters!Ages
         /\ excuses' \subseteq Flags
         /\ <<kind, topic>>' = <<kind, topic>>
  BY DEF Parameters!Unaffected, ParameterInv, ParameterTypes

LEMMA ToIdle_Inv == ASSUME ParameterInv, Parameters!ToIdle  PROVE  ParameterInv'
  <1> USE DEF ParameterInv
  <1>0. /\ state' = "idle" /\ state = "loaded" /\ configured' = FALSE /\ port' = port
        /\ excuses' = excuses /\ Parameters!Unaffected
        /\ held' = [p \in {"in", "out"} |-> IF port[p].enabled THEN Parameters!Allocated(p)
                                                             ELSE Parameters!NoBuffers]
    BY DEF Parameters!ToIdle, Parameters!Ports
  <1>1. Parameters!NoBuffers \in Holdings
    BY DEF Parameters!NoBuffers, Holdings
  <1>2. held' \in [{"in", "out"} -> Holdings]
    BY <1>0, <1>1, AllocatedFor
  <1>3. ParameterTypes'
    BY <1>0, <1>2, Commands DEF ParameterTypes, ParameterStates
  <1>4. SameMinimum'
    BY <1>0, Commands, Ageing DEF SameMinimum
  <1>5. NobodyHolds' /\ RoomyIn' /\ RoomyOut' /\ Enough'
    BY <1>0, Commands DEF NobodyHolds, RoomyIn, RoomyOut, Enough
  <1>6. ASSUME NEW p \in {"in", "out"}, held'[p] # Parameters!NoBuffers PROVE Suffices(p)'
    <2>1. held'[p] = Parameters!Allocated(p)
      BY <1>0, <1>6
    <2>2. Parameters!GetDefinition(p)' = Parameters!GetDefinition(p)
      BY <1>0, Commands DEF Parameters!GetDefinition, Parameters!VideoDecodeGetParameter,
         Parameters!VideoEncodeGetParameter
    <2> QED BY <1>0, <2>1, <2>2, AllocatedFor DEF Suffices
  <1>7. Fits'
    BY <1>6 DEF Fits
  <1> QED BY <1>3, <1>4, <1>5, <1>7

LEMMA Run_Inv ==
  ASSUME ParameterInv, Parameters!Run \/ Parameters!Stop \/ Parameters!Fail
  PROVE  ParameterInv'
  <1>1. /\ port' = port /\ held' = held /\ configured' = configured /\ excuses' = excuses
        /\ Parameters!Unaffected /\ state' \in ParameterStates
        /\ state' = "loaded" <=> state = "loaded"
    BY DEF Parameters!Run, Parameters!Stop, Parameters!Fail, ParameterStates
  <1> QED BY <1>1, Commands, NeedsStay DEF ParameterInv, ParameterTypes

LEMMA ToLoaded_Inv == ASSUME ParameterInv, Parameters!ToLoaded  PROVE  ParameterInv'
  <1> USE DEF ParameterInv
  <1>0. /\ state' = "loaded" /\ configured' = configured /\ port' = port
        /\ Parameters!Unaffected /\ held' = [p \in {"in", "out"} |-> Parameters!NoBuffers]
        /\ excuses' = excuses \ {"metadata", "changed"}
    BY DEF Parameters!ToLoaded, Parameters!Ports, Parameters!Cleared
  <1>1. ParameterTypes'
    BY <1>0, Commands DEF ParameterTypes, ParameterStates, Holdings, Parameters!NoBuffers
  <1>2. SameMinimum'
    BY <1>0, Commands, Ageing DEF SameMinimum
  <1>3. NobodyHolds' /\ Fits'
    BY <1>0 DEF NobodyHolds, Fits
  <1>4. RoomyIn' /\ RoomyOut' /\ Enough'
    BY <1>0, Commands DEF RoomyIn, RoomyOut, Enough
  <1> QED BY <1>1, <1>2, <1>3, <1>4

\* A port that is enabled or disabled has all its buffers given or taken; the other port
\* is as it was.
LEMMA Switched_Inv ==
  ASSUME ParameterInv, Parameters!Unaffected, NEW p \in {"in", "out"}, NEW on \in BOOLEAN,
         NEW given \in Holdings,
         state' = state, configured' = configured,
         port' = [port EXCEPT ![p].enabled = on], held' = [held EXCEPT ![p] = given],
         state = "loaded" \/ ~on => given = Parameters!NoBuffers,
         given # Parameters!NoBuffers =>
           given.count = port[p].actual /\ given.size >= Parameters!GetDefinition(p).size,
         excuses' = excuses \/ excuses' = Parameters!Cleared(p)
  PROVE  ParameterInv'
  <1> USE DEF ParameterInv
  <1>1. port \in [{"in", "out"} -> Definitions] /\ held \in [{"in", "out"} -> Holdings]
    BY DEF ParameterTypes
  <1>2. /\ port' \in [{"in", "out"} -> Definitions]
        /\ \A q \in {"in", "out"} :
             /\ port'[q].min = port[q].min /\ port'[q].actual = port[q].actual
             /\ port'[q].frame = port[q].frame /\ port'[q].size = port[q].size
             /\ (q # p => port'[q].enabled = port[q].enabled)
        /\ port'[p].enabled = on
    BY <1>1 DEF Definitions
  <1>3. /\ held' \in [{"in", "out"} -> Holdings] /\ held'[p] = given
        /\ \A q \in {"in", "out"} : q # p => held'[q] = held[q]
    BY <1>1
  <1>4. /\ excuses' \subseteq excuses
        /\ \A e \in {"unsupported", "outgrown", "staleMin"} : e \in excuses' <=> e \in excuses
        /\ p # "in" => ("metadata" \in excuses' <=> "metadata" \in excuses)
        /\ p # "out" => ("changed" \in excuses' <=> "changed" \in excuses)
    BY DEF Parameters!Cleared
  <1>5. ParameterTypes'
    BY <1>2, <1>3, <1>4, Commands DEF ParameterTypes
  <1>6. SameMinimum'
    BY <1>2, <1>4, Commands, Ageing DEF SameMinimum
  <1>7. NobodyHolds'
    BY <1>2, <1>3 DEF NobodyHolds
  <1>8. RoomyIn' /\ RoomyOut' /\ Enough'
    BY <1>2, <1>4, Commands DEF RoomyIn, RoomyOut, Enough
  <1>9. \A q \in {"in", "out"} :
          Parameters!GetDefinition(q)'.size = Parameters!GetDefinition(q).size
    <2>1. \A q \in {"in", "out"} : port'[q] \in Definitions /\ port[q] \in Definitions
      BY <1>1, <1>2
    <2> QED BY <1>2, <1>4, <2>1, Commands
            DEF Parameters!GetDefinition, Parameters!VideoDecodeGetParameter,
                Parameters!VideoEncodeGetParameter, Parameters!MetadataSize, Definitions
  <1>10. \A q \in {"in", "out"} : IF q = p THEN given # Parameters!NoBuffers => Suffices(q)'
                                           ELSE Suffices(q)' <=> Suffices(q)
    BY <1>2, <1>3, <1>9 DEF Suffices
  <1>11. Fits'
    BY <1>3, <1>4, <1>10 DEF Fits
  <1> QED BY <1>5, <1>6, <1>7, <1>8, <1>11

LEMMA DisablePort_Inv ==
  ASSUME ParameterInv, NEW p \in {"in", "out"}, Parameters!DisablePort(p)
  PROVE  ParameterInv'
  <1>1. Parameters!NoBuffers \in Holdings
    BY DEF Parameters!NoBuffers, Holdings
  <1> QED BY <1>1, Switched_Inv DEF Parameters!DisablePort

LEMMA EnablePort_Inv ==
  ASSUME ParameterInv, NEW p \in {"in", "out"}, Parameters!EnablePort(p)
  PROVE  ParameterInv'
  <1> DEFINE given == IF state = "loaded" THEN Parameters!NoBuffers ELSE Parameters!Allocated(p)
  <1>1. /\ given \in Holdings
        /\ given # Parameters!NoBuffers =>
             given.count = port[p].actual /\ given.size >= Parameters!GetDefinition(p).size
        /\ state = "loaded" => given = Parameters!NoBuffers
    <2>1. Parameters!NoBuffers \in Holdings
      BY DEF Parameters!NoBuffers, Holdings
    <2> QED BY <2>1, AllocatedFor
  <1>2. /\ state' = state /\ configured' = configured /\ excuses' = excuses
        /\ port' = [port EXCEPT ![p].enabled = TRUE] /\ held' = [held EXCEPT ![p] = given]
        /\ Parameters!Unaffected
    BY DEF Parameters!EnablePort
  <1> HIDE DEF given
  <1> QED BY <1>1, <1>2, Switched_Inv

\* The stream may give the ports another picture, and room for it to the output port.
LEMMA FirstFrame_Inv ==
  ASSUME ParameterInv, NEW f \in Frames, NEW crop, Parameters!FirstFrame(f, crop)
  PROVE  ParameterInv'
  <1> USE DEF ParameterInv
  <1>0. /\ state = "executing" /\ state' = state /\ held' = held /\ configured' = TRUE
        /\ Parameters!Unaffected
    BY DEF Parameters!FirstFrame
  <1>1. port \in [{"in", "out"} -> Definitions]
    BY DEF ParameterTypes
  <1> DEFINE met == [port EXCEPT !["in"].frame = f]
             larger == IF met["out"].color \in {"planar", "semiplanar", "anb"}
                       THEN Parameters!Room(f) ELSE Parameters!Room16(f)
  <1>2. /\ met \in [{"in", "out"} -> Definitions] /\ met["out"] = port["out"]
        /\ met["in"] = [port["in"] EXCEPT !.frame = f] /\ met["in"].frame = f
    BY <1>1 DEF Definitions
  <1>3. larger \in Nat /\ larger >= Parameters!Room(f)
    BY Rooms
  <1>4. \/ port' = port /\ excuses' = excuses
        \/ /\ port' = Parameters!UpdateFrameSize(met)
           /\ excuses' = (excuses \ (IF port["out"].frame # f THEN {"unsupported"} ELSE {}))
                           \cup {"outgrown", "changed"}
    BY DEF Parameters!FirstFrame
  <1>5. Parameters!UpdateFrameSize(met) =
          IF port["out"].frame = f THEN met
          ELSE [met EXCEPT !["out"].frame = f, !["out"].size = larger]
    BY <1>2 DEF Parameters!UpdateFrameSize
  <1> HIDE DEF met, larger
  <1>6. CASE port' = port /\ excuses' = excuses
    BY <1>0, <1>6, Commands, NeedsStay DEF ParameterTypes
  <1>7. CASE /\ port' = Parameters!UpdateFrameSize(met)
             /\ excuses' = (excuses \ (IF port["out"].frame # f THEN {"unsupported"} ELSE {}))
                             \cup {"outgrown", "changed"}
    <2>1. /\ port' \in [{"in", "out"} -> Definitions] /\ port'["in"] = met["in"]
          /\ port'["out"] = IF port["out"].frame = f THEN port["out"]
                            ELSE [port["out"] EXCEPT !.frame = f, !.size = larger]
      <3>1. CASE port["out"].frame = f
        BY <1>2, <1>5, <1>7, <3>1
      <3>2. CASE port["out"].frame # f
        <4>1. port' = [met EXCEPT !["out"] = [met["out"] EXCEPT !.frame = f, !.size = larger]]
          BY <1>2, <1>5, <1>7, <3>2
        <4>2. [port["out"] EXCEPT !.frame = f, !.size = larger] \in Definitions
          BY <1>1, <1>3 DEF Definitions
        <4> QED BY <1>2, <3>2, <4>1, <4>2
      <3> QED BY <3>1, <3>2
    <2>2. \A q \in {"in", "out"} :
            /\ port'[q].enabled = port[q].enabled /\ port'[q].min = port[q].min
            /\ port'[q].actual = port[q].actual
            /\ q = "in" => port'[q].size = port[q].size
      <3>1. port["in"] \in Definitions /\ port["out"] \in Definitions
        BY <1>1
      <3>2. /\ port'["in"].enabled = port["in"].enabled /\ port'["in"].min = port["in"].min
            /\ port'["in"].actual = port["in"].actual /\ port'["in"].size = port["in"].size
        BY <1>2, <2>1, <3>1 DEF Definitions
      <3>3. /\ port'["out"].enabled = port["out"].enabled
            /\ port'["out"].min = port["out"].min
            /\ port'["out"].actual = port["out"].actual
        BY <2>1, <3>1 DEF Definitions
      <3> QED BY <3>2, <3>3
    <2>3. /\ port["out"].frame # f =>
               port'["out"].frame = f /\ port'["out"].size = larger
          /\ port["out"].frame = f => port'["out"] = port["out"]
      BY <1>1, <2>1 DEF Definitions
    <2>4. /\ kind' = kind /\ topic' = topic /\ anb' = anb /\ meta' = meta /\ told' = told
          /\ profile' = profile /\ thumb' = thumb /\ Parameters!Ages
          /\ excuses' \subseteq Flags
      BY <1>0, <1>7 DEF Parameters!Unaffected, ParameterTypes, Flags
    <2>5. ParameterTypes'
      BY <1>0, <2>1, <2>4 DEF ParameterTypes
    <2>6. SameMinimum'
      BY <2>2, <2>4, Ageing DEF SameMinimum
    <2>7. NobodyHolds'
      BY <1>0, <2>2 DEF NobodyHolds
    <2>8. RoomyIn' /\ RoomyOut'
      BY <1>3, <1>7, <2>3, <2>4 DEF RoomyIn, RoomyOut
    <2>9. Enough'
      BY <1>7, <2>2 DEF Enough
    <2>10. Fits'
      <3>1. Parameters!GetDefinition("in")'.size = Parameters!GetDefinition("in").size
        <4>1. port'["in"] \in Definitions /\ port["in"] \in Definitions
          BY <1>1, <2>1
        <4> QED BY <2>2, <2>4, <4>1
                DEF Parameters!GetDefinition, Parameters!VideoDecodeGetParameter,
                    Parameters!VideoEncodeGetParameter, Parameters!MetadataSize, Definitions
      <3>2. Suffices("in")' <=> Suffices("in")
        BY <1>0, <2>2, <3>1 DEF Suffices
      <3> QED BY <1>0, <1>7, <3>2 DEF Fits
    <2> QED BY <2>5, <2>6, <2>7, <2>8, <2>9, <2>10
  <1> QED BY <1>4, <1>6, <1>7

LEMMA ParameterStep == ParameterInv /\ [Parameters!Next]_(Parameters!vars) => ParameterInv'
  <1> SUFFICES ASSUME ParameterInv, [Parameters!Next]_(Parameters!vars) PROVE ParameterInv'
    OBVIOUS
  <1>1. CASE Parameters!Calls
    BY <1>1, SetParameter_Inv, GetParameter_Inv, Asks_Inv DEF Parameters!Calls, Parameters!Ports
  <1>2. CASE UNCHANGED Parameters!vars
    <2>1. /\ port' = port /\ got' = got /\ SameMinimum' /\ kind' = kind /\ topic' = topic
          /\ held' = held /\ excuses' = excuses /\ state' = state /\ configured' = configured
          /\ anb' = anb /\ thumb' = thumb /\ meta' = meta /\ profile' = profile /\ told' = told
      BY <1>2 DEF Parameters!vars, ParameterInv, SameMinimum
    <2> QED BY <2>1, NeedsStay DEF ParameterInv, ParameterTypes
  <1> QED BY <1>1, <1>2, ToIdle_Inv, Run_Inv, ToLoaded_Inv, DisablePort_Inv, EnablePort_Inv,
             FirstFrame_Inv
          DEF Parameters!Next, Parameters!Ports

LEMMA Agreement == ParameterInv => ParametersAgree
  <1> SUFFICES ASSUME ParameterInv PROVE ParametersAgree
    OBVIOUS
  <1> USE DEF ParameterInv, Parameters!Ports
  <1>1. Parameters!TypeOK
    BY DEF Parameters!TypeOK, ParameterTypes, ParameterStates, Definitions, Flags
  <1>2. Parameters!BufferHoldsFrame
    BY DEF Parameters!BufferHoldsFrame, RoomyIn, RoomyOut
  <1>3. Parameters!CountAtLeastMin
    BY DEF Parameters!CountAtLeastMin, Enough
  <1>4. Parameters!AllocatedFits
    BY DEF Parameters!AllocatedFits, Fits, Suffices
  <1>5. Parameters!ProfileReported
    BY DEF Parameters!ProfileReported, ParameterTypes, Parameters!CodecGetParameter,
       Parameters!H264DecGetParameter, Parameters!Mpeg4DecGetParameter,
       Parameters!H264EncGetParameter, Parameters!Mpeg4EncGetParameter
  <1> QED BY <1>1, <1>2, <1>3, <1>4, <1>5 DEF ParametersAgree

\* Whatever order sizes, counts, formats, native buffers and metadata are set in, in any
\* state and with structures of any age, whichever ports are disabled and enabled again and
\* whatever picture the stream has: a buffer of a decoder holds the picture of its port, a
\* port asks for its minimum, and buffers are enough for their port, up to the excuses the
\* properties name; and the profile reported is the one set.
THEOREM ParametersInAgreement == Parameters!Spec => []ParametersAgree
  BY ParameterInit, ParameterStep, Agreement, PTL DEF Parameters!Spec

-----------------------------------------------------------------------------
(* Calls that return an error.                                               *)

Plain == {"ok", "none", "settingsChanged"}

LEMMA Plain_Orderly == ret' \in Plain => Parameters!Orderly
  BY DEF Parameters!Orderly, Parameters!Refused, Plain

LEMMA Refuse_Orderly ==
  ASSUME NEW e, e # "unsupportedSetting", Parameters!Refuse(e)
  PROVE  Parameters!Orderly
  BY DEF Parameters!Orderly, Parameters!Refuse

LEMMA WriteBack_Orderly == ASSUME ParameterInv, Parameters!WriteBack  PROVE  Parameters!Orderly
  <1> DEFINE p == got.port
             g == got.def
  <1>1. p \in {"in", "out"} /\ g \in Definitions
    BY DEF Readings, ParameterInv, SameMinimum, Parameters!WriteBack
  <1>2. PICK d \in Parameters!Edited(g) : Parameters!SetDefinition(p, d)
    BY DEF Parameters!WriteBack
  <1>3. d.frame \in Frames /\ d.size \in Nat /\ d \in Definitions
    BY <1>1, Rooms, CallsAssumption DEF Parameters!Edited, Definitions
  <1> HIDE DEF p, g
  <1>4. CASE \E e \in {"incorrectState", "badParameter"} : Parameters!Refuse(e)
    BY <1>4, Refuse_Orderly
  <1>5. CASE /\ Parameters!Settable(p) /\ Parameters!Store(p, d)
             /\ ret' = IF Parameters!Unsupported(p) THEN "unsupportedSetting" ELSE "ok"
    <2>1. CASE ~Parameters!Unsupported(p)
      BY <1>5, <2>1, Plain_Orderly DEF Plain
    <2>2. CASE Parameters!Unsupported(p)
      <3>1. /\ kind \in Parameters!Decoders /\ p = "in"
            /\ port["out"].color \notin Parameters!Supported
        BY <2>2 DEF Parameters!Unsupported
      <3> DEFINE own == [d EXCEPT !.size = Parameters!AtLeast(d.frame, d.size)]
                 out == [port["out"] EXCEPT !.frame = d.frame, !.size = @]
      <3>2. /\ port' = [port EXCEPT !["in"] = own, !["out"] = out]
            /\ UNCHANGED <<anb, meta, profile, errcorr, thumb>>
        BY <1>5, <3>1 DEF Parameters!Store, Parameters!DecoderSetDefinition
      <3>3. /\ own.size >= Parameters!Room(own.frame) /\ own.frame = d.frame
            /\ out = [port["out"] EXCEPT !.frame = d.frame]
        <4>1. own.frame = d.frame /\ own.size = Parameters!AtLeast(d.frame, d.size)
          BY <1>3 DEF Definitions
        <4>2. Parameters!AtLeast(d.frame, d.size) >= Parameters!Room(d.frame)
          BY <1>3, Rooms DEF Parameters!AtLeast
        <4>3. port["out"] \in Definitions
          BY DEF ParameterInv, ParameterTypes
        <4>4. out = [port["out"] EXCEPT !.frame = d.frame]
          BY <4>3 DEF Definitions
        <4> QED BY <4>1, <4>2, <4>4
      <3> HIDE DEF own, out
      <3>4. port'["in"] = own /\ port'["out"] = out
        BY <3>2 DEF ParameterInv, ParameterTypes
      <3>5. Parameters!HalfStored
        BY <1>5, <3>1, <3>2, <3>3, <3>4 DEF Parameters!HalfStored
      <3> QED BY <1>5, <2>2, <3>5 DEF Parameters!Orderly, Parameters!Refused
    <2> QED BY <2>1, <2>2
  <1> QED BY <1>2, <1>4, <1>5 DEF Parameters!SetDefinition

LEMMA SetParameter_Orderly == ASSUME ParameterInv, Parameters!SetParameter  PROVE  Parameters!Orderly
  <1>1. ASSUME ret' = "ok" PROVE Parameters!Orderly
    BY <1>1, Plain_Orderly DEF Plain
  <1>2. ASSUME NEW streams, Parameters!CodecSetParameter(streams) PROVE Parameters!Orderly
    BY <1>1, <1>2, Refuse_Orderly DEF Parameters!CodecSetParameter, Parameters!SetRole,
       Parameters!SetProfile, Parameters!SetErrorCorrection
  <1>3. CASE Parameters!SetOneFormat
    BY <1>1, <1>3 DEF Parameters!SetOneFormat, Parameters!SetFormat
  <1>4. CASE Parameters!VideoDecodeSetParameter
    BY <1>1, <1>3, <1>4, Refuse_Orderly DEF Parameters!VideoDecodeSetParameter,
       Parameters!EnableAndroidBuffers, Parameters!SetBitrate, Parameters!BaseSetParameter,
       Parameters!OtherVersion
  <1>5. CASE Parameters!VideoEncodeSetParameter
    BY <1>1, <1>3, <1>5, Refuse_Orderly DEF Parameters!VideoEncodeSetParameter,
       Parameters!StoreMetaData, Parameters!SetBitrate, Parameters!BaseSetParameter,
       Parameters!OtherVersion
  <1>6. CASE Parameters!Refuse(Parameters!InvalidState)
    BY <1>6, Refuse_Orderly DEF Parameters!InvalidState
  <1> QED BY <1>2, <1>4, <1>5, <1>6, WriteBack_Orderly
          DEF Parameters!SetParameter, Parameters!H264DecSetParameter,
              Parameters!Mpeg4DecSetParameter, Parameters!H264EncSetParameter,
              Parameters!Mpeg4EncSetParameter

LEMMA SetConfig_Orderly == Parameters!SetConfig => Parameters!Orderly
  BY DEF Parameters!SetConfig, Parameters!Orderly, Parameters!Refused, Parameters!settings, Parameters!BaseConfig,
         Parameters!H264DecSetConfig, Parameters!Mpeg4DecSetConfig, Parameters!H264EncSetConfig,
         Parameters!Mpeg4EncSetConfig

LEMMA Asks_Orderly ==
  ASSUME \/ \E p \in {"in", "out"} : Parameters!GetParameter(p)
         \/ Parameters!GetConfig
         \/ \E name \in Parameters!Names: Parameters!GetExtensionIndex(name)
         \/ \E n \in 1 .. 2: Parameters!ComponentRoleEnum(n)
  PROVE  Parameters!Orderly
  <1>1. UNCHANGED Parameters!settings
    BY DEF Parameters!GetParameter, Parameters!GetConfig, Parameters!GetExtensionIndex,
       Parameters!ComponentRoleEnum
  <1>2. ret' # "unsupportedSetting"
    BY DEF Parameters!GetParameter, Parameters!GetConfig, Parameters!GetExtensionIndex,
       Parameters!ComponentRoleEnum, Parameters!InvalidState, Parameters!BaseConfig,
       Parameters!H264DecGetConfig, Parameters!Mpeg4DecGetConfig, Parameters!H264EncGetConfig,
       Parameters!Mpeg4EncGetConfig
  <1> QED BY <1>1, <1>2 DEF Parameters!Orderly

\* A call of a client that is answered with an error has changed no setting on its way to
\* it, but for a definition a decoder refuses because of the format of its output port:
\* what that one leaves is the definition itself, and the picture of the output port.
THEOREM RefusalsChangeNothing == Parameters!Spec => RefusedChangesNothing
  <1>1. ParameterInv /\ [Parameters!Next]_(Parameters!vars) => [Parameters!Orderly]_(Parameters!vars)
    <2> SUFFICES ASSUME ParameterInv, Parameters!Next PROVE Parameters!Orderly
      OBVIOUS
    <2>1. CASE Parameters!Calls
      BY <2>1, SetParameter_Orderly, SetConfig_Orderly, Asks_Orderly
         DEF Parameters!Calls, Parameters!Ports
    <2>2. CASE ret' \in Plain
      BY <2>2, Plain_Orderly
    <2> QED BY <2>1, <2>2 DEF Parameters!Next, Parameters!ToIdle, Parameters!Run, Plain,
       Parameters!Stop, Parameters!ToLoaded, Parameters!Fail, Parameters!FirstFrame,
       Parameters!DisablePort, Parameters!EnablePort
  <1>2. RefusedChangesNothing <=> [][Parameters!Orderly]_(Parameters!vars)
    BY DEF RefusedChangesNothing, Parameters!RefusedChangesNothing
  <1> QED BY <1>1, <1>2, ParameterInit, ParameterStep, PTL DEF Parameters!Spec

-----------------------------------------------------------------------------
(* Components that share the codecs, none more important than another, whose  *)
(* clients do not let them wait for one.                                      *)

Resting == {"Idle", "Executing", "Pause"}
ClientCommand == [dest : Dests, sender : {"client"}]
Steps == {"idle", "refuse", "move", "get", "loaded", "init", "release", "unload", "unloaded",
          "invalidate", "terminate"}

ManagerTypes ==
  /\ componentList \in Seq(Components) /\ waitingList = <<>>
  /\ currentState \in [Components -> Resting \cup {"Loaded", "Invalid"}]
  /\ pc \in [Components -> Steps]
  /\ portState \in [Components -> Manager!States]
  /\ messageQ \in [Components -> Seq(ClientCommand)]
  /\ cmd \in [Components -> ClientCommand \cup {Manager!NoCommand}]
  /\ codec \in [Components -> BOOLEAN]

\* A component has at most one command: in its queue, or in the hand of its thread.
OneCommand(c) ==
  /\ pc[c] = "idle" => cmd[c] = Manager!NoCommand
  /\ pc[c] # "idle" => cmd[c] \in ClientCommand /\ messageQ[c] = <<>>
  /\ messageQ[c] = <<>> \/ Len(messageQ[c]) = 1

\* Where the thread is, the state it found is still the state of the component.
FollowsProgram(c) ==
  /\ pc[c] \in {"get", "loaded", "init"} => currentState[c] = "Loaded" /\ cmd[c].dest = "Idle"
  /\ pc[c] = "move" => currentState[c] \in Resting /\ cmd[c].dest \in Resting
  /\ pc[c] = "release" =>
       \/ currentState[c] = "Idle" /\ cmd[c].dest = "Loaded"
       \/ currentState[c] \in Resting /\ cmd[c].dest = "Invalid"
  /\ pc[c] \in {"unload", "unloaded"} => currentState[c] = "Idle"
  /\ pc[c] = "terminate" => currentState[c] = "Invalid"

\* An open codec has an entry until it is about to be closed, a resting component has one.
CodecEntered(c) ==
  /\ codec[c] => Manager!Listed(c) \/ pc[c] \in {"unload", "invalidate", "terminate"}
  /\ pc[c] \in {"loaded", "init"} => Manager!Listed(c)
  /\ currentState[c] \in Resting => codec[c] \/ pc[c] = "unloaded"

\* The ports are in Idle from the call that asks for Idle to the one that asks for the end of it.
Leaves(c, d) == (d = "Loaded" /\ currentState[c] = "Idle") \/ d = "Invalid"
PortsFollow(c) ==
  /\ currentState[c] \in Resting =>
       \/ portState[c] = "Idle"
       \/ pc[c] \in {"release", "unload", "unloaded", "invalidate"}
       \/ messageQ[c] # <<>> /\ Leaves(c, messageQ[c][1].dest)
  /\ pc[c] \in {"get", "loaded", "init"} => portState[c] = "Idle"
  /\ currentState[c] = "Loaded" /\ messageQ[c] # <<>> /\ messageQ[c][1].dest = "Idle" =>
       portState[c] = "Idle"

ComponentOK(c) == OneCommand(c) /\ FollowsProgram(c) /\ CodecEntered(c) /\ PortsFollow(c)
ManagerInv == ManagerTypes /\ \A c \in Components : ComponentOK(c)

LEMMA LeastNat ==
  ASSUME NEW T \in SUBSET Nat, T # {}
  PROVE  \E x \in T : \A y \in T : x <= y
  <1>1. PICK x \in T : \A y \in T : ~ (<<y, x>> \in OpToRel(<, Nat))
    BY NatLessThanWellFounded, WFMin
  <1>2. ASSUME NEW y \in T PROVE x <= y
    <2>1. ~(y < x)
      BY <1>1 DEF OpToRel
    <2> QED BY <2>1
  <1> QED BY <1>2

\* What removeElementList leaves.
LEMMA Removal ==
  ASSUME NEW list \in Seq(Components), NEW c \in Components
  PROVE  /\ Manager!Without(list, c) \in Seq(Components)
         /\ Len(Manager!Without(list, c)) <= Len(list)
         /\ Manager!Queued(list, c) => Len(Manager!Without(list, c)) < Len(list)
         /\ \A d \in Components \ {c} : Manager!Queued(list, d) => Manager!Queued(Manager!Without(list, c), d)
  <1>1. CASE ~Manager!Queued(list, c)
    BY <1>1 DEF Manager!Queued, Manager!Without
  <1>2. CASE Manager!Queued(list, c)
    <2> DEFINE T == {i \in 1 .. Len(list) : list[i] = c}
               k == Manager!FirstOf(list, c)
               front == SubSeq(list, 1, k - 1)
               back == SubSeq(list, k + 1, Len(list))
    <2>1. PICK x \in T : \A y \in T : x <= y
      <3>1. T # {} /\ T \subseteq Nat
        BY <1>2 DEF Manager!Queued
      <3> QED BY <3>1, LeastNat
    <2>2. list[x] = c /\ \A j \in 1 .. x - 1 : list[j] # c
      BY <2>1
    <2>3. k \in 1 .. Len(list) /\ list[k] = c
      <3> DEFINE P(i) == list[i] = c /\ \A j \in 1 .. i - 1 : list[j] # c
      <3>1. \E i \in DOMAIN list : P(i)
        BY <2>1, <2>2
      <3>2. k = CHOOSE i \in DOMAIN list : P(i)
        BY DEF Manager!FirstOf
      <3>3. k \in DOMAIN list /\ P(k)
        <4> HIDE DEF P, k
        <4> QED BY <3>1, <3>2, Zenon
      <3> QED BY <3>3
    <2>4. Manager!Without(list, c) = front \o back
      BY <1>2 DEF Manager!Queued, Manager!Without
    <2> HIDE DEF k
    <2>5. /\ front \in Seq(Components) /\ Len(front) = k - 1
          /\ \A i \in 1 .. k - 1 : front[i] = list[i]
      BY <2>3, SubSeqProperties, ElementOfSeq
    <2>6. /\ back \in Seq(Components) /\ Len(back) = Len(list) - k
          /\ \A i \in 1 .. Len(list) - k : back[i] = list[k + i]
      BY <2>3, SubSeqProperties, ElementOfSeq
    <2> HIDE DEF front, back
    <2>7. /\ front \o back \in Seq(Components)
          /\ Len(front \o back) = Len(list) - 1
          /\ \A i \in 1 .. Len(list) - 1 : (front \o back)[i] =
               IF i <= k - 1 THEN front[i] ELSE back[i - (k - 1)]
      <3>1. /\ front \o back \in Seq(Components)
            /\ Len(front \o back) = Len(front) + Len(back)
            /\ \A i \in 1 .. Len(front) + Len(back) : (front \o back)[i] =
                 IF i <= Len(front) THEN front[i] ELSE back[i - Len(front)]
        BY <2>5, <2>6, ConcatProperties, Zenon
      <3>2. Len(front) + Len(back) = Len(list) - 1
        BY <2>3, <2>5, <2>6
      <3> QED BY <3>1, <3>2, <2>5
    <2>8. ASSUME NEW d \in Components \ {c}, Manager!Queued(list, d)
          PROVE  Manager!Queued(front \o back, d)
      <3>1. PICK i \in 1 .. Len(list) : list[i] = d
        BY <2>8 DEF Manager!Queued
      <3>2. i # k
        BY <3>1, <2>3
      <3>3. CASE i < k
        <4>1. i \in 1 .. Len(list) - 1 /\ i <= k - 1 /\ i \in 1 .. k - 1
          BY <3>3, <2>3
        <4>2. (front \o back)[i] = d
          BY <4>1, <2>5, <2>7, <3>1
        <4>3. i \in DOMAIN (front \o back)
          BY <4>1, <2>7
        <4> QED BY <4>2, <4>3 DEF Manager!Queued
      <3>4. CASE i > k
        <4>1. /\ i - 1 \in 1 .. Len(list) - 1 /\ ~(i - 1 <= k - 1)
              /\ (i - 1) - (k - 1) = i - k /\ i - k \in 1 .. Len(list) - k
              /\ k + (i - k) = i
          BY <3>4, <2>3
        <4>2. (front \o back)[i - 1] = back[i - k]
          BY <4>1, <2>7
        <4>3. back[i - k] = d
          BY <4>1, <2>6, <3>1
        <4>4. i - 1 \in DOMAIN (front \o back)
          BY <4>1, <2>7
        <4> QED BY <4>2, <4>3, <4>4 DEF Manager!Queued
      <3> QED BY <3>2, <3>3, <3>4, <2>3
    <2> QED BY <1>2, <2>3, <2>4, <2>7, <2>8
  <1> QED BY <1>1, <1>2

LEMMA ManagerInit == Manager!Init => ManagerInv
  BY DEF Manager!Init, ManagerInv, ManagerTypes, ComponentOK, OneCommand, FollowsProgram,
         CodecEntered, PortsFollow, Resting, Steps, Manager!States, ClientCommand

\* A step of one component that takes nobody else from the list.
LEMMA Alone ==
  ASSUME ManagerInv, NEW c \in Components, ManagerTypes', ComponentOK(c)',
         \A d \in Components \ {c} :
           /\ currentState'[d] = currentState[d] /\ portState'[d] = portState[d]
           /\ messageQ'[d] = messageQ[d] /\ cmd'[d] = cmd[d]
           /\ pc'[d] = pc[d] /\ codec'[d] = codec[d]
           /\ Manager!Listed(d) => Manager!Listed(d)'
  PROVE  ManagerInv'
  <1>1. ASSUME NEW d \in Components \ {c} PROVE ComponentOK(d)'
    <2>1. ComponentOK(d)
      BY DEF ManagerInv
    <2> QED BY <2>1 DEF ComponentOK, OneCommand, FollowsProgram, CodecEntered, PortsFollow, Leaves
  <1> QED BY <1>1 DEF ManagerInv

\* One that leaves the list alone.
LEMMA OffList ==
  ASSUME ManagerInv, NEW c \in Components, ManagerTypes',
         componentList' = componentList,
         Manager!Listed(c)' = Manager!Listed(c) => ComponentOK(c)',
         \A d \in Components \ {c} :
           /\ currentState'[d] = currentState[d] /\ portState'[d] = portState[d]
           /\ messageQ'[d] = messageQ[d] /\ cmd'[d] = cmd[d]
           /\ pc'[d] = pc[d] /\ codec'[d] = codec[d]
  PROVE  ManagerInv'
  <1>1. \A d \in Components : Manager!Listed(d)' = Manager!Listed(d)
    BY DEF Manager!Listed
  <1>2. ComponentOK(c)'
    BY <1>1
  <1> QED BY <1>1, <1>2, Alone

LEMMA Send_Inv ==
  ASSUME ManagerInv, NEW c \in Components, NEW d \in Dests, Dests \subseteq Manager!States,
         Manager!Send(c, d)
  PROVE  ManagerInv'
  <1> DEFINE m == Manager!Command(d, "client")
  <1>1. m \in ClientCommand /\ m.dest = d /\ m.sender = "client"
    BY DEF Manager!Command, ClientCommand
  <1>2. ManagerTypes /\ ComponentOK(c)
    BY DEF ManagerInv
  <1>3. pc[c] = "idle" /\ messageQ[c] = <<>> /\ cmd[c] = Manager!NoCommand
    <2>1. cmd[c] \notin ClientCommand
      BY DEF Manager!Send, ClientCommand
    <2>2. messageQ[c] = <<>>
      <3>1. CASE Len(messageQ[c]) = 1
        <4>0. messageQ[c] \in Seq(ClientCommand)
          BY <1>2 DEF ManagerTypes
        <4>1. 1 \in DOMAIN messageQ[c] /\ messageQ[c][1] \in ClientCommand
          BY <3>1, <4>0, ElementOfSeq
        <4> QED BY <4>1 DEF Manager!Send, ClientCommand
      <3> QED BY <1>2, <3>1 DEF ComponentOK, OneCommand
    <2> QED BY <1>2, <2>1, <2>2 DEF ComponentOK, OneCommand, ManagerTypes
  <1>4. /\ messageQ' = [messageQ EXCEPT ![c] = <<m>>]
        /\ portState' = [portState EXCEPT ![c] = Manager!PortStateAfter(c, d)]
        /\ currentState[c] # "Invalid" /\ currentState[c] # d
    <2>1. Append(<<>>, m) = <<m>>
      OBVIOUS
    <2> QED BY <1>1, <1>2, <1>3, <2>1 DEF Manager!Send, Manager!SendCommand, ManagerTypes
  <1>5. /\ componentList' = componentList /\ waitingList' = waitingList
        /\ currentState' = currentState /\ pc' = pc /\ cmd' = cmd /\ codec' = codec
    BY DEF Manager!Send, Manager!listVars
  <1>6. /\ Manager!PortStateAfter(c, d) \in Manager!States
        /\ d = "Idle" /\ currentState[c] = "Loaded" => Manager!PortStateAfter(c, d) = "Idle"
        /\ currentState[c] \in Resting =>
             Manager!PortStateAfter(c, d) = portState[c] \/ Leaves(c, d)
    BY <1>2 DEF Manager!PortStateAfter, ManagerTypes, Manager!States, Leaves, Resting
  <1>7. <<m>> \in Seq(ClientCommand) /\ Len(<<m>>) = 1 /\ <<m>>[1] = m /\ <<m>> # <<>>
    BY <1>1
  <1> DEFINE q == <<m>>
             o == Manager!PortStateAfter(c, d)
  <1>8. /\ ManagerTypes' /\ messageQ'[c] = q /\ portState'[c] = o
        /\ \A e \in Components \ {c} : messageQ'[e] = messageQ[e] /\ portState'[e] = portState[e]
    <2> HIDE DEF q, o, m
    <2> QED BY <1>2, <1>4, <1>5, <1>6, <1>7 DEF ManagerTypes, q, o
  <1> HIDE DEF q, o, m
  <1>9. ASSUME Manager!Listed(c)' = Manager!Listed(c) PROVE ComponentOK(c)'
    <2>1. OneCommand(c)'
      BY <1>2, <1>3, <1>5, <1>7, <1>8 DEF ComponentOK, OneCommand, q
    <2>2. FollowsProgram(c)'
      BY <1>2, <1>5 DEF ComponentOK, FollowsProgram
    <2>3. CodecEntered(c)'
      BY <1>2, <1>5, <1>9 DEF ComponentOK, CodecEntered
    <2>4. PortsFollow(c)'
      <3>1. messageQ'[c] # <<>> /\ messageQ'[c][1].dest = d
        BY <1>1, <1>7, <1>8 DEF q
      <3>2. currentState[c] \in Resting => portState[c] = "Idle"
        BY <1>2, <1>3 DEF ComponentOK, PortsFollow
      <3> QED BY <1>3, <1>5, <1>6, <1>8, <3>1, <3>2 DEF PortsFollow, Leaves, o
    <2> QED BY <2>1, <2>2, <2>3, <2>4 DEF ComponentOK
  <1> QED BY <1>5, <1>8, <1>9, OffList

LEMMA Buffers_Inv ==
  ASSUME ManagerInv, NEW c \in Components, Manager!UseBuffers(c) \/ Manager!FreeBuffers(c)
  PROVE  ManagerInv'
  BY DEF Manager!UseBuffers, Manager!FreeBuffers, Manager!listVars, ManagerInv, ManagerTypes,
         ComponentOK, OneCommand, FollowsProgram, CodecEntered, PortsFollow, Leaves, Manager!Listed

\* What the first step of a command tells of the state and the command.
LEMMA FirstSteps ==
  ASSUME "WaitForResources" \notin Dests, Dests \subseteq Manager!States,
         NEW s \in Resting \cup {"Loaded", "Invalid"}, NEW d \in Dests, NEW l,
         l = Manager!FirstStep(s, d)
  PROVE  /\ l \in {"get", "move", "release", "invalidate", "refuse"}
         /\ l = "get" => s = "Loaded" /\ d = "Idle"
         /\ l = "move" => s \in Resting /\ d \in Resting
         /\ l = "release" => (s = "Idle" /\ d = "Loaded") \/ (s \in Resting /\ d = "Invalid")
         /\ s = "Idle" /\ d = "Loaded" => l = "release"
         /\ s \in Resting /\ d = "Invalid" => l = "release"
  <1>1. CASE <<s, d>> \in Manager!Moves
    <2>1. s \in Resting /\ d \in Resting
      BY <1>1 DEF Manager!Moves, Resting
    <2>2. /\ ~(s = "Loaded" /\ d = "Idle") /\ ~(s = "Idle" /\ d = "Loaded")
          /\ d # "Invalid" /\ s # "Loaded" /\ s # "WaitForResources"
      BY <2>1 DEF Resting
    <2>3. l = "move"
      BY <1>1, <2>2 DEF Manager!FirstStep
    <2> QED BY <2>1, <2>2, <2>3
  <1>2. CASE <<s, d>> \notin Manager!Moves
    BY <1>2 DEF Manager!FirstStep, Resting, Manager!States
  <1> QED BY <1>1, <1>2

LEMMA TakeCommand_Inv ==
  ASSUME ManagerInv, NEW c \in Components, "WaitForResources" \notin Dests,
         Dests \subseteq Manager!States, Manager!TakeCommand(c)
  PROVE  ManagerInv'
  <1> DEFINE m == Head(messageQ[c])
             l == Manager!FirstStep(currentState[c], m.dest)
  <1>1. ManagerTypes /\ ComponentOK(c)
    BY DEF ManagerInv
  <1>2. /\ pc[c] = "idle" /\ messageQ[c] # <<>> /\ messageQ[c] \in Seq(ClientCommand)
        /\ Len(messageQ[c]) = 1
    BY <1>1 DEF Manager!TakeCommand, ManagerTypes, ComponentOK, OneCommand
  <1>3. m = messageQ[c][1] /\ m \in ClientCommand /\ Tail(messageQ[c]) = <<>>
    <2>1. \A i \in 1 .. Len(messageQ[c]) : messageQ[c][i] \in ClientCommand
      BY <1>2, ElementOfSeq
    <2>2. Tail(messageQ[c]) \in Seq(ClientCommand) /\ Len(Tail(messageQ[c])) = 0
      BY <1>2, HeadTailProperties
    <2>3. Tail(messageQ[c]) = <<>>
      BY <2>2, EmptySeq
    <2> QED BY <1>2, <2>1, <2>3
  <1>4. /\ cmd' = [cmd EXCEPT ![c] = m] /\ messageQ' = [messageQ EXCEPT ![c] = <<>>]
        /\ pc' = [pc EXCEPT ![c] = l]
    BY <1>1, <1>3 DEF Manager!TakeCommand, Manager!Goto, ManagerTypes
  <1>5. /\ componentList' = componentList /\ waitingList' = waitingList
        /\ currentState' = currentState /\ portState' = portState /\ codec' = codec
    BY DEF Manager!TakeCommand, Manager!listVars
  <1>6. m.dest \in Dests /\ currentState[c] \in Resting \cup {"Loaded", "Invalid"}
    BY <1>1, <1>3 DEF ClientCommand, ManagerTypes
  <1>7. /\ l \in {"get", "move", "release", "invalidate", "refuse"}
        /\ l = "get" => currentState[c] = "Loaded" /\ m.dest = "Idle"
        /\ l = "move" => currentState[c] \in Resting /\ m.dest \in Resting
        /\ l = "release" => \/ currentState[c] = "Idle" /\ m.dest = "Loaded"
                            \/ currentState[c] \in Resting /\ m.dest = "Invalid"
        /\ currentState[c] = "Idle" /\ m.dest = "Loaded" => l = "release"
        /\ currentState[c] \in Resting /\ m.dest = "Invalid" => l = "release"
    <2>1. l = Manager!FirstStep(currentState[c], m.dest)
      OBVIOUS
    <2> HIDE DEF m, l
    <2> QED BY <1>6, <2>1, FirstSteps
  <1> HIDE DEF m, l
  <1>8. /\ ManagerTypes' /\ cmd'[c] = m /\ messageQ'[c] = <<>> /\ pc'[c] = l
        /\ \A d \in Components \ {c} :
             cmd'[d] = cmd[d] /\ messageQ'[d] = messageQ[d] /\ pc'[d] = pc[d]
    BY <1>1, <1>3, <1>4, <1>5, <1>7, SMTT(30) DEF ManagerTypes, Steps
  <1>9. ASSUME Manager!Listed(c)' = Manager!Listed(c) PROVE ComponentOK(c)'
    <2>1. OneCommand(c)'
      BY <1>3, <1>7, <1>8 DEF OneCommand
    <2>2. FollowsProgram(c)'
      BY <1>5, <1>7, <1>8 DEF FollowsProgram
    <2>3. CodecEntered(c)'
      BY <1>1, <1>2, <1>5, <1>7, <1>8, <1>9 DEF ComponentOK, CodecEntered
    <2>4. PortsFollow(c)'
      BY <1>1, <1>2, <1>3, <1>5, <1>7, <1>8 DEF ComponentOK, PortsFollow, Leaves
    <2> QED BY <2>1, <2>2, <2>3, <2>4 DEF ComponentOK
  <1> QED BY <1>5, <1>8, <1>9, OffList

\* The steps of a command that touch neither the list nor the queue.
LEMMA Program_Inv ==
  ASSUME ManagerInv, NEW c \in Components,
         NEW s \in Resting \cup {"Loaded", "Invalid"}, NEW l \in Steps, NEW b \in BOOLEAN,
         currentState' = [currentState EXCEPT ![c] = s],
         pc' = [pc EXCEPT ![c] = l],
         cmd' = IF l = "idle" THEN [cmd EXCEPT ![c] = Manager!NoCommand] ELSE cmd,
         codec' = [codec EXCEPT ![c] = b],
         Manager!listVars' = Manager!listVars, portState' = portState, messageQ' = messageQ,
         pc[c] # "idle",
         l \in {"idle", "init", "unloaded", "terminate"},
         l = "init" => pc[c] = "loaded" /\ s = currentState[c] /\ b = codec[c],
         l = "unloaded" => pc[c] = "unload" /\ s = "Idle",
         l = "terminate" => s = "Invalid",
         b => Manager!Listed(c) \/ l = "terminate",
         s \in Resting => b \/ l = "unloaded",
         s \in Resting => portState[c] = "Idle" \/ l = "unloaded"
  PROVE  ManagerInv'
  <1>1. ManagerTypes /\ ComponentOK(c)
    BY DEF ManagerInv
  <1>2. /\ ManagerTypes' /\ currentState'[c] = s /\ pc'[c] = l /\ codec'[c] = b
        /\ cmd'[c] = IF l = "idle" THEN Manager!NoCommand ELSE cmd[c]
        /\ \A d \in Components \ {c} :
             /\ currentState'[d] = currentState[d] /\ pc'[d] = pc[d]
             /\ codec'[d] = codec[d] /\ cmd'[d] = cmd[d]
    BY <1>1 DEF ManagerTypes, Manager!listVars
  <1>3. messageQ[c] = <<>> /\ cmd[c] \in ClientCommand
    BY <1>1 DEF ComponentOK, OneCommand
  <1>4. ASSUME Manager!Listed(c)' = Manager!Listed(c) PROVE ComponentOK(c)'
    <2>1. OneCommand(c)'
      BY <1>2, <1>3 DEF OneCommand
    <2>2. FollowsProgram(c)'
      BY <1>1, <1>2 DEF ComponentOK, FollowsProgram
    <2>3. CodecEntered(c)'
      BY <1>1, <1>2, <1>4 DEF ComponentOK, CodecEntered
    <2>4. PortsFollow(c)'
      BY <1>1, <1>2, <1>3 DEF ComponentOK, PortsFollow
    <2> QED BY <2>1, <2>2, <2>3, <2>4 DEF ComponentOK
  <1> QED BY <1>2, <1>4, OffList DEF Manager!listVars

LEMMA Thread_Inv ==
  ASSUME ManagerInv, NEW c \in Components,
         \/ Manager!Refuse(c) \/ Manager!Move(c) \/ Manager!GetRefused(c) \/ Manager!WaitLoaded(c)
         \/ \E r \in InitResults : Manager!CodecInit(c, r)
         \/ Manager!Unload(c) \/ Manager!WaitUnloaded(c)
         \/ Manager!Invalidate(c) \/ Manager!Terminate(c)
  PROVE  ManagerInv'
  <1> USE DEF Manager!Finish, Manager!Goto, Manager!SetState
  <1>1. ManagerTypes /\ ComponentOK(c)
    BY DEF ManagerInv
  <1>2. /\ currentState[c] \in Resting \cup {"Loaded", "Invalid"} /\ codec[c] \in BOOLEAN
        /\ currentState = [currentState EXCEPT ![c] = currentState[c]]
        /\ codec = [codec EXCEPT ![c] = codec[c]]
    BY <1>1 DEF ManagerTypes
  <1>3. /\ "idle" \in Steps /\ "init" \in Steps /\ "unloaded" \in Steps /\ "terminate" \in Steps
        /\ Resting = {"Idle", "Executing", "Pause"}
    BY DEF Steps, Resting
  <1>4. /\ pc[c] \in {"refuse", "get", "move", "loaded", "init", "terminate"} /\ codec[c] =>
             Manager!Listed(c) \/ pc[c] = "terminate"
        /\ currentState[c] \in Resting /\ pc[c] # "unloaded" => codec[c]
        /\ currentState[c] \in Resting /\ pc[c] \in {"refuse", "get", "move", "loaded", "init"} =>
             portState[c] = "Idle"
        /\ pc[c] = "init" => portState[c] = "Idle" /\ Manager!Listed(c) /\ currentState[c] = "Loaded"
        /\ pc[c] = "loaded" => currentState[c] = "Loaded" /\ Manager!Listed(c)
        /\ pc[c] = "get" => currentState[c] = "Loaded"
        /\ pc[c] = "move" => currentState[c] \in Resting /\ cmd[c].dest \in Resting
        /\ pc[c] = "unload" => currentState[c] = "Idle"
        /\ pc[c] = "terminate" => currentState[c] = "Invalid"
    BY <1>1 DEF ComponentOK, OneCommand, FollowsProgram, CodecEntered, PortsFollow
  <1>5. CASE Manager!Refuse(c) \/ Manager!GetRefused(c)
    BY <1>2, <1>3, <1>4, <1>5, Program_Inv DEF Manager!Refuse, Manager!GetRefused
  <1>6. CASE Manager!Move(c)
    BY <1>2, <1>3, <1>4, <1>6, Program_Inv DEF Manager!Move
  <1>7. CASE Manager!WaitLoaded(c)
    BY <1>2, <1>3, <1>4, <1>7, Program_Inv DEF Manager!WaitLoaded
  <1>8. ASSUME NEW r \in InitResults, Manager!CodecInit(c, r) PROVE ManagerInv'
    <2> DEFINE b == codec[c] \/ r # "noCodec"
               s == IF r = "ok" THEN "Idle" ELSE currentState[c]
    <2>1. /\ codec' = [codec EXCEPT ![c] = b] /\ currentState' = [currentState EXCEPT ![c] = s]
          /\ b \in BOOLEAN /\ s \in Resting \cup {"Loaded", "Invalid"} /\ (s \in Resting => b)
      BY <1>2, <1>3, <1>4, <1>8 DEF Manager!CodecInit
    <2> HIDE DEF b, s
    <2> QED BY <1>3, <1>4, <1>8, <2>1, Program_Inv DEF Manager!CodecInit
  <1>9. CASE Manager!Unload(c)
    BY <1>2, <1>3, <1>4, <1>9, Program_Inv DEF Manager!Unload
  <1>10. CASE Manager!WaitUnloaded(c)
    <2>1. codec[c] => Manager!Listed(c)
      BY <1>1, <1>10 DEF Manager!WaitUnloaded, ComponentOK, CodecEntered
    <2> QED BY <1>2, <1>3, <1>4, <1>10, <2>1, Program_Inv DEF Manager!WaitUnloaded
  <1>11. CASE Manager!Invalidate(c)
    BY <1>2, <1>3, <1>4, <1>11, Program_Inv DEF Manager!Invalidate
  <1>12. CASE Manager!Terminate(c)
    BY <1>2, <1>3, <1>4, <1>12, Program_Inv DEF Manager!Terminate
  <1> QED BY <1>5, <1>6, <1>7, <1>8, <1>9, <1>10, <1>11, <1>12

LEMMA GetFree_Inv ==
  ASSUME ManagerInv, NEW c \in Components, Manager!GetFree(c)
  PROVE  ManagerInv'
  <1>1. ManagerTypes /\ ComponentOK(c)
    BY DEF ManagerInv
  <1>2. /\ componentList' = Append(componentList, c) /\ waitingList' = waitingList
        /\ currentState' = currentState /\ portState' = portState /\ codec' = codec
        /\ messageQ' = messageQ /\ cmd' = cmd /\ pc[c] = "get"
        /\ pc' = [pc EXCEPT ![c] = "loaded"]
    BY DEF Manager!GetFree, Manager!Goto
  <1>3. /\ componentList' \in Seq(Components) /\ Len(componentList') = Len(componentList) + 1
        /\ \A i \in 1 .. Len(componentList) : componentList'[i] = componentList[i]
        /\ componentList'[Len(componentList) + 1] = c /\ Len(componentList) \in Nat
    BY <1>1, <1>2, AppendProperties DEF ManagerTypes
  <1>4. Manager!Listed(c)'
    <2>1. Len(componentList) + 1 \in DOMAIN componentList'
      BY <1>3
    <2> QED BY <1>3, <2>1 DEF Manager!Listed
  <1>5. ASSUME NEW d \in Components, Manager!Listed(d) PROVE Manager!Listed(d)'
    <2>1. PICK i \in 1 .. Len(componentList) : componentList[i] = d
      BY <1>1, <1>5 DEF Manager!Listed, ManagerTypes
    <2>2. i \in DOMAIN componentList' /\ componentList'[i] = d
      BY <1>3, <2>1
    <2> QED BY <2>2 DEF Manager!Listed
  <1>6. /\ ManagerTypes' /\ pc'[c] = "loaded" /\ \A d \in Components \ {c} : pc'[d] = pc[d]
    BY <1>1, <1>2, <1>3 DEF ManagerTypes, Steps
  <1>7. ComponentOK(c)'
    BY <1>1, <1>2, <1>4, <1>6 DEF ComponentOK, OneCommand, FollowsProgram, CodecEntered,
       PortsFollow, Resting
  <1> QED BY <1>2, <1>5, <1>6, <1>7, Alone

LEMMA Release_Inv ==
  ASSUME ManagerInv, NEW c \in Components, Manager!Release(c)
  PROVE  ManagerInv'
  <1>1. ManagerTypes /\ ComponentOK(c)
    BY DEF ManagerInv
  <1> DEFINE l == Manager!AfterRelease(c)
  <1>2. /\ componentList' = Manager!Without(componentList, c) /\ waitingList' = waitingList
        /\ currentState' = currentState /\ portState' = portState /\ codec' = codec
        /\ messageQ' = messageQ /\ cmd' = cmd /\ pc[c] = "release"
        /\ pc' = [pc EXCEPT ![c] = l]
    BY <1>1 DEF Manager!Release, Manager!Goto, ManagerTypes
  <1>3. componentList' \in Seq(Components)
    BY <1>1, <1>2, Removal DEF ManagerTypes
  <1>5. ASSUME NEW d \in Components \ {c}, Manager!Listed(d) PROVE Manager!Listed(d)'
    <2>1. Manager!Queued(componentList, d)
      BY <1>5 DEF Manager!Listed, Manager!Queued
    <2>2. Manager!Queued(componentList', d)
      BY <1>1, <1>2, <2>1, Removal DEF ManagerTypes
    <2> QED BY <2>2 DEF Manager!Listed, Manager!Queued
  <1>4. /\ l \in {"unload", "invalidate"}
        /\ l = "unload" => currentState[c] = "Idle"
    BY <1>1, <1>2 DEF Manager!AfterRelease, ComponentOK, FollowsProgram
  <1> HIDE DEF l
  <1>6. /\ ManagerTypes' /\ pc'[c] = l /\ \A d \in Components \ {c} : pc'[d] = pc[d]
    BY <1>1, <1>2, <1>3, <1>4 DEF ManagerTypes, Steps
  <1>7. ComponentOK(c)'
    BY <1>1, <1>2, <1>4, <1>6 DEF ComponentOK, OneCommand, FollowsProgram, CodecEntered,
       PortsFollow
  <1> QED BY <1>2, <1>5, <1>6, <1>7, Alone

LEMMA ManagerStep ==
  ASSUME "WaitForResources" \notin Dests, Dests \subseteq Manager!States,
         ManagerInv, [Manager!Next]_(Manager!vars)
  PROVE  ManagerInv'
  <1>1. ASSUME NEW c \in Components, Manager!Get(c) PROVE ManagerInv'
    <2>1. Manager!LessImportant(c) = {} /\ pc[c] # "preempt"
      <3>1. \A i \in DOMAIN componentList : componentList[i] \in Components
        BY ElementOfSeq DEF ManagerInv, ManagerTypes
      <3>2. Manager!LessImportant(c) = {}
        BY <3>1 DEF Manager!LessImportant
      <3>3. pc[c] # "preempt"
        BY DEF ManagerInv, ManagerTypes, Steps
      <3> QED BY <3>2, <3>3
    <2> QED BY <1>1, <2>1, GetFree_Inv, Thread_Inv
            DEF Manager!Get, Manager!PreemptSilently, Manager!PreemptTell, Manager!PreemptSend
  <1>2. ASSUME NEW c \in Components, Manager!Waiting(c) PROVE ManagerInv'
    BY <1>2 DEF Manager!Waiting, Manager!InWait, Manager!OutWait, Manager!SetWaiting,
       ManagerInv, ManagerTypes, Steps
  <1>3. ASSUME NEW c \in Components, Manager!Handler(c) PROVE ManagerInv'
    BY <1>1, <1>2, <1>3, TakeCommand_Inv, Thread_Inv, Release_Inv
       DEF Manager!Handler, Manager!Acquire, Manager!GiveUp
  <1>4. ASSUME NEW c \in Components, Manager!Client(c) PROVE ManagerInv'
    BY <1>4, Send_Inv, Buffers_Inv DEF Manager!Client
  <1>5. CASE UNCHANGED Manager!vars
    BY <1>5 DEF Manager!vars, Manager!listVars, ManagerInv, ManagerTypes, ComponentOK,
       OneCommand, FollowsProgram, CodecEntered, PortsFollow, Leaves, Manager!Listed
  <1> QED BY <1>3, <1>4, <1>5 DEF Manager!Next

LEMMA Accounts == ManagerInv => CodecsAccountedFor
  <1> SUFFICES ASSUME ManagerInv PROVE CodecsAccountedFor
    OBVIOUS
  <1>1. \A c \in Components : ComponentOK(c)
    BY DEF ManagerInv
  <1>2. Manager!CodecHasEntry /\ Manager!IdleHasCodec /\ Manager!PortsFollowState
    BY <1>1 DEF Manager!CodecHasEntry, Manager!IdleHasCodec, Manager!PortsFollowState,
       Manager!Quiet, ComponentOK, CodecEntered, PortsFollow, Resting
  <1> QED BY <1>2 DEF CodecsAccountedFor

\* Components that are equally important, in any number, with any number of codecs and any
\* failures: while no client lets a component wait for a codec, an open codec has an entry
\* in the manager's list, a component at rest in Idle or beyond has a codec, and the ports
\* of one that executes are in Idle.
THEOREM CodecsAccounted ==
  "WaitForResources" \notin Dests => (Manager!Spec => []CodecsAccountedFor)
  <1> SUFFICES ASSUME "WaitForResources" \notin Dests
               PROVE  Manager!Spec => []CodecsAccountedFor
    OBVIOUS
  <1>1. ManagerInv /\ [Manager!Next]_(Manager!vars) => ManagerInv'
    BY ManagerStep, CallsAssumption
  <1> QED BY <1>1, ManagerInit, Accounts, PTL DEF Manager!Spec

-----------------------------------------------------------------------------
(* The ring of a queue.                                                      *)

\* TypeOK and RingInv are inductive together: the pointers alone say which
\* elements hold data.
IInv == TypeOK /\ RingInv

USE QueueAssumption DEF NodeCount, Nodes

LEMMA NextNode == ASSUME NEW i \in Nodes
                  PROVE  /\ qNext[i] \in Nodes
                         /\ i # NodeCount - 1 => qNext[i] = i + 1
                         /\ i = NodeCount - 1 => qNext[i] = 0
  BY DEF qNext

LEMMA InitInv == Init => IInv
  BY DEF Init, QueueCreate, IInv, TypeOK, RingInv, InWindow, Occupied

LEMMA StepInv == IInv /\ [Next]_vars => IInv'
  <1> SUFFICES ASSUME IInv, [Next]_vars PROVE IInv'
    OBVIOUS
  <1> USE DEF IInv
  <1>1. ASSUME NEW v \in Data, Queue(v) PROVE IInv'
    <2>1. TypeOK'
      BY <1>1, NextNode DEF TypeOK, Queue, Full, RingInv, Occupied, InWindow
    <2>2. (\A i \in Nodes : data[i] # NoData <=> InWindow(i))'
      BY <1>1, NextNode DEF TypeOK, RingInv, Queue, Full, InWindow
    <2>3. (numElem <= Occupied)'
      BY <1>1, NextNode DEF TypeOK, RingInv, Queue, Full, InWindow, Occupied
    <2> QED BY <2>1, <2>2, <2>3 DEF RingInv
  <1>2. CASE QueueRefused
    BY <1>2 DEF QueueRefused, TypeOK, RingInv, InWindow, Occupied
  <1>3. CASE Dequeue
    <2>1. TypeOK'
      BY <1>3, NextNode DEF TypeOK, Dequeue, Empty
    <2>2. (\A i \in Nodes : data[i] # NoData <=> InWindow(i))'
      BY <1>3, NextNode DEF TypeOK, RingInv, Dequeue, Empty, InWindow
    <2>3. (numElem <= Occupied)'
      BY <1>3, NextNode DEF TypeOK, RingInv, Dequeue, Empty, InWindow, Occupied
    <2> QED BY <2>1, <2>2, <2>3 DEF RingInv
  <1>4. CASE DequeueNothing
    BY <1>4 DEF DequeueNothing, TypeOK, RingInv, InWindow, Occupied
  <1>5. ASSUME NEW n \in SettableCounts, SetElemNum(n) PROVE IInv'
    BY <1>5 DEF SetElemNum, TypeOK, RingInv, InWindow, Occupied
  <1>6. CASE UNCHANGED vars
    BY <1>6 DEF vars, TypeOK, RingInv, InWindow, Occupied
  <1> QED BY <1>1, <1>2, <1>3, <1>4, <1>5, <1>6 DEF Next

\* The elements between the read and the write pointer, and only they, hold
\* data, and the counter never exceeds their number.
THEOREM RingInvariant == Spec => [](TypeOK /\ RingInv)
  BY InitInv, StepInv, PTL DEF Spec, IInv

-----------------------------------------------------------------------------
\* What one call does to the number of occupied elements.
LEMMA QueueOccupies ==
  ASSUME IInv, NEW v \in Data, Queue(v)
  PROVE  Occupied < NodeCount /\ Occupied' = Occupied + 1
  <1>1. /\ first' = first /\ first \in Nodes /\ last \in Nodes /\ last' \in Nodes
        /\ last # NodeCount - 1 => last' = last + 1
        /\ last = NodeCount - 1 => last' = 0
        /\ data[last] = NoData
    BY NextNode DEF IInv, TypeOK, Queue, Full
  <1>2. data'[first] # NoData <=> (first = last \/ data[first] # NoData)
    BY DEF IInv, TypeOK, Queue
  <1>3. first < last => data[first] # NoData
    BY <1>1 DEF IInv, RingInv, InWindow
  <1>4. first > last => data[first] # NoData
    BY <1>1 DEF IInv, RingInv, InWindow
  <1>5. CASE first < last
    <2>1. Occupied = last - first /\ data'[first'] # NoData
      BY <1>1, <1>2, <1>3, <1>5 DEF Occupied
    <2>2. CASE last # NodeCount - 1
      BY <1>1, <1>5, <2>1, <2>2 DEF Occupied
    <2>3. CASE last = NodeCount - 1 /\ first > 0
      BY <1>1, <1>5, <2>1, <2>3 DEF Occupied
    <2>4. CASE last = NodeCount - 1 /\ first = 0
      BY <1>1, <1>5, <2>1, <2>4 DEF Occupied
    <2> QED BY <1>1, <2>2, <2>3, <2>4
  <1>6. CASE first > last
    <2>1. Occupied = NodeCount - first + last /\ data'[first'] # NoData
      BY <1>1, <1>2, <1>4, <1>6 DEF Occupied
    <2>2. last' = last + 1
      BY <1>1, <1>6
    <2>3. CASE first > last + 1
      BY <1>1, <1>6, <2>1, <2>2, <2>3 DEF Occupied
    <2>4. CASE first = last + 1
      BY <1>1, <1>6, <2>1, <2>2, <2>4 DEF Occupied
    <2> QED BY <1>1, <1>6, <2>3, <2>4
  <1>7. CASE first = last
    <2>1. Occupied = 0
      BY <1>1, <1>7 DEF Occupied
    <2>2. data'[first'] # NoData
      BY <1>1, <1>2, <1>7
    <2>3. CASE last = NodeCount - 1
      BY <1>1, <1>7, <2>1, <2>2, <2>3 DEF Occupied
    <2>4. CASE last # NodeCount - 1
      BY <1>1, <1>7, <2>1, <2>4 DEF Occupied
    <2> QED BY <2>3, <2>4
  <1> QED BY <1>1, <1>5, <1>6, <1>7

LEMMA DequeueVacates ==
  ASSUME IInv, Dequeue
  PROVE  Occupied > 0 /\ Occupied' = Occupied - 1
  <1>1. /\ last' = last /\ first \in Nodes /\ last \in Nodes /\ first' \in Nodes
        /\ first # NodeCount - 1 => first' = first + 1
        /\ first = NodeCount - 1 => first' = 0
        /\ data[first] # NoData
        /\ data' = [data EXCEPT ![first] = NoData]
    BY NextNode DEF IInv, TypeOK, Dequeue, Empty
  <1>2. data'[first'] # NoData <=> (first' # first /\ data[first'] # NoData)
    BY <1>1 DEF IInv, TypeOK
  <1>3. data[first'] # NoData <=> InWindow(first')
    BY <1>1 DEF IInv, RingInv
  <1>4. CASE first < last
    <2>1. first' = first + 1 /\ Occupied = last - first
      BY <1>1, <1>4 DEF Occupied
    <2>2. CASE first' < last
      BY <1>1, <1>4, <2>1, <2>2 DEF Occupied
    <2>3. CASE first' = last
      <3>1. data'[first'] = NoData
        BY <1>1, <1>2, <1>3, <1>4, <2>1, <2>3 DEF InWindow
      <3> QED BY <1>1, <2>1, <2>3, <3>1 DEF Occupied
    <2> QED BY <1>1, <1>4, <2>1, <2>2, <2>3
  <1>5. CASE first > last
    <2>1. Occupied = NodeCount - first + last
      BY <1>1, <1>5 DEF Occupied
    <2>2. CASE first # NodeCount - 1
      BY <1>1, <1>5, <2>1, <2>2 DEF Occupied
    <2>3. CASE first = NodeCount - 1 /\ last > 0
      BY <1>1, <1>5, <2>1, <2>3 DEF Occupied
    <2>4. CASE first = NodeCount - 1 /\ last = 0
      <3>1. data'[first'] = NoData
        BY <1>1, <1>2, <1>3, <1>5, <2>4 DEF InWindow
      <3> QED BY <1>1, <2>1, <2>4, <3>1 DEF Occupied
    <2> QED BY <1>1, <2>2, <2>3, <2>4
  <1>6. CASE first = last
    <2>1. Occupied = NodeCount
      BY <1>1, <1>6 DEF Occupied
    <2>2. CASE NodeCount = 1
      <3>1. first' = first /\ data'[first'] = NoData
        BY <1>1, <1>2, <2>2
      <3> QED BY <1>1, <1>6, <2>1, <2>2, <3>1 DEF Occupied
    <2>3. CASE NodeCount > 1 /\ first = NodeCount - 1
      BY <1>1, <1>6, <2>1, <2>3 DEF Occupied
    <2>4. CASE NodeCount > 1 /\ first # NodeCount - 1
      BY <1>1, <1>6, <2>1, <2>4 DEF Occupied
    <2> QED BY <2>2, <2>3, <2>4
  <1> QED BY <1>1, <1>4, <1>5, <1>6

\* With nobody overwriting it, the counter is the number of queued pointers.
THEOREM CounterExact == Spec => []CountExact
  <1>1. Init => CountExact
    BY DEF Init, QueueCreate, CountExact, Occupied
  <1>2. IInv /\ CountExact /\ [Next]_vars => CountExact'
    <2> SUFFICES ASSUME IInv, CountExact, [Next]_vars, SettableCounts = {}
                 PROVE  (numElem = Occupied)'
      BY DEF CountExact
    <2>1. ASSUME NEW v \in Data, Queue(v) PROVE (numElem = Occupied)'
      BY <2>1, QueueOccupies DEF Queue, CountExact
    <2>2. CASE Dequeue
      BY <2>2, DequeueVacates DEF Dequeue, CountExact
    <2>3. CASE QueueRefused \/ DequeueNothing \/ UNCHANGED vars
      BY <2>3 DEF QueueRefused, DequeueNothing, vars, CountExact, Occupied
    <2> QED BY <2>1, <2>2, <2>3 DEF Next
  <1> QED BY <1>1, <1>2, InitInv, StepInv, PTL DEF Spec

-----------------------------------------------------------------------------
\* Refinement.  Contents is a sequence of Occupied pointers; queueing appends
\* to it, dequeueing takes its head.
LEMMA OccupiedNat == ASSUME IInv PROVE Occupied \in 0 .. NodeCount
  BY DEF IInv, TypeOK, Occupied

LEMMA AtNode == ASSUME IInv, NEW k \in 1 .. NodeCount PROVE At(k) \in Nodes
  BY DEF IInv, TypeOK, At

ContentsOK == /\ Contents \in Seq(Data)
              /\ Len(Contents) = Occupied
              /\ \A k \in 1 .. Occupied : Contents[k] = data[At(k)]

LEMMA ContentsSeq == IInv => ContentsOK
  <1> SUFFICES ASSUME IInv PROVE ContentsOK
    OBVIOUS
  <1>1. ASSUME NEW k \in 1 .. Occupied PROVE data[At(k)] \in Data
    <2>1. At(k) \in Nodes
      BY OccupiedNat, AtNode
    <2>2. InWindow(At(k))
      BY <2>1 DEF IInv, TypeOK, RingInv, Occupied, At, InWindow
    <2> QED BY <2>1, <2>2 DEF IInv, TypeOK, RingInv
  <1>2. Contents \in [1 .. Occupied -> Data]
    BY <1>1 DEF Contents
  <1> QED BY <1>2, OccupiedNat DEF Contents, ContentsOK

LEMMA QueueAppends ==
  ASSUME IInv, NEW v \in Data, Queue(v)
  PROVE  Contents' = Append(Contents, v)
  <1>1. Occupied' = Occupied + 1 /\ Occupied < NodeCount
    BY QueueOccupies
  <1>2. IInv'
    BY StepInv DEF Next
  <1>3. /\ Contents' \in Seq(Data)
        /\ Len(Contents') = Occupied + 1
        /\ \A k \in 1 .. Occupied + 1 : Contents'[k] = data'[At(k)']
    <2>1. (IInv => ContentsOK)'
      BY ContentsSeq, PTL
    <2> QED BY <1>1, <1>2, <2>1 DEF ContentsOK
  <1>4. /\ first \in Nodes /\ last \in Nodes
        /\ first = last => data[first] = NoData
    BY DEF IInv, TypeOK, Queue, Full
  <1>5. ASSUME NEW k \in 1 .. Occupied PROVE data'[At(k)'] = data[At(k)]
    <2>1. At(k)' = At(k) /\ At(k) \in Nodes
      BY AtNode, OccupiedNat DEF Queue, At
    <2>2. data[At(k)] # NoData
      <3>1. InWindow(At(k))
        <4>1. CASE first < last
          BY <1>4, <4>1, OccupiedNat DEF Occupied, At, InWindow
        <4>2. CASE first > last
          BY <1>4, <4>2, OccupiedNat DEF Occupied, At, InWindow
        <4>3. CASE first = last
          BY <1>4, <4>3, OccupiedNat DEF Occupied
        <4> QED BY <1>4, <4>1, <4>2, <4>3
      <3> QED BY <2>1, <3>1 DEF IInv, RingInv
    <2>3. At(k) # last
      BY <2>2 DEF Queue, Full
    <2> QED BY <2>1, <2>3 DEF Queue, IInv, TypeOK
  <1>6. ASSUME NEW k \in Nat, k = Occupied + 1 PROVE At(k)' = last
    <2>1. first' = first
      BY DEF Queue
    <2>2. data[last] = NoData /\ first \in Nodes /\ last \in Nodes
      BY DEF Queue, Full, IInv, TypeOK
    <2>3. CASE first < last
      <3>1. Occupied = last - first
        BY <2>2, <2>3 DEF Occupied
      <3> QED BY <1>6, <2>1, <2>2, <2>3, <3>1 DEF At
    <2>4. CASE first > last
      <3>1. Occupied = NodeCount - first + last
        BY <2>2, <2>4 DEF Occupied
      <3> QED BY <1>6, <2>1, <2>2, <2>4, <3>1 DEF At
    <2>5. CASE first = last
      <3>1. Occupied = 0
        BY <2>2, <2>5 DEF Occupied
      <3> QED BY <1>6, <2>1, <2>2, <2>5, <3>1 DEF At
    <2> QED BY <2>2, <2>3, <2>4, <2>5
  <1>7. data'[last] = v
    BY DEF Queue, IInv, TypeOK
  <1>8. \A k \in 1 .. Occupied + 1 : Contents'[k] = Append(Contents, v)[k]
    <2>1. /\ Len(Contents) = Occupied /\ Occupied \in Nat
          /\ Contents \in Seq(Data)
          /\ \A k \in 1 .. Occupied : Contents[k] = data[At(k)]
      BY ContentsSeq, OccupiedNat DEF ContentsOK
    <2>2. ASSUME NEW k \in 1 .. Occupied
          PROVE  Contents'[k] = Append(Contents, v)[k]
      BY <1>3, <1>5, <2>1, <2>2
    <2>3. Contents'[Occupied + 1] = v
      BY <1>3, <1>6, <1>7, <2>1
    <2>4. Append(Contents, v)[Occupied + 1] = v
      BY <2>1
    <2> QED BY <2>1, <2>2, <2>3, <2>4
  <1> QED BY <1>3, <1>8, ContentsSeq, OccupiedNat DEF ContentsOK

LEMMA DequeueTakes ==
  ASSUME IInv, Dequeue
  PROVE  /\ Contents # <<>>
         /\ Contents' = Tail(Contents)
         /\ result' = Head(Contents)
  <1>1. Occupied' = Occupied - 1 /\ Occupied \in 1 .. NodeCount
    BY DequeueVacates, OccupiedNat
  <1>2. IInv'
    BY StepInv DEF Next
  <1>3. /\ Contents' \in Seq(Data)
        /\ Len(Contents') = Occupied - 1
        /\ \A k \in 1 .. Occupied - 1 : Contents'[k] = data'[At(k)']
    <2>1. (IInv => ContentsOK)'
      BY ContentsSeq, PTL
    <2> QED BY <1>1, <1>2, <2>1 DEF ContentsOK
  <1>4. /\ first \in Nodes /\ first' \in Nodes
        /\ first # NodeCount - 1 => first' = first + 1
        /\ first = NodeCount - 1 => first' = 0
    BY NextNode DEF IInv, TypeOK, Dequeue
  <1>5. ASSUME NEW k \in 1 .. Occupied - 1 PROVE data'[At(k)'] = data[At(k + 1)]
    <2>1. At(k)' = At(k + 1)
      <3>1. CASE first # NodeCount - 1
        BY <1>1, <1>4, <3>1 DEF At
      <3>2. CASE first = NodeCount - 1
        BY <1>1, <1>4, <3>2 DEF At
      <3> QED BY <3>1, <3>2
    <2>2. At(k + 1) # first
      BY <1>1, <1>4 DEF At
    <2>3. At(k + 1) \in Nodes
      BY <1>1, AtNode
    <2> QED BY <2>1, <2>2, <2>3 DEF Dequeue, IInv, TypeOK
  <1>6. At(1) = first
    BY <1>4 DEF At
  <1>7. Contents \in Seq(Data) /\ Contents # <<>> /\ result' = Head(Contents)
    BY <1>1, <1>6, ContentsSeq DEF Dequeue, ContentsOK
  <1>8. \A k \in 1 .. Occupied - 1 : Contents'[k] = Tail(Contents)[k]
    BY <1>1, <1>3, <1>5, <1>7, ContentsSeq DEF ContentsOK
  <1>9. Tail(Contents) \in Seq(Data) /\ Len(Tail(Contents)) = Occupied - 1
    BY <1>1, <1>7, ContentsSeq DEF ContentsOK
  <1> QED BY <1>3, <1>7, <1>8, <1>9

\* A call is refused exactly when every element is in use.
LEMMA FullWhenOccupied == IInv => (Full <=> Occupied = NodeCount)
  BY DEF IInv, TypeOK, RingInv, Full, Occupied, InWindow

\* Dequeue finds the FIFO empty, or its count used up, exactly when the ring
\* looks so at the read pointer.
LEMMA EmptyWhenUnoccupied == IInv => (Empty <=> Occupied = 0 \/ numElem <= 0)
  BY DEF IInv, TypeOK, RingInv, Empty, Occupied, InWindow

LEMMA StepRefines == IInv /\ [Next]_vars => [Fifo!Next]_(Fifo!vars)
  <1> SUFFICES ASSUME IInv, [Next]_vars PROVE [Fifo!Next]_(Fifo!vars)
    OBVIOUS
  <1>0. Len(Contents) = Occupied /\ Contents \in Seq(Data)
    BY ContentsSeq DEF ContentsOK
  <1>1. ASSUME NEW v \in Data, Queue(v) PROVE Fifo!Put(v)
    BY <1>0, <1>1, QueueAppends, QueueOccupies DEF Queue, Fifo!Put
  <1>2. CASE QueueRefused
    <2>1. Contents' = Contents
      BY <1>2 DEF QueueRefused, Contents, Occupied, At
    <2> QED BY <1>0, <1>2, <2>1, FullWhenOccupied DEF QueueRefused, Fifo!Refuse, Fifo!Next
  <1>3. CASE Dequeue
    BY <1>3, DequeueTakes DEF Dequeue, Empty, Fifo!Take, Fifo!Next, IInv, TypeOK
  <1>4. CASE DequeueNothing
    <2>1. Contents' = Contents
      BY <1>4 DEF DequeueNothing, Contents, Occupied, At
    <2> QED BY <1>0, <1>4, <2>1, EmptyWhenUnoccupied
            DEF DequeueNothing, Fifo!Nothing, Fifo!Next
  <1>5. ASSUME NEW n \in SettableCounts, SetElemNum(n) PROVE Fifo!SetCount(n)
    <2>1. Contents' = Contents
      BY <1>5 DEF SetElemNum, Contents, Occupied, At
    <2> QED BY <1>5, <2>1 DEF SetElemNum, Fifo!SetCount
  <1>6. CASE UNCHANGED vars
    BY <1>6 DEF vars, Fifo!vars, Contents, Occupied, At
  <1> QED BY <1>1, <1>2, <1>3, <1>4, <1>5, <1>6 DEF Next, Fifo!Next

\* The ring implements the counted FIFO: nothing queued is lost, duplicated or
\* reordered, for every ring size.
THEOREM Refinement == Spec => RefinesFifo
  <1>1. Init => Fifo!Init
    BY DEF Init, QueueCreate, Fifo!Init, Contents, Occupied
  <1> QED BY <1>1, InitInv, StepInv, StepRefines, PTL DEF Spec, RefinesFifo, Fifo!Spec
=============================================================================
