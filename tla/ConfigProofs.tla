----------------------------- MODULE ConfigProofs -----------------------------
(***************************************************************************)
(* Proofs about Config, for any defaults, layers, command lines and widths *)
(* of an integer: every configuration that is put in force is valid and    *)
(* has the values that precedence gives it, the first one stays with the   *)
(* handlers, and none is given up without a reason.                        *)
(***************************************************************************)
EXTENDS Config, TLAPS

\* What the file leaves of the defaults.
FromFile(f) == IF f = Absent THEN Defaults ELSE Overlay(Defaults, f)

-----------------------------------------------------------------------------
(* Layers.                                                                 *)

\* A size that parses does not wrap around.
LEMMA SizeExact ==
    ASSUME NEW s \in Sizes, Parses(s)
    PROVE  ParseBytes(s) = s.n * s.unit /\ ParseBytes(s) \in Int
<1>1. s.n \in Int /\ s.unit \in Int /\ s.unit > 0 /\ MaxInt \in Nat /\ s.n >= 0
  BY ValuesAssumption DEF Sizes, Parses
<1>2. s.n <= MaxInt \div s.unit
  BY <1>1 DEF Parses, TooLarge
<1>3. (MaxInt \div s.unit) * s.unit <= MaxInt
  BY <1>1
<1>4. s.n * s.unit \in 0 .. MaxInt
  BY <1>1, <1>2, <1>3
<1>5. \A x \in 0 .. MaxInt : Int64(x) = x
  BY ValuesAssumption DEF Int64
<1> QED BY <1>4, <1>5 DEF ParseBytes

\* A layer over a configuration is a configuration.
LEMMA OverlayTyped ==
    ASSUME NEW c \in Configs, NEW l \in Layers
    PROVE  Overlay(c, l) \in Configs
<1>1. \A x \in DOMAIN l : x \in Fields /\ [Defaults EXCEPT ![x] = l[x]] \in Configs
  BY LayersAssumption
<1>2. Defaults \in Configs
  BY LayersAssumption
<1>3. \A x \in DOMAIN l : l[x] = [Defaults EXCEPT ![x] = l[x]][x]
  BY <1>1, <1>2 DEF Configs, Fields
<1>4. /\ "addr" \in DOMAIN l => l["addr"] \in Addrs
      /\ "tlsAddr" \in DOMAIN l => l["tlsAddr"] \in Addrs
      /\ "cert" \in DOMAIN l => l["cert"] \in Texts \cup {Unset}
      /\ "key" \in DOMAIN l => l["key"] \in Texts \cup {Unset}
  BY <1>1, <1>3 DEF Configs
<1>5. /\ "timeout" \in DOMAIN l => l["timeout"] \in Int
      /\ "caching" \in DOMAIN l => l["caching"] \in BOOLEAN
      /\ "bytes" \in DOMAIN l => l["bytes"] \in Int
      /\ "gzip" \in DOMAIN l => l["gzip"] \in BOOLEAN
      /\ "level" \in DOMAIN l => l["level"] \in Int
  BY <1>1, <1>3 DEF Configs
<1> QED BY <1>4, <1>5 DEF Overlay, Configs, Fields

\* The fields of a configuration after the flags.
LEMMA FlagsFields ==
    ASSUME NEW c \in Configs, NEW f \in Flags
    PROVE  LET d == ApplyFlagOverrides(c, f)
           IN /\ d.addr = WithParts(c.addr, f.host, f.port)
              /\ d.tlsAddr = WithParts(c.tlsAddr, Unset, f.tlsPort)
              /\ d.cert = Given(f.cert, c.cert) /\ d.key = Given(f.key, c.key)
              /\ d.caching = (c.caching /\ ~f.noCache)
              /\ d.gzip = (c.gzip /\ ~f.noCompress)
              /\ d.bytes = IF f.cacheSize = Unset THEN c.bytes ELSE ParseBytes(f.cacheSize)
              /\ d.timeout = c.timeout /\ d.level = c.level
BY DEF ApplyFlagOverrides, Configs

LEMMA FlagsTyped ==
    ASSUME NEW c \in Configs, NEW f \in Flags, FlagsParse(f)
    PROVE  ApplyFlagOverrides(c, f) \in Configs
<1>1. f.cacheSize # Unset => ParseBytes(f.cacheSize) \in Int
  BY SizeExact DEF FlagsParse, Flags
<1>2. \A a \in Addrs, h \in Hosts \cup {Unset}, p \in Ports : WithParts(a, h, p) \in Addrs
  BY DEF WithParts, Addrs, Given
<1>3. WithParts(c.addr, f.host, f.port) \in Addrs /\ WithParts(c.tlsAddr, Unset, f.tlsPort) \in Addrs
  BY <1>2 DEF Configs, Flags
<1>4. Given(f.cert, c.cert) \in Texts \cup {Unset} /\ Given(f.key, c.key) \in Texts \cup {Unset}
  BY DEF Configs, Flags, Given
<1> QED BY <1>1, <1>3, <1>4 DEF ApplyFlagOverrides, Configs

\* What buildConfig accepts is a configuration, and has in every field the
\* value of the strongest layer.
LEMMA LayeredTyped ==
    ASSUME NEW f \in Layers \cup {Absent}, env \in Layers \cup {Malformed},
           flags \in FlagSets, Accepted(FromFile(f))
    PROVE  Layered(FromFile(f)) \in Configs
<1>1. FromFile(f) \in Configs
  BY OverlayTyped, LayersAssumption DEF FromFile
<1>2. env \in Layers /\ flags \in Flags /\ FlagsParse(flags)
  BY LayersAssumption DEF Accepted
<1>3. Overlay(FromFile(f), env) \in Configs
  BY <1>1, <1>2, OverlayTyped
<1> QED BY <1>2, <1>3, FlagsTyped DEF Layered

LEMMA LayeredStrongest ==
    ASSUME NEW f \in Layers \cup {Absent}, env \in Layers \cup {Malformed},
           flags \in FlagSets, Accepted(FromFile(f)), NEW x \in Fields
    PROVE  Layered(FromFile(f))[x] = Strongest(x, f)
<1> DEFINE c == Overlay(FromFile(f), env)
           d == Layered(FromFile(f))
<1>1. env \in Layers /\ flags \in Flags /\ FlagsParse(flags)
  BY LayersAssumption DEF Accepted
<1>2. FromFile(f) \in Configs /\ c \in Configs
  BY <1>1, OverlayTyped, LayersAssumption DEF FromFile
<1>3. \A y \in Fields : c[y] = Below(y, f)
  BY DEF Overlay, FromFile, Below
<1>4. /\ c.addr = Below("addr", f) /\ c.tlsAddr = Below("tlsAddr", f)
      /\ c.cert = Below("cert", f) /\ c.key = Below("key", f)
      /\ c.timeout = Below("timeout", f) /\ c.caching = Below("caching", f)
      /\ c.bytes = Below("bytes", f) /\ c.gzip = Below("gzip", f)
      /\ c.level = Below("level", f)
  BY <1>2, <1>3 DEF Configs, Fields
<1>5. d = ApplyFlagOverrides(c, flags)
  BY DEF Layered
<1> HIDE DEF c, d
<1>6. /\ d.addr = WithParts(c.addr, flags.host, flags.port)
      /\ d.tlsAddr = WithParts(c.tlsAddr, Unset, flags.tlsPort)
      /\ d.cert = Given(flags.cert, c.cert) /\ d.key = Given(flags.key, c.key)
      /\ d.caching = (c.caching /\ ~flags.noCache)
      /\ d.gzip = (c.gzip /\ ~flags.noCompress)
      /\ d.bytes = IF flags.cacheSize = Unset THEN c.bytes ELSE ParseBytes(flags.cacheSize)
      /\ d.timeout = c.timeout /\ d.level = c.level
  BY <1>1, <1>2, <1>5, FlagsFields
<1>7. c.addr \in Addrs /\ c.tlsAddr \in Addrs /\ c.caching \in BOOLEAN /\ c.gzip \in BOOLEAN
  BY <1>2 DEF Configs
<1>8. flags.noCache \in BOOLEAN /\ flags.noCompress \in BOOLEAN
  BY <1>1 DEF Flags
<1>9. d["addr"] = Strongest("addr", f) /\ d["tlsAddr"] = Strongest("tlsAddr", f)
  BY <1>4, <1>6, <1>7 DEF Strongest, WithParts, Given, Addrs
<1>10. d["cert"] = Strongest("cert", f) /\ d["key"] = Strongest("key", f)
  BY <1>4, <1>6 DEF Strongest, Given
<1>11. d["caching"] = Strongest("caching", f) /\ d["gzip"] = Strongest("gzip", f)
  BY <1>4, <1>6, <1>7, <1>8 DEF Strongest
<1>12. d["bytes"] = Strongest("bytes", f)
  <2>1. flags.cacheSize # Unset =>
          ParseBytes(flags.cacheSize) = flags.cacheSize.n * flags.cacheSize.unit
    BY <1>1, SizeExact DEF Flags, FlagsParse
  <2> QED BY <1>4, <1>6, <2>1 DEF Strongest
<1>13. d["timeout"] = Strongest("timeout", f) /\ d["level"] = Strongest("level", f)
  BY <1>4, <1>6 DEF Strongest
<1>14. d[x] = Strongest(x, f)
  BY <1>9, <1>10, <1>11, <1>12, <1>13 DEF Fields
<1> QED BY <1>14 DEF d

-----------------------------------------------------------------------------
(* The invariant.                                                          *)

\* A build holds what one state of the file has given it, and seen is what it
\* could have read.
BuildInv ==
    /\ build.cfg = FromFile(build.file)
    /\ build.at # "layers" => build.file = Absent
    /\ build.at = "layers" => build.file \in seen /\ (build.file = Absent => ~explicit)
    /\ build.at # "idle" => file \in seen
    /\ build.at \in {"stat", "decode"} => explicit \/ \E f \in seen : f # Absent
    /\ status = "exited" => build.at = "idle"

\* Every configuration that was published is right, and the pointers are at
\* the first and at the last one.
ObjectsInv ==
    /\ status # "running" => objects = <<>> /\ inForce = 0 /\ serving = 0
    /\ status = "running" => Len(objects) > 0 /\ inForce = Len(objects) /\ serving = 1
    /\ Len(sources) = Len(objects)
    /\ \A i \in 1 .. Len(objects) :
          /\ Validate(objects[i])
          /\ sources[i] = Absent => ~explicit
          /\ \A x \in Fields : objects[i][x] = Strongest(x, sources[i])

IInv == TypeOK /\ BuildInv /\ ObjectsInv

LEMMA InitIInv == Init => IInv
<1> SUFFICES ASSUME Init PROVE IInv
  OBVIOUS
<1>1. TypeOK
  BY LayersAssumption, ValuesAssumption DEF Init, TypeOK, Begin, Idle
<1>2. BuildInv
  BY DEF Init, BuildInv, Begin, Idle, FromFile
<1>3. ObjectsInv
  BY DEF Init, ObjectsInv
<1> QED BY <1>1, <1>2, <1>3 DEF IInv

\* A step that publishes nothing and leaves the pointers alone keeps the
\* configurations as they are.
LEMMA ObjectsKept ==
    ASSUME ObjectsInv, UNCHANGED <<objects, inForce, serving, sources, explicit, env, flags>>,
           (status' = "running") = (status = "running")
    PROVE  ObjectsInv'
<1>1. ASSUME NEW i \in 1 .. Len(objects), NEW x \in Fields
      PROVE  objects'[i][x] = Strongest(x, sources[i])'
  <2>1. objects[i][x] = Strongest(x, sources[i])
    BY DEF ObjectsInv
  <2>2. Strongest(x, sources[i])' = Strongest(x, sources[i])
    BY DEF Strongest, Below
  <2> QED BY <2>1, <2>2
<1> QED BY <1>1 DEF ObjectsInv

\* Giving up a build.
LEMMA FailIInv ==
    ASSUME IInv, Fail, build.at # "idle", UNCHANGED <<file, env, flags, explicit, hups>>
    PROVE  IInv'
<1>1. TypeOK'
  BY LayersAssumption DEF IInv, TypeOK, Fail, Idle
<1>2. BuildInv'
  BY DEF IInv, Fail, BuildInv, Idle, FromFile
<1>3. ObjectsInv'
  BY ObjectsKept DEF IInv, Fail, TypeOK
<1> QED BY <1>1, <1>2, <1>3 DEF IInv

\* The steps that build a configuration, up to its publication.
LEMMA BuildingIInv ==
    ASSUME IInv, FindFile \/ StatFile \/ DecodeFile
    PROVE  IInv'
<1>1. CASE FindFile
  <2>1. TypeOK'
    BY <1>1 DEF IInv, TypeOK, FindFile, Goto
  <2>2. BuildInv'
    BY <1>1 DEF IInv, FindFile, Goto, BuildInv, TypeOK
  <2>3. ObjectsInv'
    BY <1>1, ObjectsKept DEF IInv, FindFile
  <2> QED BY <2>1, <2>2, <2>3 DEF IInv
<1>2. CASE StatFile
  <2>1. CASE file = Absent
    BY <1>2, <2>1, FailIInv DEF StatFile
  <2>2. CASE file # Absent
    <3>1. TypeOK'
      BY <1>2, <2>2 DEF IInv, TypeOK, StatFile, Goto
    <3>2. BuildInv'
      BY <1>2, <2>2 DEF IInv, StatFile, Goto, BuildInv, TypeOK
    <3>3. ObjectsInv'
      BY <1>2, <2>2, ObjectsKept DEF IInv, StatFile
    <3> QED BY <3>1, <3>2, <3>3 DEF IInv
  <2> QED BY <2>1, <2>2
<1>3. CASE DecodeFile
  <2>1. CASE file \in {Absent, Malformed}
    BY <1>3, <2>1, FailIInv DEF DecodeFile
  <2>2. CASE file \notin {Absent, Malformed}
    <3>1. file \in Layers /\ file # Absent /\ Overlay(Defaults, file) \in Configs
      BY <2>2, OverlayTyped, LayersAssumption DEF IInv, TypeOK, Files
    <3>2. TypeOK'
      BY <1>3, <2>2, <3>1 DEF IInv, TypeOK, DecodeFile
    <3>3. BuildInv'
      BY <1>3, <2>2, <3>1 DEF IInv, DecodeFile, BuildInv, TypeOK, FromFile
    <3>4. ObjectsInv'
      BY <1>3, <2>2, ObjectsKept DEF IInv, DecodeFile
    <3> QED BY <3>2, <3>3, <3>4 DEF IInv
  <2> QED BY <2>1, <2>2
<1> QED BY <1>1, <1>2, <1>3

\* A configuration that is published is valid and layered, and the ones
\* before it stay as they are.
LEMMA ApplyLayersIInv ==
    ASSUME IInv, ApplyLayers
    PROVE  IInv'
<1> DEFINE c == Layered(build.cfg)
           n == Len(objects) + 1
<1>1. CASE ~Accepted(build.cfg)
  BY <1>1, FailIInv DEF ApplyLayers
<1>2. CASE Accepted(build.cfg)
  <2>1. /\ build.file \in Layers \cup {Absent} /\ build.cfg = FromFile(build.file)
        /\ build.file = Absent => ~explicit
        /\ status # "exited"
    BY DEF IInv, TypeOK, BuildInv, ApplyLayers
  <2>2. c \in Configs /\ Validate(c)
    BY <1>2, <2>1, LayeredTyped DEF IInv, TypeOK, Accepted
  <2>3. \A x \in Fields : c[x] = Strongest(x, build.file)
    BY <1>2, <2>1, LayeredStrongest DEF IInv, TypeOK
  <2>4. /\ objects' = Append(objects, c) /\ inForce' = n
        /\ build' = Idle /\ sources' = Append(sources, build.file)
        /\ seen' = {} /\ status' = "running"
        /\ serving' = IF status = "starting" THEN 1 ELSE serving
        /\ UNCHANGED <<file, env, flags, explicit, hups>>
    BY <1>2 DEF ApplyLayers, Publish
  <2> HIDE DEF c
  <2>5. /\ objects \in Seq(Configs) /\ sources \in Seq(Layers \cup {Absent})
        /\ Len(sources) = Len(objects) /\ serving \in 0 .. Len(objects)
    BY DEF IInv, TypeOK, ObjectsInv
  <2>6. TypeOK'
    BY <2>1, <2>2, <2>4, <2>5, LayersAssumption DEF IInv, TypeOK, Idle
  <2>7. BuildInv'
    BY <2>4 DEF BuildInv, Idle, FromFile
  <2>8. ObjectsInv'
    <3>1. Len(objects') = n /\ Len(sources') = n /\ n > 0
      BY <2>2, <2>1, <2>4, <2>5
    <3>2. serving' = 1
      BY <2>1, <2>4 DEF IInv, TypeOK, ObjectsInv
    <3>3. ASSUME NEW i \in 1 .. n
          PROVE  /\ Validate(objects'[i])
                 /\ sources'[i] = Absent => ~explicit'
                 /\ \A x \in Fields : objects'[i][x] = Strongest(x, sources[i])'
      <4>1. \A x \in Fields : Strongest(x, sources[i])' = Strongest(x, sources'[i])
        BY <2>4 DEF Strongest, Below
      <4>2. CASE i = n
        <5>1. objects'[i] = c /\ sources'[i] = build.file
          BY <4>2, <2>4, <2>5
        <5> QED BY <2>1, <2>2, <2>3, <2>4, <4>1, <5>1
      <4>3. CASE i # n
        <5>1. i \in 1 .. Len(objects) /\ objects'[i] = objects[i] /\ sources'[i] = sources[i]
          BY <4>3, <2>4, <2>5
        <5> QED BY <2>4, <4>1, <5>1 DEF IInv, ObjectsInv
      <4> QED BY <4>2, <4>3
    <3> QED BY <2>4, <3>1, <3>2, <3>3 DEF ObjectsInv
  <2> QED BY <2>6, <2>7, <2>8 DEF IInv
<1> QED BY <1>1, <1>2

\* The invariant is inductive.
LEMMA NextIInv == IInv /\ [Next]_vars => IInv'
<1> SUFFICES ASSUME IInv, [Next]_vars PROVE IInv'
  OBVIOUS
<1>1. CASE FindFile \/ StatFile \/ DecodeFile
  BY <1>1, BuildingIInv
<1>2. CASE ApplyLayers
  BY <1>2, ApplyLayersIInv
<1>3. CASE HandleHUP
  <2>1. TypeOK'
    BY <1>3, ValuesAssumption, LayersAssumption DEF IInv, TypeOK, HandleHUP, Begin, Idle
  <2>2. BuildInv'
    BY <1>3 DEF HandleHUP, IInv, BuildInv, Begin, Idle, FromFile
  <2>3. ObjectsInv'
    BY <1>3, ObjectsKept DEF IInv, HandleHUP
  <2> QED BY <2>1, <2>2, <2>3 DEF IInv
<1>4. CASE \E f \in Files : Edit(f)
  <2>1. PICK f \in Files : Edit(f)
    BY <1>4
  <2>2. TypeOK'
    BY <2>1 DEF IInv, TypeOK, Edit
  <2>3. BuildInv'
    BY <2>1 DEF Edit, IInv, BuildInv
  <2>4. ObjectsInv'
    BY <2>1, ObjectsKept DEF IInv, Edit
  <2> QED BY <2>2, <2>3, <2>4 DEF IInv
<1>5. CASE UNCHANGED vars
  <2>1. TypeOK'
    BY <1>5 DEF IInv, TypeOK, vars
  <2>2. BuildInv'
    BY <1>5 DEF vars, IInv, BuildInv
  <2>3. ObjectsInv'
    BY <1>5, ObjectsKept DEF IInv, vars
  <2> QED BY <2>1, <2>2, <2>3 DEF IInv
<1> QED BY <1>1, <1>2, <1>3, <1>4, <1>5 DEF Next

LEMMA Inductive == Spec => []IInv
<1>1. Init => IInv
  BY InitIInv
<1>2. IInv /\ [Next]_vars => IInv'
  BY NextIInv
<1> QED BY <1>1, <1>2, PTL DEF Spec

-----------------------------------------------------------------------------
\* Every variable has its type.
THEOREM TypeCorrect == Spec => []TypeOK
<1>1. IInv => TypeOK
  BY DEF IInv
<1> QED BY <1>1, Inductive, PTL

\* A running server serves with, and keeps, valid configurations.
THEOREM AlwaysValid == Spec => []RunningValid
<1>1. IInv => RunningValid
  BY DEF IInv, ObjectsInv, RunningValid, TypeOK
<1> QED BY <1>1, Inductive, PTL

\* The configuration in force has the values that precedence gives it.
THEOREM Precedence == Spec => []StrongestLayerWins
<1>1. IInv => StrongestLayerWins
  <2> SUFFICES ASSUME IInv, inForce # 0
               PROVE  LET f == sources[Len(sources)]
                      IN /\ f = Absent => ~explicit
                         /\ \A x \in Fields : objects[inForce][x] = Strongest(x, f)
    BY DEF StrongestLayerWins
  <2>1. inForce = Len(objects) /\ Len(sources) = Len(objects) /\ inForce \in 1 .. Len(objects)
    BY DEF IInv, ObjectsInv, TypeOK
  <2> QED BY <2>1 DEF IInv, ObjectsInv
<1> QED BY <1>1, Inductive, PTL

\* Handlers and listeners keep the settings they were started with.
THEOREM StartKept == Spec => HandlersKeepStart
<1>1. IInv /\ [Next]_vars =>
        [serving # 0 => objects'[serving'] = objects[serving]]_vars
  <2> SUFFICES ASSUME IInv, Next, serving # 0
               PROVE  objects'[serving'] = objects[serving]
    OBVIOUS
  <2>1. CASE ApplyLayers /\ Accepted(build.cfg)
    <3>1. /\ objects' = Append(objects, Layered(build.cfg))
          /\ serving' = IF status = "starting" THEN 1 ELSE serving
      BY <2>1 DEF ApplyLayers, Publish
    <3>2. status # "starting" /\ serving \in 1 .. Len(objects) /\ objects \in Seq(Configs)
      BY DEF IInv, ObjectsInv, TypeOK
    <3> QED BY <3>1, <3>2
  <2>2. CASE ~(ApplyLayers /\ Accepted(build.cfg))
    BY <2>2 DEF Next, FindFile, StatFile, DecodeFile, ApplyLayers, HandleHUP, Edit, Fail
  <2> QED BY <2>1, <2>2
<1> QED BY <1>1, Inductive, PTL DEF Spec, HandlersKeepStart

\* A build is only given up for a reason.
THEOREM Reasons == Spec => GivenUpForAReason
<1>1. IInv /\ [Next]_vars =>
        [build.at # "idle" /\ build'.at = "idle" /\ objects' = objects =>
            \/ \E f \in seen : ~Sound(f)
            \/ Absent \in seen /\ seen # {Absent}]_vars
  <2> SUFFICES ASSUME IInv, Next, build.at # "idle", build'.at = "idle", objects' = objects
               PROVE  \/ \E f \in seen : ~Sound(f)
                      \/ Absent \in seen /\ seen # {Absent}
    OBVIOUS
  <2>1. CASE StatFile \/ DecodeFile
    <3>1. file \in seen /\ file \in {Absent, Malformed}
      BY <2>1 DEF IInv, BuildInv, TypeOK, StatFile, DecodeFile, Goto
    <3>2. explicit \/ \E f \in seen : f # Absent
      BY <2>1 DEF IInv, BuildInv, StatFile, DecodeFile
    <3> QED BY <3>1, <3>2 DEF Sound
  <2>2. CASE ApplyLayers
    <3>1. ~Accepted(build.cfg)
      <4> SUFFICES ASSUME Accepted(build.cfg) PROVE FALSE
        OBVIOUS
      <4> DEFINE c == Layered(build.cfg)
      <4>1. objects' = Append(objects, c) /\ objects \in Seq(Configs)
        BY <2>2 DEF ApplyLayers, Publish, IInv, TypeOK
      <4>3. c \in Configs
        BY <2>2, LayeredTyped DEF ApplyLayers, IInv, BuildInv, TypeOK
      <4> HIDE DEF c
      <4>2. Len(objects') = Len(objects) + 1 /\ Len(objects) \in Nat
        BY <4>1, <4>3
      <4> QED BY <4>2
    <3>2. build.file \in seen /\ build.cfg = FromFile(build.file)
      BY <2>2 DEF IInv, BuildInv, ApplyLayers
    <3> QED BY <3>1, <3>2 DEF Sound, FromFile
  <2>3. CASE FindFile \/ HandleHUP \/ \E f \in Files : Edit(f)
    BY <2>3 DEF FindFile, Goto, HandleHUP, Edit, IInv, TypeOK
  <2> QED BY <2>1, <2>2, <2>3 DEF Next
<1> QED BY <1>1, Inductive, PTL DEF Spec, GivenUpForAReason

=============================================================================
