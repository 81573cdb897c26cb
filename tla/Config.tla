-------------------------------- MODULE Config --------------------------------
(***************************************************************************)
(* How the configuration is built at start-up and again at each SIGHUP     *)
(* (buildConfig, loadConfig, Load, applyFlagOverrides, Validate), while an *)
(* operator edits, creates or removes the file, and who uses which         *)
(* configuration afterwards: the handlers and listeners the first one,     *)
(* the signal handler the last one that was built.                         *)
(*                                                                         *)
(* A layer sets some fields and leaves the others alone.  The fields are   *)
(* those that layers, defaults and Validate treat differently; the other   *)
(* ones go the way of `timeout'.  An address is what net.SplitHostPort     *)
(* makes of it: two empty parts if it is malformed.  The file is replaced  *)
(* as a whole: DecodeFile never sees half of an edit.                      *)
(***************************************************************************)
EXTENDS Integers, Sequences

CONSTANTS
    Hosts, Ports, Texts, Numbers,  \* values of the fields
    Unset,          \* the empty string: no host, no certificate
    NoPort,         \* a port that is not a number
    Absent,         \* there is no file
    Malformed,      \* a file, or environment, with a value that does not parse
    Layers,         \* what a file or the environment can set
    FlagSets,       \* the command lines
    Defaults,       \* applyDefaults
    MaxInt,         \* the largest byte count, for int64
    MaxHUPs         \* bound: SIGHUPs

Addrs == [host : Hosts \cup {Unset}, port : Ports \cup {NoPort}]

Configs == [addr : Addrs, tlsAddr : Addrs, cert : Texts \cup {Unset},
            key : Texts \cup {Unset}, timeout : Int, caching : BOOLEAN,
            bytes : Int, gzip : BOOLEAN, level : Int]

Fields == {"addr", "tlsAddr", "cert", "key", "timeout", "caching", "bytes",
           "gzip", "level"}

\* --cache-size: a number and its suffix's multiplier.  A text that is not a
\* number stands as a negative one: both are errors.
Sizes == [n : Numbers, unit : {u \in Numbers : u > 0}]
Flags == [host : Hosts \cup {Unset}, port : Ports, tlsPort : Ports,
          cert : Texts \cup {Unset}, key : Texts \cup {Unset},
          noCache : BOOLEAN, noCompress : BOOLEAN, cacheSize : Sizes \cup {Unset}]

ASSUME ValuesAssumption ==
    /\ Ports \subseteq Int /\ 0 \in Ports /\ NoPort \notin Int
    /\ Numbers \subseteq Int
    /\ Unset \notin Hosts \cup Texts \cup Sizes
    /\ MaxInt \in Nat /\ MaxHUPs \in Nat
ASSUME LayersAssumption ==
    /\ Defaults \in Configs
    /\ FlagSets \subseteq Flags
    /\ \A l \in Layers : \A x \in DOMAIN l :
          x \in Fields /\ [Defaults EXCEPT ![x] = l[x]] \in Configs
    /\ Absent \notin Layers /\ Malformed \notin Layers /\ Absent # Malformed

Files == Layers \cup {Absent, Malformed}

VARIABLES
    file,       \* the configuration file
    env,        \* the environment
    flags,      \* the command line
    explicit,   \* whether --config was given
    build,      \* the configuration under construction
    objects,    \* every configuration built so far, in order
    inForce,    \* *cfgPtr, as an index into objects
    serving,    \* the configuration of handlers and listeners, likewise
    status,     \* of the process
    hups,
    sources,    \* ghost: the file that each configuration was read from
    seen        \* ghost: what the file has been during this build

vars == <<file, env, flags, explicit, build, objects, inForce, serving,
          status, hups, sources, seen>>

\* file, a ghost: where the values come from.
Idle == [at |-> "idle", cfg |-> Defaults, file |-> Absent]
Begin == [Idle EXCEPT !.at = "find"]

Init ==
    /\ file \in Files
    /\ env \in Layers \cup {Malformed}
    /\ flags \in FlagSets
    /\ explicit \in BOOLEAN
    /\ build = Begin
    /\ objects = <<>>
    /\ inForce = 0
    /\ serving = 0
    /\ status = "starting"
    /\ hups = 0
    /\ sources = <<>>
    /\ seen = {file}

-----------------------------------------------------------------------------
(* Layers.                                                                 *)

\* toml.DecodeFile and applyEnvOverrides: a layer's fields replace those of
\* the weaker layers.
Overlay(c, layer) ==
    [x \in Fields |-> IF x \in DOMAIN layer THEN layer[x] ELSE c[x]]

\* What int64 arithmetic makes of a product.
Int64(x) == ((x + MaxInt + 1) % (2 * MaxInt + 2)) - MaxInt - 1

\* Mutant of TooLarge: no check.
NeverTooLarge(s) == FALSE
TooLarge(s) == s.n > MaxInt \div s.unit

\* parseBytes accepts a size, and its result.
Parses(s) == s.n >= 0 /\ ~TooLarge(s)
ParseBytes(s) == Int64(s.n * s.unit)

FlagsParse(f) == f.cacheSize = Unset \/ Parses(f.cacheSize)

Given(v, otherwise) == IF v = Unset THEN otherwise ELSE v

\* An address with the host and the port that are given replaced.
WithParts(a, host, port) ==
    [host |-> Given(host, a.host), port |-> IF port # 0 THEN port ELSE a.port]

\* applyFlagOverrides.  Host and port replace their part of the address that
\* the other layers have left.
ApplyFlagOverrides(c, f) ==
    [c EXCEPT
        !.addr = WithParts(@, f.host, f.port),
        !.tlsAddr = WithParts(@, Unset, f.tlsPort),
        !.cert = Given(f.cert, @),
        !.key = Given(f.key, @),
        !.caching = @ /\ ~f.noCache,
        !.gzip = @ /\ ~f.noCompress,
        !.bytes = IF f.cacheSize = Unset THEN @ ELSE ParseBytes(f.cacheSize)]

ValidateListenAddr(a) == a.port # NoPort /\ a.port \in 0 .. 65535

\* Validate.
Validate(c) ==
    /\ ValidateListenAddr(c.addr)
    /\ (c.cert = Unset) = (c.key = Unset)
    /\ c.cert # Unset => ValidateListenAddr(c.tlsAddr)
    /\ c.timeout >= 0
    /\ c.caching => c.bytes > 0
    /\ c.gzip => c.level \in {-1} \cup 1 .. 9

-----------------------------------------------------------------------------
(* Building a configuration, one access to the file at a time.             *)

Goto(at) == build' = [build EXCEPT !.at = at]

\* serve returns 1 if there is no configuration to start with; handleHUP
\* keeps the one it has.
Fail ==
    /\ build' = Idle
    /\ status' = IF status = "starting" THEN "exited" ELSE status
    /\ seen' = {}
    /\ UNCHANGED <<objects, inForce, serving, sources>>

\* Mutant of FindFile: the default file must exist, too.
FindFileAlways ==
    /\ build.at = "find"
    /\ Goto("stat")
    /\ UNCHANGED <<file, env, flags, explicit, objects, inForce, serving,
                   status, hups, sources, seen>>

\* loadConfig: the default file need not exist.
FindFile ==
    /\ build.at = "find"
    /\ Goto(IF ~explicit /\ file = Absent THEN "layers" ELSE "stat")
    /\ UNCHANGED <<file, env, flags, explicit, objects, inForce, serving,
                   status, hups, sources, seen>>

\* Load: os.Stat, of a path that must exist now.
StatFile ==
    /\ build.at = "stat"
    /\ IF file = Absent
       THEN Fail
       ELSE /\ Goto("decode")
            /\ UNCHANGED <<objects, inForce, serving, status, sources, seen>>
    /\ UNCHANGED <<file, env, flags, explicit, hups>>

\* Load: toml.DecodeFile over the defaults.
DecodeFile ==
    /\ build.at = "decode"
    /\ IF file \in {Absent, Malformed}
       THEN Fail
       ELSE /\ build' = [at |-> "layers", cfg |-> Overlay(Defaults, file),
                          file |-> file]
            /\ UNCHANGED <<objects, inForce, serving, status, sources, seen>>
    /\ UNCHANGED <<file, env, flags, explicit, hups>>

\* Mutant of Layered: the environment has the last word.
EnvLast(c) == Overlay(ApplyFlagOverrides(c, flags), env)
Layered(c) == ApplyFlagOverrides(Overlay(c, env), flags)

\* Mutant of Accepted: Validate runs before the flags are applied.
AcceptedEarly(c) ==
    env # Malformed /\ FlagsParse(flags) /\ Validate(Overlay(c, env))
Accepted(c) ==
    env # Malformed /\ FlagsParse(flags) /\ Validate(Layered(c))

\* Mutant of Publish: the new values are written into the running object.
PublishInPlace(c) ==
    /\ objects' = IF inForce = 0 THEN <<c>> ELSE [objects EXCEPT ![inForce] = c]
    /\ inForce' = IF inForce = 0 THEN 1 ELSE inForce

\* Mutant of Publish: the pointer is set, the object it should be lost.
PublishNothing(c) ==
    /\ UNCHANGED objects
    /\ inForce' = Len(objects) + 1

\* *cfgPtr = newCfg: a configuration of its own.
Publish(c) ==
    /\ objects' = Append(objects, c)
    /\ inForce' = Len(objects) + 1

\* applyEnvOverrides, applyFlagOverrides and Validate, which read nothing that
\* can change.  The first configuration is the one that serve builds the
\* caches, handlers and listeners from.
ApplyLayers ==
    /\ build.at = "layers"
    /\ IF Accepted(build.cfg)
       THEN /\ Publish(Layered(build.cfg))
            /\ build' = Idle
            /\ sources' = Append(sources, build.file)
            /\ seen' = {}
            /\ status' = "running"
            /\ serving' = IF status = "starting" THEN 1 ELSE serving
       ELSE Fail
    /\ UNCHANGED <<file, env, flags, explicit, hups>>

\* handleHUP calls buildConfig again.
HandleHUP ==
    /\ status = "running"
    /\ build.at = "idle"
    /\ hups < MaxHUPs
    /\ hups' = hups + 1
    /\ build' = Begin
    /\ seen' = {file}
    /\ UNCHANGED <<file, env, flags, explicit, objects, inForce, serving,
                   status, sources>>

\* The operator writes, replaces or removes the file.
Edit(f) ==
    /\ file # f
    /\ file' = f
    /\ seen' = IF build.at = "idle" THEN {} ELSE seen \cup {f}
    /\ UNCHANGED <<env, flags, explicit, build, objects, inForce, serving,
                   status, hups, sources>>

Next ==
    \/ FindFile \/ StatFile \/ DecodeFile \/ ApplyLayers
    \/ HandleHUP
    \/ status # "exited" /\ \E f \in Files : Edit(f)

Spec == Init /\ [][Next]_vars

-----------------------------------------------------------------------------
\* Every variable has its type.
TypeOK ==
    /\ file \in Files
    /\ env \in Layers \cup {Malformed}
    /\ flags \in FlagSets
    /\ explicit \in BOOLEAN
    /\ build \in [at : {"idle", "find", "stat", "decode", "layers"}, cfg : Configs,
                  file : Layers \cup {Absent}]
    /\ objects \in Seq(Configs)
    /\ inForce \in 0 .. Len(objects)
    /\ serving \in 0 .. Len(objects)
    /\ status \in {"starting", "running", "exited"}
    /\ hups \in 0 .. MaxHUPs
    /\ sources \in Seq(Layers \cup {Absent})
    /\ seen \subseteq Files

\* A running server never serves with, or keeps, a configuration that is out
\* of range or inconsistent, whichever layers its parts come from.
RunningValid ==
    status = "running" => \A i \in {serving, inForce} :
        i # 0 /\ Validate(objects[i])

\* The value of field x by precedence alone: the flags, else the environment,
\* else the file f, else the default; sizes are exact.
Below(x, f) ==
    IF x \in DOMAIN env THEN env[x]
    ELSE IF f # Absent /\ x \in DOMAIN f THEN f[x] ELSE Defaults[x]
Strongest(x, f) ==
    CASE x = "addr" /\ (flags.host # Unset \/ flags.port # 0) ->
            [host |-> Given(flags.host, Below(x, f).host),
             port |-> IF flags.port # 0 THEN flags.port ELSE Below(x, f).port]
      [] x = "tlsAddr" /\ flags.tlsPort # 0 ->
            [host |-> Below(x, f).host, port |-> flags.tlsPort]
      [] x = "cert" /\ flags.cert # Unset -> flags.cert
      [] x = "key" /\ flags.key # Unset -> flags.key
      [] x = "caching" /\ flags.noCache -> FALSE
      [] x = "gzip" /\ flags.noCompress -> FALSE
      [] x = "bytes" /\ flags.cacheSize # Unset ->
            flags.cacheSize.n * flags.cacheSize.unit
      [] OTHER -> Below(x, f)

\* The configuration in force has in every field the value of the strongest
\* layer that sets it, and all that come from the file come from one state of
\* it, which is missing only if it may be; at SIGHUP as at start-up.
StrongestLayerWins ==
    inForce # 0 =>
        LET f == sources[Len(sources)]
        IN /\ f = Absent => ~explicit
           /\ \A x \in Fields : objects[inForce][x] = Strongest(x, f)

\* Whether a file by itself is one to build a configuration from.
Sound(f) ==
    /\ f # Malformed
    /\ f = Absent => ~explicit
    /\ Accepted(IF f = Absent THEN Defaults ELSE Overlay(Defaults, f))

\* A build is only given up for a reason: the file was unsound at some moment
\* of it, or was removed or created during it.
GivenUpForAReason ==
    [][build.at # "idle" /\ build'.at = "idle" /\ objects' = objects =>
         \/ \E f \in seen : ~Sound(f)
         \/ Absent \in seen /\ seen # {Absent}]_vars

\* Handlers and listeners keep the settings they were started with, whatever
\* SIGHUP reads.
HandlersKeepStart ==
    [][serving # 0 => objects'[serving'] = objects[serving]]_vars

=============================================================================
