--------------------------- MODULE StartupProofs ----------------------------
(***************************************************************************)
(* Machine-checked proofs about Startup, for any number of given settings. *)
(*                                                                         *)
(* The local variables of main are overwritten in place, so that no single *)
(* state shows where a value comes from.  The inductive invariant says, at *)
(* every stage of main, which value each variable must have, as a function *)
(* of the sources alone.                                                   *)
(***************************************************************************)
EXTENDS Startup, FiniteSetTheorems, TLAPS

USE GivenAssumption

(* Each source gives some of its settings, each with a sense it can have. *)
Sources ==
  /\ given \in [flag : FlagInputs, file : FileInputs, opt : OptInputs]
  /\ env \in {"none", "partial", "full"} /\ failoverSet \in BOOLEAN

Sensed(v) == v[1] \in {"default", "flag", "file", "opt", "local", "remote"} /\ v[2] \in {"yes", "no"}

(* What a variable holds after the flags, after the file and after the options. *)
AfterFlags(x) == IF Gives("flag", x) THEN <<"flag", given.flag[x]>> ELSE Default(x)
AfterFile(x) ==
  IF x = "clientkey" /\ Gives("file", "clientkeys") THEN <<"file", given.file["clientkeys"]>>
  ELSE IF Gives("file", x) /\ ~Gives("flag", x) THEN <<"file", given.file[x]>>
  ELSE AfterFlags(x)
AfterOptions(x) ==
  IF IsPlugin /\ Gives("opt", x) /\ given.opt[x] # "bad" THEN <<"opt", given.opt[x]>>
  ELSE AfterFile(x)

(* The settings that are merged by the plain rule. *)
Plain == Locals \ {"loginterval", "b", "d"}

FileSpeaks == Gives("file", "failover") /\ ~Gives("flag", "failover")

(* The variables at each stage. *)
Loading ==
  pc = "load" => /\ \A x \in Locals : value[x] = AfterFlags(x)
                 /\ given.file = Nothing /\ failoverSet = FALSE
Loaded ==
  pc = "plugin" => /\ \A x \in Plain : value[x] = AfterFile(x)
                   /\ failoverSet <=> FileSpeaks
Settled ==
  Merged => /\ \A x \in Plain : value[x] = AfterOptions(x)
            /\ failoverSet <=> (FileSpeaks \/ (IsPlugin /\ Gives("opt", "failover")))

Values == DOMAIN value = Locals /\ \A x \in Locals : Sensed(value[x])

(* The parts that run at each stage. *)
Parts ==
  /\ pc \in {"load", "plugin", "node"} => started = {} /\ allowed = "open"
  /\ pc = "serve" => IsServer /\ started = {"node"}
  /\ pc = "connect" => ~IsServer /\ started = {"node"}
  /\ pc = "running" /\ IsServer => allowed = Whitelist
  /\ "monitor" \in started => pc = "running" /\ ~IsServer /\ RunsMonitor
  /\ allowed \in {"open", "listed"}
  /\ started \subseteq {"node", "listener", "server", "peering", "client", "identity", "monitor",
                        "status", "direct", "prober"}

Stages == {"load", "plugin", "node", "serve", "connect", "running", "fatal", "exited"}

Inv == /\ pc \in Stages
       /\ Sources /\ Values /\ Loading /\ Loaded /\ Settled /\ OwnSide /\ Parts

-----------------------------------------------------------------------------
(* What a source may give. *)
LEMMA InputFacts ==
  ASSUME NEW source, NEW names, NEW f \in Inputs(source, names)
  PROVE  DOMAIN f \subseteq names /\ \A x \in DOMAIN f : f[x] \in Senses(source, x)
BY DEF Inputs

(* An input that gives nothing is one. *)
LEMMA NothingIsInput ==
  Nothing \in FileInputs /\ \A x : x \notin DOMAIN Nothing
<1>1. Cardinality({}) <= MaxGiven /\ {} \in SUBSET FileNames
  BY FS_EmptySet
<1>2. Nothing \in [{} -> {"yes", "no", "bad"}] /\ DOMAIN Nothing = {}
  BY DEF Nothing
<1> QED
  BY <1>1, <1>2 DEF FileInputs, Inputs

(* The senses main can meet, source by source. *)
LEMMA SenseFacts ==
  ASSUME NEW g \in [flag : FlagInputs, file : FileInputs, opt : OptInputs]
  PROVE  /\ \A x \in DOMAIN g.flag : g.flag[x] \in {"yes", "no"}
         /\ \A x \in DOMAIN g.file : g.file[x] \in {"yes", "no"}
         /\ \A x \in DOMAIN g.opt : g.opt[x] \in {"yes", "no", "bad"}
         /\ \A x \in DOMAIN g.opt : x # "mode" => g.opt[x] \in {"yes", "no"}
         /\ \A source \in {"flag", "file", "opt"} :
              "clientkey" \in DOMAIN g[source] => g[source]["clientkey"] = "yes"
<1>1. \A x \in DOMAIN g.flag : g.flag[x] \in Senses("flag", x)
  BY InputFacts DEF FlagInputs
<1>2. \A x \in DOMAIN g.file : g.file[x] \in Senses("file", x)
  BY InputFacts DEF FileInputs
<1>3. \A x \in DOMAIN g.opt : g.opt[x] \in Senses("opt", x)
  BY InputFacts DEF OptInputs
<1> QED
  BY <1>1, <1>2, <1>3 DEF Senses

(* What the stages store is of one of the two senses. *)
LEMMA StoredSenses ==
  Sources => \A x \in Locals : /\ Sensed(Default(x)) /\ Sensed(AfterFlags(x))
                               /\ Sensed(AfterFile(x)) /\ Sensed(AfterOptions(x))
BY SenseFacts DEF Sources, Sensed, Default, AfterFlags, AfterFile, AfterOptions, Gives

-----------------------------------------------------------------------------
(* The sources decide every variable of main, at every stage. *)
THEOREM Stagewise == Spec => []Inv
<1>1. Init => Inv
  <2> SUFFICES ASSUME Init PROVE Inv
    OBVIOUS
  <2>1. Sources
    <3>1. failoverSet \in BOOLEAN
      BY DEF Init
    <3> QED
      BY <3>1, NothingIsInput DEF Init, Sources
  <2>2. \A x \in Locals : value[x] = AfterFlags(x)
    BY DEF Init, AfterFlags, Gives
  <2>3. Values
    BY <2>1, <2>2, StoredSenses DEF Init, Values
  <2> QED
    BY <2>1, <2>2, <2>3 DEF Init, Inv, Stages, Loading, Loaded, Settled, Merged, OwnSide, Parts
<1>2. Inv /\ [Next]_vars => Inv'
  <2> SUFFICES ASSUME Inv, [Next]_vars PROVE Inv'
    OBVIOUS
  <2>1. ASSUME LoadConfig, UNCHANGED <<given, value, failoverSet>> PROVE Inv'
    <3>1. pc = "load" /\ pc' = "plugin" /\ UNCHANGED <<env, allowed, started>>
      BY <2>1 DEF LoadConfig
    <3>2. \A x \in Plain : value[x] = AfterFile(x)
      BY <3>1, NothingIsInput DEF Inv, Loading, AfterFile, Gives, Plain
    <3>3. ~FileSpeaks /\ failoverSet = FALSE
      BY <3>1, NothingIsInput DEF Inv, Loading, FileSpeaks, Gives
    <3> QED
      BY <2>1, <3>1, <3>2, <3>3
         DEF Inv, Stages, Sources, Values, Loading, Loaded, Settled, Merged, OwnSide, Parts,
             AfterFile, AfterFlags, FileSpeaks, Gives
  <2>2. ASSUME LoadConfig, NEW file \in FileInputs, MergeFile(file) PROVE Inv'
    <3>1. pc = "load" /\ pc' = "plugin" /\ UNCHANGED <<env, allowed, started>>
      BY <2>2 DEF LoadConfig
    <3>2. given' = [flag |-> given.flag, file |-> file, opt |-> given.opt]
      BY <2>2 DEF MergeFile, Inv, Sources
    <3>3. Sources'
      <4>1. failoverSet' \in BOOLEAN
        BY <2>2 DEF MergeFile
      <4> QED
        BY <3>1, <3>2, <4>1 DEF Inv, Sources
    <3>4. \A x \in Locals : value[x] = AfterFlags(x)
      BY <3>1 DEF Inv, Loading
    <3>5. ASSUME NEW x \in Locals, x # "loginterval" PROVE value'[x] = AfterFile(x)'
      <4>1. CASE x = "clientkey"
        <5>1. value'[x] = MergeKeys(file)
          BY <2>2, <4>1 DEF MergeFile, Locals, FlagNames
        <5>2. "clientkey" \in DOMAIN file => file["clientkey"] = "yes"
          BY <3>2, <3>3, SenseFacts DEF Sources
        <5> QED
          BY <3>2, <3>4, <4>1, <5>1, <5>2 DEF MergeKeys, AfterFile, AfterFlags, Gives
      <4>2. CASE x # "clientkey"
        <5>1. value'[x] = Merge(file, x)
          BY <2>2, <4>2 DEF MergeFile
        <5> QED
          BY <3>2, <3>4, <3>5, <4>2, <5>1 DEF Merge, AfterFile, AfterFlags, Gives
      <4> QED
        BY <4>1, <4>2
    <3>6. value'["loginterval"] \in {AfterFlags("loginterval"), <<"file", "no">>, <<"file", "yes">>}
      <4>1. value'["loginterval"] = Merge(file, "loginterval")
        BY <2>2 DEF MergeFile, Locals, FlagNames
      <4>2. "loginterval" \in DOMAIN file => file["loginterval"] \in {"yes", "no"}
        BY <3>2, <3>3, SenseFacts DEF Sources
      <4> QED
        BY <3>4, <4>1, <4>2 DEF Merge, Locals, FlagNames
    <3>7. Values'
      <4>1. DOMAIN value' = Locals
        BY <2>2 DEF MergeFile
      <4>2. \A x \in Locals : Sensed(AfterFile(x)')
        BY <3>3, SenseFacts DEF Sources, Sensed, Default, AfterFlags, AfterFile, Gives
      <4>3. Sensed(AfterFlags("loginterval")) /\ Sensed(<<"file", "no">>) /\ Sensed(<<"file", "yes">>)
        BY StoredSenses DEF Inv, Sensed, Locals, FlagNames
      <4>4. Sensed(value'["loginterval"])
        BY <3>6, <4>3
      <4> QED
        BY <3>5, <4>1, <4>2, <4>4 DEF Values
    <3>8. failoverSet' <=> FileSpeaks'
      BY <2>2, <3>2 DEF MergeFile, FileSpeaks, Gives
    <3> QED
      BY <3>1, <3>3, <3>5, <3>7, <3>8
         DEF Inv, Stages, Loading, Loaded, Settled, Plain, Merged, OwnSide, Parts
  <2>3. CASE Plugin
    <3>1. pc = "plugin" /\ pc' = "node" /\ UNCHANGED <<env, given, allowed, started>>
      BY <2>3 DEF Plugin
    <3>2. \A x \in Plain : value[x] = AfterFile(x)
      BY <3>1 DEF Inv, Loaded
    <3>3. CASE ~IsPlugin
      <4>1. UNCHANGED <<value, failoverSet>>
        BY <2>3, <3>3 DEF Plugin
      <4>2. \A x \in Plain : value'[x] = AfterOptions(x)'
        BY <3>1, <3>2, <3>3, <4>1
           DEF AfterOptions, AfterFile, AfterFlags, Gives, IsPlugin
      <4>3. failoverSet' <=> (FileSpeaks \/ (IsPlugin /\ Gives("opt", "failover")))'
        BY <3>1, <3>3, <4>1 DEF Inv, Loaded, FileSpeaks, Gives, IsPlugin
      <4> QED
        BY <3>1, <3>3, <4>1, <4>2, <4>3
           DEF Inv, Stages, Sources, Values, Loading, Loaded, Settled, Merged, OwnSide, Parts,
               IsPlugin
    <3>4. CASE IsPlugin
      <4>1. ASSUME NEW x \in Plain PROVE value'[x] = AfterOptions(x)
        <5>1. value'[x] = Option(x)
          BY <2>3, <3>4 DEF Plugin, Plain
        <5> QED
          BY <3>2, <3>4, <5>1 DEF Option, AfterOptions
      <4>2. \A x \in Plain : value'[x] = AfterOptions(x)'
        BY <3>1, <4>1 DEF AfterOptions, AfterFile, AfterFlags, Gives, IsPlugin
      <4>3. value'["s"] = Option("s")
        BY <2>3, <3>4 DEF Plugin, Locals, FlagNames
      <4>4. /\ value'["b"] = (IF Option("s")[2] = "yes" THEN <<"remote", "yes">> ELSE <<"local", "yes">>)
            /\ value'["d"] = (IF Option("s")[2] = "yes" THEN <<"local", "yes">> ELSE <<"remote", "yes">>)
        BY <2>3, <3>4 DEF Plugin, Addresses, Locals, FlagNames
      <4>5. OwnSide'
        BY <4>3, <4>4 DEF OwnSide, IsServer
      <4>6. failoverSet' <=> (FileSpeaks \/ (IsPlugin /\ Gives("opt", "failover")))'
        BY <2>3, <3>1, <3>4 DEF Plugin, FailoverChosen, Inv, Loaded, FileSpeaks, Gives, IsPlugin
      <4>7. Values'
        <5>1. DOMAIN value' = Locals
          BY <2>3, <3>4 DEF Plugin
        <5>2. value'["loginterval"] = Option("loginterval")
          BY <2>3, <3>4 DEF Plugin, Locals, FlagNames
        <5>3. Sensed(value'["loginterval"])
          BY <5>2, SenseFacts DEF Option, Sensed, Inv, Sources, Values, Locals, FlagNames, Gives
        <5>4. Sensed(value'["b"]) /\ Sensed(value'["d"])
          BY <4>4 DEF Sensed
        <5>5. \A x \in Plain : Sensed(value'[x])
          BY <4>1, StoredSenses DEF Inv, Plain
        <5> QED
          BY <5>1, <5>3, <5>4, <5>5 DEF Values, Plain
      <4>8. Sources'
        <5>1. failoverSet' \in BOOLEAN
          BY <2>3, <3>4 DEF Plugin, FailoverChosen, Inv, Sources
        <5> QED
          BY <3>1, <5>1 DEF Inv, Sources
      <4> QED
        BY <3>1, <4>2, <4>5, <4>6, <4>7, <4>8
           DEF Inv, Stages, Loading, Loaded, Settled, Merged, Parts
    <3> QED
      BY <3>3, <3>4
  <2>4. ASSUME UNCHANGED <<env, given, value, failoverSet>>,
               pc' \in {"serve", "connect", "running", "fatal", "exited"},
               pc' \in {"serve", "connect", "running"} => Merged
        PROVE  pc' \in Stages /\ (Sources /\ Values /\ Loading /\ Loaded /\ Settled /\ OwnSide)'
    <3>1. Sources' /\ Values' /\ Loading' /\ Loaded' /\ pc' \in Stages
      BY <2>4 DEF Inv, Sources, Values, Loading, Loaded, Stages
    <3>2. Settled'
      BY <2>4 DEF Inv, Settled, Merged, AfterOptions, AfterFile, AfterFlags, FileSpeaks, Gives, IsPlugin
    <3>3. OwnSide'
      BY <2>4 DEF Inv, OwnSide, Merged, IsPlugin, IsServer
    <3> QED
      BY <3>1, <3>2, <3>3
  <2>5. ASSUME Exit, pc # "running" PROVE Inv'
    <3>1. Parts'
      BY <2>5 DEF Exit, Inv, Parts
    <3> QED
      BY <2>4, <2>5, <3>1 DEF Exit, Inv
  <2>6. CASE StartNode
    <3>1. Parts'
      BY <2>6 DEF StartNode, Inv, Parts, IsServer
    <3> QED
      BY <2>4, <2>6, <3>1 DEF StartNode, Inv, Merged
  <2>7. CASE Serve
    <3>1. Parts'
      BY <2>7 DEF Serve, StatusLog, Inv, Parts, IsServer, Whitelist, IsSet
    <3> QED
      BY <2>4, <2>7, <3>1 DEF Serve, Inv, Merged
  <2>8. CASE Connect
    <3>1. Parts'
      BY <2>8 DEF Connect, StatusLog, Inv, Parts, IsServer, RunsMonitor, IsSet
    <3> QED
      BY <2>4, <2>8, <3>1 DEF Connect, Inv, Merged
  <2>9. CASE Stop
    <3>1. Parts'
      BY <2>9 DEF Stop, Inv, Parts
    <3> QED
      BY <2>4, <2>9, <3>1 DEF Stop, Inv
  <2>10. CASE UNCHANGED vars
    BY <2>10 DEF vars, Inv, Stages, Sources, Values, Loading, Loaded, Settled, Merged, OwnSide, Parts,
                 AfterOptions, AfterFile, AfterFlags, FileSpeaks, Gives, IsPlugin, IsServer,
                 Whitelist, RunsMonitor, IsSet
  <2> QED
    BY <2>1, <2>2, <2>3, <2>5, <2>6, <2>7, <2>8, <2>9, <2>10
       DEF Next, LoadConfig, NoConfig, NoNode, NoService
<1> QED
  BY <1>1, <1>2, PTL DEF Spec

-----------------------------------------------------------------------------
(* The invariants one by one, as the runs check them.                      *)

(* Every local variable of main has one of its values at every stage
   (main, LoadConfigFile, DetectSIP003). *)
THEOREM TypeCorrect == Spec => []TypeOK
<1>1. Inv => TypeOK
  BY DEF Inv, Stages, Sources, Values, Sensed, Parts, TypeOK
<1> QED
  BY <1>1, Stagewise, PTL

(* Flags and options win over the file, however the merges of main overwrite
   one another (main, ConfigPathFromOptions). *)
THEOREM StrongestSource == Spec => []Precedence
<1>1. Inv => Precedence
  <2> SUFFICES ASSUME Inv, Merged PROVE Precedence
    BY DEF Precedence
  <2>1. \A x \in Plain : value[x] = AfterOptions(x)
    BY DEF Inv, Settled
  <2>2. ASSUME NEW x \in Plain, x # "clientkey" \/ ~Gives("file", "clientkeys")
        PROVE  value[x][1] = Source(x)
    <3>1. CASE IsPlugin /\ Gives("opt", x) /\ given.opt[x] # "bad"
      <4>1. value[x] = <<"opt", given.opt[x]>>
        BY <2>1, <3>1 DEF AfterOptions
      <4>2. Source(x) = "opt"
        BY <3>1 DEF Source
      <4> QED
        BY <4>1, <4>2
    <3>2. CASE ~(IsPlugin /\ Gives("opt", x) /\ given.opt[x] # "bad")
      <4>1. value[x] = AfterFile(x)
        BY <2>1, <3>2 DEF AfterOptions
      <4>2. CASE Gives("flag", x)
        BY <2>2, <3>2, <4>1, <4>2 DEF AfterFile, AfterFlags, Source
      <4>3. CASE ~Gives("flag", x) /\ Gives("file", x)
        BY <2>2, <3>2, <4>1, <4>3 DEF AfterFile, Source
      <4>4. CASE ~Gives("flag", x) /\ ~Gives("file", x)
        <5>1. value[x] = Default(x)
          BY <2>2, <4>1, <4>4 DEF AfterFile, AfterFlags
        <5>2. Default(x)[1] = "default"
          BY DEF Default
        <5> QED
          BY <3>2, <4>4, <5>1, <5>2 DEF Source
      <4> QED
        BY <4>2, <4>3, <4>4
    <3> QED
      BY <3>1, <3>2
  <2> QED
    BY <2>2 DEF Precedence, Plain, Locals, FlagNames
<1> QED
  BY <1>1, Stagewise, PTL

(* A plugin takes its own side of the addresses, wherever its role was set
   (main). *)
THEOREM OwnAddresses == Spec => []OwnSide
BY Stagewise, PTL DEF Inv

(* A server runs without a whitelist only when nobody gave it a key (main). *)
THEOREM OpenServer == Spec => []OpenOnlyUnlisted
<1>1. Inv => OpenOnlyUnlisted
  <2> SUFFICES ASSUME Inv, pc = "running", IsServer, allowed = "open" PROVE OpenOnlyUnlisted
    BY DEF OpenOnlyUnlisted
  <2>1. ~IsSet(value["clientkey"])
    BY DEF Inv, Parts, Whitelist
  <2>2. value["clientkey"] = AfterOptions("clientkey")
    BY DEF Inv, Settled, Merged, Plain, Locals, FlagNames
  <2>3. \A source \in {"flag", "file", "opt"} :
          Gives(source, "clientkey") => given[source]["clientkey"] = "yes"
    BY SenseFacts DEF Inv, Sources, Gives
  <2>4. Gives("file", "clientkeys") => given.file["clientkeys"] \in {"yes", "no"}
    BY SenseFacts DEF Inv, Sources, Gives
  <2> QED
    BY <2>1, <2>2, <2>3, <2>4 DEF OpenOnlyUnlisted, IsSet, AfterOptions, AfterFile, AfterFlags
<1> QED
  BY <1>1, Stagewise, PTL

(* The failover monitor never runs on a server, against the word of an option or of
   a file that no flag overrides, or, where neither speaks, on a client without other
   peers; of a -failover flag only its being there counts (main, 416-425). *)
THEOREM MonitorOnlyWanted == Spec => []MonitorWanted
<1>1. Inv => MonitorWanted
  <2> SUFFICES ASSUME Inv, "monitor" \in started PROVE MonitorWanted
    BY DEF MonitorWanted
  <2>1. pc = "running" /\ ~IsServer /\ RunsMonitor
    BY DEF Inv, Parts
  <2>2. \A x \in {"failover", "peers"} : value[x] = AfterOptions(x)
    BY <2>1 DEF Inv, Settled, Merged, Plain, Locals, FlagNames
  <2>3. failoverSet <=> (FileSpeaks \/ (IsPlugin /\ Gives("opt", "failover")))
    BY <2>1 DEF Inv, Settled, Merged
  <2>4. Gives("opt", "failover") => given.opt["failover"] \in {"yes", "no"}
    BY SenseFacts DEF Inv, Sources, Gives
  <2>5. CASE failoverSet
    <3>1. value["failover"][2] = "yes"
      BY <2>1, <2>5 DEF RunsMonitor
    <3>2. CASE IsPlugin /\ Gives("opt", "failover")
      <4>1. Source("failover") = "opt" /\ value["failover"] = <<"opt", given.opt["failover"]>>
        BY <2>2, <2>4, <3>2 DEF Source, AfterOptions
      <4> QED
        BY <2>1, <3>1, <4>1 DEF MonitorWanted
    <3>3. CASE ~(IsPlugin /\ Gives("opt", "failover"))
      <4>1. Source("failover") = "file" /\ value["failover"] = <<"file", given.file["failover"]>>
        BY <2>2, <2>3, <2>5, <3>3 DEF Source, AfterOptions, AfterFile, FileSpeaks
      <4> QED
        BY <2>1, <3>1, <4>1 DEF MonitorWanted
    <3> QED
      BY <3>2, <3>3
  <2>6. CASE ~failoverSet
    <3>1. IsSet(value["peers"])
      BY <2>1, <2>6 DEF RunsMonitor
    <3>2. Source("peers") # "default"
      BY <2>2, <3>1 DEF IsSet, AfterOptions, AfterFile, AfterFlags, Source, Default
    <3>3. Source("failover") \in {"flag", "default"}
      BY <2>3, <2>6 DEF Source, FileSpeaks
    <3> QED
      BY <2>1, <3>2, <3>3 DEF MonitorWanted
  <2> QED
    BY <2>5, <2>6
<1> QED
  BY <1>1, Stagewise, PTL
=============================================================================
