------------------------------ MODULE Startup ------------------------------
(***************************************************************************)
(* main of cmd/yggss/main.go, with config.go, sip003.go and the            *)
(* constructors of api.go: the flags, the JSON file and the SIP003         *)
(* environment are merged one after the other into the local variables of  *)
(* main, and the parts of a server or of a client are started from them.   *)
(*                                                                         *)
(* A setting's value is where it comes from and its sense; the texts are   *)
(* left out.  The settings stand for all those merged alike: "serverkey"   *)
(* for the strings, key, password, scheme and sni, and for the positive    *)
(* numbers, the timeouts, periods and thresholds.                          *)
(***************************************************************************)
EXTENDS Naturals, FiniteSets

CONSTANT MaxGiven  \* at most so many settings are given, in all sources together

ASSUME GivenAssumption == MaxGiven \in Nat

FlagNames == {"c", "s", "b", "d", "serverkey", "clientkey", "peers", "mode", "loginterval", "failover"}
FileNames == (FlagNames \ {"c"}) \cup {"clientkeys"}
OptNames == FlagNames \ {"b", "d"}
Locals == FlagNames \ {"c"}

\* "yes" is a role of server, mode direct, failover on, a positive log interval, a
\* key or a list with one; "no" the opposite; "bad" a mode the options ignore.
Senses(source, name) ==
  {"yes"} \cup (IF \/ name \in {"mode", "failover", "clientkeys", "loginterval"}
                   \/ source = "flag" /\ name = "s" THEN {"no"} ELSE {})
          \cup (IF source = "opt" /\ name = "mode" THEN {"bad"} ELSE {})

\* What a source may give: some of its settings, each with a sense.
Inputs(source, names) ==
  UNION {{f \in [S -> {"yes", "no", "bad"}] : \A x \in S : f[x] \in Senses(source, x)} :
         S \in {T \in SUBSET names : Cardinality(T) <= MaxGiven}}
FlagInputs == Inputs("flag", FlagNames)
FileInputs == Inputs("file", FileNames)
OptInputs == Inputs("opt", OptNames)
Nothing == [x \in {} |-> "yes"]

VARIABLES
  pc,           \* the next part of main: "load", "plugin", "node", "serve", "connect",
                \* "running", or how it ended: "fatal", "exited"
  env,          \* the SS_* addresses: "none", "partial" or "full"
  given,        \* what each source gives; the file counts once it is read
  value,        \* the local variables of main: <<source, sense>>
  failoverSet,  \* main's local variable
  allowed,      \* the whitelist: "open" (nil) or "listed"
  started       \* the parts that run

vars == <<pc, env, given, value, failoverSet, allowed, started>>

Default(x) == <<"default", IF x \in {"failover", "loginterval"} THEN "yes" ELSE "no">>

\* Which settings a source gives, and whether main has a value.
Gives(source, x) == x \in DOMAIN given[source]
IsSet(v) == v[1] # "default" /\ v[2] # "no"
IsServer == value["s"][2] = "yes"

\* fs.Parse, with SS_PLUGIN_OPTIONS in the environment.
Init ==
  /\ pc = "load" /\ env \in {"none", "partial", "full"}
  /\ \E flags \in FlagInputs, opts \in OptInputs :
       /\ Cardinality(DOMAIN flags) + Cardinality(DOMAIN opts) <= MaxGiven
       /\ given = [flag |-> flags, file |-> Nothing, opt |-> opts]
       /\ value = [x \in Locals |-> IF x \in DOMAIN flags THEN <<"flag", flags[x]>> ELSE Default(x)]
  /\ failoverSet = FALSE /\ allowed = "open" /\ started = {}

Exit == pc' = "fatal" /\ UNCHANGED <<env, given, value, failoverSet, allowed, started>>

-----------------------------------------------------------------------------
(* The merge *)

\* DetectSIP003: the five variables or none.
IsPlugin == env = "full"

\* The path among the options, in any of its three forms; -c goes before it.
ConfigPathFromOptions == Gives("opt", "c")
HasConfig == Gives("flag", "c") \/ (IsPlugin /\ ConfigPathFromOptions)

\* The whitelist after the file: its list, unless it has none, replaces everything,
\* else its single key yields to the flag.
MergeKeys(file) ==
  IF "clientkeys" \in DOMAIN file THEN <<"file", file["clientkeys"]>>
  ELSE IF "clientkey" \in DOMAIN file /\ ~Gives("flag", "clientkey") THEN <<"file", "yes">>
  ELSE value["clientkey"]

\* Another setting after the file; the faulty variant forgets the flags.  A file
\* without log_interval says 0.
MergeOver(file, x) ==
  IF x \in DOMAIN file THEN <<"file", file[x]>> ELSE value[x]
Merge(file, x) ==
  IF Gives("flag", x) THEN value[x]
  ELSE IF x \in DOMAIN file THEN <<"file", file[x]>>
  ELSE IF x = "loginterval" THEN <<"file", "no">>
  ELSE value[x]

MergeFile(file) ==
  /\ given' = [given EXCEPT !.file = file]
  /\ value' = [x \in Locals |-> IF x = "clientkey" THEN MergeKeys(file) ELSE Merge(file, x)]
  /\ failoverSet' = ("failover" \in DOMAIN file /\ ~Gives("flag", "failover"))

LoadConfig ==
  /\ pc = "load"
  /\ \/ ~HasConfig /\ pc' = "plugin" /\ UNCHANGED <<given, value, failoverSet>>
     \/ /\ HasConfig /\ pc' = "plugin"
        /\ \E file \in FileInputs :
             /\ Cardinality(DOMAIN given.flag) + Cardinality(DOMAIN given.opt)
                  + Cardinality(DOMAIN file) <= MaxGiven
             /\ MergeFile(file)
  /\ UNCHANGED <<env, allowed, started>>

\* The file cannot be read or parsed.
NoConfig == pc = "load" /\ HasConfig /\ Exit

\* The addresses under shadowsocks, by the role that flags, file and options settle;
\* the faulty variant asks for the role before the options are read.
AddressesEarly(server) ==
  IF IsServer THEN [b |-> <<"remote", "yes">>, d |-> <<"local", "yes">>]
  ELSE [b |-> <<"local", "yes">>, d |-> <<"remote", "yes">>]
Addresses(server) ==
  IF server THEN [b |-> <<"remote", "yes">>, d |-> <<"local", "yes">>]
  ELSE [b |-> <<"local", "yes">>, d |-> <<"remote", "yes">>]

\* An option speaks for failover; the faulty variant takes the value only.
FailoverKept == failoverSet
FailoverChosen == failoverSet \/ Gives("opt", "failover")

\* The options overwrite everything, but a mode must be one; the faulty variant takes
\* any word.
AnyOption(x) == IF Gives("opt", x) THEN <<"opt", given.opt[x]>> ELSE value[x]
Option(x) ==
  IF Gives("opt", x) /\ given.opt[x] # "bad" THEN <<"opt", given.opt[x]>> ELSE value[x]

Plugin ==
  /\ pc = "plugin" /\ pc' = "node"
  /\ IF IsPlugin
     THEN /\ value' = [x \in Locals |->
                         IF x \in {"b", "d"} THEN Addresses(Option("s")[2] = "yes")[x] ELSE Option(x)]
          /\ failoverSet' = FailoverChosen
     ELSE UNCHANGED <<value, failoverSet>>
  /\ UNCHANGED <<env, given, allowed, started>>

-----------------------------------------------------------------------------
(* The start *)

\* NewNode and the extra peers, each of which may only fail with a warning.
StartNode ==
  /\ pc = "node" /\ IsSet(value["b"])
  /\ pc' = IF IsServer THEN "serve" ELSE "connect"
  /\ started' = {"node"}
  /\ UNCHANGED <<env, given, value, failoverSet, allowed>>

\* No listen address, or a bad private key.
NoNode == pc = "node" /\ Exit

\* A list of keys is a whitelist, a list of blanks and no list is none; the faulty
\* variant builds one for the direct endpoint only.
WhitelistIfDirect ==
  IF IsSet(value["clientkey"]) /\ value["mode"][2] = "yes" THEN "listed" ELSE "open"
Whitelist == IF IsSet(value["clientkey"]) THEN "listed" ELSE "open"

StatusLog == IF value["loginterval"][2] = "yes" THEN {"status"} ELSE {}

\* The link listener, the whitelist, the direct endpoint, the status log, srv.Run.
Serve ==
  /\ pc = "serve" /\ IsSet(value["d"])
  /\ pc' = "running" /\ allowed' = Whitelist
  /\ started' = started \cup {"listener", "server"} \cup StatusLog
                  \cup (IF value["mode"][2] = "yes" THEN {"direct"} ELSE {})
  /\ UNCHANGED <<env, given, value, failoverSet>>

\* The monitor: where there are peers, unless the file or an option settles it.
RunsMonitor ==
  /\ failoverSet \/ IsSet(value["peers"])
  /\ ~failoverSet \/ value["failover"][2] = "yes"

\* The peering with the server, the direct path and its prober, the client, the
\* monitor unless the address has no host, the identity check, the status log, cl.Run.
Connect ==
  /\ pc = "connect" /\ IsSet(value["serverkey"]) /\ IsSet(value["d"])
  /\ pc' = "running"
  /\ \E monitor \in {{}} \cup (IF RunsMonitor THEN {{"monitor"}} ELSE {}) :
       started' = started \cup {"peering", "client", "identity"} \cup monitor \cup StatusLog
                    \cup (IF value["mode"][2] = "yes" THEN {"direct", "prober"} ELSE {})
  /\ UNCHANGED <<env, given, value, failoverSet, allowed>>

\* A missing or malformed setting, or an address that cannot be listened on.
NoService == pc \in {"serve", "connect"} /\ Exit

\* The accept loop of a server fails; a client is told to stop.
Stop ==
  /\ pc = "running" /\ pc' = IF IsServer THEN "fatal" ELSE "exited"
  /\ started' = {}
  /\ UNCHANGED <<env, given, value, failoverSet, allowed>>

Next ==
  \/ LoadConfig \/ NoConfig \/ Plugin \/ StartNode \/ NoNode
  \/ Serve \/ Connect \/ NoService \/ Stop

Spec == Init /\ [][Next]_vars

-----------------------------------------------------------------------------
TypeOK ==
  /\ pc \in {"load", "plugin", "node", "serve", "connect", "running", "fatal", "exited"}
  /\ env \in {"none", "partial", "full"} /\ failoverSet \in BOOLEAN
  /\ given.flag \in FlagInputs /\ given.file \in FileInputs /\ given.opt \in OptInputs
  /\ DOMAIN value = Locals
  /\ \A x \in Locals : /\ value[x][1] \in {"default", "flag", "file", "opt", "local", "remote"}
                       /\ value[x][2] \in {"yes", "no"}
  /\ allowed \in {"open", "listed"}
  /\ started \subseteq {"node", "listener", "server", "peering", "client", "identity", "monitor",
                        "status", "direct", "prober"}

Merged == pc \in {"node", "serve", "connect", "running"}

\* The source the documentation names for a setting: the options of a complete
\* SIP003 environment, else the flag, else the file that was read, else the default.
Source(x) ==
  IF IsPlugin /\ Gives("opt", x) /\ given.opt[x] # "bad" THEN "opt"
  ELSE IF Gives("flag", x) THEN "flag"
  ELSE IF Gives("file", x) THEN "file" ELSE "default"

\* Every setting comes from the strongest source that gives it, whichever sources
\* were complete, found or read on the way ("Explicit flags and SIP003 environment
\* variables take precedence over the config file", config.go:10-13).  The whitelist
\* is the exception: client_keys overrides a -clientkey (main.go:151-153).
Precedence ==
  Merged => /\ \A x \in {"serverkey", "peers", "mode", "failover", "s"} : value[x][1] = Source(x)
            /\ ~Gives("file", "clientkeys") => value["clientkey"][1] = Source("clientkey")

\* Under shadowsocks a server listens on the remote address and forwards to the local
\* one, a client the other way round, wherever its role was set: by -s, by the file
\* or by an option, and whatever addresses the file holds (main.go:255-267).
OwnSide ==
  Merged /\ IsPlugin => /\ value["b"][1] = IF IsServer THEN "remote" ELSE "local"
                        /\ value["d"][1] = IF IsServer THEN "local" ELSE "remote"

\* A server that runs open was given no client key by any source in effect, unless
\* the file's list holds blanks only, which replaces all the others but an option's
\* (main.go:148-153, 203-205, 319-336).
OpenOnlyUnlisted ==
  pc = "running" /\ IsServer /\ allowed = "open" =>
    /\ ~(IsPlugin /\ Gives("opt", "clientkey"))
    /\ \/ Gives("file", "clientkeys") /\ given.file["clientkeys"] = "no"
       \/ \A source \in {"flag", "file"} : ~Gives(source, "clientkey")

\* The failover monitor, which may take down the only peering, runs only on a client,
\* and what its strongest source says of it holds: off or on in an option or in the
\* file; where nobody says anything, there must be other peers (main.go:178,
\* 416-425).  A -failover flag is not obeyed, and a file it overrides is not either:
\* whatever both say, a client with peers runs the monitor and one without does not
\* (main.go:79 and config.go:10-13 promise that the flag counts).
MonitorWanted ==
  "monitor" \in started =>
    LET source == Source("failover")
    IN /\ ~IsServer
       /\ source \in {"opt", "file"} => given[source]["failover"] = "yes"
       /\ source \in {"flag", "default"} => Source("peers") # "default"
=============================================================================
