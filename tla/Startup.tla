------------------------------ MODULE Startup -------------------------------
(***************************************************************************)
(* main of the server (bin/beerus.rs): where the configuration comes from, *)
(* which checks reach which of its fields, what is asked of the provider   *)
(* and the gateway before the first request is served, and the poll task   *)
(* that runs beside the rest of main. A URL is abstracted to the network   *)
(* that answers there, or to what is wrong with it.                        *)
(***************************************************************************)
EXTENDS Integers, Sequences

CONSTANTS
  Networks,       \* the networks that providers and gateways are on
  Known,          \* those whose gateway Beerus knows: mainnet and sepolia
  CommandLines,   \* the words after the program's name
  Paths,          \* the files that exist
  Environments,   \* settings of the environment's variables
  Contents        \* settings that a file may have

\* A setting that is not there. poll_secs is unsigned, so no number is lost.
Absent == "absent"
NoPoll == -1

\* What is wrong with a URL: it is a word and no URL; it ends with a slash.
Wrong == {"word", "slash"}

Settings ==
  [rpc : Networks \cup {Absent, "word"}, gateway : Networks \cup Wrong \cup {Absent},
   dir : {Absent, "there", "missing", "readonly"}, poll : Int,
   garbled : BOOLEAN]     \* does a number or address not parse, or the file itself?

ASSUME StartupAssumption ==
  /\ Known \subseteq Networks
  /\ Networks \cap (Wrong \cup {Absent}) = {}
  /\ Environments \subseteq Settings
  /\ Contents \subseteq Settings
  /\ CommandLines \subseteq Seq(STRING)

VARIABLES
  pc,        \* the statement of main that is next
  args,      \* the words of the command line
  onDisk,    \* the contents of the file that the command line may name
  env,       \* the environment's settings
  tmp,       \* what the default directory is
  config,    \* ServerConfig
  version,   \* did the provider say it serves the right version?
  chain,     \* the network that the provider said it is on, if asked
  url,       \* the gateway's URL
  head,      \* the network of the head, once there is one
  poller     \* the poll task: "none", "spawned", "ticks", "panicked", "gone"

vars == <<pc, args, onDisk, env, tmp, config, version, chain, url, head, poller>>
given == <<args, onDisk, env, tmp>>

NoSettings ==
  [rpc |-> Absent, gateway |-> Absent, dir |-> Absent, poll |-> NoPoll, garbled |-> FALSE]

Init ==
  /\ pc = "argument"
  /\ args \in CommandLines /\ onDisk \in Contents /\ env \in Environments
  /\ tmp \in {"there", "missing"}
  /\ config = NoSettings
  /\ version = FALSE /\ chain = Absent /\ url = Absent /\ head = Absent
  /\ poller = "none"

\* main returns an error: the process ends, and the poll task with it.
Fail ==
  /\ pc' = "failed"
  /\ poller' = IF poller = "none" THEN "none" ELSE "gone"
  /\ UNCHANGED <<given, config, version, chain, url, head>>

-----------------------------------------------------------------------------
(* get_config. *)

DEFAULT_POLL_SECS == 30

\* Settings as they are after reading, the default values filled in.
WithDefaults(s) ==
  [s EXCEPT !.poll = IF @ = NoPoll THEN DEFAULT_POLL_SECS ELSE @,
            !.dir = IF @ = Absent THEN tmp ELSE @]

Readable(s) == ~s.garbled /\ s.rpc # Absent

\* The source: the file that the first word names, or the environment.
Sources ==
  IF args = <<>> THEN {env}
  ELSE IF Head(args) \in Paths THEN {onDisk} ELSE {}

ReadConfig ==
  /\ pc = "argument"
  /\ \E s \in Sources : Readable(s) /\ config' = WithDefaults(s)
  /\ pc' = "validate"
  /\ UNCHANGED <<given, version, chain, url, head, poller>>

ReadFails ==
  /\ pc = "argument"
  /\ \A s \in Sources : ~Readable(s)
  /\ Fail

\* Variant: the least period is not checked.
Valid_FromZero(c) == c.poll \in 0..3600

\* ServerConfig::validate: what has an attribute, but not the nested client.
Valid(c) == c.poll \in 1..3600

Validate ==
  /\ pc = "validate"
  /\ IF Valid(config)
     THEN pc' = "directory" /\ UNCHANGED <<given, config, version, chain, url, head, poller>>
     ELSE Fail

CheckDataDir ==
  /\ pc = "directory"
  /\ IF config.dir = "there"
     THEN pc' = "version" /\ UNCHANGED <<given, config, version, chain, url, head, poller>>
     ELSE Fail

-----------------------------------------------------------------------------
(* Client::new. *)

\* A request to what is no URL fails; any other is answered or fails.
Reachable(u) == u \in Networks

\* The provider says it serves the version that Beerus wants.
SpecVersion ==
  /\ pc = "version" /\ Reachable(config.rpc)
  /\ version' = TRUE
  /\ pc' = IF config.gateway = Absent THEN "chain" ELSE "client"
  /\ url' = config.gateway
  /\ UNCHANGED <<given, config, chain, head, poller>>

\* The request fails, or the version is another.
SpecVersionFails == pc = "version" /\ Fail

\* Variant: an unknown chain has the first known gateway.
GatewayOf_AnyChain(n) == {CHOOSE k \in Known : n \in Known => k = n}

\* get_gateway_url: the gateway of a chain, if there is one.
GatewayOf(n) == {n} \cap Known

\* The provider says which chain it is on, and may say any.
ChainId ==
  /\ pc = "chain" /\ Reachable(config.rpc)
  /\ \E n \in Networks : \E u \in GatewayOf(n) : chain' = n /\ url' = u
  /\ pc' = "client"
  /\ UNCHANGED <<given, config, version, head, poller>>

\* The request fails, the provider says an error, or the chain is unknown.
ChainIdFails == pc = "chain" /\ Fail

GatewayClientNew ==
  /\ pc = "client"
  /\ IF url # "slash"
     THEN pc' = "head" /\ UNCHANGED <<given, config, version, chain, url, head, poller>>
     ELSE Fail

-----------------------------------------------------------------------------
(* The first head, the poll task, the server. *)

GetState ==
  /\ pc = "head" /\ Reachable(url)
  /\ head' = url
  /\ pc' = "spawn"
  /\ UNCHANGED <<given, config, version, chain, url, poller>>

GetStateFails == pc = "head" /\ Fail

Spawn ==
  /\ pc = "spawn"
  /\ poller' = "spawned"
  /\ pc' = "bind"
  /\ UNCHANGED <<given, config, version, chain, url, head>>

\* The task runs whenever the runtime lets it. interval panics at a period of
\* zero, which ends the task and nothing else.
PollerStarts ==
  /\ poller = "spawned"
  /\ poller' = IF config.poll = 0 THEN "panicked" ELSE "ticks"
  /\ UNCHANGED <<pc, given, config, version, chain, url, head>>

Serve ==
  /\ pc = "bind"
  /\ pc' = "serving"
  /\ UNCHANGED <<given, config, version, chain, url, head, poller>>

\* The address is taken or not this machine's.
BindFails == pc = "bind" /\ Fail

Next ==
  \/ ReadConfig \/ ReadFails \/ Validate \/ CheckDataDir
  \/ SpecVersion \/ SpecVersionFails \/ ChainId \/ ChainIdFails \/ GatewayClientNew
  \/ GetState \/ GetStateFails \/ Spawn \/ PollerStarts \/ Serve \/ BindFails

Spec == Init /\ [][Next]_vars

\* The runtime runs the task that was spawned (tokio).
FairSpec == Spec /\ WF_vars(PollerStarts)

-----------------------------------------------------------------------------
(* Properties. *)

\* Requests are served only with a configuration that passed every check that
\* a later statement relies on, a provider that said it has the right version,
\* and a head from the gateway that was configured or, if none was, the one of
\* the chain that the provider named. In particular what validate overlooks
\* (config.rs:20) is found before anything is served.
ServesOnlyChecked ==
  pc = "serving" =>
    /\ config.poll \in 1..3600 /\ config.dir = "there"
    /\ config.rpc \in Networks /\ version
    /\ head \in Networks /\ head = url
    /\ url = IF config.gateway = Absent THEN chain ELSE config.gateway
    /\ config.gateway = Absent => chain \in Known

\* What is served is kept up to date: the task that was spawned, which nothing
\* watches, comes to its first tick and does not panic (bin/beerus.rs:24).
PollerTicks == pc = "serving" ~> poller = "ticks"

\* The #[validate(url)] of both URLs (config.rs:30): a configuration that was
\* validated has URLs.
UrlsValidated ==
  pc \notin {"argument", "validate", "failed"} =>
    config.rpc # "word" /\ config.gateway # "word"

\* What has been found by when.
IInv ==
  /\ pc \notin {"argument", "validate", "failed"} => Valid(config)
  /\ pc \notin {"argument", "validate", "directory", "failed"} => config.dir = "there"
  /\ pc \in {"chain", "client", "head", "spawn", "bind", "serving"} =>
       version /\ config.rpc \in Networks
  /\ pc = "chain" => config.gateway = Absent
  /\ pc \in {"client", "head", "spawn", "bind", "serving"} =>
       /\ url = IF config.gateway = Absent THEN chain ELSE config.gateway
       /\ config.gateway = Absent => chain \in Known
  /\ pc \in {"spawn", "bind", "serving"} => head \in Networks /\ head = url
=============================================================================
