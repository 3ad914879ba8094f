------------------------------ MODULE Bootstrap ------------------------------
(***************************************************************************)
(* The start action's input: what containerd 2.3 or an older one pipes to  *)
(* it, passes as flags and leaves in the environment, made into one set of *)
(* options, and what the server spawned from them gets to see; the action  *)
(* each command line leads to; and what the shim tells of itself.          *)
(*                                                                         *)
(* A protobuf message is a function from the numbers of the fields it      *)
(* carries to their values: any message decodes as any other whose fields  *)
(* have these types.  Raw is a value that is not UTF-8.                    *)
(***************************************************************************)
EXTENDS Integers, FiniteSets, CommandLine

CONSTANTS
  Raw,      \* a value that is not UTF-8
  NameOf,   \* the message each type URL names
  OptionsIn \* the runtime options each value decodes as: [binary, shim_cgroup]

INSTANCE_ID == 1
NAMESPACE == 2
LOG_LEVEL == 3
TTRPC == 5
GRPC == 6
BINARY == 7
EXTENSIONS == 8
SOCKET_DIR == 9
TYPE_URL == 1
VALUE == 2
OPTIONS == "containerd.runc.v1.Options"

BootstrapParams ==
  [f \in 1..9 |-> CASE f = LOG_LEVEL -> 0 [] f = EXTENSIONS -> <<>> [] OTHER -> ""]
(* An Any without anything: a type URL in 1, a value in 2.               *)
NoAny == [f \in {TYPE_URL, VALUE} |-> ""]

(* What is not the default goes over the wire, and comes back from it.     *)
Encode(m, default) == [f \in {f \in DOMAIN m : m[f] # default[f]} |-> m[f]]
Decode(wire, default) == [f \in DOMAIN default |-> IF f \in DOMAIN wire THEN wire[f] ELSE default[f]]

DEBUG == -4
LogLevels == {-8, DEBUG, 0, 4, 8, 10, 12}

(* Ties go to the less verbose level.                                      *)
nearest_log_level(value) ==
  LET off(l) == IF l < value THEN value - l ELSE l - value
  IN CHOOSE l \in LogLevels : \A k \in LogLevels : off(l) < off(k) \/ (off(l) = off(k) /\ l >= k)

NoParams == [kind |-> "legacy"]
ForAnother == [kind |-> "error"]
Mut_parse_bootstrap_params(wire, id, namespace) ==
  LET params == Decode(wire, BootstrapParams)
  IN IF DOMAIN wire = {} \/ Raw \in {params[INSTANCE_ID], params[NAMESPACE]} THEN NoParams
     ELSE IF params[INSTANCE_ID] = id /\ params[NAMESPACE] = namespace
     THEN [kind |-> "bootstrap", params |-> params]
     ELSE ForAnother

(* Options of a legacy daemon, an Any, decode as params that carry an      *)
(* identity and nothing else.                                              *)
parse_bootstrap_params(wire, id, namespace) ==
  LET params == Decode(wire, BootstrapParams)
  IN IF DOMAIN wire = {} \/ Raw \in {params[INSTANCE_ID], params[NAMESPACE]} THEN NoParams
     ELSE IF params[INSTANCE_ID] = id /\ params[NAMESPACE] = namespace
     THEN [kind |-> "bootstrap", params |-> params]
     ELSE IF DOMAIN wire \subseteq {INSTANCE_ID, NAMESPACE} THEN NoParams ELSE ForAnother

legacy_params(wire, flags, env) ==
  LET any == Decode(wire, NoAny)
  IN [BootstrapParams EXCEPT
        ![INSTANCE_ID] = flags.id, ![NAMESPACE] = flags.namespace, ![TTRPC] = env.ttrpc,
        ![GRPC] = IF flags.address # "" THEN flags.address ELSE env.grpc,
        ![BINARY] = flags.publish_binary,
        ![EXTENSIONS] = IF any[TYPE_URL] # "" THEN <<any>> ELSE <<>>]

(* The debug flag comes with either protocol; no address to publish to is  *)
(* an error now rather than in the detached served.                        *)
parse_start_params(wire, flags, env) ==
  LET parsed == parse_bootstrap_params(wire, flags.id, flags.namespace)
      given == IF parsed.kind = "bootstrap" THEN parsed.params ELSE legacy_params(wire, flags, env)
      params == IF flags.debug /\ given[LOG_LEVEL] > DEBUG
                THEN [given EXCEPT ![LOG_LEVEL] = DEBUG] ELSE given
  IN IF parsed.kind = "error" \/ params[TTRPC] = "" THEN [kind |-> "error"]
     ELSE [kind |-> parsed.kind, params |-> params]

StartOpts(params) ==
  [id |-> params[INSTANCE_ID], namespace |-> params[NAMESPACE], address |-> params[GRPC],
   ttrpc_address |-> params[TTRPC], socket_dir |-> params[SOCKET_DIR],
   debug |-> nearest_log_level(params[LOG_LEVEL]) <= DEBUG, extensions |-> params[EXTENSIONS]]

(* The type of an Any is compared without the host before its last "/";    *)
(* NameOf maps each type URL to that.                                      *)
any_is(any, name) == any[TYPE_URL] # "" /\ NameOf[any[TYPE_URL]] = name
Parsed(any) ==
  IF any[VALUE] \in DOMAIN OptionsIn THEN [ok |-> TRUE, options |-> OptionsIn[any[VALUE]]]
  ELSE [ok |-> FALSE]
extension(opts, name) ==
  LET at == {i \in DOMAIN opts.extensions : any_is(opts.extensions[i], name)}
  IN IF at = {} THEN NoAny ELSE opts.extensions[CHOOSE i \in at : \A j \in at : i <= j]

(* The group of a container: the first of the labels its spec is annotated *)
(* with, else the container itself.                                        *)
GROUP_LABELS == <<"io.containerd.runc.v2.group", "io.kubernetes.cri.sandbox-id">>
Grouping(id, annotations) ==
  LET at == {i \in DOMAIN GROUP_LABELS : GROUP_LABELS[i] \in DOMAIN annotations}
  IN IF at = {} THEN id
     ELSE annotations[GROUP_LABELS[CHOOSE i \in at : \A j \in at : i <= j]]

(* A socket is named for the daemon's address, the namespace and the group.*)
socket_address(opts, grouping) ==
  <<"unix", IF opts.socket_dir # "" THEN opts.socket_dir ELSE "SOCKET_ROOT/s",
    opts.address, opts.namespace, grouping>>

(* The path to bind: the address without its scheme.                       *)
parse_sockaddr(addr) == IF Head(addr) \in {"unix", "vsock"} THEN Tail(addr) ELSE addr

(* The arguments and the environment spawn gives the served.               *)
spawn_args(opts, grouping) ==
  Valued("namespace", opts.namespace) \o Valued("id", opts.id)
    \o Valued("address", opts.address) \o Valued("socket", socket_address(opts, grouping))
    \o Switch("debug", opts.debug)
server_env(opts, inherited) == IF opts.ttrpc_address # "" THEN opts.ttrpc_address ELSE inherited

(* args::parse, of what the server is started with.                        *)
ValuedFlags == {"namespace", "id", "socket", "bundle", "address", "publish-binary"}
Flags(args) ==
  LET seen == ReadArgs(args, ValuedFlags)
  IN [debug |-> Given(seen, "debug"), id |-> ValueOf(seen, "id"),
      namespace |-> ValueOf(seen, "namespace"), address |-> ValueOf(seen, "address"),
      socket |-> ValueOf(seen, "socket"), version |-> Given(seen, "v") \/ Given(seen, "version"),
      info |-> Given(seen, "info"), publish_binary |-> ValueOf(seen, "publish-binary"),
      action |-> IF seen.rest = <<>> THEN "" ELSE Head(seen.rest)]

(* What is done with a command line; any other word than an action, or     *)
(* none, is a server.  The version is the first that is looked for.        *)
parse_version(flags, then) == IF flags.version THEN "version" ELSE then
ActionOf(flags) ==
  parse_version(flags,
    IF flags.info THEN "info"
    ELSE IF flags.action \in {"start", "delete"} THEN flags.action
    ELSE IF flags.socket = "" THEN "error" ELSE "serve")

(* Levels 0 to 5 are off, error, warn, info, debug and trace.  The default *)
(* of the shim is info, and so is what RUST_LOG does not spell.            *)
configure_logging_level(debug, rust_log) ==
  LET level == IF rust_log \in 0..5 THEN rust_log ELSE 3
  IN IF debug /\ level < 4 THEN 4 ELSE level

(* The start action keeps huge pages from itself, and so from the served,  *)
(* and hands down what it was given; a runc gets that back.                *)
start_thp(disabled, told) ==
  [disabled |-> told \/ disabled, var |-> IF ~ told THEN "" ELSE IF disabled THEN "true" ELSE "false"]
restore_thp(disabled, var) == IF var \in {"true", "false"} THEN var = "true" ELSE disabled

(* The served is put in the cgroup the options name, and is to be killed   *)
(* for want of memory before its parent's parent, the daemon.              *)
OOM_SCORE_ADJ_MAX == 1000
adjust_oom_score(parent, own) == IF parent < OOM_SCORE_ADJ_MAX THEN parent + 1 ELSE own
add_task_to_cgroup(name, own) == IF name = "" THEN own ELSE name
confine_shim(opts, daemon) ==
  LET any == extension(opts, OPTIONS)
      name == IF any = NoAny THEN "" ELSE Parsed(any).options.shim_cgroup
  IN IF any # NoAny /\ ~ Parsed(any).ok THEN [ok |-> FALSE]
     ELSE [ok |-> TRUE, cgroup |-> add_task_to_cgroup(name, daemon.cgroup),
           score |-> adjust_oom_score(daemon.score, daemon.score)]

(* The reply: protobuf for a daemon that sent protobuf, else JSON.         *)
encode_start_result(address, kind) ==
  IF kind = "legacy" THEN [json |-> TRUE, version |-> 3, address |-> address, protocol |-> "ttrpc"]
  ELSE [json |-> FALSE, version |-> 3, address |-> address, protocol |-> "ttrpc"]

------------------------------------------------------------------------------
(* The info action.  Features are what "runc features" prints, each field  *)
(* "yes", "no" or "absent"; a runtime may also be missing or not know the  *)
(* command.                                                                *)
read_info_options(wire) == IF DOMAIN wire = {} THEN NoAny ELSE Decode(wire, NoAny)

Lowered(field) == IF field = "absent" THEN field ELSE "no"
supported(features) == [features EXCEPT !.idmap = Lowered(@), !.checkpoint = Lowered(@)]

NoFeatures == [idmap |-> "absent", checkpoint |-> "absent", userns |-> "absent"]
runc_features(binary, host) ==
  IF binary \in DOMAIN host THEN host[binary] ELSE [known |-> FALSE]

(* Options of another type are not read; those of this one have to parse.  *)
(* A runtime that does not tell its features is no error.                  *)
runtime_info(any, host) ==
  LET own == any_is(any, OPTIONS)
      named == IF own THEN Parsed(any).options.binary ELSE ""
      found == runc_features(IF named = "" THEN "runc" ELSE named, host)
  IN IF own /\ ~ Parsed(any).ok THEN [ok |-> FALSE]
     ELSE [ok |-> TRUE, options |-> IF own THEN any ELSE NoAny,
           features |-> IF found.known THEN supported(found.features) ELSE NoFeatures]

------------------------------------------------------------------------------
(* A daemon: its generation, its identity for the shim, the options it     *)
(* wants to pass (an Any, or none), the addresses it can be reached at,    *)
(* the directory it wants the socket in.                                   *)
Input(d) ==
  IF d.modern
  THEN Encode([BootstrapParams EXCEPT
         ![INSTANCE_ID] = d.id, ![NAMESPACE] = d.namespace, ![LOG_LEVEL] = d.level,
         ![TTRPC] = d.ttrpc, ![GRPC] = d.grpc, ![SOCKET_DIR] = d.dir,
         ![EXTENSIONS] = IF d.options = NoAny THEN <<>> ELSE <<d.options>>], BootstrapParams)
  ELSE Encode(d.options, NoAny)

FlagsFor(d, word) ==
  Flags(Switch("debug", d.debug) \o Valued("namespace", d.namespace) \o Valued("id", d.id)
        \o Valued("address", d.grpc) \o Valued("publish-binary", "containerd") \o <<Word(word)>>)
DaemonFlags(d) == FlagsFor(d, "start")
Environment(d) == [ttrpc |-> IF d.modern THEN "" ELSE d.ttrpc, grpc |-> ""]

Started(d) == parse_start_params(Input(d), DaemonFlags(d), Environment(d))
ServerOf(d) == Flags(spawn_args(StartOpts(Started(d).params), d.id))

(* Options of the shim's own type that do not parse end the start.         *)
Sound(d) == any_is(d.options, OPTIONS) => Parsed(d.options).ok
Asked(d) == IF any_is(d.options, OPTIONS) THEN OptionsIn[d.options[VALUE]]
            ELSE [binary |-> "", shim_cgroup |-> ""]

(* A daemon of either generation gets a shim that knows it: a server of    *)
(* its container and namespace, which publishes to it, is bound where it   *)
(* looks for it (the path without a scheme), has the options and           *)
(* the verbosity it asked for, and a reply in the format it can read.      *)
Understood(d) ==
  LET started == Started(d)
      opts == StartOpts(started.params)
      served == ServerOf(d)
  IN /\ \A word \in {"start", "delete"} : ActionOf(FlagsFor(d, word)) = word
     /\ started.kind = IF d.modern THEN "bootstrap" ELSE "legacy"
     /\ encode_start_result("a", started.kind).json = ~ d.modern
     /\ [id |-> served.id, namespace |-> served.namespace, address |-> served.address] =
          [id |-> d.id, namespace |-> d.namespace, address |-> d.grpc]
     /\ ActionOf(served) = "serve" /\ served.socket = socket_address(opts, d.id)
     /\ Head(parse_sockaddr(served.socket)) = IF d.modern THEN d.dir ELSE "SOCKET_ROOT/s"
     /\ server_env(opts, Environment(d).ttrpc) = d.ttrpc
     /\ served.debug <=> d.debug \/ (d.modern /\ d.level < -2)
     /\ served.debug => \A rust_log \in -1..5 : configure_logging_level(TRUE, rust_log) >= 4
     /\ d.options # NoAny => extension(opts, NameOf[d.options[TYPE_URL]]) = d.options

(* The server is where the options want it and, next to the daemon, the    *)
(* first to go when memory is short; what it runs has the huge pages the   *)
(* daemon had, which the server itself does without.                       *)
Confined(d, daemon) ==
  LET confined == confine_shim(StartOpts(Started(d).params), daemon)
      thp == start_thp(daemon.thp_disabled, daemon.thp_told)
  IN /\ confined.ok <=> Sound(d)
     /\ Sound(d) =>
          /\ confined.score > daemon.score \/ daemon.score = OOM_SCORE_ADJ_MAX
          /\ confined.cgroup = IF Asked(d).shim_cgroup = "" THEN daemon.cgroup ELSE Asked(d).shim_cgroup
     /\ restore_thp(thp.disabled, thp.var) = daemon.thp_disabled
     /\ daemon.thp_told => thp.disabled

(* Containers of a pod, and no others, are served at one address.          *)
Grouped(d, a, b) ==
  LET address(id, annotations) ==
        socket_address(StartOpts(Started(d).params), Grouping(id, annotations))
      pod(annotations) == annotations["io.kubernetes.cri.sandbox-id"]
  IN (address("a", a) = address("b", b)) = (pod(a) = pod(b))

(* A message for another shim starts none with that other's identity.      *)
NeverForAnother(d, flags) ==
  LET started == parse_start_params(Input(d), flags, Environment(d))
  IN started.kind # "error" =>
       <<started.params[INSTANCE_ID], started.params[NAMESPACE]>> = <<flags.id, flags.namespace>>

(* The daemon is told of nothing that runc can and the shim cannot, and of *)
(* all else that the runtime it will run can; other options do not matter. *)
Informed(d, host) ==
  LET info == runtime_info(read_info_options(Encode(d.options, NoAny)), host)
      binary == IF Asked(d).binary = "" THEN "runc" ELSE Asked(d).binary
      known == IF binary \in DOMAIN host THEN host[binary].known ELSE FALSE
  IN IF ~ Sound(d) THEN ~ info.ok
     ELSE /\ info.ok
          /\ "yes" \notin {info.features.idmap, info.features.checkpoint}
          /\ info.features.userns = IF known THEN host[binary].features.userns ELSE "absent"
          /\ info.options = IF any_is(d.options, OPTIONS) THEN d.options ELSE NoAny
==============================================================================
