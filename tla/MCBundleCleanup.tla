---------------------------- MODULE MCBundleCleanup ----------------------------
(***************************************************************************)
(* Small instances of BundleCleanup, and the pure modules on its inputs.   *)
(***************************************************************************)
EXTENDS BundleCleanup, Bootstrap, RuncOutput, LogLine

Absolute == <<Root, "run", "runc">>
SomeRequests ==
  {[binary |-> NoName, root |-> NoName], [binary |-> "crun", root |-> Absolute],
   [binary |-> "crun", root |-> <<"state">>]}

------------------------------------------------------------------------------
(* The runc client, in a bundle.                                           *)
SomeGlobals == GlobalOpts({Absolute, <<"..", "state">>})
SomeOpts == CreateOpts({<<"init.pid">>})
SomeBundle == <<Root, "bundle", "a">>

EveryCallIsRead ==
  \A global \in SomeGlobals, opts \in SomeOpts, dir \in {Unset, <<Root, "run">>} :
    ArgsUnderstood(SomeBundle, [runtime_dir |-> dir, temp_dir |-> <<Root, "tmp">>],
                   global, opts, "id", <<".">>)

(* A runc that runs was asked what the shim means, whatever the options of *)
(* these sets: an option behind the id would be a word to it, unnoticed.   *)
(* And the shim hears what it answers, above what it warns of, above what  *)
(* runs before it logged.                                                  *)
RuncUnderstands == running # {} => EveryCallIsRead /\ EveryRunIsHeard

------------------------------------------------------------------------------
(* containerd before and after its bootstrap protocol.                     *)
Names == [x \in {OPTIONS, "type.googleapis.com/containerd.runc.v1.Options", "runtimeoptions.v1.Options"} |->
            IF x = "runtimeoptions.v1.Options" THEN x ELSE OPTIONS]
Decoded == ("" :> [binary |-> "", shim_cgroup |-> ""])
             @@ ("crun" :> [binary |-> "crun", shim_cgroup |-> "/shims"])
SomeAnys == {NoAny} \cup {(TYPE_URL :> url) @@ (VALUE :> value) : url \in DOMAIN Names, value \in {"", "crun", Raw}}
SomeDaemons ==
  [modern : BOOLEAN, id : {"abc"}, namespace : {"k8s.io"}, debug : BOOLEAN,
   level : {-100, -8, -6, -4, -2, 0, 4, 12}, ttrpc : {"sock.ttrpc"}, grpc : {"", "sock"}, dir : {"dir"},
   options : SomeAnys]

SomeDaemonProcesses ==
  [cgroup : {"/"}, score : {-999, 0, 999, 1000}, thp_disabled : BOOLEAN, thp_told : BOOLEAN]
SomeFeatures == [idmap : {"yes", "absent"}, checkpoint : {"yes", "absent"}, userns : {"yes", "no"}]
SomeHosts ==
  UNION {[b -> {[known |-> FALSE]} \cup [known : {TRUE}, features : SomeFeatures]] :
           b \in SUBSET {"runc", "crun"}}
SomeAnnotations ==
  {("io.kubernetes.cri.sandbox-id" :> pod) : pod \in {"p", "q"}}
    \cup {("io.kubernetes.cri.sandbox-id" :> pod) @@ ("other" :> "r") : pod \in {"p", "q"}}

EveryDaemonIsServed ==
  \A d \in SomeDaemons :
    /\ Understood(d)
    /\ \A id \in {"abc", "other"} :
         NeverForAnother(d, [DaemonFlags(d) EXCEPT !.id = id])

EveryServerIsPlaced ==
  \A d \in {d \in SomeDaemons : d.level = 0 /\ ~ d.debug /\ d.grpc = ""} :
    /\ \A daemon \in SomeDaemonProcesses : Confined(d, daemon)
    /\ \A a, b \in SomeAnnotations : Grouped(d, a, b)

EveryDaemonIsInformed ==
  \A any \in SomeAnys, host \in SomeHosts : Informed([options |-> any], host)

(* A daemon of either generation is told what the shim and its runtime can *)
(* and gets the server it asked for: with its options, its verbosity and   *)
(* its address to publish to, in the cgroup and with the OOM score meant,  *)
(* one for each pod, and a reply it can read; no shim takes the identity   *)
(* of another's message; and what the server logs is read as it was given, *)
(* one line for each record.                                               *)
StartUnderstood ==
  shim = "up" =>
    EveryDaemonIsServed /\ EveryServerIsPlaced /\ EveryDaemonIsInformed /\ EveryRecordIsRead
================================================================================
