---------------------------- MODULE BundleCleanup ----------------------------
(***************************************************************************)
(* What a create leaves behind, and the delete action that containerd runs *)
(* to clean up after it.  The create handler records its options in the    *)
(* bundle, mounts the rootfs and calls runc, a child that outlives the     *)
(* server; the server may be killed, or the handler dropped, at any step.  *)
(* The delete action is another process: all it knows is in the bundle.    *)
(***************************************************************************)
EXTENDS Naturals, FiniteSets, RuncArgs

CONSTANTS
  Tasks,
  Leader,       \* the task whose bundle is the server's working directory
  Requests,     \* what a create may ask for: a binary and a state directory
  DefaultBinary, DefaultRoot, NoName,
  NoFile, Torn, \* a file that is not there, or of which a part is
  Faults,       \* what may fail: "create", "delete", "umount"
  MaxKills      \* bound on the processes killed

ASSUME CleanupAssumption ==
  /\ Leader \in Tasks
  /\ NoFile # Torn
  /\ NoFile \notin {r.binary : r \in Requests}
  /\ MaxKills \in Nat

VARIABLES
  request,     \* what containerd asks of each task
  installed,   \* the runtimes found in the PATH
  shim,        \* the shim server: "up" or "down"
  pc,          \* where the create of each task is
  options, runtime,  \* the files of each bundle
  work,        \* what a thread of the server does for each create: "options",
               \* "runtime", "mount" or "none"
  mounted,     \* the bundles with something mounted on their rootfs
  running,     \* the tasks whose runc create runs
  containers,  \* the containers the runtimes have on record, and where
  action,      \* where the delete action of each task is
  read,        \* the binary and root a delete action goes by
  faulted, outlived,  \* history: a step of a delete action failed; the task's
                      \* mount or runc create was still running when it ran
  kills        \* history: the processes killed

cleanupVars == <<request, installed, shim, pc, options, runtime, work, mounted, running,
          containers, action, read, faulted, outlived, kills>>
given == <<request, installed>>
bundleFiles == <<options, runtime>>
cleaning == <<action, read, faulted, outlived>>
bundles == <<options, runtime, work, mounted>>

Bundle(t) == <<Root, t>>

(* create_runc: the client for a binary and a state directory, as seen by  *)
(* a process in the bundle of task "at".                                   *)
create_runc(t, r, at) ==
  [task |-> t,
   binary |-> IF r.binary = NoName THEN DefaultBinary ELSE r.binary,
   root |-> abs_path_buf(Bundle(at), IF r.root = NoName THEN DefaultRoot ELSE r.root)]
Client(t) == create_runc(t, request[t], Leader)
(* options.json.  Of its fields those without a default, which a reader has*)
(* to find; the others are read like them or not missed.                   *)
Fields == {"shim_cgroup", "binary_name", "root", "criu_image_path", "criu_work_path"}
Options(r) ==
  [f \in Fields |-> CASE f = "binary_name" -> r.binary [] f = "root" -> r.root [] OTHER -> NoName]
JsonOptions(o) == [f \in Fields |-> o[f]]
Parses(file) == file # Torn /\ (file = NoFile \/ DOMAIN file = Fields)
RootIn(file) == IF file = NoFile THEN NoName ELSE file["root"]

IsAbsolute(root) == root # <<>> /\ Head(root) = Root

(* A request is a binary and a state directory, its options are in a file  *)
(* that is there and whole; the default directory is absolute.             *)
ASSUME RequestsAssumption ==
  /\ \A r \in Requests :
       /\ r = [binary |-> r.binary, root |-> r.root]
       /\ JsonOptions(Options(r)) \notin {NoFile, Torn}
  /\ IsAbsolute(DefaultRoot)

CleanupInit ==
  /\ request \in [Tasks -> Requests]
  /\ installed \in SUBSET {Client(t).binary : t \in Tasks}
  /\ shim = "up"
  /\ pc = [t \in Tasks |-> "new"]
  /\ work = [t \in Tasks |-> "none"]
  /\ options = [t \in Tasks |-> NoFile] /\ runtime = [t \in Tasks |-> NoFile]
  /\ mounted = {} /\ running = {} /\ containers = {}
  /\ action = [t \in Tasks |-> "none"]
  /\ read = request
  /\ faulted = {} /\ outlived = {} /\ kills = 0

CreateGoes(t, from, to) == shim = "up" /\ pc[t] = from /\ pc' = [pc EXCEPT ![t] = to]

(* The creates of a server hold the write lock of its container map.       *)
Idle == \A t \in Tasks : pc[t] \in {"new", "created", "deleted", "failed"}

------------------------------------------------------------------------------
(* prepare_bundle: the options, the runtime, the rootfs, each on a thread  *)
(* that nothing but the server's end stops.  A file is written under       *)
(* another name, then renamed.                                             *)
Mut_Begin(t) ==
  /\ Idle /\ CreateGoes(t, "new", "options")
  /\ work' = [work EXCEPT ![t] = "options"]
  /\ options' = [options EXCEPT ![t] = Torn]
  /\ UNCHANGED <<given, shim, runtime, mounted, running, containers, cleaning, kills>>

Begin(t) ==
  /\ Idle /\ CreateGoes(t, "new", "options")
  /\ work' = [work EXCEPT ![t] = "options"]
  /\ UNCHANGED <<given, shim, bundleFiles, mounted, running, containers, cleaning, kills>>

(* The end of a thread's work; the handler goes on if it still waits.      *)
Works(t, w, to) ==
  /\ work[t] = w
  /\ pc' = IF pc[t] = w THEN [pc EXCEPT ![t] = to] ELSE pc
  /\ work' = [work EXCEPT ![t] = IF pc[t] = w /\ to \in {"runtime", "mount"} THEN to ELSE "none"]
  /\ UNCHANGED <<given, shim, running, containers, cleaning, kills>>

WriteOptions(t) ==
  /\ Works(t, "options", "runtime")
  /\ options' = [options EXCEPT ![t] = JsonOptions(Options(request[t]))]
  /\ UNCHANGED <<runtime, mounted>>

Mut_WriteRuntime(t) ==
  /\ Works(t, "runtime", "mount")
  /\ UNCHANGED <<options, runtime, mounted>>

WriteRuntime(t) ==
  /\ Works(t, "runtime", "mount")
  /\ runtime' = [runtime EXCEPT ![t] = request[t].binary]
  /\ UNCHANGED <<options, mounted>>

MountRootfs(t) ==
  /\ Works(t, "mount", "client")
  /\ mounted' = mounted \cup {t}
  /\ UNCHANGED bundleFiles

(* A write or a mount fails, a mount perhaps after others of the request.  *)
WorkFails(t) ==
  /\ "create" \in Faults
  /\ \E w \in {"options", "runtime", "mount"} :
       /\ Works(t, w, "failed")
       /\ mounted' \in {mounted, IF w = "mount" THEN mounted \cup {t} ELSE mounted}
  /\ UNCHANGED bundleFiles

(* create_runc looks the binary up; the create of the container runs it.   *)
RuncCreate(t) ==
  /\ Client(t).binary \in installed
  /\ CreateGoes(t, "client", "create")
  /\ running' = running \cup {t}
  /\ UNCHANGED <<given, shim, bundles, containers, cleaning, kills>>

NoBinary(t) ==
  /\ Client(t).binary \notin installed
  /\ CreateGoes(t, "client", "failed")
  /\ UNCHANGED <<given, shim, bundles, running, containers, cleaning, kills>>

(* A request's timeout drops its handler.                                  *)
Timeout(t) ==
  /\ \E from \in {"options", "runtime", "mount", "create"} : CreateGoes(t, from, "failed")
  /\ UNCHANGED <<given, shim, bundles, running, containers, cleaning, kills>>

(* The runtime, at work in its process: a record, then success or not.     *)
Records(t) ==
  /\ t \in running
  /\ containers' = containers \cup {Client(t)}
  /\ UNCHANGED <<given, shim, pc, bundles, running, cleaning, kills>>

RuncEnds(t) ==
  /\ t \in running
  /\ running' = running \ {t}
  /\ \E success \in (IF Client(t) \in containers THEN BOOLEAN ELSE {FALSE}) :
       /\ containers' = IF success THEN containers ELSE containers \ {Client(t)}
       /\ pc' = IF pc[t] = "create" /\ shim = "up"
                THEN [pc EXCEPT ![t] = IF success THEN "created" ELSE "failed"] ELSE pc
  /\ UNCHANGED <<given, shim, bundles, cleaning, kills>>

(* The delete of a task on record: runc delete, then the rootfs.           *)
TaskDelete(t) ==
  /\ CreateGoes(t, "created", "deleted")
  /\ containers' = containers \ {Client(t)}
  /\ mounted' = mounted \ {t}
  /\ UNCHANGED <<given, shim, bundleFiles, work, running, cleaning, kills>>

Kill ==
  /\ shim = "up" /\ kills < MaxKills
  /\ shim' = "down" /\ work' = [t \in Tasks |-> "none"] /\ kills' = kills + 1
  /\ UNCHANGED <<given, pc, bundleFiles, mounted, running, containers, cleaning>>

------------------------------------------------------------------------------
(* The delete action, called once the server is gone or does not have the  *)
(* task on record.  Without the files it takes the defaults.               *)
ReadBundle(t) ==
  /\ action[t] = "none"
  /\ shim = "down" \/ pc[t] \in {"failed", "deleted"}
  /\ read' = [read EXCEPT ![t] =
       [binary |-> IF runtime[t] = NoFile THEN NoName ELSE runtime[t],
        root |-> IF Parses(options[t]) THEN RootIn(options[t]) ELSE NoName]]
  /\ LET found == create_runc(t, read'[t], t).binary \in installed
     IN action' = [action EXCEPT ![t] = IF Parses(options[t]) /\ found THEN "delete" ELSE "error"]
  /\ faulted' = faulted \ {t} /\ outlived' = outlived \ {t}
  /\ UNCHANGED <<given, shim, pc, bundles, running, containers, kills>>

RuncDelete(t) ==
  /\ action[t] = "delete"
  /\ action' = [action EXCEPT ![t] = "umount"]
  /\ \/ /\ containers' = containers \ {create_runc(t, read[t], t)}
        /\ UNCHANGED faulted
     \/ /\ "delete" \in Faults
        /\ faulted' = faulted \cup {t}
        /\ UNCHANGED containers
  /\ outlived' = IF t \in running THEN outlived \cup {t} ELSE outlived
  /\ UNCHANGED <<given, shim, pc, bundles, running, read, kills>>

Umount(t) ==
  /\ action[t] = "umount"
  /\ action' = [action EXCEPT ![t] = "replied"]
  /\ \/ /\ mounted' = mounted \ {t}
        /\ UNCHANGED faulted
     \/ /\ "umount" \in Faults
        /\ faulted' = faulted \cup {t}
        /\ UNCHANGED mounted
  /\ outlived' = IF work[t] = "mount" THEN outlived \cup {t} ELSE outlived
  /\ UNCHANGED <<given, shim, pc, bundleFiles, work, running, containers, read, kills>>

(* containerd runs an action that was killed again.                        *)
KillAction(t) ==
  /\ action[t] \in {"delete", "umount"} /\ kills < MaxKills
  /\ action' = [action EXCEPT ![t] = "none"]
  /\ kills' = kills + 1
  /\ UNCHANGED <<given, shim, pc, bundles, running, containers, read, faulted, outlived>>

CleanupNext ==
  \/ Kill
  \/ \E t \in Tasks :
       \/ Begin(t) \/ WriteOptions(t) \/ WriteRuntime(t) \/ MountRootfs(t) \/ WorkFails(t)
       \/ RuncCreate(t) \/ NoBinary(t) \/ Timeout(t)
       \/ Records(t) \/ RuncEnds(t) \/ TaskDelete(t)
       \/ ReadBundle(t) \/ RuncDelete(t) \/ Umount(t) \/ KillAction(t)

CleanupSpec == CleanupInit /\ [][CleanupNext]_cleanupVars

------------------------------------------------------------------------------
SameDirectory(t) == request[t].root = NoName \/ IsAbsolute(request[t].root)

(* The delete action cleans up: when it has answered, and none of its own  *)
(* steps failed, no runtime has the task on record and nothing is mounted  *)
(* in its bundle, unless the create's own runc or mount was still running. *)
(* A relative state directory is another for the server than for the       *)
(* action.                                                                 *)
CleanupComplete ==
  \A t \in Tasks :
    action[t] = "replied" /\ t \notin faulted \cup outlived /\ SameDirectory(t) =>
      t \notin mounted /\ \A c \in containers : c.task # t

(* It fails on no file a killed server leaves: only for want of a binary.  *)
DeleteAnswers ==
  \A t \in Tasks : action[t] = "error" => create_runc(t, read[t], t).binary \notin installed
==============================================================================
