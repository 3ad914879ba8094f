----------------------------- MODULE RootfsMount -----------------------------
(***************************************************************************)
(* The rootfs of containers on one host: each shim mounts what the create  *)
(* request lists, one mount(2) sequence after the other, loop devices      *)
(* included, and unmounts it recursively at delete; the delete action of   *)
(* the shim binary does the same for a shim that failed or was killed.     *)
(*                                                                         *)
(* The mounts run on threads of the blocking pool, which serve other work  *)
(* before and after.  A mount point is a sequence of path components.      *)
(***************************************************************************)
EXTENDS Naturals, Sequences, FiniteSets, MountOptions

CONSTANTS
  Shims,
  Rootfses,    \* what a shim may be asked to mount: lists of [fs, big, options]
  Threads,     \* the threads of a shim's blocking pool
  LoopDevs, NoDev,
  NoShim,
  Faults,      \* what may fail: "chdir", "status", "mount", "remount"
  MaxKills,    \* bound on the shims killed
  MaxExtra     \* bound on the mounts others make below a rootfs

Udev == "udev"   \* whoever else opens a device that has changed

(* What may be asked of a shim, and where it is started.                   *)
Requests == UNION {ToSet(rootfs) : rootfs \in Rootfses}
Bundle == <<Slash, "b">>

ASSUME ConstantsAssumption ==
  /\ IsFiniteSet(Shims) /\ {NoShim, Udev} \cap Shims = {} /\ NoDev \notin LoopDevs
  /\ Threads # {}
  /\ MaxKills \in Nat /\ MaxExtra \in Nat
ASSUME RequestsAssumption ==
  /\ Rootfses \subseteq Seq(Requests)
  /\ \A r \in Requests : WellFormed(r.options)

VARIABLES
  pc,      \* where each shim, or its delete action, is
  todo,    \* the requests not yet mounted, the one in work first
  thread,  \* the thread that works for the shim
  cwd,     \* the working directory of each thread: a path
  dev,     \* the loop device a shim is setting up
  loop,    \* each device: its file, its flags, who has it open
  mounts,  \* the host's mounts, oldest first
  list,    \* the lines of mountinfo a recursive unmount has still to do
  found,   \* a shim that shut down found its address file
  kills, extra, leaked  \* history: shims killed, mounts by others, devices leaked

vars == <<pc, todo, thread, cwd, dev, loop, mounts, list, found, kills, extra, leaked>>
bounds == <<kills, extra>>

Rootfs(s) == <<s, "rootfs">>
Below(s) == <<s, "rootfs", "sub">>
Sibling(s) == <<s, "rootfs2">>
Mounted(p, image, d, ro) == [at |-> p, image |-> image, dev |-> d, ro |-> ro]

(* A device without a file.                                                *)
LoopInfo == [file |-> NoShim, auto |-> FALSE, ro |-> FALSE, open |-> {}]

MountPcs == {"next", "chdir", "free", "setfd", "status", "close", "mount", "remount"}

Init ==
  /\ pc = [s \in Shims |-> "next"]
  /\ todo \in [Shims -> Rootfses]
  /\ thread = [s \in Shims |-> CHOOSE t \in Threads : TRUE]
  /\ cwd = [s \in Shims |-> [t \in Threads |-> Bundle]]
  /\ dev = [s \in Shims |-> NoDev]
  /\ loop = [d \in LoopDevs |-> LoopInfo]
  /\ LET order == SetToSeq(Shims)
     IN mounts = [i \in DOMAIN order |-> Mounted(Sibling(order[i]), NoShim, NoDev, FALSE)]
  /\ list = [s \in Shims |-> {}]
  /\ found = [s \in Shims |-> FALSE]
  /\ kills = 0 /\ extra = 0 /\ leaked = {}

Goes(s, to) == pc' = [pc EXCEPT ![s] = to]

(* What mount_rootfs makes of a request; 512 bytes from a page it compacts.*)
Compacted(r) ==
  IF r.fs = "overlay" /\ r.big THEN compact(r.options)
  ELSE [chdir |-> NoPrefix, options |-> r.options]
Plan(r) ==
  LET c == Compacted(r) p == Parse(c.options)
  IN [chdir |-> c.chdir, flags |-> p.flags, loop |-> p.loop, data |-> p.data]
PlanOf == [r \in Requests |-> Plan(r)]
Work(s) == PlanOf[todo[s][1]]

(* The first mount call is left out for a remount without data.            *)
MountsFirst(w) == "REMOUNT" \notin w.flags \/ w.data # <<>>
BindReadOnly(w) == {"BIND", "RDONLY"} \subseteq w.flags
First(w) == IF ~ MountsFirst(w) THEN "remount" ELSE IF w.loop THEN "free" ELSE "mount"

------------------------------------------------------------------------------
(* prepare_bundle takes the requests in turn; a thread of the pool works.  *)
Begin(s) ==
  /\ pc[s] = "next" /\ todo[s] # <<>>
  /\ \E t \in Threads : thread' = [thread EXCEPT ![s] = t]
  /\ Goes(s, IF Work(s).chdir = NoPrefix THEN First(Work(s)) ELSE "chdir")
  /\ UNCHANGED <<todo, cwd, dev, loop, mounts, list, found, bounds, leaked>>

Ready(s) ==
  /\ pc[s] = "next" /\ todo[s] = <<>>
  /\ Goes(s, "ready")
  /\ UNCHANGED <<todo, thread, cwd, dev, loop, mounts, list, found, bounds, leaked>>

(* unshare(CLONE_FS) and chdir: the thread keeps the directory.            *)
Chdir(s) ==
  /\ pc[s] = "chdir"
  /\ cwd' = [cwd EXCEPT ![s][thread[s]] = Work(s).chdir]
  /\ Goes(s, First(Work(s)))
  /\ UNCHANGED <<todo, thread, dev, loop, mounts, list, found, bounds, leaked>>

(* A chdir that fails ends the whole process.                              *)
ChdirFails(s) ==
  /\ "chdir" \in Faults
  /\ pc[s] = "chdir"
  /\ Goes(s, "dead")
  /\ UNCHANGED <<todo, thread, cwd, dev, loop, mounts, list, found, bounds, leaked>>

------------------------------------------------------------------------------
(* The kernel's loop devices: a device with autoclear is detached when the *)
(* last file and the last mount that use it are gone.                      *)
InUse(d, open, ms) == open # {} \/ \E i \in DOMAIN ms : ms[i].dev = d
Settle(ls, ms) ==
  [d \in LoopDevs |-> IF ls[d].auto /\ ~ InUse(d, ls[d].open, ms)
                      THEN LoopInfo ELSE ls[d]]
LoopParams(s) == [readonly |-> "RDONLY" \in Work(s).flags, auto_clear |-> TRUE]
Closed(s) == [d \in LoopDevs |-> [loop[d] EXCEPT !.open = @ \ {s}]]

(* Others look at a device that has changed, as udev does, and so keep it. *)
Looks(d) ==
  /\ loop[d].file # NoShim /\ Udev \notin loop[d].open
  /\ loop' = [loop EXCEPT ![d].open = @ \cup {Udev}]
  /\ UNCHANGED <<pc, todo, thread, cwd, dev, mounts, list, found, bounds, leaked>>

LooksAway(d) ==
  /\ Udev \in loop[d].open
  /\ loop' = Settle([loop EXCEPT ![d].open = @ \ {Udev}], mounts)
  /\ UNCHANGED <<pc, todo, thread, cwd, dev, mounts, list, found, bounds, leaked>>

get_free_loop_dev(s) ==
  /\ pc[s] = "free"
  /\ \E d \in LoopDevs : loop[d].file = NoShim /\ dev' = [dev EXCEPT ![s] = d]
  /\ Goes(s, "setfd")
  /\ UNCHANGED <<todo, thread, cwd, loop, mounts, list, found, bounds, leaked>>

(* LOOP_SET_FD; a device opened without the right to write is read-only.   *)
(* Of two that were given one device the second gets EBUSY; setup_loop is  *)
(* to try the next then, but does not know the error by its text ("Device  *)
(* or resource busy"), so the mount fails.                                 *)
SetFd(s) ==
  /\ pc[s] = "setfd"
  /\ loop[dev[s]].file = NoShim
  /\ loop' = [loop EXCEPT ![dev[s]] = [file |-> s, auto |-> FALSE,
                                        ro |-> LoopParams(s).readonly, open |-> @.open \cup {s}]]
  /\ Goes(s, "status")
  /\ UNCHANGED <<todo, thread, cwd, dev, mounts, list, found, bounds, leaked>>

SetFdBusy(s) ==
  /\ pc[s] = "setfd"
  /\ loop[dev[s]].file # NoShim
  /\ Goes(s, "failed")
  /\ UNCHANGED <<todo, thread, cwd, dev, loop, mounts, list, found, bounds, leaked>>

(* LOOP_SET_STATUS64 sets autoclear.  Mutant: not for this one.            *)
Mut_SetStatus(s) ==
  /\ pc[s] = "status"
  /\ Goes(s, "close")
  /\ UNCHANGED <<todo, thread, cwd, dev, loop, mounts, list, found, bounds, leaked>>

SetStatus(s) ==
  /\ pc[s] = "status"
  /\ loop' = [loop EXCEPT ![dev[s]].auto = LoopParams(s).auto_clear]
  /\ Goes(s, "close")
  /\ UNCHANGED <<todo, thread, cwd, dev, mounts, list, found, bounds, leaked>>

(* When it fails LOOP_CLR_FD detaches the device again, as autoclear would.*)
SetStatusFails(s) ==
  /\ "status" \in Faults
  /\ pc[s] = "status"
  /\ loop' = Settle([Closed(s) EXCEPT ![dev[s]].auto = TRUE], mounts)
  /\ Goes(s, "failed")
  /\ UNCHANGED <<todo, thread, cwd, dev, mounts, list, found, bounds, leaked>>

(* setup_loop drops the file of the device when it returns its name.       *)
setup_loop(s) ==
  /\ pc[s] = "close"
  /\ loop' = Settle(Closed(s), mounts)
  /\ Goes(s, "mount")
  /\ UNCHANGED <<todo, thread, cwd, dev, mounts, list, found, bounds, leaked>>

------------------------------------------------------------------------------
Done(s) == Goes(s, "next") /\ todo' = [todo EXCEPT ![s] = Tail(@)]

(* mount(2): a bind mount ignores MS_RDONLY; a device needs a file.        *)
Mount(s) ==
  LET w == Work(s) d == IF w.loop THEN dev[s] ELSE NoDev IN
  /\ pc[s] = "mount"
  /\ w.loop => loop[d].file # NoShim /\ (loop[d].ro => "RDONLY" \in w.flags)
  /\ mounts' = Append(mounts, Mounted(Rootfs(s), IF w.loop THEN loop[d].file ELSE NoShim, d,
                                      "RDONLY" \in w.flags /\ "BIND" \notin w.flags))
  /\ IF BindReadOnly(w) THEN Goes(s, "remount") /\ UNCHANGED todo ELSE Done(s)
  /\ UNCHANGED <<thread, cwd, dev, loop, list, found, bounds, leaked>>

MountFails(s) ==
  /\ pc[s] = "mount"
  /\ "mount" \in Faults \/ (Work(s).loop /\ loop[dev[s]].file = NoShim)
  /\ Goes(s, "failed")
  /\ UNCHANGED <<todo, thread, cwd, dev, loop, mounts, list, found, bounds, leaked>>

TopAt(ms, p) == SelectLastInSeq(ms, LAMBDA m : m.at = p)

(* Mutant: the bind mount stays writable.                                  *)
Mut_Remount(s) ==
  /\ pc[s] = "remount"
  /\ Done(s)
  /\ UNCHANGED <<thread, cwd, dev, loop, mounts, list, found, bounds, leaked>>

(* The second mount call, which makes a bind mount read-only.              *)
Remount(s) ==
  /\ pc[s] = "remount"
  /\ mounts' = IF BindReadOnly(Work(s))
               THEN [mounts EXCEPT ![TopAt(mounts, Rootfs(s))].ro = TRUE]
               ELSE mounts
  /\ Done(s)
  /\ UNCHANGED <<thread, cwd, dev, loop, list, found, bounds, leaked>>

RemountFails(s) ==
  /\ "remount" \in Faults
  /\ pc[s] = "remount"
  /\ Goes(s, "failed")
  /\ UNCHANGED <<todo, thread, cwd, dev, loop, mounts, list, found, bounds, leaked>>

------------------------------------------------------------------------------
(* Someone else mounts below the rootfs of a running container.            *)
ExtraMount(s) ==
  /\ pc[s] \in {"ready", "unmount"} /\ extra < MaxExtra
  /\ TopAt(mounts, Rootfs(s)) # 0
  /\ mounts' = Append(mounts, Mounted(Below(s), NoShim, NoDev, FALSE))
  /\ extra' = extra + 1
  /\ UNCHANGED <<pc, todo, thread, cwd, dev, loop, list, found, kills, leaked>>

(* A killed process closes its files.                                      *)
Killed(s) ==
  /\ kills < MaxKills
  /\ pc[s] \in MountPcs \cup {"ready"}
  /\ kills' = kills + 1
  /\ loop' = Settle(Closed(s), mounts)
  /\ leaked' = leaked \cup (IF pc[s] = "status" THEN {dev[s]} ELSE {})
  /\ Goes(s, "dead")
  /\ UNCHANGED <<todo, thread, cwd, dev, mounts, list, found, extra>>

(* prefix_filter keeps the mount points below the rootfs; with the slash   *)
(* it appends, rootfs2 is not one of them.  Mutant: without.               *)
Mut_prefix_filter(s, p) == IsPrefix(Rootfs(s), p) \/ p = Sibling(s)

prefix_filter(s, p) == IsPrefix(Rootfs(s), p)

get_mounts(s) ==
  {[line |-> i, at |-> mounts[i].at] :
     i \in {j \in DOMAIN mounts : prefix_filter(s, mounts[j].at)}}

(* umount_recursive, by the shim's delete or by the delete action.         *)
umount_recursive(s) ==
  /\ pc[s] \in {"ready", "failed", "dead"}
  /\ list' = [list EXCEPT ![s] = get_mounts(s)]
  /\ Goes(s, IF pc[s] = "ready" THEN "unmount" ELSE "cleanup")
  /\ UNCHANGED <<todo, thread, cwd, dev, loop, mounts, found, bounds, leaked>>

Unmounting(s) == pc[s] \in {"unmount", "cleanup"}

(* The longest mount points come first, each as often as it was listed.    *)
Longest(lines) == CHOOSE e \in lines : \A f \in lines : Len(f.at) <= Len(e.at)

(* umount_all takes one mount after the other off a point, until there is  *)
(* none (EINVAL); a mount point that others are below is busy.             *)
Busy(p) ==
  \E i \in DOMAIN mounts :
    i > TopAt(mounts, p) /\ mounts[i].at # p /\ IsPrefix(p, mounts[i].at)

umount_all(s) ==
  LET e == Longest(list[s]) top == TopAt(mounts, e.at) IN
  /\ Unmounting(s) /\ list[s] # {}
  /\ IF top = 0
     THEN list' = [list EXCEPT ![s] = @ \ {e}] /\ UNCHANGED <<pc, mounts, loop>>
     ELSE IF Busy(e.at)
     THEN /\ Goes(s, IF pc[s] = "unmount" THEN "ready" ELSE "left")
          /\ UNCHANGED <<list, mounts, loop>>
     ELSE /\ mounts' = RemoveAt(mounts, top)
          /\ loop' = Settle(loop, mounts')
          /\ UNCHANGED <<pc, list>>
  /\ UNCHANGED <<todo, thread, cwd, dev, found, bounds, leaked>>

Unmounted(s) ==
  /\ Unmounting(s) /\ list[s] = {}
  /\ Goes(s, IF pc[s] = "unmount" THEN "deleted" ELSE "clean")
  /\ UNCHANGED <<todo, thread, cwd, dev, loop, mounts, list, found, bounds, leaked>>

(* The shim shuts down and reads "address", by a thread of the pool.       *)
ReadAddress(s) ==
  /\ pc[s] = "deleted"
  /\ \E t \in Threads : found' = [found EXCEPT ![s] = cwd[s][t] = Bundle]
  /\ Goes(s, "gone")
  /\ UNCHANGED <<todo, thread, cwd, dev, loop, mounts, list, bounds, leaked>>

------------------------------------------------------------------------------
MountStep(s) ==
  \/ Begin(s) \/ Ready(s) \/ Chdir(s) \/ ChdirFails(s) \/ Mount(s) \/ MountFails(s)
  \/ Remount(s) \/ RemountFails(s)
LoopStep(s) ==
  \/ get_free_loop_dev(s) \/ SetFd(s) \/ SetFdBusy(s)
  \/ SetStatus(s) \/ SetStatusFails(s) \/ setup_loop(s)
UnmountStep(s) == umount_all(s) \/ Unmounted(s)

Next ==
  \/ \E d \in LoopDevs : Looks(d) \/ LooksAway(d)
  \/ \E s \in Shims : \/ MountStep(s) \/ LoopStep(s) \/ UnmountStep(s)
                      \/ umount_recursive(s) \/ ReadAddress(s) \/ ExtraMount(s) \/ Killed(s)

Spec == Init /\ [][Next]_vars
------------------------------------------------------------------------------
(***************************************************************************)
(* Properties                                                              *)
(***************************************************************************)
TypeOK ==
  /\ pc \in [Shims -> MountPcs \cup {"ready", "failed", "dead", "unmount", "cleanup", "left",
                                     "deleted", "clean", "gone"}]
  /\ thread \in [Shims -> Threads]
  /\ cwd \in [Shims -> [Threads -> {Bundle} \cup {PlanOf[r].chdir : r \in Requests}]]
  /\ dev \in [Shims -> LoopDevs \cup {NoDev}]
  /\ loop \in [LoopDevs -> [file: Shims \cup {NoShim}, auto: BOOLEAN, ro: BOOLEAN,
                           open: SUBSET (Shims \cup {Udev})]]
  /\ kills \in 0..MaxKills /\ extra \in 0..MaxExtra /\ leaked \subseteq LoopDevs

(* Once its requests are done a rootfs is mounted as the last one asked:   *)
(* read-only if the last of its ro and rw says so, bind mounts included,   *)
(* which one call cannot make so, and the device of its image with it.     *)
MountedAsAsked ==
  [][\A s \in Shims :
       (pc[s] \in {"mount", "remount"} /\ pc'[s] = "next") =>
         /\ TopAt(mounts', Rootfs(s)) # 0
         /\ mounts'[TopAt(mounts', Rootfs(s))].ro = LastSays(todo[s][1].options, "ro", "rw")
         /\ (Work(s).loop /\ loop[dev[s]].file = s) =>
              loop[dev[s]].ro = LastSays(todo[s][1].options, "ro", "rw")]_vars

(* An overlay is mounted from the layers it was asked for: what it is told *)
(* of them means the same where its thread is, whatever that thread and    *)
(* others did before.                                                      *)
LayersFound ==
  \A s \in Shims : pc[s] = "mount" =>
    LET asked == lowerdirs(todo[s][1].options)
        told == lowerdirs(Compacted(todo[s][1]).options) IN
    /\ Len(told) = Len(asked)
    /\ \A i \in DOMAIN asked : Seen(cwd[s][thread[s]], told[i]) = asked[i]

(* A delete that succeeds leaves nothing mounted at or below the rootfs,   *)
(* whatever was stacked there and wherever the shim was killed before, and *)
(* never takes away what is mounted beside it.                             *)
Unmounts ==
  /\ TypeOK
  /\ \A s \in Shims :
       /\ pc[s] \in {"deleted", "gone", "clean"} =>
            \A i \in DOMAIN mounts : ~ IsPrefix(Rootfs(s), mounts[i].at)
       /\ TopAt(mounts, Sibling(s)) # 0

(* A loop device is bound only while a shim sets it up or a mount uses it, *)
(* but for one whose shim was killed before it had set autoclear.          *)
LoopsFreed ==
  \A d \in LoopDevs :
    loop[d].file # NoShim => d \in leaked \/ InUse(d, loop[d].open, mounts)
==============================================================================
