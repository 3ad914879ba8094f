----------------------------- MODULE MemoryCgroup -----------------------------
(***************************************************************************)
(* The memory cgroup of a running container: Task.update writes its limits *)
(* (crates/shim, cgroup.rs) and Task.stats reads them, each file with a    *)
(* system call of its own while the container goes on; on cgroup v1 an OOM *)
(* is told to containerd (crates/runc-shim, cgroup_memory.rs, task.rs).    *)
(*                                                                         *)
(* Memory is counted in units; what the kernel does with a limit is the    *)
(* part of the model that is not this code's.                              *)
(***************************************************************************)
EXTENDS Integers, Sequences, FiniteSets

CONSTANTS
  MaxUnits,  \* the largest finite limit
  Requests,  \* what update may be asked: [limit, swap], Unset or -1 or 0..MaxUnits,
             \* and whether other controllers' limits come with them
  Unset,
  MaxOoms,   \* bound on the processes the kernel kills
  MaxCalls   \* bound on the calls of update and stats

ASSUME ConstantsAssumption ==
  /\ Unset \notin Int
  /\ MaxUnits \in Nat \ {0} /\ MaxOoms \in Nat /\ MaxCalls \in Nat
  /\ Requests \subseteq [limit: {Unset} \cup -1..MaxUnits, swap: {Unset} \cup -1..MaxUnits,
                         others: BOOLEAN]

Infinity == MaxUnits + 1     \* the kernel's "max"
Value(l) == IF l = -1 THEN Infinity ELSE l

VARIABLES
  host,    \* [v2, accounting]: the hierarchy and whether swap is accounted
  limit,   \* the memory limit in force
  swap,    \* memory.swap.max, or on v1 the limit of memory and swap together
  anon, swapped,  \* what the container has in memory and in swap
  gone,    \* the cgroup has been removed
  upd,     \* the update that holds the write lock of the container table
  st,      \* the stats call that holds its read lock
  calls,   \* how many calls there were
  ooms,    \* how often the kernel killed a process of the container
  fd,      \* what the eventfd of the OOM monitor would read: OOMs, removal
  reader,  \* where the task that reads it is
  oomq,    \* what it has passed on to the task that sends TaskOOM
  told     \* the OOMs a TaskOOM was sent for

kernel == <<host, limit, swap, anon, swapped, gone>>
monitor == <<fd, reader, oomq, told>>
vars == <<kernel, upd, st, calls, ooms, monitor>>

Idle == [op |-> "none"]
Nothing == [ooms |-> 0, removed |-> FALSE]
Limits == 0..Infinity

Init ==
  /\ host \in [v2: BOOLEAN, accounting: BOOLEAN]
  /\ limit \in 1..Infinity
  /\ swap \in IF ~ host.accounting THEN {Infinity} ELSE IF host.v2 THEN Limits ELSE limit..Infinity
  /\ anon = 0 /\ swapped = 0 /\ gone = FALSE
  /\ upd = Idle /\ st = Idle /\ calls = 0 /\ ooms = 0
  /\ fd = Nothing
  /\ reader = [pc |-> "unregistered", ooms |-> 0] /\ oomq = <<>> /\ told = 0

------------------------------------------------------------------------------
(* The kernel.  Swap room: on v2 a limit of its own, on v1 the rest of the *)
(* common one; a host that does not account swap does not limit it.        *)
Fits(a, s, l, w) == a <= l /\ (host.v2 => s <= w) /\ (~ host.v2 => a + s <= w)
Signal == fd' = IF reader.pc = "unregistered" \/ host.v2 THEN fd
                ELSE [fd EXCEPT !.ooms = ooms']

Kill ==
  /\ ooms < MaxOoms
  /\ anon' = 0 /\ swapped' = 0
  /\ ooms' = ooms + 1
  /\ Signal

(* The container takes one more unit: into memory, against a unit that is  *)
(* swapped out, or against its life.                                       *)
Grow ==
  /\ ~ gone /\ anon + swapped < Infinity
  /\ IF Fits(anon + 1, swapped, limit, swap)
     THEN anon' = anon + 1 /\ UNCHANGED <<swapped, ooms, fd>>
     ELSE IF anon > 0 /\ Fits(anon, swapped + 1, limit, swap)
     THEN swapped' = swapped + 1 /\ UNCHANGED <<anon, ooms, fd>>
     ELSE Kill
  /\ upd' = IF upd.op = "update" THEN [upd EXCEPT !.calm = FALSE] ELSE upd
  /\ UNCHANGED <<host, limit, swap, gone, st, calls, reader, oomq, told>>

Shrink ==
  /\ ~ gone
  /\ \/ anon > 0 /\ anon' = anon - 1 /\ UNCHANGED swapped
     \/ swapped > 0 /\ swapped' = swapped - 1 /\ UNCHANGED anon
  /\ UNCHANGED <<host, limit, swap, gone, upd, st, calls, ooms, monitor>>

(* The last process is gone and runc removes the cgroup; first the files,  *)
(* then whoever listens on v1 is woken.                                    *)
Remove ==
  /\ ~ gone /\ gone' = TRUE
  /\ anon' = 0 /\ swapped' = 0
  /\ fd' = IF reader.pc = "unregistered" THEN fd ELSE [fd EXCEPT !.removed = TRUE]
  /\ UNCHANGED <<host, limit, swap, upd, st, calls, ooms, reader, oomq, told>>

------------------------------------------------------------------------------
Result(ok, value) == [ok |-> ok, value |-> value]

(* memory.swap.max out of the limit of memory and swap together.  Mutant:  *)
(* the value as it comes.                                                  *)
Mut_swap_for_v2(s, l) == IF s = 0 THEN Result(TRUE, Unset) ELSE Result(TRUE, s)

swap_for_v2(s, l) ==
  LET m == IF l = Unset THEN 0 ELSE l IN
  IF s = 0 THEN Result(TRUE, IF m = -1 THEN -1 ELSE Unset)
  ELSE IF s = -1 \/ m = -1 THEN Result(TRUE, s)
  ELSE IF m <= 0 \/ s < m THEN Result(FALSE, Unset)
  ELSE Result(TRUE, s - m)

(* What cgroups-rs reads a memory limit as: on v2 no limit is negative.    *)
limit_in_bytes == IF host.v2 /\ limit = Infinity THEN -1 ELSE limit

AskedLimit(r) == IF r.limit = 0 THEN Unset ELSE r.limit
AskedSwap(r) ==
  LET s == IF r.swap = Unset THEN 0 ELSE r.swap IN
  IF host.v2 THEN swap_for_v2(s, IF AskedLimit(r) = Unset /\ s > 0 THEN limit_in_bytes
                                 ELSE AskedLimit(r))
  ELSE Result(TRUE, IF s = 0 THEN Unset ELSE s)

(* Mutant: as on v1, whatever the version.                                 *)
Mut_swap_first_v1(l, s) == l # Unset /\ s # Unset /\ (s = -1 \/ limit_in_bytes < s)

swap_first(l, s) == host.v2 \/ (l # Unset /\ s # Unset /\ (s = -1 \/ limit_in_bytes < s))

Writes(r) ==
  LET l == AskedLimit(r)
      s == AskedSwap(r).value
      set_limit == IF l = Unset THEN <<>> ELSE <<[file |-> "limit", value |-> l]>>
      set_swap == IF s = Unset THEN <<>> ELSE <<[file |-> "swap", value |-> s]>>
      others == IF r.others THEN <<[file |-> "other", value |-> 1]>> ELSE <<>>
  IN others \o (IF swap_first(l, s) THEN set_swap \o set_limit ELSE set_limit \o set_swap) \o others

(* What the two limits will be, and whether the container can live in them.*)
Agreed(r) ==
  LET l == IF AskedLimit(r) = Unset THEN limit ELSE Value(r.limit)
      s == IF AskedSwap(r).value = Unset THEN swap ELSE Value(AskedSwap(r).value)
  IN /\ AskedSwap(r).ok
     /\ host.accounting \/ AskedSwap(r).value \in {Unset} \cup (IF host.v2 THEN {0, -1} ELSE {})
     /\ ~ host.v2 => l <= s /\ anon + swapped <= s
     /\ host.v2 => anon <= l \/ anon - l + swapped <= s

(* The cgroup of the init process, by what /proc says of it.               *)
get_cgroup == ~ gone

(* Task.update: the write lock is held to the end.                         *)
update(r) ==
  /\ upd = Idle /\ st = Idle /\ calls < MaxCalls
  /\ calls' = calls + 1
  /\ upd' = [op |-> "update", req |-> r, calm |-> TRUE, agreed |-> Agreed(r), ooms |-> ooms,
              todo |-> IF get_cgroup /\ AskedSwap(r).ok THEN Writes(r) ELSE <<>>,
              state |-> IF get_cgroup /\ AskedSwap(r).ok THEN "writing" ELSE "failed"]
  /\ UNCHANGED <<kernel, st, ooms, monitor>>

Written == upd' = [upd EXCEPT !.todo = Tail(@)]
Refused == upd' = [upd EXCEPT !.state = "failed"]
Writing(file) == upd.op = "update" /\ upd.state = "writing" /\ upd.todo # <<>>
                   /\ upd.todo[1].file = file

(* A limit below what is in memory: the rest is swapped out, or there is a *)
(* kill on v2 and a refusal on v1.                                         *)
set_limit ==
  LET l == Value(upd.todo[1].value)
      out == IF anon > l THEN anon - l ELSE 0
  IN
  /\ Writing("limit")
  /\ IF gone \/ (~ host.v2 /\ l > swap)
     THEN Refused /\ UNCHANGED <<limit, anon, swapped, ooms, fd>>
     ELSE /\ limit' = l
          /\ Written
          /\ IF host.v2 /\ out > 0 /\ swapped + out > swap THEN Kill
             ELSE anon' = anon - out /\ swapped' = swapped + out /\ UNCHANGED <<ooms, fd>>
  /\ UNCHANGED <<host, swap, gone, st, calls, reader, oomq, told>>

(* Without accounting there is no file to write to: fine on v2 when no swap*)
(* or no limit on it was asked for.                                        *)
set_swap ==
  LET s == Value(upd.todo[1].value) missing == gone \/ ~ host.accounting IN
  /\ Writing("swap")
  /\ IF missing
     THEN /\ UNCHANGED swap
          /\ IF host.v2 /\ upd.todo[1].value \in {0, -1} THEN Written ELSE Refused
     ELSE IF ~ host.v2 /\ (s < limit \/ s < anon + swapped) THEN Refused /\ UNCHANGED swap
     ELSE swap' = s /\ Written
  /\ UNCHANGED <<host, limit, anon, swapped, gone, st, calls, ooms, monitor>>

(* The limits of pids, cpus and huge pages; the kernel takes them or not.  *)
set_other ==
  /\ Writing("other")
  /\ \/ Written
     \/ upd' = [upd EXCEPT !.state = "failed", !.agreed = FALSE]
  /\ UNCHANGED <<kernel, st, calls, ooms, monitor>>

UpdateReply ==
  /\ upd.op = "update" /\ (upd.state = "failed" \/ upd.todo = <<>>)
  /\ upd' = Idle
  /\ UNCHANGED <<kernel, st, calls, ooms, monitor>>

------------------------------------------------------------------------------
(* Task.stats, under the read lock.  Mutant: without the lock.             *)
NotRead == [op |-> "stats", step |-> "memory", usage_limit |-> Unset, swap_limit |-> Unset]

Mut_stats ==
  /\ st = Idle /\ calls < MaxCalls /\ ~ gone
  /\ calls' = calls + 1
  /\ st' = NotRead
  /\ UNCHANGED <<kernel, upd, ooms, monitor>>

stats ==
  /\ upd = Idle /\ st = Idle /\ calls < MaxCalls /\ ~ gone
  /\ calls' = calls + 1
  /\ st' = NotRead
  /\ UNCHANGED <<kernel, upd, ooms, monitor>>

(* On v1 usages are reported, and no limit.                                *)
collect_metrics ==
  /\ ~ host.v2 /\ st.op = "stats" /\ st.step = "memory"
  /\ st' = [st EXCEPT !.step = "done"]
  /\ UNCHANGED <<kernel, upd, calls, ooms, monitor>>

(* On v2 the limits are, of the memory files first and then those of swap. *)
(* A file that is not there counts as 0.                                   *)
metric(value) == IF gone THEN 0 ELSE value

collect_metrics_v2 ==
  /\ host.v2 /\ st.op = "stats"
  /\ \/ st.step = "memory" /\ st' = [st EXCEPT !.step = "swap", !.usage_limit = metric(limit)]
     \/ /\ st.step = "swap"
        /\ st' = [st EXCEPT !.step = "done",
                            !.swap_limit = IF host.accounting THEN metric(swap) ELSE 0]
  /\ UNCHANGED <<kernel, upd, calls, ooms, monitor>>

StatsReply ==
  /\ st.op = "stats" /\ st.step = "done"
  /\ st' = Idle
  /\ UNCHANGED <<kernel, upd, calls, ooms, monitor>>

------------------------------------------------------------------------------
(* The path of the cgroup, out of what /proc says of the init process.     *)
CgroupFound == ~ gone

register_memory_event == reader' = [reader EXCEPT !.pc = "read"]

(* On v1 only, when Task.start has sent its event; without the cgroup it   *)
(* is logged and nobody listens.                                           *)
monitor_oom ==
  /\ ~ host.v2 /\ reader.pc = "unregistered"
  /\ CgroupFound /\ register_memory_event
  /\ UNCHANGED <<kernel, upd, st, calls, ooms, fd, oomq, told>>

(* One read takes all that was signalled since the one before.             *)
ReadEventfd ==
  /\ reader.pc = "read" /\ fd # Nothing
  /\ reader' = [pc |-> "check", ooms |-> fd.ooms]
  /\ fd' = Nothing
  /\ UNCHANGED <<kernel, upd, st, calls, ooms, oomq, told>>

(* The removal of the cgroup wakes the reader too.  Mutant: it is not      *)
(* looked whether it is that.                                              *)
Mut_CheckRemoved ==
  /\ reader.pc = "check"
  /\ oomq' = Append(oomq, reader.ooms) /\ reader' = [reader EXCEPT !.pc = "read"]
  /\ UNCHANGED <<kernel, upd, st, calls, ooms, fd, told>>

CheckRemoved ==
  /\ reader.pc = "check"
  /\ IF gone THEN reader' = [reader EXCEPT !.pc = "ended"] /\ UNCHANGED oomq
     ELSE oomq' = Append(oomq, reader.ooms) /\ reader' = [reader EXCEPT !.pc = "read"]
  /\ UNCHANGED <<kernel, upd, st, calls, ooms, fd, told>>

(* Mutant: the task that sends the events ends with the first.             *)
Mut_run_oom_monitor ==
  /\ oomq # <<>> /\ told = 0
  /\ told' = Head(oomq) /\ oomq' = Tail(oomq)
  /\ UNCHANGED <<kernel, upd, st, calls, ooms, fd, reader>>

run_oom_monitor ==
  /\ oomq # <<>>
  /\ told' = Head(oomq) /\ oomq' = Tail(oomq)
  /\ UNCHANGED <<kernel, upd, st, calls, ooms, fd, reader>>

------------------------------------------------------------------------------
Container == Grow \/ Shrink \/ Remove
Update == (\E r \in Requests : update(r)) \/ set_limit \/ set_swap \/ set_other \/ UpdateReply
Stats == stats \/ collect_metrics \/ collect_metrics_v2 \/ StatsReply
Reader == ReadEventfd \/ CheckRemoved
Monitor == monitor_oom \/ Reader \/ run_oom_monitor

Next == Container \/ Update \/ Stats \/ Monitor

Spec == Init /\ [][Next]_vars

(* The tasks of the runtime get their turn; nobody has to call, to grow or *)
(* to end.                                                                 *)
FairSpec == Spec /\ WF_vars(Reader) /\ WF_vars(run_oom_monitor)
------------------------------------------------------------------------------
(***************************************************************************)
(* Properties                                                              *)
(***************************************************************************)

(* An update that is answered with success has put in force what was asked:*)
(* the memory limit, and the limit of memory and swap together, which on v2*)
(* is written as a limit on swap alone and may come without a memory limit.*)
AppliedAsAsked ==
  (upd.op = "update" /\ upd.state = "writing" /\ upd.todo = <<>> /\ ~ gone /\ host.accounting) =>
    /\ upd.req.limit \notin {Unset, 0} => limit = Value(upd.req.limit)
    /\ upd.req.swap \notin {Unset, 0} =>
         \/ upd.req.swap = -1 /\ swap = Infinity
         \/ upd.req.swap > 0 /\ ~ host.v2 /\ swap = upd.req.swap
         \/ upd.req.swap > 0 /\ host.v2 /\ limit = Infinity /\ swap = upd.req.swap
         \/ upd.req.swap > 0 /\ host.v2 /\ limit + swap = upd.req.swap
    /\ (upd.req.swap = Unset /\ upd.req.limit = -1 /\ host.v2) => swap = Infinity

(* An update that the container can live with neither fails half way, for  *)
(* the order in which the kernel is given the two limits, nor has a process*)
(* killed, as long as the container asks for no more memory meanwhile.     *)
UpdateGraceful ==
  (upd.op = "update" /\ upd.agreed /\ upd.calm /\ ~ gone) =>
    upd.state # "failed" /\ ooms = upd.ooms

(* The two limits that a stats call reports were in force together.        *)
StatsNotTorn ==
  (st.op = "stats" /\ st.swap_limit # Unset /\ ~ gone /\ host.accounting) =>
    st.usage_limit = limit /\ st.swap_limit = swap

(* A TaskOOM tells of an OOM that no TaskOOM has told of; the removal of   *)
(* the cgroup, which wakes the same reader, is not taken for one.          *)
OomTrue == [][told' # told => told' > told /\ told' <= ooms]_vars

(* An OOM after the monitor was registered is told, if the cgroup stays.   *)
OomTold == \A n \in 1..MaxOoms : (fd.ooms = n) ~> (told >= n \/ gone)
==============================================================================
