---------------------------- MODULE MountOptions ----------------------------
(***************************************************************************)
(* The options of a rootfs mount (crates/shim, mount_linux.rs): which flags*)
(* of mount(2) they stand for, and the compaction of the lower directories *)
(* of an overlay whose options would not fit into a page.                  *)
(*                                                                         *)
(* A path is a sequence of characters, Slash one of them; the lowerdir     *)
(* option is the sequence of its directories, any other option is opaque.  *)
(***************************************************************************)
EXTENDS Naturals, Sequences, SequencesExt

Slash == "/"

(* MOUNT_FLAGS: the options that set flags and those that clear them.      *)
SetsFlags ==
  [bind |-> {"BIND"}, rbind |-> {"BIND", "REC"}, defaults |-> {}, remount |-> {"REMOUNT"},
   ro |-> {"RDONLY"}, noatime |-> {"NOATIME"}, nodiratime |-> {"NODIRATIME"},
   relatime |-> {"RELATIME"}, strictatime |-> {"STRICTATIME"}, nodev |-> {"NODEV"},
   noexec |-> {"NOEXEC"}, nosuid |-> {"NOSUID"}, mand |-> {"MANDLOCK"},
   dirsync |-> {"DIRSYNC"}, sync |-> {"SYNCHRONOUS"}]

ClearsFlags ==
  [rw |-> {"RDONLY"}, atime |-> {"NOATIME"}, diratime |-> {"NODIRATIME"},
   norelatime |-> {"RELATIME"}, nostrictatime |-> {"STRICTATIME"}, dev |-> {"NODEV"},
   exec |-> {"NOEXEC"}, suid |-> {"NOSUID"}, nomand |-> {"MANDLOCK"},
   async |-> {"SYNCHRONOUS"}]

Option(o) == [lower |-> FALSE, dirs |-> <<>>, name |-> o]
Lowerdir(dirs) == [lower |-> TRUE, dirs |-> dirs, name |-> "lowerdir"]

(* What an option adds to those before it, and what all amount to, read    *)
(* from left to right.                                                     *)
Nothing == [flags |-> {}, loop |-> FALSE, data |-> <<>>]
Reads(acc, o) ==
  IF o.name \in DOMAIN SetsFlags
  THEN [acc EXCEPT !.flags = @ \cup SetsFlags[o.name]]
  ELSE IF o.name \in DOMAIN ClearsFlags
  THEN [acc EXCEPT !.flags = @ \ ClearsFlags[o.name]]
  ELSE IF o.name = "loop" THEN [acc EXCEPT !.loop = TRUE]
  ELSE [acc EXCEPT !.data = Append(@, o)]

Parse(options) ==
  LET read[i \in 0..Len(options)] ==
        IF i = 0 THEN Nothing ELSE Reads(read[i - 1], options[i])
  IN read[Len(options)]

------------------------------------------------------------------------------
(* LowerdirCompactor.  The common prefix is one of characters, so it is cut*)
(* back to the last slash: /snapshots/1 and /snapshots/10 share no /1.     *)
(* Mutant: it is not cut back.                                             *)
Mut_trim_flawed_dir(s) == s

trim_flawed_dir(s) ==
  LET slash == SelectLastInSeq(s, LAMBDA c : c = Slash)
  IN SubSeq(s, 1, IF slash = 0 THEN 1 ELSE slash)

lowerdirs(options) ==
  FlattenSeq([i \in DOMAIN options |-> IF options[i].lower THEN options[i].dirs ELSE <<>>])

longest_common_prefix(dirs) == LongestCommonPrefix(ToSet(dirs))

NoPrefix == <<>>

lowerdir_prefix(options) ==
  LET dirs == lowerdirs(options)
      common == trim_flawed_dir(longest_common_prefix(dirs))
  IN IF Len(dirs) > 1 /\ common # <<Slash>> THEN common ELSE NoPrefix

Strip(path, prefix) == SubSeq(path, Len(prefix) + 1, Len(path))

(* The directory to change to, and the options as seen from there.         *)
compact(options) ==
  LET prefix == lowerdir_prefix(options)
      dirs == lowerdirs(options)
      relative == Lowerdir([i \in DOMAIN dirs |-> Strip(dirs[i], prefix)])
  IN [chdir |-> prefix,
      options |-> IF prefix = NoPrefix THEN options
                  ELSE [i \in DOMAIN options |->
                          IF options[i].lower THEN relative ELSE options[i]]]
------------------------------------------------------------------------------
(* An absolute path without empty components, as the snapshotters give it. *)
IsAbsolute(path) ==
  /\ Len(path) > 1 /\ path[1] = Slash /\ path[Len(path)] # Slash
  /\ \A i \in 1..Len(path) - 1 : path[i] = Slash => path[i + 1] # Slash

(* The options of a mount, with at most one lowerdir.                      *)
WellFormed(options) ==
  /\ options \in Seq([lower: BOOLEAN, dirs: Seq(Seq(STRING)), name: STRING])
  /\ \A i \in DOMAIN options : options[i].lower =>
       /\ options[i].name = "lowerdir"
       /\ \A path \in ToSet(options[i].dirs) : IsAbsolute(path)
       /\ \A j \in DOMAIN options : options[j].lower => i = j

(* A path as the kernel finds it from a directory.                         *)
Seen(dir, path) ==
  IF path # <<>> /\ path[1] = Slash THEN path
  ELSE (IF dir[Len(dir)] = Slash THEN dir ELSE Append(dir, Slash)) \o path

(* Of yes and no the options name yes last.                                *)
LastSays(options, yes, no) ==
  \E i \in DOMAIN options :
    /\ options[i].name = yes
    /\ \A j \in i + 1..Len(options) : options[j].name # no
==============================================================================
