------------------------------- MODULE RuncArgs -------------------------------
(***************************************************************************)
(* The runc client: the command line each of its calls becomes, and what   *)
(* is made of the child's end.  runc reads its global flags up to the      *)
(* command, the command's flags up to the first other word, then the rest. *)
(*                                                                         *)
(* A path is a sequence of components; an absolute one starts with Root.   *)
(***************************************************************************)
EXTENDS Naturals, CommandLine

CONSTANTS
  Root,    \* the component an absolute path starts with
  Unset    \* an option that was not given

(* std::path::absolute, then ".." taken off with what is before it.        *)
abs_path_buf(cwd, path) ==
  LET absolute == IF path # <<>> /\ Head(path) = Root THEN path ELSE cwd \o path
      push(done, c) == IF c = ".." THEN IF Len(done) > 1 THEN Front(done) ELSE done
                       ELSE IF c = "." THEN done ELSE Append(done, c)
      normal[i \in 0..Len(absolute)] ==
        IF i = 0 THEN <<>> ELSE push(normal[i - 1], absolute[i])
  IN normal[Len(absolute)]

Path(cwd, name, path) ==
  IF path = Unset THEN <<>> ELSE Valued(name, abs_path_buf(cwd, path))

(* What the builders of the options can make.                              *)
GlobalOpts(paths) ==
  [root : paths \cup {Unset}, debug : BOOLEAN, log : paths \cup {Unset},
   log_format : {"json", "text"}, systemd_cgroup : BOOLEAN, rootless : BOOLEAN \cup {Unset}]
CreateOpts(paths) ==
  [pid_file : paths \cup {Unset}, console_socket : paths \cup {Unset}, no_pivot : BOOLEAN,
   no_new_keyring : BOOLEAN, detach : BOOLEAN]

(* GlobalOpts::output: what precedes the command in every call.            *)
GlobalArgs(cwd, o) ==
  Path(cwd, "root", o.root) \o Switch("debug", o.debug) \o Path(cwd, "log", o.log)
    \o Valued("log-format", o.log_format) \o Switch("systemd-cgroup", o.systemd_cgroup)
    \o IF o.rootless = Unset THEN <<>>
       ELSE <<[dash |-> TRUE, text |-> IF o.rootless THEN "rootless=true" ELSE "rootless=false"]>>

(* CreateOpts and ExecOpts; an exec has neither no_pivot nor the keyring.  *)
CreateArgs(cwd, o) ==
  Path(cwd, "pid-file", o.pid_file) \o Path(cwd, "console-socket", o.console_socket)
    \o Switch("no-pivot", o.no_pivot) \o Switch("no-new-keyring", o.no_new_keyring)
    \o Switch("detach", o.detach)
ExecArgs(cwd, o) == CreateArgs(cwd, [o EXCEPT !.no_pivot = FALSE, !.no_new_keyring = FALSE])

(* What runc is to read from a file gets a name of its own in the runtime  *)
(* directory of the user, else in the one for temporary files.             *)
write_value_to_temp_file(env, name) ==
  Append(IF env.runtime_dir # Unset THEN env.runtime_dir ELSE env.temp_dir, name)

Mut_launch_bundle(command, cwd, id, bundle, o) ==
  <<Word(command), Flag("bundle"), Word(abs_path_buf(cwd, bundle)), Word(id)>> \o CreateArgs(cwd, o)

launch_bundle(command, cwd, id, bundle, o) ==
  <<Word(command), Flag("bundle"), Word(abs_path_buf(cwd, bundle))>>
    \o CreateArgs(cwd, o) \o <<Word(id)>>
exec(cwd, id, spec, o) ==
  <<Word("exec"), Flag("process"), Word(spec)>> \o ExecArgs(cwd, o) \o <<Word(id)>>
DeleteArgs(force) == Switch("force", force)
delete(id, force) == <<Word("delete")>> \o DeleteArgs(force) \o <<Word(id)>>
KillArgs(all) == Switch("all", all)
kill(id, all, sig) == <<Word("kill")>> \o KillArgs(all) \o <<Word(id), Word(sig)>>
update(id, resources) == <<Word("update")>> \o Valued("resources", resources) \o <<Word(id)>>
list == <<Word("list"), Flag("format=json")>>
ps(id) == <<Word("ps"), Flag("format=json"), Word(id)>>
stats(id) == <<Word("events"), Flag("stats"), Word(id)>>
plain(command, id) == <<Word(command), Word(id)>>

------------------------------------------------------------------------------
GlobalFlags == {"root", "log", "log-format", "criu"}
CommandFlags == {"bundle", "pid-file", "console-socket", "process", "resources"}

(* runc's own reading of its command line.                                 *)
Runc(args) ==
  LET global == ReadArgs(args, GlobalFlags)
      command == Head(global.rest)
      at == CHOOSE i \in DOMAIN args :
              /\ ReadArgs(SubSeq(args, 1, i - 1), GlobalFlags).rest = <<>>
              /\ ReadArgs(SubSeq(args, 1, i), GlobalFlags).rest # <<>>
  IN [global |-> global, command |-> command,
      local |-> ReadArgs(SubSeq(args, at + 1, Len(args)), CommandFlags)]

(* runc works in the root and on the container it is asked to, whatever    *)
(* the options: in the right state directory, with the bundle and pid file *)
(* as the shim knows them, with force and with no less than it was told.   *)
ArgsUnderstood(cwd, env, global, opts, id, bundle) ==
  LET at(args) == Runc(GlobalArgs(cwd, global) \o args)
      asks(args, command, words) ==
        LET seen == at(args) IN
        /\ seen.command = command /\ seen.local.rest = words /\ seen.local.awaits = ""
        /\ Given(seen.global, "root") = (global.root # Unset)
        /\ Given(seen.global, "root") => ValueOf(seen.global, "root") = abs_path_buf(cwd, global.root)
        /\ Given(seen.global, "systemd-cgroup") = global.systemd_cgroup
      carries(args, name, path) ==
        IF path = Unset THEN ~ Given(at(args).local, name)
        ELSE ValueOf(at(args).local, name) = abs_path_buf(cwd, path)
      create == launch_bundle("create", cwd, id, bundle, opts)
      spec == write_value_to_temp_file(env, "spec.json")
      execs == exec(cwd, id, spec, opts)
  IN /\ asks(create, "create", <<id>>) /\ asks(execs, "exec", <<id>>)
     /\ carries(create, "bundle", bundle) /\ ValueOf(at(execs).local, "process") = spec
     /\ \A args \in {create, execs} :
          /\ carries(args, "pid-file", opts.pid_file)
          /\ carries(args, "console-socket", opts.console_socket)
          /\ Given(at(args).local, "detach") = opts.detach
     /\ Given(at(create).local, "no-pivot") = opts.no_pivot
     /\ ~ Given(at(execs).local, "no-pivot")
     /\ \A on \in BOOLEAN :
          /\ asks(delete(id, on), "delete", <<id>>) /\ Given(at(delete(id, on)).local, "force") = on
          /\ asks(kill(id, on, "9"), "kill", <<id, "9">>) /\ Given(at(kill(id, on, "9")).local, "all") = on
     /\ asks(update(id, spec), "update", <<id>>)
     /\ ValueOf(at(update(id, spec)).local, "resources") = spec
     /\ asks(ps(id), "ps", <<id>>) /\ asks(stats(id), "events", <<id>>) /\ asks(list, "list", <<>>)
     /\ \A command \in {"pause", "resume", "start", "state"} :
          asks(plain(command, id), command, <<id>>)
==============================================================================
