------------------------------ MODULE RuncOutput -------------------------------
(***************************************************************************)
(* What the client makes of a runc that has ended, and what the shim tells *)
(* of one that failed.  Output is a sequence of pieces: a JSON list, or a  *)
(* text by the phrases found in it.                                        *)
(***************************************************************************)
EXTENDS Naturals, Sequences, SequencesExt, FiniteSets

Pids(S) == [kind |-> "list", pids |-> S, says |-> {}]
Null == [kind |-> "null", pids |-> {}, says |-> {}]
Text(phrases) == [kind |-> "text", pids |-> {}, says |-> phrases]

(* Which of runc's outputs are captured for a call.                        *)
Output == {"Stdout", "Combined"}

(* CommandFailed shows both outputs, whatever the call captures.           *)
launch(run, output) ==
  IF ~ run.success THEN [ok |-> FALSE, output |-> run.stdout \o run.stderr]
  ELSE [ok |-> TRUE, output |-> IF output = "Stdout" THEN run.stdout ELSE run.stdout \o run.stderr]

NotJson == [ok |-> FALSE, pids |-> {}]

(* Mutant: null is no list.                                                *)
Mut_parse_json_list(output) ==
  IF Len(output) = 1 /\ output[1].kind = "list" THEN [ok |-> TRUE, pids |-> output[1].pids]
  ELSE NotJson

(* One JSON value and nothing else; null is the empty list.                *)
parse_json_list(output) ==
  IF Len(output) = 1 /\ output[1].kind \in {"list", "null"}
  THEN [ok |-> TRUE, pids |-> output[1].pids]
  ELSE NotJson

PidsAnswered(run) ==
  LET res == launch(run, "Stdout") IN IF res.ok THEN parse_json_list(res.output) ELSE NotJson

(* The error of a call, as the phrases its text contains.                  *)
Saying(output) == UNION {output[i].says : i \in DOMAIN output}

check_kill_error(emsg) ==
  IF emsg \cap {"process already finished", "container not running", "no such process"} # {}
  THEN "process already finished"
  ELSE IF "does not exist" \in emsg THEN "no such container" ELSE "unknown error"

KillAnswered(run) ==
  LET res == launch(run, "Combined") IN IF res.ok THEN "ok" ELSE check_kill_error(Saying(res.output))

(* The error the shim reports: what the last line of level error says that *)
(* runc left in its log.json, which all the commands of a bundle share.    *)
(* "e" is the error of the command itself, NoLog a bundle without the file.*)
Line(level, msg) == [level |-> level, msg |-> msg]
Garbled == Line("garbled", "")
NoLog == <<Line("no log", "")>>
runtime_error(log, e) ==
  LET errors == SelectSeq(log, LAMBDA l : l.level = "error") IN
  IF log = NoLog THEN "unable to open"
  ELSE IF \E i \in DOMAIN log : log[i] = Garbled THEN "unable to parse"
  ELSE IF errors = <<>> \/ Last(errors).msg = "" THEN e
  ELSE Last(errors).msg

(* A container that is not there counts as deleted.                        *)
DeleteAnswered(run, log, e) ==
  LET res == launch(run, "Combined") IN
  IF res.ok \/ "does not exist" \in Saying(res.output) THEN "deleted" ELSE runtime_error(log, e)

------------------------------------------------------------------------------
(* runc's side: what it says of a container it does not know, of one that  *)
(* does not run, and when something else keeps it from its work.           *)
Phrases == [gone |-> {"does not exist"}, stopped |-> {"container not running"},
            dying |-> {"no such process"}, busy |-> {}]
Warnings == {<<>>, <<Text({})>>}
Ended(state, warning) ==
  [success |-> FALSE, stdout |-> <<>>, stderr |-> warning \o <<Text(Phrases[state])>>]
Done(stdout, warning) == [success |-> TRUE, stdout |-> stdout, stderr |-> warning]

Lines == {Line("info", "started"), Line("error", "first"), Line("error", "second")}
Logs == UNION {[1..n -> Lines] : n \in 0..2}

(* Whatever runc warns of on the way: the pids of a container are its      *)
(* processes, none of them when there is none, and are never made up when  *)
(* runc failed; a kill is refused as finished or unknown exactly where the *)
(* process or the container is gone; a delete counts as done exactly when  *)
(* the container is gone or was deleted; and a failed command that logs    *)
(* its error is reported with that error, however much earlier ones logged.*)
EveryRunIsHeard ==
  \A warning \in Warnings :
    /\ \A S \in SUBSET {1, 2} :
         /\ PidsAnswered(Done(<<IF S = {} THEN Null ELSE Pids(S)>>, warning)) = [ok |-> TRUE, pids |-> S]
         /\ PidsAnswered(Done(<<Pids(S)>>, warning)) = [ok |-> TRUE, pids |-> S]
    /\ \A state \in DOMAIN Phrases :
         /\ ~ PidsAnswered(Ended(state, warning)).ok
         /\ KillAnswered(Ended(state, warning)) =
              CASE state \in {"stopped", "dying"} -> "process already finished"
                [] state = "gone" -> "no such container"
                [] OTHER -> "unknown error"
         /\ \A log \in {NoLog} \cup Logs :
              (DeleteAnswered(Ended(state, warning), log, "failed") = "deleted") = (state = "gone")
    /\ KillAnswered(Done(<<>>, warning)) = "ok"
    /\ DeleteAnswered(Done(<<>>, warning), <<>>, "failed") = "deleted"
    /\ \A earlier, own \in Logs :
         LET told == runtime_error(earlier \o own, "failed")
             errors == {own[i].msg : i \in {i \in DOMAIN own : own[i].level = "error"}}
         IN errors # {} => told = IF own[Len(own)].level = "error" THEN own[Len(own)].msg
                                  ELSE own[1].msg
==============================================================================
