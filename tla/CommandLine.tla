----------------------------- MODULE CommandLine -----------------------------
(***************************************************************************)
(* Command lines as the shim (go_flag) and runc (its own parser) read      *)
(* them: flags up to the first word that is none, then the rest.  A word   *)
(* is told from a flag by its dash; the value of a flag is taken as it is. *)
(***************************************************************************)
EXTENDS Naturals, Sequences, SequencesExt

Flag(name) == [dash |-> TRUE, text |-> name]
Word(text) == [dash |-> FALSE, text |-> text]
Valued(name, text) == <<Flag(name), Word(text)>>
Switch(name, on) == IF on THEN <<Flag(name)>> ELSE <<>>
Optional(name, text) == IF text = "" THEN <<>> ELSE Valued(name, text)

Unread == [set |-> <<>>, awaits |-> "", rest |-> <<>>]

(* One more argument.  "set" lists each flag with its value, a switch with *)
(* "on".                                                                   *)
Reads(valued, seen, arg) ==
  IF seen.rest # <<>> THEN [seen EXCEPT !.rest = Append(@, arg.text)]
  ELSE IF seen.awaits # ""
  THEN [seen EXCEPT !.set = Append(@, <<seen.awaits, arg.text>>), !.awaits = ""]
  ELSE IF ~ arg.dash THEN [seen EXCEPT !.rest = <<arg.text>>]
  ELSE IF arg.text \in valued THEN [seen EXCEPT !.awaits = arg.text]
  ELSE [seen EXCEPT !.set = Append(@, <<arg.text, "on">>)]

ReadArgs(args, valued) ==
  LET seen[i \in 0..Len(args)] ==
        IF i = 0 THEN Unread ELSE Reads(valued, seen[i - 1], args[i])
  IN seen[Len(args)]

(* A flag given again takes its later value.                               *)
Given(seen, name) == \E i \in DOMAIN seen.set : seen.set[i][1] = name
ValueOf(seen, name) ==
  LET at == {i \in DOMAIN seen.set : seen.set[i][1] = name}
  IN IF at = {} THEN "" ELSE seen.set[CHOOSE i \in at : \A j \in at : j <= i][2]
==============================================================================
