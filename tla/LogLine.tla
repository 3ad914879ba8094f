-------------------------------- MODULE LogLine --------------------------------
(***************************************************************************)
(* One line of the shim's log: a record as FifoLogger writes it, and as a  *)
(* reader of containerd's log takes it apart.  A text is a sequence of     *)
(* characters; the plain ones, "n" among them, stand for themselves.       *)
(***************************************************************************)
EXTENDS Naturals, Sequences, SequencesExt

Quote == "quote"
Backslash == "backslash"
Newline == "newline"
Space == "space"
Equals == "equals"

(* Mutant: a newline is left as it is.                                     *)
Mut_json_quote(v) ==
  LET escape(c) == IF c \in {Quote, Backslash} THEN <<Backslash, c>> ELSE <<c>>
  IN <<Quote>> \o FlattenSeq([i \in DOMAIN v |-> escape(v[i])]) \o <<Quote>>

json_quote(v) ==
  LET escape(c) == CASE c \in {Quote, Backslash} -> <<Backslash, c>>
                     [] c = Newline -> <<Backslash, "n">>
                     [] OTHER -> <<c>>
  IN <<Quote>> \o FlattenSeq([i \in DOMAIN v |-> escape(v[i])]) \o <<Quote>>

(* SimpleWriteVistor: the key-value pairs of a record, in its order.       *)
visit_pairs(pairs) ==
  FlattenSeq([i \in DOMAIN pairs |->
    <<Space>> \o pairs[i].key \o <<Equals>> \o json_quote(pairs[i].value)])

(* The time comes quoted, the level bare.                                  *)
LineOf(rec) ==
  <<"time", Equals, Quote, "now", Quote, Space, "level", Equals, rec.level>>
    \o visit_pairs(rec.pairs) \o <<Space, "msg", Equals>> \o json_quote(rec.msg) \o <<Newline>>

------------------------------------------------------------------------------
(* The reader: lines end where a newline stands, fields at spaces outside  *)
(* of quotes.                                                              *)
Nothing == [mode |-> "key", key |-> <<>>, value |-> <<>>, fields |-> <<>>]
Field(seen) == [key |-> seen.key, value |-> seen.value]
Push(seen) == [Nothing EXCEPT !.fields = Append(seen.fields, Field(seen))]

Takes(seen, c) ==
  LET grown == [seen EXCEPT !.value = Append(@, c)] IN
  CASE seen.mode = "key" /\ c = Equals -> [seen EXCEPT !.mode = "value"]
    [] seen.mode = "key" /\ c # Equals -> [seen EXCEPT !.key = Append(@, c)]
    [] seen.mode = "value" /\ c = Space -> Push(seen)
    [] seen.mode = "value" /\ c = Quote -> [seen EXCEPT !.mode = "quoted"]
    [] seen.mode = "value" /\ c \notin {Space, Quote} -> grown
    [] seen.mode = "quoted" /\ c = Quote -> [seen EXCEPT !.mode = "value"]
    [] seen.mode = "quoted" /\ c = Backslash -> [seen EXCEPT !.mode = "escaped"]
    [] seen.mode = "quoted" /\ c \notin {Quote, Backslash} -> grown
    [] seen.mode = "escaped" ->
         [seen EXCEPT !.mode = "quoted", !.value = Append(@, IF c = "n" THEN Newline ELSE c)]

FieldsRead(line) == Push(FoldLeft(Takes, Nothing, line)).fields

(* The first line of a text, without its end.                              *)
FirstLine(text) == SubSeq(text, 1, SelectInSeq(text, LAMBDA c : c = Newline) - 1)

------------------------------------------------------------------------------
Texts(n) == UNION {[1..m -> {"n", Quote, Backslash, Newline, Space, Equals}] : m \in 0..n}
LogRecords ==
  [level : {"info"}, pairs : {<<>>} \cup {<<[key |-> <<"k">>, value |-> v]>> : v \in Texts(2)},
   msg : Texts(2)]

(* Whatever a message or a value holds, it is read as it was given, and a  *)
(* record is one line: what is logged can neither end its field, nor bring *)
(* in a field of its own, nor start another record.                        *)
EveryRecordIsRead ==
  \A rec \in LogRecords :
    /\ Len(FirstLine(LineOf(rec))) = Len(LineOf(rec)) - 1
    /\ FieldsRead(FirstLine(LineOf(rec))) =
         <<[key |-> <<"time">>, value |-> <<"now">>], [key |-> <<"level">>, value |-> <<rec.level>>]>>
           \o rec.pairs \o <<[key |-> <<"msg">>, value |-> rec.msg]>>
==============================================================================
