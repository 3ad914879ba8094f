-------------------------- MODULE ExitMonitorProofs ---------------------------
(***************************************************************************)
(* Theorems about ExitMonitor, for any children, any ends of them, and any *)
(* number of executions and other subscribers: each subscription is sent   *)
(* what the monitor was told, and an execution takes its own child's exit. *)
(***************************************************************************)
EXTENDS ExitMonitor, SequenceTheorems, FiniteSetTheorems, TLAPS

Ids == 0..(NoId - 1)
Reports == [pid: Nat, code: Nat, of: Procs]
Doing == {"idle", "spawn", "wait", "matched", "leaving", "listening", "done", "failed", "dropped"}
Started == {s \in Subs : pc[s] # "idle"}
Ascends(s) == \A m, n \in DOMAIN s : m < n => s[m] < s[n]

Types ==
  /\ proc \in [Procs -> {"unborn", "alive", "zombie", "reaped"}]
  /\ end \in [Procs -> Ends \cup {NoEnd}]
  /\ log \in Seq(Reports)
  /\ chan \in [Ids -> Seq(Reports)]
  /\ start \in [Ids -> Nat]
  /\ topic_subs \in [Topics -> Seq(Nat)]
  /\ pc \in [Subs -> Doing] /\ sub \in [Subs -> 0..NoId]
  /\ child \in [Execs -> Procs \cup {NoProc}] /\ code \in [Execs -> Nat]

(* An id is given once, and to each subscriber one: there are enough.      *)
IdsInv ==
  /\ seq_id = Cardinality(Started)
  /\ \A s \in Started : sub[s] < seq_id
  /\ DOMAIN subscribers \subseteq 0..(seq_id - 1)
  /\ \A i \in Ids : i >= seq_id => chan[i] = <<>>

(* A subscription starts at some point of what the monitor was told.       *)
StartInv == \A i \in DOMAIN subscribers \ closed : start[i] <= Len(log)

IInv == Types /\ IdsInv /\ StartInv /\ DeliversSuffix

(* A report of the exit of a child that is reaped.                         *)
OfReaped(r) == proc[r.of] = "reaped" /\ r = Event(r.of)

(* An end is one a child may have once the child is no longer alive; what  *)
(* is sent is of a reaped child, and what an execution took is of its own. *)
EndsInv ==
  /\ \A p \in Procs : proc[p] \in {"zombie", "reaped"} => end[p] \in Ends
  /\ reaped # NoProc => proc[reaped] = "reaped"
  /\ \A i \in Ids : \A n \in DOMAIN chan[i] : OfReaped(chan[i][n])
CodeInv ==
  \A e \in Execs :
    /\ pc[e] \in {"wait", "matched", "leaving", "done"} => child[e] \in Procs
    /\ pc[e] \in {"matched", "leaving", "done"} =>
         proc[child[e]] = "reaped" /\ code[e] = ExitCode(end[child[e]])

(* Who waits is subscribed, and nobody else by the same id.                *)
SubInv ==
  /\ closed \subseteq 0..(seq_id - 1)
  /\ \A s, t \in Started : sub[s] = sub[t] => s = t
  /\ \A e \in Execs : pc[e] \in {"spawn", "wait"} =>
       sub[e] \in DOMAIN subscribers \ closed /\ subscribers[sub[e]] = "Pid"

(* As long as an execution waits its child's pid is nobody else's, and the *)
(* exit of the child, once reaped, is on its way to the execution.         *)
InChannel(e, p) == \E n \in DOMAIN chan[sub[e]] : chan[sub[e]][n].of = p
WaitInv ==
  \A e \in Execs : pc[e] = "wait" =>
    LET c == child[e] IN
    /\ c \in Procs /\ proc[c] # "unborn"
    /\ \A q \in Procs \ {c} :
         PidOf[q] = PidOf[c] => proc[q] \notin {"alive", "zombie"} /\ reaped # q /\ ~ InChannel(e, q)
    /\ proc[c] = "reaped" => reaped = c \/ InChannel(e, c)

(* A pid is not given to a new child while an exit of its former holder is *)
(* in the loop's hand or still to be read by who is about to spawn or wait.*)
(* wait_pid goes by the pid alone, and would take that exit for its own.   *)
Unread(pid) ==
  \/ reaped # NoProc /\ PidOf[reaped] = pid
  \/ \E e \in Execs : /\ pc[e] \in {"spawn", "wait"}
                     /\ \E n \in DOMAIN chan[sub[e]] : chan[sub[e]][n].pid = pid
PidsRest == \A p \in Procs : proc[p] = "unborn" /\ proc'[p] # "unborn" => ~ Unread(PidOf[p])

(* It is so, for one, where no pid is given twice.                         *)
DistinctPids == \A p, q \in Procs : PidOf[p] = PidOf[q] => p = q
------------------------------------------------------------------------------
(* What the sequences of the monitor are made of.                          *)

(* There are finitely many subscribers, and an id for each.                *)
LEMMA EnoughIds ==
  /\ NoId \in Nat /\ IsFiniteSet(Subs)
  /\ IsFiniteSet(Started) /\ Cardinality(Started) \in 0..NoId
  /\ \A s \in Subs : pc[s] = "idle" =>
       Cardinality(Started) < NoId /\ Cardinality(Started \cup {s}) = Cardinality(Started) + 1
<1>1. IsFiniteSet(Subs) /\ NoId \in Nat
  BY ConstantsAssumption, FS_CardinalityType DEF Subs, NoId
<1>2. IsFiniteSet(Started) /\ Cardinality(Started) \in Nat /\ Cardinality(Started) <= NoId
  <2>1. Started \in SUBSET Subs
    BY DEF Started
  <2> QED
    BY <1>1, <2>1, FS_Subset, FS_CardinalityType DEF NoId
<1>3. ASSUME NEW s \in Subs, pc[s] = "idle"
      PROVE  /\ Cardinality(Started) < NoId
             /\ Cardinality(Started \cup {s}) = Cardinality(Started) + 1
  <2>1. s \notin Started /\ Started \cup {s} \in SUBSET Subs
    BY <1>3 DEF Started
  <2>2. Cardinality(Started \cup {s}) = Cardinality(Started) + 1
    BY <1>2, <2>1, FS_AddElement
  <2>3. Cardinality(Started \cup {s}) <= NoId
    BY <1>1, <2>1, FS_Subset DEF NoId
  <2> QED
    BY <1>1, <1>2, <2>2, <2>3
<1> QED
  BY <1>1, <1>2, <1>3

(* A topic's ids ascend: a new one is the greatest.                        *)
LEMMA Appended ==
  ASSUME NEW s \in Seq(Nat), Ascends(s), NEW k \in Nat, \A n \in DOMAIN s : s[n] < k
  PROVE  /\ Append(s, k) \in Seq(Nat) /\ Ascends(Append(s, k))
         /\ ToSet(Append(s, k)) = ToSet(s) \cup {k}
<1> DEFINE t == Append(s, k)
<1>1. /\ t \in Seq(Nat) /\ Len(s) \in Nat /\ DOMAIN s = 1..Len(s) /\ DOMAIN t = 1..Len(s) + 1
      /\ \A i \in 1..Len(s) : t[i] = s[i] /\ s[i] \in Nat
      /\ t[Len(s) + 1] = k
  BY AppendProperties, LenProperties, ElementOfSeq
<1>2. ASSUME NEW i \in DOMAIN t PROVE i \in DOMAIN s \/ i = Len(s) + 1
  BY <1>1
<1>3. ASSUME NEW m \in DOMAIN t, NEW n \in DOMAIN t, m < n PROVE t[m] < t[n]
  <2>1. m \in DOMAIN s
    BY <1>1, <1>3
  <2>2. CASE n \in DOMAIN s
    BY <1>1, <1>3, <2>1, <2>2 DEF Ascends
  <2>3. CASE n = Len(s) + 1
    BY <1>1, <2>1, <2>3
  <2> QED
    BY <1>2, <2>2, <2>3
<1>4. ToSet(t) = ToSet(s) \cup {k}
  <2>1. ASSUME NEW x \in ToSet(t) PROVE x \in ToSet(s) \cup {k}
    <3>1. PICK i \in DOMAIN t : t[i] = x
      BY <2>1 DEF ToSet
    <3> QED
      BY <1>1, <1>2, <3>1 DEF ToSet
  <2>2. ASSUME NEW x \in ToSet(s) PROVE x \in ToSet(t)
    <3>1. PICK i \in DOMAIN s : s[i] = x
      BY <2>2 DEF ToSet
    <3> QED
      BY <1>1, <3>1 DEF ToSet
  <2>3. k \in ToSet(t)
    <3>1. Len(s) + 1 \in DOMAIN t
      BY <1>1
    <3> QED
      BY <1>1, <3>1 DEF ToSet
  <2> QED
    BY <2>1, <2>2, <2>3
<1> HIDE DEF t
<1>5. Ascends(t)
  BY <1>3 DEF Ascends
<1> QED
  BY <1>1, <1>4, <1>5 DEF t

(* The elements of a sequence from the one after the kth up to the nth.    *)
LEMMA Piece ==
  ASSUME NEW S, NEW s \in Seq(S), NEW n \in 0..Len(s), NEW k \in 0..n
  PROVE  /\ SubSeq(s, k + 1, n) \in Seq(S) /\ Len(SubSeq(s, k + 1, n)) = n - k
         /\ \A i \in 1..n - k : SubSeq(s, k + 1, n)[i] = s[k + i]
<1>1. /\ Len(s) \in Nat /\ n \in Int /\ n \in Nat /\ k \in Nat /\ k <= n
      /\ \A i \in 1..Len(s) : s[i] \in S
  BY LenProperties, ElementOfSeq
<1>2. PICK m \in Int : m = k + 1
  BY <1>1
<1>3. \A i \in m..n : s[i] \in S
  BY <1>1, <1>2
<1>4. /\ SubSeq(s, m, n) \in Seq(S) /\ Len(SubSeq(s, m, n)) = IF m <= n THEN n - m + 1 ELSE 0
      /\ \A i \in 1..n - m + 1 : SubSeq(s, m, n)[i] = s[m + i - 1]
  BY <1>1, <1>3, SubSeqProperties
<1>5. /\ (IF m <= n THEN n - m + 1 ELSE 0) = n - k /\ n - m + 1 = n - k
      /\ \A i \in 1..n - k : m + i - 1 = k + i
  BY <1>1, <1>2
<1> QED
  BY <1>2, <1>4, <1>5

(* What is left of a sequence without its nth element.                     *)
LEMMA Without ==
  ASSUME NEW s \in Seq(Nat), NEW n \in DOMAIN s
  PROVE  /\ RemoveAt(s, n) \in Seq(Nat) /\ DOMAIN RemoveAt(s, n) = 1..Len(s) - 1
         /\ \A i \in 1..Len(s) - 1 : RemoveAt(s, n)[i] = IF i < n THEN s[i] ELSE s[i + 1]
<1>1. /\ Len(s) \in Nat /\ n \in 1..Len(s) /\ \A i \in 1..Len(s) : s[i] \in Nat
  BY LenProperties, ElementOfSeq
<1> DEFINE a == SubSeq(s, 1, n - 1)
           b == SubSeq(s, n + 1, Len(s))
<1>2. a \in Seq(Nat) /\ Len(a) = n - 1 /\ \A i \in 1..n - 1 : a[i] = s[i]
  <2>1. n - 1 \in 0..Len(s) /\ 0 \in 0..n - 1 /\ 0 + 1 = 1 /\ n - 1 - 0 = n - 1
        /\ \A i \in 1..n - 1 : 0 + i = i
    BY <1>1
  <2> QED
    BY <2>1, Piece
<1>3. b \in Seq(Nat) /\ Len(b) = Len(s) - n /\ \A i \in 1..Len(s) - n : b[i] = s[n + i]
  <2>1. Len(s) \in 0..Len(s) /\ n \in 0..Len(s)
    BY <1>1
  <2> QED
    BY <2>1, Piece
<1> HIDE DEF a, b
<1>4. /\ a \o b \in Seq(Nat) /\ Len(a \o b) = Len(s) - 1 /\ DOMAIN (a \o b) = 1..Len(s) - 1
      /\ \A i \in 1..Len(s) - 1 : (a \o b)[i] = IF i <= Len(a) THEN a[i] ELSE b[i - Len(a)]
  <2>1. n - 1 + (Len(s) - n) = Len(s) - 1 /\ Len(s) - 1 \in Nat
    BY <1>1
  <2>2. /\ a \o b \in Seq(Nat) /\ Len(a \o b) = Len(a) + Len(b)
        /\ \A i \in 1..Len(a) + Len(b) : (a \o b)[i] = IF i <= Len(a) THEN a[i] ELSE b[i - Len(a)]
    BY <1>2, <1>3, ConcatProperties
  <2>3. Len(a) + Len(b) = Len(s) - 1
    BY <1>2, <1>3, <2>1
  <2>4. DOMAIN (a \o b) = 1..Len(a \o b)
    BY <2>2, LenProperties
  <2> QED
    BY <2>2, <2>3, <2>4
<1>5. ASSUME NEW i \in 1..Len(s) - 1 PROVE (a \o b)[i] = IF i < n THEN s[i] ELSE s[i + 1]
  <2>1. CASE i < n
    BY <1>1, <1>2, <1>4, <2>1
  <2>2. CASE ~ i < n
    <3>1. ~ i <= Len(a) /\ i - Len(a) = i - (n - 1) /\ i - (n - 1) \in 1..Len(s) - n
          /\ n + (i - (n - 1)) = i + 1
      BY <1>1, <1>2, <2>2, SMTT(30)
    <3>2. b[i - (n - 1)] = s[i + 1]
      BY <1>3, <3>1
    <3> QED
      BY <1>4, <2>2, <3>1, <3>2
  <2> QED
    BY <2>1, <2>2
<1> QED
  BY <1>4, <1>5 DEF RemoveAt, a, b

(* Unsubscribing takes the id, and nothing else, out of its topic's list.  *)
LEMMA Removed ==
  ASSUME NEW s \in Seq(Nat), Ascends(s), NEW k \in ToSet(s)
  PROVE  /\ RemoveFirst(s, k) \in Seq(Nat) /\ Ascends(RemoveFirst(s, k))
         /\ ToSet(RemoveFirst(s, k)) = ToSet(s) \ {k}
<1>1. /\ Len(s) \in Nat /\ DOMAIN s = 1..Len(s) /\ \A i \in 1..Len(s) : s[i] \in Nat
  BY LenProperties, ElementOfSeq
<1>2. PICK n \in DOMAIN s : s[n] = k
  BY DEF ToSet
<1>3. ASSUME NEW i \in DOMAIN s, s[i] = k PROVE i = n
  BY <1>1, <1>2, <1>3 DEF Ascends
<1>4. SelectInSeq(s, LAMBDA v : v = k) = n
  <2>1. {i \in 1..Len(s) : s[i] = k} = {n}
    BY <1>1, <1>2, <1>3
  <2>2. Min({n}) = n
    BY <1>1 DEF Min
  <2> QED
    BY <2>1, <2>2 DEF SelectInSeq
<1> DEFINE t == RemoveAt(s, n)
<1>5. RemoveFirst(s, k) = t
  BY <1>1, <1>2, <1>4 DEF RemoveFirst
<1>6. /\ t \in Seq(Nat) /\ DOMAIN t = 1..Len(s) - 1
      /\ \A i \in 1..Len(s) - 1 : t[i] = IF i < n THEN s[i] ELSE s[i + 1]
  BY Without
<1> HIDE DEF t
<1>7. ASSUME NEW i \in DOMAIN t
      PROVE  /\ i \in Nat /\ n \in Nat /\ i \in DOMAIN s /\ i + 1 \in DOMAIN s
             /\ t[i] = IF i < n THEN s[i] ELSE s[i + 1]
  <2>1. i \in 1..Len(s) - 1
    BY <1>6
  <2>2. i \in Nat /\ n \in Nat /\ i \in 1..Len(s) /\ i + 1 \in 1..Len(s)
    BY <1>1, <2>1
  <2> QED
    BY <1>1, <1>6, <2>1, <2>2
<1>8. ASSUME NEW x \in ToSet(t) PROVE x \in ToSet(s) \ {k}
  <2>1. PICK i \in DOMAIN t : t[i] = x
    BY <1>8 DEF ToSet
  <2>2. (i < n => i # n) /\ (~ i < n => i + 1 # n)
    BY <1>7
  <2>3. PICK j \in DOMAIN s : s[j] = x /\ j # n
    BY <1>7, <2>1, <2>2
  <2> QED
    BY <1>3, <2>3 DEF ToSet
<1>9. ASSUME NEW x \in ToSet(s) \ {k} PROVE x \in ToSet(t)
  <2>1. PICK i \in DOMAIN s : s[i] = x
    BY <1>9 DEF ToSet
  <2>2. i # n
    BY <1>2, <1>9, <2>1
  <2>3. CASE i < n
    <3>1. i \in DOMAIN t
      BY <1>1, <1>6, <2>3
    <3> QED
      BY <1>6, <2>1, <2>3, <3>1 DEF ToSet
  <2>4. CASE ~ i < n
    <3>1. i - 1 \in DOMAIN t /\ ~ i - 1 < n /\ i - 1 + 1 = i
      BY <1>1, <1>6, <2>2, <2>4, SMTT(30)
    <3> QED
      BY <1>6, <2>1, <3>1 DEF ToSet
  <2> QED
    BY <2>3, <2>4
<1>10. ASSUME NEW i \in DOMAIN t, NEW j \in DOMAIN t, i < j PROVE t[i] < t[j]
  <2>1. i \in Nat /\ j \in Nat /\ n \in Nat
    BY <1>7
  <2>2. i + 1 < j + 1 /\ i < j + 1 /\ (i < n \/ ~ j < n)
    BY <1>10, <2>1
  <2>3. i \in DOMAIN s /\ i + 1 \in DOMAIN s /\ j \in DOMAIN s /\ j + 1 \in DOMAIN s
    BY <1>7
  <2>4. s[i] < s[j] /\ s[i] < s[j + 1] /\ s[i + 1] < s[j + 1]
    BY <1>10, <2>2, <2>3 DEF Ascends
  <2> QED
    BY <1>7, <2>2, <2>4
<1>11. Ascends(t) /\ ToSet(t) = ToSet(s) \ {k}
  BY <1>8, <1>9, <1>10 DEF Ascends
<1> QED
  BY <1>5, <1>6, <1>11

(* What was told since a point, and what becomes of it when more is told.  *)
LEMMA SuffixAppend ==
  ASSUME NEW S, NEW s \in Seq(S), NEW e \in S, NEW k \in 0..Len(s)
  PROVE  SubSeq(Append(s, e), k + 1, Len(Append(s, e))) = Append(SubSeq(s, k + 1, Len(s)), e)
<1>1. /\ Len(s) \in Nat /\ Append(s, e) \in Seq(S) /\ Len(Append(s, e)) = Len(s) + 1
      /\ \A i \in 1..Len(s) : Append(s, e)[i] = s[i] /\ s[i] \in S
      /\ Append(s, e)[Len(s) + 1] = e
  BY AppendProperties, LenProperties, ElementOfSeq
<1> DEFINE a == SubSeq(Append(s, e), k + 1, Len(s) + 1)
           b == SubSeq(s, k + 1, Len(s))
<1>2. a \in Seq(S) /\ Len(a) = Len(s) - k + 1 /\ \A i \in 1..Len(s) - k + 1 : a[i] = Append(s, e)[k + i]
  <2>1. /\ Len(s) + 1 \in 0..Len(Append(s, e)) /\ k \in 0..Len(s) + 1
        /\ Len(s) + 1 - k = Len(s) - k + 1
    BY <1>1
  <2> QED
    BY <1>1, <2>1, Piece
<1>3. b \in Seq(S) /\ Len(b) = Len(s) - k /\ \A i \in 1..Len(s) - k : b[i] = s[k + i]
  <2>1. Len(s) \in 0..Len(s)
    BY <1>1
  <2> QED
    BY <2>1, Piece
<1> HIDE DEF a, b
<1>4. /\ Append(b, e) \in Seq(S) /\ Len(Append(b, e)) = Len(s) - k + 1
      /\ \A i \in 1..Len(s) - k : Append(b, e)[i] = b[i]
      /\ Append(b, e)[Len(s) - k + 1] = e
  BY <1>3, AppendProperties
<1>5. ASSUME NEW i \in 1..Len(a) PROVE a[i] = Append(b, e)[i]
  <2>1. i \in 1..Len(s) - k + 1
    BY <1>2, <1>5
  <2>2. \/ i \in 1..Len(s) - k /\ k + i \in 1..Len(s)
        \/ i = Len(s) - k + 1 /\ k + i = Len(s) + 1
    BY <1>1, <2>1
  <2> QED
    BY <1>1, <1>2, <1>3, <1>4, <2>1, <2>2
<1>6. Len(a) = Len(Append(b, e))
  BY <1>2, <1>4
<1>7. a = Append(b, e)
  BY <1>2, <1>4, <1>5, <1>6, SeqEqual
<1> QED
  BY <1>1, <1>7 DEF a, b

(* What was told since a point, less its first.                            *)
LEMMA SuffixTail ==
  ASSUME NEW S, NEW s \in Seq(S), NEW k \in Nat, SubSeq(s, k + 1, Len(s)) # <<>>
  PROVE  k + 1 <= Len(s) /\ Tail(SubSeq(s, k + 1, Len(s))) = SubSeq(s, (k + 1) + 1, Len(s))
<1>1. Len(s) \in Nat
  BY LenProperties
<1>2. k + 1 \in 1..Len(s) /\ Len(s) \in k + 1..Len(s)
  BY <1>1, SubSeqEmpty
<1> QED
  BY <1>1, <1>2, HeadTailOfSubSeq
------------------------------------------------------------------------------
(* A report is of a child, and its code a number.                          *)
LEMMA ReportType ==
  ASSUME Types, NEW p \in Procs
  PROVE  Event(p) \in Reports /\ ExitCode(end[p]) \in Nat
<1>1. end[p].n \in 0..255
  <2>1. end[p] \in Ends \/ end[p] = NoEnd
    BY DEF Types
  <2>2. end[p] \in Ends => end[p] \in [how: {"exited", "signaled"}, n: 0..255]
    BY ConstantsAssumption
  <2>3. NoEnd.n = 0 /\ 0 \in 0..255
    BY DEF NoEnd
  <2> QED
    BY <2>1, <2>2, <2>3
<1>2. ExitCode(end[p]) \in Nat
  BY <1>1 DEF ExitCode
<1> QED
  BY <1>2, ConstantsAssumption DEF Event, Reports

(* The ids in use are ids there are.                                       *)
LEMMA IdType ==
  ASSUME IInv
  PROVE  /\ NoId \in Nat /\ seq_id \in 0..NoId
         /\ \A s \in Subs : pc[s] # "idle" => sub[s] \in Ids /\ sub[s] < seq_id
         /\ \A s \in Subs : pc[s] = "idle" => seq_id \in Ids
         /\ \A i \in DOMAIN subscribers : i \in Ids /\ i \in Nat /\ i < seq_id /\ subscribers[i] \in Topics
<1>1. NoId \in Nat /\ seq_id \in 0..NoId
  BY EnoughIds DEF IInv, IdsInv
<1>2. ASSUME NEW s \in Subs, pc[s] # "idle" PROVE sub[s] \in Ids /\ sub[s] < seq_id
  BY <1>1, <1>2 DEF IInv, Types, IdsInv, Started, Ids
<1>3. ASSUME NEW s \in Subs, pc[s] = "idle" PROVE seq_id \in Ids
  <2>1. seq_id < NoId
    BY <1>3, EnoughIds DEF IInv, IdsInv
  <2> QED
    BY <1>1, <2>1 DEF Ids
<1>4. ASSUME NEW i \in DOMAIN subscribers
      PROVE  i \in Ids /\ i \in Nat /\ i < seq_id /\ subscribers[i] \in Topics
  <2>1. i \in 0..(seq_id - 1)
    BY DEF IInv, IdsInv
  <2>2. subscribers[i] \in Topics
    BY DEF IInv, DeliversSuffix, MapsAgree
  <2> QED
    BY <1>1, <2>1, <2>2 DEF Ids
<1> QED
  BY <1>1, <1>2, <1>3, <1>4

(* The steps keep the types.                                               *)
LEMMA TypesStep ==
  ASSUME IInv, [Next]_vars
  PROVE  Types'
<1>1. Types /\ NoId \in Nat
  BY EnoughIds DEF IInv
<1> USE DEF kernel, monitor, clients
<1>2. ASSUME NEW p \in Procs, Fork(p), UNCHANGED <<monitor, sub, code>>
      PROVE  /\ proc' \in [Procs -> {"unborn", "alive", "zombie", "reaped"}]
             /\ UNCHANGED <<end, log, chan, start, topic_subs, sub, code>>
  BY <1>1, <1>2 DEF Fork, Types
<1>3. ASSUME NEW p \in Procs, Inherit(p) PROVE Types'
  BY <1>1, <1>2, <1>3 DEF Inherit, Types
<1>4. ASSUME NEW p \in Procs, Die(p) PROVE Types'
  BY <1>1, <1>4 DEF Die, Types
<1>5. CASE SpawnLoop \/ TakeSignal \/ NoMoreZombies
  BY <1>1, <1>5 DEF SpawnLoop, TakeSignal, NoMoreZombies, Types
<1>6. ASSUME NEW p \in Procs, WaitPid(p) PROVE Types'
  BY <1>1, <1>6 DEF WaitPid, Types
<1>7. CASE NotifyByPid
  <2>1. reaped \in Procs
    BY <1>7 DEF NotifyByPid, IInv, DeliversSuffix, MapsAgree
  <2>2. Event(reaped) \in Reports
    BY <1>1, <2>1, ReportType
  <2>3. log' \in Seq(Reports)
    BY <1>1, <1>7, <2>2, AppendProperties DEF NotifyByPid, Types
  <2>4. ASSUME NEW i \in Ids PROVE Append(chan[i], Event(reaped)) \in Seq(Reports)
    BY <1>1, <2>2, AppendProperties DEF Types
  <2>5. chan' \in [Ids -> Seq(Reports)]
    BY <1>1, <1>7, <2>4 DEF NotifyByPid, Types
  <2> QED
    BY <1>1, <1>7, <2>3, <2>5 DEF NotifyByPid, Types
<1>8. ASSUME NEW s \in Subs, NEW next \in Doing, pc[s] = "idle", Subscribe(s, next) PROVE Types'
  <2>1. seq_id \in Ids /\ seq_id \in Nat /\ seq_id \in 0..NoId
    BY <1>8, IdType DEF Ids
  <2>2. TopicFor(s) \in Topics /\ Len(log) \in Nat
    BY <1>1, <1>8, ConstantsAssumption, LenProperties DEF TopicFor, Topics, Types
  <2>3. Append(topic_subs[TopicFor(s)], seq_id) \in Seq(Nat)
    BY <1>1, <2>1, <2>2, AppendProperties DEF Types
  <2>4. /\ topic_subs' \in [Topics -> Seq(Nat)] /\ start' \in [Ids -> Nat]
        /\ sub' \in [Subs -> 0..NoId] /\ pc' \in [Subs -> Doing]
    BY <1>1, <1>8, <2>1, <2>2, <2>3 DEF Subscribe, Types
  <2> QED
    BY <1>1, <1>8, <2>4 DEF Subscribe, Types
<1>9. ASSUME NEW s \in Subs, NEW next \in Doing, pc[s] # "idle", Unsubscribe(s, next) PROVE Types'
  <2>1. sub[s] \in Ids
    BY <1>9, IdType
  <2>2. topic_subs' \in [Topics -> Seq(Nat)]
    <3>1. CASE sub[s] \in DOMAIN subscribers
      <4>1. subscribers[sub[s]] \in Topics
        BY <3>1, IdType
      <4>2. sub[s] \in ToSet(topic_subs[subscribers[sub[s]]])
              /\ Ascends(topic_subs[subscribers[sub[s]]])
        BY <3>1, <4>1 DEF IInv, DeliversSuffix, MapsAgree, Ascends
      <4>3. RemoveFirst(topic_subs[subscribers[sub[s]]], sub[s]) \in Seq(Nat)
        BY <1>1, <4>1, <4>2, Removed DEF Types
      <4> QED
        BY <1>1, <1>9, <3>1, <4>1, <4>3 DEF Unsubscribe, Types
    <3>2. CASE sub[s] \notin DOMAIN subscribers
      BY <1>1, <1>9, <3>2 DEF Unsubscribe, Types
    <3> QED
      BY <3>1, <3>2
  <2>3. <<>> \in Seq(Reports)
    BY EmptySeq
  <2>4. chan' \in [Ids -> Seq(Reports)] /\ start' \in [Ids -> Nat] /\ pc' \in [Subs -> Doing]
    BY <1>1, <1>9, <2>1, <2>3 DEF Unsubscribe, Types
  <2> QED
    BY <1>1, <1>9, <2>2, <2>4 DEF Unsubscribe, Types
<1>10. ASSUME NEW s \in Subs, pc[s] # "idle", chan[sub[s]] # <<>>,
              chan' = [chan EXCEPT ![sub[s]] = Tail(@)], start' = [start EXCEPT ![sub[s]] = @ + 1]
       PROVE  /\ chan' \in [Ids -> Seq(Reports)] /\ start' \in [Ids -> Nat]
              /\ Head(chan[sub[s]]) \in Reports
  <2>1. sub[s] \in Ids
    BY <1>10, IdType
  <2>2. Tail(chan[sub[s]]) \in Seq(Reports) /\ Head(chan[sub[s]]) \in Reports
    BY <1>1, <1>10, <2>1, HeadTailProperties DEF Types
  <2>3. chan' \in [Ids -> Seq(Reports)]
    BY <1>1, <1>10, <2>1, <2>2 DEF Types
  <2>4. start' \in [Ids -> Nat]
    BY <1>1, <1>10, <2>1 DEF Types
  <2> QED
    BY <2>2, <2>3, <2>4
<1>11. ASSUME NEW e \in Execs, ExecStep(e) PROVE Types'
  <2>1. e \in Subs
    BY DEF Subs
  <2>2. CASE ExecSubscribe(e)
    BY <1>8, <2>1, <2>2 DEF ExecSubscribe, Doing
  <2>3. CASE Spawn(e)
    <3>1. PICK p \in Procs : Fork(p) /\ child' = [child EXCEPT ![e] = p]
      BY <2>3 DEF Spawn
    <3>2. child' \in [Execs -> Procs \cup {NoProc}] /\ pc' \in [Subs -> Doing]
      BY <1>1, <2>1, <2>3, <3>1 DEF Spawn, Types, Doing
    <3> QED
      BY <1>1, <1>2, <2>3, <3>1, <3>2 DEF Spawn, Types, Doing
  <2>4. CASE SpawnFails(e) \/ WaitUnsubscribe(e) \/ ExecUnsubscribe(e)
    BY <1>9, <2>1, <2>4 DEF SpawnFails, WaitUnsubscribe, ExecUnsubscribe, Doing
  <2>5. CASE RecvExit(e)
    <3>1. /\ chan' \in [Ids -> Seq(Reports)] /\ start' \in [Ids -> Nat]
          /\ Head(chan[sub[e]]).code \in Nat
      BY <1>10, <2>1, <2>5 DEF RecvExit, Reports
    <3>2. code' \in [Execs -> Nat] /\ pc' \in [Subs -> Doing]
      BY <1>1, <2>1, <2>5, <3>1 DEF RecvExit, Types, Doing
    <3> QED
      BY <1>1, <2>5, <3>1, <3>2 DEF RecvExit, Types, Doing
  <2>6. CASE Cancel(e)
    BY <1>1, <2>1, <2>6 DEF Cancel, Types, Doing
  <2>7. CASE ReadStd(e)
    BY <1>1, <2>7 DEF ReadStd, Types
  <2> QED
    BY <1>11, <2>2, <2>3, <2>4, <2>5, <2>6, <2>7 DEF ExecStep
<1>12. ASSUME NEW u \in Users, UserStep(u) PROVE Types'
  <2>1. u \in Subs
    BY DEF Subs
  <2>2. CASE UserSubscribe(u)
    BY <1>8, <2>1, <2>2 DEF UserSubscribe, Doing
  <2>3. CASE UserUnsubscribe(u)
    BY <1>9, <2>1, <2>3 DEF UserUnsubscribe, Doing
  <2>4. CASE UserReceive(u)
    BY <1>1, <1>10, <2>1, <2>4 DEF UserReceive, Types
  <2> QED
    BY <1>12, <2>2, <2>3, <2>4 DEF UserStep
<1>13. CASE UNCHANGED vars
  BY <1>1, <1>13 DEF vars, Types
<1> QED
  BY <1>3, <1>4, <1>5, <1>6, <1>7, <1>11, <1>12, <1>13 DEF Next, Loop
------------------------------------------------------------------------------
(* Nothing is subscribed at first.                                         *)
LEMMA InitInv == Init => IInv
<1> SUFFICES ASSUME Init PROVE IInv
  OBVIOUS
<1>1. NoId \in Nat /\ NoId \in 0..NoId
  BY EnoughIds
<1>2. <<>> \in Seq(Reports) /\ <<>> \in Seq(Nat) /\ DOMAIN <<>> = {} /\ ToSet(<<>>) = {}
  <2>1. DOMAIN <<>> = {}
    BY EmptySeq
  <2> QED
    BY <2>1, EmptySeq DEF ToSet
<1>3. Types
  BY <1>1, <1>2 DEF Init, Types, Ids, Doing, Topics
<1>4. Started = {} /\ DOMAIN subscribers = {} /\ seq_id = 0
  BY DEF Init, Started
<1>5. IdsInv
  BY <1>1, <1>4, FS_EmptySet DEF IdsInv, Init, Ids
<1>6. MapsAgree
  BY <1>1, <1>2, <1>4 DEF MapsAgree, Init
<1> QED
  BY <1>3, <1>4, <1>5, <1>6 DEF IInv, StartInv, DeliversSuffix

(* A step that is not the monitor's.                                       *)
LEMMA Elsewhere ==
  ASSUME IInv, Types', UNCHANGED <<seq_id, subscribers, topic_subs, chan, start, log>>,
         closed \subseteq closed', sub' = sub, Started' = Started,
         loop' \in {"off", "idle", "reaping"}, reaped' \in Procs \cup {NoProc}
  PROVE  IInv'
<1>1. IdsInv'
  BY DEF IInv, IdsInv, Ids, NoId
<1>2. StartInv'
  BY DEF IInv, StartInv
<1>3. MapsAgree'
  BY DEF IInv, DeliversSuffix, MapsAgree, NoId
<1>4. DeliversSuffix'
  BY <1>3 DEF IInv, DeliversSuffix
<1> QED
  BY <1>1, <1>2, <1>4 DEF IInv

(* Who subscribes is sent nothing that was told before.                    *)
LEMMA Subscribed ==
  ASSUME IInv, Types', NEW s \in Subs, pc[s] = "idle", NEW next \in Doing \ {"idle"},
         Subscribe(s, next)
  PROVE  IInv'
<1> USE DEF kernel
<1>1. /\ seq_id \in Ids /\ seq_id \in Nat /\ seq_id \in 0..NoId /\ NoId \in Nat
      /\ seq_id + 1 \in 0..NoId
      /\ seq_id \notin DOMAIN subscribers /\ TopicFor(s) \in Topics /\ Len(log) \in Nat
  <2>1. seq_id \in Ids /\ NoId \in Nat
    BY IdType
  <2>2. \A i \in DOMAIN subscribers : i < seq_id
    BY IdType
  <2>3. TopicFor(s) \in Topics
    BY ConstantsAssumption DEF TopicFor, Topics
  <2>4. Len(log) \in Nat
    BY LenProperties DEF IInv, Types
  <2> QED
    BY <2>1, <2>2, <2>3, <2>4 DEF Ids
<1>2. Types /\ MapsAgree /\ NoId' = NoId /\ Ids' = Ids
  BY DEF IInv, DeliversSuffix, NoId, Ids
<1>3. Started' = Started \cup {s} /\ Cardinality(Started') = seq_id + 1
  <2>1. \A t \in Subs : pc'[t] # "idle" <=> pc[t] # "idle" \/ t = s
    BY <1>2 DEF Subscribe, Types
  <2>2. Started' = Started \cup {s}
    BY <2>1 DEF Started
  <2> QED
    BY <2>2, EnoughIds DEF IInv, IdsInv
<1>4. DOMAIN subscribers' = DOMAIN subscribers \cup {seq_id}
  BY DEF Subscribe
<1>5. /\ subscribers'[seq_id] = TopicFor(s)
      /\ \A i \in DOMAIN subscribers : i # seq_id /\ i \in Nat /\ i < seq_id /\ i \in Ids
                                     /\ subscribers'[i] = subscribers[i] /\ subscribers[i] \in Topics
  BY <1>1, IdType DEF Subscribe
<1>6. /\ start'[seq_id] = Len(log) /\ \A i \in Ids : i # seq_id => start'[i] = start[i]
      /\ UNCHANGED <<chan, closed, log, loop, reaped>> /\ seq_id' = seq_id + 1
      /\ sub'[s] = seq_id /\ \A t \in Subs : t # s => sub'[t] = sub[t]
  BY <1>1, <1>2 DEF Subscribe, Types
<1>7. IdsInv'
  <2>1. ASSUME NEW t \in Started' PROVE sub'[t] < seq_id'
    <3>1. CASE t = s
      BY <1>1, <1>6, <3>1
    <3>2. CASE t # s
      <4>1. t \in Started /\ t \in Subs
        BY <1>3, <2>1, <3>2 DEF Started
      <4>2. sub[t] < seq_id /\ sub[t] \in Nat
        BY <1>1, <1>2, <4>1 DEF IInv, IdsInv, Types
      <4> QED
        BY <1>1, <1>6, <3>2, <4>1, <4>2
    <3> QED
      BY <3>1, <3>2
  <2>2. DOMAIN subscribers' \subseteq 0..(seq_id' - 1)
    BY <1>1, <1>4, <1>5, <1>6
  <2>3. \A i \in Ids : i >= seq_id' => chan'[i] = <<>>
    BY <1>1, <1>6 DEF IInv, IdsInv, Ids
  <2> QED
    BY <1>2, <1>3, <1>6, <2>1, <2>2, <2>3 DEF IdsInv
<1>8. StartInv'
  <2>1. ASSUME NEW i \in DOMAIN subscribers' \ closed' PROVE start'[i] <= Len(log')
    <3>1. CASE i = seq_id
      BY <1>1, <1>6, <3>1
    <3>2. CASE i # seq_id
      BY <1>4, <1>5, <1>6, <2>1, <3>2 DEF IInv, StartInv
    <3> QED
      BY <3>1, <3>2
  <2> QED
    BY <2>1 DEF StartInv
<1>9. ASSUME NEW t \in Topics
      PROVE  /\ ToSet(topic_subs[t])' = {i \in DOMAIN subscribers' : subscribers'[i] = t}
             /\ Ascends(topic_subs[t])'
  <2>1. /\ topic_subs[t] \in Seq(Nat) /\ Ascends(topic_subs[t])
        /\ ToSet(topic_subs[t]) = {i \in DOMAIN subscribers : subscribers[i] = t}
    BY <1>2 DEF Types, MapsAgree, Ascends
  <2>2. CASE t = TopicFor(s)
    <3>1. topic_subs'[t] = Append(topic_subs[t], seq_id)
      BY <1>1, <1>2, <2>2 DEF Subscribe, Types
    <3>2. \A n \in DOMAIN topic_subs[t] : topic_subs[t][n] < seq_id
      <4>1. \A n \in DOMAIN topic_subs[t] : topic_subs[t][n] \in DOMAIN subscribers
        BY <2>1 DEF ToSet
      <4> QED
        BY <1>5, <4>1
    <3>3. Ascends(topic_subs'[t]) /\ ToSet(topic_subs'[t]) = ToSet(topic_subs[t]) \cup {seq_id}
      BY <1>1, <2>1, <3>1, <3>2, Appended
    <3>4. {i \in DOMAIN subscribers' : subscribers'[i] = t} =
            {i \in DOMAIN subscribers : subscribers[i] = t} \cup {seq_id}
      BY <1>4, <1>5, <2>2
    <3> QED
      BY <2>1, <3>3, <3>4 DEF Ascends, ToSet
  <2>3. CASE t # TopicFor(s)
    <3>1. topic_subs'[t] = topic_subs[t]
      BY <1>2, <2>3 DEF Subscribe, Types
    <3>2. {i \in DOMAIN subscribers' : subscribers'[i] = t} =
            {i \in DOMAIN subscribers : subscribers[i] = t}
      BY <1>4, <1>5, <2>3
    <3> QED
      BY <2>1, <3>1, <3>2 DEF Ascends, ToSet
  <2> QED
    BY <2>2, <2>3
<1>10. MapsAgree'
  <2>1. /\ seq_id' \in 0..NoId /\ loop' \in {"off", "idle", "reaping"}
        /\ reaped' \in Procs \cup {NoProc}
        /\ subscribers' \in [DOMAIN subscribers' -> Topics]
    BY <1>1, <1>2, <1>4, <1>5, <1>6 DEF Subscribe, MapsAgree
  <2>2. \A i \in DOMAIN subscribers' : i < seq_id'
    BY <1>1, <1>4, <1>5, <1>6
  <2> QED
    BY <1>2, <1>9, <2>1, <2>2 DEF MapsAgree, Ascends
<1>11. ASSUME NEW i \in DOMAIN subscribers' \ closed'
       PROVE  chan'[i] = IF subscribers'[i] = "Exec" THEN <<>> ELSE SubSeq(log', start'[i] + 1, Len(log'))
  <2>1. CASE i = seq_id
    <3>1. chan'[i] = <<>>
      BY <1>1, <1>6, <2>1 DEF IInv, IdsInv
    <3>2. SubSeq(log, Len(log) + 1, Len(log)) = <<>>
      BY <1>1, SubSeqEmpty
    <3> QED
      BY <1>6, <2>1, <3>1, <3>2
  <2>2. CASE i # seq_id
    <3>1. i \in DOMAIN subscribers \ closed
      BY <1>4, <1>6, <1>11, <2>2
    <3> QED
      BY <1>5, <1>6, <3>1 DEF IInv, DeliversSuffix
  <2> QED
    BY <2>1, <2>2
<1> QED
  BY <1>7, <1>8, <1>10, <1>11 DEF IInv, DeliversSuffix

(* Who unsubscribes is sent nothing any more; nobody else is concerned.    *)
LEMMA Unsubscribed ==
  ASSUME IInv, Types', NEW s \in Subs, pc[s] # "idle", NEW next \in Doing \ {"idle"},
         Unsubscribe(s, next)
  PROVE  IInv'
<1> USE DEF kernel
<1> DEFINE k == sub[s]
<1>1. k \in Ids /\ k < seq_id /\ seq_id \in 0..NoId /\ NoId \in Nat
  BY IdType
<1>2. Types /\ MapsAgree /\ NoId' = NoId /\ Ids' = Ids
  BY DEF IInv, DeliversSuffix, NoId, Ids
<1>3. Started' = Started
  <2>1. \A t \in Subs : pc'[t] # "idle" <=> pc[t] # "idle"
    BY <1>2 DEF Unsubscribe, Types
  <2> QED
    BY <2>1 DEF Started
<1>4. /\ DOMAIN subscribers' = DOMAIN subscribers \ {k}
      /\ \A i \in DOMAIN subscribers' : subscribers'[i] = subscribers[i]
  BY DEF Unsubscribe
<1>5. /\ \A i \in Ids : i # k => start'[i] = start[i] /\ chan'[i] = chan[i]
      /\ chan'[k] = <<>> /\ UNCHANGED <<sub, closed, log, loop, reaped, seq_id>>
  BY <1>1, <1>2 DEF Unsubscribe, Types
<1>6. \A i \in DOMAIN subscribers : i \in Ids
  BY IdType
<1>7. IdsInv' /\ StartInv'
  <2>1. \A i \in Ids : i >= seq_id => chan'[i] = <<>>
    BY <1>5 DEF IInv, IdsInv
  <2>2. StartInv'
    BY <1>4, <1>5, <1>6 DEF IInv, StartInv
  <2> QED
    BY <1>2, <1>3, <1>4, <1>5, <2>1, <2>2 DEF IInv, IdsInv
<1>8. ASSUME NEW t \in Topics
      PROVE  /\ ToSet(topic_subs[t])' = {i \in DOMAIN subscribers' : subscribers'[i] = t}
             /\ Ascends(topic_subs[t])'
  <2>1. /\ topic_subs[t] \in Seq(Nat) /\ Ascends(topic_subs[t])
        /\ ToSet(topic_subs[t]) = {i \in DOMAIN subscribers : subscribers[i] = t}
    BY <1>2 DEF Types, MapsAgree, Ascends
  <2>2. CASE k \in DOMAIN subscribers /\ t = subscribers[k]
    <3>1. topic_subs'[t] = RemoveFirst(topic_subs[t], k) /\ k \in ToSet(topic_subs[t])
      BY <1>2, <2>1, <2>2 DEF Unsubscribe, Types
    <3>2. Ascends(topic_subs'[t]) /\ ToSet(topic_subs'[t]) = ToSet(topic_subs[t]) \ {k}
      BY <2>1, <3>1, Removed
    <3>3. {i \in DOMAIN subscribers' : subscribers'[i] = t} =
            {i \in DOMAIN subscribers : subscribers[i] = t} \ {k}
      BY <1>4
    <3> QED
      BY <2>1, <3>2, <3>3 DEF Ascends, ToSet
  <2>3. CASE ~ (k \in DOMAIN subscribers /\ t = subscribers[k])
    <3>1. topic_subs'[t] = topic_subs[t]
      BY <1>2, <2>3 DEF Unsubscribe, Types
    <3>2. {i \in DOMAIN subscribers' : subscribers'[i] = t} =
            {i \in DOMAIN subscribers : subscribers[i] = t}
      BY <1>4, <2>3
    <3> QED
      BY <2>1, <3>1, <3>2 DEF Ascends, ToSet
  <2> QED
    BY <2>2, <2>3
<1>9. MapsAgree'
  <2>1. /\ seq_id' \in 0..NoId /\ loop' \in {"off", "idle", "reaping"}
        /\ reaped' \in Procs \cup {NoProc}
        /\ subscribers' \in [DOMAIN subscribers' -> Topics]
    BY <1>1, <1>2, <1>4, <1>5 DEF Unsubscribe, MapsAgree
  <2>2. \A i \in DOMAIN subscribers' : i < seq_id'
    BY <1>2, <1>4, <1>5 DEF MapsAgree
  <2> QED
    BY <1>2, <1>8, <2>1, <2>2 DEF MapsAgree, Ascends
<1>10. ASSUME NEW i \in DOMAIN subscribers' \ closed'
       PROVE  chan'[i] = IF subscribers'[i] = "Exec" THEN <<>> ELSE SubSeq(log', start'[i] + 1, Len(log'))
  <2>1. i \in DOMAIN subscribers \ closed /\ i # k /\ i \in Ids
    BY <1>4, <1>5, <1>6, <1>10
  <2> QED
    BY <1>4, <1>5, <1>10, <2>1 DEF IInv, DeliversSuffix
<1> QED
  BY <1>7, <1>9, <1>10 DEF IInv, DeliversSuffix

(* Who receives takes the first of what is to be received, and no more.    *)
LEMMA Received ==
  ASSUME IInv, Types', NEW s \in Subs, pc[s] # "idle", chan[sub[s]] # <<>>,
         chan' = [chan EXCEPT ![sub[s]] = Tail(@)], start' = [start EXCEPT ![sub[s]] = @ + 1],
         UNCHANGED <<seq_id, subscribers, topic_subs, closed, log, sub, loop, reaped>>,
         Started' = Started
  PROVE  IInv'
<1> DEFINE k == sub[s]
<1>1. k \in Ids /\ k < seq_id /\ seq_id \in 0..NoId /\ NoId \in Nat
  BY IdType
<1>2. Types /\ MapsAgree /\ NoId' = NoId /\ Ids' = Ids
  BY DEF IInv, DeliversSuffix, NoId, Ids
<1>3. /\ \A i \in Ids : i # k => start'[i] = start[i] /\ chan'[i] = chan[i]
      /\ start'[k] = start[k] + 1 /\ chan'[k] = Tail(chan[k]) /\ start[k] \in Nat
  BY <1>1, <1>2 DEF Types
<1>4. \A i \in DOMAIN subscribers : i \in Ids
  BY IdType
<1>5. ASSUME k \in DOMAIN subscribers \ closed
      PROVE  /\ subscribers[k] # "Exec" /\ start[k] + 1 <= Len(log)
             /\ chan'[k] = SubSeq(log, (start[k] + 1) + 1, Len(log))
  <2>1. subscribers[k] # "Exec" /\ chan[k] = SubSeq(log, start[k] + 1, Len(log))
    BY <1>5 DEF IInv, DeliversSuffix
  <2>2. log \in Seq(Reports)
    BY <1>2 DEF Types
  <2>3. SubSeq(log, start[k] + 1, Len(log)) # <<>>
    BY <2>1
  <2> HIDE DEF k
  <2>4. start[k] + 1 <= Len(log)
          /\ Tail(SubSeq(log, start[k] + 1, Len(log))) = SubSeq(log, (start[k] + 1) + 1, Len(log))
    BY <1>3, <2>2, <2>3, SuffixTail
  <2> QED
    BY <1>3, <2>1, <2>4
<1>6. IdsInv'
  <2>1. ASSUME NEW i \in Ids, i >= seq_id PROVE chan'[i] = <<>>
    BY <1>1, <1>3, <2>1 DEF IInv, IdsInv, Ids
  <2> QED
    BY <1>2, <2>1 DEF IInv, IdsInv
<1>7. StartInv' /\ MapsAgree'
  BY <1>2, <1>3, <1>4, <1>5 DEF IInv, StartInv, MapsAgree
<1>8. ASSUME NEW i \in DOMAIN subscribers' \ closed'
      PROVE  chan'[i] = IF subscribers'[i] = "Exec" THEN <<>> ELSE SubSeq(log', start'[i] + 1, Len(log'))
  <2>1. CASE i = k
    BY <1>3, <1>5, <1>8, <2>1
  <2>2. CASE i # k
    BY <1>3, <1>4, <1>8, <2>2 DEF IInv, DeliversSuffix
  <2> QED
    BY <2>1, <2>2
<1> QED
  BY <1>6, <1>7, <1>8 DEF IInv, DeliversSuffix

(* An exit goes to every subscription there is, but to those to Exec.      *)
LEMMA Notified ==
  ASSUME IInv, Types', NotifyByPid
  PROVE  IInv'
<1> USE DEF kernel, clients
<1>1. Types /\ MapsAgree /\ NoId' = NoId /\ Ids' = Ids /\ Started' = Started
  BY DEF IInv, DeliversSuffix, NoId, Ids, NotifyByPid, Started
<1>2. reaped \in Procs /\ Event(reaped) \in Reports /\ log \in Seq(Reports)
  <2>1. reaped \in Procs
    BY <1>1 DEF NotifyByPid, MapsAgree
  <2> QED
    BY <1>1, <2>1, ReportType DEF Types
<1>3. /\ log' = Append(log, Event(reaped)) /\ Len(log) \in Nat /\ Len(log') = Len(log) + 1
      /\ UNCHANGED <<seq_id, subscribers, topic_subs, closed, start, sub>>
  BY <1>2, AppendProperties, LenProperties DEF NotifyByPid
<1>4. ASSUME NEW i \in DOMAIN subscribers
      PROVE  /\ i \in Ids /\ i < seq_id /\ subscribers[i] \in Topics
             /\ (i \in Told("Pid") \cup Told("All")) <=> subscribers[i] # "Exec"
  <2>1. ASSUME NEW t \in Topics PROVE i \in Told(t) <=> subscribers[i] = t
    <3>1. ToSet(topic_subs[t]) = {j \in DOMAIN subscribers : subscribers[j] = t}
      BY <1>1 DEF MapsAgree
    <3> QED
      BY <3>1 DEF Told, ToSet
  <2>2. i \in Ids /\ i < seq_id /\ subscribers[i] \in Topics
    BY IdType
  <2> QED
    BY <2>1, <2>2 DEF Topics
<1>5. ASSUME NEW i \in Ids
      PROVE  chan'[i] = IF i \in (Told("Pid") \cup Told("All")) \ closed
                        THEN Append(chan[i], Event(reaped)) ELSE chan[i]
  BY <1>1 DEF NotifyByPid, Types
<1>6. IdsInv'
  <2>1. ASSUME NEW i \in Ids, i >= seq_id PROVE chan'[i] = <<>>
    <3>1. i \notin DOMAIN subscribers
      BY <1>1, <1>4, <2>1 DEF MapsAgree, Ids
    <3> QED
      BY <1>1, <1>5, <2>1, <3>1 DEF IInv, IdsInv, Told
  <2> QED
    BY <1>1, <1>3, <2>1 DEF IInv, IdsInv
<1>7. ASSUME NEW i \in DOMAIN subscribers \ closed
      PROVE  start[i] \in 0..Len(log) /\ start[i] <= Len(log')
  BY <1>1, <1>3, <1>4 DEF IInv, StartInv, Types
<1>8. StartInv' /\ MapsAgree'
  BY <1>1, <1>3, <1>7 DEF StartInv, MapsAgree, NotifyByPid
<1>9. ASSUME NEW i \in DOMAIN subscribers \ closed
      PROVE  chan'[i] = IF subscribers[i] = "Exec" THEN <<>> ELSE SubSeq(log', start[i] + 1, Len(log'))
  <2>1. CASE subscribers[i] = "Exec"
    BY <1>4, <1>5, <1>9, <2>1 DEF IInv, DeliversSuffix
  <2>2. CASE subscribers[i] # "Exec"
    <3>1. chan'[i] = Append(SubSeq(log, start[i] + 1, Len(log)), Event(reaped))
      BY <1>4, <1>5, <1>9, <2>2 DEF IInv, DeliversSuffix
    <3>2. SubSeq(log', start[i] + 1, Len(log')) = Append(SubSeq(log, start[i] + 1, Len(log)), Event(reaped))
      BY <1>2, <1>3, <1>7, SuffixAppend
    <3> QED
      BY <2>2, <3>1, <3>2
  <2> QED
    BY <2>1, <2>2
<1> QED
  BY <1>3, <1>6, <1>8, <1>9 DEF IInv, DeliversSuffix

(* Every step keeps the invariant.                                         *)
LEMMA InvStep == IInv /\ [Next]_vars => IInv'
<1> SUFFICES ASSUME IInv, [Next]_vars PROVE IInv'
  OBVIOUS
<1>1. Types' /\ Types /\ loop \in {"off", "idle", "reaping"} /\ reaped \in Procs \cup {NoProc}
  BY TypesStep DEF IInv, DeliversSuffix, MapsAgree
<1> USE DEF kernel, monitor, clients
<1>2. ASSUME NEW p \in Procs, Inherit(p) \/ Die(p) \/ WaitPid(p) PROVE IInv'
  <2>1. /\ UNCHANGED <<monitor, sub, pc, loop>> /\ reaped' \in Procs \cup {NoProc}
    BY <1>1, <1>2 DEF Inherit, Fork, Die, WaitPid
  <2> QED
    BY <1>1, <2>1, Elsewhere DEF Started
<1>3. CASE SpawnLoop \/ TakeSignal \/ NoMoreZombies
  <2>1. /\ UNCHANGED <<monitor, sub, pc, reaped>> /\ loop' \in {"off", "idle", "reaping"}
    BY <1>1, <1>3 DEF SpawnLoop, TakeSignal, NoMoreZombies
  <2> QED
    BY <1>1, <2>1, Elsewhere DEF Started
<1>4. CASE NotifyByPid
  BY <1>1, <1>4, Notified
<1>5. ASSUME NEW s \in Subs, pc[s] # "idle", pc' = pc \/ \E d \in Doing \ {"idle"} : pc' = [pc EXCEPT ![s] = d]
      PROVE  Started' = Started
  <2>1. \A t \in Subs : pc'[t] # "idle" <=> pc[t] # "idle"
    BY <1>1, <1>5 DEF Types
  <2> QED
    BY <2>1 DEF Started
<1>6. ASSUME NEW e \in Execs, ExecStep(e) PROVE IInv'
  <2>1. e \in Subs
    BY DEF Subs
  <2>2. CASE ExecSubscribe(e)
    BY <1>1, <2>1, <2>2, Subscribed DEF ExecSubscribe, Doing
  <2>3. CASE Spawn(e)
    <3>1. UNCHANGED <<monitor, sub, loop, reaped>> /\ Started' = Started
      BY <1>5, <2>1, <2>3 DEF Spawn, Doing
    <3> QED
      BY <1>1, <3>1, Elsewhere
  <2>4. CASE SpawnFails(e) \/ WaitUnsubscribe(e) \/ ExecUnsubscribe(e)
    BY <1>1, <2>1, <2>4, Unsubscribed DEF SpawnFails, WaitUnsubscribe, ExecUnsubscribe, Doing
  <2>5. CASE RecvExit(e)
    <3>1. Started' = Started
      BY <1>5, <2>1, <2>5 DEF RecvExit, Doing
    <3> QED
      BY <1>1, <2>1, <2>5, <3>1, Received DEF RecvExit
  <2>6. CASE Cancel(e)
    <3>1. /\ UNCHANGED <<seq_id, subscribers, topic_subs, chan, start, log, sub, loop, reaped>>
          /\ closed \subseteq closed' /\ Started' = Started
      BY <1>5, <2>1, <2>6 DEF Cancel, Doing
    <3> QED
      BY <1>1, <3>1, Elsewhere
  <2>7. CASE ReadStd(e)
    BY <1>1, <2>7, Elsewhere DEF ReadStd, Started
  <2> QED
    BY <1>6, <2>2, <2>3, <2>4, <2>5, <2>6, <2>7 DEF ExecStep
<1>7. ASSUME NEW u \in Users, UserStep(u) PROVE IInv'
  <2>1. u \in Subs
    BY DEF Subs
  <2>2. CASE UserSubscribe(u)
    BY <1>1, <2>1, <2>2, Subscribed DEF UserSubscribe, Doing
  <2>3. CASE UserUnsubscribe(u)
    BY <1>1, <2>1, <2>3, Unsubscribed DEF UserUnsubscribe, Doing
  <2>4. CASE UserReceive(u)
    BY <1>1, <2>1, <2>4, Received DEF UserReceive, Started
  <2> QED
    BY <1>7, <2>2, <2>3, <2>4 DEF UserStep
<1>8. CASE UNCHANGED vars
  BY <1>1, <1>8, Elsewhere DEF vars, Started
<1> QED
  BY <1>2, <1>3, <1>4, <1>6, <1>7, <1>8 DEF Next, Loop

(* What the monitor does for its subscribers: whoever else comes and goes, *)
(* each is sent what was told since it came, in order, once (subscribe,    *)
(* unsubscribe and notify_by_pid).                                         *)
THEOREM EachIsSentTheSuffix == Spec => []DeliversSuffix
<1>1. IInv => DeliversSuffix
  BY DEF IInv
<1> QED
  BY <1>1, InitInv, InvStep, PTL DEF Spec
------------------------------------------------------------------------------
(* A child ends once: what is told of it once it is reaped stays true.     *)
LEMMA KernelStep ==
  ASSUME IInv, EndsInv, [Next]_vars
  PROVE  /\ \A p \in Procs :
              /\ proc[p] = "reaped" => proc'[p] = "reaped" /\ end'[p] = end[p]
              /\ proc'[p] \in {"zombie", "reaped"} => end'[p] \in Ends
         /\ reaped' # NoProc => proc'[reaped'] = "reaped"
<1> USE DEF kernel, monitor, clients
<1>1. Types /\ reaped \in Procs \cup {NoProc}
  BY DEF IInv, DeliversSuffix, MapsAgree
<1> DEFINE Kept == /\ \A p \in Procs :
                        /\ proc[p] = "reaped" => proc'[p] = "reaped" /\ end'[p] = end[p]
                        /\ proc'[p] \in {"zombie", "reaped"} => end'[p] \in Ends
                   /\ reaped' # NoProc => proc'[reaped'] = "reaped"
<1>2. ASSUME NEW q \in Procs, Fork(q), reaped' = reaped PROVE Kept
  BY <1>1, <1>2 DEF Fork, EndsInv, Types
<1>3. ASSUME NEW q \in Procs, Die(q) PROVE Kept
  BY <1>1, <1>3 DEF Die, EndsInv, Types
<1>4. ASSUME NEW q \in Procs, WaitPid(q) PROVE Kept
  BY <1>1, <1>4 DEF WaitPid, EndsInv, Types
<1>5. ASSUME UNCHANGED <<proc, end>>, reaped' \in {reaped, NoProc} PROVE Kept
  BY <1>1, <1>5 DEF EndsInv
<1>6. ASSUME NEW q \in Procs, Inherit(q) PROVE Kept
  BY <1>2, <1>6 DEF Inherit
<1>7. CASE SpawnLoop \/ TakeSignal \/ NoMoreZombies \/ NotifyByPid
  BY <1>5, <1>7 DEF SpawnLoop, TakeSignal, NoMoreZombies, NotifyByPid
<1>8. ASSUME NEW e \in Execs, ExecStep(e) PROVE Kept
  <2>1. CASE Spawn(e)
    BY <1>2, <2>1 DEF Spawn
  <2>2. CASE ExecSubscribe(e) \/ SpawnFails(e) \/ WaitUnsubscribe(e) \/ ExecUnsubscribe(e)
    BY <1>5, <2>2 DEF ExecSubscribe, Subscribe, SpawnFails, WaitUnsubscribe, ExecUnsubscribe,
       Unsubscribe
  <2>3. CASE RecvExit(e) \/ Cancel(e) \/ ReadStd(e)
    BY <1>5, <2>3 DEF RecvExit, Cancel, ReadStd
  <2> QED
    BY <1>8, <2>1, <2>2, <2>3 DEF ExecStep
<1>9. ASSUME NEW u \in Users, UserStep(u) PROVE Kept
  BY <1>5, <1>9 DEF UserStep, UserSubscribe, Subscribe, UserUnsubscribe, Unsubscribe, UserReceive
<1>10. CASE UNCHANGED vars
  BY <1>5, <1>10 DEF vars
<1>11. Kept
  BY <1>3, <1>4, <1>6, <1>7, <1>8, <1>9, <1>10 DEF Next, Loop
<1> QED
  BY <1>11 DEF Kept

(* What a step does to what is in a channel: it may add the exit in hand.  *)
LEMMA ChannelStep ==
  ASSUME IInv, [Next]_vars, NEW i \in Ids
  PROVE  \/ chan'[i] = chan[i]
         \/ chan'[i] = <<>>
         \/ chan[i] # <<>> /\ chan'[i] = Tail(chan[i])
         \/ reaped # NoProc /\ chan'[i] = Append(chan[i], Event(reaped))
<1> USE DEF kernel, monitor, clients
<1>1. Types /\ i \in DOMAIN chan
  BY DEF IInv, Types
<1> DEFINE Goal == \/ chan'[i] = chan[i]
                   \/ chan'[i] = <<>>
                   \/ chan[i] # <<>> /\ chan'[i] = Tail(chan[i])
                   \/ reaped # NoProc /\ chan'[i] = Append(chan[i], Event(reaped))
<1>2. ASSUME chan' = chan PROVE Goal
  BY <1>2
<1>3. ASSUME NEW k, chan' = [chan EXCEPT ![k] = <<>>] PROVE Goal
  BY <1>1, <1>3
<1>4. ASSUME NEW k, chan[k] # <<>>, chan' = [chan EXCEPT ![k] = Tail(@)] PROVE Goal
  BY <1>1, <1>4
<1>5. ASSUME NotifyByPid PROVE Goal
  BY <1>1, <1>5 DEF NotifyByPid
<1>6. ASSUME NEW p \in Procs, Inherit(p) \/ Die(p) \/ WaitPid(p) PROVE Goal
  BY <1>2, <1>6 DEF Inherit, Die, WaitPid
<1>7. CASE SpawnLoop \/ TakeSignal \/ NoMoreZombies \/ UNCHANGED vars
  BY <1>2, <1>7 DEF SpawnLoop, TakeSignal, NoMoreZombies, vars
<1>8. ASSUME NEW e \in Execs, ExecStep(e) PROVE Goal
  <2>1. CASE ExecSubscribe(e) \/ Spawn(e) \/ Cancel(e) \/ ReadStd(e)
    BY <1>2, <2>1 DEF ExecSubscribe, Subscribe, Spawn, Cancel, ReadStd
  <2>2. CASE SpawnFails(e) \/ WaitUnsubscribe(e) \/ ExecUnsubscribe(e)
    BY <1>3, <2>2 DEF SpawnFails, WaitUnsubscribe, ExecUnsubscribe, Unsubscribe
  <2>3. CASE RecvExit(e)
    BY <1>4, <2>3 DEF RecvExit
  <2> QED
    BY <1>8, <2>1, <2>2, <2>3 DEF ExecStep
<1>9. ASSUME NEW u \in Users, UserStep(u) PROVE Goal
  <2>1. CASE UserSubscribe(u)
    BY <1>2, <2>1 DEF UserSubscribe, Subscribe
  <2>2. CASE UserUnsubscribe(u)
    BY <1>3, <2>2 DEF UserUnsubscribe, Unsubscribe
  <2>3. CASE UserReceive(u)
    BY <1>4, <2>3 DEF UserReceive
  <2> QED
    BY <1>9, <2>1, <2>2, <2>3 DEF UserStep
<1>10. Goal
  BY <1>5, <1>6, <1>7, <1>8, <1>9 DEF Next, Loop
<1> QED
  BY <1>10 DEF Goal

(* What is in a channel is true of the child it is about.                  *)
LEMMA EndsStep ==
  ASSUME IInv, EndsInv, [Next]_vars
  PROVE  EndsInv'
<1>1. Types /\ reaped \in Procs \cup {NoProc} /\ Ids' = Ids
  BY DEF IInv, DeliversSuffix, MapsAgree, Ids, NoId
<1> DEFINE Holds(r) ==
             proc'[r.of] = "reaped"
               /\ r = [pid |-> PidOf[r.of], code |-> ExitCode(end'[r.of]), of |-> r.of]
<1>2. ASSUME NEW r \in Reports, OfReaped(r) PROVE Holds(r)
  <2>1. r.of \in Procs /\ proc'[r.of] = "reaped" /\ end'[r.of] = end[r.of]
    BY <1>2, KernelStep DEF Reports, OfReaped
  <2> QED
    BY <1>2, <2>1 DEF OfReaped, Event
<1>3. ASSUME NEW i \in Ids, NEW n \in DOMAIN chan'[i] PROVE Holds(chan'[i][n])
  <2>1. chan[i] \in Seq(Reports)
    BY <1>1 DEF Types
  <2>2. ASSUME NEW m \in DOMAIN chan[i] PROVE chan[i][m] \in Reports /\ Holds(chan[i][m])
    <3>1. chan[i][m] \in Reports
      BY <2>1, ElementOfSeq, LenProperties
    <3> QED
      BY <1>2, <3>1 DEF EndsInv
  <2>3. CASE chan'[i] = chan[i]
    BY <1>3, <2>2, <2>3
  <2>4. CASE chan'[i] = <<>>
    BY <1>3, <2>4, EmptySeq
  <2>5. CASE chan[i] # <<>> /\ chan'[i] = Tail(chan[i])
    <3>1. n \in 1..Len(chan[i]) - 1 /\ chan'[i][n] = chan[i][n + 1] /\ Len(chan[i]) \in Nat
      BY <1>3, <2>1, <2>5, HeadTailProperties, LenProperties
    <3>2. n + 1 \in DOMAIN chan[i]
      <4>1. n + 1 \in 1..Len(chan[i])
        BY <3>1
      <4> QED
        BY <2>1, <4>1, LenProperties
    <3> QED
      BY <2>2, <3>1, <3>2
  <2>6. CASE reaped # NoProc /\ chan'[i] = Append(chan[i], Event(reaped))
    <3>1. reaped \in Procs /\ Event(reaped) \in Reports
      BY <1>1, <2>6, ReportType
    <3>2. Holds(Event(reaped))
      <4>1. OfReaped(Event(reaped))
        BY <2>6, <3>1 DEF OfReaped, EndsInv, Event
      <4> QED
        BY <1>2, <3>1, <4>1
    <3>3. n \in 1..Len(chan[i]) + 1 /\ Len(chan[i]) \in Nat /\ DOMAIN chan[i] = 1..Len(chan[i])
      BY <1>3, <2>1, <2>6, <3>1, AppendProperties, LenProperties
    <3>4. CASE n \in DOMAIN chan[i]
      <4>1. chan'[i][n] = chan[i][n]
        BY <2>1, <2>6, <3>1, <3>3, <3>4, AppendProperties
      <4> QED
        BY <2>2, <3>4, <4>1
    <3>5. CASE n = Len(chan[i]) + 1
      <4>1. chan'[i][n] = Event(reaped)
        BY <2>1, <2>6, <3>1, <3>5, AppendProperties
      <4> QED
        BY <3>2, <4>1
    <3> QED
      BY <3>3, <3>4, <3>5
  <2> QED
    BY <2>3, <2>4, <2>5, <2>6, ChannelStep
<1> QED
  BY <1>1, <1>3, KernelStep DEF EndsInv, OfReaped, Event, ExitCode

(* An execution moves itself only.                                         *)
LEMMA OwnMoves ==
  ASSUME IInv, [Next]_vars, NEW e \in Execs
  PROVE  \/ pc'[e] = pc[e] /\ child'[e] = child[e] /\ code'[e] = code[e]
         \/ pc'[e] \notin {"wait", "matched", "leaving", "done"}
         \/ Spawn(e) \/ RecvExit(e) \/ WaitUnsubscribe(e) \/ ExecUnsubscribe(e)
<1> USE DEF kernel, monitor, clients
<1>1. Types
  BY DEF IInv
<1> DEFINE Goal == \/ pc'[e] = pc[e] /\ child'[e] = child[e] /\ code'[e] = code[e]
                   \/ pc'[e] \notin {"wait", "matched", "leaving", "done"}
                   \/ Spawn(e) \/ RecvExit(e) \/ WaitUnsubscribe(e) \/ ExecUnsubscribe(e)
<1>2. ASSUME NEW p \in Procs, Inherit(p) \/ Die(p) \/ WaitPid(p) PROVE Goal
  BY <1>2 DEF Inherit, Die, WaitPid
<1>3. CASE SpawnLoop \/ TakeSignal \/ NoMoreZombies \/ NotifyByPid \/ UNCHANGED vars
  BY <1>3 DEF SpawnLoop, TakeSignal, NoMoreZombies, NotifyByPid, vars
<1>4. ASSUME NEW f \in Execs, ExecStep(f) PROVE Goal
  <2>1. e \in Subs /\ f \in Subs
    BY DEF Subs
  <2>2. CASE f # e
    <3>1. CASE ExecSubscribe(f) \/ SpawnFails(f) \/ WaitUnsubscribe(f) \/ ExecUnsubscribe(f)
      BY <1>1, <2>1, <2>2, <3>1
         DEF ExecSubscribe, Subscribe, SpawnFails, WaitUnsubscribe, ExecUnsubscribe, Unsubscribe, Types
    <3>2. CASE Spawn(f) \/ RecvExit(f) \/ Cancel(f) \/ ReadStd(f)
      BY <1>1, <2>1, <2>2, <3>2 DEF Spawn, RecvExit, Cancel, ReadStd, Types
    <3> QED
      BY <1>4, <3>1, <3>2 DEF ExecStep
  <2>3. CASE f = e
    <3>1. CASE ExecSubscribe(e) \/ SpawnFails(e) \/ Cancel(e) \/ ReadStd(e)
      BY <1>1, <2>1, <3>1 DEF ExecSubscribe, Subscribe, SpawnFails, Unsubscribe, Cancel,
         ReadStd, Types
    <3> QED
      BY <1>4, <2>3, <3>1 DEF ExecStep
  <2> QED
    BY <2>2, <2>3
<1>5. ASSUME NEW u \in Users, UserStep(u) PROVE Goal
  <2>1. e \in Subs /\ u \in Subs /\ u # e
    BY ConstantsAssumption DEF Subs
  <2> QED
    BY <1>1, <1>5, <2>1
       DEF UserStep, UserSubscribe, Subscribe, UserUnsubscribe, Unsubscribe, UserReceive, Types
<1>6. Goal
  BY <1>2, <1>3, <1>4, <1>5 DEF Next, Loop
<1> QED
  BY <1>6

(* Who waits, or is about to, stays subscribed.                            *)
LEMMA SubStep ==
  ASSUME IInv, SubInv, [Next]_vars
  PROVE  SubInv'
<1> USE DEF kernel, monitor, clients
<1>1. Types /\ seq_id \in Nat /\ \A i \in closed : i \in Nat /\ i < seq_id
  <2>1. Types
    BY DEF IInv
  <2>2. seq_id \in Nat
    BY IdType
  <2>3. closed \subseteq 0..(seq_id - 1)
    BY DEF SubInv
  <2>4. ASSUME NEW i \in closed PROVE i \in Nat /\ i < seq_id
    BY <2>2, <2>3
  <2> QED
    BY <2>1, <2>2, <2>4
<1>2. ASSUME UNCHANGED <<seq_id, subscribers, closed, sub>>, Started' = Started,
             \A e \in Execs : pc'[e] \in {"spawn", "wait"} => pc[e] \in {"spawn", "wait"}
      PROVE  SubInv'
  BY <1>2 DEF SubInv
<1>3. ASSUME NEW s \in Subs, pc[s] # "idle", NEW d \in Doing \ {"idle"},
             pc' = [pc EXCEPT ![s] = d]
      PROVE  /\ Started' = Started /\ pc'[s] = d
             /\ \A t \in Subs : t # s => pc'[t] = pc[t]
             /\ \A e \in Execs : e \in Subs
  BY <1>1, <1>3 DEF Started, Types, Subs
<1>4. ASSUME NEW s \in Subs, pc[s] = "idle", NEW next \in Doing \ {"idle"}, Subscribe(s, next),
             s \in Users => next \notin {"spawn", "wait"}
      PROVE  SubInv'
  <2>1. /\ \A t \in Subs : t # s => pc'[t] = pc[t] /\ sub'[t] = sub[t]
        /\ pc'[s] = next /\ sub'[s] = seq_id /\ closed' = closed /\ seq_id' = seq_id + 1
        /\ DOMAIN subscribers' = DOMAIN subscribers \cup {seq_id} /\ subscribers'[seq_id] = TopicFor(s)
        /\ \A i \in DOMAIN subscribers : i # seq_id => subscribers'[i] = subscribers[i]
    <3>1. seq_id \in Ids /\ seq_id \in 0..NoId
      BY <1>4, IdType DEF Ids
    <3> QED
      BY <1>1, <1>4, <3>1 DEF Subscribe, Types
  <2>2. ASSUME NEW t \in Subs, pc'[t] # "idle", t # s
        PROVE  t \in Started /\ sub'[t] = sub[t] /\ sub[t] # seq_id
    <3>1. sub[t] < seq_id /\ sub[t] \in Nat
      BY <2>1, <2>2, IdType DEF Ids
    <3> QED
      BY <1>1, <2>1, <2>2, <3>1 DEF Started
  <2>3. \A t, u \in Started' : sub'[t] = sub'[u] => t = u
    BY <2>1, <2>2 DEF SubInv, Started
  <2>4. closed' \subseteq 0..(seq_id' - 1) /\ seq_id \notin closed
    BY <1>1, <2>1
  <2>5. ASSUME NEW e \in Execs, pc'[e] \in {"spawn", "wait"}
        PROVE  sub'[e] \in DOMAIN subscribers' \ closed' /\ subscribers'[sub'[e]] = "Pid"
    <3>1. e \in Subs /\ e \notin Users
      BY ConstantsAssumption DEF Subs
    <3>2. CASE e = s
      BY <2>1, <2>4, <3>1, <3>2 DEF TopicFor
    <3>3. CASE e # s
      BY <2>1, <2>2, <2>5, <3>1, <3>3 DEF SubInv
    <3> QED
      BY <3>2, <3>3
  <2> QED
    BY <2>3, <2>4, <2>5 DEF SubInv
<1>5. ASSUME NEW s \in Subs, pc[s] # "idle", NEW next \in Doing \ {"idle", "spawn", "wait"},
             Unsubscribe(s, next)
      PROVE  SubInv'
  <2>1. /\ Started' = Started /\ pc'[s] = next /\ UNCHANGED <<sub, closed, seq_id>>
        /\ \A t \in Subs : t # s => pc'[t] = pc[t]
    BY <1>3, <1>5 DEF Unsubscribe
  <2>2. ASSUME NEW e \in Execs, pc'[e] \in {"spawn", "wait"}
        PROVE  sub[e] \in DOMAIN subscribers' \ closed /\ subscribers'[sub[e]] = "Pid"
    <3>1. e \in Subs /\ e # s /\ pc[e] = pc'[e]
      BY <2>1, <2>2 DEF Subs
    <3>2. sub[e] # sub[s]
      BY <1>5, <2>2, <3>1 DEF SubInv, Started
    <3> QED
      BY <1>5, <2>2, <3>1, <3>2 DEF SubInv, Unsubscribe
  <2> QED
    BY <2>1, <2>2 DEF SubInv
<1>6. ASSUME NEW p \in Procs, Inherit(p) \/ Die(p) \/ WaitPid(p) PROVE SubInv'
  BY <1>2, <1>6 DEF Inherit, Die, WaitPid, Started
<1>7. CASE SpawnLoop \/ TakeSignal \/ NoMoreZombies \/ NotifyByPid \/ UNCHANGED vars
  BY <1>2, <1>7 DEF SpawnLoop, TakeSignal, NoMoreZombies, NotifyByPid, vars, Started
<1>8. ASSUME NEW e \in Execs, ExecStep(e) PROVE SubInv'
  <2>1. e \in Subs /\ e \notin Users /\ \A f \in Execs : f \in Subs
    BY ConstantsAssumption DEF Subs
  <2>2. CASE ExecSubscribe(e)
    BY <1>4, <2>1, <2>2 DEF ExecSubscribe, Doing
  <2>3. CASE SpawnFails(e) \/ WaitUnsubscribe(e) \/ ExecUnsubscribe(e)
    BY <1>5, <2>1, <2>3 DEF SpawnFails, WaitUnsubscribe, ExecUnsubscribe, Doing
  <2>4. CASE Spawn(e)
    BY <1>2, <1>3, <2>1, <2>4 DEF Spawn, Doing
  <2>5. CASE RecvExit(e)
    <3>1. CASE pc' = pc
      BY <1>2, <2>5, <3>1 DEF RecvExit, Started
    <3>2. CASE pc' = [pc EXCEPT ![e] = "matched"]
      BY <1>2, <1>3, <2>1, <2>5, <3>2 DEF RecvExit, Doing
    <3> QED
      BY <2>5, <3>1, <3>2 DEF RecvExit
  <2>6. CASE ReadStd(e)
    BY <1>2, <2>6 DEF ReadStd, Started
  <2>7. CASE Cancel(e)
    <3>1. /\ Started' = Started /\ pc'[e] = "dropped" /\ closed' = closed \cup {sub[e]}
          /\ UNCHANGED <<seq_id, subscribers, sub>> /\ \A f \in Execs : f # e => pc'[f] = pc[f]
      BY <1>3, <2>1, <2>7 DEF Cancel, Doing
    <3>2. sub[e] \in 0..(seq_id - 1)
      BY <1>1, <2>1, <2>7, IdType DEF Cancel, Ids
    <3>3. ASSUME NEW f \in Execs, pc'[f] \in {"spawn", "wait"}
          PROVE  sub[f] # sub[e] /\ pc[f] \in {"spawn", "wait"}
      BY <2>1, <2>7, <3>1, <3>3 DEF SubInv, Started, Cancel
    <3> QED
      BY <3>1, <3>2, <3>3 DEF SubInv
  <2> QED
    BY <1>8, <2>2, <2>3, <2>4, <2>5, <2>6, <2>7 DEF ExecStep
<1>9. ASSUME NEW u \in Users, UserStep(u) PROVE SubInv'
  <2>1. u \in Subs
    BY DEF Subs
  <2>2. CASE UserSubscribe(u)
    BY <1>4, <2>1, <2>2 DEF UserSubscribe, Doing
  <2>3. CASE UserUnsubscribe(u)
    BY <1>5, <2>1, <2>3 DEF UserUnsubscribe, Doing
  <2>4. CASE UserReceive(u)
    BY <1>2, <2>4 DEF UserReceive, Started
  <2> QED
    BY <1>9, <2>2, <2>3, <2>4 DEF UserStep
<1> QED
  BY <1>6, <1>7, <1>8, <1>9 DEF Next, Loop

(* While it waits, an execution passes over the exits of other children,   *)
(* and is sent the exit in the loop's hand when that is told.              *)
LEMMA WaitChannel ==
  ASSUME IInv, SubInv, [Next]_vars, NEW e \in Execs, pc[e] = "wait", pc'[e] = "wait"
  PROVE  /\ child'[e] = child[e] /\ sub'[e] = sub[e]
         /\ \/ chan'[sub[e]] = chan[sub[e]] /\ (reaped' = reaped \/ reaped = NoProc)
            \/ /\ chan[sub[e]] # <<>> /\ Head(chan[sub[e]]).pid # PidOf[child[e]]
               /\ chan'[sub[e]] = Tail(chan[sub[e]]) /\ reaped' = reaped
            \/ /\ reaped # NoProc /\ reaped' = NoProc
               /\ chan'[sub[e]] = Append(chan[sub[e]], Event(reaped))
<1> USE DEF kernel, monitor, clients
<1>1. /\ Types /\ e \in Subs /\ e \notin Users /\ sub[e] \in Ids /\ e \in Started
      /\ sub[e] \in DOMAIN subscribers \ closed /\ subscribers[sub[e]] = "Pid"
  <2>1. e \in Subs /\ e \notin Users
    BY ConstantsAssumption DEF Subs
  <2> QED
    BY <2>1, IdType DEF IInv, SubInv, Started
<1> DEFINE Goal ==
      /\ child'[e] = child[e] /\ sub'[e] = sub[e]
      /\ \/ chan'[sub[e]] = chan[sub[e]] /\ (reaped' = reaped \/ reaped = NoProc)
         \/ /\ chan[sub[e]] # <<>> /\ Head(chan[sub[e]]).pid # PidOf[child[e]]
            /\ chan'[sub[e]] = Tail(chan[sub[e]]) /\ reaped' = reaped
         \/ /\ reaped # NoProc /\ reaped' = NoProc
            /\ chan'[sub[e]] = Append(chan[sub[e]], Event(reaped))
<1>2. ASSUME NEW s \in Subs, s \in Started, s # e PROVE sub[s] # sub[e] /\ sub[s] \in Ids
  BY <1>1, <1>2, IdType DEF SubInv, Started
<1>3. ASSUME child'[e] = child[e], sub'[e] = sub[e], chan' = chan, reaped' = reaped \/ reaped = NoProc
      PROVE  Goal
  BY <1>3
<1>4. ASSUME NEW s \in Subs, s \in Started, s # e, NEW x, chan' = [chan EXCEPT ![sub[s]] = x],
             UNCHANGED <<child, sub, reaped>>
      PROVE  Goal
  BY <1>1, <1>2, <1>4 DEF Types
<1>5. CASE NotifyByPid
  <2>1. sub[e] \in (Told("Pid") \cup Told("All")) \ closed
    <3>1. ToSet(topic_subs["Pid"]) = {j \in DOMAIN subscribers : subscribers[j] = "Pid"}
      BY DEF IInv, DeliversSuffix, MapsAgree, Topics
    <3> QED
      BY <1>1, <3>1 DEF Told, ToSet
  <2> QED
    BY <1>1, <1>5, <2>1 DEF NotifyByPid, Types
<1>6. ASSUME NEW p \in Procs, Inherit(p) \/ Die(p) \/ WaitPid(p) PROVE Goal
  BY <1>3, <1>6 DEF Inherit, Die, WaitPid
<1>7. CASE SpawnLoop \/ TakeSignal \/ NoMoreZombies \/ UNCHANGED vars
  BY <1>3, <1>7 DEF SpawnLoop, TakeSignal, NoMoreZombies, vars
<1>8. ASSUME NEW f \in Execs, ExecStep(f) PROVE Goal
  <2>1. f \in Subs
    BY DEF Subs
  <2>2. CASE ExecSubscribe(f)
    BY <1>1, <1>3, <2>1, <2>2 DEF ExecSubscribe, Subscribe, Types
  <2>3. CASE SpawnFails(f) \/ WaitUnsubscribe(f) \/ ExecUnsubscribe(f)
    <3>1. f # e /\ f \in Started
      BY <2>1, <2>3 DEF SpawnFails, WaitUnsubscribe, ExecUnsubscribe, Started
    <3> QED
      BY <1>4, <2>1, <2>3, <3>1 DEF SpawnFails, WaitUnsubscribe, ExecUnsubscribe, Unsubscribe
  <2>4. CASE Spawn(f)
    BY <1>1, <1>3, <2>4 DEF Spawn, Types
  <2>5. CASE RecvExit(f)
    <3>1. CASE f = e
      <4>1. Head(chan[sub[e]]).pid # PidOf[child[e]]
        BY <1>1, <2>5, <3>1 DEF RecvExit, Types
      <4> QED
        BY <1>1, <2>5, <3>1, <4>1 DEF RecvExit, Types
    <3>2. CASE f # e
      BY <1>4, <2>1, <2>5, <3>2 DEF RecvExit, Started
    <3> QED
      BY <3>1, <3>2
  <2>6. CASE Cancel(f) \/ ReadStd(f)
    BY <1>3, <2>6 DEF Cancel, ReadStd
  <2> QED
    BY <1>8, <2>2, <2>3, <2>4, <2>5, <2>6 DEF ExecStep
<1>9. ASSUME NEW u \in Users, UserStep(u) PROVE Goal
  <2>1. u \in Subs /\ u # e
    BY <1>1 DEF Subs
  <2>2. CASE UserSubscribe(u)
    BY <1>1, <1>3, <2>1, <2>2 DEF UserSubscribe, Subscribe, Types
  <2>3. CASE UserUnsubscribe(u)
    BY <1>4, <2>1, <2>3 DEF UserUnsubscribe, Unsubscribe, Started
  <2>4. CASE UserReceive(u)
    BY <1>4, <2>1, <2>4 DEF UserReceive, Started
  <2> QED
    BY <1>9, <2>2, <2>3, <2>4 DEF UserStep
<1>10. Goal
  BY <1>5, <1>6, <1>7, <1>8, <1>9 DEF Next, Loop
<1> QED
  BY <1>10

(* What a step does to a child: it is forked, ends, is reaped, told of.    *)
LEMMA ChildStep ==
  ASSUME IInv, [Next]_vars, NEW q \in Procs
  PROVE  /\ proc'[q] # proc[q] => \/ Fork(q) /\ proc'[q] = "alive"
                                  \/ proc[q] = "alive" /\ proc'[q] = "zombie"
                                  \/ proc[q] = "zombie" /\ proc'[q] = "reaped" /\ reaped' = q /\ reaped = NoProc
         /\ reaped' # reaped => reaped' = NoProc \/ (reaped' \in Procs /\ proc[reaped'] = "zombie")
<1> USE DEF kernel, monitor, clients
<1>1. Types
  BY DEF IInv
<1> DEFINE Goal ==
      /\ proc'[q] # proc[q] => \/ Fork(q) /\ proc'[q] = "alive"
                               \/ proc[q] = "alive" /\ proc'[q] = "zombie"
                               \/ proc[q] = "zombie" /\ proc'[q] = "reaped" /\ reaped' = q /\ reaped = NoProc
      /\ reaped' # reaped => reaped' = NoProc \/ (reaped' \in Procs /\ proc[reaped'] = "zombie")
<1>2. ASSUME NEW p \in Procs, Fork(p), reaped' = reaped PROVE Goal
  <2>1. CASE p = q
    BY <1>1, <1>2, <2>1 DEF Fork, Types
  <2>2. CASE p # q
    BY <1>1, <1>2, <2>2 DEF Fork, Types
  <2> QED
    BY <2>1, <2>2
<1>3. ASSUME NEW p \in Procs, Die(p) PROVE Goal
  BY <1>1, <1>3 DEF Die, Types
<1>4. ASSUME NEW p \in Procs, WaitPid(p) PROVE Goal
  BY <1>1, <1>4 DEF WaitPid, Types
<1>5. ASSUME proc' = proc, reaped' \in {reaped, NoProc} PROVE Goal
  BY <1>5
<1>6. ASSUME NEW p \in Procs, Inherit(p) PROVE Goal
  BY <1>2, <1>6 DEF Inherit
<1>7. CASE SpawnLoop \/ TakeSignal \/ NoMoreZombies \/ NotifyByPid
  BY <1>5, <1>7 DEF SpawnLoop, TakeSignal, NoMoreZombies, NotifyByPid
<1>8. ASSUME NEW e \in Execs, ExecStep(e) PROVE Goal
  <2>1. CASE Spawn(e)
    BY <1>2, <2>1 DEF Spawn
  <2>2. CASE ExecSubscribe(e) \/ SpawnFails(e) \/ WaitUnsubscribe(e) \/ ExecUnsubscribe(e)
    BY <1>5, <2>2 DEF ExecSubscribe, Subscribe, SpawnFails, WaitUnsubscribe, ExecUnsubscribe,
       Unsubscribe
  <2>3. CASE RecvExit(e) \/ Cancel(e) \/ ReadStd(e)
    BY <1>5, <2>3 DEF RecvExit, Cancel, ReadStd
  <2> QED
    BY <1>8, <2>1, <2>2, <2>3 DEF ExecStep
<1>9. ASSUME NEW u \in Users, UserStep(u) PROVE Goal
  BY <1>5, <1>9 DEF UserStep, UserSubscribe, Subscribe, UserUnsubscribe, Unsubscribe, UserReceive
<1>10. CASE UNCHANGED vars
  BY <1>5, <1>10 DEF vars
<1>11. Goal
  BY <1>3, <1>4, <1>6, <1>7, <1>8, <1>9, <1>10 DEF Next, Loop
<1> QED
  BY <1>11

(* What is in a channel after a step of those three kinds.                 *)
LEMMA InChannelStep ==
  ASSUME IInv, EndsInv, NEW e \in Execs, pc[e] # "idle", NEW p \in Procs
  PROVE  /\ InChannel(e, p) => \E n \in DOMAIN chan[sub[e]] : chan[sub[e]][n] = Event(p)
         /\ chan[sub[e]] # <<>> =>
              /\ (\E n \in DOMAIN Tail(chan[sub[e]]) : Tail(chan[sub[e]])[n].of = p) => InChannel(e, p)
              /\ InChannel(e, p) /\ Head(chan[sub[e]]).pid # PidOf[p] =>
                   \E n \in DOMAIN Tail(chan[sub[e]]) : Tail(chan[sub[e]])[n].of = p
         /\ \A r \in Reports :
              (\E n \in DOMAIN Append(chan[sub[e]], r) : Append(chan[sub[e]], r)[n].of = p)
                <=> InChannel(e, p) \/ r.of = p
<1> DEFINE s == chan[sub[e]]
<1>1. /\ s \in Seq(Reports) /\ Len(s) \in Nat /\ DOMAIN s = 1..Len(s)
      /\ \A n \in DOMAIN s : s[n] \in Reports /\ s[n] = Event(s[n].of)
  <2>1. sub[e] \in Ids
    BY IdType DEF Subs
  <2>2. s \in Seq(Reports)
    BY <2>1 DEF IInv, Types
  <2> QED
    BY <2>1, <2>2, LenProperties, ElementOfSeq DEF EndsInv, OfReaped
<1>2. InChannel(e, p) <=> \E n \in DOMAIN s : s[n].of = p
  BY DEF InChannel
<1> HIDE DEF s
<1>3. InChannel(e, p) => \E n \in DOMAIN s : s[n] = Event(p)
  BY <1>1, <1>2
<1>4. ASSUME s # <<>>
      PROVE  /\ (\E n \in DOMAIN Tail(s) : Tail(s)[n].of = p) => InChannel(e, p)
             /\ InChannel(e, p) /\ Head(s).pid # PidOf[p] => \E n \in DOMAIN Tail(s) : Tail(s)[n].of = p
  <2>1. /\ Tail(s) \in Seq(Reports) /\ Len(Tail(s)) = Len(s) - 1 /\ Head(s) = s[1]
        /\ \A i \in 1..Len(s) - 1 : Tail(s)[i] = s[i + 1]
    BY <1>1, <1>4, HeadTailProperties
  <2>2. DOMAIN Tail(s) = 1..Len(s) - 1
    BY <2>1, LenProperties
  <2>3. ASSUME NEW n \in DOMAIN Tail(s), Tail(s)[n].of = p PROVE \E m \in DOMAIN s : s[m].of = p
    <3>1. n + 1 \in 1..Len(s)
      BY <1>1, <2>2
    <3> QED
      BY <1>1, <2>1, <2>2, <2>3, <3>1
  <2>4. ASSUME NEW n \in DOMAIN s, s[n].of = p, Head(s).pid # PidOf[p]
        PROVE  \E m \in DOMAIN Tail(s) : Tail(s)[m].of = p
    <3>1. s[n].pid = PidOf[p]
      BY <1>1, <2>4 DEF Event
    <3>2. n # 1
      BY <2>1, <2>4, <3>1
    <3>3. n - 1 \in 1..Len(s) - 1 /\ n - 1 + 1 = n
      BY <1>1, <3>2
    <3>4. Tail(s)[n - 1] = s[n]
      BY <2>1, <3>3
    <3> QED
      BY <2>2, <2>4, <3>3, <3>4
  <2> QED
    BY <1>2, <2>3, <2>4
<1>5. ASSUME NEW r \in Reports
      PROVE  (\E n \in DOMAIN Append(s, r) : Append(s, r)[n].of = p) <=> InChannel(e, p) \/ r.of = p
  <2>1. /\ Append(s, r) \in Seq(Reports) /\ Len(Append(s, r)) = Len(s) + 1
        /\ \A i \in 1..Len(s) : Append(s, r)[i] = s[i] /\ Append(s, r)[Len(s) + 1] = r
        /\ Append(s, r)[Len(s) + 1] = r
    BY <1>1, AppendProperties
  <2>2. DOMAIN Append(s, r) = 1..Len(s) + 1
    BY <2>1, LenProperties
  <2>3. ASSUME NEW n \in DOMAIN Append(s, r), Append(s, r)[n].of = p PROVE InChannel(e, p) \/ r.of = p
    <3>1. n \in DOMAIN s \/ n = Len(s) + 1
      BY <1>1, <2>2
    <3> QED
      BY <1>1, <1>2, <2>1, <2>3, <3>1
  <2>4. ASSUME NEW n \in DOMAIN s, s[n].of = p
        PROVE  \E m \in DOMAIN Append(s, r) : Append(s, r)[m].of = p
    <3>1. n \in DOMAIN Append(s, r)
      BY <1>1, <2>2
    <3> QED
      BY <1>1, <2>1, <2>4, <3>1
  <2>5. Len(s) + 1 \in DOMAIN Append(s, r)
    BY <1>1, <2>2
  <2> QED
    BY <1>2, <2>1, <2>3, <2>4, <2>5
<1> QED
  BY <1>3, <1>4, <1>5 DEF s

(* The exits of who waits stay apart from those of other children.         *)
LEMMA WaitStep ==
  ASSUME IInv, EndsInv, SubInv, WaitInv, [Next]_vars, [PidsRest]_vars
  PROVE  WaitInv'
<1>1. Types /\ reaped \in Procs \cup {NoProc} /\ NoProc \notin Procs
  BY ConstantsAssumption DEF IInv, DeliversSuffix, MapsAgree
<1>2. ASSUME NEW p \in Procs, proc[p] = "unborn", proc'[p] # "unborn" PROVE ~ Unread(PidOf[p])
  BY <1>2 DEF PidsRest, vars
<1> DEFINE There(e, q) == \E n \in DOMAIN chan'[sub'[e]] : chan'[sub'[e]][n].of = q
           Apart(e, c) == /\ c \in Procs /\ proc'[c] # "unborn"
                          /\ \A q \in Procs \ {c} : PidOf[q] = PidOf[c] =>
                               proc'[q] \notin {"alive", "zombie"} /\ reaped' # q /\ ~ There(e, q)
                          /\ proc'[c] = "reaped" => reaped' = c \/ There(e, c)
<1>3. ASSUME NEW e \in Execs, pc[e] = "wait", pc'[e] = "wait", NEW c \in Procs, child[e] = c
      PROVE  Apart(e, c)
  <2>1. /\ proc[c] # "unborn"
        /\ \A q \in Procs \ {c} : PidOf[q] = PidOf[c] =>
             proc[q] \notin {"alive", "zombie"} /\ reaped # q /\ ~ InChannel(e, q)
        /\ proc[c] = "reaped" => reaped = c \/ InChannel(e, c)
    BY <1>3 DEF WaitInv
  <2>2. reaped # NoProc => Event(reaped) \in Reports /\ Event(reaped).of = reaped
    BY <1>1, ReportType DEF Event
  <2>3. proc'[c] # "unborn" /\ (proc'[c] = "reaped" => proc[c] = "reaped" \/ reaped' = c)
    BY <2>1, ChildStep
  <2>4. InChannel(e, c) => \E n \in DOMAIN chan[sub[e]] : chan[sub[e]][n].pid = PidOf[c]
    <3>1. InChannel(e, c) => \E n \in DOMAIN chan[sub[e]] : chan[sub[e]][n] = Event(c)
      BY <1>3, InChannelStep
    <3> QED
      BY <3>1 DEF Event
  <2>5. ASSUME NEW q \in Procs \ {c}, PidOf[q] = PidOf[c]
        PROVE  proc'[q] \notin {"alive", "zombie"} /\ reaped' # q
    <3>1. ~ Fork(q)
      <4>1. CASE proc[c] = "reaped"
        <5>1. Unread(PidOf[q])
          BY <1>1, <1>3, <2>1, <2>4, <2>5, <4>1 DEF Unread
        <5>2. Fork(q) => proc[q] = "unborn" /\ proc'[q] = "alive"
          BY <1>1 DEF Fork, Types
        <5> QED
          BY <1>2, <5>1, <5>2
      <4>2. CASE proc[c] # "reaped"
        <5>1. proc[c] \in {"alive", "zombie"}
          BY <1>1, <2>1, <4>2 DEF Types
        <5> QED
          BY <2>5, <5>1 DEF Fork
      <4> QED
        BY <4>1, <4>2
    <3> QED
      BY <1>1, <2>1, <2>5, <3>1, ChildStep
  <2>6. /\ sub'[e] = sub[e]
        /\ \/ chan'[sub[e]] = chan[sub[e]] /\ (reaped' = reaped \/ reaped = NoProc)
           \/ /\ chan[sub[e]] # <<>> /\ Head(chan[sub[e]]).pid # PidOf[c]
              /\ chan'[sub[e]] = Tail(chan[sub[e]]) /\ reaped' = reaped
           \/ /\ reaped # NoProc /\ reaped' = NoProc
              /\ chan'[sub[e]] = Append(chan[sub[e]], Event(reaped))
    BY <1>3, WaitChannel
  <2>7. ASSUME NEW q \in Procs \ {c}, PidOf[q] = PidOf[c] PROVE ~ There(e, q)
    <3>1. reaped # q /\ ~ InChannel(e, q)
      BY <2>1, <2>7
    <3>2. CASE chan'[sub[e]] = chan[sub[e]]
      BY <2>6, <3>1, <3>2 DEF InChannel
    <3>3. CASE chan[sub[e]] # <<>> /\ chan'[sub[e]] = Tail(chan[sub[e]])
      BY <1>3, <2>6, <3>1, <3>3, InChannelStep
    <3>4. CASE reaped # NoProc /\ chan'[sub[e]] = Append(chan[sub[e]], Event(reaped))
      BY <1>3, <2>2, <2>6, <3>1, <3>4, InChannelStep
    <3> QED
      BY <2>6, <3>2, <3>3, <3>4
  <2>8. ASSUME proc[c] = "reaped" PROVE reaped' = c \/ There(e, c)
    <3>1. CASE chan'[sub[e]] = chan[sub[e]] /\ (reaped' = reaped \/ reaped = NoProc)
      BY <1>1, <2>1, <2>6, <2>8, <3>1 DEF InChannel
    <3>2. CASE /\ chan[sub[e]] # <<>> /\ Head(chan[sub[e]]).pid # PidOf[c]
               /\ chan'[sub[e]] = Tail(chan[sub[e]]) /\ reaped' = reaped
      <4>1. InChannel(e, c) => There(e, c)
        BY <1>3, <2>6, <3>2, InChannelStep
      <4> QED
        BY <2>1, <2>8, <3>2, <4>1
    <3>3. CASE reaped # NoProc /\ chan'[sub[e]] = Append(chan[sub[e]], Event(reaped))
      <4>1. InChannel(e, c) \/ reaped = c => There(e, c)
        BY <1>3, <2>2, <2>6, <3>3, InChannelStep
      <4> QED
        BY <2>1, <2>8, <4>1
    <3> QED
      BY <2>6, <3>1, <3>2, <3>3
  <2> QED
    BY <2>3, <2>5, <2>7, <2>8
<1>4. ASSUME NEW e \in Execs, pc[e] = "spawn", Spawn(e), NEW p \in Procs, Fork(p)
      PROVE  Apart(e, p)
  <2>1. proc[p] = "unborn" /\ proc'[p] = "alive" /\ \A q \in Procs : q # p => proc'[q] = proc[q]
    BY <1>1, <1>4 DEF Fork, Types
  <2>2. ~ Unread(PidOf[p]) /\ UNCHANGED <<chan, sub, reaped>>
    BY <1>2, <1>4, <2>1 DEF Spawn, monitor
  <2>3. ASSUME NEW q \in Procs \ {p}, PidOf[q] = PidOf[p]
        PROVE  proc'[q] \notin {"alive", "zombie"} /\ reaped' # q /\ ~ There(e, q)
    <3>1. proc[q] \notin {"alive", "zombie"}
      BY <1>4, <2>3 DEF Fork
    <3>2. reaped # q
      BY <1>1, <2>2, <2>3 DEF Unread
    <3>3. ~ InChannel(e, q)
      <4>1. InChannel(e, q) => \E n \in DOMAIN chan[sub[e]] : chan[sub[e]][n] = Event(q)
        BY <1>4, InChannelStep
      <4> QED
        BY <1>4, <2>2, <2>3, <4>1 DEF Unread, Event
    <3> QED
      BY <2>1, <2>2, <3>1, <3>2, <3>3 DEF InChannel
  <2> QED
    BY <2>1, <2>3
<1> HIDE DEF Apart
<1>5. ASSUME NEW e \in Execs, pc'[e] = "wait" PROVE Apart(e, child'[e])
  <2>1. CASE pc[e] = "wait"
    <3>1. child[e] \in Procs /\ child'[e] = child[e]
      BY <1>5, <2>1, WaitChannel DEF WaitInv
    <3> QED
      BY <1>3, <1>5, <2>1, <3>1
  <2>2. CASE pc[e] # "wait"
    <3>1. e \in Subs
      BY DEF Subs
    <3>2. Spawn(e)
      BY <1>1, <1>5, <2>2, <3>1, OwnMoves DEF RecvExit, WaitUnsubscribe, ExecUnsubscribe,
         Unsubscribe, Types
    <3>3. PICK p \in Procs : Fork(p) /\ child' = [child EXCEPT ![e] = p]
      BY <3>2 DEF Spawn
    <3>4. child'[e] = p
      BY <1>1, <3>3 DEF Types
    <3> QED
      BY <1>4, <3>2, <3>3, <3>4 DEF Spawn
  <2> QED
    BY <2>1, <2>2
<1> QED
  BY <1>5 DEF Apart, WaitInv, InChannel

(* The exit an execution takes is told of its own child.                   *)
LEMMA Matched ==
  ASSUME IInv, EndsInv, WaitInv, NEW e \in Execs, RecvExit(e), NEW c \in Procs, child[e] = c,
         Head(chan[sub[e]]).pid = PidOf[c]
  PROVE  proc[c] = "reaped" /\ Head(chan[sub[e]]).code = ExitCode(end[c])
<1> DEFINE r == Head(chan[sub[e]])
<1>1. pc[e] = "wait" /\ sub[e] \in Ids /\ chan[sub[e]] # <<>> /\ chan[sub[e]] \in Seq(Reports)
  <2>1. e \in Subs
    BY DEF Subs
  <2> QED
    BY <2>1, IdType DEF RecvExit, IInv, Types
<1>2. r = chan[sub[e]][1] /\ r \in Reports /\ 1 \in DOMAIN chan[sub[e]]
  BY <1>1, HeadTailProperties, EmptySeq, LenProperties
<1>3. OfReaped(r) /\ r.of \in Procs
  BY <1>1, <1>2 DEF EndsInv, Reports
<1>4. r.of = c
  <2>1. PidOf[r.of] = PidOf[c]
    BY <1>3 DEF OfReaped, Event
  <2>2. InChannel(e, r.of)
    BY <1>2 DEF InChannel
  <2> QED
    BY <1>1, <1>3, <2>1, <2>2 DEF WaitInv
<1> QED
  BY <1>3, <1>4 DEF OfReaped, Event

(* The code an execution took is its child's.                              *)
LEMMA CodeStep ==
  ASSUME IInv, EndsInv, WaitInv, CodeInv, [Next]_vars
  PROVE  CodeInv'
<1>1. Types
  BY DEF IInv
<1>2. ASSUME NEW e \in Execs
      PROVE  /\ pc'[e] \in {"wait", "matched", "leaving", "done"} => child'[e] \in Procs
             /\ pc'[e] \in {"matched", "leaving", "done"} =>
                  proc'[child'[e]] = "reaped" /\ code'[e] = ExitCode(end'[child'[e]])
  <2>1. e \in Subs
    BY DEF Subs
  <2>2. ASSUME child'[e] = child[e], code'[e] = code[e], pc[e] \in {"wait", "matched", "leaving", "done"},
               pc'[e] \in {"matched", "leaving", "done"} => pc[e] \in {"matched", "leaving", "done"}
        PROVE  /\ child'[e] \in Procs
               /\ pc'[e] \in {"matched", "leaving", "done"} =>
                    proc'[child'[e]] = "reaped" /\ code'[e] = ExitCode(end'[child'[e]])
    <3>1. child[e] \in Procs
      BY <2>2 DEF CodeInv
    <3> QED
      BY <2>2, <3>1, KernelStep DEF CodeInv
  <2>3. CASE pc'[e] = pc[e] /\ child'[e] = child[e] /\ code'[e] = code[e]
    BY <2>2, <2>3
  <2>4. CASE Spawn(e)
    <3>1. PICK p \in Procs : child' = [child EXCEPT ![e] = p]
      BY <2>4 DEF Spawn
    <3> QED
      BY <1>1, <2>1, <2>4, <3>1 DEF Spawn, Types
  <2>5. CASE RecvExit(e)
    <3>1. pc[e] = "wait" /\ child[e] \in Procs /\ child' = child /\ end' = end /\ proc' = proc
      BY <2>5 DEF RecvExit, CodeInv, kernel
    <3>2. CASE Head(chan[sub[e]]).pid = PidOf[child[e]]
      <4>1. proc[child[e]] = "reaped" /\ Head(chan[sub[e]]).code = ExitCode(end[child[e]])
        BY <2>5, <3>1, <3>2, Matched
      <4> QED
        BY <1>1, <2>1, <2>5, <3>1, <3>2, <4>1 DEF RecvExit, Types
    <3>3. CASE Head(chan[sub[e]]).pid # PidOf[child[e]]
      BY <2>2, <2>5, <3>1, <3>3 DEF RecvExit
    <3> QED
      BY <3>2, <3>3
  <2>6. CASE WaitUnsubscribe(e) \/ ExecUnsubscribe(e)
    BY <1>1, <2>1, <2>2, <2>6 DEF WaitUnsubscribe, ExecUnsubscribe, Unsubscribe, Types
  <2> QED
    BY <2>3, <2>4, <2>5, <2>6, OwnMoves
<1> QED
  BY <1>2 DEF CodeInv, ExitCode

(* A bare code is 0 of a child that succeeded, and of no other.            *)
LEMMA ZeroIsSuccess ==
  ASSUME NEW x \in Ends
  PROVE  Success(ExitCode(x)) <=> x = [how |-> "exited", n |-> 0]
<1>1. x \in [how: {"exited", "signaled"}, n: 0..255]
  BY ConstantsAssumption
<1>2. x.how \in {"exited", "signaled"} /\ x.n \in Nat /\ x = [how |-> x.how, n |-> x.n]
  BY <1>1
<1> QED
  BY <1>2 DEF Success, ExitCode

(* Initially nothing runs, and nothing waits.                              *)
LEMMA OthersInit == Init => EndsInv /\ SubInv /\ WaitInv /\ CodeInv
<1> SUFFICES ASSUME Init PROVE EndsInv /\ SubInv /\ WaitInv /\ CodeInv
  OBVIOUS
<1>1. ASSUME NEW i \in Ids PROVE chan[i] = <<>>
  BY DEF Init, Ids
<1>2. DOMAIN <<>> = {}
  BY EmptySeq
<1>3. EndsInv
  BY <1>1, <1>2 DEF Init, EndsInv
<1>4. ASSUME NEW e \in Execs PROVE pc[e] = "idle"
  BY DEF Init, Subs
<1>5. WaitInv /\ CodeInv
  BY <1>4 DEF WaitInv, CodeInv
<1>6. SubInv
  BY <1>4 DEF Init, SubInv, Started
<1> QED
  BY <1>3, <1>5, <1>6

(* An execution that has its code has its child's.                         *)
LEMMA CodeIsOwn == EndsInv /\ CodeInv => OwnCode
<1> SUFFICES ASSUME EndsInv, CodeInv, NEW e \in Execs, pc[e] \in {"matched", "leaving", "done"}
             PROVE  /\ code[e] = ExitCode(end[child[e]])
                    /\ Success(code[e]) = (end[child[e]] = [how |-> "exited", n |-> 0])
  BY DEF OwnCode
<1>1. child[e] \in Procs /\ proc[child[e]] = "reaped" /\ code[e] = ExitCode(end[child[e]])
  BY DEF CodeInv
<1>2. end[child[e]] \in Ends
  BY <1>1 DEF EndsInv
<1> QED
  BY <1>1, <1>2, ZeroIsSuccess DEF Success

(* What an execution is told of is its own child's exit, and its caller of *)
(* success if that child succeeded, whatever pids are used again, as long  *)
(* as the kernel lets those rest whose exit is still to be read (wait_pid, *)
(* execute and launch).                                                    *)
THEOREM EachTakesItsOwnExit == Spec /\ [][PidsRest]_vars => []OwnCode
<1> DEFINE Inv == IInv /\ EndsInv /\ SubInv /\ WaitInv /\ CodeInv
<1>1. Init => Inv
  BY InitInv, OthersInit
<1>2. Inv /\ [Next]_vars /\ [PidsRest]_vars => Inv'
  BY InvStep, EndsStep, SubStep, WaitStep, CodeStep
<1>3. Inv => OwnCode
  BY CodeIsOwn
<1> QED
  BY <1>1, <1>2, <1>3, PTL DEF Spec

(* Pids that are never used again rest: what is on its way is of children  *)
(* that were reaped, and whose pids were theirs.                           *)
LEMMA DistinctPidsRest ==
  ASSUME DistinctPids, IInv, EndsInv, [Next]_vars
  PROVE  [PidsRest]_vars
<1> SUFFICES ASSUME NEW p \in Procs, proc[p] = "unborn", Unread(PidOf[p]) PROVE FALSE
  BY DEF PidsRest
<1>1. Types /\ reaped \in Procs \cup {NoProc}
  BY DEF IInv, DeliversSuffix, MapsAgree
<1>2. CASE reaped # NoProc /\ PidOf[reaped] = PidOf[p]
  BY <1>1, <1>2 DEF DistinctPids, EndsInv
<1>3. CASE \E e \in Execs : /\ pc[e] \in {"spawn", "wait"}
                           /\ \E n \in DOMAIN chan[sub[e]] : chan[sub[e]][n].pid = PidOf[p]
  <2>1. PICK e \in Execs : /\ pc[e] \in {"spawn", "wait"}
                           /\ \E n \in DOMAIN chan[sub[e]] : chan[sub[e]][n].pid = PidOf[p]
    BY <1>3
  <2>n. PICK n \in DOMAIN chan[sub[e]] : chan[sub[e]][n].pid = PidOf[p]
    BY <2>1
  <2>2. sub[e] \in Ids
    BY <2>1, IdType DEF Subs
  <2>3. chan[sub[e]][n] \in Reports
    BY <1>1, <2>2, ElementOfSeq, LenProperties DEF Types
  <2>4. PICK q \in Procs : proc[q] = "reaped" /\ chan[sub[e]][n] = Event(q)
    BY <2>2, <2>3 DEF EndsInv, OfReaped, Reports
  <2>5. PidOf[q] = PidOf[p]
    BY <2>n, <2>4 DEF Event
  <2> QED
    BY <2>4, <2>5 DEF DistinctPids
<1> QED
  BY <1>2, <1>3 DEF Unread

(* In particular where no pid is given twice.                              *)
THEOREM OwnExitOfDistinctPids == DistinctPids => (Spec => []OwnCode)
<1> SUFFICES ASSUME DistinctPids PROVE Spec => []OwnCode
  OBVIOUS
<1> DEFINE Inv == IInv /\ EndsInv /\ SubInv /\ WaitInv /\ CodeInv
<1>1. Init => Inv
  BY InitInv, OthersInit
<1>2. Inv /\ [Next]_vars => Inv'
  BY InvStep, EndsStep, SubStep, WaitStep, CodeStep, DistinctPidsRest
<1>3. Inv => OwnCode
  BY CodeIsOwn
<1> QED
  BY <1>1, <1>2, <1>3, PTL DEF Spec
===============================================================================
