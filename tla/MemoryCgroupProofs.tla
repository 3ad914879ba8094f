-------------------------- MODULE MemoryCgroupProofs --------------------------
(***************************************************************************)
(* Theorems about MemoryCgroup, for any limits, any requests and any number*)
(* of calls and OOMs.                                                      *)
(***************************************************************************)
EXTENDS MemoryCgroup, SequenceTheorems, TLAPS

(* What the fields of a request, of the update and of the stats call are.  *)
Asked == {Unset} \cup -1..MaxUnits
Write == [file: {"limit", "swap", "other"}, value: Int]
Updating == [op: {"update"}, req: Requests, calm: BOOLEAN, agreed: BOOLEAN, ooms: Nat,
             todo: Seq(Write), state: {"writing", "failed"}]
Reading == [op: {"stats"}, step: {"memory", "swap", "done"},
            usage_limit: {Unset} \cup Limits, swap_limit: {Unset} \cup Limits]

TypeOK ==
  /\ host \in [v2: BOOLEAN, accounting: BOOLEAN]
  /\ limit \in Limits /\ swap \in Limits /\ anon \in Nat /\ swapped \in Nat /\ gone \in BOOLEAN
  /\ upd = Idle \/ upd \in Updating
  /\ st = Idle \/ st \in Reading
  /\ calls \in Nat /\ ooms \in Nat
  /\ fd \in [ooms: Nat, removed: BOOLEAN]
  /\ reader \in [pc: {"unregistered", "read", "check", "ended"}, ooms: Nat]
  /\ oomq \in Seq(Nat) /\ told \in Nat

(* No limit changes under a stats call, and what it has read is in force.  *)
ReadInv ==
  /\ upd = Idle \/ st = Idle
  /\ st.op = "stats" =>
       /\ st.step \in {"memory", "swap"} => st.swap_limit = Unset
       /\ st.step = "swap" /\ ~ gone => st.usage_limit = limit
       /\ st.swap_limit # Unset /\ ~ gone =>
            st.usage_limit = limit /\ (host.accounting => st.swap_limit = swap)

(* Swap that is not accounted is not limited; on v1 the limit of both is   *)
(* never below that of memory.                                             *)
HostInv ==
  /\ ~ host.accounting => swap = Infinity
  /\ ~ host.v2 => limit <= swap

(* Which files are still to be written, with what, and which before which. *)
Has(todo, file) == \E i \in 1..Len(todo) : todo[i].file = file
Right(todo, file, value) ==
  \A i \in 1..Len(todo) : todo[i].file = file => todo[i].value = value
Before(todo, f, g) == \A i, j \in 1..Len(todo) : todo[i].file = f /\ todo[j].file = g => i < j

Underway == upd.op = "update" /\ upd.state = "writing"
SwapAsked == AskedSwap(upd.req).value
GoalLimit == IF AskedLimit(upd.req) = Unset THEN limit ELSE Value(upd.req.limit)
GoalSwap == IF SwapAsked = Unset THEN swap ELSE Value(SwapAsked)

(* A limit that was asked for is in force or to be written.                *)
TodoInv == Underway =>
  /\ AskedSwap(upd.req).ok
  /\ Right(upd.todo, "limit", AskedLimit(upd.req)) /\ Right(upd.todo, "swap", SwapAsked)
  /\ Has(upd.todo, "limit") => AskedLimit(upd.req) # Unset
  /\ Has(upd.todo, "swap") => SwapAsked # Unset
  /\ Has(upd.todo, "limit") \/ limit = GoalLimit
  /\ Has(upd.todo, "swap") \/ swap = GoalSwap \/ ~ host.accounting \/ gone

(* A limit that is to be written next is one the kernel takes.             *)
OrderInv == Underway /\ upd.agreed =>
  /\ host.v2 => Before(upd.todo, "swap", "limit")
  /\ ~ host.v2 => GoalLimit <= GoalSwap
  /\ ~ host.v2 /\ Has(upd.todo, "limit") =>
       \/ GoalLimit <= swap
       \/ Has(upd.todo, "swap") /\ Before(upd.todo, "swap", "limit")
  /\ ~ host.v2 /\ Has(upd.todo, "swap") =>
       \/ limit <= GoalSwap
       \/ Has(upd.todo, "limit") /\ Before(upd.todo, "limit", "swap")

(* As long as the container keeps calm it can live with what is to come.   *)
GraceInv == upd.op = "update" /\ upd.agreed /\ upd.calm /\ ~ gone =>
  upd.state = "writing" /\ Agreed(upd.req) /\ ooms = upd.ooms

(* The OOMs on their way to containerd are told in the order they happened.*)
Above(n) == told < n /\ n <= ooms /\ \A i \in 1..Len(oomq) : oomq[i] < n

OomInv ==
  /\ told <= ooms /\ fd.ooms <= ooms /\ reader.ooms <= ooms
  /\ \A i \in 1..Len(oomq) : told < oomq[i] /\ oomq[i] <= ooms
  /\ \A i, j \in 1..Len(oomq) : i < j => oomq[i] < oomq[j]
  /\ fd.removed => gone
  /\ fd.ooms # 0 => Above(fd.ooms) /\ (reader.pc = "check" => reader.ooms < fd.ooms)
  /\ reader.pc = "check" => gone \/ Above(reader.ooms)

IInv == TypeOK /\ ReadInv /\ HostInv /\ TodoInv /\ OrderInv /\ GraceInv /\ OomInv
------------------------------------------------------------------------------
(* What the constants are.                                                 *)
LEMMA ConstantFacts ==
  /\ MaxUnits \in Nat \ {0} /\ Infinity \in Nat /\ Infinity = MaxUnits + 1 /\ Unset \notin Int
  /\ \A n \in -1..MaxUnits : n \in Int /\ n # Unset /\ Value(n) \in Limits
  /\ \A n \in Limits : n \in Nat /\ n <= Infinity /\ n # Unset
  BY ConstantsAssumption DEF Infinity, Value, Limits

(* What a request asks for, and for which of the two limits.               *)
LEMMA RequestFacts ==
  ASSUME NEW r \in Requests
  PROVE  /\ r.limit \in Asked /\ r.swap \in Asked /\ r.others \in BOOLEAN
         /\ AskedLimit(r) \in Asked
         /\ AskedLimit(r) = Unset <=> r.limit \in {Unset, 0}
         /\ AskedLimit(r) # Unset => AskedLimit(r) = r.limit
  BY ConstantsAssumption DEF AskedLimit, Asked

(* The swap limit on v2 of a common limit s and a memory limit l.          *)
LEMMA SwapForV2 ==
  ASSUME NEW s \in -1..MaxUnits, NEW l \in Asked
  PROVE  /\ swap_for_v2(s, l).ok \in BOOLEAN /\ swap_for_v2(s, l).value \in Asked
         /\ swap_for_v2(s, l).ok =>
              \/ s = 0 /\ l = -1 /\ swap_for_v2(s, l).value = -1
              \/ s = 0 /\ l # -1 /\ swap_for_v2(s, l).value = Unset
              \/ s # 0 /\ (s = -1 \/ l = -1) /\ swap_for_v2(s, l).value = s
              \/ s > 0 /\ l # Unset /\ l > 0 /\ l <= s /\ swap_for_v2(s, l).value = s - l
<1> DEFINE m == IF l = Unset THEN 0 ELSE l
<1>1. m \in -1..MaxUnits /\ (m # 0 => m = l) /\ (l = -1 <=> m = -1)
  BY ConstantsAssumption DEF Asked
<1>2. CASE s = 0
  BY <1>1, <1>2 DEF swap_for_v2, Result, Asked
<1>3. CASE s # 0 /\ (s = -1 \/ m = -1)
  BY <1>1, <1>3 DEF swap_for_v2, Result, Asked
<1>4. CASE s # 0 /\ s # -1 /\ m # -1 /\ (m <= 0 \/ s < m)
  BY <1>1, <1>4 DEF swap_for_v2, Result, Asked
<1>5. CASE s # 0 /\ s # -1 /\ m # -1 /\ ~ (m <= 0 \/ s < m)
  BY <1>1, <1>5, ConstantsAssumption DEF swap_for_v2, Result, Asked
<1> QED
  BY <1>2, <1>3, <1>4, <1>5

(* What is asked for swap is a value to write or nothing.                  *)
LEMMA SwapFacts ==
  ASSUME TypeOK, NEW r \in Requests
  PROVE  AskedSwap(r).ok \in BOOLEAN /\ AskedSwap(r).value \in Asked
<1>1. (IF r.swap = Unset THEN 0 ELSE r.swap) \in -1..MaxUnits
  BY RequestFacts, ConstantsAssumption DEF Asked
<1>2. limit_in_bytes \in Limits \cup {-1} /\ (host.v2 => limit_in_bytes \in Asked)
  BY ConstantFacts DEF TypeOK, limit_in_bytes, Asked
<1>3. CASE host.v2
  BY <1>1, <1>2, <1>3, RequestFacts, SwapForV2 DEF AskedSwap
<1>4. CASE ~ host.v2
  BY <1>1, <1>4 DEF AskedSwap, Result, Asked
<1> QED
  BY <1>3, <1>4

(* No writes.                                                              *)
LEMMA NoWrites ==
  /\ <<>> \in Seq(Write)
  /\ \A f, g, v : ~ Has(<<>>, f) /\ Right(<<>>, f, v) /\ Before(<<>>, f, g)
  BY DEF Has, Right, Before

(* A single write.                                                         *)
LEMMA OneWrite ==
  ASSUME NEW w \in Write
  PROVE  /\ <<w>> \in Seq(Write) /\ Len(<<w>>) = 1 /\ <<w>>[1] = w
         /\ \A f : Has(<<w>>, f) <=> w.file = f
         /\ \A f, v : w.file # f \/ w.value = v => Right(<<w>>, f, v)
         /\ \A f, g : f # g => Before(<<w>>, f, g)
<1>1. <<w>> \in Seq(Write) /\ Len(<<w>>) = 1 /\ <<w>>[1] = w /\ 1..1 = {1}
  OBVIOUS
<1> QED
  BY <1>1 DEF Has, Right, Before

(* Two rows, one after the other.                                          *)
LEMMA Concatenated ==
  ASSUME NEW s \in Seq(Write), NEW t \in Seq(Write)
  PROVE  /\ s \o t \in Seq(Write)
         /\ \A f : Has(s \o t, f) <=> Has(s, f) \/ Has(t, f)
         /\ \A f, v : Right(s, f, v) /\ Right(t, f, v) => Right(s \o t, f, v)
         /\ \A f, g : Before(s, f, g) /\ Before(t, f, g) /\ ~ (Has(s, g) /\ Has(t, f))
                        => Before(s \o t, f, g)
<1> DEFINE u == s \o t
<1>1. /\ u \in Seq(Write) /\ Len(u) = Len(s) + Len(t) /\ Len(s) \in Nat /\ Len(t) \in Nat
      /\ \A i \in 1..Len(s) + Len(t) : u[i] = IF i <= Len(s) THEN s[i] ELSE t[i - Len(s)]
  BY ConcatProperties, LenProperties
<1>2. ASSUME NEW i \in 1..Len(u)
      PROVE  \/ i \in 1..Len(s) /\ u[i] = s[i]
             \/ i - Len(s) \in 1..Len(t) /\ u[i] = t[i - Len(s)] /\ i > Len(s)
  BY <1>1, <1>2
<1>3. \A i \in 1..Len(s) : i \in 1..Len(u) /\ u[i] = s[i]
  BY <1>1
<1>4. \A i \in 1..Len(t) : i + Len(s) \in 1..Len(u) /\ u[i + Len(s)] = t[i]
  BY <1>1
<1> HIDE DEF u
<1>5. \A f : Has(u, f) <=> Has(s, f) \/ Has(t, f)
  BY <1>2, <1>3, <1>4, ZenonT(30) DEF Has
<1>6. ASSUME NEW f, NEW g, Before(s, f, g), Before(t, f, g), ~ (Has(s, g) /\ Has(t, f))
      PROVE  Before(u, f, g)
  <2> SUFFICES ASSUME NEW i \in 1..Len(u), NEW j \in 1..Len(u), u[i].file = f, u[j].file = g
               PROVE  i < j
    BY DEF Before
  <2>1. CASE i \in 1..Len(s) /\ u[i] = s[i]
    <3>1. CASE j \in 1..Len(s) /\ u[j] = s[j]
      BY <1>6, <2>1, <3>1 DEF Before
    <3>2. CASE j > Len(s)
      BY <1>1, <2>1, <3>2
    <3> QED
      BY <1>2, <3>1, <3>2
  <2>2. CASE i - Len(s) \in 1..Len(t) /\ u[i] = t[i - Len(s)] /\ i > Len(s)
    <3>1. Has(t, f)
      BY <2>2 DEF Has
    <3>2. ~ (j \in 1..Len(s) /\ u[j] = s[j])
      BY <1>6, <3>1 DEF Has
    <3>3. j - Len(s) \in 1..Len(t) /\ u[j] = t[j - Len(s)]
      BY <1>2, <3>2
    <3>4. i - Len(s) < j - Len(s)
      BY <1>6, <2>2, <3>3 DEF Before
    <3> QED
      BY <1>1, <3>4
  <2> QED
    BY <1>2, <2>1, <2>2
<1>7. u \in Seq(Write) /\ \A f, v : Right(s, f, v) /\ Right(t, f, v) => Right(u, f, v)
  BY <1>1, <1>2, ZenonT(30) DEF Right
<1> QED
  BY <1>5, <1>6, <1>7, Zenon DEF u

(* A row without its first write.                                          *)
LEMMA AfterOne ==
  ASSUME NEW t \in Seq(Write), t # <<>>
  PROVE  /\ t[1] \in Write /\ Tail(t) \in Seq(Write)
         /\ \A i \in 1..Len(Tail(t)) : i + 1 \in 1..Len(t) /\ Tail(t)[i] = t[i + 1]
         /\ \A f : Has(t, f) <=> t[1].file = f \/ Has(Tail(t), f)
         /\ \A f, v : Right(t, f, v) => Right(Tail(t), f, v) /\ (t[1].file = f => t[1].value = v)
         /\ \A f, g : Before(t, f, g) => Before(Tail(t), f, g)
         /\ \A f, g : Before(t, f, g) /\ t[1].file = g => ~ Has(t, f)
<1>1. /\ Tail(t) \in Seq(Write) /\ Len(t) \in Nat \ {0} /\ Len(Tail(t)) = Len(t) - 1
      /\ \A i \in 1..Len(Tail(t)) : Tail(t)[i] = t[i + 1]
  BY HeadTailProperties, EmptySeq
<1>2. 1 \in 1..Len(t) /\ t[1] \in Write
  BY <1>1, ElementOfSeq
<1>3. \A i \in 1..Len(Tail(t)) : i + 1 \in 1..Len(t) /\ Tail(t)[i] = t[i + 1]
  BY <1>1
<1>4. \A i \in 1..Len(t) : i = 1 \/ (i - 1 \in 1..Len(Tail(t)) /\ Tail(t)[i - 1] = t[i])
  <2>1. ASSUME NEW i \in 1..Len(t), i # 1 PROVE i - 1 \in 1..Len(Tail(t)) /\ (i - 1) + 1 = i
    BY <1>1, <2>1
  <2> QED
    BY <1>1, <2>1
<1>5. \A f : Has(t, f) <=> t[1].file = f \/ Has(Tail(t), f)
  BY <1>2, <1>3, <1>4 DEF Has
<1>6. ASSUME NEW f, NEW g, Before(t, f, g) PROVE Before(Tail(t), f, g)
  <2> SUFFICES ASSUME NEW i \in 1..Len(Tail(t)), NEW j \in 1..Len(Tail(t)),
                      Tail(t)[i].file = f, Tail(t)[j].file = g
               PROVE  i < j
    BY DEF Before
  <2>1. i + 1 < j + 1
    BY <1>3, <1>6 DEF Before
  <2> QED
    BY <1>1, <2>1
<1>7. ASSUME NEW f, NEW g, Before(t, f, g), t[1].file = g, Has(t, f) PROVE FALSE
  <2>1. PICK i \in 1..Len(t) : t[i].file = f
    BY <1>7 DEF Has
  <2>2. i < 1
    BY <1>2, <1>7, <2>1 DEF Before
  <2> QED
    BY <1>1, <2>2
<1>8. \A f, v : Right(t, f, v) => Right(Tail(t), f, v) /\ (t[1].file = f => t[1].value = v)
  BY <1>2, <1>3 DEF Right
<1> QED
  BY <1>1, <1>2, <1>3, <1>5, <1>6, <1>7, <1>8

(* The files an update writes.                                             *)
LEMMA WritesFacts ==
  ASSUME TypeOK, NEW r \in Requests
  PROVE  /\ Writes(r) \in Seq(Write)
         /\ Has(Writes(r), "limit") <=> AskedLimit(r) # Unset
         /\ Has(Writes(r), "swap") <=> AskedSwap(r).value # Unset
         /\ Right(Writes(r), "limit", AskedLimit(r)) /\ Right(Writes(r), "swap", AskedSwap(r).value)
         /\ IF swap_first(AskedLimit(r), AskedSwap(r).value) THEN Before(Writes(r), "swap", "limit")
            ELSE Before(Writes(r), "limit", "swap")
<1> DEFINE l == AskedLimit(r)
           s == AskedSwap(r).value
           set_limit_writes == IF l = Unset THEN <<>> ELSE <<[file |-> "limit", value |-> l]>>
           set_swap_writes == IF s = Unset THEN <<>> ELSE <<[file |-> "swap", value |-> s]>>
           others == IF r.others THEN <<[file |-> "other", value |-> 1]>> ELSE <<>>
<1>1. (l # Unset => l \in Int) /\ (s # Unset => s \in Int)
  BY RequestFacts, SwapFacts DEF Asked
<1>2. /\ set_limit_writes \in Seq(Write) /\ (Has(set_limit_writes, "limit") <=> l # Unset)
      /\ ~ Has(set_limit_writes, "swap")
      /\ Right(set_limit_writes, "limit", l) /\ Right(set_limit_writes, "swap", s)
      /\ Before(set_limit_writes, "limit", "swap") /\ Before(set_limit_writes, "swap", "limit")
  <2>1. CASE l = Unset
    BY <2>1, NoWrites
  <2>2. CASE l # Unset
    <3> DEFINE w == [file |-> "limit", value |-> l]
    <3>1. w \in Write /\ w.file = "limit" /\ w.value = l
      BY <1>1, <2>2 DEF Write
    <3>2. set_limit_writes = <<w>>
      BY <2>2
    <3> HIDE DEF w, set_limit_writes
    <3> QED
      BY <2>2, <3>1, <3>2, OneWrite
  <2> QED
    BY <2>1, <2>2
<1>3. /\ set_swap_writes \in Seq(Write) /\ (Has(set_swap_writes, "swap") <=> s # Unset)
      /\ ~ Has(set_swap_writes, "limit")
      /\ Right(set_swap_writes, "limit", l) /\ Right(set_swap_writes, "swap", s)
      /\ Before(set_swap_writes, "limit", "swap") /\ Before(set_swap_writes, "swap", "limit")
  <2>1. CASE s = Unset
    BY <2>1, NoWrites
  <2>2. CASE s # Unset
    <3> DEFINE w == [file |-> "swap", value |-> s]
    <3>1. w \in Write /\ w.file = "swap" /\ w.value = s
      BY <1>1, <2>2 DEF Write
    <3>2. set_swap_writes = <<w>>
      BY <2>2
    <3> HIDE DEF w, set_swap_writes
    <3> QED
      BY <2>2, <3>1, <3>2, OneWrite
  <2> QED
    BY <2>1, <2>2
<1>4. /\ others \in Seq(Write) /\ ~ Has(others, "limit") /\ ~ Has(others, "swap")
      /\ Right(others, "limit", l) /\ Right(others, "swap", s)
      /\ Before(others, "limit", "swap") /\ Before(others, "swap", "limit")
  <2>1. CASE ~ r.others
    BY <2>1, NoWrites
  <2>2. CASE r.others
    <3> DEFINE w == [file |-> "other", value |-> 1]
    <3>1. w \in Write /\ w.file = "other"
      BY DEF Write
    <3>2. others = <<w>>
      BY <2>2
    <3> HIDE DEF w, others
    <3> QED
      BY <3>1, <3>2, OneWrite
  <2> QED
    BY <2>1, <2>2
<1> DEFINE both == IF swap_first(l, s) THEN set_swap_writes \o set_limit_writes
                   ELSE set_limit_writes \o set_swap_writes
<1>5. Writes(r) = others \o both \o others
  BY DEF Writes
<1> HIDE DEF l, s, set_limit_writes, set_swap_writes, others
<1>6. /\ both \in Seq(Write) /\ (Has(both, "limit") <=> l # Unset) /\ (Has(both, "swap") <=> s # Unset)
      /\ Right(both, "limit", l) /\ Right(both, "swap", s)
      /\ IF swap_first(l, s) THEN Before(both, "swap", "limit") ELSE Before(both, "limit", "swap")
  <2>1. CASE swap_first(l, s)
    BY <1>2, <1>3, <2>1, Concatenated
  <2>2. CASE ~ swap_first(l, s)
    BY <1>2, <1>3, <2>2, Concatenated
  <2> QED
    BY <2>1, <2>2
<1> HIDE DEF both
<1> DEFINE most == others \o both
<1>7. /\ most \in Seq(Write) /\ (Has(most, "limit") <=> l # Unset) /\ (Has(most, "swap") <=> s # Unset)
      /\ Right(most, "limit", l) /\ Right(most, "swap", s)
      /\ IF swap_first(l, s) THEN Before(most, "swap", "limit") ELSE Before(most, "limit", "swap")
  BY <1>4, <1>6, Concatenated
<1> HIDE DEF most
<1> DEFINE all == most \o others
<1>8. /\ all \in Seq(Write) /\ (Has(all, "limit") <=> l # Unset) /\ (Has(all, "swap") <=> s # Unset)
      /\ Right(all, "limit", l) /\ Right(all, "swap", s)
      /\ IF swap_first(l, s) THEN Before(all, "swap", "limit") ELSE Before(all, "limit", "swap")
  BY <1>4, <1>7, Concatenated
<1>9. Writes(r) = all
  BY <1>5 DEF most
<1> QED
  BY <1>8, <1>9 DEF l, s

------------------------------------------------------------------------------
(* The fields of an update.                                                *)
LEMMA UpdateFields ==
  ASSUME TypeOK, upd.op = "update"
  PROVE  /\ upd \in Updating /\ upd.req \in Requests /\ upd.todo \in Seq(Write)
         /\ upd.calm \in BOOLEAN /\ upd.agreed \in BOOLEAN /\ upd.ooms \in Nat
         /\ upd.state \in {"writing", "failed"} /\ upd # Idle
<1>1. upd \in Updating /\ upd # Idle
  BY DEF TypeOK, Idle
<1> QED
  BY <1>1 DEF Updating

(* The fields of a stats call.                                             *)
LEMMA ReadFields ==
  ASSUME TypeOK, st.op = "stats"
  PROVE  st \in Reading /\ st # Idle /\ st.step \in {"memory", "swap", "done"}
  BY DEF TypeOK, Idle, Reading

(* The head of the writes is written.                                      *)
LEMMA WriteDone ==
  ASSUME TypeOK, NEW file, Writing(file), Written
  PROVE  /\ upd' \in Updating /\ upd'.op = "update" /\ upd'.todo = Tail(upd.todo)
         /\ upd'.req = upd.req /\ upd'.calm = upd.calm /\ upd'.agreed = upd.agreed
         /\ upd'.ooms = upd.ooms /\ upd'.state = "writing"
<1>1. Tail(upd.todo) \in Seq(Write)
  BY UpdateFields, AfterOne DEF Writing
<1> QED
  BY <1>1, UpdateFields DEF Writing, Written, Updating

(* The head of the writes is refused.                                      *)
LEMMA WriteRefused ==
  ASSUME TypeOK, NEW file, Writing(file), Refused
  PROVE  upd' \in Updating /\ upd'.op = "update" /\ upd'.state = "failed"
         /\ upd'.agreed = upd.agreed /\ upd'.calm = upd.calm
  BY UpdateFields DEF Writing, Refused, Updating

(* What is to be written next is what is asked for.                        *)
LEMMA NextWrite ==
  ASSUME TypeOK, TodoInv, NEW file, Writing(file)
  PROVE  /\ upd.req \in Requests /\ upd.todo \in Seq(Write) /\ upd.todo # <<>>
         /\ upd.op = "update" /\ Underway /\ Has(upd.todo, file)
         /\ file = "limit" => /\ upd.todo[1].value = AskedLimit(upd.req)
                              /\ AskedLimit(upd.req) \in Asked \ {Unset}
                              /\ AskedLimit(upd.req) = upd.req.limit
         /\ file = "swap" => upd.todo[1].value = SwapAsked /\ SwapAsked \in Asked \ {Unset}
<1>1. /\ upd.req \in Requests /\ upd.todo \in Seq(Write) /\ upd.todo # <<>>
      /\ upd.op = "update" /\ Underway
  BY UpdateFields DEF Writing, Underway
<1>2. upd.todo[1].file = file /\ Has(upd.todo, file)
  BY <1>1, AfterOne DEF Writing
<1>3. file = "limit" => upd.todo[1].value = AskedLimit(upd.req) /\ AskedLimit(upd.req) # Unset
  BY <1>1, <1>2, AfterOne DEF TodoInv
<1>4. file = "swap" => upd.todo[1].value = SwapAsked /\ SwapAsked # Unset
  BY <1>1, <1>2, AfterOne DEF TodoInv
<1> QED
  BY <1>1, <1>2, <1>3, <1>4, RequestFacts, SwapFacts DEF SwapAsked

(* The types are kept.                                                     *)
LEMMA TypeStep == TypeOK /\ TodoInv /\ [Next]_vars => TypeOK'
<1> SUFFICES ASSUME TypeOK, TodoInv, [Next]_vars PROVE TypeOK'
  OBVIOUS
<1>Kill. ASSUME Kill PROVE /\ anon' \in Nat /\ swapped' \in Nat /\ ooms' \in Nat
                           /\ fd' \in [ooms: Nat, removed: BOOLEAN]
  <2>1. anon' \in Nat /\ swapped' \in Nat /\ ooms' \in Nat
    BY <1>Kill DEF Kill, TypeOK
  <2>2. fd' = fd \/ fd' = [fd EXCEPT !.ooms = ooms']
    BY <1>Kill DEF Kill, Signal
  <2> QED
    BY <2>1, <2>2 DEF TypeOK
<1>Grow. ASSUME Grow PROVE TypeOK'
  <2>1. anon' \in Nat /\ swapped' \in Nat /\ ooms' \in Nat /\ fd' \in [ooms: Nat, removed: BOOLEAN]
    BY <1>Grow, <1>Kill DEF Grow, TypeOK
  <2>2. upd' = Idle \/ upd' \in Updating
    <3>1. CASE upd.op = "update"
      BY <1>Grow, <3>1, UpdateFields DEF Grow, Updating
    <3>2. CASE upd.op # "update"
      BY <1>Grow, <3>2 DEF Grow, TypeOK
    <3> QED
      BY <3>1, <3>2
  <2> QED
    BY <1>Grow, <2>1, <2>2 DEF Grow, TypeOK
<1>Shrink. ASSUME Shrink PROVE TypeOK'
  BY <1>Shrink DEF Shrink, TypeOK, monitor
<1>Remove. ASSUME Remove PROVE TypeOK'
  BY <1>Remove DEF Remove, TypeOK
<1>update. ASSUME NEW r \in Requests, update(r) PROVE TypeOK'
  <2>1. upd' \in Updating
    BY <1>update, WritesFacts, NoWrites DEF update, Updating, Agreed, get_cgroup, TypeOK
  <2>2. calls' \in Nat
    BY <1>update DEF update, TypeOK
  <2> QED
    BY <1>update, <2>1, <2>2 DEF update, TypeOK, kernel, monitor
<1>set_limit. ASSUME set_limit PROVE TypeOK'
  <2>1. upd.todo[1].value \in -1..MaxUnits
    BY <1>set_limit, NextWrite DEF set_limit, Asked
  <2>2. Value(upd.todo[1].value) \in Limits /\ Value(upd.todo[1].value) \in Nat
    BY <2>1, ConstantFacts
  <2>3. upd' \in Updating
    BY <1>set_limit, WriteDone, WriteRefused DEF set_limit
  <2>4. /\ anon' \in Nat /\ swapped' \in Nat /\ ooms' \in Nat /\ limit' \in Limits
        /\ fd' \in [ooms: Nat, removed: BOOLEAN]
    BY <1>set_limit, <1>Kill, <2>2 DEF set_limit, TypeOK
  <2> QED
    BY <1>set_limit, <2>3, <2>4 DEF set_limit, TypeOK
<1>set_swap. ASSUME set_swap PROVE TypeOK'
  <2>1. upd.todo[1].value \in -1..MaxUnits
    BY <1>set_swap, NextWrite DEF set_swap, Asked
  <2>2. Value(upd.todo[1].value) \in Limits
    BY <2>1, ConstantFacts
  <2>3. upd' \in Updating
    BY <1>set_swap, WriteDone, WriteRefused DEF set_swap
  <2>4. swap' \in Limits
    BY <1>set_swap, <2>2 DEF set_swap, TypeOK
  <2> QED
    BY <1>set_swap, <2>3, <2>4 DEF set_swap, TypeOK, monitor
<1>set_other. ASSUME set_other PROVE TypeOK'
  <2>1. upd' \in Updating
    <3>1. CASE Written
      BY <1>set_other, <3>1, WriteDone DEF set_other
    <3>2. CASE upd' = [upd EXCEPT !.state = "failed", !.agreed = FALSE]
      BY <1>set_other, <3>2, UpdateFields DEF set_other, Writing, Updating
    <3> QED
      BY <1>set_other, <3>1, <3>2 DEF set_other
  <2> QED
    BY <1>set_other, <2>1 DEF set_other, TypeOK, kernel, monitor
<1>UpdateReply. ASSUME UpdateReply PROVE TypeOK'
  BY <1>UpdateReply DEF UpdateReply, TypeOK, kernel, monitor
<1>stats. ASSUME stats PROVE TypeOK'
  <2>1. st' \in Reading
    BY <1>stats DEF stats, NotRead, Reading
  <2>2. calls' \in Nat
    BY <1>stats DEF stats, TypeOK
  <2> QED
    BY <1>stats, <2>1, <2>2 DEF stats, TypeOK, kernel, monitor
<1>collect. ASSUME collect_metrics \/ collect_metrics_v2 PROVE TypeOK'
  <2>1. metric(limit) \in Limits /\ metric(swap) \in Limits /\ 0 \in Limits
    BY ConstantFacts DEF metric, TypeOK, Limits
  <2>2. st' \in Reading
    BY <1>collect, <2>1, ReadFields DEF collect_metrics, collect_metrics_v2, Reading
  <2> QED
    BY <1>collect, <2>2 DEF collect_metrics, collect_metrics_v2, TypeOK, kernel, monitor,
       Idle, Updating
<1>StatsReply. ASSUME StatsReply PROVE TypeOK'
  BY <1>StatsReply DEF StatsReply, TypeOK, kernel, monitor
<1>monitor_oom. ASSUME monitor_oom PROVE TypeOK'
  <2>1. reader' \in [pc: {"unregistered", "read", "check", "ended"}, ooms: Nat]
    BY <1>monitor_oom DEF monitor_oom, register_memory_event, TypeOK
  <2> QED
    BY <1>monitor_oom, <2>1 DEF monitor_oom, TypeOK, kernel
<1>ReadEventfd. ASSUME ReadEventfd PROVE TypeOK'
  <2>1. /\ reader' \in [pc: {"unregistered", "read", "check", "ended"}, ooms: Nat]
        /\ fd' \in [ooms: Nat, removed: BOOLEAN]
    BY <1>ReadEventfd DEF ReadEventfd, Nothing, TypeOK
  <2> QED
    BY <1>ReadEventfd, <2>1 DEF ReadEventfd, TypeOK, kernel
<1>CheckRemoved. ASSUME CheckRemoved PROVE TypeOK'
  <2>1. reader' \in [pc: {"unregistered", "read", "check", "ended"}, ooms: Nat]
    BY <1>CheckRemoved DEF CheckRemoved, TypeOK
  <2>2. oomq \in Seq(Nat) /\ reader.ooms \in Nat
    BY DEF TypeOK
  <2>3. oomq' \in Seq(Nat)
    BY <1>CheckRemoved, <2>2, AppendProperties, SMTT(30) DEF CheckRemoved
  <2> QED
    BY <1>CheckRemoved, <2>1, <2>3 DEF CheckRemoved, TypeOK, kernel
<1>run_oom_monitor. ASSUME run_oom_monitor PROVE TypeOK'
  <2>1. told' \in Nat /\ oomq' \in Seq(Nat)
    BY <1>run_oom_monitor, HeadTailProperties DEF run_oom_monitor, TypeOK
  <2> QED
    BY <1>run_oom_monitor, <2>1 DEF run_oom_monitor, TypeOK, kernel
<1>Stutter. ASSUME UNCHANGED vars PROVE TypeOK'
  BY <1>Stutter DEF vars, kernel, monitor, TypeOK
<1> QED
  BY <1>Grow, <1>Shrink, <1>Remove, <1>update, <1>set_limit, <1>set_swap, <1>set_other,
     <1>UpdateReply, <1>stats, <1>collect, <1>StatsReply, <1>monitor_oom, <1>ReadEventfd,
     <1>CheckRemoved, <1>run_oom_monitor, <1>Stutter
  DEF Next, Container, Update, Stats, Monitor, Reader

------------------------------------------------------------------------------
(* What a step that is none of an update's, and no growth, leaves alone.   *)
LEMMA Steps ==
  ASSUME TypeOK, [Next]_vars
  PROVE  \/ set_limit \/ set_swap \/ set_other \/ UpdateReply
         \/ (\E r \in Requests : update(r)) \/ Grow
         \/ /\ UNCHANGED <<host, limit, swap, upd, ooms>> /\ (gone => gone')
            /\ ~ gone' => anon' + swapped' <= anon + swapped /\ anon' <= anon
<1>1. anon \in Nat /\ swapped \in Nat
  BY DEF TypeOK
<1>2. ASSUME Shrink PROVE anon' + swapped' <= anon + swapped /\ anon' <= anon
  BY <1>1, <1>2 DEF Shrink
<1>3. ASSUME Shrink \/ Remove
      PROVE  /\ UNCHANGED <<host, limit, swap, upd, ooms>> /\ (gone => gone')
             /\ ~ gone' => anon' + swapped' <= anon + swapped /\ anon' <= anon
  BY <1>2, <1>3 DEF Shrink, Remove
<1>4. ASSUME Stats \/ Monitor \/ UNCHANGED vars
      PROVE  UNCHANGED <<host, limit, swap, upd, ooms, gone, anon, swapped>>
  BY <1>4 DEF Stats, stats, collect_metrics, collect_metrics_v2, StatsReply, Monitor, monitor_oom,
     Reader, ReadEventfd, CheckRemoved, run_oom_monitor, vars, kernel
<1>5. ASSUME Stats \/ Monitor \/ UNCHANGED vars
      PROVE  /\ UNCHANGED <<host, limit, swap, upd, ooms>> /\ (gone => gone')
             /\ ~ gone' => anon' + swapped' <= anon + swapped /\ anon' <= anon
  BY <1>1, <1>4, <1>5
<1> QED
  BY <1>3, <1>5 DEF Next, Container, Update

(* The hierarchy stays as it is.                                           *)
LEMMA HostStep == TypeOK /\ HostInv /\ TodoInv /\ [Next]_vars => HostInv' /\ host' = host /\ (gone => gone')
<1> SUFFICES ASSUME TypeOK, HostInv, TodoInv, [Next]_vars
             PROVE  HostInv' /\ host' = host /\ (gone => gone')
  OBVIOUS
<1>1. limit \in Nat /\ swap \in Nat
  BY ConstantFacts DEF TypeOK
<1>2. CASE set_limit
  <2>1. Value(upd.todo[1].value) \in Nat
    BY <1>2, NextWrite, ConstantFacts DEF set_limit, Asked
  <2> QED
    BY <1>1, <1>2, <2>1 DEF set_limit, HostInv
<1>3. CASE set_swap
  <2>1. Value(upd.todo[1].value) \in Nat
    BY <1>3, NextWrite, ConstantFacts DEF set_swap, Asked
  <2>2. limit' = limit /\ (swap' = swap \/ (host.accounting /\ (~ host.v2 => limit <= swap')))
    BY <1>1, <1>3, <2>1 DEF set_swap
  <2> QED
    BY <1>3, <2>2 DEF set_swap, HostInv
<1>4. CASE UNCHANGED <<host, limit, swap, upd, ooms>> /\ (gone => gone')
  BY <1>4 DEF HostInv
<1>5. CASE set_other \/ UpdateReply \/ (\E r \in Requests : update(r)) \/ Grow
  BY <1>5 DEF set_other, UpdateReply, update, Grow, kernel, HostInv
<1> QED
  BY <1>2, <1>3, <1>4, <1>5, Steps

(* No limit changes while it is read.                                      *)
LEMMA ReadStep == TypeOK /\ ReadInv /\ [Next]_vars => ReadInv'
<1> SUFFICES ASSUME TypeOK, ReadInv, [Next]_vars PROVE ReadInv'
  OBVIOUS
<1>Update. ASSUME set_limit \/ set_swap \/ set_other \/ UpdateReply \/ \E r \in Requests : update(r)
           PROVE ReadInv'
  <2>1. st = Idle
    BY <1>Update DEF ReadInv, set_limit, set_swap, set_other, UpdateReply, update, Writing, Idle
  <2>2. st' = Idle
    BY <1>Update, <2>1 DEF set_limit, set_swap, set_other, UpdateReply, update
  <2> QED
    BY <2>2 DEF ReadInv, Idle
<1>Grow. ASSUME Grow PROVE ReadInv'
  <2>1. upd = Idle => upd' = Idle
    BY <1>Grow DEF Grow, Idle
  <2> QED
    BY <1>Grow, <2>1 DEF Grow, ReadInv
<1>Others. ASSUME Shrink \/ Remove \/ Monitor \/ UNCHANGED vars PROVE ReadInv'
  BY <1>Others DEF ReadInv, Shrink, Remove, Monitor, monitor_oom, Reader, ReadEventfd,
     CheckRemoved,
     run_oom_monitor, vars, kernel
<1>stats. ASSUME stats PROVE ReadInv'
  BY <1>stats DEF stats, NotRead, ReadInv
<1>collect_metrics. ASSUME collect_metrics PROVE ReadInv'
  <2>1. st \in Reading /\ st.swap_limit = Unset /\ st # Idle
    BY <1>collect_metrics, ReadFields DEF collect_metrics, ReadInv
  <2>2. st' \in Reading /\ st'.swap_limit = Unset /\ st'.step = "done" /\ UNCHANGED upd
    BY <1>collect_metrics, <2>1 DEF collect_metrics, Reading
  <2> QED
    BY <2>1, <2>2 DEF ReadInv
<1>collect_metrics_v2. ASSUME collect_metrics_v2 PROVE ReadInv'
  <2>1. /\ st \in Reading /\ st # Idle /\ upd' = Idle /\ upd = Idle
        /\ UNCHANGED <<limit, swap, gone, host>>
    BY <1>collect_metrics_v2, ReadFields DEF collect_metrics_v2, ReadInv, kernel
  <2>2. CASE st.step = "memory"
    <3>1. /\ st'.op = "stats" /\ st'.step = "swap" /\ st'.swap_limit = st.swap_limit
          /\ st'.usage_limit = metric(limit)
      BY <1>collect_metrics_v2, <2>1, <2>2 DEF collect_metrics_v2, Reading
    <3> QED
      BY <1>collect_metrics_v2, <2>1, <2>2, <3>1 DEF ReadInv, metric, collect_metrics_v2
  <2>3. CASE st.step = "swap"
    <3>1. /\ st'.op = "stats" /\ st'.step = "done" /\ st'.usage_limit = st.usage_limit
          /\ st'.swap_limit = IF host.accounting THEN metric(swap) ELSE 0
      BY <1>collect_metrics_v2, <2>1, <2>3 DEF collect_metrics_v2, Reading
    <3> QED
      BY <1>collect_metrics_v2, <2>1, <2>3, <3>1 DEF ReadInv, metric, collect_metrics_v2
  <2> QED
    BY <1>collect_metrics_v2, <2>2, <2>3 DEF collect_metrics_v2
<1>StatsReply. ASSUME StatsReply PROVE ReadInv'
  BY <1>StatsReply DEF StatsReply, ReadInv, Idle
<1> QED
  BY <1>Update, <1>Grow, <1>Others, <1>stats, <1>collect_metrics, <1>collect_metrics_v2,
     <1>StatsReply
  DEF Next, Container, Update, Stats

(* The files that are still to be written keep what was asked for.         *)
LEMMA AskedStep ==
  ASSUME TypeOK, upd.op = "update", host' = host, upd'.req = upd.req,
         limit' = limit \/ AskedLimit(upd.req) # Unset
  PROVE  /\ AskedSwap(upd.req)' = AskedSwap(upd.req) /\ SwapAsked' = SwapAsked
         /\ AskedLimit(upd.req)' = AskedLimit(upd.req)
         /\ GoalLimit' = GoalLimit
         /\ SwapAsked # Unset \/ swap' = swap => GoalSwap' = GoalSwap
<1>1. AskedLimit(upd.req)' = AskedLimit(upd.req)
  BY DEF AskedLimit
<1>2. AskedLimit(upd.req) = Unset => limit_in_bytes' = limit_in_bytes
  BY DEF limit_in_bytes
<1>3. AskedSwap(upd.req)' = AskedSwap(upd.req)
  BY <1>1, <1>2 DEF AskedSwap
<1> QED
  BY <1>1, <1>3 DEF SwapAsked, GoalLimit, GoalSwap

(* One write less is to be made, and what was asked for is the same.       *)
LEMMA WriteStep ==
  ASSUME TypeOK, TodoInv, NEW file, Writing(file), Written, host' = host,
         limit' = limit \/ AskedLimit(upd.req) # Unset,
         swap' = swap \/ SwapAsked # Unset
  PROVE  /\ Underway /\ Underway' /\ upd.op = "update"
         /\ upd'.agreed = upd.agreed /\ upd'.calm = upd.calm /\ upd'.ooms = upd.ooms
         /\ AskedSwap(upd.req)' = AskedSwap(upd.req) /\ AskedLimit(upd.req)' = AskedLimit(upd.req)
         /\ SwapAsked' = SwapAsked /\ GoalLimit' = GoalLimit /\ GoalSwap' = GoalSwap
         /\ \A f : Has(upd'.todo, f) => Has(upd.todo, f)
         /\ \A f : f # file => (Has(upd'.todo, f) <=> Has(upd.todo, f))
         /\ Right(upd'.todo, "limit", AskedLimit(upd.req)) /\ Right(upd'.todo, "swap", SwapAsked)
         /\ \A f, g : Before(upd.todo, f, g) => Before(upd'.todo, f, g)
         /\ \A f : Before(upd.todo, f, file) => ~ Has(upd.todo, f)
<1>1. /\ upd' \in Updating /\ upd'.req = upd.req /\ upd'.todo = Tail(upd.todo) /\ upd'.op = "update"
      /\ upd'.agreed = upd.agreed /\ upd'.calm = upd.calm /\ upd'.ooms = upd.ooms
      /\ upd'.state = "writing"
  BY WriteDone
<1>2. /\ upd.op = "update" /\ Underway /\ upd.todo[1].file = file
      /\ upd.todo \in Seq(Write) /\ upd.todo # <<>>
  BY NextWrite DEF Writing
<1>3. /\ AskedSwap(upd.req)' = AskedSwap(upd.req) /\ AskedLimit(upd.req)' = AskedLimit(upd.req)
      /\ SwapAsked' = SwapAsked /\ GoalLimit' = GoalLimit /\ GoalSwap' = GoalSwap
  BY <1>1, <1>2, AskedStep
<1>4. /\ \A f : Has(upd.todo, f) <=> f = file \/ Has(upd'.todo, f)
      /\ \A f, g : Before(upd.todo, f, g) => Before(upd'.todo, f, g)
      /\ \A f : Before(upd.todo, f, file) => ~ Has(upd.todo, f)
  BY <1>1, <1>2, AfterOne
<1>5. Right(upd'.todo, "limit", AskedLimit(upd.req)) /\ Right(upd'.todo, "swap", SwapAsked)
  BY <1>1, <1>2, AfterOne DEF TodoInv
<1> QED
  BY <1>1, <1>2, <1>3, <1>4, <1>5 DEF Underway

(* A write is made or refused, not both.                                   *)
LEMMA MadeOrRefused ==
  ASSUME TypeOK, NEW file, Writing(file)
  PROVE  ~ (Written /\ Refused)
  BY WriteDone, WriteRefused

(* What a write that is made puts in force.                                *)
LEMMA InForce ==
  ASSUME TypeOK, TodoInv, Written
  PROVE  /\ set_limit => /\ limit' = GoalLimit /\ GoalLimit \in Limits /\ swap' = swap
                         /\ AskedLimit(upd.req) # Unset /\ (~ host.v2 => GoalLimit <= swap)
         /\ set_swap => /\ swap' = GoalSwap \/ (host.v2 /\ (gone \/ ~ host.accounting) /\ swap' = swap)
                        /\ GoalSwap \in Limits /\ limit' = limit /\ SwapAsked # Unset
                        /\ ~ host.v2 => limit <= GoalSwap
<1>1. ASSUME set_limit
      PROVE  /\ limit' = GoalLimit /\ GoalLimit \in Limits /\ swap' = swap
             /\ AskedLimit(upd.req) # Unset /\ (~ host.v2 => GoalLimit <= swap)
  <2>1. /\ upd.todo[1].value = upd.req.limit /\ AskedLimit(upd.req) # Unset
        /\ upd.req.limit \in -1..MaxUnits /\ ~ Refused
    BY <1>1, NextWrite, MadeOrRefused DEF set_limit, Asked
  <2>2. Value(upd.todo[1].value) = GoalLimit /\ GoalLimit \in Limits
    BY <2>1, ConstantFacts DEF GoalLimit
  <2> QED
    BY <1>1, <2>1, <2>2, ConstantFacts DEF set_limit, TypeOK
<1>2. ASSUME set_swap
      PROVE  /\ swap' = GoalSwap \/ (host.v2 /\ (gone \/ ~ host.accounting) /\ swap' = swap)
             /\ GoalSwap \in Limits /\ limit' = limit /\ SwapAsked # Unset
             /\ ~ host.v2 => limit <= GoalSwap
  <2>1. upd.todo[1].value = SwapAsked /\ SwapAsked \in -1..MaxUnits /\ SwapAsked # Unset /\ ~ Refused
    BY <1>2, NextWrite, MadeOrRefused DEF set_swap, Asked
  <2>2. Value(upd.todo[1].value) = GoalSwap /\ GoalSwap \in Limits
    BY <2>1, ConstantFacts DEF GoalSwap
  <2> QED
    BY <1>2, <2>1, <2>2, ConstantFacts DEF set_swap, TypeOK
<1> QED
  BY <1>1, <1>2

(* A step that is none of an update's, and no growth, asks for nothing new.*)
LEMMA QuietStep ==
  ASSUME UNCHANGED <<host, limit, swap, upd>>
  PROVE  /\ AskedSwap(upd.req)' = AskedSwap(upd.req) /\ AskedLimit(upd.req)' = AskedLimit(upd.req)
         /\ SwapAsked' = SwapAsked /\ GoalLimit' = GoalLimit /\ GoalSwap' = GoalSwap
         /\ Underway' = Underway
<1>1. AskedSwap(upd.req)' = AskedSwap(upd.req) /\ AskedLimit(upd.req)' = AskedLimit(upd.req)
  BY DEF AskedSwap, AskedLimit, limit_in_bytes
<1> QED
  BY <1>1 DEF SwapAsked, GoalLimit, GoalSwap, Underway

(* Nor does the growth of the container.                                   *)
LEMMA GrowStep ==
  ASSUME TypeOK, Grow, upd.op = "update"
  PROVE  /\ AskedSwap(upd.req)' = AskedSwap(upd.req) /\ AskedLimit(upd.req)' = AskedLimit(upd.req)
         /\ SwapAsked' = SwapAsked /\ GoalLimit' = GoalLimit /\ GoalSwap' = GoalSwap
         /\ Underway' = Underway /\ upd'.todo = upd.todo /\ upd'.agreed = upd.agreed
         /\ ~ upd'.calm
<1>1. /\ upd'.req = upd.req /\ upd'.todo = upd.todo /\ upd'.state = upd.state /\ upd'.op = upd.op
      /\ upd'.agreed = upd.agreed /\ ~ upd'.calm
      /\ host' = host /\ limit' = limit /\ swap' = swap
  BY UpdateFields DEF Grow
<1> QED
  BY <1>1, AskedStep DEF Underway

(* What a new update asks for.                                             *)
LEMMA BeginStep ==
  ASSUME TypeOK, NEW r \in Requests, update(r)
  PROVE  /\ UNCHANGED <<host, limit, swap, gone, anon, swapped, ooms>>
         /\ AskedSwap(upd.req)' = AskedSwap(r) /\ AskedLimit(upd.req)' = AskedLimit(r)
         /\ SwapAsked' = AskedSwap(r).value
         /\ GoalLimit' = IF AskedLimit(r) = Unset THEN limit ELSE Value(r.limit)
         /\ GoalSwap' = IF AskedSwap(r).value = Unset THEN swap ELSE Value(AskedSwap(r).value)
         /\ upd'.agreed = Agreed(r) /\ upd'.ooms = ooms /\ upd'.op = "update"
         /\ upd'.state = "writing" <=> ~ gone /\ AskedSwap(r).ok
         /\ upd'.state = "writing" => upd'.todo = Writes(r)
<1>1. /\ UNCHANGED <<host, limit, swap, gone, anon, swapped, ooms>> /\ upd'.req = r
      /\ upd'.agreed = Agreed(r) /\ upd'.ooms = ooms /\ upd'.op = "update"
      /\ upd'.state = "writing" <=> ~ gone /\ AskedSwap(r).ok
      /\ upd'.state = "writing" => upd'.todo = Writes(r)
  BY DEF update, kernel, get_cgroup
<1>2. AskedSwap(upd.req)' = AskedSwap(r) /\ AskedLimit(upd.req)' = AskedLimit(r)
  BY <1>1 DEF AskedSwap, AskedLimit, limit_in_bytes
<1> QED
  BY <1>1, <1>2 DEF SwapAsked, GoalLimit, GoalSwap

(* What was asked for gets written.                                        *)
LEMMA TodoStep == TypeOK /\ HostInv /\ TodoInv /\ [Next]_vars => TodoInv'
<1> SUFFICES ASSUME TypeOK, HostInv, TodoInv, [Next]_vars PROVE TodoInv'
  OBVIOUS
<1>0. host' = host /\ (gone => gone')
  BY HostStep
<1>1. ASSUME NEW file, Writing(file), Refused PROVE TodoInv'
  BY <1>1, WriteRefused DEF TodoInv, Underway
<1>2. CASE set_limit
  <2>1. CASE Written
    BY <1>0, <1>2, <2>1, InForce, WriteStep DEF set_limit, TodoInv
  <2> QED
    BY <1>1, <1>2, <2>1 DEF set_limit
<1>3. CASE set_swap
  <2>1. CASE Written
    BY <1>0, <1>3, <2>1, InForce, WriteStep DEF set_swap, TodoInv
  <2> QED
    BY <1>1, <1>3, <2>1 DEF set_swap
<1>4. CASE set_other
  <2>1. CASE Written
    BY <1>0, <1>4, <2>1, WriteStep DEF set_other, kernel, TodoInv
  <2>2. CASE upd' = [upd EXCEPT !.state = "failed", !.agreed = FALSE]
    BY <1>4, <2>2, UpdateFields DEF set_other, Writing, TodoInv, Underway
  <2> QED
    BY <1>4, <2>1, <2>2 DEF set_other
<1>5. CASE UpdateReply
  BY <1>5 DEF UpdateReply, TodoInv, Underway, Idle
<1>6. ASSUME NEW r \in Requests, update(r) PROVE TodoInv'
  <2>1. CASE upd'.state = "writing"
    <3>1. /\ AskedLimit(r) = Unset => limit' = GoalLimit'
          /\ AskedSwap(r).value = Unset => swap' = GoalSwap'
      BY <1>6, BeginStep
    <3> QED
      BY <1>6, <2>1, <3>1, BeginStep, WritesFacts DEF TodoInv
  <2> QED
    BY <2>1 DEF TodoInv, Underway
<1>7. CASE Grow
  <2>1. CASE upd.op = "update"
    BY <1>0, <1>7, <2>1, GrowStep DEF Grow, TodoInv
  <2>2. CASE upd.op # "update"
    BY <1>7, <2>2 DEF Grow, TodoInv, Underway
  <2> QED
    BY <2>1, <2>2
<1>8. CASE UNCHANGED <<host, limit, swap, upd, ooms>> /\ (gone => gone')
  BY <1>8, QuietStep DEF TodoInv
<1> QED
  BY <1>2, <1>3, <1>4, <1>5, <1>6, <1>7, <1>8, Steps

(* The goals are limits.                                                   *)
LEMMA GoalFacts ==
  ASSUME TypeOK, upd.op = "update"
  PROVE  /\ GoalLimit \in Limits /\ GoalSwap \in Limits
<1>1. upd.req \in Requests
  BY UpdateFields
<1>2. GoalLimit \in Limits
  BY <1>1, RequestFacts, ConstantFacts DEF GoalLimit, TypeOK, Asked
<1>3. GoalSwap \in Limits
  BY <1>1, SwapFacts, ConstantFacts DEF GoalSwap, SwapAsked, TypeOK, Asked
<1> QED
  BY <1>2, <1>3

(* The container can live with the goals.                                  *)
Livable ==
  /\ AskedSwap(upd.req).ok
  /\ host.accounting \/ SwapAsked \in {Unset} \cup (IF host.v2 THEN {0, -1} ELSE {})
  /\ ~ host.v2 => GoalLimit <= GoalSwap /\ anon + swapped <= GoalSwap
  /\ host.v2 => anon <= GoalLimit \/ anon - GoalLimit + swapped <= GoalSwap

(* That is what an update that is agreed has agreed on.                    *)
LEMMA Agreement == (Agreed(upd.req) <=> Livable) /\ (Agreed(upd.req)' <=> Livable')
  BY DEF Agreed, Livable, GoalLimit, GoalSwap, SwapAsked

(* The next limit to be written stays one that the kernel takes.           *)
LEMMA OrderStep == TypeOK /\ HostInv /\ TodoInv /\ OrderInv /\ [Next]_vars => OrderInv'
<1> SUFFICES ASSUME TypeOK, HostInv, TodoInv, OrderInv, [Next]_vars PROVE OrderInv'
  OBVIOUS
<1>0. host' = host
  BY HostStep
<1>1. ASSUME NEW file, Writing(file), Refused PROVE OrderInv'
  BY <1>1, WriteRefused DEF OrderInv, Underway
<1>2. CASE set_limit
  <2>1. CASE Written
    BY <1>0, <1>2, <2>1, InForce, WriteStep DEF set_limit, OrderInv
  <2> QED
    BY <1>1, <1>2, <2>1 DEF set_limit
<1>3. CASE set_swap
  <2>1. CASE Written
    BY <1>0, <1>3, <2>1, InForce, WriteStep DEF set_swap, OrderInv
  <2> QED
    BY <1>1, <1>3, <2>1 DEF set_swap
<1>4. CASE set_other
  <2>1. CASE Written
    <3>1. Writing("other") /\ limit' = limit /\ swap' = swap
      BY <1>4 DEF set_other, kernel
    <3>2. /\ Underway /\ upd'.agreed = upd.agreed
          /\ GoalLimit' = GoalLimit /\ GoalSwap' = GoalSwap
          /\ Has(upd'.todo, "limit") <=> Has(upd.todo, "limit")
          /\ Has(upd'.todo, "swap") <=> Has(upd.todo, "swap")
          /\ \A f, g : Before(upd.todo, f, g) => Before(upd'.todo, f, g)
      BY <1>0, <2>1, <3>1, WriteStep
    <3> QED
      BY <1>0, <3>1, <3>2 DEF OrderInv
  <2>2. CASE upd' = [upd EXCEPT !.state = "failed", !.agreed = FALSE]
    BY <1>4, <2>2, UpdateFields DEF set_other, Writing, OrderInv, Underway
  <2> QED
    BY <1>4, <2>1, <2>2 DEF set_other
<1>5. CASE UpdateReply
  BY <1>5 DEF UpdateReply, OrderInv, Underway, Idle
<1>6. ASSUME NEW r \in Requests, update(r) PROVE OrderInv'
  <2> SUFFICES ASSUME Underway', upd'.agreed PROVE OrderInv'
    BY DEF OrderInv
  <2> DEFINE l == AskedLimit(r)
             s == AskedSwap(r).value
             L == IF l = Unset THEN limit ELSE Value(r.limit)
             S == IF s = Unset THEN swap ELSE Value(s)
  <2>1. /\ upd'.todo = Writes(r) /\ limit' = limit /\ swap' = swap /\ GoalLimit' = L /\ GoalSwap' = S
    BY <1>6, BeginStep DEF Underway
  <2>2. Agreed(r)
    BY <1>6, BeginStep
  <2>3. ~ host.v2 => L <= S /\ anon + swapped <= S
    BY <2>2 DEF Agreed
  <2>4. CASE host.v2
    BY <1>0, <2>1, <2>4, WritesFacts DEF swap_first, OrderInv
  <2>5. CASE ~ host.v2
    <3>1. limit \in Nat /\ swap \in Nat /\ limit <= swap /\ swap <= Infinity /\ limit <= Infinity
      BY <2>5, ConstantFacts DEF HostInv, TypeOK
    <3>2. L \in Nat /\ S \in Nat
      BY <3>1, RequestFacts, SwapFacts, ConstantFacts DEF Asked
    <3>3. (l # Unset => l = r.limit) /\ (l = Unset => L = limit) /\ (s = Unset => S = swap)
      BY RequestFacts
    <3>4. CASE l = Unset \/ s = Unset
      BY <1>0, <2>1, <2>3, <2>5, <3>1, <3>2, <3>3, <3>4, WritesFacts DEF OrderInv
    <3>5. CASE l # Unset /\ s # Unset
      <4>1. swap_first(l, s) <=> s = -1 \/ limit < s
        BY <2>5, <3>5 DEF swap_first, limit_in_bytes
      <4>2. s \in -1..MaxUnits /\ S = IF s = -1 THEN Infinity ELSE s
        BY <3>5, SwapFacts DEF Asked, Value
      <4>3. swap_first(l, s) => limit <= S
        BY <3>1, <4>1, <4>2
      <4>4. ~ swap_first(l, s) => S <= limit
        BY <3>1, <4>1, <4>2
      <4>5. ~ swap_first(l, s) => L <= swap
        BY <2>3, <2>5, <3>1, <3>2, <4>4
      <4>6. /\ Has(Writes(r), "limit") /\ Has(Writes(r), "swap")
            /\ swap_first(l, s) => Before(Writes(r), "swap", "limit")
            /\ ~ swap_first(l, s) => Before(Writes(r), "limit", "swap")
        BY <3>5, WritesFacts
      <4> QED
        BY <1>0, <2>1, <2>3, <2>5, <4>3, <4>5, <4>6 DEF OrderInv
    <3> QED
      BY <3>4, <3>5
  <2> QED
    BY <2>4, <2>5
<1>7. CASE Grow
  <2>1. CASE upd.op = "update"
    BY <1>0, <1>7, <2>1, GrowStep DEF Grow, OrderInv
  <2>2. CASE upd.op # "update"
    BY <1>7, <2>2 DEF Grow, OrderInv, Underway
  <2> QED
    BY <2>1, <2>2
<1>8. CASE UNCHANGED <<host, limit, swap, upd, ooms>> /\ (gone => gone')
  BY <1>8, QuietStep DEF OrderInv
<1> QED
  BY <1>2, <1>3, <1>4, <1>5, <1>6, <1>7, <1>8, Steps

(* A v2 kernel that writes the memory limit has the swap limit, or none.   *)
LEMMA SwapBefore ==
  ASSUME TypeOK, HostInv, TodoInv, OrderInv, set_limit, host.v2, upd.agreed, ~ gone
  PROVE  GoalSwap <= swap
<1>1. Underway /\ upd.op = "update" /\ ~ Has(upd.todo, "swap")
  <2>1. Writing("limit") /\ Underway /\ upd.op = "update" /\ upd.todo[1].file = "limit"
        /\ upd.todo \in Seq(Write) /\ upd.todo # <<>>
    BY NextWrite DEF set_limit, Writing
  <2> QED
    BY <2>1, AfterOne DEF OrderInv
<1>2. swap = GoalSwap \/ ~ host.accounting
  BY <1>1 DEF TodoInv
<1>3. GoalSwap \in Nat /\ GoalSwap <= Infinity
  BY <1>1, GoalFacts, ConstantFacts
<1> QED
  BY <1>2, <1>3 DEF HostInv

(* A calm container can live with the rest of an update that was agreed,   *)
(* and no write of it is refused.                                          *)
LEMMA GraceStep ==
  TypeOK /\ HostInv /\ TodoInv /\ OrderInv /\ GraceInv /\ [Next]_vars => GraceInv'
<1> SUFFICES ASSUME TypeOK, HostInv, TodoInv, OrderInv, GraceInv, [Next]_vars,
                    upd'.op = "update", upd'.agreed, upd'.calm, ~ gone'
             PROVE  upd'.state = "writing" /\ Agreed(upd.req)' /\ ooms' = upd'.ooms
  BY DEF GraceInv
<1>0. host' = host /\ ~ gone
  BY HostStep
<1>n. /\ limit \in Nat /\ swap \in Nat /\ anon \in Nat /\ swapped \in Nat
      /\ limit <= Infinity /\ swap <= Infinity /\ Infinity \in Nat
  BY ConstantFacts DEF TypeOK
<1>1. ASSUME NEW file, Writing(file), Written \/ Refused
      PROVE  /\ upd.op = "update" /\ upd.agreed /\ upd.calm /\ ooms = upd.ooms /\ Livable
             /\ Underway /\ GoalLimit \in Nat /\ GoalSwap \in Nat
  <2>1. upd.op = "update" /\ Underway /\ upd.agreed /\ upd.calm
    BY <1>1, WriteDone, WriteRefused, NextWrite
  <2> QED
    BY <1>0, <2>1, GoalFacts, ConstantFacts, Agreement DEF GraceInv
<1>2. CASE set_limit
  <2>1. /\ Writing("limit") /\ upd.op = "update" /\ upd.agreed /\ upd.calm /\ ooms = upd.ooms
        /\ Livable /\ Underway /\ GoalLimit \in Nat /\ GoalSwap \in Nat
    BY <1>1, <1>2 DEF set_limit
  <2>2. Value(upd.todo[1].value) = GoalLimit /\ upd.todo[1].file = "limit"
    BY <2>1, NextWrite DEF GoalLimit, Writing
  <2>3. upd.todo \in Seq(Write) /\ upd.todo # <<>> /\ Has(upd.todo, "limit")
    BY <2>1, NextWrite
  <2>4. ~ host.v2 => GoalLimit <= swap
    <3>1. Before(upd.todo, "swap", "limit") => ~ Has(upd.todo, "swap")
      BY <2>2, <2>3, AfterOne
    <3> QED
      BY <2>1, <2>3, <3>1 DEF OrderInv
  <2>5. ~ (~ host.v2 /\ GoalLimit > swap)
    BY <1>n, <2>1, <2>4
  <2>6. Written
    BY <1>0, <1>2, <2>2, <2>5 DEF set_limit
  <2> DEFINE out == IF anon > GoalLimit THEN anon - GoalLimit ELSE 0
  <2>7. out \in Nat /\ anon - out \in Nat /\ anon - out <= GoalLimit
        /\ (anon - out) + (swapped + out) = anon + swapped
    BY <1>n, <2>1
  <2>8. ~ (host.v2 /\ out > 0 /\ swapped + out > swap)
    <3> SUFFICES ASSUME host.v2, out > 0, swapped + out > swap PROVE FALSE
      OBVIOUS
    <3>1. GoalSwap <= swap
      BY <1>0, <1>2, <2>1, SwapBefore
    <3>2. anon <= GoalLimit \/ anon - GoalLimit + swapped <= GoalSwap
      BY <2>1 DEF Livable
    <3> QED
      BY <1>n, <2>1, <3>1, <3>2
  <2>9. anon' = anon - out /\ swapped' = swapped + out /\ ooms' = ooms
    BY <1>0, <1>2, <2>2, <2>5, <2>8 DEF set_limit
  <2>10. /\ upd'.state = "writing" /\ upd'.ooms = upd.ooms /\ upd'.op = "update"
         /\ AskedSwap(upd.req)' = AskedSwap(upd.req) /\ SwapAsked' = SwapAsked
         /\ GoalLimit' = GoalLimit /\ GoalSwap' = GoalSwap
    BY <1>0, <1>2, <2>1, <2>6, InForce, WriteStep DEF Underway
  <2>11. Livable'
    <3>1. ~ host.v2 => anon' + swapped' <= GoalSwap
      BY <2>1, <2>7, <2>9 DEF Livable
    <3>2. anon' <= GoalLimit
      BY <2>7, <2>9
    <3> QED
      BY <1>0, <2>1, <2>10, <3>1, <3>2 DEF Livable
  <2> QED
    BY <2>1, <2>9, <2>10, <2>11, Agreement
<1>3. CASE set_swap
  <2>1. /\ Writing("swap") /\ upd.op = "update" /\ upd.agreed /\ upd.calm /\ ooms = upd.ooms
        /\ Livable /\ Underway /\ GoalLimit \in Nat /\ GoalSwap \in Nat
    BY <1>1, <1>3 DEF set_swap
  <2>2. /\ upd.todo[1].value = SwapAsked /\ SwapAsked # Unset /\ Value(upd.todo[1].value) = GoalSwap
        /\ upd.todo[1].file = "swap"
    BY <2>1, NextWrite DEF GoalSwap, Writing
  <2>3. upd.todo \in Seq(Write) /\ upd.todo # <<>> /\ Has(upd.todo, "swap")
    BY <2>1, NextWrite
  <2>4. ~ host.v2 => limit <= GoalSwap
    <3>1. Before(upd.todo, "limit", "swap") => ~ Has(upd.todo, "limit")
      BY <2>2, <2>3, AfterOne
    <3> QED
      BY <2>1, <2>3, <3>1 DEF OrderInv
  <2>5. ~ host.v2 => anon + swapped <= GoalSwap
    BY <2>1 DEF Livable
  <2>6. ~ host.accounting => host.v2 /\ upd.todo[1].value \in {0, -1}
    BY <2>1, <2>2 DEF Livable
  <2>7. ~ (~ host.v2 /\ (GoalSwap < limit \/ GoalSwap < anon + swapped))
    BY <1>n, <2>1, <2>4, <2>5
  <2>8. Written
    BY <1>0, <1>3, <2>2, <2>6, <2>7 DEF set_swap
  <2>9. UNCHANGED <<anon, swapped, ooms>>
    BY <1>3 DEF set_swap
  <2>10. /\ upd'.state = "writing" /\ upd'.ooms = upd.ooms /\ upd'.op = "update"
         /\ AskedSwap(upd.req)' = AskedSwap(upd.req) /\ SwapAsked' = SwapAsked
         /\ GoalLimit' = GoalLimit /\ GoalSwap' = GoalSwap
    BY <1>0, <1>3, <2>1, <2>8, InForce, WriteStep DEF Underway
  <2>11. Livable'
    BY <1>0, <2>1, <2>9, <2>10 DEF Livable
  <2> QED
    BY <2>1, <2>9, <2>10, <2>11, Agreement
<1>4. CASE set_other
  <2>1. Written
    BY <1>4, UpdateFields DEF set_other, Writing, Updating
  <2>2. /\ Writing("other") /\ upd.op = "update" /\ ooms = upd.ooms /\ Livable
        /\ UNCHANGED <<limit, swap, anon, swapped, ooms>>
    BY <1>1, <1>4, <2>1 DEF set_other, kernel
  <2>3. /\ upd'.state = "writing" /\ upd'.ooms = upd.ooms /\ upd'.op = "update"
        /\ AskedSwap(upd.req)' = AskedSwap(upd.req) /\ SwapAsked' = SwapAsked
        /\ GoalLimit' = GoalLimit /\ GoalSwap' = GoalSwap
    BY <1>0, <2>1, <2>2, WriteStep DEF Underway
  <2>4. Livable'
    BY <1>0, <2>2, <2>3 DEF Livable
  <2> QED
    BY <2>2, <2>3, <2>4, Agreement
<1>5. CASE UpdateReply
  BY <1>5 DEF UpdateReply, Idle
<1>6. ASSUME NEW r \in Requests, update(r)
      PROVE  upd'.state = "writing" /\ Agreed(upd.req)' /\ ooms' = upd'.ooms
  <2>1. Agreed(r) /\ AskedSwap(r).ok
    BY <1>6, BeginStep DEF Agreed
  <2>2. upd'.req = r
    BY <1>6 DEF update
  <2>3. Agreed(upd.req)'
    BY <1>0, <1>6, <2>1, <2>2, BeginStep DEF Agreed
  <2> QED
    BY <1>0, <1>6, <2>1, <2>3, BeginStep
<1>7. CASE Grow
  <2>1. upd.op = "update"
    BY <1>7 DEF Grow
  <2> QED
    BY <1>7, <2>1, GrowStep
<1>8. CASE /\ UNCHANGED <<host, limit, swap, upd, ooms>> /\ (gone => gone')
           /\ ~ gone' => anon' + swapped' <= anon + swapped /\ anon' <= anon
  <2>1. /\ upd.op = "update" /\ upd.state = "writing" /\ Livable /\ ooms = upd.ooms
    BY <1>0, <1>8, Agreement DEF GraceInv
  <2>2. TypeOK'
    BY TypeStep
  <2>3. anon' \in Nat /\ swapped' \in Nat /\ anon' + swapped' <= anon + swapped /\ anon' <= anon
    BY <1>8, <2>2 DEF TypeOK
  <2>4. /\ AskedSwap(upd.req)' = AskedSwap(upd.req) /\ SwapAsked' = SwapAsked
        /\ GoalLimit' = GoalLimit /\ GoalSwap' = GoalSwap
    BY <1>8, QuietStep
  <2>5. GoalLimit \in Nat /\ GoalSwap \in Nat
    BY <2>1, GoalFacts, ConstantFacts
  <2>6. /\ ~ host.v2 => anon' + swapped' <= GoalSwap
        /\ host.v2 => anon' <= GoalLimit \/ anon' - GoalLimit + swapped' <= GoalSwap
    <3>1. /\ ~ host.v2 => anon + swapped <= GoalSwap
          /\ host.v2 => anon <= GoalLimit \/ anon - GoalLimit + swapped <= GoalSwap
      BY <2>1 DEF Livable
    <3>2. /\ anon + swapped <= GoalSwap => anon' + swapped' <= GoalSwap
          /\ anon <= GoalLimit => anon' <= GoalLimit
          /\ anon - GoalLimit + swapped <= GoalSwap => anon' - GoalLimit + swapped' <= GoalSwap
      <4> DEFINE Less(a, b, c, d, g, h) ==
                   c + d <= a + b /\ c <= a =>
                     /\ a + b <= h => c + d <= h
                     /\ a <= g => c <= g
                     /\ a - g + b <= h => c - g + d <= h
      <4>1. \A a, b, c, d, g, h \in Nat : Less(a, b, c, d, g, h)
        OBVIOUS
      <4> HIDE DEF Less
      <4>2. Less(anon, swapped, anon', swapped', GoalLimit, GoalSwap)
        BY <1>n, <2>3, <2>5, <4>1
      <4> QED
        BY <2>3, <4>2 DEF Less
    <3> QED
      BY <3>1, <3>2
  <2>7. Livable'
    BY <1>0, <1>8, <2>1, <2>4, <2>6 DEF Livable
  <2> QED
    BY <1>8, <2>1, <2>7, Agreement
<1> QED
  BY <1>2, <1>3, <1>4, <1>5, <1>6, <1>7, <1>8, Steps

------------------------------------------------------------------------------
(* The kernel counts one more OOM, and v1 signals it.                      *)
LEMMA OomStep ==
  ASSUME TypeOK, OomInv, UNCHANGED <<gone, reader, oomq, told>>,
         Kill \/ UNCHANGED <<ooms, fd>>
  PROVE  OomInv'
<1>1. CASE UNCHANGED <<ooms, fd>>
  BY <1>1 DEF OomInv, Above
<1>2. CASE Kill
  <2>1. /\ ooms \in Nat /\ ooms' = ooms + 1 /\ told \in Nat /\ reader.ooms \in Nat
        /\ oomq \in Seq(Nat) /\ fd \in [ooms: Nat, removed: BOOLEAN]
    BY <1>2 DEF Kill, TypeOK
  <2>2. fd' = fd \/ (fd'.ooms = ooms + 1 /\ fd'.removed = fd.removed)
    BY <1>2, <2>1 DEF Kill, Signal
  <2>3. \A i \in 1..Len(oomq) : oomq[i] \in Nat
    BY <2>1, ElementOfSeq
  <2>4. \A n \in Nat : (n <= ooms => n <= ooms + 1 /\ n < ooms + 1) /\ ooms + 1 <= ooms + 1
    BY <2>1
  <2>5. told < ooms + 1 /\ reader.ooms < ooms + 1 /\ \A i \in 1..Len(oomq) : oomq[i] < ooms + 1
    BY <2>1, <2>3, <2>4 DEF OomInv
  <2>6. told <= ooms' /\ reader.ooms <= ooms' /\ \A i \in 1..Len(oomq) : oomq[i] <= ooms'
    BY <2>1, <2>3, <2>4 DEF OomInv
  <2>7. \A n \in Nat : Above(n) => Above(n)'
    BY <1>2, <2>1, <2>4 DEF Above
  <2>8. \A n \in Nat : n = ooms + 1 => Above(n)'
    BY <2>1, <2>4, <2>5 DEF Above
  <2>9. fd'.ooms <= ooms' /\ fd'.ooms \in Nat
    BY <2>1, <2>2, <2>4 DEF OomInv
  <2>10. fd'.ooms # 0 => Above(fd.ooms)'
    <3>1. CASE fd' = fd
      BY <2>1, <2>7, <3>1 DEF OomInv
    <3>2. CASE fd'.ooms = ooms + 1
      BY <2>8, <2>9, <3>2
    <3> QED
      BY <2>2, <3>1, <3>2
  <2>11. fd'.removed => gone'
    BY <2>2 DEF OomInv
  <2>12. fd'.ooms # 0 /\ reader'.pc = "check" => reader'.ooms < fd'.ooms
    BY <2>1, <2>2, <2>5 DEF OomInv
  <2>13. reader'.pc = "check" => gone' \/ Above(reader.ooms)'
    <3>1. reader.pc = "check" => gone \/ Above(reader.ooms)
      BY DEF OomInv
    <3> QED
      BY <2>1, <2>7, <3>1
  <2>14. /\ \A i \in 1..Len(oomq') : told' < oomq'[i]
         /\ \A i, j \in 1..Len(oomq') : i < j => oomq'[i] < oomq'[j]
    BY DEF OomInv
  <2> QED
    BY <2>6, <2>9, <2>10, <2>11, <2>12, <2>13, <2>14 DEF OomInv
<1> QED
  BY <1>1, <1>2

(* OOMs are passed on in their order, each once.                           *)
LEMMA OomsInOrder == TypeOK /\ TodoInv /\ OomInv /\ [Next]_vars => OomInv'
<1> SUFFICES ASSUME TypeOK, TodoInv, OomInv, [Next]_vars PROVE OomInv'
  OBVIOUS
<1>0. /\ ooms \in Nat /\ told \in Nat /\ oomq \in Seq(Nat) /\ Len(oomq) \in Nat
      /\ fd \in [ooms: Nat, removed: BOOLEAN]
      /\ reader \in [pc: {"unregistered", "read", "check", "ended"}, ooms: Nat]
  BY LenProperties DEF TypeOK
<1>Kernel. ASSUME Grow \/ set_limit PROVE OomInv'
  <2>1. UNCHANGED <<gone, reader, oomq, told>> /\ (Kill \/ UNCHANGED <<ooms, fd>>)
    BY <1>Kernel DEF Grow, set_limit
  <2> QED
    BY <2>1, OomStep
<1>Remove. ASSUME Remove PROVE OomInv'
  <2>1. fd'.ooms = fd.ooms /\ gone' /\ UNCHANGED <<ooms, reader, oomq, told>>
    BY <1>Remove, <1>0 DEF Remove
  <2> QED
    BY <2>1 DEF OomInv, Above
<1>Others. ASSUME \/ Shrink \/ set_swap \/ set_other \/ UpdateReply \/ Stats
                  \/ (\E r \in Requests : update(r)) \/ UNCHANGED vars
           PROVE  OomInv'
  <2>1. UNCHANGED <<gone, ooms, fd, reader, oomq, told>>
    BY <1>Others DEF Shrink, set_swap, set_other, UpdateReply, update, Stats, stats,
       collect_metrics,
       collect_metrics_v2, StatsReply, kernel, monitor, vars
  <2> QED
    BY <2>1, OomStep
<1>monitor_oom. ASSUME monitor_oom PROVE OomInv'
  <2>1. reader'.pc = "read" /\ reader'.ooms = reader.ooms /\ UNCHANGED <<gone, ooms, fd, oomq, told>>
    BY <1>monitor_oom, <1>0 DEF monitor_oom, register_memory_event, kernel
  <2> QED
    BY <2>1 DEF OomInv, Above
<1>ReadEventfd. ASSUME ReadEventfd PROVE OomInv'
  <2>1. /\ reader'.pc = "check" /\ reader'.ooms = fd.ooms /\ fd'.ooms = 0 /\ ~ fd'.removed
        /\ UNCHANGED <<gone, ooms, oomq, told>>
    BY <1>ReadEventfd DEF ReadEventfd, Nothing, kernel
  <2>2. gone \/ Above(fd.ooms)
    <3>1. fd.ooms # 0 \/ fd.removed
      BY <1>ReadEventfd, <1>0 DEF ReadEventfd, Nothing
    <3> QED
      BY <3>1 DEF OomInv
  <2> QED
    BY <1>0, <2>1, <2>2 DEF OomInv, Above
<1>CheckRemoved. ASSUME CheckRemoved PROVE OomInv'
  <2>1. CASE gone
    BY <1>0, <1>CheckRemoved, <2>1 DEF CheckRemoved, OomInv, Above, kernel
  <2>2. CASE ~ gone
    <3>1. /\ reader.pc = "check" /\ Above(reader.ooms) /\ reader.ooms \in Nat
          /\ reader'.pc = "read" /\ reader'.ooms = reader.ooms /\ oomq' = Append(oomq, reader.ooms)
          /\ UNCHANGED <<gone, ooms, fd, told>>
      BY <1>0, <1>CheckRemoved, <2>2 DEF CheckRemoved, kernel, OomInv
    <3>2. /\ Len(oomq') = Len(oomq) + 1 /\ \A i \in 1..Len(oomq) : oomq'[i] = oomq[i]
          /\ oomq'[Len(oomq) + 1] = reader.ooms
      BY <1>0, <3>1, AppendProperties
    <3>3. \A i \in 1..Len(oomq') : i \in 1..Len(oomq) \/ i = Len(oomq) + 1
      BY <1>0, <3>2
    <3>4. \A i \in 1..Len(oomq') : told < oomq'[i] /\ oomq'[i] <= ooms
      BY <3>1, <3>2, <3>3 DEF OomInv, Above
    <3>5. \A i, j \in 1..Len(oomq') : i < j => oomq'[i] < oomq'[j]
      <4> SUFFICES ASSUME NEW i \in 1..Len(oomq'), NEW j \in 1..Len(oomq'), i < j
                   PROVE  oomq'[i] < oomq'[j]
        OBVIOUS
      <4>1. i \in 1..Len(oomq)
        BY <1>0, <3>2
      <4>2. CASE j \in 1..Len(oomq)
        BY <3>2, <4>1, <4>2 DEF OomInv
      <4>3. CASE j = Len(oomq) + 1
        BY <3>1, <3>2, <4>1, <4>3 DEF Above
      <4> QED
        BY <3>3, <4>2, <4>3
    <3>6. fd.ooms # 0 => Above(fd.ooms)'
      BY <3>1, <3>2, <3>3 DEF OomInv, Above
    <3> QED
      BY <3>1, <3>4, <3>5, <3>6 DEF OomInv
  <2> QED
    BY <2>1, <2>2
<1>run_oom_monitor. ASSUME run_oom_monitor PROVE OomInv'
  <2>1. /\ oomq # <<>> /\ told' = Head(oomq) /\ oomq' = Tail(oomq)
        /\ UNCHANGED <<gone, ooms, fd, reader>>
    BY <1>run_oom_monitor DEF run_oom_monitor, kernel
  <2>2. /\ Len(oomq) \in Nat \ {0} /\ Len(oomq') = Len(oomq) - 1
        /\ \A i \in 1..Len(oomq') : oomq'[i] = oomq[i + 1]
    BY <1>0, <2>1, HeadTailProperties, EmptySeq
  <2>3. 1 \in 1..Len(oomq) /\ told' = oomq[1]
    BY <2>1, <2>2
  <2>4. \A i \in 1..Len(oomq') : i + 1 \in 1..Len(oomq) /\ 1 < i + 1
    BY <2>2
  <2>5. told' <= ooms
    BY <2>3 DEF OomInv
  <2>6. \A i \in 1..Len(oomq') : told' < oomq'[i] /\ oomq'[i] <= ooms
    BY <2>2, <2>3, <2>4 DEF OomInv
  <2>7. \A i, j \in 1..Len(oomq') : i < j => oomq'[i] < oomq'[j]
    <3> SUFFICES ASSUME NEW i \in 1..Len(oomq'), NEW j \in 1..Len(oomq'), i < j
                 PROVE  oomq'[i] < oomq'[j]
      OBVIOUS
    <3>1. i + 1 < j + 1
      OBVIOUS
    <3> QED
      BY <2>2, <2>4, <3>1 DEF OomInv
  <2>8. \A n : Above(n) => Above(n)'
    BY <2>1, <2>2, <2>3, <2>4 DEF Above
  <2> QED
    BY <2>1, <2>5, <2>6, <2>7, <2>8 DEF OomInv
<1> QED
  BY <1>Kernel, <1>Remove, <1>Others, <1>monitor_oom, <1>ReadEventfd, <1>CheckRemoved,
     <1>run_oom_monitor
  DEF Next, Container, Update, Monitor, Reader

------------------------------------------------------------------------------
(* The first state satisfies the invariant.                                *)
LEMMA InitInv == Init => IInv
<1> SUFFICES ASSUME Init PROVE IInv
  OBVIOUS
<1>1. /\ host \in [v2: BOOLEAN, accounting: BOOLEAN] /\ limit \in 1..Infinity
      /\ swap \in IF ~ host.accounting THEN {Infinity} ELSE IF host.v2 THEN Limits ELSE limit..Infinity
      /\ upd.op = "none" /\ st.op = "none" /\ upd = Idle /\ st = Idle
  BY DEF Init, Idle
<1>2. limit \in Limits /\ swap \in Limits /\ HostInv
  BY <1>1, ConstantFacts DEF Limits, HostInv
<1>3. TypeOK
  <2>1. oomq \in Seq(Nat) /\ fd \in [ooms: Nat, removed: BOOLEAN]
        /\ reader \in [pc: {"unregistered", "read", "check", "ended"}, ooms: Nat]
    BY EmptySeq DEF Init, Nothing
  <2> QED
    BY <1>1, <1>2, <2>1 DEF Init, TypeOK
<1>4. ReadInv /\ TodoInv /\ OrderInv /\ GraceInv
  BY <1>1 DEF ReadInv, TodoInv, OrderInv, GraceInv, Underway
<1>5. OomInv
  <2>1. /\ told = 0 /\ ooms = 0 /\ fd.ooms = 0 /\ ~ fd.removed /\ reader.ooms = 0
        /\ reader.pc = "unregistered" /\ 1..Len(oomq) = {}
    BY DEF Init, Nothing
  <2> QED
    BY <2>1 DEF OomInv
<1> QED
  BY <1>2, <1>3, <1>4, <1>5 DEF IInv

(* What every state satisfies.                                             *)
THEOREM Invariant == Spec => []IInv
<1>1. IInv /\ [Next]_vars => IInv'
  BY TypeStep, HostStep, ReadStep, TodoStep, OrderStep, GraceStep, OomsInOrder DEF IInv
<1> QED
  BY <1>1, InitInv, PTL DEF Spec

(* The limits that a stats call reports were in force together (stats is   *)
(* under the read lock, update under the write lock).                      *)
THEOREM StatsAreNotTorn == Spec => []StatsNotTorn
<1>1. IInv => StatsNotTorn
  BY DEF IInv, ReadInv, StatsNotTorn
<1> QED
  BY <1>1, Invariant, PTL

(* An agreed update neither fails for the order of its writes nor has a    *)
(* process of a calm container killed (the order of the two writes on v1,  *)
(* swap first on v2).                                                      *)
THEOREM UpdatesAreGraceful == Spec => []UpdateGraceful
<1>1. IInv => UpdateGraceful
  BY DEF IInv, GraceInv, UpdateGraceful
<1> QED
  BY <1>1, Invariant, PTL

(* An update that is answered with success has put in force the limits it  *)
(* was asked for (swap_for_v2, and what is written of each).               *)
THEOREM UpdatesAreApplied == Spec => []AppliedAsAsked
<1>1. IInv => AppliedAsAsked
  <2> SUFFICES ASSUME IInv, upd.op = "update", upd.state = "writing", upd.todo = <<>>, ~ gone,
                      host.accounting
               PROVE  AppliedAsAsked
    BY DEF AppliedAsAsked
  <2> DEFINE r == upd.req
  <2>1. TypeOK /\ r \in Requests /\ Underway
    BY UpdateFields DEF IInv, Underway
  <2>2. AskedSwap(r).ok /\ limit = GoalLimit /\ swap = GoalSwap
    BY <2>1, NoWrites DEF IInv, TodoInv
  <2>3. /\ r.limit \in Asked /\ r.swap \in Asked /\ limit \in 0..Infinity
        /\ AskedLimit(r) = Unset <=> r.limit \in {Unset, 0}
        /\ AskedLimit(r) # Unset => AskedLimit(r) = r.limit
    BY <2>1, RequestFacts DEF TypeOK, Limits
  <2>4. r.limit \notin {Unset, 0} => limit = Value(r.limit)
    BY <2>2, <2>3 DEF GoalLimit
  <2>5. CASE ~ host.v2
    <3>1. SwapAsked = IF r.swap \in {Unset, 0} THEN Unset ELSE r.swap
      BY <2>5 DEF SwapAsked, AskedSwap, Result
    <3>2. r.swap \notin {Unset, 0} => swap = Value(r.swap) /\ r.swap \in -1..MaxUnits
      BY <2>2, <2>3, <3>1 DEF GoalSwap, Asked
    <3>3. r.swap \notin {Unset, 0} =>
            (r.swap = -1 /\ swap = Infinity) \/ (r.swap > 0 /\ swap = r.swap)
      BY <3>2 DEF Value
    <3> QED
      BY <2>4, <2>5, <3>3 DEF AppliedAsAsked
  <2>6. CASE host.v2
    <3> DEFINE s == IF r.swap = Unset THEN 0 ELSE r.swap
               m == IF AskedLimit(r) = Unset /\ s > 0 THEN limit_in_bytes ELSE AskedLimit(r)
    <3>1. s \in -1..MaxUnits /\ AskedSwap(r) = swap_for_v2(s, m)
      BY <2>3, <2>6, ConstantsAssumption DEF AskedSwap, Asked
    <3>2. m \in Asked
      BY <2>3, <2>6, ConstantFacts DEF limit_in_bytes, Asked
    <3>3. /\ AskedLimit(r) # Unset => m = r.limit /\ limit = Value(m)
          /\ AskedLimit(r) = Unset /\ s > 0 => limit = Value(m) /\ m # Unset
          /\ AskedLimit(r) = Unset /\ s <= 0 => m = Unset
      BY <2>2, <2>3, <2>6, <3>1, ConstantFacts DEF limit_in_bytes, GoalLimit, Value
    <3> HIDE DEF s, m
    <3>4. \/ s = 0 /\ m = -1 /\ SwapAsked = -1
          \/ s = 0 /\ m # -1 /\ SwapAsked = Unset
          \/ s # 0 /\ (s = -1 \/ m = -1) /\ SwapAsked = s
          \/ s > 0 /\ m # Unset /\ m > 0 /\ m <= s /\ SwapAsked = s - m
      BY <2>2, <3>1, <3>2, SwapForV2 DEF SwapAsked
    <3>5. SwapAsked # Unset => swap = Value(SwapAsked)
      BY <2>2 DEF GoalSwap
    <3>6. ASSUME r.swap \notin {Unset, 0}
          PROVE  \/ r.swap = -1 /\ swap = Infinity
                 \/ r.swap > 0 /\ limit = Infinity /\ swap = r.swap
                 \/ r.swap > 0 /\ limit + swap = r.swap
      <4>1. s = r.swap /\ s # 0
        BY <3>6 DEF s
      <4>2. CASE s = -1
        BY <3>1, <3>4, <3>5, <4>1, <4>2, ConstantFacts DEF Value
      <4>3. CASE s > 0 /\ m = -1
        BY <3>1, <3>3, <3>4, <3>5, <4>1, <4>3, ConstantFacts DEF Value
      <4>4. CASE s > 0 /\ m # -1
        <5>1. m # Unset /\ m > 0 /\ m <= s /\ SwapAsked = s - m /\ m \in -1..MaxUnits
          BY <3>1, <3>2, <3>4, <4>4 DEF Asked
        <5>2. limit = m /\ swap = s - m
          BY <3>1, <3>3, <3>5, <4>4, <5>1, ConstantFacts DEF Value
        <5> QED
          BY <3>1, <4>1, <4>4, <5>1, <5>2
      <4> QED
        BY <3>1, <4>1, <4>2, <4>3, <4>4
    <3>7. r.swap = Unset /\ r.limit = -1 => swap = Infinity
      <4> SUFFICES ASSUME r.swap = Unset, r.limit = -1 PROVE swap = Infinity
        OBVIOUS
      <4>1. s = 0 /\ m = -1
        BY <2>3, <3>3 DEF s
      <4> QED
        BY <3>4, <3>5, <4>1, ConstantsAssumption DEF Value
    <3> QED
      BY <2>4, <2>6, <3>6, <3>7 DEF AppliedAsAsked
  <2> QED
    BY <2>5, <2>6
<1> QED
  BY <1>1, Invariant, PTL

(* A TaskOOM tells of an OOM that no TaskOOM has told of                   *)
(* (run_oom_monitor, and the check for the removal of the cgroup).         *)
THEOREM OomsAreTrue == Spec => OomTrue
<1>1. IInv /\ [Next]_vars => [told' # told => told' > told /\ told' <= ooms]_vars
  <2> SUFFICES ASSUME IInv, [Next]_vars, told' # told PROVE told' > told /\ told' <= ooms
    OBVIOUS
  <2>1. run_oom_monitor
    BY DEF Next, Container, Grow, Shrink, Remove, Update, update, set_limit, set_swap, set_other,
       UpdateReply, Stats, stats, collect_metrics, collect_metrics_v2, StatsReply, Monitor,
       monitor_oom, Reader, ReadEventfd, CheckRemoved, monitor, vars
  <2>2. oomq # <<>> /\ told' = Head(oomq) /\ oomq \in Seq(Nat) /\ told \in Nat
    BY <2>1 DEF run_oom_monitor, IInv, TypeOK
  <2>3. 1 \in 1..Len(oomq) /\ told' = oomq[1] /\ oomq[1] \in Nat
    BY <2>2, EmptySeq, ElementOfSeq
  <2> QED
    BY <2>2, <2>3 DEF IInv, OomInv
<1> QED
  BY <1>1, Invariant, PTL DEF Spec, OomTrue
===============================================================================
