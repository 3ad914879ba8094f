----------------------------- MODULE MountProofs -----------------------------
(***************************************************************************)
(* Theorems about mounts: about their options (MountOptions), for lists and*)
(* paths of any length; about RootfsMount, for any finite set of shims, any*)
(* requests, any threads and loop devices and any number of kills and of   *)
(* mounts by others; and about the mounts of the synchronous shim          *)
(* (SyncShim), for any set of callers and of pids and any number of starts.*)
(***************************************************************************)
EXTENDS RootfsMount, SyncShim, SequenceTheorems, FiniteSetTheorems, WellFoundedInduction,
        TLAPS

(* The options.  Their definitions are recursive functions; what holds of  *)
(* each step is carried to the end by the least number it fails for.       *)

(* A set of numbers has a least one, and a bounded one a last.             *)
LEMMA Least ==
  ASSUME NEW S \in SUBSET Nat, S # {}
  PROVE  \E n \in S : \A m \in S : n <= m
<1>1. PICK n \in S : \A m \in S : ~ (<<m, n>> \in OpToRel(<, Nat))
  BY WFMin, NatLessThanWellFounded
<1>2. \A m \in S : m \in Nat /\ n \in Nat
  OBVIOUS
<1>3. \A m \in S : ~ (m < n)
  BY <1>1, <1>2 DEF OpToRel
<1> QED
  BY <1>2, <1>3

LEMMA LastOfSome ==
  ASSUME NEW n \in Nat, NEW I \in SUBSET (1..n), I # {}
  PROVE  Max(I) \in I /\ \A i \in I : i <= Max(I)
<1> DEFINE J == {n - i : i \in I}
<1>1. J \in SUBSET Nat /\ J # {}
  <2>1. \A i \in I : i \in 1..n /\ n - i \in Nat
    OBVIOUS
  <2> QED
    BY <2>1
<1>2. \A k \in I : n - k \in J /\ k \in 1..n
  OBVIOUS
<1>3. \A j \in J : \E i \in I : j = n - i
  OBVIOUS
<1> HIDE DEF J
<1>4. PICK j \in J : \A k \in J : j <= k
  BY <1>1, Least
<1>5. PICK i \in I : j = n - i
  BY <1>3
<1>6. \A k \in I : i >= k
  BY <1>2, <1>4, <1>5
<1>7. Max(I) \in I /\ \A y \in I : Max(I) >= y
  BY <1>6 DEF Max
<1> QED
  BY <1>7
------------------------------------------------------------------------------
(* What is read of the first n options.                                    *)
Readings(options, n, g) ==
  g = [i \in 0..n |-> IF i = 0 THEN Nothing ELSE Reads(g[i - 1], options[i])]

(* The recursion of Parse has a solution: were there a length without one, *)
(* there would be a least, and one step more than the solution before it.  *)
LEMMA ParseUnfolds ==
  ASSUME NEW options, Len(options) \in Nat
  PROVE  \E f : Readings(options, Len(options), f) /\ Parse(options) = f[Len(options)]
<1> DEFINE Bad == {n \in 0..Len(options) : ~ \E g : Readings(options, n, g)}
<1>1. ASSUME NEW n \in 0..Len(options), ~ \E g : Readings(options, n, g) PROVE FALSE
  <2>1. PICK m \in Bad : \A k \in Bad : m <= k
    <3>1. Bad # {} /\ Bad \in SUBSET Nat
      BY <1>1
    <3> HIDE DEF Bad
    <3> QED
      BY <3>1, Least
  <2>2. m # 0
    <3>1. Readings(options, 0, [i \in 0..0 |-> Nothing])
      BY DEF Readings
    <3> QED
      BY <2>1, <3>1
  <2>3. m - 1 \in 0..Len(options) /\ m - 1 \notin Bad /\ m \in Nat
    <3>1. m \in 1..Len(options) /\ m - 1 < m
      BY <2>1, <2>2
    <3>2. m - 1 \notin Bad
      <4>1. m - 1 \in Bad => m <= m - 1
        BY <2>1
      <4> QED
        BY <3>1, <4>1
    <3> QED
      BY <3>1, <3>2
  <2>4. PICK g : Readings(options, m - 1, g)
    BY <2>3
  <2> DEFINE h == [i \in 0..m |-> IF i = m THEN Reads(g[m - 1], options[m]) ELSE g[i]]
  <2>5. \A i \in 0..m : h[i] = IF i = 0 THEN Nothing ELSE Reads(h[i - 1], options[i])
    <3>1. \A i \in 0..m - 1 :
            h[i] = g[i] /\ g[i] = IF i = 0 THEN Nothing ELSE Reads(g[i - 1], options[i])
      BY <2>3, <2>4 DEF Readings
    <3> TAKE i \in 0..m
    <3>2. CASE i = m
      <4>1. h[m] = Reads(g[m - 1], options[m]) /\ h[m-1] = g[m-1]
        BY <2>3, <2>2, <3>1
      <4> QED
        BY <3>2, <4>1, <2>2
    <3>3. CASE i # m
      <4>0. i \in 0..m-1 /\ (i # 0 => i - 1 \in 0..m-1)
        BY <2>3, <3>3
      <4>1. h[i] = g[i] /\ (i # 0 => h[i - 1] = g[i - 1])
        BY <4>0, <3>1
      <4> HIDE DEF h
      <4> QED
        BY <4>0, <4>1, <3>1
    <3> QED
      BY <3>2, <3>3
  <2>6. h = [i \in 0..m |-> h[i]]
    OBVIOUS
  <2> HIDE DEF h
  <2>7. Readings(options, m, h)
    BY <2>5, <2>6 DEF Readings
  <2> QED
    BY <2>1, <2>7
<1>2. PICK g : Readings(options, Len(options), g)
  BY <1>1
<1> DEFINE read == CHOOSE f : Readings(options, Len(options), f)
<1>3. Readings(options, Len(options), read)
  BY <1>2
<1>4. Parse(options) = read[Len(options)]
  BY DEF Parse, Readings
<1> QED
  BY <1>3, <1>4

(* ro is the one option that sets MS_RDONLY, rw the one that clears it.    *)
Shaped(acc) == acc = [flags |-> acc.flags, loop |-> acc.loop, data |-> acc.data]
LEMMA ReadsFacts ==
  ASSUME NEW acc, Shaped(acc), NEW o
  PROVE  /\ Shaped(Reads(acc, o))
         /\ "RDONLY" \in Reads(acc, o).flags <=>
              o.name = "ro" \/ ("RDONLY" \in acc.flags /\ o.name # "rw")
<1>0. DOMAIN acc = {"flags", "loop", "data"}
  BY DEF Shaped
<1>1. CASE o.name \in DOMAIN SetsFlags
  <2>1. Reads(acc, o) = [acc EXCEPT !.flags = @ \cup SetsFlags[o.name]]
    BY <1>1 DEF Reads
  <2>2. "RDONLY" \in SetsFlags[o.name] <=> o.name = "ro"
    BY <1>1 DEF SetsFlags
  <2>3. o.name # "rw"
    BY <1>1 DEF SetsFlags
  <2> QED
    BY <2>1, <2>2, <2>3, <1>0 DEF Shaped
<1>2. CASE o.name \notin DOMAIN SetsFlags /\ o.name \in DOMAIN ClearsFlags
  <2>1. Reads(acc, o) = [acc EXCEPT !.flags = @ \ ClearsFlags[o.name]]
    BY <1>2 DEF Reads
  <2>2. "RDONLY" \in ClearsFlags[o.name] <=> o.name = "rw"
    BY <1>2 DEF ClearsFlags
  <2>3. o.name # "ro"
    BY <1>2 DEF SetsFlags
  <2> QED
    BY <2>1, <2>2, <2>3, <1>0 DEF Shaped
<1>3. CASE o.name \notin DOMAIN SetsFlags /\ o.name \notin DOMAIN ClearsFlags
  <2>1. o.name # "ro" /\ o.name # "rw"
    BY <1>3 DEF SetsFlags, ClearsFlags
  <2>2. \/ Reads(acc, o) = [acc EXCEPT !.loop = TRUE]
        \/ Reads(acc, o) = [acc EXCEPT !.data = Append(@, o)]
    BY <1>3 DEF Reads
  <2> QED
    BY <2>1, <2>2, <1>0 DEF Shaped
<1> QED
  BY <1>1, <1>2, <1>3

(* A mount is asked to be read-only by the last of its ro and rw.          *)
LEMMA ReadOnlyFacts ==
  ASSUME NEW options, Len(options) \in Nat, DOMAIN options = 1..Len(options)
  PROVE  "RDONLY" \in Parse(options).flags <=> LastSays(options, "ro", "rw")
<1> DEFINE Says(n) ==
      \E i \in 1..n : options[i].name = "ro" /\ \A j \in i + 1..n : options[j].name # "rw"
<1>1. PICK f : Readings(options, Len(options), f) /\ Parse(options) = f[Len(options)]
  BY ParseUnfolds
<1> DEFINE Good(n) == Shaped(f[n]) /\ ("RDONLY" \in f[n].flags <=> Says(n))
           Bad == {n \in 0..Len(options) : ~ Good(n)}
<1>2. f[0] = Nothing /\ \A n \in 1..Len(options) : f[n] = Reads(f[n - 1], options[n])
  BY <1>1 DEF Readings
<1>3. Good(0)
  BY <1>2 DEF Shaped, Nothing
<1>4. ASSUME NEW n \in 1..Len(options), Good(n - 1) PROVE Good(n)
  <2>1. f[n] = Reads(f[n - 1], options[n])
    BY <1>2
  <2>2. Shaped(f[n]) /\ ("RDONLY" \in f[n].flags <=>
          options[n].name = "ro" \/ ("RDONLY" \in f[n - 1].flags /\ options[n].name # "rw"))
    <3>1. Shaped(f[n - 1])
      BY <1>4
    <3> QED
      BY <2>1, <3>1, ReadsFacts
  <2>3. Says(n) <=> options[n].name = "ro" \/ (Says(n - 1) /\ options[n].name # "rw")
    <3>1. ASSUME Says(n) PROVE options[n].name = "ro" \/ (Says(n - 1) /\ options[n].name # "rw")
      <4>1. PICK i \in 1..n :
              options[i].name = "ro" /\ \A j \in i + 1..n : options[j].name # "rw"
        BY <3>1
      <4>2. CASE i = n
        BY <4>1, <4>2
      <4>3. CASE i # n
        <5>1. i \in 1..n - 1 /\ n \in i + 1..n /\ \A j \in i + 1..n - 1 : j \in i + 1..n
          BY <4>3
        <5> QED
          BY <4>1, <5>1
      <4> QED
        BY <4>2, <4>3
    <3>2. ASSUME options[n].name = "ro" PROVE Says(n)
      <4>1. n \in 1..n /\ n + 1..n = {}
        OBVIOUS
      <4> QED
        BY <3>2, <4>1
    <3>3. ASSUME Says(n - 1), options[n].name # "rw" PROVE Says(n)
      <4>1. PICK i \in 1..n - 1 :
              options[i].name = "ro" /\ \A j \in i + 1..n - 1 : options[j].name # "rw"
        BY <3>3
      <4>2. i \in 1..n /\ \A j \in i + 1..n : j = n \/ j \in i + 1..n - 1
        OBVIOUS
      <4> QED
        BY <3>3, <4>1, <4>2
    <3> HIDE DEF Says
    <3> QED
      BY <3>1, <3>2, <3>3
  <2> HIDE DEF Says
  <2> QED
    BY <1>4, <2>2, <2>3
<1> HIDE DEF Good
<1>5. Bad = {}
  <2> SUFFICES ASSUME Bad # {} PROVE FALSE
    OBVIOUS
  <2>1. PICK n \in Bad : \A m \in Bad : n <= m
    <3>1. Bad \in SUBSET Nat
      OBVIOUS
    <3> HIDE DEF Bad
    <3> QED
      BY <3>1, Least
  <2>2. n \in 1..Len(options) /\ n - 1 \in 0..Len(options) /\ ~ n <= n - 1
    BY <1>3, <2>1
  <2>3. Good(n - 1)
    BY <2>1, <2>2
  <2> QED
    BY <1>4, <2>1, <2>2, <2>3
<1>6. Good(Len(options))
  BY <1>5
<1>7. LastSays(options, "ro", "rw") <=> Says(Len(options))
  BY DEF LastSays
<1> QED
  BY <1>1, <1>6, <1>7 DEF Good
------------------------------------------------------------------------------
(* Of sequences of which but one are empty that one is left.               *)
LEMMA FlattenFacts ==
  ASSUME NEW S, NEW d \in Seq(S), NEW n \in Nat \ {0}, NEW k \in Nat \ {0},
         NEW seqs, Len(seqs) = n, \A i \in 1..n : seqs[i] = IF i = k THEN d ELSE <<>>
  PROVE  FlattenSeq(seqs) = IF k <= n THEN d ELSE <<>>
<1> DEFINE Flat(f) == f = [i \in 1..n |-> IF i = 1 THEN seqs[i] ELSE f[i - 1] \o seqs[i]]
           g == [i \in 1..n |-> IF i < k THEN <<>> ELSE d]
           f == CHOOSE h : Flat(h)
           Bad == {i \in 1..n : f[i] # g[i]}
<1>1. /\ d \o <<>> = d /\ <<>> \o d = d
      /\ <<>> \o <<>> = <<>>
  <2>1. <<>> \in Seq(S)
    BY EmptySeq
  <2> QED
    BY <2>1, ConcatEmptySeq
<1>2. ASSUME NEW i \in 1..n PROVE g[i] = IF i = 1 THEN seqs[i] ELSE g[i - 1] \o seqs[i]
  <2>1. CASE i = 1
    BY <2>1
  <2>2. CASE i # 1
    <3>1. i - 1 \in 1..n
      BY <2>2
    <3>2. g[i] = (IF i < k THEN <<>> ELSE d) /\ g[i - 1] = (IF i - 1 < k THEN <<>> ELSE d)
      BY <3>1
    <3> HIDE DEF g
    <3> QED
      BY <1>1, <2>2, <3>2
  <2> QED
    BY <2>1, <2>2
<1>3. g = [i \in 1..n |-> g[i]]
  OBVIOUS
<1> HIDE DEF g
<1>4. Flat(g)
  BY <1>2, <1>3
<1>5. Flat(f)
  <2> HIDE DEF Flat
  <2> QED
    BY <1>4
<1> HIDE DEF f
<1>6. \A i \in 1..n : f[i] = IF i = 1 THEN seqs[i] ELSE f[i - 1] \o seqs[i]
  BY <1>5
<1>7. Bad = {}
  <2> SUFFICES ASSUME Bad # {} PROVE FALSE
    OBVIOUS
  <2>1. PICK i \in Bad : \A j \in Bad : i <= j
    <3>1. Bad \in SUBSET Nat
      OBVIOUS
    <3> HIDE DEF Bad
    <3> QED
      BY <3>1, Least
  <2>2. CASE i = 1
    BY <1>2, <1>6, <2>1, <2>2
  <2>3. CASE i # 1
    <3>1. i - 1 \in 1..n /\ ~ i <= i - 1
      BY <2>1, <2>3
    <3>2. f[i - 1] = g[i - 1]
      BY <2>1, <3>1
    <3> QED
      BY <1>2, <1>6, <2>1, <2>3, <3>2
  <2> QED
    BY <2>2, <2>3
<1>8. FlattenSeq(seqs) = f[n]
  BY DEF FlattenSeq, f
<1>9. f[n] = g[n]
  BY <1>7
<1>10. g[n] = IF n < k THEN <<>> ELSE d
  BY DEF g
<1> QED
  BY <1>8, <1>9, <1>10

(* The directories are those of the option k, if there is such an option.  *)
LEMMA LowerdirsFacts ==
  ASSUME NEW options, DOMAIN options = 1..Len(options), Len(options) \in Nat,
         NEW k \in Nat \ {0}, NEW dirs \in Seq(Seq(STRING)),
         \A i \in DOMAIN options :
           (options[i].lower <=> i = k) /\ (i = k => options[i].dirs = dirs)
  PROVE  IF k \in DOMAIN options THEN lowerdirs(options) = dirs
         ELSE Len(lowerdirs(options)) = 0 /\ DOMAIN lowerdirs(options) = {}
<1> DEFINE seqs == [i \in DOMAIN options |-> IF options[i].lower THEN options[i].dirs ELSE <<>>]
           n == Len(options)
<1>1. lowerdirs(options) = FlattenSeq(seqs)
  BY DEF lowerdirs
<1>2. /\ Len(seqs) = n /\ DOMAIN seqs = 1..n
      /\ \A i \in 1..n : seqs[i] = IF i = k THEN dirs ELSE <<>>
  OBVIOUS
<1>3. n \in Nat
  OBVIOUS
<1> HIDE DEF seqs
<1>4. CASE n = 0
  <2>1. FlattenSeq(seqs) = seqs
    BY <1>2, <1>4 DEF FlattenSeq
  <2>2. DOMAIN seqs = {} /\ k \notin DOMAIN options
    BY <1>2, <1>4
  <2> QED
    BY <1>1, <1>2, <1>4, <2>1, <2>2
<1>5. CASE n # 0
  <2>1. FlattenSeq(seqs) = IF k <= n THEN dirs ELSE <<>>
    BY <1>2, <1>3, <1>5, FlattenFacts
  <2>2. Len(<<>>) = 0 /\ DOMAIN <<>> = {}
    OBVIOUS
  <2>3. k \in DOMAIN options <=> k <= n
    OBVIOUS
  <2> QED
    BY <1>1, <2>1, <2>2, <2>3
<1> QED
  BY <1>4, <1>5
------------------------------------------------------------------------------
(* A path begins with its prefixes, character by character.                *)
Begins(p, path) == Len(p) <= Len(path) /\ \A i \in 1..Len(p) : p[i] = path[i]

LEMMA CommonFacts ==
  ASSUME NEW D, D # {}, NEW S, NEW c \in S,
         \A t \in D : t \in Seq(S) /\ Len(t) > 0 /\ t[1] = c
  PROVE  /\ LongestCommonPrefix(D) \in Seq(S)
         /\ Len(LongestCommonPrefix(D)) > 0
         /\ \A t \in D : Begins(LongestCommonPrefix(D), t)
<1> DEFINE P == CommonPrefixes(D)
<1>1. \A t \in D :
        t \in Seq(S) /\ Len(t) \in Nat \ {0} /\ t[1] = c /\ \A i \in 1..Len(t) : t[i] \in S
  BY LenProperties
<1>2. ASSUME NEW t \in D, NEW l \in 0..Len(t)
      PROVE  /\ SubSeq(t, 1, l) \in Seq(S) /\ Len(SubSeq(t, 1, l)) = l
             /\ \A i \in 1..l : SubSeq(t, 1, l)[i] = t[i]
  <2>1. \A i \in 1..l : t[i] \in S
    BY <1>1
  <2> QED
    BY <1>1, <2>1, SubSeqProperties
<1>3. \A p \in P : p \in Seq(S) /\ \A t \in D : IsPrefix(p, t)
  BY <1>1, <1>2 DEF CommonPrefixes, Prefixes
<1>4. PICK u \in D : TRUE
  OBVIOUS
<1>5. SubSeq(u, 1, 1) \in P
  <2>1. SubSeq(u, 1, 1) \in Prefixes(u)
    BY <1>1 DEF Prefixes
  <2>2. ASSUME NEW t \in D PROVE IsPrefix(SubSeq(u, 1, 1), t)
    <3>1. /\ Len(SubSeq(u, 1, 1)) = 1 /\ SubSeq(u, 1, 1) \in Seq(S) /\ SubSeq(u, 1, 1)[1] = c
          /\ Len(SubSeq(t, 1, 1)) = 1 /\ SubSeq(t, 1, 1) \in Seq(S) /\ SubSeq(t, 1, 1)[1] = c
      BY <1>1, <1>2
    <3>2. SubSeq(u, 1, 1) = SubSeq(t, 1, 1)
      BY <3>1, SeqEqual
    <3>3. SubSeq(SubSeq(u, 1, 1), 1, 1) = SubSeq(u, 1, 1)
      BY <3>1, SubSeqFull
    <3> QED
      BY <1>1, <3>1, <3>2, <3>3 DEF IsPrefix
  <2> QED
    BY <2>1, <2>2 DEF CommonPrefixes
<1>6. \A p \in P : Len(p) \in Nat /\ Len(p) <= Len(u)
  BY <1>3, LenProperties DEF IsPrefix
<1>7. \E p \in P : \A q \in P : Len(q) <= Len(p)
  <2> DEFINE lens == {Len(u) - Len(p) : p \in P}
  <2>1. lens \in SUBSET Nat /\ lens # {}
    <3>1. \A p \in P : Len(u) - Len(p) \in Nat
      BY <1>1, <1>6
    <3> QED
      BY <1>5, <3>1
  <2>2. /\ \A p \in P : Len(u) - Len(p) \in lens
        /\ \A l \in lens : \E p \in P : l = Len(u) - Len(p)
    OBVIOUS
  <2> HIDE DEF lens, P
  <2>3. PICK l \in lens : \A m \in lens : l <= m
    BY <2>1, Least
  <2>4. PICK p \in P : l = Len(u) - Len(p)
    BY <2>2
  <2>5. \A q \in P : Len(u) - Len(p) <= Len(u) - Len(q)
    BY <2>2, <2>3, <2>4
  <2> QED
    BY <1>1, <1>6, <2>5
<1> DEFINE p == LongestCommonPrefix(D)
<1>8. p \in P /\ \A q \in P : Len(q) <= Len(p)
  BY <1>7 DEF LongestCommonPrefix
<1> HIDE DEF p, P
<1>9. p \in Seq(S) /\ Len(p) \in Nat /\ Len(p) > 0
  <2>1. Len(SubSeq(u, 1, 1)) = 1
    BY <1>1, <1>2
  <2> QED
    <3>1. Len(p) \in Nat /\ 1 <= Len(p)
      BY <1>5, <1>6, <1>8, <2>1
    <3> QED
      BY <1>3, <1>8, <3>1
<1>10. ASSUME NEW t \in D PROVE Begins(p, t)
  <2>1. Len(p) <= Len(t) /\ SubSeq(p, 1, Len(p)) = SubSeq(t, 1, Len(p))
    BY <1>3, <1>8 DEF IsPrefix
  <2>2. SubSeq(p, 1, Len(p)) = p
    BY <1>9, SubSeqFull
  <2>3. \A i \in 1..Len(p) : SubSeq(t, 1, Len(p))[i] = t[i]
    BY <1>1, <1>2, <1>9, <2>1
  <2> QED
    BY <2>1, <2>2, <2>3 DEF Begins
<1> QED
  BY <1>9, <1>10 DEF p

(* Cut back to its last slash a prefix of absolute paths is a directory.   *)
LEMMA TrimFacts ==
  ASSUME NEW S, NEW p \in Seq(S), Len(p) > 0, p[1] = Slash
  PROVE  LET d == trim_flawed_dir(p) IN
         /\ d \in Seq(S) /\ Len(d) \in 1..Len(p) /\ d[Len(d)] = Slash
         /\ \A i \in 1..Len(d) : d[i] = p[i]
<1> DEFINE I == {i \in 1..Len(p) : p[i] = Slash}
<1>1. Len(p) \in Nat \ {0} /\ \A i \in 1..Len(p) : p[i] \in S
  BY LenProperties
<1>2. 1 \in I /\ I \in SUBSET (1..Len(p))
  BY <1>1
<1>3. Max(I) \in I
  BY <1>1, <1>2, LastOfSome
<1>4. trim_flawed_dir(p) =
        SubSeq(p, 1, LET n == IF I # {} THEN Max(I) ELSE 0 IN IF n = 0 THEN 1 ELSE n)
  BY DEF trim_flawed_dir, SelectLastInSeq
<1>5. PICK n \in 1..Len(p) : n = Max(I) /\ p[n] = Slash
  BY <1>3
<1>6. trim_flawed_dir(p) = SubSeq(p, 1, n)
  <2> HIDE DEF I
  <2> QED
    BY <1>2, <1>4, <1>5
<1>7. \A i \in 1..n : p[i] \in S
  BY <1>1
<1>8. /\ SubSeq(p, 1, n) \in Seq(S) /\ Len(SubSeq(p, 1, n)) = n
      /\ \A i \in 1..n : SubSeq(p, 1, n)[i] = p[i]
  BY <1>1, <1>7, SubSeqProperties
<1> QED
  <2>1. Len(SubSeq(p, 1, n)) = n /\ n \in 1..Len(p) /\ p[n] = Slash
    BY <1>5, <1>8
  <2> DEFINE d == SubSeq(p, 1, n)
  <2>2. /\ d \in Seq(S) /\ Len(d) \in 1..Len(p) /\ d[Len(d)] = Slash
        /\ \A i \in 1..Len(d) : d[i] = p[i]
    BY <1>1, <1>8, <2>1
  <2> QED
    BY <1>6, <2>2

(* What is left of an absolute path is a name in the directory.            *)
LEMMA StripFacts ==
  ASSUME NEW path \in Seq(STRING), IsAbsolute(path),
         NEW d \in Seq(STRING), Len(d) > 0, d[Len(d)] = Slash, Begins(d, path)
  PROVE  /\ Strip(path, d) \in Seq(STRING)
         /\ Seen(d, Strip(path, d)) = path
<1>1. /\ Len(path) \in Nat /\ Len(d) \in Nat \ {0}
      /\ \A i \in 1..Len(path) : path[i] \in STRING
  BY LenProperties
<1>2. Len(d) < Len(path) /\ path[Len(d)] = Slash
  BY <1>1 DEF IsAbsolute, Begins
<1> DEFINE r == Strip(path, d)
<1>3. /\ r \in Seq(STRING) /\ Len(r) = Len(path) - Len(d)
      /\ \A i \in 1..Len(path) - Len(d) : r[i] = path[Len(d) + i]
  <2>1. \A i \in Len(d) + 1..Len(path) : path[i] \in STRING
    BY <1>1
  <2> QED
    BY <1>1, <1>2, <2>1, SubSeqProperties DEF Strip
<1> HIDE DEF r
<1>4. r # <<>> /\ r[1] # Slash
  <2>1. path[Len(d) + 1] # Slash
    BY <1>1, <1>2 DEF IsAbsolute
  <2> QED
    BY <1>1, <1>2, <1>3, <2>1
<1>5. d \o r = path
  <2>1. /\ d \o r \in Seq(STRING) /\ Len(d \o r) = Len(path)
        /\ \A i \in 1..Len(path) : (d \o r)[i] = IF i <= Len(d) THEN d[i] ELSE r[i - Len(d)]
    BY <1>1, <1>2, <1>3, ConcatProperties
  <2>2. ASSUME NEW i \in 1..Len(path) PROVE (d \o r)[i] = path[i]
    <3>1. CASE i <= Len(d)
      BY <1>1, <2>1, <3>1 DEF Begins
    <3>2. CASE ~ i <= Len(d)
      <4>1. i - Len(d) \in 1..Len(path) - Len(d) /\ Len(d) + (i - Len(d)) = i
        BY <1>1, <3>2
      <4> QED
        BY <1>3, <2>1, <3>2, <4>1
    <3> QED
      BY <3>1, <3>2
  <2> QED
    BY <2>1, <2>2, SeqEqual
<1> QED
  BY <1>3, <1>4, <1>5 DEF Seen, r

(* The one option that names layers, if there is one, and its layers.      *)
LEMMA LayersFacts ==
  ASSUME NEW options, WellFormed(options)
  PROVE  /\ DOMAIN options = 1..Len(options) /\ Len(options) \in Nat
         /\ \E k \in Nat \ {0} : \E dirs \in Seq(Seq(STRING)) :
              /\ \A i \in DOMAIN options :
                   (options[i].lower <=> i = k) /\ (i = k => options[i].dirs = dirs)
              /\ \A path \in ToSet(dirs) : IsAbsolute(path)
              /\ IF k \in DOMAIN options THEN lowerdirs(options) = dirs
                 ELSE Len(lowerdirs(options)) = 0 /\ DOMAIN lowerdirs(options) = {}
<1> DEFINE Opt == [lower: BOOLEAN, dirs: Seq(Seq(STRING)), name: STRING]
<1>1. /\ DOMAIN options = 1..Len(options) /\ Len(options) \in Nat
      /\ \A i \in 1..Len(options) : options[i] \in Opt
  <2>1. options \in Seq(Opt)
    BY DEF WellFormed
  <2> HIDE DEF Opt
  <2> QED
    BY <2>1, LenProperties
<1>2. CASE \E k \in DOMAIN options : options[k].lower
  <2>1. PICK k \in DOMAIN options : options[k].lower
    BY <1>2
  <2> DEFINE dirs == options[k].dirs
  <2>2. k \in Nat \ {0} /\ dirs \in Seq(Seq(STRING))
    BY <1>1, <2>1
  <2>3. \A i \in DOMAIN options :
          (options[i].lower <=> i = k) /\ (i = k => options[i].dirs = dirs)
    BY <2>1 DEF WellFormed
  <2>4. \A path \in ToSet(dirs) : IsAbsolute(path)
    BY <2>1 DEF WellFormed
  <2> HIDE DEF dirs
  <2>5. lowerdirs(options) = dirs
    BY <1>1, <2>1, <2>2, <2>3, LowerdirsFacts
  <2> QED
    BY <1>1, <2>1, <2>2, <2>3, <2>4, <2>5
<1>3. CASE ~ \E k \in DOMAIN options : options[k].lower
  <2> DEFINE k == Len(options) + 1
  <2>1. k \in Nat \ {0} /\ k \notin DOMAIN options /\ <<>> \in Seq(Seq(STRING))
    BY <1>1, EmptySeq
  <2>2. \A i \in DOMAIN options :
          (options[i].lower <=> i = k) /\ (i = k => options[i].dirs = <<>>)
    BY <1>3, <2>1
  <2>3. ToSet(<<>>) = {}
    BY DEF ToSet
  <2> HIDE DEF k
  <2>4. Len(lowerdirs(options)) = 0 /\ DOMAIN lowerdirs(options) = {}
    BY <1>1, <2>1, <2>2, LowerdirsFacts
  <2> QED
    BY <1>1, <2>1, <2>2, <2>3, <2>4
<1> QED
  BY <1>2, <1>3

(* Compaction leaves the names of the options.                             *)
LEMMA NamesFacts ==
  ASSUME NEW options, WellFormed(options)
  PROVE  LET to == compact(options).options IN
         /\ DOMAIN to = DOMAIN options /\ Len(to) = Len(options)
         /\ \A i \in DOMAIN options : to[i].name = options[i].name
<1>1. DOMAIN options = 1..Len(options) /\ Len(options) \in Nat
  BY LayersFacts
<1>2. \A i \in DOMAIN options : options[i].lower => options[i].name = "lowerdir"
  BY DEF WellFormed
<1> QED
  BY <1>1, <1>2 DEF compact, Lowerdir

(* The names of absolute paths are the same from everywhere.               *)
LEMMA AbsoluteFacts ==
  ASSUME NEW options, WellFormed(options), NEW i \in DOMAIN lowerdirs(options), NEW dir
  PROVE  Seen(dir, lowerdirs(options)[i]) = lowerdirs(options)[i]
<1>1. PICK k \in Nat \ {0} : \E dirs \in Seq(Seq(STRING)) :
              /\ \A path \in ToSet(dirs) : IsAbsolute(path)
              /\ IF k \in DOMAIN options THEN lowerdirs(options) = dirs
                 ELSE Len(lowerdirs(options)) = 0 /\ DOMAIN lowerdirs(options) = {}
  BY LayersFacts
<1>2. PICK dirs \in Seq(Seq(STRING)) :
        lowerdirs(options) = dirs /\ \A path \in ToSet(dirs) : IsAbsolute(path)
  BY <1>1
<1>3. IsAbsolute(dirs[i]) /\ dirs[i] \in Seq(STRING)
  BY <1>2, ElementOfSeq, LenProperties DEF ToSet
<1>4. dirs[i] # <<>> /\ dirs[i][1] = Slash
  BY <1>3 DEF IsAbsolute
<1> QED
  BY <1>2, <1>4 DEF Seen

(* Compaction changes no layer: each is found again from the directory that*)
(* is changed to; and if there is none to change to, from everywhere.      *)
THEOREM CompactionKeepsLayers ==
  ASSUME NEW options, WellFormed(options), NEW dir,
         compact(options).chdir # NoPrefix => dir = compact(options).chdir
  PROVE  LET asked == lowerdirs(options) told == lowerdirs(compact(options).options) IN
         /\ Len(told) = Len(asked)
         /\ \A i \in DOMAIN asked : Seen(dir, told[i]) = asked[i]
<1> DEFINE asked == lowerdirs(options)
           prefix == lowerdir_prefix(options)
           common == trim_flawed_dir(longest_common_prefix(asked))
<1>1. compact(options).chdir = prefix
  BY DEF compact
<1>2. CASE prefix = NoPrefix
  <2>1. compact(options).options = options
    BY <1>2 DEF compact
  <2> QED
    BY <2>1, AbsoluteFacts
<1>3. CASE prefix # NoPrefix
  <2>1. prefix = common /\ Len(asked) > 1 /\ dir = prefix
    BY <1>1, <1>3 DEF lowerdir_prefix
  <2>2. PICK k \in Nat \ {0} : \E dirs \in Seq(Seq(STRING)) :
              /\ \A i \in DOMAIN options :
                   (options[i].lower <=> i = k) /\ (i = k => options[i].dirs = dirs)
              /\ \A path \in ToSet(dirs) : IsAbsolute(path)
              /\ IF k \in DOMAIN options THEN lowerdirs(options) = dirs
                 ELSE Len(lowerdirs(options)) = 0 /\ DOMAIN lowerdirs(options) = {}
    BY LayersFacts
  <2>3. /\ k \in DOMAIN options /\ asked \in Seq(Seq(STRING))
        /\ \A path \in ToSet(asked) : IsAbsolute(path)
        /\ \A i \in DOMAIN options : options[i].lower <=> i = k
    BY <2>1, <2>2
  <2> HIDE DEF asked
  <2>4. /\ Len(asked) \in Nat /\ DOMAIN asked = 1..Len(asked)
        /\ \A i \in DOMAIN asked : asked[i] \in Seq(STRING) /\ IsAbsolute(asked[i])
    BY <2>3, LenProperties, ElementOfSeq DEF ToSet
  <2>5. /\ prefix \in Seq(STRING) /\ Len(prefix) > 0 /\ prefix[Len(prefix)] = Slash
        /\ \A i \in DOMAIN asked : Begins(prefix, asked[i])
    <3> DEFINE p == LongestCommonPrefix(ToSet(asked))
    <3>1. ToSet(asked) # {}
      <4>1. 1 \in DOMAIN asked
        BY <2>1, <2>4
      <4> QED
        BY <4>1 DEF ToSet
    <3>2. \A t \in ToSet(asked) : t \in Seq(STRING) /\ Len(t) > 0 /\ t[1] = Slash
      BY <2>4 DEF ToSet, IsAbsolute
    <3>3. Slash \in STRING
      <4>1. PICK t \in ToSet(asked) : TRUE
        BY <3>1
      <4>2. t[1] \in STRING /\ t[1] = Slash
        BY <3>2, ElementOfSeq, LenProperties
      <4> QED
        BY <4>2
    <3>4. p \in Seq(STRING) /\ Len(p) > 0 /\ \A t \in ToSet(asked) : Begins(p, t)
      BY <3>1, <3>2, <3>3, CommonFacts
    <3> HIDE DEF p
    <3>5. Len(p) \in Nat
      BY <3>4, LenProperties
    <3>6. p[1] = Slash
      BY <3>1, <3>2, <3>4, <3>5 DEF Begins
    <3>7. common = trim_flawed_dir(p)
      BY DEF longest_common_prefix, p
    <3>8. /\ common \in Seq(STRING) /\ Len(common) \in 1..Len(p) /\ common[Len(common)] = Slash
          /\ \A i \in 1..Len(common) : common[i] = p[i]
      BY <3>4, <3>6, <3>7, TrimFacts
    <3> HIDE DEF common
    <3>9. ASSUME NEW t \in ToSet(asked) PROVE Begins(common, t)
      <4>1. Begins(p, t) /\ Len(t) \in Nat
        BY <3>2, <3>4, LenProperties
      <4> QED
        BY <3>5, <3>8, <4>1 DEF Begins
    <3>10. \A i \in DOMAIN asked : asked[i] \in ToSet(asked)
      BY DEF ToSet
    <3> QED
      BY <2>1, <3>5, <3>8, <3>9, <3>10
  <2> HIDE DEF prefix, common
  <2> DEFINE names == [i \in DOMAIN asked |-> Strip(asked[i], prefix)]
             to == [i \in DOMAIN options |->
                      IF options[i].lower THEN Lowerdir(names) ELSE options[i]]
  <2>6. \A i \in DOMAIN asked :
          /\ Strip(asked[i], prefix) \in Seq(STRING)
           /\ Seen(prefix, Strip(asked[i], prefix)) = asked[i]
    BY <2>4, <2>5, StripFacts
  <2>7. names \in Seq(Seq(STRING)) /\ Len(names) = Len(asked)
    <3>1. names \in [1..Len(asked) -> Seq(STRING)]
      BY <2>4, <2>6
    <3> HIDE DEF names
    <3> QED
      BY <2>4, <3>1, SeqDef
  <2>8. compact(options).options = to
    BY <1>3 DEF compact, prefix, asked
  <2>9. lowerdirs(to) = names
    <3>1. DOMAIN options = 1..Len(options) /\ Len(options) \in Nat
      BY LayersFacts
    <3>2. DOMAIN to = 1..Len(to) /\ Len(to) \in Nat /\ DOMAIN to = DOMAIN options
      BY <3>1
    <3>3. \A i \in DOMAIN to : (to[i].lower <=> i = k) /\ (i = k => to[i].dirs = names)
      BY <2>3 DEF Lowerdir
    <3> HIDE DEF to, names
    <3> QED
      BY <2>3, <2>7, <3>2, <3>3, LowerdirsFacts
  <2>10. \A i \in DOMAIN asked : names[i] = Strip(asked[i], prefix)
    OBVIOUS
  <2> HIDE DEF names, to
  <2>11. /\ Len(lowerdirs(to)) = Len(asked)
         /\ \A i \in DOMAIN asked : Seen(dir, lowerdirs(to)[i]) = asked[i]
    BY <2>1, <2>6, <2>7, <2>9, <2>10
  <2> QED
    BY <2>8, <2>11 DEF asked
<1> QED
  BY <1>2, <1>3
------------------------------------------------------------------------------

(* Where a shim, or the delete action of one, is.                          *)
Pcs == MountPcs \cup {"ready", "failed", "dead", "unmount", "cleanup", "left", "deleted", "clean",
                      "gone"}

(* A table of mounts, in the order they were made.                         *)
Listing(ms) == \E S : ms \in Seq(S)
Points == {Rootfs(s) : s \in Shims} \cup {Below(s) : s \in Shims} \cup {Sibling(s) : s \in Shims}
Table(ms) == Listing(ms) /\ \A i \in DOMAIN ms : ms[i].at \in Points
MountedAt(p) == {i \in DOMAIN mounts : mounts[i].at = p}
Types == TypeOK /\ Table(mounts) /\ list \in [Shims -> SUBSET [line: Nat, at: Points]]

(* What is still to be mounted was asked for, what is in work is first, and*)
(* its thread is where its names are meant.                                *)
Working == MountPcs \ {"next"}
TodoInv ==
  /\ todo \in [Shims -> Seq(Requests)]
  /\ \A s \in Shims : pc[s] \in Working => todo[s] # <<>>
CwdInv ==
  \A s \in Shims : pc[s] \in Working \ {"chdir"} /\ Work(s).chdir # NoPrefix =>
    cwd[s][thread[s]] = Work(s).chdir

(* A shim that sets up a device has it, and is the one that opened it.     *)
BindingInv ==
  /\ \A s \in Shims : pc[s] \in {"setfd", "status", "close"} => dev[s] \in LoopDevs
  /\ \A s \in Shims : pc[s] = "status" => s \in loop[dev[s]].open /\ loop[dev[s]].file = s
  /\ \A d \in LoopDevs : \A s \in Shims :
       s \in loop[d].open => dev[s] = d /\ pc[s] \in {"status", "close"}

(* A device that clears itself is in use; another is still being set up.   *)
FreedInv ==
  \A d \in LoopDevs : loop[d].file # NoShim =>
    IF loop[d].auto THEN InUse(d, loop[d].open, mounts)
    ELSE d \in leaked \/ \E s \in Shims : pc[s] = "status" /\ dev[s] = d

(* What is below a rootfs was mounted after all that is at it, and what is *)
(* at it is on the list of an unmount until none is left.                  *)
StackInv ==
  \A s \in Shims : \A b \in MountedAt(Below(s)) :
    /\ pc[s] \notin MountPcs
    /\ MountedAt(Rootfs(s)) # {} /\ \A r \in MountedAt(Rootfs(s)) : r < b
ListInv ==
  \A s \in Shims :
    /\ \A e \in list[s] : e.at \in {Rootfs(s), Below(s)}
    /\ Unmounting(s) /\ MountedAt(Rootfs(s)) # {} => \E e \in list[s] : e.at = Rootfs(s)
    /\ pc[s] \in {"deleted", "gone", "clean"} => MountedAt(Rootfs(s)) = {}
    /\ MountedAt(Sibling(s)) # {}
------------------------------------------------------------------------------

(* TopAt is the last of the mounts at a point.                             *)
LEMMA TopFacts ==
  ASSUME NEW ms, Listing(ms), NEW p
  PROVE  IF \E i \in DOMAIN ms : ms[i].at = p
         THEN /\ TopAt(ms, p) \in DOMAIN ms /\ ms[TopAt(ms, p)].at = p
              /\ \A i \in DOMAIN ms : ms[i].at = p => i <= TopAt(ms, p)
         ELSE TopAt(ms, p) = 0
<1> DEFINE I == {i \in 1..Len(ms) : ms[i].at = p}
<1>1. TopAt(ms, p) = IF I # {} THEN Max(I) ELSE 0
  BY DEF TopAt, SelectLastInSeq
<1>2. DOMAIN ms = 1..Len(ms) /\ Len(ms) \in Nat
  BY DEF Listing
<1>3. I # {} => Max(I) \in I /\ \A i \in I : i <= Max(I)
  BY <1>2, LastOfSome
<1> QED
  BY <1>1, <1>2, <1>3

(* A mount added, one taken away, and one changed where it is.             *)
LEMMA AppendFacts ==
  ASSUME NEW ms, Listing(ms), NEW m
  PROVE  /\ Listing(Append(ms, m))
         /\ DOMAIN ms = 1..Len(ms) /\ Len(ms) \in Nat
         /\ DOMAIN Append(ms, m) = 1..Len(ms) + 1
         /\ \A i \in 1..Len(ms) : Append(ms, m)[i] = ms[i]
         /\ Append(ms, m)[Len(ms) + 1] = m
<1>1. PICK S : ms \in Seq(S)
  BY DEF Listing
<1>2. ms \in Seq(S \cup {m})
  BY <1>1
<1> QED
  BY <1>2, AppendProperties, LenProperties DEF Listing

(* One mount taken away: those after it move up.                           *)
LEMMA RemoveFacts ==
  ASSUME NEW ms, Listing(ms), NEW k \in DOMAIN ms
  PROVE  /\ Listing(RemoveAt(ms, k))
         /\ DOMAIN ms = 1..Len(ms) /\ Len(ms) \in Nat
         /\ DOMAIN RemoveAt(ms, k) = 1..Len(ms) - 1
         /\ \A i \in 1..Len(ms) - 1 : RemoveAt(ms, k)[i] = IF i < k THEN ms[i] ELSE ms[i + 1]
<1>1. PICK S : ms \in Seq(S)
  BY DEF Listing
<1> DEFINE a == SubSeq(ms, 1, k - 1)
           b == SubSeq(ms, k + 1, Len(ms))
<1>2. DOMAIN ms = 1..Len(ms) /\ Len(ms) \in Nat /\ k \in 1..Len(ms)
  BY <1>1, LenProperties
<1>3. a \in Seq(S) /\ Len(a) = k - 1 /\ \A i \in 1..k - 1 : a[i] = ms[i]
  BY <1>1, <1>2, SubSeqProperties
<1>4. b \in Seq(S) /\ Len(b) = Len(ms) - k /\ \A i \in 1..Len(ms) - k : b[i] = ms[k + i]
  BY <1>1, <1>2, SubSeqProperties, SMTT(30)
<1>5. RemoveAt(ms, k) = a \o b
  BY DEF RemoveAt
<1> HIDE DEF a, b
<1>6. /\ a \o b \in Seq(S) /\ Len(a \o b) = Len(a) + Len(b)
      /\ \A i \in 1..Len(a) + Len(b) : (a \o b)[i] = IF i <= Len(a) THEN a[i] ELSE b[i - Len(a)]
  BY <1>3, <1>4, ConcatProperties
<1>7. DOMAIN (a \o b) = 1..Len(ms) - 1
  <2>1. Len(a \o b) = Len(ms) - 1
    BY <1>2, <1>3, <1>4, <1>6
  <2>2. DOMAIN (a \o b) = 1..Len(a \o b)
    BY <1>6, LenProperties
  <2> QED
    BY <2>1, <2>2
<1>8. ASSUME NEW i \in 1..Len(ms) - 1 PROVE (a \o b)[i] = IF i < k THEN ms[i] ELSE ms[i + 1]
  <2>1. CASE i < k
    BY <1>2, <1>3, <1>4, <1>6, <2>1
  <2>2. CASE ~ (i < k)
    <3>1. i - (k - 1) \in 1..Len(ms) - k /\ k + (i - (k - 1)) = i + 1 /\ ~ i <= k - 1
      BY <1>2, <2>2, SMTT(30)
    <3>2. b[i - (k - 1)] = ms[i + 1]
      BY <1>4, <3>1
    <3>3. Len(a) = k - 1 /\ i \in 1..Len(a) + Len(b) /\ ~ i <= Len(a)
      BY <1>2, <1>3, <1>4, <1>6, <3>1, SMTT(30)
    <3>4. (a \o b)[i] = b[i - Len(a)]
      BY <1>6, <3>3
    <3> QED
      BY <2>2, <3>2, <3>3, <3>4
  <2> QED
    BY <2>1, <2>2
<1> QED
  BY <1>2, <1>5, <1>6, <1>7, <1>8 DEF Listing

(* One mount changed: what it is not changed to stays.                     *)
LEMMA ChangeFacts ==
  ASSUME NEW ms, Listing(ms), NEW k
  PROVE  LET ns == [ms EXCEPT ![k].ro = TRUE]
         IN /\ Listing(ns) /\ DOMAIN ns = DOMAIN ms
            /\ \A i \in DOMAIN ms : ns[i].at = ms[i].at /\ ns[i].dev = ms[i].dev
<1> DEFINE ns == [ms EXCEPT ![k].ro = TRUE]
           R == {ns[i] : i \in DOMAIN ms}
<1>1. DOMAIN ms = 1..Len(ms) /\ Len(ms) \in Nat
  BY DEF Listing
<1>2. ns \in [1..Len(ms) -> R]
  BY <1>1
<1>3. ns \in Seq(R)
  BY <1>1, <1>2, SeqDef, ZenonT(30)
<1> QED
  BY <1>1, <1>3 DEF Listing

(* The points of two shims are apart; what is below a rootfs starts with   *)
(* it, what is beside it does not.                                         *)
LEMMA PointFacts ==
  ASSUME NEW s \in Shims, NEW t \in Shims
  PROVE  /\ Len(Rootfs(s)) = 2 /\ Len(Sibling(s)) = 2 /\ Len(Below(s)) = 3
         /\ Rootfs(s) # Below(t) /\ Rootfs(s) # Sibling(t) /\ Below(s) # Sibling(t)
         /\ Rootfs(s) = Rootfs(t) => s = t
         /\ Below(s) = Below(t) => s = t
         /\ Sibling(s) = Sibling(t) => s = t
<1> QED
  BY DEF Rootfs, Below, Sibling

(* Of all points only a rootfs and what is below it start with it.         *)
LEMMA PrefixFacts ==
  ASSUME NEW s \in Shims, NEW t \in Shims
  PROVE  /\ IsPrefix(Rootfs(s), Rootfs(t)) => s = t
         /\ IsPrefix(Rootfs(s), Below(t)) => s = t
         /\ ~ IsPrefix(Rootfs(s), Sibling(t))
         /\ IsPrefix(Rootfs(s), Rootfs(s)) /\ IsPrefix(Rootfs(s), Below(s))
<1> DEFINE T == {s, t, "rootfs", "rootfs2", "sub"}
<1>1. ASSUME NEW p, p \in Seq(T), Len(p) \in {2, 3}
      PROVE  IsPrefix(Rootfs(s), p) <=> p[1] = s /\ p[2] = "rootfs"
  <2>1. Rootfs(s) \in Seq(T) /\ Len(Rootfs(s)) = 2 /\ Rootfs(s)[1] = s /\ Rootfs(s)[2] = "rootfs"
    BY DEF Rootfs
  <2>2. SubSeq(Rootfs(s), 1, 2) = Rootfs(s)
    BY <2>1, SubSeqFull
  <2>3. Len(p) \in Nat /\ \A i \in 1..2 : p[i] \in T
    BY <1>1, LenProperties, ElementOfSeq
  <2>4. /\ SubSeq(p, 1, 2) \in Seq(T) /\ Len(SubSeq(p, 1, 2)) = 2
        /\ SubSeq(p, 1, 2)[1] = p[1] /\ SubSeq(p, 1, 2)[2] = p[2]
    BY <1>1, <2>3, SubSeqProperties
  <2>5. Rootfs(s) = SubSeq(p, 1, 2) <=> p[1] = s /\ p[2] = "rootfs"
    BY <2>1, <2>4, SeqEqual
  <2> QED
    BY <1>1, <2>1, <2>2, <2>3, <2>5 DEF IsPrefix
<1>2. Rootfs(t) \in Seq(T) /\ Below(t) \in Seq(T)
      /\ Sibling(t) \in Seq(T) /\ Rootfs(s) \in Seq(T)
      /\ Below(s) \in Seq(T)
  BY DEF Rootfs, Below, Sibling
<1> HIDE DEF T
<1>3. /\ Len(Rootfs(t)) = 2 /\ Len(Sibling(t)) = 2 /\ Len(Below(t)) = 3
      /\ Len(Rootfs(s)) = 2 /\ Len(Below(s)) = 3
  BY PointFacts
<1>4. \A p \in {Rootfs(s), Rootfs(t), Below(s), Below(t), Sibling(t)} :
        IsPrefix(Rootfs(s), p) <=> p[1] = s /\ p[2] = "rootfs"
  BY <1>1, <1>2, <1>3
<1> HIDE DEF T
<1>5. /\ Rootfs(t)[1] = t /\ Below(t)[1] = t /\ Sibling(t)[2] = "rootfs2"
      /\ Rootfs(s)[1] = s /\ Below(s)[1] = s /\ Rootfs(s)[2] = "rootfs" /\ Below(s)[2] = "rootfs"
  BY DEF Rootfs, Below, Sibling
<1> QED
  BY <1>4, <1>5

(* The devices.                                                            *)
Loops == [file: Shims \cup {NoShim}, auto: BOOLEAN, ro: BOOLEAN, open: SUBSET (Shims \cup {Udev})]

(* A device of which one field is set is a device.                         *)
LEMMA FieldFacts ==
  ASSUME NEW ls \in [LoopDevs -> Loops], NEW d, NEW o \in SUBSET (Shims \cup {Udev})
  PROVE  /\ [ls EXCEPT ![d].open = o] \in [LoopDevs -> Loops]
         /\ [ls EXCEPT ![d].auto = TRUE] \in [LoopDevs -> Loops]
<1>1. \A r \in Loops : [r EXCEPT !.open = o] \in Loops /\ [r EXCEPT !.auto = TRUE] \in Loops
  BY DEF Loops
<1>2. \A e \in LoopDevs : ls[e] \in Loops
  OBVIOUS
<1> HIDE DEF Loops
<1> QED
  BY <1>1, <1>2

(* What has settled: a device that clears itself is in use or cleared.     *)
LEMMA SettleFacts ==
  ASSUME NEW ls \in [LoopDevs -> Loops], NEW ms
  PROVE  /\ Settle(ls, ms) \in [LoopDevs -> Loops]
         /\ \A d \in LoopDevs :
              \/ Settle(ls, ms)[d] = ls[d] /\ (ls[d].auto => InUse(d, ls[d].open, ms))
              \/ Settle(ls, ms)[d] = LoopInfo /\ ls[d].auto /\ ls[d].open = {}
  BY DEF Settle, LoopInfo, Loops, InUse

(* A shim that is killed closes what it had open, and only that.           *)
LEMMA ClosedFacts ==
  ASSUME Types, NEW s \in Shims
  PROVE  /\ Closed(s) \in [LoopDevs -> Loops]
         /\ \A d \in LoopDevs :
              /\ Closed(s)[d].file = loop[d].file /\ Closed(s)[d].auto = loop[d].auto
              /\ Closed(s)[d].open = loop[d].open \ {s}
<1>1. loop \in [LoopDevs -> Loops]
  BY DEF Types, TypeOK, Loops
<1>2. ASSUME NEW d \in LoopDevs
      PROVE  /\ Closed(s)[d] \in Loops
             /\ Closed(s)[d].file = loop[d].file /\ Closed(s)[d].auto = loop[d].auto
             /\ Closed(s)[d].open = loop[d].open \ {s}
  <2>1. loop[d] \in Loops
    BY <1>1
  <2>2. Closed(s)[d] = [loop[d] EXCEPT !.open = @ \ {s}]
    BY DEF Closed
  <2> QED
    BY <2>1, <2>2 DEF Loops
<1> QED
  BY <1>2 DEF Closed

(* The mounts of an unmount's list are those of its rootfs.                *)
LEMMA GetMounts ==
  ASSUME Types, NEW s \in Shims
  PROVE  /\ get_mounts(s) \in SUBSET [line: Nat, at: Points]
         /\ \A e \in get_mounts(s) : e.at \in {Rootfs(s), Below(s)}
         /\ MountedAt(Rootfs(s)) # {} => \E e \in get_mounts(s) : e.at = Rootfs(s)
<1>1. /\ DOMAIN mounts = 1..Len(mounts) /\ Len(mounts) \in Nat
      /\ \A i \in DOMAIN mounts : mounts[i].at \in Points
  BY AppendFacts DEF Types, Table
<1>2. ASSUME NEW i \in DOMAIN mounts, prefix_filter(s, mounts[i].at)
      PROVE  mounts[i].at \in {Rootfs(s), Below(s)}
  BY <1>1, <1>2, PrefixFacts DEF prefix_filter, Points
<1>3. ASSUME NEW i \in MountedAt(Rootfs(s))
      PROVE  [line |-> i, at |-> mounts[i].at] \in get_mounts(s)
  BY <1>3, PrefixFacts DEF get_mounts, prefix_filter, MountedAt
<1>4. \A e \in get_mounts(s) : \E i \in DOMAIN mounts :
        prefix_filter(s, mounts[i].at) /\ e = [line |-> i, at |-> mounts[i].at]
  BY DEF get_mounts
<1>5. \A e \in get_mounts(s) : e.at \in {Rootfs(s), Below(s)} /\ e \in [line: Nat, at: Points]
  BY <1>1, <1>2, <1>4
<1> QED
  BY <1>3, <1>5 DEF MountedAt

(* The first of a list of mounts is there.                                 *)
LEMMA LongestFacts ==
  ASSUME NEW s \in Shims, NEW l, l # {}, \A e \in l : e.at \in {Rootfs(s), Below(s)}
  PROVE  Longest(l) \in l
<1>1. \E e \in l : \A f \in l : Len(f.at) <= Len(e.at)
  <2>1. Len(Rootfs(s)) = 2 /\ Len(Below(s)) = 3
    BY PointFacts
  <2>2. CASE \E e \in l : e.at = Below(s)
    <3>1. PICK e \in l : e.at = Below(s)
      BY <2>2
    <3>2. ASSUME NEW f \in l PROVE Len(f.at) <= Len(e.at)
      <4>1. f.at = Rootfs(s) \/ f.at = Below(s)
        OBVIOUS
      <4>2. Len(f.at) \in {2, 3} /\ Len(e.at) = 3
        BY <2>1, <3>1, <4>1, Zenon
      <4>3. \A n \in {2, 3} : n <= 3
        OBVIOUS
      <4> QED
        BY <4>2, <4>3, Zenon
    <3> QED
      BY <3>1, <3>2
  <2>3. CASE \A e \in l : e.at = Rootfs(s)
    BY <2>1, <2>3
  <2> QED
    BY <2>2, <2>3
<1> QED
  BY <1>1 DEF Longest

(* The table after a mount is added, taken away or changed.                *)
LEMMA TableFacts ==
  ASSUME Table(mounts)
  PROVE  /\ \A m : m.at \in Points => Table(Append(mounts, m))
         /\ \A k \in DOMAIN mounts : Table(RemoveAt(mounts, k))
         /\ \A k : Table([mounts EXCEPT ![k].ro = TRUE])
<1>1. ASSUME NEW m, m.at \in Points PROVE Table(Append(mounts, m))
  BY <1>1, AppendFacts DEF Table
<1>2. ASSUME NEW k \in DOMAIN mounts PROVE Table(RemoveAt(mounts, k))
  <2>1. /\ Listing(RemoveAt(mounts, k))
        /\ DOMAIN mounts = 1..Len(mounts) /\ Len(mounts) \in Nat
        /\ DOMAIN RemoveAt(mounts, k) = 1..Len(mounts) - 1
        /\ \A i \in 1..Len(mounts) - 1 :
             RemoveAt(mounts, k)[i] = IF i < k THEN mounts[i] ELSE mounts[i + 1]
    BY RemoveFacts DEF Table
  <2>2. \A i \in 1..Len(mounts) - 1 : i \in DOMAIN mounts /\ i + 1 \in DOMAIN mounts
    BY <2>1
  <2> QED
    BY <2>1, <2>2 DEF Table
<1>3. ASSUME NEW k PROVE Table([mounts EXCEPT ![k].ro = TRUE])
  BY ChangeFacts DEF Table
<1> QED
  BY <1>1, <1>2, <1>3

(* umount_all finds nothing at a point, finds others below it, or takes    *)
(* the last mount at it away, which has none below.                        *)
Settled == loop' = Settle(loop, mounts')
Skips(s) ==
  \E e \in list[s] :
    /\ MountedAt(e.at) = {} /\ list' = [list EXCEPT ![s] = @ \ {e}]
    /\ UNCHANGED <<pc, mounts, loop>>
Stops(s) ==
  Goes(s, IF pc[s] = "unmount" THEN "ready" ELSE "left") /\ UNCHANGED <<list, mounts, loop>>
Takes(s) ==
  \E p \in {Rootfs(s), Below(s)} : \E k \in MountedAt(p) :
    /\ mounts' = RemoveAt(mounts, k) /\ Settled /\ UNCHANGED <<pc, list>>
    /\ \A i \in MountedAt(p) : i <= k
    /\ p = Rootfs(s) => \A i \in MountedAt(Below(s)) : i <= k
LEMMA UmountFacts ==
  ASSUME Types, ListInv, NEW s \in Shims, umount_all(s)
  PROVE  /\ Skips(s) \/ Stops(s) \/ Takes(s)
         /\ Unmounting(s) /\ UNCHANGED <<todo, thread, cwd, dev, found, bounds, leaked>>
<1> DEFINE e == Longest(list[s])
           top == TopAt(mounts, e.at)
<1>1. e \in list[s] /\ e.at \in {Rootfs(s), Below(s)}
  BY LongestFacts DEF umount_all, ListInv
<1>2. IF MountedAt(e.at) # {}
      THEN top \in MountedAt(e.at) /\ \A i \in MountedAt(e.at) : i <= top
      ELSE top = 0
  BY TopFacts DEF MountedAt, Types, Table
<1>3. MountedAt(e.at) # {} => top # 0
  BY <1>2, AppendFacts DEF MountedAt, Types, Table
<1> HIDE DEF e
<1>4. CASE top = 0
  <2>1. list' = [list EXCEPT ![s] = @ \ {e}] /\ UNCHANGED <<pc, mounts, loop>>
    BY <1>4 DEF umount_all, e
  <2> QED
    BY <1>1, <1>3, <1>4, <2>1 DEF Skips, umount_all
<1>5. CASE top # 0 /\ Busy(e.at)
  <2>1. Stops(s)
    BY <1>5 DEF umount_all, Stops, e
  <2> QED
    BY <2>1 DEF umount_all
<1>6. CASE top # 0 /\ ~ Busy(e.at)
  <2>1. mounts' = RemoveAt(mounts, top) /\ Settled /\ UNCHANGED <<pc, list>>
    BY <1>6 DEF umount_all, Settled, e
  <2>2. ASSUME e.at = Rootfs(s), NEW i \in MountedAt(Below(s)) PROVE i <= top
    <3>1. i \in DOMAIN mounts /\ mounts[i].at = Below(s) /\ ~ i > top
      BY <1>6, <2>2, PointFacts, PrefixFacts DEF Busy, MountedAt
    <3>2. i \in Nat /\ top \in Nat
      BY <1>2, <1>6, AppendFacts DEF MountedAt, Types, Table
    <3> QED
      BY <3>1, <3>2
  <2>3. top \in MountedAt(e.at) /\ \A i \in MountedAt(e.at) : i <= top
    BY <1>2, <1>6
  <2>4. Takes(s)
    BY <1>1, <2>1, <2>2, <2>3 DEF Takes
  <2> QED
    BY <2>4 DEF umount_all
<1> QED
  BY <1>4, <1>5, <1>6

(* The request in work.                                                    *)
LEMMA WorkFacts ==
  ASSUME TodoInv, NEW s \in Shims, pc[s] \in Working
  PROVE  /\ todo[s][1] \in Requests /\ Tail(todo[s]) \in Seq(Requests)
         /\ Work(s) = Plan(todo[s][1])
<1>1. todo[s] \in Seq(Requests) /\ todo[s] # <<>>
  BY DEF TodoInv
<1>2. Head(todo[s]) \in Requests /\ Tail(todo[s]) \in Seq(Requests) /\ Head(todo[s]) = todo[s][1]
  BY <1>1, HeadTailProperties
<1> QED
  BY <1>2 DEF Work, PlanOf

(* Every step keeps the types.                                             *)
LEMMA TypesStep ==
  ASSUME ConstantsAssumption, Types, TodoInv, BindingInv, ListInv, [Next]_vars
  PROVE  Types'
<1> USE DEF bounds
<1>0. loop \in [LoopDevs -> Loops]
  BY DEF Types, TypeOK, Loops
<1>1. CASE UNCHANGED vars
  BY <1>1 DEF vars, Types, TypeOK
<1>2. ASSUME NEW d \in LoopDevs, Looks(d) PROVE Types'
  BY <1>2, SMTT(30) DEF Looks, Types, TypeOK
<1>3. ASSUME NEW d \in LoopDevs, LooksAway(d) PROVE Types'
  <2>1. [loop EXCEPT ![d].open = @ \ {Udev}] \in [LoopDevs -> Loops]
    <3>1. loop[d].open \ {Udev} \in SUBSET (Shims \cup {Udev})
      BY <1>0 DEF Loops
    <3> QED
      BY <1>0, <3>1, FieldFacts
  <2>2. loop' \in [LoopDevs -> Loops]
    BY <1>3, <2>1, SettleFacts DEF LooksAway
  <2> QED
    BY <1>3, <2>2 DEF LooksAway, Types, TypeOK, Loops
<1> USE DEF Pcs
<1>4. ASSUME NEW s \in Shims, NEW to \in Pcs, Goes(s, to) PROVE pc' \in [Shims -> Pcs]
  BY <1>4 DEF Goes, Types, TypeOK
<1>5. ASSUME NEW s \in Shims, MountStep(s) PROVE Types'
  <2>1. CASE Begin(s)
    <3>1. pc' \in [Shims -> Pcs]
      BY <1>4, <2>1 DEF Begin, First, MountPcs
    <3>2. thread' \in [Shims -> Threads]
      BY <2>1 DEF Begin, Types, TypeOK
    <3> QED
      BY <2>1, <3>1, <3>2 DEF Begin, Types, TypeOK
  <2>2. CASE Ready(s)
    BY <1>4, <2>2 DEF Ready, Types, TypeOK
  <2>3. CASE Chdir(s)
    <3>1. pc' \in [Shims -> Pcs]
      BY <1>4, <2>3 DEF Chdir, First, MountPcs
    <3>2. cwd' \in [Shims -> [Threads -> {Bundle} \cup {PlanOf[r].chdir : r \in Requests}]]
      <4>1. todo[s][1] \in Requests
        BY <2>3, WorkFacts DEF Chdir, Working, MountPcs
      <4>2. Work(s).chdir \in {PlanOf[r].chdir : r \in Requests}
        BY <4>1 DEF Work
      <4> QED
        BY <2>3, <4>2 DEF Chdir, Types, TypeOK
    <3> QED
      BY <2>3, <3>1, <3>2 DEF Chdir, Types, TypeOK
  <2>4. CASE ChdirFails(s) \/ MountFails(s) \/ RemountFails(s)
    BY <1>4, <2>4 DEF ChdirFails, MountFails, RemountFails, Types, TypeOK
  <2>5. CASE Mount(s)
    <3>1. pc' \in [Shims -> Pcs]
      BY <1>4, <2>5 DEF Mount, Done, MountPcs
    <3>2. PICK m : m.at = Rootfs(s) /\ mounts' = Append(mounts, m)
      BY <2>5 DEF Mount, Mounted
    <3>3. Table(mounts')
      BY <3>2, TableFacts DEF Types, Points
    <3> QED
      BY <2>5, <3>1, <3>3 DEF Mount, Types, TypeOK
  <2>6. CASE Remount(s)
    <3>1. pc' \in [Shims -> Pcs]
      BY <1>4, <2>6 DEF Remount, Done, MountPcs
    <3>2. Table(mounts')
      BY <2>6, TableFacts DEF Remount, Types
    <3> QED
      BY <2>6, <3>1, <3>2 DEF Remount, Types, TypeOK
  <2> QED
    BY <1>5, <2>1, <2>2, <2>3, <2>4, <2>5, <2>6 DEF MountStep
<1>6. ASSUME NEW s \in Shims, LoopStep(s) PROVE Types'
  <2>1. CASE get_free_loop_dev(s)
    <3>1. pc' \in [Shims -> Pcs]
      BY <1>4, <2>1 DEF get_free_loop_dev, MountPcs
    <3> QED
      BY <2>1, <3>1, ZenonT(30) DEF get_free_loop_dev, Types, TypeOK
  <2>2. CASE SetFd(s)
    <3>1. pc' \in [Shims -> Pcs]
      BY <1>4, <2>2 DEF SetFd, MountPcs
    <3>2. loop' \in [LoopDevs -> Loops]
      <4> DEFINE r == [file |-> s, auto |-> FALSE, ro |-> LoopParams(s).readonly,
                       open |-> loop[dev[s]].open \cup {s}]
      <4>1. dev[s] \in LoopDevs
        BY <2>2 DEF SetFd, BindingInv
      <4>2. r \in Loops
        BY <1>0, <4>1 DEF LoopParams, Loops
      <4>3. loop' = [loop EXCEPT ![dev[s]] = r]
        BY <2>2 DEF SetFd
      <4> QED
        BY <1>0, <4>2, <4>3
    <3> QED
      BY <2>2, <3>1, <3>2 DEF SetFd, Types, TypeOK, Loops
  <2>3. CASE SetFdBusy(s)
    BY <1>4, <2>3 DEF SetFdBusy, Types, TypeOK
  <2>4. CASE SetStatus(s)
    <3>1. pc' \in [Shims -> Pcs]
      BY <1>4, <2>4 DEF SetStatus, MountPcs
    <3>2. loop' \in [LoopDevs -> Loops]
      BY <1>0, <2>4, ZenonT(30) DEF SetStatus, LoopParams, Loops
    <3> QED
      BY <2>4, <3>1, <3>2 DEF SetStatus, Types, TypeOK, Loops
  <2>5. CASE SetStatusFails(s)
    <3>1. pc' \in [Shims -> Pcs]
      BY <1>4, <2>5 DEF SetStatusFails
    <3>2. [Closed(s) EXCEPT ![dev[s]].auto = TRUE] \in [LoopDevs -> Loops]
      BY ClosedFacts, FieldFacts
    <3>3. loop' \in [LoopDevs -> Loops]
      BY <2>5, <3>2, SettleFacts DEF SetStatusFails
    <3> QED
      BY <2>5, <3>1, <3>3 DEF SetStatusFails, Types, TypeOK, Loops
  <2>6. CASE setup_loop(s)
    <3>1. pc' \in [Shims -> Pcs]
      BY <1>4, <2>6 DEF setup_loop, MountPcs
    <3>2. loop' \in [LoopDevs -> Loops]
      BY <2>6, ClosedFacts, SettleFacts DEF setup_loop
    <3> QED
      BY <2>6, <3>1, <3>2 DEF setup_loop, Types, TypeOK, Loops
  <2> QED
    BY <1>6, <2>1, <2>2, <2>3, <2>4, <2>5, <2>6 DEF LoopStep
<1>7. ASSUME NEW s \in Shims, umount_all(s) PROVE Types'
  <2>1. CASE Skips(s)
    BY <1>7, <2>1, UmountFacts DEF Skips, Types, TypeOK
  <2>2. CASE Stops(s)
    BY <1>4, <1>7, <2>2, UmountFacts DEF Stops, Types, TypeOK
  <2>3. CASE Takes(s)
    <3>1. Table(mounts')
      BY <2>3, TableFacts DEF Takes, MountedAt, Types
    <3>2. loop' \in [LoopDevs -> Loops]
      BY <1>0, <2>3, SettleFacts DEF Takes, Settled
    <3> QED
      BY <1>7, <2>3, <3>1, <3>2, UmountFacts DEF Takes, Types, TypeOK, Loops
  <2> QED
    BY <1>7, <2>1, <2>2, <2>3, UmountFacts
<1>8. ASSUME NEW s \in Shims, Unmounted(s) \/ umount_recursive(s) \/ ReadAddress(s) PROVE Types'
  <2>1. pc' \in [Shims -> Pcs]
    BY <1>4, <1>8 DEF Unmounted, umount_recursive, ReadAddress
  <2>2. list' \in [Shims -> SUBSET [line: Nat, at: Points]]
    BY <1>8, GetMounts DEF Unmounted, umount_recursive, ReadAddress, Types
  <2> QED
    BY <1>8, <2>1, <2>2 DEF Unmounted, umount_recursive, ReadAddress, Types, TypeOK
<1>9. ASSUME NEW s \in Shims, ExtraMount(s) PROVE Types'
  <2>1. PICK m : m.at = Below(s) /\ mounts' = Append(mounts, m)
    BY <1>9 DEF ExtraMount, Mounted
  <2>2. Table(mounts')
    BY <2>1, TableFacts DEF Types, Points
  <2>3. extra' \in 0..MaxExtra
    BY <1>9 DEF ExtraMount, Types, TypeOK, ConstantsAssumption
  <2> QED
    BY <1>9, <2>2, <2>3 DEF ExtraMount, Types, TypeOK
<1>10. ASSUME NEW s \in Shims, Killed(s) PROVE Types'
  <2>1. pc' \in [Shims -> Pcs]
    BY <1>4, <1>10 DEF Killed
  <2>2. loop' \in [LoopDevs -> Loops]
    BY <1>10, ClosedFacts, SettleFacts DEF Killed
  <2>3. leaked' \subseteq LoopDevs
    BY <1>10 DEF Killed, Types, TypeOK, BindingInv
  <2>4. kills' \in 0..MaxKills
    BY <1>10 DEF Killed, Types, TypeOK, ConstantsAssumption
  <2> QED
    BY <1>10, <2>1, <2>2, <2>3, <2>4 DEF Killed, Types, TypeOK, Loops
<1> QED
  BY <1>1, <1>2, <1>3, <1>5, <1>6, <1>7, <1>8, <1>9, <1>10 DEF Next, UnmountStep

(* The devices of a step that gives none to a shim: who has one open had   *)
(* it open, and who is to set one up to clear itself still has it.         *)
SettingUp == {"setfd", "status", "close"}
BindsNone ==
  /\ dev' = dev
  /\ \A t \in Shims : pc'[t] \in SettingUp => pc[t] \in SettingUp
  /\ \A t \in Shims : pc'[t] = "status" => pc[t] = "status"
  /\ \A d \in LoopDevs : \A t \in Shims :
       /\ t \in loop'[d].open => t \in loop[d].open /\ pc'[t] \in {"status", "close"}
       /\ pc'[t] = "status" /\ t \in loop[d].open =>
            t \in loop'[d].open /\ loop'[d].file = loop[d].file
(* Then a device is still bound to the shim that sets it up.               *)
LEMMA BindingKept ==
  ASSUME BindingInv, BindsNone
  PROVE  BindingInv'
  BY DEF BindingInv, BindsNone, SettingUp

(* Devices settle after some files were closed, of others or of one shim.  *)
ClosedBy(ls, t) ==
  /\ ls \in [LoopDevs -> Loops]
  /\ \A d \in LoopDevs : /\ ls[d].file = loop[d].file
                         /\ ls[d].open \cap Shims = (loop[d].open \cap Shims) \ {t}
(* Then a device is still bound to the shim that sets it up.               *)
LEMMA BindingSettled ==
  ASSUME BindingInv, NEW ls, NEW t, ClosedBy(ls, t), loop' = Settle(ls, mounts'), dev' = dev,
         \A u \in Shims : u # t => pc'[u] = pc[u],
         t \in Shims => pc'[t] \notin SettingUp
  PROVE  BindingInv'
<1>1. ASSUME NEW d \in LoopDevs
      PROVE  \/ loop'[d] = ls[d]
             \/ loop'[d].open = {} /\ ls[d].open = {}
  BY SettleFacts DEF ClosedBy, LoopInfo
<1>2. ASSUME NEW d \in LoopDevs, NEW u \in Shims, u \in loop'[d].open
      PROVE  u \in loop[d].open /\ u # t
  BY <1>1, <1>2 DEF ClosedBy
<1>3. ASSUME NEW d \in LoopDevs, NEW u \in Shims, u # t, u \in loop[d].open
      PROVE  u \in loop'[d].open /\ loop'[d].file = loop[d].file
  BY <1>1, <1>3 DEF ClosedBy
<1>4. \A u \in Shims : pc'[u] \in SettingUp => u # t /\ pc[u] = pc'[u]
  OBVIOUS
<1> QED
  BY <1>2, <1>3, <1>4 DEF BindingInv, SettingUp

(* Where a shim goes that has nothing to do with devices.                  *)
Elsewhere(s) ==
  /\ pc[s] \notin {"status", "close"} /\ pc'[s] \notin SettingUp
  /\ \A t \in Shims : t # s => pc'[t] = pc[t]
  /\ UNCHANGED <<dev, loop, leaked>>
  /\ \A i \in DOMAIN mounts : \E j \in DOMAIN mounts' : mounts'[j].dev = mounts[i].dev
(* Such steps are all but those of the devices.                            *)
LEMMA ElsewhereFacts ==
  ASSUME Types, ListInv, NEW s \in Shims,
         MountStep(s) \/ SetFdBusy(s) \/ Unmounted(s) \/ umount_recursive(s) \/ ReadAddress(s)
           \/ ExtraMount(s) \/ (umount_all(s) /\ ~ Takes(s))
  PROVE  Elsewhere(s)
<1> USE DEF MountPcs, SettingUp
<1>0. ASSUME NEW to, Goes(s, to) PROVE pc'[s] = to /\ \A t \in Shims : t # s => pc'[t] = pc[t]
  BY <1>0 DEF Goes, Types, TypeOK
<1>1. ASSUME MountStep(s), ~ Mount(s), ~ Remount(s) PROVE Elsewhere(s)
  <2>1. /\ pc[s] \in {"next", "chdir", "mount", "remount"}
        /\ pc'[s] \in {"chdir", "free", "mount", "remount", "ready", "dead", "failed"}
        /\ \A t \in Shims : t # s => pc'[t] = pc[t]
        /\ UNCHANGED <<dev, loop, leaked, mounts>>
    BY <1>0, <1>1 DEF MountStep, Begin, Ready, Chdir, ChdirFails, MountFails, RemountFails, First
  <2> QED
    BY <2>1 DEF Elsewhere
<1>2. CASE Mount(s)
  <2>1. /\ pc[s] = "mount" /\ pc'[s] \in {"next", "remount"}
        /\ \A t \in Shims : t # s => pc'[t] = pc[t]
        /\ UNCHANGED <<dev, loop, leaked>> /\ \E m : mounts' = Append(mounts, m)
    BY <1>0, <1>2 DEF Mount, Done
  <2>2. \A i \in DOMAIN mounts : i \in DOMAIN mounts' /\ mounts'[i].dev = mounts[i].dev
    BY <2>1, AppendFacts DEF Types, Table
  <2> QED
    BY <2>1, <2>2 DEF Elsewhere
<1>3. CASE Remount(s)
  <2>1. /\ pc[s] = "remount" /\ pc'[s] = "next"
        /\ \A t \in Shims : t # s => pc'[t] = pc[t]
        /\ UNCHANGED <<dev, loop, leaked>>
        /\ mounts' = mounts \/ \E k : mounts' = [mounts EXCEPT ![k].ro = TRUE]
    BY <1>0, <1>3 DEF Remount, Done
  <2>2. \A i \in DOMAIN mounts : i \in DOMAIN mounts' /\ mounts'[i].dev = mounts[i].dev
    <3>1. CASE mounts' = mounts
      BY <3>1
    <3>2. ASSUME NEW k, mounts' = [mounts EXCEPT ![k].ro = TRUE]
          PROVE  \A i \in DOMAIN mounts : i \in DOMAIN mounts' /\ mounts'[i].dev = mounts[i].dev
      BY <3>2, ChangeFacts DEF Types, Table
    <3> QED
      BY <2>1, <3>1, <3>2
  <2> QED
    BY <2>1, <2>2 DEF Elsewhere
<1>4. CASE SetFdBusy(s) \/ Unmounted(s) \/ umount_recursive(s) \/ ReadAddress(s)
  <2>1. /\ pc[s] \notin {"status", "close"}
        /\ pc'[s] \in {"failed", "deleted", "clean", "unmount", "cleanup", "gone"}
        /\ \A t \in Shims : t # s => pc'[t] = pc[t]
        /\ UNCHANGED <<dev, loop, leaked, mounts>>
    BY <1>0, <1>4 DEF SetFdBusy, Unmounted, umount_recursive, ReadAddress, Unmounting
  <2> QED
    BY <2>1 DEF Elsewhere
<1>5. CASE ExtraMount(s)
  <2>1. /\ pc[s] \in {"ready", "unmount"} /\ pc' = pc
        /\ UNCHANGED <<dev, loop, leaked>> /\ \E m : mounts' = Append(mounts, m)
    BY <1>5 DEF ExtraMount
  <2>2. \A i \in DOMAIN mounts : i \in DOMAIN mounts' /\ mounts'[i].dev = mounts[i].dev
    BY <2>1, AppendFacts DEF Types, Table
  <2> QED
    BY <2>1, <2>2 DEF Elsewhere
<1>6. CASE umount_all(s) /\ ~ Takes(s)
  <2>1. /\ pc[s] \in {"unmount", "cleanup"} /\ pc'[s] \in {"unmount", "cleanup", "ready", "left"}
        /\ \A t \in Shims : t # s => pc'[t] = pc[t]
        /\ UNCHANGED <<dev, loop, leaked, mounts>>
    BY <1>0, <1>6, UmountFacts DEF Skips, Stops, Unmounting
  <2> QED
    BY <2>1 DEF Elsewhere
<1> QED
  BY <1>1, <1>2, <1>3, <1>4, <1>5, <1>6

(* What a step of the devices is, for the shim that takes it.              *)
LEMMA DeviceSteps ==
  ASSUME Types, BindingInv, ListInv, [Next]_vars
  PROVE  \/ UNCHANGED <<pc, dev, loop, mounts, leaked>>
         \/ \E d \in LoopDevs : Looks(d) \/ LooksAway(d)
         \/ \E s \in Shims :
              \/ Elsewhere(s) \/ get_free_loop_dev(s) \/ SetFd(s) \/ SetStatus(s)
              \/ SetStatusFails(s) \/ setup_loop(s) \/ Killed(s)
              \/ umount_all(s) /\ Takes(s)
<1>1. CASE UNCHANGED vars
  BY <1>1 DEF vars
<1>2. ASSUME NEW s \in Shims,
             MountStep(s) \/ SetFdBusy(s) \/ Unmounted(s) \/ umount_recursive(s) \/ ReadAddress(s)
               \/ ExtraMount(s) \/ (umount_all(s) /\ ~ Takes(s))
      PROVE  Elsewhere(s)
  BY <1>2, ElsewhereFacts
<1> QED
  BY <1>1, <1>2 DEF Next, UnmountStep, LoopStep

(* A device goes from one shim to another only when none has it.           *)
LEMMA BindingStep ==
  ASSUME ConstantsAssumption, Types, BindingInv, ListInv, [Next]_vars
  PROVE  BindingInv'
<1> USE DEF SettingUp
<1>0. /\ loop \in [LoopDevs -> Loops] /\ pc \in [Shims -> Pcs]
      /\ NoShim \notin Shims /\ Udev \notin Shims
      /\ dev \in [Shims -> LoopDevs \cup {NoDev}]
  BY DEF Types, TypeOK, Loops, Pcs, ConstantsAssumption
<1>1. CASE UNCHANGED <<pc, dev, loop, mounts, leaked>>
  BY <1>1 DEF BindingInv
<1>2. ASSUME NEW d \in LoopDevs, Looks(d) PROVE BindingInv'
  <2>1. \A e \in LoopDevs : \A t \in Shims :
          (t \in loop'[e].open <=> t \in loop[e].open) /\ loop'[e].file = loop[e].file
    BY <1>0, <1>2 DEF Looks, Loops
  <2>2. BindsNone
    BY <1>2, <2>1 DEF Looks, BindsNone, BindingInv
  <2> QED
    BY <2>2, BindingKept
<1>3. ASSUME NEW d \in LoopDevs, LooksAway(d) PROVE BindingInv'
  <2> DEFINE ls == [loop EXCEPT ![d].open = @ \ {Udev}]
  <2>1. loop[d].open \ {Udev} \in SUBSET (Shims \cup {Udev})
    BY <1>0 DEF Loops
  <2>2. ls \in [LoopDevs -> Loops]
    BY <1>0, <2>1, FieldFacts
  <2>3. ClosedBy(ls, Udev)
    BY <1>0, <2>2 DEF ClosedBy, Loops
  <2>4. loop' = Settle(ls, mounts')
    BY <1>3 DEF LooksAway
  <2> HIDE DEF ls
  <2> QED
    BY <1>0, <1>3, <2>3, <2>4, BindingSettled DEF LooksAway
<1>4. ASSUME NEW s \in Shims, Elsewhere(s) PROVE BindingInv'
  <2>1. BindsNone
    BY <1>4 DEF Elsewhere, BindsNone, BindingInv
  <2> QED
    BY <2>1, BindingKept
<1>5. ASSUME NEW s \in Shims, NEW to, Goes(s, to)
      PROVE  pc'[s] = to /\ \A t \in Shims : t # s => pc'[t] = pc[t]
  BY <1>0, <1>5 DEF Goes
<1>6. ASSUME NEW s \in Shims, get_free_loop_dev(s) PROVE BindingInv'
  <2>1. /\ pc[s] = "free" /\ pc'[s] = "setfd" /\ \A t \in Shims : t # s => pc'[t] = pc[t]
        /\ dev'[s] \in LoopDevs /\ \A t \in Shims : t # s => dev'[t] = dev[t]
        /\ loop' = loop
    BY <1>0, <1>5, <1>6 DEF get_free_loop_dev
  <2> QED
    BY <2>1 DEF BindingInv
<1>7. ASSUME NEW s \in Shims, SetFd(s) PROVE BindingInv'
  <2> DEFINE e == dev[s]
  <2>1. /\ pc[s] = "setfd" /\ pc'[s] = "status" /\ \A t \in Shims : t # s => pc'[t] = pc[t]
        /\ dev' = dev /\ e \in LoopDevs /\ loop[e].file = NoShim
    BY <1>5, <1>7 DEF SetFd, BindingInv
  <2>2. /\ loop'[e].file = s /\ loop'[e].open = loop[e].open \cup {s}
        /\ \A d \in LoopDevs : d # e => loop'[d] = loop[d]
    BY <1>0, <1>7, <2>1 DEF SetFd
  <2>3. \A t \in Shims : t # s /\ pc[t] = "status" => dev[t] # e
    BY <1>0, <2>1 DEF BindingInv
  <2> HIDE DEF e
  <2>4. \A d \in LoopDevs : \A t \in Shims :
          t \in loop'[d].open => (t \in loop[d].open /\ t # s) \/ (t = s /\ d = e)
    BY <2>1, <2>2 DEF BindingInv
  <2>5. \A t \in Shims : pc'[t] = "status" => t \in loop'[dev[t]].open /\ loop'[dev[t]].file = t
    <3>1. ASSUME NEW t \in Shims, t # s, pc'[t] = "status"
          PROVE  t \in loop'[dev[t]].open /\ loop'[dev[t]].file = t
      BY <2>1, <2>2, <2>3, <3>1 DEF BindingInv
    <3> QED
      BY <2>2, <3>1 DEF e
  <2> QED
    BY <2>1, <2>4, <2>5 DEF BindingInv, e
<1>8. ASSUME NEW s \in Shims, SetStatus(s) PROVE BindingInv'
  <2>1. \A d \in LoopDevs : loop'[d].open = loop[d].open /\ loop'[d].file = loop[d].file
    BY <1>0, <1>8 DEF SetStatus, Loops
  <2>2. pc[s] = "status" /\ pc'[s] = "close" /\ \A t \in Shims : t # s => pc'[t] = pc[t]
    BY <1>5, <1>8 DEF SetStatus
  <2>3. BindsNone
    BY <1>8, <2>1, <2>2 DEF SetStatus, BindsNone, BindingInv
  <2> QED
    BY <2>3, BindingKept
<1>9. ASSUME NEW s \in Shims, SetStatusFails(s) PROVE BindingInv'
  <2> DEFINE ls == [Closed(s) EXCEPT ![dev[s]].auto = TRUE]
  <2>1. ls \in [LoopDevs -> Loops]
    BY ClosedFacts, FieldFacts
  <2>2. ClosedBy(ls, s)
    BY <2>1, ClosedFacts DEF ClosedBy
  <2>3. loop' = Settle(ls, mounts')
    BY <1>9 DEF SetStatusFails
  <2>4. dev' = dev /\ pc'[s] = "failed" /\ \A t \in Shims : t # s => pc'[t] = pc[t]
    BY <1>5, <1>9 DEF SetStatusFails
  <2> HIDE DEF ls
  <2> QED
    BY <2>2, <2>3, <2>4, BindingSettled
<1>10. ASSUME NEW s \in Shims, setup_loop(s) \/ Killed(s) PROVE BindingInv'
  <2>1. ClosedBy(Closed(s), s)
    BY ClosedFacts DEF ClosedBy
  <2>2. loop' = Settle(Closed(s), mounts')
    BY <1>10 DEF setup_loop, Killed
  <2>3. dev' = dev /\ pc'[s] \in {"mount", "dead"} /\ \A t \in Shims : t # s => pc'[t] = pc[t]
    BY <1>5, <1>10 DEF setup_loop, Killed
  <2> QED
    BY <2>1, <2>2, <2>3, BindingSettled
<1>11. ASSUME NEW s \in Shims, umount_all(s), Takes(s) PROVE BindingInv'
  <2>1. ClosedBy(loop, NoShim)
    BY <1>0 DEF ClosedBy
  <2>2. loop' = Settle(loop, mounts') /\ dev' = dev /\ pc' = pc
    BY <1>11, UmountFacts DEF Takes, Settled
  <2> QED
    BY <1>0, <2>1, <2>2, BindingSettled
<1> QED
  BY <1>1, <1>2, <1>3, <1>4, <1>6, <1>7, <1>8, <1>9, <1>10, <1>11, DeviceSteps

(* Devices settle: what clears itself is in use; of what does not, who was *)
(* to set it up still is, or was killed and has leaked it.                 *)
LEMMA FreedSettled ==
  ASSUME FreedInv, NEW ls \in [LoopDevs -> Loops], loop' = Settle(ls, mounts'),
         \A d \in LoopDevs : ls[d].file = loop[d].file /\ (loop[d].auto => ls[d].auto),
         leaked \subseteq leaked',
         \A d \in LoopDevs : \A t \in Shims : pc[t] = "status" /\ dev[t] = d =>
           (pc'[t] = "status" /\ dev'[t] = d) \/ d \in leaked' \/ ls[d].auto
  PROVE  FreedInv'
<1> SUFFICES ASSUME NEW d \in LoopDevs, loop'[d].file # NoShim
             PROVE  IF loop'[d].auto THEN InUse(d, loop'[d].open, mounts')
                    ELSE d \in leaked' \/ \E s \in Shims : pc'[s] = "status" /\ dev'[s] = d
  BY DEF FreedInv
<1>1. loop'[d] = ls[d] /\ (ls[d].auto => InUse(d, ls[d].open, mounts'))
  BY SettleFacts DEF LoopInfo
<1>2. CASE ls[d].auto
  BY <1>1, <1>2
<1>3. CASE ~ ls[d].auto
  BY <1>1, <1>3 DEF FreedInv
<1> QED
  BY <1>2, <1>3

(* No step leaves a device behind that nothing frees.                      *)
LEMMA FreedStep ==
  ASSUME ConstantsAssumption, Types, BindingInv, ListInv, FreedInv, [Next]_vars
  PROVE  FreedInv'
<1>0. /\ loop \in [LoopDevs -> Loops] /\ pc \in [Shims -> Pcs] /\ NoShim \notin Shims
      /\ dev \in [Shims -> LoopDevs \cup {NoDev}]
  BY DEF Types, TypeOK, Loops, Pcs, ConstantsAssumption
<1>1. CASE UNCHANGED <<pc, dev, loop, mounts, leaked>>
  BY <1>1 DEF FreedInv, InUse
<1>2. ASSUME NEW d \in LoopDevs, Looks(d) PROVE FreedInv'
  <2>1. \A e \in LoopDevs : loop'[e].file = loop[e].file /\ loop'[e].auto = loop[e].auto
                            /\ loop[e].open \subseteq loop'[e].open
    BY <1>0, <1>2 DEF Looks, Loops
  <2>2. UNCHANGED <<pc, dev, mounts, leaked>>
    BY <1>2 DEF Looks
  <2> QED
    BY <2>1, <2>2 DEF FreedInv, InUse
<1>3. ASSUME NEW d \in LoopDevs, LooksAway(d) PROVE FreedInv'
  <2> DEFINE ls == [loop EXCEPT ![d].open = @ \ {Udev}]
  <2>1. loop[d].open \ {Udev} \in SUBSET (Shims \cup {Udev})
    BY <1>0 DEF Loops
  <2>2. ls \in [LoopDevs -> Loops]
    BY <1>0, <2>1, FieldFacts
  <2>3. \A e \in LoopDevs : ls[e].file = loop[e].file /\ ls[e].auto = loop[e].auto
    BY <1>0 DEF Loops
  <2>4. loop' = Settle(ls, mounts') /\ UNCHANGED <<pc, dev, mounts, leaked>>
    BY <1>3 DEF LooksAway
  <2> HIDE DEF ls
  <2> QED
    BY <2>2, <2>3, <2>4, FreedSettled
<1>4. ASSUME NEW s \in Shims, Elsewhere(s) PROVE FreedInv'
  <2>1. \A t \in Shims : pc[t] = "status" => pc'[t] = "status"
    BY <1>4 DEF Elsewhere
  <2>2. \A d : InUse(d, loop[d].open, mounts) => InUse(d, loop'[d].open, mounts')
    BY <1>4 DEF Elsewhere, InUse
  <2>3. UNCHANGED <<dev, loop, leaked>>
    BY <1>4 DEF Elsewhere
  <2> QED
    BY <2>1, <2>2, <2>3 DEF FreedInv
<1>5. ASSUME NEW s \in Shims, NEW to, Goes(s, to)
      PROVE  pc'[s] = to /\ \A t \in Shims : t # s => pc'[t] = pc[t]
  BY <1>0, <1>5 DEF Goes
<1>6. ASSUME NEW s \in Shims, get_free_loop_dev(s) PROVE FreedInv'
  <2>1. /\ pc[s] = "free" /\ pc'[s] = "setfd"
        /\ \A t \in Shims : t # s => pc'[t] = pc[t] /\ dev'[t] = dev[t]
        /\ UNCHANGED <<loop, mounts, leaked>>
    BY <1>0, <1>5, <1>6 DEF get_free_loop_dev
  <2>2. \A t \in Shims : pc[t] = "status" => t # s
    BY <2>1
  <2> QED
    BY <2>1, <2>2 DEF FreedInv, InUse
<1>7. ASSUME NEW s \in Shims, SetFd(s) PROVE FreedInv'
  <2>1. /\ pc[s] = "setfd" /\ pc'[s] = "status" /\ \A t \in Shims : t # s => pc'[t] = pc[t]
        /\ UNCHANGED <<dev, mounts, leaked>> /\ dev[s] \in LoopDevs
    BY <1>5, <1>7 DEF SetFd, BindingInv
  <2>2. ~ loop'[dev[s]].auto /\ \A d \in LoopDevs : d # dev[s] => loop'[d] = loop[d]
    BY <1>0, <1>7, <2>1 DEF SetFd
  <2>3. ASSUME NEW d \in LoopDevs, d # dev[s], loop'[d].file # NoShim
        PROVE  IF loop'[d].auto THEN InUse(d, loop'[d].open, mounts')
               ELSE d \in leaked' \/ \E t \in Shims : pc'[t] = "status" /\ dev'[t] = d
    BY <2>1, <2>2, <2>3 DEF FreedInv
  <2> QED
    BY <2>1, <2>2, <2>3 DEF FreedInv
<1>8. ASSUME NEW s \in Shims, SetStatus(s) PROVE FreedInv'
  <2>1. /\ pc[s] = "status" /\ \A t \in Shims : t # s => pc'[t] = pc[t]
        /\ UNCHANGED <<dev, mounts, leaked>>
        /\ dev[s] \in LoopDevs /\ s \in loop[dev[s]].open
    BY <1>5, <1>8 DEF SetStatus, BindingInv
  <2>2. /\ loop'[dev[s]].auto /\ loop'[dev[s]].open = loop[dev[s]].open
        /\ \A d \in LoopDevs : d # dev[s] => loop'[d] = loop[d]
    BY <1>0, <1>8, <2>1 DEF SetStatus, LoopParams, Loops
  <2>3. InUse(dev[s], loop'[dev[s]].open, mounts')
    BY <2>1, <2>2 DEF InUse
  <2>4. ASSUME NEW d \in LoopDevs, d # dev[s], loop'[d].file # NoShim
        PROVE  IF loop'[d].auto THEN InUse(d, loop'[d].open, mounts')
               ELSE d \in leaked' \/ \E t \in Shims : pc'[t] = "status" /\ dev'[t] = d
    <3>1. ~ loop[d].auto =>
            d \in leaked \/ \E t \in Shims : t # s /\ pc[t] = "status" /\ dev[t] = d
      BY <2>2, <2>4 DEF FreedInv
    <3> QED
      BY <2>1, <2>2, <2>4, <3>1 DEF FreedInv
  <2> QED
    BY <2>1, <2>2, <2>3, <2>4 DEF FreedInv
<1>9. ASSUME NEW s \in Shims, SetStatusFails(s) PROVE FreedInv'
  <2> DEFINE ls == [Closed(s) EXCEPT ![dev[s]].auto = TRUE]
  <2>1. ls \in [LoopDevs -> Loops]
    BY ClosedFacts, FieldFacts
  <2>2. \A d \in LoopDevs : ls[d].file = loop[d].file /\ (loop[d].auto => ls[d].auto)
                            /\ (d = dev[s] => ls[d].auto)
    BY ClosedFacts DEF Loops
  <2>3. loop' = Settle(ls, mounts')
    BY <1>9 DEF SetStatusFails
  <2>4. UNCHANGED <<dev, leaked>> /\ \A t \in Shims : t # s => pc'[t] = pc[t]
    BY <1>5, <1>9 DEF SetStatusFails
  <2> HIDE DEF ls
  <2> QED
    BY <2>1, <2>2, <2>3, <2>4, FreedSettled
<1>10. ASSUME NEW s \in Shims, setup_loop(s) \/ Killed(s) PROVE FreedInv'
  <2>1. /\ Closed(s) \in [LoopDevs -> Loops] /\ loop' = Settle(Closed(s), mounts')
        /\ \A d \in LoopDevs : Closed(s)[d].file = loop[d].file /\ Closed(s)[d].auto = loop[d].auto
    BY <1>10, ClosedFacts DEF setup_loop, Killed
  <2>2. /\ dev' = dev /\ leaked \subseteq leaked' /\ \A t \in Shims : t # s => pc'[t] = pc[t]
        /\ pc[s] = "status" => dev[s] \in leaked'
    BY <1>5, <1>10 DEF setup_loop, Killed
  <2> QED
    BY <2>1, <2>2, FreedSettled
<1>11. ASSUME NEW s \in Shims, umount_all(s), Takes(s) PROVE FreedInv'
  <2>1. loop' = Settle(loop, mounts') /\ UNCHANGED <<pc, dev, leaked>>
    BY <1>11, UmountFacts DEF Takes, Settled
  <2> QED
    BY <1>0, <2>1, FreedSettled
<1> QED
  BY <1>1, <1>2, <1>3, <1>4, <1>6, <1>7, <1>8, <1>9, <1>10, <1>11, DeviceSteps

(* A step that leaves every mount at its point, and where its shim goes.   *)
SamePoints == \A p : MountedAt(p)' = MountedAt(p)
GoesOn(s) ==
  \/ pc[s] \in MountPcs /\ pc'[s] \in MountPcs \cup {"ready", "failed", "dead"}
  \/ pc[s] = "ready" /\ pc'[s] = "dead"
  \/ pc[s] = "deleted" /\ pc'[s] = "gone"
  \/ Unmounting(s) /\ list[s] = {} /\ pc'[s] \in {"deleted", "clean"}
  \/ Unmounting(s) /\ pc'[s] \in {"ready", "left"}
Moves(s) == SamePoints /\ list' = list /\ GoesOn(s) /\ \A t \in Shims : t # s => pc'[t] = pc[t]
Adds(s, p) ==
  /\ MountedAt(p)' = MountedAt(p) \cup {Len(mounts) + 1}
  /\ \A q : q # p => MountedAt(q)' = MountedAt(q)
  /\ list' = list
MountsRoot(s) ==
  /\ Adds(s, Rootfs(s)) /\ pc[s] \in MountPcs /\ pc'[s] \in MountPcs
  /\ \A t \in Shims : t # s => pc'[t] = pc[t]
MountsBelow(s) ==
  Adds(s, Below(s)) /\ pc[s] \notin MountPcs /\ pc' = pc /\ MountedAt(Rootfs(s)) # {}
Lists(s) ==
  /\ SamePoints /\ list' = [list EXCEPT ![s] = get_mounts(s)]
  /\ pc[s] \in {"ready", "failed", "dead"} /\ pc'[s] \in {"unmount", "cleanup"}
  /\ \A t \in Shims : t # s => pc'[t] = pc[t]

(* A mount that is made is the last of the table.                          *)
LEMMA AddsFacts ==
  ASSUME Types, NEW s, NEW p, NEW m, m.at = p, mounts' = Append(mounts, m), list' = list
  PROVE  Adds(s, p)
<1>1. /\ DOMAIN mounts = 1..Len(mounts) /\ Len(mounts) \in Nat
      /\ DOMAIN mounts' = 1..Len(mounts) + 1
      /\ \A i \in 1..Len(mounts) : mounts'[i] = mounts[i]
      /\ mounts'[Len(mounts) + 1] = m
  BY AppendFacts DEF Types, Table
<1>2. DOMAIN mounts' = DOMAIN mounts \cup {Len(mounts) + 1} /\ Len(mounts) + 1 \notin DOMAIN mounts
  BY <1>1
<1> QED
  BY <1>1, <1>2 DEF Adds, MountedAt

(* What each step does to the mounts, their lists and the shims.           *)
LEMMA StackSteps ==
  ASSUME Types, ListInv, [Next]_vars
  PROVE  \/ UNCHANGED <<pc, mounts, list>>
         \/ \E s \in Shims : \/ Moves(s) \/ MountsRoot(s) \/ MountsBelow(s) \/ Lists(s)
                             \/ umount_all(s) /\ (Skips(s) \/ Takes(s))
<1> USE DEF MountPcs, bounds
<1>0. mounts' = mounts => SamePoints
  BY DEF SamePoints, MountedAt
<1>1. ASSUME UNCHANGED vars \/ \E d \in LoopDevs : Looks(d) \/ LooksAway(d)
      PROVE  UNCHANGED <<pc, mounts, list>>
  BY <1>1 DEF vars, Looks, LooksAway
<1>2. ASSUME NEW s \in Shims, NEW to, Goes(s, to)
      PROVE  pc'[s] = to /\ \A t \in Shims : t # s => pc'[t] = pc[t]
  BY <1>2 DEF Goes, Types, TypeOK
<1>3. ASSUME NEW s \in Shims, MountStep(s), ~ Mount(s), ~ Remount(s) PROVE Moves(s)
  BY <1>0, <1>2, <1>3
     DEF Moves, GoesOn, MountStep, Begin, Ready, Chdir, ChdirFails, MountFails, RemountFails, First
<1>4. ASSUME NEW s \in Shims, Mount(s) PROVE MountsRoot(s)
  <2>1. PICK m : m.at = Rootfs(s) /\ mounts' = Append(mounts, m)
    BY <1>4 DEF Mount, Mounted
  <2>2. Adds(s, Rootfs(s))
    BY <1>4, <2>1, AddsFacts DEF Mount
  <2> QED
    BY <1>2, <1>4, <2>2 DEF Mount, MountsRoot, Done
<1>5. ASSUME NEW s \in Shims, Remount(s) PROVE Moves(s)
  <2>1. SamePoints
    <3>1. ASSUME NEW k, mounts' = [mounts EXCEPT ![k].ro = TRUE] PROVE SamePoints
      BY <3>1, ChangeFacts DEF Types, Table, SamePoints, MountedAt
    <3> QED
      BY <1>0, <1>5, <3>1 DEF Remount
  <2> QED
    BY <1>2, <1>5, <2>1 DEF Remount, Done, Moves, GoesOn
<1>6. ASSUME NEW s \in Shims, LoopStep(s) \/ Unmounted(s) \/ ReadAddress(s) \/ Killed(s)
      PROVE  Moves(s)
  BY <1>0, <1>2, <1>6
     DEF Moves, GoesOn, LoopStep, get_free_loop_dev, SetFd, SetFdBusy, SetStatus, SetStatusFails,
         setup_loop, Unmounted, ReadAddress, Killed
<1>7. ASSUME NEW s \in Shims, umount_recursive(s) PROVE Lists(s)
  BY <1>0, <1>2, <1>7 DEF umount_recursive, Lists
<1>8. ASSUME NEW s \in Shims, ExtraMount(s) PROVE MountsBelow(s)
  <2>1. PICK m : m.at = Below(s) /\ mounts' = Append(mounts, m)
    BY <1>8 DEF ExtraMount, Mounted
  <2>2. Adds(s, Below(s))
    BY <1>8, <2>1, AddsFacts DEF ExtraMount
  <2>3. MountedAt(Rootfs(s)) # {}
    BY <1>8, TopFacts DEF ExtraMount, MountedAt, Types, Table
  <2> QED
    BY <1>8, <2>2, <2>3 DEF ExtraMount, MountsBelow
<1>9. ASSUME NEW s \in Shims, umount_all(s) PROVE Moves(s) \/ Skips(s) \/ Takes(s)
  <2>1. ASSUME Stops(s) PROVE Moves(s)
    BY <1>0, <1>2, <1>9, <2>1, UmountFacts DEF Stops, Moves, GoesOn, Unmounting
  <2> QED
    BY <1>9, <2>1, UmountFacts
<1> QED
  BY <1>1, <1>3, <1>4, <1>5, <1>6, <1>7, <1>8, <1>9 DEF Next, UnmountStep, MountStep

(* What is left of the mounts at a point when the kth of all is taken.     *)
LEMMA TakesFacts ==
  ASSUME Types, NEW k \in DOMAIN mounts, mounts' = RemoveAt(mounts, k), NEW q
  PROVE  /\ \A i \in MountedAt(q)' :
              \E j \in MountedAt(q) : j # k /\ i = (IF j < k THEN j ELSE j - 1)
         /\ \A j \in MountedAt(q) : j # k => (IF j < k THEN j ELSE j - 1) \in MountedAt(q)'
<1>1. /\ DOMAIN mounts = 1..Len(mounts) /\ Len(mounts) \in Nat
      /\ DOMAIN mounts' = 1..Len(mounts) - 1
      /\ \A i \in 1..Len(mounts) - 1 : mounts'[i] = IF i < k THEN mounts[i] ELSE mounts[i + 1]
  BY RemoveFacts DEF Types, Table
<1>2. ASSUME NEW i \in MountedAt(q)'
      PROVE  \E j \in MountedAt(q) : j # k /\ i = (IF j < k THEN j ELSE j - 1)
  <2>1. i \in 1..Len(mounts) - 1 /\ mounts'[i].at = q
    BY <1>1, <1>2 DEF MountedAt
  <2>2. CASE i < k
    BY <1>1, <2>1, <2>2 DEF MountedAt
  <2>3. CASE ~ i < k
    <3>1. i + 1 \in MountedAt(q) /\ i + 1 # k /\ ~ i + 1 < k /\ i = (i + 1) - 1
      BY <1>1, <2>1, <2>3 DEF MountedAt
    <3> QED
      BY <3>1
  <2> QED
    BY <2>2, <2>3
<1>3. ASSUME NEW j \in MountedAt(q), j # k
      PROVE  (IF j < k THEN j ELSE j - 1) \in MountedAt(q)'
  <2>1. j \in 1..Len(mounts) /\ mounts[j].at = q
    BY <1>1, <1>3 DEF MountedAt
  <2>2. CASE j < k
    <3>1. j \in 1..Len(mounts) - 1 /\ mounts'[j] = mounts[j]
      BY <1>1, <2>1, <2>2
    <3> QED
      BY <1>1, <2>1, <2>2, <3>1 DEF MountedAt
  <2>3. CASE ~ j < k
    <3>1. j - 1 \in 1..Len(mounts) - 1 /\ ~ j - 1 < k /\ (j - 1) + 1 = j
      BY <1>1, <1>3, <2>1, <2>3
    <3>2. mounts'[j - 1] = mounts[j]
      BY <1>1, <3>1
    <3> QED
      BY <1>1, <2>1, <2>3, <3>1, <3>2 DEF MountedAt
  <2> QED
    BY <2>2, <2>3
<1> QED
  BY <1>2, <1>3

(* The place of a mount in the table.                                      *)
LEMMA Indexes ==
  ASSUME Types, NEW q, NEW i \in MountedAt(q)
  PROVE  i \in Nat /\ i \in DOMAIN mounts /\ i < Len(mounts) + 1 /\ Len(mounts) \in Nat
  BY AppendFacts DEF Types, Table, MountedAt

(* What is below a rootfs stays above all that is at it.                   *)
LEMMA StackStep ==
  ASSUME Types, StackInv, ListInv, [Next]_vars
  PROVE  StackInv'
<1> USE DEF MountPcs
<1>1. CASE UNCHANGED <<pc, mounts, list>>
  BY <1>1 DEF StackInv, MountedAt
<1>2. ASSUME NEW s \in Shims, Moves(s) \/ Lists(s) PROVE StackInv'
  <2>1. ASSUME NEW t \in Shims, pc[t] \notin MountPcs PROVE pc'[t] \notin MountPcs
    BY <1>2, <2>1 DEF Moves, GoesOn, Lists
  <2>2. SamePoints
    BY <1>2 DEF Moves, Lists
  <2> QED
    BY <2>1, <2>2 DEF StackInv, SamePoints
<1>3. ASSUME NEW s \in Shims, MountsRoot(s) PROVE StackInv'
  <2>1. \A t \in Shims : MountedAt(Below(t))' = MountedAt(Below(t))
    BY <1>3, PointFacts DEF MountsRoot, Adds
  <2>2. MountedAt(Below(s)) = {}
    BY <1>3 DEF MountsRoot, StackInv
  <2>3. \A t \in Shims : t # s => MountedAt(Rootfs(t))' = MountedAt(Rootfs(t)) /\ pc'[t] = pc[t]
    BY <1>3, PointFacts DEF MountsRoot, Adds
  <2> QED
    BY <2>1, <2>2, <2>3 DEF StackInv
<1>4. ASSUME NEW s \in Shims, MountsBelow(s) PROVE StackInv'
  <2>1. \A t \in Shims : MountedAt(Rootfs(t))' = MountedAt(Rootfs(t))
    BY <1>4, PointFacts DEF MountsBelow, Adds
  <2>2. \A t \in Shims : t # s => MountedAt(Below(t))' = MountedAt(Below(t))
    BY <1>4, PointFacts DEF MountsBelow, Adds
  <2>3. /\ MountedAt(Below(s))' = MountedAt(Below(s)) \cup {Len(mounts) + 1}
        /\ MountedAt(Rootfs(s)) # {} /\ pc[s] \notin MountPcs /\ pc' = pc
    BY <1>4 DEF MountsBelow, Adds
  <2>4. \A r \in MountedAt(Rootfs(s)) : r < Len(mounts) + 1
    BY Indexes
  <2> QED
    BY <2>1, <2>2, <2>3, <2>4 DEF StackInv
<1>5. ASSUME NEW s \in Shims, umount_all(s), Skips(s) PROVE StackInv'
  BY <1>5 DEF Skips, StackInv, MountedAt
<1>6. ASSUME NEW s \in Shims, umount_all(s), Takes(s) PROVE StackInv'
  <2>1. PICK p \in {Rootfs(s), Below(s)} : \E k \in MountedAt(p) :
          /\ mounts' = RemoveAt(mounts, k) /\ UNCHANGED <<pc, list>>
          /\ p = Rootfs(s) => \A i \in MountedAt(Below(s)) : i <= k
    BY <1>6 DEF Takes
  <2>2. PICK k \in MountedAt(p) :
          /\ mounts' = RemoveAt(mounts, k) /\ UNCHANGED <<pc, list>>
          /\ p = Rootfs(s) => \A i \in MountedAt(Below(s)) : i <= k
    BY <2>1
  <2>3. k \in DOMAIN mounts /\ mounts[k].at = p /\ k \in Nat
    BY Indexes DEF MountedAt
  <2> SUFFICES ASSUME NEW t \in Shims, NEW b \in MountedAt(Below(t))'
               PROVE  /\ pc'[t] \notin MountPcs
                      /\ MountedAt(Rootfs(t))' # {} /\ \A r \in MountedAt(Rootfs(t))' : r < b
    BY DEF StackInv
  <2>4. PICK c \in MountedAt(Below(t)) : c # k /\ b = (IF c < k THEN c ELSE c - 1)
    BY <2>2, <2>3, TakesFacts
  <2>5. /\ pc[t] \notin MountPcs /\ MountedAt(Rootfs(t)) # {} /\ c \in Nat
        /\ \A r \in MountedAt(Rootfs(t)) : r < c /\ r \in Nat
    BY Indexes DEF StackInv
  <2>6. ASSUME NEW r \in MountedAt(Rootfs(t))' PROVE r < b
    <3>1. PICK q \in MountedAt(Rootfs(t)) : q # k /\ r = (IF q < k THEN q ELSE q - 1)
      BY <2>2, <2>3, TakesFacts
    <3> QED
      BY <2>3, <2>4, <2>5, <3>1
  <2>7. k \notin MountedAt(Rootfs(t))
    <3>1. ASSUME k \in MountedAt(Rootfs(t)) PROVE FALSE
      <4>1. p = Rootfs(t) /\ t = s
        BY <2>3, <3>1, PointFacts DEF MountedAt
      <4>2. c <= k /\ k < c
        BY <2>2, <2>5, <3>1, <4>1
      <4> QED
        BY <2>3, <2>5, <4>2
    <3> QED
      BY <3>1
  <2>8. MountedAt(Rootfs(t))' # {}
    <3>1. PICK q \in MountedAt(Rootfs(t)) : q # k
      BY <2>5, <2>7
    <3> QED
      BY <2>2, <2>3, <3>1, TakesFacts
  <2> QED
    BY <2>2, <2>5, <2>6, <2>8
<1> QED
  BY <1>1, <1>2, <1>3, <1>4, <1>5, <1>6, StackSteps

(* An unmount that ends has left nothing on its list, nor mounted.         *)
LEMMA ListStep ==
  ASSUME Types, StackInv, ListInv, [Next]_vars
  PROVE  ListInv'
<1> USE DEF MountPcs, Unmounting
<1> DEFINE Listed(t) ==
             /\ \A e \in list[t] : e.at \in {Rootfs(t), Below(t)}
             /\ Unmounting(t) /\ MountedAt(Rootfs(t)) # {} => \E e \in list[t] : e.at = Rootfs(t)
             /\ pc[t] \in {"deleted", "gone", "clean"} => MountedAt(Rootfs(t)) = {}
             /\ MountedAt(Sibling(t)) # {}
<1>0. ListInv = (\A t \in Shims : Listed(t)) /\ ListInv' = (\A t \in Shims : Listed(t)')
  BY DEF ListInv
<1>1. CASE UNCHANGED <<pc, mounts, list>>
  BY <1>1 DEF ListInv, MountedAt
<1>2. ASSUME NEW s \in Shims, Moves(s), NEW t \in Shims PROVE Listed(t)'
  <2>1. SamePoints /\ list' = list
    BY <1>2 DEF Moves
  <2>2. CASE t = s
    BY <1>0, <1>2, <2>1, <2>2 DEF Moves, GoesOn, SamePoints
  <2>3. CASE t # s
    BY <1>0, <1>2, <2>1, <2>3 DEF Moves, SamePoints
  <2> QED
    BY <2>2, <2>3
<1>3. ASSUME NEW s \in Shims, MountsRoot(s), NEW t \in Shims PROVE Listed(t)'
  <2>1. /\ t # s => MountedAt(Rootfs(t))' = MountedAt(Rootfs(t)) /\ pc'[t] = pc[t]
        /\ MountedAt(Sibling(t))' = MountedAt(Sibling(t))
        /\ list' = list /\ pc'[s] \in MountPcs
    BY <1>3, PointFacts DEF MountsRoot, Adds
  <2> QED
    BY <1>0, <2>1
<1>4. ASSUME NEW s \in Shims, MountsBelow(s), NEW t \in Shims PROVE Listed(t)'
  <2>1. /\ MountedAt(Rootfs(t))' = MountedAt(Rootfs(t)) /\ pc' = pc
        /\ MountedAt(Sibling(t))' = MountedAt(Sibling(t)) /\ list' = list
    BY <1>4, PointFacts DEF MountsBelow, Adds
  <2> QED
    BY <1>0, <2>1
<1>5. ASSUME NEW s \in Shims, Lists(s), NEW t \in Shims PROVE Listed(t)'
  <2>1. SamePoints /\ (t # s => list'[t] = list[t] /\ pc'[t] = pc[t])
        /\ list'[s] = get_mounts(s) /\ pc'[s] \in {"unmount", "cleanup"}
    BY <1>5 DEF Lists, Types
  <2>2. CASE t = s
    BY <1>0, <2>1, <2>2, GetMounts DEF SamePoints
  <2>3. CASE t # s
    BY <1>0, <2>1, <2>3 DEF SamePoints
  <2> QED
    BY <2>2, <2>3
<1>6. ASSUME NEW s \in Shims, Skips(s), NEW t \in Shims PROVE Listed(t)'
  <2>1. PICK e \in list[s] :
          MountedAt(e.at) = {} /\ list' = [list EXCEPT ![s] = @ \ {e}] /\ UNCHANGED <<pc, mounts>>
    BY <1>6 DEF Skips
  <2>2. /\ t # s => list'[t] = list[t]
        /\ list'[s] = list[s] \ {e} /\ \A q : MountedAt(q)' = MountedAt(q)
    BY <2>1 DEF Types, MountedAt
  <2>3. \A f \in list[s] : f.at = Rootfs(s) /\ MountedAt(Rootfs(s)) # {} => f # e
    BY <2>1
  <2>4. CASE t = s
    BY <1>0, <2>1, <2>2, <2>3, <2>4
  <2>5. CASE t # s
    BY <1>0, <2>1, <2>2, <2>5
  <2> QED
    BY <2>4, <2>5
<1>7. ASSUME NEW s \in Shims, Takes(s), NEW t \in Shims PROVE Listed(t)'
  <2>0. PICK p \in {Rootfs(s), Below(s)} :
          \E k \in MountedAt(p) : mounts' = RemoveAt(mounts, k) /\ UNCHANGED <<pc, list>>
    BY <1>7 DEF Takes
  <2>1. PICK k \in MountedAt(p) : mounts' = RemoveAt(mounts, k) /\ UNCHANGED <<pc, list>>
    BY <2>0
  <2>2. k \in DOMAIN mounts /\ mounts[k].at = p
    BY DEF MountedAt
  <2>3. MountedAt(Rootfs(t)) = {} => MountedAt(Rootfs(t))' = {}
    BY <2>1, <2>2, TakesFacts
  <2>4. MountedAt(Sibling(t))' # {}
    <3>1. mounts[k].at # Sibling(t)
      BY <2>2, PointFacts
    <3>2. PICK j \in MountedAt(Sibling(t)) : j # k
      BY <1>0, <3>1 DEF MountedAt
    <3> QED
      BY <2>1, <2>2, <3>2, TakesFacts
  <2> QED
    BY <1>0, <2>1, <2>3, <2>4
<1> HIDE DEF Listed
<1> QED
  BY <1>0, <1>1, <1>2, <1>3, <1>4, <1>5, <1>6, <1>7, StackSteps

(* What the other shims have to do, and where, a step of one leaves.       *)
Others(s) ==
  \A t \in Shims : t # s =>
    /\ pc'[t] = pc[t] /\ todo'[t] = todo[t] /\ thread'[t] = thread[t]
    /\ cwd'[t] = cwd[t] /\ dev'[t] = dev[t]
(* The steps that leave what the shim that takes them has to do.           *)
Stays(s) ==
  /\ UNCHANGED <<todo, thread, cwd>>
  /\ pc'[s] \in Working => pc[s] \in Working \ {"chdir"}
LEMMA WorkSteps ==
  ASSUME Types, TodoInv, [Next]_vars
  PROVE  \/ UNCHANGED <<pc, todo, thread, cwd, dev>>
         \/ \E s \in Shims : /\ Others(s)
                             /\ Begin(s) \/ Chdir(s) \/ Mount(s) \/ Remount(s) \/ Stays(s)
                             /\ MountStep(s) \/ LoopStep(s) \/ pc'[s] \notin MountPcs
<1> USE DEF bounds
<1>0. ASSUME NEW s \in Shims, NEW to, Goes(s, to)
      PROVE  pc'[s] = to /\ \A t \in Shims : t # s => pc'[t] = pc[t]
  BY <1>0 DEF Goes, Types, TypeOK
<1>1. ASSUME UNCHANGED vars \/ \E d \in LoopDevs : Looks(d) \/ LooksAway(d)
      PROVE  UNCHANGED <<pc, todo, thread, cwd, dev>>
  BY <1>1 DEF vars, Looks, LooksAway
<1>2. ASSUME NEW s \in Shims, Begin(s) PROVE Others(s)
  <2>1. \A t \in Shims : t # s => pc'[t] = pc[t] /\ thread'[t] = thread[t]
    BY <1>0, <1>2 DEF Begin, Types, TypeOK
  <2> QED
    BY <1>2, <2>1 DEF Begin, Others
<1>3. ASSUME NEW s \in Shims, Chdir(s) PROVE Others(s)
  <2>1. \A t \in Shims : t # s => pc'[t] = pc[t] /\ cwd'[t] = cwd[t]
    BY <1>0, <1>3 DEF Chdir, Types, TypeOK
  <2> QED
    BY <1>3, <2>1 DEF Chdir, Others
<1>4. ASSUME NEW s \in Shims, Mount(s) \/ Remount(s) PROVE Others(s)
  <2>1. \A t \in Shims : t # s => pc'[t] = pc[t] /\ todo'[t] = todo[t]
    BY <1>0, <1>4 DEF Mount, Remount, Done, TodoInv
  <2> QED
    BY <1>4, <2>1 DEF Mount, Remount, Others
<1>5. ASSUME NEW s \in Shims,
             Ready(s) \/ ChdirFails(s) \/ MountFails(s) \/ RemountFails(s) \/ LoopStep(s)
      PROVE  Others(s) /\ Stays(s)
  <2>1. /\ UNCHANGED <<todo, thread, cwd>>
        /\ pc'[s] \in Working => pc[s] \in Working \ {"chdir"}
        /\ \A t \in Shims : t # s => pc'[t] = pc[t]
    BY <1>0, <1>5
       DEF Ready, ChdirFails, MountFails, RemountFails, LoopStep, get_free_loop_dev, SetFd,
           SetFdBusy, SetStatus, SetStatusFails, setup_loop, Working, MountPcs
  <2>2. \A t \in Shims : t # s => dev'[t] = dev[t]
    <3>1. dev' = dev \/ \E d : dev' = [dev EXCEPT ![s] = d]
      BY <1>5
         DEF Ready, ChdirFails, MountFails, RemountFails, LoopStep, get_free_loop_dev, SetFd,
             SetFdBusy, SetStatus, SetStatusFails, setup_loop
    <3> QED
      BY <3>1 DEF Types, TypeOK
  <2> QED
    BY <2>1, <2>2 DEF Others, Stays
<1>6. ASSUME NEW s \in Shims,
             UnmountStep(s) \/ umount_recursive(s) \/ ReadAddress(s) \/ ExtraMount(s) \/ Killed(s)
      PROVE  Others(s) /\ Stays(s) /\ pc'[s] \notin MountPcs
  <2>1. /\ UNCHANGED <<todo, thread, cwd, dev>>
        /\ pc'[s] \notin MountPcs
        /\ \A t \in Shims : t # s => pc'[t] = pc[t]
    <3>1. CASE Unmounted(s) \/ umount_recursive(s) \/ ReadAddress(s) \/ Killed(s)
      BY <1>0, <3>1
         DEF Unmounted, umount_recursive, ReadAddress, Killed, Unmounting, MountPcs
    <3>2. CASE ExtraMount(s)
      BY <3>2 DEF ExtraMount, MountPcs
    <3>3. CASE umount_all(s)
      <4>1. \/ pc' = pc
            \/ Goes(s, IF pc[s] = "unmount" THEN "ready" ELSE "left")
        BY <3>3 DEF umount_all
      <4>2. pc[s] \notin MountPcs /\ UNCHANGED <<todo, thread, cwd, dev>>
        BY <3>3 DEF umount_all, Unmounting, MountPcs
      <4> QED
        BY <1>0, <4>1, <4>2 DEF MountPcs
    <3> QED
      BY <1>6, <3>1, <3>2, <3>3 DEF UnmountStep
  <2> QED
    BY <2>1 DEF Others, Stays, Working
<1> QED
  BY <1>1, <1>2, <1>3, <1>4, <1>5, <1>6 DEF Next, MountStep

(* What is in work stays as it is and where it is until it is mounted.     *)
LEMMA TodoStep ==
  ASSUME Types, TodoInv, CwdInv, [Next]_vars
  PROVE  TodoInv' /\ CwdInv'
<1> DEFINE Todo(t) == todo[t] \in Seq(Requests) /\ (pc[t] \in Working => todo[t] # <<>>)
           Cwd(t) == pc[t] \in Working \ {"chdir"} /\ Work(t).chdir # NoPrefix =>
                       cwd[t][thread[t]] = Work(t).chdir
<1>0. /\ \A t \in Shims : Todo(t) /\ Cwd(t)
      /\ (\A t \in Shims : Todo(t)') /\ todo' = [t \in Shims |-> todo'[t]] => TodoInv'
      /\ (\A t \in Shims : Cwd(t)') => CwdInv'
  BY DEF TodoInv, CwdInv
<1>1. CASE UNCHANGED <<pc, todo, thread, cwd, dev>>
  BY <1>1 DEF TodoInv, CwdInv, Work
<1>2. ASSUME NEW s \in Shims, Others(s), NEW t \in Shims, t # s PROVE Todo(t)' /\ Cwd(t)'
  BY <1>0, <1>2 DEF Others, Work
<1>3. ASSUME NEW s \in Shims, Begin(s) \/ Chdir(s) \/ Mount(s) \/ Remount(s) \/ Stays(s)
      PROVE  Todo(s)' /\ Cwd(s)' /\ todo' = [t \in Shims |-> todo'[t]]
  <2>0. ASSUME NEW to, Goes(s, to) PROVE pc'[s] = to
    BY <2>0 DEF Goes, Types, TypeOK
  <2>1. CASE Begin(s)
    <3>1. pc'[s] \in Working \ {"chdir"} => Work(s).chdir = NoPrefix
      BY <2>0, <2>1 DEF Begin
    <3> QED
      BY <1>0, <2>1, <3>1 DEF Begin, Work, TodoInv
  <2>2. CASE Chdir(s)
    <3>1. cwd'[s][thread'[s]] = Work(s).chdir
      BY <2>2 DEF Chdir, Types, TypeOK
    <3>2. todo[s] # <<>>
      BY <1>0, <2>2 DEF Chdir, Working, MountPcs
    <3> QED
      BY <1>0, <2>2, <3>1, <3>2 DEF Chdir, Work, TodoInv
  <2>3. CASE Mount(s) \/ Remount(s)
    <3>1. pc[s] \in Working \ {"chdir"}
      BY <2>3 DEF Mount, Remount, Working, MountPcs
    <3>2. CASE Done(s)
      <4>1. pc'[s] = "next" /\ todo' = [todo EXCEPT ![s] = Tail(@)]
        BY <2>0, <3>2 DEF Done
      <4>2. Tail(todo[s]) \in Seq(Requests)
        BY <3>1, WorkFacts
      <4>3. todo'[s] = Tail(todo[s]) /\ todo' = [t \in Shims |-> todo'[t]]
        BY <4>1 DEF TodoInv
      <4> QED
        BY <4>1, <4>2, <4>3 DEF Working
    <3>3. CASE UNCHANGED todo
      BY <1>0, <2>3, <3>1, <3>3 DEF Mount, Remount, Work, TodoInv
    <3> QED
      BY <2>3, <3>2, <3>3 DEF Mount, Remount
  <2>4. CASE Stays(s)
    BY <1>0, <2>4 DEF Stays, Work, TodoInv
  <2> QED
    BY <1>3, <2>1, <2>2, <2>3, <2>4
<1> HIDE DEF Todo, Cwd
<1> QED
  BY <1>0, <1>1, <1>2, <1>3, WorkSteps

(* What is mounted at first, beside each rootfs.                           *)
LEMMA InitInv ==
  ASSUME ConstantsAssumption, Init
  PROVE  Types /\ TodoInv /\ CwdInv /\ BindingInv /\ FreedInv /\ StackInv /\ ListInv
<1> DEFINE n == Cardinality(Shims)
           order == SetToSeq(Shims)
<1>1. n \in Nat /\ order \in Injection(1..n, Shims)
  <2>1. n \in Nat /\ ExistsBijection(1..n, Shims)
    BY FS_CardinalityType DEF ConstantsAssumption
  <2>2. \E f \in [1..n -> Shims] : IsInjective(f)
    BY <2>1 DEF ExistsBijection, Bijection, Injection, IsInjective
  <2>3. order \in [1..n -> Shims] /\ IsInjective(order)
    BY <2>2 DEF SetToSeq
  <2> QED
    BY <2>1, <2>3 DEF Injection
<1>2. order \in Surjection(1..n, Shims)
  <2>1. IsFiniteSet(1..n) /\ Cardinality(1..n) = n
    BY <1>1, FS_Interval
  <2> QED
    BY <1>1, <2>1, FS_Injection DEF ConstantsAssumption
<1>3. order \in [1..n -> Shims] /\ \A s \in Shims : \E i \in 1..n : order[i] = s
  BY <1>1, <1>2 DEF Injection, Surjection
<1>4. mounts = [i \in 1..n |-> Mounted(Sibling(order[i]), NoShim, NoDev, FALSE)]
  BY <1>3 DEF Init
<1> HIDE DEF n, order
<1>5. /\ DOMAIN mounts = 1..n
      /\ \A i \in 1..n : \E s \in Shims : mounts[i].at = Sibling(s)
      /\ \A s \in Shims : \E i \in 1..n : mounts[i].at = Sibling(s)
  BY <1>3, <1>4 DEF Mounted
<1>6. Listing(mounts)
  <2>1. mounts \in [1..n -> {mounts[i] : i \in 1..n}]
    BY <1>4
  <2> QED
    BY <1>1, <2>1, SeqDef DEF Listing
<1>7. \A s \in Shims :
        MountedAt(Rootfs(s)) = {} /\ MountedAt(Below(s)) = {} /\ MountedAt(Sibling(s)) # {}
  BY <1>5, PointFacts DEF MountedAt
<1>8. /\ pc = [s \in Shims |-> "next"] /\ loop = [d \in LoopDevs |-> LoopInfo]
      /\ list = [s \in Shims |-> {}] /\ dev = [s \in Shims |-> NoDev]
  BY DEF Init
<1>9. Types
  <2>1. TypeOK
    BY <1>8 DEF Init, TypeOK, MountPcs, LoopInfo, ConstantsAssumption
  <2>2. \A i \in DOMAIN mounts : mounts[i].at \in Points
    BY <1>5 DEF Points
  <2>3. list \in [Shims -> SUBSET [line: Nat, at: Points]]
    BY <1>8
  <2> QED
    BY <1>6, <2>1, <2>2, <2>3 DEF Types, Table
<1>10. BindingInv /\ FreedInv
  BY <1>8 DEF BindingInv, FreedInv, LoopInfo
<1>11. StackInv /\ ListInv
  BY <1>7, <1>8 DEF StackInv, ListInv, Unmounting
<1>12. TodoInv /\ CwdInv
  BY <1>8, RequestsAssumption DEF Init, TodoInv, CwdInv, Working
<1> QED
  BY <1>9, <1>10, <1>11, <1>12

IInv == Types /\ TodoInv /\ CwdInv /\ BindingInv /\ FreedInv /\ StackInv /\ ListInv
------------------------------------------------------------------------------
(* The devices, the mounts and the lists of the unmounts are as the parts  *)
(* of IInv say.                                                            *)
THEOREM Invariant == Spec => []IInv
<1>1. Init => IInv
  BY ConstantsAssumption, InitInv DEF IInv
<1>2. IInv /\ [Next]_vars => IInv'
  BY ConstantsAssumption, TypesStep, TodoStep, BindingStep, FreedStep, StackStep,
     ListStep DEF IInv
<1> QED
  BY <1>1, <1>2, PTL DEF Spec

(* No loop device stays bound to an image that no mount uses and no shim   *)
(* is setting up, but for one whose shim was killed before it had set      *)
(* LO_FLAGS_AUTOCLEAR.                                                     *)
THEOREM DevicesFreed == Spec => []LoopsFreed
<1>1. IInv => LoopsFreed
  <2> SUFFICES ASSUME IInv, NEW d \in LoopDevs, loop[d].file # NoShim
               PROVE  d \in leaked \/ InUse(d, loop[d].open, mounts)
    BY DEF LoopsFreed
  <2>1. CASE loop[d].auto
    BY <2>1 DEF IInv, FreedInv
  <2>2. CASE ~ loop[d].auto
    <3>1. d \in leaked \/ \E s \in Shims : pc[s] = "status" /\ dev[s] = d
      BY <2>2 DEF IInv, FreedInv
    <3> QED
      BY <3>1 DEF IInv, BindingInv, InUse
  <2> QED
    BY <2>1, <2>2
<1> QED
  BY <1>1, Invariant, PTL

(* A delete that succeeds has unmounted the rootfs and all that others     *)
(* mounted below it, and nothing that is beside it.                        *)
THEOREM DeletesUnmount == Spec => []Unmounts
<1>1. IInv => Unmounts
  <2> SUFFICES ASSUME IInv, NEW s \in Shims
               PROVE  /\ pc[s] \in {"deleted", "gone", "clean"} =>
                           \A i \in DOMAIN mounts : ~ IsPrefix(Rootfs(s), mounts[i].at)
                      /\ TopAt(mounts, Sibling(s)) # 0
    BY DEF Unmounts, IInv, Types
  <2>1. TopAt(mounts, Sibling(s)) # 0
    <3>1. \E i \in DOMAIN mounts : mounts[i].at = Sibling(s)
      BY DEF IInv, ListInv, MountedAt
    <3>2. TopAt(mounts, Sibling(s)) \in DOMAIN mounts
      BY <3>1, TopFacts DEF IInv, Types, Table
    <3> QED
      BY <3>2, AppendFacts DEF IInv, Types, Table
  <2>2. ASSUME pc[s] \in {"deleted", "gone", "clean"}, NEW i \in DOMAIN mounts,
               IsPrefix(Rootfs(s), mounts[i].at)
        PROVE  FALSE
    <3>1. MountedAt(Rootfs(s)) = {} /\ MountedAt(Below(s)) = {}
      BY <2>2 DEF IInv, ListInv, StackInv
    <3>2. PICK t \in Shims : mounts[i].at \in {Rootfs(t), Below(t), Sibling(t)}
      BY DEF IInv, Types, Table, Points
    <3>3. mounts[i].at \in {Rootfs(s), Below(s)}
      BY <2>2, <3>2, PrefixFacts
    <3> QED
      BY <3>1, <3>3 DEF MountedAt
  <2> QED
    BY <2>1, <2>2
<1> QED
  BY <1>1, Invariant, PTL
(* An overlay that is mounted has the layers it was asked for, whatever the*)
(* threads of the pool did before.                                         *)
THEOREM LayersAreFound == Spec => []LayersFound
<1>1. IInv => LayersFound
  <2> SUFFICES ASSUME IInv, NEW s \in Shims, pc[s] = "mount"
               PROVE  LET asked == lowerdirs(todo[s][1].options)
                          told == lowerdirs(Compacted(todo[s][1]).options) IN
                      /\ Len(told) = Len(asked)
                      /\ \A i \in DOMAIN asked : Seen(cwd[s][thread[s]], told[i]) = asked[i]
    BY DEF LayersFound
  <2> DEFINE r == todo[s][1]
             dir == cwd[s][thread[s]]
  <2>1. r \in Requests /\ Work(s) = Plan(r)
    BY WorkFacts DEF IInv, Working, MountPcs
  <2>2. WellFormed(r.options)
    BY <2>1, RequestsAssumption
  <2>3. Compacted(r).chdir # NoPrefix => dir = Compacted(r).chdir
    BY <2>1 DEF IInv, CwdInv, Working, MountPcs, Plan
  <2> HIDE DEF r, dir
  <2>4. CASE Compacted(r) = compact(r.options)
    BY <2>2, <2>3, <2>4, CompactionKeepsLayers DEF r, dir
  <2>5. CASE Compacted(r).options = r.options
    BY <2>2, <2>5, AbsoluteFacts DEF r, dir
  <2> QED
    BY <2>4, <2>5 DEF Compacted
<1> QED
  BY <1>1, Invariant, PTL

(* What a request is planned to be is read-only if its options say so last.*)
LEMMA PlanFacts ==
  ASSUME NEW r \in Requests
  PROVE  "RDONLY" \in Plan(r).flags <=> LastSays(r.options, "ro", "rw")
<1> DEFINE to == Compacted(r).options
<1>1. WellFormed(r.options)
  BY RequestsAssumption
<1>2. DOMAIN r.options = 1..Len(r.options) /\ Len(r.options) \in Nat
  BY <1>1, LayersFacts
<1>3. /\ DOMAIN to = DOMAIN r.options /\ Len(to) = Len(r.options)
      /\ \A i \in DOMAIN r.options : to[i].name = r.options[i].name
  BY <1>1, NamesFacts DEF Compacted
<1> HIDE DEF to
<1>4. "RDONLY" \in Parse(to).flags <=> LastSays(to, "ro", "rw")
  BY <1>2, <1>3, ReadOnlyFacts
<1>5. LastSays(to, "ro", "rw") <=> LastSays(r.options, "ro", "rw")
  <2>1. \A i \in DOMAIN r.options : \A j \in i + 1..Len(r.options) : j \in DOMAIN r.options
    BY <1>2
  <2>2. \A i \in DOMAIN r.options :
          (\A j \in i + 1..Len(to) : to[j].name # "rw") <=>
          (\A j \in i + 1..Len(r.options) : r.options[j].name # "rw")
    BY <1>3, <2>1
  <2> QED
    BY <1>3, <2>2 DEF LastSays
<1> QED
  BY <1>4, <1>5 DEF Plan, to

(* The requests of a rootfs mount, none changes what is mounted already.   *)
MountsAnew == \A r \in Requests : "REMOUNT" \notin Plan(r).flags

(* A device that a shim has set up is read-only as it was asked for, and   *)
(* what is to be made read-only is there.                                  *)
ReadOnly(s) == "RDONLY" \in Work(s).flags
DeviceReady(s) ==
  pc[s] \in {"status", "close", "mount", "remount"} /\ Work(s).loop =>
    dev[s] \in LoopDevs /\ (loop[dev[s]].file = s => (loop[dev[s]].ro <=> ReadOnly(s)))
BindReady(s) ==
  pc[s] = "remount" => BindReadOnly(Work(s)) /\ MountedAt(Rootfs(s)) # {}
AskedInv == \A s \in Shims : DeviceReady(s) /\ BindReady(s)

(* A device gets a file and its right to write in one step.                *)
LEMMA DeviceKept ==
  ASSUME ConstantsAssumption, IInv, [Next]_vars, NEW d \in LoopDevs
  PROVE  \/ loop'[d].file = NoShim
         \/ loop'[d].file = loop[d].file /\ loop'[d].ro = loop[d].ro
         \/ \E s \in Shims : SetFd(s) /\ dev[s] = d /\ loop'[d].file = s
                             /\ loop'[d].ro = ReadOnly(s)
<1> DEFINE Kept == loop'[d].file = loop[d].file /\ loop'[d].ro = loop[d].ro
           Same(ls) == ls \in [LoopDevs -> Loops]
                       /\ ls[d].file = loop[d].file /\ ls[d].ro = loop[d].ro
<1>0. loop \in [LoopDevs -> Loops]
  BY DEF IInv, Types, TypeOK, Loops
<1>1. ASSUME NEW ls, Same(ls), NEW ms, loop' = Settle(ls, ms) PROVE loop'[d].file = NoShim \/ Kept
  BY <1>1 DEF Settle, LoopInfo
<1>2. ASSUME NEW e \in LoopDevs, Looks(e) PROVE Kept
  BY <1>0, <1>2 DEF Looks, Loops
<1>3. ASSUME NEW e \in LoopDevs, LooksAway(e) PROVE loop'[d].file = NoShim \/ Kept
  <2> DEFINE ls == [loop EXCEPT ![e].open = @ \ {Udev}]
  <2>1. loop[e].open \ {Udev} \in SUBSET (Shims \cup {Udev})
    BY <1>0 DEF Loops
  <2>2. Same(ls)
    BY <1>0, <2>1, FieldFacts DEF Loops
  <2> QED
    BY <1>1, <1>3, <2>2 DEF LooksAway
<1>4. ASSUME NEW s \in Shims, SetFd(s)
      PROVE  Kept \/ (dev[s] = d /\ loop'[d].file = s /\ loop'[d].ro = ReadOnly(s))
  BY <1>0, <1>4 DEF SetFd, LoopParams, ReadOnly
<1>5. ASSUME NEW s \in Shims, SetStatus(s) PROVE Kept
  BY <1>0, <1>5 DEF SetStatus, Loops
<1>6. ASSUME NEW s \in Shims, SetStatusFails(s) \/ setup_loop(s) \/ Killed(s)
      PROVE  loop'[d].file = NoShim \/ Kept
  <2>1. Same(Closed(s))
    BY <1>0, ClosedFacts DEF Closed, Loops
  <2>2. Same([Closed(s) EXCEPT ![dev[s]].auto = TRUE])
    <3>1. Closed(s) \in [LoopDevs -> Loops]
      BY <2>1
    <3> HIDE DEF Loops
    <3> DEFINE cs == Closed(s)
    <3> HIDE DEF cs
    <3>2. [cs EXCEPT ![dev[s]].auto = TRUE] \in [LoopDevs -> Loops]
      BY <3>1, FieldFacts DEF cs
    <3>3. /\ [cs EXCEPT ![dev[s]].auto = TRUE][d].file = cs[d].file
          /\ [cs EXCEPT ![dev[s]].auto = TRUE][d].ro = cs[d].ro
      BY <3>1 DEF Loops, cs
    <3> QED
      BY <2>1, <3>2, <3>3 DEF cs
  <2> QED
    BY <1>1, <1>6, <2>1, <2>2 DEF SetStatusFails, setup_loop, Killed
<1>7. ASSUME NEW s \in Shims, Takes(s) PROVE loop'[d].file = NoShim \/ Kept
  BY <1>0, <1>1, <1>7 DEF Takes, Settled
<1>8. ASSUME UNCHANGED loop PROVE Kept
  BY <1>8
<1> QED
  BY <1>2, <1>3, <1>4, <1>5, <1>6, <1>7, <1>8, DeviceSteps DEF IInv, Elsewhere, get_free_loop_dev

(* What is at a rootfs that its shim is at work on stays.                  *)
LEMMA RootKept ==
  ASSUME IInv, [Next]_vars, NEW t \in Shims, pc[t] \in Working, MountedAt(Rootfs(t)) # {}
  PROVE  MountedAt(Rootfs(t))' # {}
<1>1. CASE UNCHANGED <<pc, mounts, list>>
  BY <1>1 DEF MountedAt
<1>2. ASSUME NEW s \in Shims, Moves(s) \/ Lists(s) PROVE MountedAt(Rootfs(t))' # {}
  BY <1>2 DEF Moves, Lists, SamePoints
<1>3. ASSUME NEW s \in Shims, MountsRoot(s) \/ MountsBelow(s) PROVE MountedAt(Rootfs(t))' # {}
  <2>1. PICK p : Adds(s, p)
    BY <1>3 DEF MountsRoot, MountsBelow
  <2> QED
    BY <2>1 DEF Adds
<1>4. ASSUME NEW s \in Shims, Skips(s) PROVE MountedAt(Rootfs(t))' # {}
  BY <1>4 DEF Skips, MountedAt
<1>5. ASSUME NEW s \in Shims, umount_all(s), Takes(s) PROVE MountedAt(Rootfs(t))' # {}
  <2>1. PICK p \in {Rootfs(s), Below(s)} : \E k \in MountedAt(p) : mounts' = RemoveAt(mounts, k)
    BY <1>5 DEF Takes
  <2>2. PICK k \in MountedAt(p) : mounts' = RemoveAt(mounts, k)
    BY <2>1
  <2>3. s # t
    BY <1>5 DEF umount_all, Unmounting, Working, MountPcs
  <2>4. p # Rootfs(t)
    BY <2>3, PointFacts
  <2>5. k \in DOMAIN mounts /\ k \notin MountedAt(Rootfs(t))
    BY <2>4 DEF MountedAt
  <2>6. PICK j \in MountedAt(Rootfs(t)) : j # k
    BY <2>5
  <2> QED
    BY <2>2, <2>5, <2>6, TakesFacts DEF IInv
<1> QED
  BY <1>1, <1>2, <1>3, <1>4, <1>5, StackSteps DEF IInv

(* A shim whose work goes on as it was keeps what that work has made.      *)
LEMMA AskedKept ==
  ASSUME ConstantsAssumption, IInv, AskedInv, [Next]_vars, NEW t \in Shims,
         pc'[t] = pc[t], todo'[t] = todo[t], dev'[t] = dev[t]
  PROVE  (DeviceReady(t) /\ BindReady(t))'
<1>1. Work(t)' = Work(t)
  BY DEF Work
<1>2. BindReady(t)'
  <2> SUFFICES ASSUME pc[t] = "remount"
               PROVE  BindReadOnly(Work(t)) /\ MountedAt(Rootfs(t))' # {}
    BY <1>1 DEF BindReady, BindReadOnly
  <2> QED
    BY RootKept DEF AskedInv, BindReady, Working, MountPcs
<1>3. DeviceReady(t)'
  <2> SUFFICES ASSUME pc[t] \in {"status", "close", "mount", "remount"}, Work(t).loop
               PROVE  dev[t] \in LoopDevs /\ (loop'[dev[t]].file = t =>
                                                (loop'[dev[t]].ro <=> ReadOnly(t)))
    BY <1>1 DEF DeviceReady, ReadOnly
  <2>1. dev[t] \in LoopDevs /\ (loop[dev[t]].file = t => (loop[dev[t]].ro <=> ReadOnly(t)))
    BY DEF AskedInv, DeviceReady
  <2>2. t # NoShim
    BY DEF ConstantsAssumption
  <2>3. ASSUME NEW s \in Shims, SetFd(s), loop'[dev[t]].file = s, loop'[dev[t]].file = t
        PROVE  FALSE
    <3>1. SetFd(t)
      BY <2>3
    <3> QED
      BY <3>1 DEF SetFd
  <2> QED
    BY <2>1, <2>2, <2>3, DeviceKept
<1> QED
  BY <1>2, <1>3

(* What the step of a shim itself does.                                    *)
LEMMA AskedMoves ==
  ASSUME ConstantsAssumption, MountsAnew, IInv, AskedInv, [Next]_vars, NEW s \in Shims,
         MountStep(s) \/ LoopStep(s)
  PROVE  (DeviceReady(s) /\ BindReady(s))'
<1>0. /\ loop \in [LoopDevs -> Loops] /\ DeviceReady(s) /\ BindReady(s)
      /\ pc[s] \in SettingUp => dev[s] \in LoopDevs
  BY DEF IInv, Types, TypeOK, Loops, AskedInv, BindingInv, SettingUp
<1>1. ASSUME NEW to, Goes(s, to) PROVE pc'[s] = to
  BY <1>1 DEF Goes, IInv, Types, TypeOK
<1>2. ASSUME pc'[s] \notin {"status", "close", "mount", "remount"}
      PROVE  (DeviceReady(s) /\ BindReady(s))'
  BY <1>2 DEF DeviceReady, BindReady
<1>3. CASE Begin(s) \/ Chdir(s)
  <2>1. Work(s)' = Work(s) /\ pc[s] \in {"next", "chdir"}
    BY <1>3 DEF Begin, Chdir, Work
  <2>2. MountsFirst(Work(s))
    <3>1. todo[s] # <<>>
      BY <1>3 DEF Begin, Chdir, IInv, TodoInv, Working, MountPcs
    <3>2. todo[s][1] \in Requests
      BY <3>1, HeadTailProperties DEF IInv, TodoInv
    <3> QED
      BY <3>2 DEF MountsFirst, MountsAnew, Work, PlanOf
  <2>3. pc'[s] \in {"chdir", "free"} \/ (pc'[s] = "mount" /\ ~ Work(s).loop)
    BY <1>1, <1>3, <2>2 DEF Begin, Chdir, First
  <2> QED
    BY <2>1, <2>3 DEF DeviceReady, BindReady
<1>4. CASE Ready(s) \/ ChdirFails(s) \/ MountFails(s) \/ Remount(s) \/ RemountFails(s)
             \/ get_free_loop_dev(s) \/ SetFdBusy(s) \/ SetStatusFails(s)
  BY <1>1, <1>2, <1>4
     DEF Ready, ChdirFails, MountFails, Remount, RemountFails, Done, get_free_loop_dev, SetFdBusy,
         SetStatusFails
<1>5. CASE Mount(s)
  <2>1. CASE Done(s)
    BY <1>1, <1>2, <2>1 DEF Done
  <2>2. CASE ~ Done(s)
    <3>1. BindReadOnly(Work(s)) /\ pc'[s] = "remount" /\ pc[s] = "mount"
          /\ UNCHANGED <<todo, dev, loop>>
      BY <1>1, <1>5, <2>2 DEF Mount
    <3>2. Work(s)' = Work(s)
      BY <3>1 DEF Work
    <3>3. MountedAt(Rootfs(s))' # {}
      <4>1. PICK m : m.at = Rootfs(s) /\ mounts' = Append(mounts, m)
        BY <1>5 DEF Mount, Mounted
      <4> QED
        BY <1>5, <4>1, AddsFacts DEF Adds, Mount, IInv
    <3> QED
      BY <1>0, <3>1, <3>2, <3>3 DEF DeviceReady, BindReady, BindReadOnly, ReadOnly
  <2> QED
    BY <2>1, <2>2
<1>6. CASE SetFd(s)
  <2>1. /\ pc'[s] = "status" /\ Work(s)' = Work(s) /\ dev' = dev /\ dev[s] \in LoopDevs
    BY <1>0, <1>1, <1>6 DEF SetFd, Work, SettingUp
  <2>2. loop'[dev[s]].ro = ReadOnly(s)
    BY <1>0, <1>6, <2>1 DEF SetFd, LoopParams, ReadOnly
  <2> QED
    BY <2>1, <2>2 DEF DeviceReady, BindReady, ReadOnly
<1>7. CASE SetStatus(s) \/ setup_loop(s)
  <2>1. /\ pc[s] \in {"status", "close"} /\ pc'[s] \in {"close", "mount"} /\ pc'[s] # pc[s]
        /\ UNCHANGED <<todo, dev>>
    BY <1>1, <1>7 DEF SetStatus, setup_loop
  <2>2. Work(s)' = Work(s)
    BY <2>1 DEF Work
  <2>3. s # NoShim /\ ~ \E t \in Shims : SetFd(t)
    <3>1. ASSUME NEW t \in Shims, SetFd(t) PROVE FALSE
      <4>1. pc' = [pc EXCEPT ![t] = "status"] /\ pc[t] = "setfd"
        BY <3>1 DEF SetFd, Goes
      <4>2. t # s
        BY <2>1, <4>1
      <4>3. pc'[s] = pc[s]
        BY <4>1, <4>2 DEF IInv, Types, TypeOK
      <4> QED
        BY <2>1, <4>3
    <3> QED
      BY <3>1 DEF ConstantsAssumption
  <2>4. Work(s).loop =>
          dev[s] \in LoopDevs /\ (loop[dev[s]].file = s => (loop[dev[s]].ro <=> ReadOnly(s)))
    BY <1>0, <2>1 DEF DeviceReady
  <2>5. Work(s).loop => (loop'[dev[s]].file = s => (loop'[dev[s]].ro <=> ReadOnly(s)))
    BY <2>3, <2>4, DeviceKept
  <2> QED
    BY <2>1, <2>2, <2>4, <2>5 DEF DeviceReady, BindReady, ReadOnly
<1> QED
  BY <1>3, <1>4, <1>5, <1>6, <1>7 DEF MountStep, LoopStep

(* A mount's device and its table stay as they were asked for.             *)
LEMMA AskedStep ==
  ASSUME ConstantsAssumption, MountsAnew, IInv, AskedInv, [Next]_vars
  PROVE  AskedInv'
<1> SUFFICES ASSUME NEW t \in Shims PROVE (DeviceReady(t) /\ BindReady(t))'
  BY DEF AskedInv
<1>1. CASE UNCHANGED <<pc, todo, thread, cwd, dev>>
  BY <1>1, AskedKept
<1>2. ASSUME NEW s \in Shims, Others(s), s # t PROVE (DeviceReady(t) /\ BindReady(t))'
  BY <1>2, AskedKept DEF Others
<1>3. CASE MountStep(t) \/ LoopStep(t)
  BY <1>3, AskedMoves
<1>4. CASE pc'[t] \notin MountPcs
  BY <1>4 DEF DeviceReady, BindReady, MountPcs
<1> QED
  BY <1>1, <1>2, <1>3, <1>4, WorkSteps DEF IInv

(* A mount that was made last, and what the second call makes of it.       *)
LEMMA TopMounted ==
  ASSUME Types, NEW m, mounts' = Append(mounts, m)
  PROVE  TopAt(mounts', m.at) # 0 /\ mounts'[TopAt(mounts', m.at)] = m
<1> DEFINE top == TopAt(mounts', m.at)
<1>1. /\ Listing(mounts') /\ Len(mounts) \in Nat /\ DOMAIN mounts' = 1..Len(mounts) + 1
      /\ mounts'[Len(mounts) + 1] = m
  BY AppendFacts DEF Types, Table
<1>2. Len(mounts) + 1 \in DOMAIN mounts'
  BY <1>1
<1>3. top \in DOMAIN mounts' /\ Len(mounts) + 1 <= top
  BY <1>1, <1>2, TopFacts
<1> QED
  BY <1>1, <1>3

LEMMA TopChanged ==
  ASSUME Types, NEW p, MountedAt(p) # {}, mounts' = [mounts EXCEPT ![TopAt(mounts, p)].ro = TRUE]
  PROVE  TopAt(mounts', p) # 0 /\ mounts'[TopAt(mounts', p)].ro = TRUE
<1> DEFINE k == TopAt(mounts, p)
           top == TopAt(mounts', p)
<1>0. \E i \in DOMAIN mounts : mounts[i].at = p
  BY DEF MountedAt
<1>1. /\ k \in DOMAIN mounts /\ mounts[k].at = p
      /\ \A i \in DOMAIN mounts : mounts[i].at = p => i <= k
  BY <1>0, TopFacts DEF Types, Table
<1>2. /\ Listing(mounts') /\ DOMAIN mounts' = DOMAIN mounts
      /\ \A i \in DOMAIN mounts : mounts'[i].at = mounts[i].at
  BY ChangeFacts DEF Types, Table
<1>3. \E i \in DOMAIN mounts' : mounts'[i].at = p
  BY <1>1, <1>2
<1>4. /\ top \in DOMAIN mounts' /\ mounts'[top].at = p
      /\ \A i \in DOMAIN mounts' : mounts'[i].at = p => i <= top
  <2>1. ASSUME NEW ms, Listing(ms), \E i \in DOMAIN ms : ms[i].at = p
        PROVE  /\ TopAt(ms, p) \in DOMAIN ms /\ ms[TopAt(ms, p)].at = p
               /\ \A i \in DOMAIN ms : ms[i].at = p => i <= TopAt(ms, p)
    BY <2>1, TopFacts
  <2> QED
    BY <1>2, <1>3, <2>1
<1>5. DOMAIN mounts = 1..Len(mounts) /\ Len(mounts) \in Nat
  BY AppendFacts DEF Types, Table
<1>6. top = k
  <2> HIDE DEF k, top
  <2> QED
    BY <1>1, <1>2, <1>4, <1>5
<1> QED
  BY <1>1, <1>5, <1>6

(* A rootfs of mounts that are new has each of them as its options ask at  *)
(* last, with the loop device of its image: read-only, or not.             *)
THEOREM MountsAreAsAsked == MountsAnew => (Spec => MountedAsAsked)
<1> DEFINE Asked(s) ==
             (pc[s] \in {"mount", "remount"} /\ pc'[s] = "next") =>
               /\ TopAt(mounts', Rootfs(s)) # 0
               /\ mounts'[TopAt(mounts', Rootfs(s))].ro = LastSays(todo[s][1].options, "ro", "rw")
               /\ (Work(s).loop /\ loop[dev[s]].file = s) =>
                    loop[dev[s]].ro = LastSays(todo[s][1].options, "ro", "rw")
<1>1. Init => AskedInv
  BY DEF Init, AskedInv, DeviceReady, BindReady
<1>2. MountsAnew /\ IInv /\ AskedInv /\ [Next]_vars => AskedInv'
  BY ConstantsAssumption, AskedStep
<1>3. IInv /\ AskedInv /\ [Next]_vars => \A s \in Shims : Asked(s)
  <2> SUFFICES ASSUME IInv, AskedInv, [Next]_vars, NEW s \in Shims,
                      pc[s] \in {"mount", "remount"}, pc'[s] = "next"
               PROVE  Asked(s)
    OBVIOUS
  <2> DEFINE ro == LastSays(todo[s][1].options, "ro", "rw")
  <2>0. ASSUME NEW to, Goes(s, to) PROVE pc'[s] = to
    BY <2>0 DEF Goes, IInv, Types, TypeOK
  <2>1. todo[s][1] \in Requests /\ Work(s) = Plan(todo[s][1])
    BY WorkFacts DEF IInv, Working, MountPcs
  <2>2. ReadOnly(s) <=> ro
    BY <2>1, PlanFacts DEF ReadOnly
  <2>3. ReadOnly(s) \in BOOLEAN /\ ro \in BOOLEAN
    BY DEF ReadOnly, LastSays
  <2>4. DeviceReady(s) /\ BindReady(s)
    BY DEF AskedInv
  <2>5. loop \in [LoopDevs -> Loops]
    BY DEF IInv, Types, TypeOK, Loops
  <2> HIDE DEF ro
  <2>6. (Work(s).loop /\ loop[dev[s]].file = s) => loop[dev[s]].ro = ro
    BY <2>2, <2>3, <2>4, <2>5 DEF DeviceReady, Loops
  <2>7. Mount(s) \/ Remount(s)
    <3>1. pc'[s] # pc[s]
      OBVIOUS
    <3>2. PICK t \in Shims : /\ Others(t)
                             /\ Begin(t) \/ Chdir(t) \/ Mount(t) \/ Remount(t) \/ Stays(t)
                             /\ MountStep(t) \/ LoopStep(t) \/ pc'[t] \notin MountPcs
      BY <3>1, WorkSteps DEF IInv
    <3>3. t = s
      BY <3>1, <3>2 DEF Others
    <3>4. MountStep(s) \/ LoopStep(s)
      BY <3>2, <3>3 DEF MountPcs
    <3> QED
      BY <2>0, <3>4
         DEF MountStep, Begin, Ready, Chdir, ChdirFails, MountFails, RemountFails, First, LoopStep,
             get_free_loop_dev, SetFd, SetFdBusy, SetStatus, SetStatusFails, setup_loop
  <2>8. TopAt(mounts', Rootfs(s)) # 0 /\ mounts'[TopAt(mounts', Rootfs(s))].ro = ro
    <3>1. CASE Mount(s)
      <4>1. PICK m : /\ m.at = Rootfs(s) /\ mounts' = Append(mounts, m)
                     /\ m.ro = ("RDONLY" \in Work(s).flags /\ "BIND" \notin Work(s).flags)
        BY <3>1 DEF Mount, Mounted
      <4>2. ~ BindReadOnly(Work(s))
        BY <2>0, <3>1 DEF Mount
      <4>3. m.ro = ro
        BY <2>2, <2>3, <4>1, <4>2 DEF BindReadOnly, ReadOnly
      <4> QED
        BY <4>1, <4>3, TopMounted DEF IInv
    <3>2. CASE Remount(s)
      <4>1. BindReadOnly(Work(s)) /\ MountedAt(Rootfs(s)) # {}
        BY <2>4, <3>2 DEF Remount, BindReady
      <4>2. mounts' = [mounts EXCEPT ![TopAt(mounts, Rootfs(s))].ro = TRUE]
        BY <3>2, <4>1 DEF Remount
      <4>3. ro = TRUE
        BY <2>2, <2>3, <4>1 DEF BindReadOnly, ReadOnly
      <4> QED
        BY <4>1, <4>2, <4>3, TopChanged DEF IInv
    <3> QED
      BY <2>7, <3>1, <3>2
  <2> QED
    BY <2>6, <2>8 DEF ro
<1>4. MountsAnew => MountsAnew'
  BY DEF MountsAnew, Requests, Plan
<1> QED
  BY <1>1, <1>2, <1>3, <1>4, Invariant, PTL DEF Spec, MountedAsAsked
------------------------------------------------------------------------------
(* The synchronous shim.                                                   *)
Meanings == {"none", "Success", "ChdirErr", "NixUnknownErr", "NixOtherErr", "fork"}
Processes == [state: {"none", "runs", "logs", "hung", "exited", "killed"}, of: Nat,
              means: Meanings, locked: BOOLEAN]
Reports == [pid: Pids \cup {0}, means: Meanings, of: Nat]
SyncTypes ==
  /\ doing \in [Callers -> {"idle", "subscribed", "waiting", "returning"}]
  /\ own \in [Callers -> Pids \cup {0}]
  /\ result \in [Callers -> [means: Meanings, of: Nat]]
  /\ call \in [Callers -> Nat] /\ started \in Nat
  /\ proc \in [Pids -> Processes] /\ hand \in Reports
  /\ queue \in [Callers -> Seq(Reports)]

(* The reaper has an exit in hand from its waitpid until it is told.       *)
HandInv == reaper \in {"off", "waits", "reaps"} => hand = NoExit

(* A call has a number of its own, and children and reports one given.     *)
Active(c) == doing[c] # "idle"
CallsInv ==
  /\ \A c \in Callers : IF Active(c) THEN call[c] \in 1..started /\ c \in subs ELSE call[c] = 0
  /\ \A c, d \in Callers : Active(c) /\ Active(d) /\ call[c] = call[d] => c = d
  /\ \A p \in Pids : proc[p].of <= started
  /\ hand.of <= started
  /\ \A c \in Callers : \A i \in DOMAIN queue[c] : queue[c][i].of <= started

(* Success of the child of a call is told of a mount made.                 *)
Told(r, n) == r.means = "Success" /\ r.of = n => n \in made
MadeInv ==
  \A c \in Callers : Active(c) =>
    /\ Told(hand, call[c]) /\ \A p \in Pids : Told(proc[p], call[c])
    /\ \A d \in Callers : \A i \in DOMAIN queue[d] : Told(queue[d][i], call[c])
    /\ doing[c] = "returning" => Told(result[c], call[c])

(* Of the exits of its pid the first that a call is told is its child's.   *)
Tells(c, i) == queue[c][i].pid = own[c]
Coming(c) ==
  /\ IF hand.pid = own[c] THEN hand.of = call[c]
                          ELSE proc[own[c]].state # "none" /\ proc[own[c]].of = call[c]
  /\ \A i \in DOMAIN queue[c] : ~ Tells(c, i)
Arrived(c) ==
  \E i \in DOMAIN queue[c] :
    /\ Tells(c, i) /\ queue[c][i].of = call[c]
    /\ \A j \in DOMAIN queue[c] : j < i => ~ Tells(c, j)
WaitInv ==
  \A c \in Callers : c \notin reused =>
    /\ doing[c] = "waiting" => own[c] \in Pids /\ (Coming(c) \/ Arrived(c))
    /\ doing[c] = "returning" => result[c].of = call[c]
SyncInv == HandInv /\ CallsInv /\ MadeInv /\ WaitInv
------------------------------------------------------------------------------
(* Only an exit with 0 means success.                                      *)
LEMMA MeansFacts ==
  /\ Means(ExitCode(0)) = "Success"
  /\ \A code \in {ChdirErr, EINVAL, SIGKILLed} :
       Means(ExitCode(code)) \in Meanings \ {"Success"}
  BY DEF Means, ExitCode, ChdirErr, NixUnknownErr, EINVAL, SIGKILLed, Meanings

(* What a caller's step leaves alone and what it changes; the server's     *)
(* start, the logger and signals touch nothing of this.                    *)
Quiet == UNCHANGED <<callerVars, proc, hand, monitorVars, made, started>>

CallerStep(c) ==
  Subscribe(c) \/ Fork(c) \/ ForkFails(c) \/ WaitPid(c) \/ Unsubscribe(c)

(* A child of the same call goes on to exit, told of success if it mounted.*)
ChildStep(p) ==
  /\ proc' \in [Pids -> Processes] /\ \A q \in Pids : q # p => proc'[q] = proc[q]
  /\ proc[p].state # "none" /\ proc'[p].state # "none" /\ proc'[p].of = proc[p].of
  /\ proc'[p].means = "Success" =>
       \/ proc[p].means = "Success" \/ proc[p].of \in made'
       \/ \A c \in Callers : proc[p].of # call[c]
  /\ made \subseteq made' /\ UNCHANGED <<callerVars, hand, monitorVars, started>>

(* A step is one of these, of the reaper, or of a caller.                  *)
LEMMA SyncSteps ==
  ASSUME SyncTypes, [SyncNext]_syncVars
  PROVE  \/ Quiet \/ Stray \/ Notify
         \/ \E c \in Callers : CallerStep(c)
         \/ \E p \in Pids : ChildStep(p) \/ Reap(p)
<1>1. ASSUME \/ Spawn \/ OtherLeaves \/ open_log \/ Main \/ Signal
             \/ UNCHANGED syncVars
      PROVE  Quiet
  BY <1>1
  DEF Quiet, Spawn, OtherLeaves, open_log, Main, ServerStart, Signal, setup_signals, bootstrap,
      create_server, AddrInUse, wait_socket_working, write_address, remove_socket,
      signal_server_started, HandleSignals, Wait, Shutdown, read_address, MainGoes, syncVars,
      threadVars, callerVars, monitorVars, reaperVars
<1>2. ASSUME (\E t : Log(t) \/ Logged(t)) \/ MainLogged \/ ReaperLogged PROVE Quiet
  BY <1>2 DEF Quiet, Log, Logged, MainLogged, ReaperLogged, reaperVars
<1>3. ASSUME TakeSignal \/ TakeOther \/ NoneLeft PROVE Quiet
  BY <1>3 DEF Quiet, TakeSignal, TakeOther, NoneLeft
<1>4. ASSUME NEW p \in Pids, Child(p) \/ ChildLogged(p) \/ ChildKilled(p) PROVE ChildStep(p)
  <2>1. /\ proc[p] \in Processes /\ proc \in [Pids -> Processes]
        /\ proc[p].state \in {"runs", "logs", "hung"}
    BY <1>4 DEF Child, ChildMounts, ChildChdirFails, ChildMountFails, ChildLogged, ChildKilled,
                SyncTypes
  <2>2. ASSUME NEW code, NEW how \in {"exited", "killed"}, Exits(p, code, how),
               Means(ExitCode(code)) \in Meanings
        PROVE  /\ proc' \in [Pids -> Processes] /\ \A q \in Pids : q # p => proc'[q] = proc[q]
               /\ proc'[p].state # "none" /\ proc'[p].of = proc[p].of
               /\ proc'[p].means = Means(ExitCode(code)) /\ hand' = hand
    <3> DEFINE m == Means(ExitCode(code))
               r == [proc[p] EXCEPT !.state = how, !.locked = FALSE, !.means = m]
    <3>1. proc' = [proc EXCEPT ![p] = r] /\ hand' = hand
      BY <2>2 DEF Exits
    <3>2. m \in Meanings
      BY <2>2
    <3> HIDE DEF m
    <3>3. r \in Processes /\ r.state # "none" /\ r.of = proc[p].of /\ r.means = m
      BY <2>1, <2>2, <3>2 DEF Processes
    <3> HIDE DEF r
    <3>4. /\ proc' \in [Pids -> Processes] /\ proc'[p] = r
          /\ \A q \in Pids : q # p => proc'[q] = proc[q]
      BY <2>1, <3>1, <3>3
    <3> QED
      BY <3>1, <3>3, <3>4 DEF m
  <2>3. CASE ChildMounts(p)
    <3>1. Exits(p, 0, "exited") /\ Means(ExitCode(0)) \in Meanings
      BY <2>3, MeansFacts DEF ChildMounts, Meanings
    <3>2. proc[p].of \in {call[c] : c \in Callers} => proc[p].of \in made'
      BY <2>3 DEF ChildMounts
    <3> QED
      BY <2>1, <2>2, <2>3, <3>1, <3>2 DEF ChildMounts, ChildStep
  <2>4. ASSUME NEW code \in {ChdirErr, EINVAL, SIGKILLed}, NEW how \in {"exited", "killed"},
               Exits(p, code, how), made' = made,
               UNCHANGED <<callerVars, monitorVars, started>>
        PROVE  ChildStep(p)
    <3>1. Means(ExitCode(code)) \in Meanings \ {"Success"}
      BY <2>4, MeansFacts
    <3> QED
      BY <2>1, <2>2, <2>4, <3>1 DEF ChildStep
  <2>5. CASE ChildChdirFails(p)
    BY <2>4, <2>5 DEF ChildChdirFails
  <2>6. CASE ChildLogged(p)
    BY <2>4, <2>6 DEF ChildLogged
  <2>7. CASE ChildMountFails(p)
    <3> DEFINE r == [proc[p] EXCEPT !.state = IF proc[p].locked THEN "hung" ELSE "logs"]
    <3>1. proc' = [proc EXCEPT ![p] = r] /\ proc[p].state = "runs"
      BY <2>7 DEF ChildMountFails
    <3>2. r \in Processes /\ r.state # "none" /\ r.of = proc[p].of /\ r.means = proc[p].means
      BY <2>1 DEF Processes
    <3> HIDE DEF r
    <3>3. /\ proc' \in [Pids -> Processes] /\ proc'[p] = r
          /\ \A q \in Pids : q # p => proc'[q] = proc[q]
      BY <2>1, <3>1, <3>2
    <3> QED
      BY <2>1, <2>7, <3>1, <3>2, <3>3 DEF ChildMountFails, ChildStep, reaperVars
  <2>8. CASE ChildKilled(p)
    BY <2>4, <2>8 DEF ChildKilled
  <2> QED
    BY <1>4, <2>3, <2>5, <2>6, <2>7, <2>8 DEF Child
<1>5. CASE Stray \/ Notify \/ \E c \in Callers : CallerStep(c)
  BY <1>5
<1>6. CASE \E p \in Pids : Reap(p)
  BY <1>6
<1>7. SyncNext => \/ Spawn \/ OtherLeaves \/ open_log \/ Main
                  \/ Signal \/ TakeSignal \/ TakeOther \/ NoneLeft
                  \/ (\E t : Log(t) \/ Logged(t)) \/ MainLogged \/ ReaperLogged
                  \/ \E p \in Pids : Child(p) \/ ChildLogged(p) \/ ChildKilled(p) \/ Reap(p)
                  \/ Stray \/ Notify \/ \E c \in Callers : CallerStep(c)
  BY DEF SyncNext, Reaper, Caller, CallerStep
<1> QED
  BY <1>1, <1>2, <1>3, <1>4, <1>5, <1>6, <1>7

(* Nobody calls at first.                                                  *)
LEMMA SyncInitInv == SyncInit => SyncTypes /\ SyncInv
  BY DEF SyncInit, SyncTypes, Processes, Reports, SyncInv, HandInv, CallsInv, MadeInv, WaitInv,
         NoProc, NoResult, NoExit, Meanings, Active, Told

(* Only waitpid puts an exit in hand, and a reaper that waits for none has *)
(* told the one it had.                                                    *)
LEMMA HandStep ==
  ASSUME HandInv, [SyncNext]_syncVars
  PROVE  HandInv'
<1>1. ASSUME UNCHANGED <<reaper, hand>> PROVE HandInv'
  BY <1>1 DEF HandInv
<1>2. ASSUME \/ Spawn \/ OtherLeaves \/ open_log \/ ServerStart \/ Wait \/ Shutdown \/ read_address
             \/ Signal \/ UNCHANGED syncVars
      PROVE  HandInv'
  BY <1>1, <1>2
  DEF Spawn, OtherLeaves, open_log, ServerStart, Signal, setup_signals, bootstrap,
      create_server, AddrInUse, wait_socket_working, write_address, remove_socket,
      signal_server_started, Wait, Shutdown, read_address, MainGoes, syncVars,
      threadVars, reaperVars
<1>3. ASSUME Stray \/ MainLogged \/ \E t : Log(t) \/ Logged(t) PROVE HandInv'
  BY <1>1, <1>3 DEF Stray, Log, Logged, MainLogged, reaperVars
<1>4. ASSUME NEW c \in Callers, CallerStep(c) PROVE HandInv'
  BY <1>1, <1>4 DEF CallerStep, Subscribe, Fork, ForkFails, WaitPid, Unsubscribe, reaperVars
<1>5. ASSUME NEW p \in Pids, Child(p) \/ ChildLogged(p) \/ ChildKilled(p) PROVE HandInv'
  BY <1>1, <1>5 DEF Child, ChildMounts, ChildChdirFails, ChildMountFails, ChildLogged,
                    ChildKilled, Exits, reaperVars
<1>6. ASSUME HandleSignals \/ TakeSignal \/ TakeOther \/ NoneLeft \/ Notify \/ ReaperLogged
      PROVE  HandInv'
  BY <1>6 DEF HandleSignals, TakeSignal, TakeOther, NoneLeft, Notify, ReaperLogged, HandInv
<1>7. ASSUME NEW p \in Pids, Reap(p) PROVE HandInv'
  BY <1>7 DEF Reap, HandInv
<1> QED
  BY <1>2, <1>3, <1>4, <1>5, <1>6, <1>7 DEF SyncNext, Main, Reaper, Caller, CallerStep

(* Every step keeps the types.                                             *)
LEMMA SyncTypesStep ==
  ASSUME SyncTypes, [SyncNext]_syncVars
  PROVE  SyncTypes'
<1> USE DEF callerVars, monitorVars, reaperVars
<1>0. <<>> \in Seq(Reports) /\ started + 1 \in Nat /\ 0 \in Nat
  BY EmptySeq DEF SyncTypes
<1>1. CASE Quiet
  BY <1>1 DEF Quiet, SyncTypes
<1>2. ASSUME NEW p \in Pids, ChildStep(p) PROVE SyncTypes'
  BY <1>2 DEF ChildStep, SyncTypes
<1>3. ASSUME NEW c \in Callers, Subscribe(c) PROVE SyncTypes'
  BY <1>0, <1>3 DEF Subscribe, SyncTypes
<1>4. ASSUME NEW p \in Free, NEW of \in Nat, Starts(p, of)
      PROVE  proc' \in [Pids -> Processes] /\ p \in Pids
  BY <1>4 DEF Starts, SyncTypes, Processes, Meanings, Free
<1>5. ASSUME NEW c \in Callers, Fork(c) PROVE SyncTypes'
  <2>1. call[c] \in Nat
    BY DEF SyncTypes
  <2> QED
    BY <1>4, <1>5, <2>1 DEF Fork, SyncTypes
<1>6. CASE Stray
  BY <1>0, <1>4, <1>6 DEF Stray, SyncTypes
<1>7. ASSUME NEW c \in Callers, ForkFails(c) PROVE SyncTypes'
  BY <1>7 DEF ForkFails, SyncTypes, Meanings
<1>8. ASSUME NEW c \in Callers, WaitPid(c) PROVE SyncTypes'
  <2>1. queue[c] \in Seq(Reports) /\ queue[c] # <<>>
    BY <1>8 DEF WaitPid, SyncTypes
  <2>2. Head(queue[c]) \in Reports /\ Tail(queue[c]) \in Seq(Reports)
    BY <2>1, HeadTailProperties
  <2> DEFINE event == Head(queue[c])
  <2>3. [means |-> event.means, of |-> event.of] \in [means: Meanings, of: Nat]
    BY <2>2 DEF Reports
  <2> QED
    BY <1>8, <2>2, <2>3 DEF WaitPid, SyncTypes
<1>9. ASSUME NEW c \in Callers, Unsubscribe(c) PROVE SyncTypes'
  BY <1>0, <1>9 DEF Unsubscribe, SyncTypes, NoResult, Meanings
<1>10. ASSUME NEW p \in Pids, Reap(p) PROVE SyncTypes'
  <2>1. hand' \in Reports
    BY <1>10 DEF Reap, SyncTypes, Processes, Reports
  <2>2. proc' \in [Pids -> Processes]
    BY <1>10 DEF Reap, NoProc, SyncTypes, Processes, Meanings
  <2> QED
    BY <1>10, <2>1, <2>2 DEF Reap, SyncTypes
<1>11. CASE Notify
  <2>1. \A c \in Callers : Append(queue[c], hand) \in Seq(Reports)
    BY AppendProperties DEF SyncTypes
  <2>2. queue' \in [Callers -> Seq(Reports)]
    BY <1>11, <2>1 DEF Notify, notify_by_pid, SyncTypes
  <2>3. hand' \in Reports
    BY <1>11 DEF Notify, NoExit, Reports, Meanings
  <2> QED
    BY <1>11, <2>2, <2>3 DEF Notify, SyncTypes
<1> QED
  BY <1>1, <1>2, <1>3, <1>5, <1>6, <1>7, <1>8, <1>9, <1>10, <1>11, SyncSteps DEF CallerStep

(* A report at the end of a queue, and one taken from its front.           *)
LEMMA QueueFacts ==
  ASSUME NEW s \in Seq(Reports), NEW r \in Reports
  PROVE  /\ DOMAIN Append(s, r) = 1..Len(s) + 1 /\ DOMAIN s = 1..Len(s) /\ Len(s) \in Nat
         /\ \A i \in 1..Len(s) : Append(s, r)[i] = s[i]
         /\ Append(s, r)[Len(s) + 1] = r
         /\ s # <<>> => /\ DOMAIN Tail(s) = 1..Len(s) - 1 /\ Len(s) > 0 /\ Head(s) = s[1]
                        /\ \A i \in 1..Len(s) - 1 : Tail(s)[i] = s[i + 1]
  BY AppendProperties, HeadTailProperties, LenProperties

(* waitpid puts the exit of a pid in hand.                                 *)
Reaped(p) ==
  /\ \A q \in Pids : proc'[q] = IF q = p THEN NoProc ELSE proc[q]
  /\ hand = NoExit /\ hand'.pid = p /\ hand'.means = proc[p].means /\ hand'.of = proc[p].of
  /\ UNCHANGED <<made, started, subs, queue, doing, own, result, call, reused>>

(* A reap takes a pid's exit when none is in hand.                         *)
LEMMA ReapFacts ==
  ASSUME SyncTypes, HandInv, NEW p \in Pids, Reap(p)
  PROVE  Reaped(p)
  BY DEF Reap, Reaped, HandInv, SyncTypes, callerVars, monitorVars

(* The exit in hand becomes the last report of each queue of a subscriber. *)
Notified ==
  /\ \A c \in Callers \ subs : queue'[c] = queue[c]
  /\ \A c \in Callers \cap subs :
       /\ DOMAIN queue'[c] = 1..Len(queue[c]) + 1 /\ DOMAIN queue[c] = 1..Len(queue[c])
       /\ Len(queue[c]) \in Nat
       /\ \A i \in DOMAIN queue[c] : queue'[c][i] = queue[c][i]
       /\ queue'[c][Len(queue[c]) + 1] = hand
  /\ hand' = NoExit
  /\ UNCHANGED <<proc, made, started, subs, doing, own, result, call, reused>>

(* A notification sends the exit in hand to every subscriber.              *)
LEMMA NotifyFacts ==
  ASSUME SyncTypes, Notify
  PROVE  Notified
<1>1. queue' = [c \in Callers |-> IF c \in subs THEN Append(queue[c], hand) ELSE queue[c]]
  BY DEF Notify, notify_by_pid
<1>2. hand \in Reports /\ \A c \in Callers : queue[c] \in Seq(Reports)
  BY DEF SyncTypes
<1>3. \A c \in Callers \cap subs :
        /\ DOMAIN queue'[c] = 1..Len(queue[c]) + 1 /\ DOMAIN queue[c] = 1..Len(queue[c])
        /\ Len(queue[c]) \in Nat
        /\ \A i \in DOMAIN queue[c] : queue'[c][i] = queue[c][i]
        /\ queue'[c][Len(queue[c]) + 1] = hand
  BY <1>1, <1>2, QueueFacts
<1>4. \A c \in Callers \ subs : queue'[c] = queue[c]
  BY <1>1
<1> QED
  BY <1>3, <1>4 DEF Notify, Notified, callerVars

(* wait_pid takes the first report, and returns with that of its child.    *)
Took(c) ==
  /\ DOMAIN queue[c] = 1..Len(queue[c]) /\ Len(queue[c]) \in Nat \ {0}
  /\ DOMAIN queue'[c] = 1..Len(queue[c]) - 1
  /\ \A i \in DOMAIN queue'[c] : queue'[c][i] = queue[c][i + 1] /\ i + 1 \in DOMAIN queue[c]
  /\ \A d \in Callers :
       d # c => queue'[d] = queue[d] /\ doing'[d] = doing[d] /\ result'[d] = result[d]
  /\ doing[c] = "waiting"
  /\ Tells(c, 1) => /\ doing'[c] = "returning"
                    /\ result'[c].means = queue[c][1].means /\ result'[c].of = queue[c][1].of
  /\ ~ Tells(c, 1) => doing'[c] = doing[c] /\ result'[c] = result[c]
  /\ UNCHANGED <<own, call, reused, proc, hand, subs, made, started>>

(* A step of wait_pid takes the first report of its queue.                 *)
LEMMA WaitFacts ==
  ASSUME SyncTypes, NEW c \in Callers, WaitPid(c)
  PROVE  Took(c)
<1>1. /\ DOMAIN queue[c] = 1..Len(queue[c]) /\ Len(queue[c]) \in Nat \ {0}
      /\ DOMAIN Tail(queue[c]) = 1..Len(queue[c]) - 1 /\ Head(queue[c]) = queue[c][1]
      /\ \A i \in 1..Len(queue[c]) - 1 : Tail(queue[c])[i] = queue[c][i + 1]
  BY HeadTailProperties, LenProperties DEF WaitPid, SyncTypes
<1>2. queue'[c] = Tail(queue[c]) /\ \A d \in Callers : d # c => queue'[d] = queue[d]
  BY DEF WaitPid, SyncTypes
<1>3. CASE Tells(c, 1)
  BY <1>1, <1>2, <1>3 DEF WaitPid, SyncTypes, Tells, Took, reaperVars
<1>4. CASE ~ Tells(c, 1)
  BY <1>1, <1>2, <1>4 DEF WaitPid, SyncTypes, Tells, Took, reaperVars
<1> QED
  BY <1>3, <1>4

(* Calls, children and reports are numbered.                               *)
LEMMA OfFacts ==
  ASSUME SyncTypes
  PROVE  /\ hand.of \in Nat /\ \A p \in Pids : proc[p].of \in Nat
         /\ \A c \in Callers : \A i \in DOMAIN queue[c] :
              queue[c][i] \in Reports /\ queue[c][i].of \in Nat
<1>1. ASSUME NEW c \in Callers, NEW i \in DOMAIN queue[c] PROVE queue[c][i] \in Reports
  <2>1. queue[c] \in Seq(Reports)
    BY DEF SyncTypes
  <2>2. i \in 1..Len(queue[c])
    BY <2>1, LenProperties
  <2> QED
    BY <2>1, <2>2, ElementOfSeq
<1> QED
  BY <1>1 DEF SyncTypes, Processes, Reports

(* A number is given once, and is not given back.                          *)
LEMMA CallsStep ==
  ASSUME SyncTypes, HandInv, CallsInv, [SyncNext]_syncVars
  PROVE  CallsInv'
<1> USE DEF callerVars, monitorVars, reaperVars
<1>1. CASE Quiet
  BY <1>1 DEF Quiet, CallsInv, Active
<1>2. ASSUME NEW p \in Pids, ChildStep(p) PROVE CallsInv'
  BY <1>2 DEF ChildStep, CallsInv, Active
<1>3. ASSUME NEW c \in Callers, Subscribe(c) PROVE CallsInv'
  <2>1. /\ \A d \in Callers :
             d # c => doing'[d] = doing[d] /\ call'[d] = call[d] /\ queue'[d] = queue[d]
        /\ doing'[c] = "subscribed" /\ call'[c] = started + 1 /\ queue'[c] = <<>>
        /\ started' = started + 1 /\ subs' = subs \cup {c} /\ UNCHANGED <<proc, hand>>
    BY <1>3 DEF Subscribe, SyncTypes
  <2>2. /\ started \in Nat /\ hand.of \in Nat
        /\ \A d \in Callers : call[d] \in Nat /\ \A p \in Pids : proc[p].of \in Nat
    BY DEF SyncTypes, Processes, Reports
  <2>3. \A d \in Callers : \A i \in DOMAIN queue[d] : queue[d][i].of \in Nat
    BY OfFacts
  <2> QED
    BY <2>1, <2>2, <2>3 DEF CallsInv, Active
<1>4. ASSUME NEW p \in Pids, NEW of \in Nat, Starts(p, of), of <= started, started' = started
      PROVE  \A q \in Pids : proc'[q].of <= started'
  BY <1>4 DEF Starts, CallsInv, SyncTypes
<1>5. ASSUME NEW c \in Callers, Fork(c) PROVE CallsInv'
  <2>1. call[c] \in Nat /\ call[c] <= started
    BY <1>5 DEF Fork, SyncTypes, CallsInv, Active
  <2>2. \A q \in Pids : proc'[q].of <= started'
    BY <1>4, <1>5, <2>1 DEF Fork, Free
  <2> QED
    BY <1>5, <2>2 DEF Fork, CallsInv, Active, SyncTypes
<1>6. CASE Stray
  <2>1. started \in Nat /\ started' = started + 1 /\ \A d \in Callers : call[d] \in Nat
    BY <1>6 DEF Stray, SyncTypes
  <2>2. \A p \in Pids : proc'[p].of \in Nat /\ proc'[p].of <= started'
    BY <1>6, <2>1 DEF Stray, Starts, CallsInv, SyncTypes, Processes, Free
  <2>3. hand.of \in Nat /\ \A d \in Callers : \A i \in DOMAIN queue[d] : queue[d][i].of \in Nat
    BY OfFacts
  <2> QED
    BY <1>6, <2>1, <2>2, <2>3 DEF Stray, CallsInv, Active
<1>7. ASSUME NEW c \in Callers, ForkFails(c) PROVE CallsInv'
  BY <1>7 DEF ForkFails, CallsInv, Active, SyncTypes
<1>8. ASSUME NEW c \in Callers, WaitPid(c) PROVE CallsInv'
  BY <1>8, WaitFacts DEF Took, CallsInv, Active
<1>9. ASSUME NEW c \in Callers, Unsubscribe(c) PROVE CallsInv'
  BY <1>9 DEF Unsubscribe, CallsInv, Active, SyncTypes
<1>10. ASSUME NEW p \in Pids, Reap(p) PROVE CallsInv'
  <2>1. Reaped(p) /\ started \in Nat
    BY <1>10, ReapFacts DEF SyncTypes
  <2>2. hand'.of <= started' /\ \A q \in Pids : proc'[q].of <= started'
    BY <2>1 DEF Reaped, NoProc, CallsInv
  <2> QED
    BY <2>1, <2>2 DEF Reaped, CallsInv, Active
<1>11. CASE Notify
  <2>1. Notified /\ started \in Nat
    BY <1>11, NotifyFacts DEF SyncTypes
  <2>2. ASSUME NEW c \in Callers, NEW i \in DOMAIN queue'[c] PROVE queue'[c][i].of <= started'
    BY <2>1, <2>2 DEF Notified, CallsInv
  <2> QED
    BY <2>1, <2>2 DEF Notified, NoExit, CallsInv, Active
<1> QED
  BY <1>1, <1>2, <1>3, <1>5, <1>6, <1>7, <1>8, <1>9, <1>10, <1>11, SyncSteps DEF CallerStep

(* Nothing tells of the success of a mount not made.                       *)
LEMMA MadeStep ==
  ASSUME SyncTypes, HandInv, CallsInv, MadeInv, [SyncNext]_syncVars
  PROVE  MadeInv'
<1> USE DEF callerVars, monitorVars, reaperVars, Told
<1>1. CASE Quiet
  BY <1>1 DEF Quiet, MadeInv, Active
<1>2. ASSUME NEW p \in Pids, ChildStep(p) PROVE MadeInv'
  BY <1>2 DEF ChildStep, MadeInv, Active
<1>3. ASSUME NEW c \in Callers, Subscribe(c) PROVE MadeInv'
  <2>1. /\ \A d \in Callers :
             d # c => doing'[d] = doing[d] /\ call'[d] = call[d] /\ queue'[d] = queue[d]
        /\ doing'[c] = "subscribed" /\ call'[c] = started + 1 /\ queue'[c] = <<>>
        /\ UNCHANGED <<proc, hand, made, result>>
    BY <1>3 DEF Subscribe, SyncTypes
  <2>2. started \in Nat
    BY DEF SyncTypes
  <2>3. ASSUME NEW d \in Callers, d # c, Active(d)'
        PROVE  /\ Told(hand, call[d])' /\ \A p \in Pids : Told(proc[p], call[d])'
               /\ \A e \in Callers : \A i \in DOMAIN queue'[e] : Told(queue[e][i], call[d])'
               /\ doing'[d] = "returning" => Told(result[d], call[d])'
    BY <2>1, <2>3 DEF MadeInv, Active
  <2>4. /\ Told(hand, call[c])' /\ \A p \in Pids : Told(proc[p], call[c])'
        /\ \A e \in Callers : \A i \in DOMAIN queue'[e] : Told(queue[e][i], call[c])'
    BY <2>1, <2>2, OfFacts DEF CallsInv
  <2> QED
    BY <2>1, <2>3, <2>4 DEF MadeInv
<1>4. ASSUME NEW p \in Free, NEW of \in Nat, Starts(p, of)
      PROVE  \A q \in Pids : q # p => proc'[q] = proc[q] /\ proc'[p].means = "none"
  BY <1>4 DEF Starts, SyncTypes, Free
<1>5. ASSUME NEW c \in Callers, Fork(c) PROVE MadeInv'
  <2>1. /\ \A d \in Callers : d # c => doing'[d] = doing[d]
        /\ doing[c] = "subscribed" /\ doing'[c] = "waiting"
        /\ UNCHANGED <<call, hand, queue, result, made>>
    BY <1>5 DEF Fork, SyncTypes
  <2>2. ASSUME NEW q \in Pids PROVE proc'[q].means # "Success" \/ proc'[q] = proc[q]
    BY <1>5 DEF Fork, Starts, SyncTypes, Free
  <2> QED
    BY <2>1, <2>2 DEF MadeInv, Active
<1>6. CASE Stray
  <2>1. ASSUME NEW q \in Pids PROVE proc'[q].means # "Success" \/ proc'[q] = proc[q]
    BY <1>6 DEF Stray, Starts, SyncTypes, Free
  <2> QED
    BY <1>6, <2>1 DEF Stray, MadeInv, Active
<1>7. ASSUME NEW c \in Callers, ForkFails(c) PROVE MadeInv'
  <2>1. /\ \A d \in Callers : d # c => doing'[d] = doing[d] /\ result'[d] = result[d]
        /\ doing[c] = "subscribed" /\ result'[c].means = "fork"
        /\ UNCHANGED <<call, hand, queue, proc, made>>
    BY <1>7 DEF ForkFails, SyncTypes
  <2> QED
    BY <2>1 DEF MadeInv, Active
<1>8. ASSUME NEW c \in Callers, WaitPid(c) PROVE MadeInv'
  <2>1. Took(c)
    BY <1>8, WaitFacts
  <2>2. ASSUME NEW d \in Callers, Active(d)'
        PROVE  /\ Active(d)
               /\ Told(hand, call[d])' /\ \A p \in Pids : Told(proc[p], call[d])'
               /\ \A e \in Callers : \A i \in DOMAIN queue'[e] : Told(queue[e][i], call[d])'
    BY <2>1, <2>2 DEF Took, MadeInv, Active
  <2>3. ASSUME NEW d \in Callers, doing'[d] = "returning" PROVE Told(result[d], call[d])'
    BY <2>1, <2>3 DEF Took, MadeInv, Active
  <2> QED
    BY <2>2, <2>3 DEF MadeInv
<1>9. ASSUME NEW c \in Callers, Unsubscribe(c) PROVE MadeInv'
  <2>1. /\ \A d \in Callers : d # c => /\ doing'[d] = doing[d] /\ call'[d] = call[d]
                                       /\ queue'[d] = queue[d] /\ result'[d] = result[d]
        /\ doing[c] = "returning" /\ doing'[c] = "idle" /\ queue'[c] = <<>>
        /\ UNCHANGED <<proc, hand>> /\ made' = made \ {call[c]}
    BY <1>9 DEF Unsubscribe, SyncTypes
  <2>2. ASSUME NEW d \in Callers, Active(d)' PROVE d # c /\ Active(d) /\ call[d] # call[c]
    BY <2>1, <2>2 DEF CallsInv, Active
  <2> QED
    BY <2>1, <2>2 DEF MadeInv
<1>10. ASSUME NEW p \in Pids, Reap(p) PROVE MadeInv'
  <2>1. Reaped(p)
    BY <1>10, ReapFacts
  <2>2. ASSUME NEW c \in Callers, Active(c)
        PROVE  Told(hand, call[c])' /\ \A q \in Pids : Told(proc[q], call[c])'
    BY <2>1, <2>2 DEF Reaped, NoProc, MadeInv
  <2> QED
    BY <2>1, <2>2 DEF Reaped, MadeInv, Active
<1>11. CASE Notify
  <2>1. Notified
    BY <1>11, NotifyFacts
  <2>2. ASSUME NEW c \in Callers, Active(c), NEW d \in Callers, NEW i \in DOMAIN queue'[d]
        PROVE  Told(queue[d][i], call[c])'
    BY <2>1, <2>2 DEF Notified, MadeInv
  <2> QED
    BY <2>1, <2>2 DEF Notified, NoExit, MadeInv, Active
<1> QED
  BY <1>1, <1>2, <1>3, <1>5, <1>6, <1>7, <1>8, <1>9, <1>10, <1>11, SyncSteps DEF CallerStep

(* The child that a call waits for has yet to be told, and its exit comes  *)
(* after no other of its pid, or its exit is the first of its pid to come. *)
Waits(c) ==
  c \notin reused =>
    /\ doing[c] = "waiting" => own[c] \in Pids /\ (Coming(c) \/ Arrived(c))
    /\ doing[c] = "returning" => result[c].of = call[c]

(* A step that leaves a caller and what it waits for alone.                *)
LEMMA WaitSame ==
  ASSUME NEW c \in Callers, Waits(c),
         doing'[c] = doing[c], own'[c] = own[c], result'[c] = result[c], call'[c] = call[c],
         queue'[c] = queue[c], hand' = hand, c \notin reused' => c \notin reused,
         proc[own[c]].state # "none" /\ own[c] \in Pids =>
           proc'[own[c]].state # "none" /\ proc'[own[c]].of = proc[own[c]].of
  PROVE  Waits(c)'
<1>1. CASE doing[c] = "waiting" /\ c \notin reused /\ Coming(c)
  BY <1>1 DEF Waits, Coming, Tells
<1>2. CASE doing[c] = "waiting" /\ c \notin reused /\ Arrived(c)
  BY <1>2 DEF Waits, Arrived, Tells
<1> QED
  BY <1>1, <1>2 DEF Waits

(* The first exit of its pid that a caller can take is its child's.        *)
LEMMA WaitStep ==
  ASSUME SyncTypes, HandInv, CallsInv, WaitInv, [SyncNext]_syncVars
  PROVE  WaitInv'
<1> USE DEF callerVars, monitorVars, reaperVars
<1>0. WaitInv = (\A c \in Callers : Waits(c)) /\ WaitInv' = (\A c \in Callers : Waits(c)')
  BY DEF WaitInv, Waits
<1>1. CASE Quiet
  BY <1>0, <1>1, WaitSame DEF Quiet
<1>2. ASSUME NEW p \in Pids, ChildStep(p), NEW d \in Callers PROVE Waits(d)'
  BY <1>0, <1>2, WaitSame DEF ChildStep
<1>3. ASSUME NEW c \in Callers, Subscribe(c), NEW d \in Callers PROVE Waits(d)'
  <2>1. /\ d # c => doing'[d] = doing[d] /\ call'[d] = call[d] /\ queue'[d] = queue[d]
        /\ doing'[c] = "subscribed" /\ UNCHANGED <<own, result, reused, proc, hand>>
    BY <1>3 DEF Subscribe, SyncTypes
  <2>2. CASE d = c
    BY <2>1, <2>2 DEF Waits
  <2>3. CASE d # c
    BY <1>0, <2>1, <2>3, WaitSame
  <2> QED
    BY <2>2, <2>3
<1>4. ASSUME NEW p \in Free, NEW of \in Nat, Starts(p, of)
      PROVE  /\ \A q \in Pids : proc[q].state # "none" => proc'[q] = proc[q]
             /\ proc'[p].state = "runs" /\ proc'[p].of = of /\ p \in Pids
  BY <1>4 DEF Starts, SyncTypes, Free
<1>5. ASSUME NEW c \in Callers, Fork(c), NEW d \in Callers PROVE Waits(d)'
  <2>1. PICK p \in Free :
          /\ Starts(p, call[c]) /\ own' = [own EXCEPT ![c] = p]
          /\ reused' = IF hand.pid = p \/ \E i \in DOMAIN queue[c] : queue[c][i].pid = p
                       THEN reused \cup {c} ELSE reused
    BY <1>5 DEF Fork
  <2>2. call[c] \in Nat
    BY DEF SyncTypes
  <2>3. /\ \A q \in Pids : proc[q].state # "none" => proc'[q] = proc[q]
        /\ proc'[p].state = "runs" /\ proc'[p].of = call[c] /\ p \in Pids
    BY <1>4, <2>1, <2>2
  <2>4. /\ own'[c] = p /\ doing'[c] = "waiting" /\ reused \subseteq reused'
        /\ d # c => doing'[d] = doing[d] /\ own'[d] = own[d] /\ (d \in reused' => d \in reused)
        /\ UNCHANGED <<result, call, hand, queue>>
    BY <1>5, <2>1 DEF Fork, SyncTypes
  <2>5. CASE d = c
    <3>1. c \notin reused' => hand.pid # p /\ \A i \in DOMAIN queue[c] : queue[c][i].pid # p
      BY <2>1
    <3>2. c \notin reused' => Coming(c)'
      BY <2>3, <2>4, <3>1 DEF Coming, Tells
    <3> QED
      BY <2>3, <2>4, <2>5, <3>2 DEF Waits
  <2>6. CASE d # c
    BY <1>0, <2>3, <2>4, <2>6, WaitSame
  <2> QED
    BY <2>5, <2>6
<1>6. ASSUME Stray, NEW d \in Callers PROVE Waits(d)'
  <2>1. PICK p \in Free : Starts(p, 0)
    BY <1>6 DEF Stray
  <2>2. \A q \in Pids : proc[q].state # "none" => proc'[q] = proc[q]
    BY <1>4, <2>1
  <2> QED
    BY <1>0, <1>6, <2>2, WaitSame DEF Stray
<1>7. ASSUME NEW c \in Callers, ForkFails(c), NEW d \in Callers PROVE Waits(d)'
  <2>1. /\ d # c => doing'[d] = doing[d] /\ result'[d] = result[d]
        /\ doing'[c] = "returning" /\ result'[c].of = call[c]
        /\ UNCHANGED <<own, call, queue, reused, proc, hand>>
    BY <1>7 DEF ForkFails, SyncTypes
  <2>2. CASE d = c
    BY <2>1, <2>2 DEF Waits
  <2>3. CASE d # c
    BY <1>0, <2>1, <2>3, WaitSame
  <2> QED
    BY <2>2, <2>3
<1>8. ASSUME NEW c \in Callers, WaitPid(c), NEW d \in Callers PROVE Waits(d)'
  <2>1. Took(c)
    BY <1>8, WaitFacts
  <2>2. CASE d # c
    BY <1>0, <2>1, <2>2, WaitSame DEF Took
  <2>3. CASE d = c /\ c \notin reused /\ Coming(c)
    <3>1. ~ Tells(c, 1)
      BY <2>1, <2>3 DEF Coming, Took
    <3>2. doing'[c] = "waiting" /\ own'[c] = own[c] /\ own[c] \in Pids
      BY <1>0, <2>1, <2>3, <3>1 DEF Took, Waits
    <3>3. Coming(c)'
      BY <2>1, <2>3, <3>2 DEF Coming, Tells, Took
    <3> QED
      BY <2>3, <3>2, <3>3 DEF Waits
  <2>4. CASE d = c /\ c \notin reused /\ Arrived(c)
    <3>1. PICK i \in DOMAIN queue[c] :
            /\ Tells(c, i) /\ queue[c][i].of = call[c]
            /\ \A j \in DOMAIN queue[c] : j < i => ~ Tells(c, j)
      BY <2>4 DEF Arrived
    <3>2. i \in 1..Len(queue[c]) /\ Len(queue[c]) \in Nat /\ 1 \in DOMAIN queue[c]
      BY <2>1 DEF Took
    <3>3. CASE i = 1
      BY <2>1, <2>4, <3>1, <3>3 DEF Took, Waits
    <3>4. CASE i # 1
      <4>1. ~ Tells(c, 1) /\ i - 1 \in DOMAIN queue'[c]
        BY <2>1, <3>1, <3>2, <3>4 DEF Took
      <4>2. doing'[c] = "waiting" /\ own'[c] = own[c] /\ own[c] \in Pids /\ call'[c] = call[c]
        BY <1>0, <2>1, <2>4, <4>1 DEF Took, Waits
      <4>3. queue'[c][i - 1] = queue[c][i]
        BY <2>1, <3>2, <4>1 DEF Took
      <4>4. ASSUME NEW j \in DOMAIN queue'[c], j < i - 1 PROVE ~ Tells(c, j)'
        <5>1. queue'[c][j] = queue[c][j + 1] /\ j + 1 \in DOMAIN queue[c] /\ j + 1 < i
          BY <2>1, <3>2, <4>4 DEF Took
        <5> QED
          BY <3>1, <4>2, <5>1 DEF Tells
      <4>5. Arrived(c)'
        BY <3>1, <4>1, <4>2, <4>3, <4>4 DEF Arrived, Tells
      <4> QED
        BY <2>4, <4>2, <4>5 DEF Waits
    <3> QED
      BY <3>3, <3>4
  <2>5. CASE d = c /\ c \in reused
    BY <2>1, <2>5 DEF Took, Waits
  <2> QED
    BY <1>0, <2>1, <2>2, <2>3, <2>4, <2>5 DEF Waits, Took
<1>9. ASSUME NEW c \in Callers, Unsubscribe(c), NEW d \in Callers PROVE Waits(d)'
  <2>1. /\ d # c => /\ doing'[d] = doing[d] /\ own'[d] = own[d] /\ call'[d] = call[d]
                    /\ queue'[d] = queue[d] /\ result'[d] = result[d]
                    /\ (d \in reused' <=> d \in reused)
        /\ doing'[c] = "idle" /\ UNCHANGED <<proc, hand>>
    BY <1>9 DEF Unsubscribe, SyncTypes
  <2>2. CASE d = c
    BY <2>1, <2>2 DEF Waits
  <2>3. CASE d # c
    BY <1>0, <2>1, <2>3, WaitSame
  <2> QED
    BY <2>2, <2>3
<1>10. ASSUME NEW p \in Pids, Reap(p), NEW d \in Callers PROVE Waits(d)'
  <2>1. Reaped(p)
    BY <1>10, ReapFacts
  <2>2. CASE doing[d] = "waiting" /\ d \notin reused /\ Coming(d)
    <3>1. own[d] \in Pids /\ hand.pid # own[d]
      BY <1>0, <2>1, <2>2, SyncAssumption DEF Waits, Reaped, NoExit
    <3>2. Coming(d)'
      BY <2>1, <2>2, <3>1 DEF Coming, Tells, Reaped
    <3> QED
      BY <2>1, <2>2, <3>1, <3>2 DEF Waits, Reaped
  <2>3. CASE doing[d] = "waiting" /\ d \notin reused /\ Arrived(d)
    <3>1. Arrived(d)'
      BY <2>1, <2>3 DEF Arrived, Tells, Reaped
    <3> QED
      BY <1>0, <2>1, <2>3, <3>1 DEF Waits, Reaped
  <2>4. CASE doing[d] # "waiting" \/ d \in reused
    BY <1>0, <2>1, <2>4 DEF Waits, Reaped
  <2> QED
    BY <1>0, <2>2, <2>3, <2>4 DEF Waits
<1>11. ASSUME Notify, NEW d \in Callers PROVE Waits(d)'
  <2>1. Notified
    BY <1>11, NotifyFacts
  <2>2. CASE d \notin subs
    BY <2>1, <2>2 DEF Notified, CallsInv, Active, Waits
  <2> DEFINE n == Len(queue[d]) + 1
  <2>3. ASSUME d \in subs
        PROVE  /\ DOMAIN queue'[d] = 1..n /\ DOMAIN queue[d] = 1..n - 1 /\ n \in Nat \ {0}
               /\ \A i \in DOMAIN queue[d] : queue'[d][i] = queue[d][i] /\ i \in DOMAIN queue'[d]
               /\ queue'[d][n] = hand
    BY <2>1, <2>3 DEF Notified
  <2> HIDE DEF n
  <2>4. CASE /\ d \in subs /\ doing[d] = "waiting" /\ d \notin reused
             /\ Coming(d) /\ hand.pid = own[d]
    <3>1. \A j \in DOMAIN queue'[d] : j < n => ~ Tells(d, j)'
      BY <2>1, <2>3, <2>4 DEF Coming, Tells, Notified
    <3>2. n \in DOMAIN queue'[d] /\ queue'[d][n].pid = own'[d] /\ queue'[d][n].of = call'[d]
      BY <2>1, <2>3, <2>4 DEF Coming, Notified
    <3>3. Arrived(d)'
      BY <3>1, <3>2 DEF Arrived, Tells
    <3> QED
      BY <1>0, <2>1, <2>4, <3>3 DEF Waits, Notified
  <2>5. CASE /\ d \in subs /\ doing[d] = "waiting" /\ d \notin reused
             /\ Coming(d) /\ hand.pid # own[d]
    <3>1. own[d] \in Pids /\ hand'.pid # own[d]
      BY <1>0, <2>1, <2>5, SyncAssumption DEF Waits, Notified, NoExit
    <3>2. \A j \in DOMAIN queue'[d] : ~ Tells(d, j)'
      BY <2>1, <2>3, <2>5 DEF Coming, Tells, Notified
    <3>3. Coming(d)'
      BY <2>1, <2>5, <3>1, <3>2 DEF Coming, Notified
    <3> QED
      BY <2>1, <2>5, <3>1, <3>3 DEF Waits, Notified
  <2>6. CASE d \in subs /\ doing[d] = "waiting" /\ d \notin reused /\ Arrived(d)
    <3>1. PICK i \in DOMAIN queue[d] :
            /\ Tells(d, i) /\ queue[d][i].of = call[d]
            /\ \A j \in DOMAIN queue[d] : j < i => ~ Tells(d, j)
      BY <2>6 DEF Arrived
    <3>2. i \in DOMAIN queue'[d] /\ Tells(d, i)' /\ queue'[d][i].of = call'[d]
      BY <2>1, <2>3, <2>6, <3>1 DEF Tells, Notified
    <3>3. ASSUME NEW j \in DOMAIN queue'[d], j < i PROVE ~ Tells(d, j)'
      <4>1. j \in DOMAIN queue[d]
        BY <2>3, <2>6, <3>1, <3>3
      <4> QED
        BY <2>1, <2>3, <2>6, <3>1, <3>3, <4>1 DEF Tells, Notified
    <3>4. Arrived(d)'
      BY <3>2, <3>3 DEF Arrived
    <3> QED
      BY <1>0, <2>1, <2>6, <3>4 DEF Waits, Notified
  <2>7. CASE doing[d] # "waiting" \/ d \in reused
    BY <1>0, <2>1, <2>7 DEF Waits, Notified
  <2> QED
    BY <1>0, <2>2, <2>4, <2>5, <2>6, <2>7 DEF Waits
<1> QED
  BY <1>0, <1>1, <1>2, <1>3, <1>5, <1>6, <1>7, <1>8, <1>9, <1>10, <1>11, SyncSteps DEF CallerStep

(* mount_rootfs of the synchronous shim answers for the child it forked,   *)
(* and with success only for a mount made, unless an earlier process of    *)
(* the same pid was yet to be told of when the call forked, or told since  *)
(* it subscribed.                                                          *)
THEOREM MountsAnswer == SyncSpec => []OwnChild
<1>1. SyncTypes /\ SyncInv /\ [SyncNext]_syncVars => SyncTypes' /\ SyncInv'
  BY SyncTypesStep, HandStep, CallsStep, MadeStep, WaitStep DEF SyncInv
<1>2. SyncTypes /\ SyncInv => OwnChild
  <2> SUFFICES ASSUME SyncTypes, SyncInv,
                      NEW c \in Callers, doing[c] = "returning", c \notin reused
               PROVE  result[c].of = call[c] /\ (result[c].means = "Success" => call[c] \in made)
    BY DEF OwnChild
  <2> QED
    BY DEF SyncInv, MadeInv, WaitInv, Active, Told
<1> QED
  BY <1>1, <1>2, SyncInitInv, PTL DEF SyncSpec
==============================================================================
