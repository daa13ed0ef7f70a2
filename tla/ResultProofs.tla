------------------------------ MODULE ResultProofs ------------------------------
(***************************************************************************)
(* What the runner of mathzip_bench and the independent verifier of its    *)
(* results agree on, for any configured inputs, codecs, archives, ends of  *)
(* a trial, numbers of trials, changes of the environment and stops.       *)
(*                                                                         *)
(* Rows: a row is what its trials make it, or is such a row improved from  *)
(* one that was no success; the rest is about the operators: a median of   *)
(* trials with one archive is that archive's, the successful trials are as *)
(* many as there are exactly when all are.                                 *)
(*                                                                         *)
(* Documents: what a campaign began with is what it discovered, its rows   *)
(* are the first cells of that grid, and a published document is the       *)
(* runner's or one of its improvements.  That its verifier accepts it      *)
(* takes the grid apart: discovery finds no file twice, so no two cells of *)
(* a grid have one key.                                                    *)
(***************************************************************************)
EXTENDS BenchDocument, SequenceTheorems, FiniteSetTheorems, WellFoundedInduction,
        TLAPS

-----------------------------------------------------------------------------
(* Subsequences.                                                           *)

\* Induction over the naturals, with a set in place of the predicate.
LEMMA NaturalsFrom ==
  ASSUME NEW T, 0 \in T, \A n \in Nat : n \in T => n + 1 \in T
  PROVE  Nat \subseteq T
<1> SUFFICES ASSUME Nat \ T # {} PROVE FALSE
  OBVIOUS
<1>1. PICK m \in Nat \ T : \A k \in Nat \ T : <<k, m>> \notin OpToRel(<, Nat)
  BY NatLessThanWellFounded, WFMin
<1>2. m # 0 /\ m - 1 \in Nat /\ m - 1 < m /\ (m - 1) + 1 = m
  OBVIOUS
<1>3. <<m - 1, m>> \in OpToRel(<, Nat)
  BY <1>2 DEF OpToRel
<1> QED
  BY <1>1, <1>2, <1>3

\* What Kept computes, as a relation.
KeepsUpTo(f, s, at, m) ==
  f = [n \in 0..m |-> IF n = 0 THEN <<>>
                      ELSE IF n \in at THEN Append(f[n - 1], s[n]) ELSE f[n - 1]]

\* Kept's recursive function exists.
LEMMA KeptExists ==
  ASSUME NEW s, NEW at, NEW N \in Nat
  PROVE  \E f : KeepsUpTo(f, s, at, N)
<1> DEFINE T == {m \in Nat : \E f : KeepsUpTo(f, s, at, m)}
<1>1. 0 \in T
  <2> DEFINE g == [n \in 0..0 |-> <<>>]
  <2>1. g = [n \in 0..0 |-> IF n = 0 THEN <<>>
                            ELSE IF n \in at THEN Append(g[n - 1], s[n]) ELSE g[n - 1]]
    OBVIOUS
  <2> HIDE DEF g
  <2> QED
    BY <2>1 DEF KeepsUpTo
<1>2. ASSUME NEW k \in Nat, k \in T PROVE k + 1 \in T
  <2>1. PICK f : KeepsUpTo(f, s, at, k)
    BY <1>2
  <2> DEFINE last == IF k + 1 \in at THEN Append(f[k], s[k + 1]) ELSE f[k]
  <2> DEFINE g == [n \in 0..k+1 |-> IF n = k + 1 THEN last ELSE f[n]]
  <2>2. ASSUME NEW n \in 0..k+1
        PROVE  g[n] = IF n = 0 THEN <<>>
                      ELSE IF n \in at THEN Append(g[n - 1], s[n]) ELSE g[n - 1]
    <3>1. CASE n = k + 1
      <4>1. n # 0 /\ n - 1 = k /\ k \in 0..k+1 /\ k # k + 1 /\ g[k] = f[k]
        BY <3>1
      <4> QED
        BY <3>1, <4>1
    <3>2. CASE n # k + 1
      <4>1. n \in 0..k /\ g[n] = f[n]
        BY <3>2
      <4>2. f[n] = IF n = 0 THEN <<>>
                   ELSE IF n \in at THEN Append(f[n - 1], s[n]) ELSE f[n - 1]
        BY <4>1, <2>1 DEF KeepsUpTo
      <4>3. n # 0 => n - 1 \in 0..k+1 /\ n - 1 # k + 1 /\ g[n - 1] = f[n - 1]
        BY <4>1
      <4> QED
        BY <4>1, <4>2, <4>3
    <3> QED
      BY <3>1, <3>2
  <2>3. g = [n \in 0..k+1 |-> IF n = 0 THEN <<>>
                              ELSE IF n \in at THEN Append(g[n - 1], s[n]) ELSE g[n - 1]]
    BY <2>2
  <2> HIDE DEF g
  <2>4. KeepsUpTo(g, s, at, k + 1)
    BY <2>3 DEF KeepsUpTo
  <2> QED
    BY <2>4
<1>3. Nat \subseteq T
  <2> HIDE DEF T
  <2> QED
    BY <1>1, <1>2, NaturalsFrom
<1> QED
  BY <1>3

LEMMA KeptDef ==
  ASSUME NEW s, NEW at, Len(s) \in Nat
  PROVE  \E f : KeepsUpTo(f, s, at, Len(s)) /\ Kept(s, at) = f[Len(s)]
<1> DEFINE f == CHOOSE g : KeepsUpTo(g, s, at, Len(s))
<1>1. KeepsUpTo(f, s, at, Len(s))
  BY KeptExists
<1>2. Kept(s, at) = f[Len(s)]
  BY DEF Kept, KeepsUpTo
<1> QED
  BY <1>1, <1>2

LEMMA AppendIs ==
  ASSUME NEW S, NEW seq \in Seq(S), NEW last \in S, NEW n, n = Len(seq)
  PROVE  /\ n \in Nat
         /\ Append(seq, last) \in Seq(S)
         /\ Len(Append(seq, last)) = n + 1
         /\ Append(seq, last)[n + 1] = last
         /\ \A i \in 1..n : Append(seq, last)[i] = seq[i]
BY AppendProperties

\* Kept keeps elements of the sequence, all of them when it keeps as many.
LEMMA KeptPrefix ==
  ASSUME NEW S, NEW s \in Seq(S), NEW at, NEW f, NEW N, N = Len(s),
         KeepsUpTo(f, s, at, N), NEW m \in 0..N
  PROVE  /\ f[m] \in Seq(S) /\ Len(f[m]) <= m
         /\ Len(f[m]) = m => \A i \in 1..m : i \in at /\ f[m][i] = s[i]
         /\ 1..m \subseteq at => Len(f[m]) = m
<1> DEFINE P(k) == /\ f[k] \in Seq(S) /\ Len(f[k]) <= k
                   /\ Len(f[k]) = k => \A i \in 1..k : i \in at /\ f[k][i] = s[i]
                   /\ 1..k \subseteq at => Len(f[k]) = k
<1> DEFINE T == {k \in Nat : k <= N => P(k)}
<1>0. N \in Nat
  OBVIOUS
<1>1. 0 \in T
  <2>1. f[0] = <<>>
    BY <1>0 DEF KeepsUpTo
  <2>2. f[0] \in Seq(S) /\ Len(f[0]) = 0
    BY <2>1
  <2> QED
    BY <2>2
<1>2. ASSUME NEW k \in Nat, k \in T PROVE k + 1 \in T
  <2> SUFFICES ASSUME k + 1 <= N PROVE P(k + 1)
    OBVIOUS
  <2>1. P(k) /\ k + 1 \in 1..N /\ k + 1 \in 0..N /\ k + 1 # 0 /\ (k + 1) - 1 = k
    BY <1>0, <1>2
  <2>2. f[k + 1] = IF k + 1 \in at THEN Append(f[k], s[k + 1]) ELSE f[k]
    BY <2>1 DEF KeepsUpTo
  <2>3. s[k + 1] \in S
    BY <2>1
  <2>4. Len(f[k]) \in Nat
    BY <2>1
  <2>5. CASE k + 1 \in at
    <3> DEFINE g == Append(f[k], s[k + 1])
    <3>1. /\ g \in Seq(S) /\ Len(g) = Len(f[k]) + 1 /\ g[Len(f[k]) + 1] = s[k + 1]
          /\ \A i \in 1..Len(f[k]) : g[i] = f[k][i]
      BY <2>1, <2>3, AppendIs
    <3>2. f[k + 1] = g
      BY <2>2, <2>5
    <3> HIDE DEF g
    <3>3. f[k + 1] \in Seq(S) /\ Len(f[k + 1]) <= k + 1
      BY <3>1, <3>2, <2>1, <2>4
    <3>4. ASSUME Len(f[k + 1]) = k + 1, NEW i \in 1..k+1
          PROVE  i \in at /\ f[k + 1][i] = s[i]
      <4>1. Len(f[k]) = k
        BY <3>1, <3>2, <3>4, <2>4
      <4>2. CASE i = k + 1
        BY <4>1, <4>2, <3>1, <3>2, <2>5
      <4>3. CASE i # k + 1
        <5>1. i \in 1..k
          BY <4>3
        <5> QED
          BY <5>1, <4>1, <3>1, <3>2, <2>1
      <4> QED
        BY <4>2, <4>3
    <3>5. ASSUME 1..(k + 1) \subseteq at PROVE Len(f[k + 1]) = k + 1
      <4>1. 1..k \subseteq at
        BY <3>5
      <4> QED
        BY <4>1, <2>1, <3>1, <3>2
    <3> QED
      BY <3>3, <3>4, <3>5
  <2>6. CASE k + 1 \notin at
    <3>1. f[k + 1] = f[k]
      BY <2>2, <2>6
    <3>2. ~(1..(k + 1) \subseteq at)
      BY <2>6
    <3> QED
      BY <3>1, <3>2, <2>1, <2>4
  <2> QED
    BY <2>5, <2>6
<1> HIDE DEF P
<1>3. m \in T
  <2> HIDE DEF T
  <2> QED
    BY <1>1, <1>2, NaturalsFrom
<1> QED
  BY <1>3, <1>0 DEF P

\* How a subsequence lies in its sequence.
Enumerates(e, k, s, at, m) ==
  /\ \A i \in 1..Len(k) : e[i] \in 1..m /\ e[i] \in at /\ k[i] = s[e[i]]
  /\ \A i, j \in 1..Len(k) : i < j => e[i] < e[j]
  /\ \A n \in 1..m : n \in at => \E i \in 1..Len(k) : e[i] = n

LEMMA KeptEnumerates ==
  ASSUME NEW S, NEW s \in Seq(S), NEW at, NEW f, NEW N, N = Len(s),
         KeepsUpTo(f, s, at, N), NEW m \in 0..N
  PROVE  \E e : Enumerates(e, f[m], s, at, m)
<1> DEFINE T == {k \in Nat : k <= N => \E e : Enumerates(e, f[k], s, at, k)}
<1>0. N \in Nat
  OBVIOUS
<1>1. 0 \in T
  <2>1. f[0] = <<>>
    BY <1>0 DEF KeepsUpTo
  <2>2. Enumerates(<<>>, f[0], s, at, 0)
    BY <2>1 DEF Enumerates
  <2> QED
    BY <2>2
<1>2. ASSUME NEW k \in Nat, k \in T PROVE k + 1 \in T
  <2> SUFFICES ASSUME k + 1 <= N PROVE \E e : Enumerates(e, f[k + 1], s, at, k + 1)
    OBVIOUS
  <2>1. k \in 0..N /\ k + 1 \in 1..N /\ k + 1 \in 0..N /\ k + 1 # 0 /\ (k + 1) - 1 = k
    BY <1>0
  <2>2. f[k + 1] = IF k + 1 \in at THEN Append(f[k], s[k + 1]) ELSE f[k]
    BY <2>1 DEF KeepsUpTo
  <2>3. s[k + 1] \in S
    BY <2>1
  <2>4. f[k] \in Seq(S)
    BY <2>1, KeptPrefix
  <2>5. PICK e : Enumerates(e, f[k], s, at, k)
    BY <2>1, <1>2
  <2> DEFINE L == Len(f[k])
  <2>6. L \in Nat
    BY <2>4
  <2>7. CASE k + 1 \in at
    <3>1. /\ Len(f[k + 1]) = L + 1 /\ f[k + 1][L + 1] = s[k + 1]
          /\ \A i \in 1..L : f[k + 1][i] = f[k][i]
      BY <2>2, <2>3, <2>4, <2>7, AppendIs
    <3> DEFINE d == [i \in 1..L+1 |-> IF i = L + 1 THEN k + 1 ELSE e[i]]
    <3>2. d[L + 1] = k + 1 /\ \A i \in 1..L : d[i] = e[i]
      BY <2>6
    <3> HIDE DEF d
    <3> HIDE DEF L
    <3>3. \A i \in 1..L+1 : i = L + 1 \/ i \in 1..L
      BY <2>6
    <3>4. \A i \in 1..L : e[i] \in 1..k /\ e[i] \in at /\ f[k][i] = s[e[i]]
      BY <2>5 DEF Enumerates, L
    <3>5. \A i \in 1..L+1 : d[i] \in 1..k+1 /\ d[i] \in at /\ f[k + 1][i] = s[d[i]]
      BY <3>1, <3>2, <3>3, <3>4, <2>7
    <3>6. ASSUME NEW i \in 1..L+1, NEW j \in 1..L+1, i < j PROVE d[i] < d[j]
      <4>1. i \in 1..L
        BY <3>6, <2>6
      <4>2. CASE j = L + 1
        BY <4>1, <4>2, <3>2, <3>4
      <4>3. CASE j \in 1..L
        <5>1. e[i] < e[j]
          BY <4>1, <4>3, <3>6, <2>5 DEF Enumerates, L
        <5> QED
          BY <5>1, <4>1, <4>3, <3>2
      <4> QED
        BY <4>2, <4>3, <3>3
    <3>7. ASSUME NEW n \in 1..k+1, n \in at PROVE \E i \in 1..L+1 : d[i] = n
      <4>1. CASE n = k + 1
        BY <4>1, <3>2, <2>6
      <4>2. CASE n # k + 1
        <5>1. n \in 1..k
          BY <4>2
        <5>2. PICK i \in 1..L : e[i] = n
          BY <5>1, <3>7, <2>5 DEF Enumerates, L
        <5>3. i \in 1..L+1
          BY <2>6
        <5> QED
          BY <5>2, <5>3, <3>2
      <4> QED
        BY <4>1, <4>2
    <3>8. Enumerates(d, f[k + 1], s, at, k + 1)
      BY <3>1, <3>5, <3>6, <3>7 DEF Enumerates
    <3> QED
      BY <3>8
  <2>8. CASE k + 1 \notin at
    <3>1. f[k + 1] = f[k]
      BY <2>2, <2>8
    <3>2. \A n \in 1..k+1 : n \in at => n \in 1..k
      BY <2>8
    <3>3. \A n \in 1..k : n \in 1..k+1
      OBVIOUS
    <3>4. Enumerates(e, f[k + 1], s, at, k + 1)
      BY <3>1, <3>2, <3>3, <2>5 DEF Enumerates
    <3> QED
      BY <3>4
  <2> QED
    BY <2>7, <2>8
<1>3. m \in T
  <2> HIDE DEF T
  <2> QED
    BY <1>1, <1>2, NaturalsFrom
<1> QED
  BY <1>3, <1>0

\* A subsequence is part of its sequence, in order, and is all of it exactly
\* when every position is kept.
LEMMA KeptIs ==
  ASSUME NEW S, NEW s \in Seq(S), NEW at, NEW k, k = Kept(s, at)
  PROVE  /\ k \in Seq(S) /\ Len(k) <= Len(s)
         /\ Len(k) = Len(s) => k = s /\ DOMAIN s \subseteq at
         /\ DOMAIN s \subseteq at => k = s
         /\ \E e : Enumerates(e, k, s, at, Len(s))
<1>0. Len(s) \in Nat /\ DOMAIN s = 1..Len(s)
  OBVIOUS
<1>1. PICK f : KeepsUpTo(f, s, at, Len(s)) /\ k = f[Len(s)]
  BY <1>0, KeptDef
<1>2. /\ k \in Seq(S) /\ Len(k) <= Len(s)
      /\ Len(k) = Len(s) => \A i \in 1..Len(s) : i \in at /\ k[i] = s[i]
      /\ 1..Len(s) \subseteq at => Len(k) = Len(s)
  <2>1. Len(s) \in 0..Len(s)
    BY <1>0
  <2> DEFINE N == Len(s)
  <2>2. N = Len(s) /\ KeepsUpTo(f, s, at, N) /\ N \in 0..N
    BY <1>1, <2>1
  <2>3. /\ f[N] \in Seq(S) /\ Len(f[N]) <= N
        /\ Len(f[N]) = N => \A i \in 1..N : i \in at /\ f[N][i] = s[i]
        /\ 1..N \subseteq at => Len(f[N]) = N
    <3> HIDE DEF N
    <3>1. f[N] \in Seq(S) /\ Len(f[N]) <= N
      BY <2>2, KeptPrefix
    <3>2. Len(f[N]) = N => \A i \in 1..N : i \in at /\ f[N][i] = s[i]
      BY <2>2, KeptPrefix
    <3>3. 1..N \subseteq at => Len(f[N]) = N
      BY <2>2, KeptPrefix
    <3> QED
      BY <3>1, <3>2, <3>3
  <2> QED
    BY <2>3, <1>1
<1>3. \E e : Enumerates(e, k, s, at, Len(s))
  BY <1>0, <1>1, KeptEnumerates
<1>4. ASSUME Len(k) = Len(s) PROVE k = s /\ DOMAIN s \subseteq at
  <2>1. \A i \in 1..Len(k) : i \in at /\ k[i] = s[i]
    BY <1>2, <1>4
  <2>2. k = s
    BY <1>2, <1>4, <2>1, SeqEqual
  <2> QED
    BY <1>0, <1>4, <2>1, <2>2
<1>5. DOMAIN s \subseteq at => k = s
  BY <1>0, <1>2, <1>4
<1> QED
  BY <1>2, <1>3, <1>4, <1>5

-----------------------------------------------------------------------------
(* The row of a cell.                                                      *)

TrialsOf(j) == {ExecuteTrial(j, j.collect, w) : w \in TrialWorlds}

TrialFields == {"status", "bytes", "seconds", "hash", "restored", "roundtrip", "inspection",
                "metrics", "timed", "probed"}

\* A trial that succeeded restored its input from one archive, and shows what
\* it was asked to show.
OkTrial(j, t) ==
  /\ t.status = "ok" /\ t.roundtrip /\ t.restored = "input"
  /\ t.hash \in Contents /\ t.bytes = SizeOf[t.hash]
  /\ t.timed <=> Timed(j)
  /\ t.inspection \in {Blank, t.bytes}
  /\ j.family = "mathzip" /\ j.collect =>
       t.inspection = t.bytes /\ t.metrics # "none" /\ t.probed = "metrics"

LEMMA OkTrials ==
  ASSUME NEW j \in Configured, NEW t \in TrialsOf(j), t.status = "ok"
  PROVE  OkTrial(j, t)
<1>1. PICK w \in TrialWorlds : t = ExecuteTrial(j, j.collect, w)
  BY DEF TrialsOf
<1>2. w.compress = "ok" /\ w.decompress = "ok"
  <2>1. ASSUME NEW p \in {"compression", "decompression"}, NEW e
        PROVE  FailedTrial(p, e).status # "ok"
    BY DEF FailedTrial, NoTrial, Failures
  <2> QED
    BY <1>1, <2>1 DEF ExecuteTrial
<1>3. t = RestoredTrial(j, j.collect, w)
  BY <1>1, <1>2 DEF ExecuteTrial
<1>4. TrialStatus(j, j.collect, w) = "ok"
  BY <1>3 DEF RestoredTrial
<1>5. /\ w.restored = "input"
      /\ Inspects(j, j.collect) => w.inspect
      /\ MetricsOf(j, j.collect, w) # "bad"
  BY <1>4 DEF TrialStatus
<1>6. w.archive \in Contents /\ w.metrics \in Searches \cup {"bad"}
  BY DEF TrialWorlds
<1>7. t.status = "ok" /\ t.roundtrip /\ t.restored = "input"
  BY <1>3, <1>5
     DEF RestoredTrial
<1>8. t.hash \in Contents /\ t.bytes = SizeOf[t.hash]
  BY <1>3, <1>6 DEF RestoredTrial
<1>9. t.timed <=> Timed(j)
  BY <1>3 DEF RestoredTrial
<1>10. t.inspection \in {Blank, t.bytes}
  BY <1>3 DEF RestoredTrial
<1>11. ASSUME j.family = "mathzip", j.collect
       PROVE  t.inspection = t.bytes /\ t.metrics # "none" /\ t.probed = "metrics"
  <2>1. Inspects(j, j.collect) /\ Probes(j, j.collect, w)
    BY <1>11, <1>5 DEF Inspects, Probes
  <2>2. t.inspection = t.bytes /\ t.probed = "metrics"
    BY <1>3, <1>5, <2>1 DEF RestoredTrial
  <2>3. MetricsOf(j, j.collect, w) = w.metrics
    BY <1>5, <2>1 DEF MetricsOf
  <2>4. t.metrics = w.metrics
    BY <1>3, <1>5, <2>3 DEF RestoredTrial
  <2>5. w.metrics # "none"
    BY <1>5, <1>6, <2>3 DEF Searches
  <2> QED
    BY <2>2, <2>4, <2>5
<1> QED
  BY <1>7, <1>8, <1>9, <1>10, <1>11 DEF OkTrial

\* Of equal values the median is that value.
LEMMA MedianOfEqual ==
  ASSUME NEW vs, NEW n \in Nat \ {0}, NEW c \in Int,
         Len(vs) = n, DOMAIN vs = 1..n, \A i \in 1..n : vs[i] = c
  PROVE  Median2(vs) = c + c
<1>1. {vs[i] : i \in DOMAIN vs} = {c}
  <2>1. 1 \in DOMAIN vs /\ vs[1] = c
    OBVIOUS
  <2>2. \A i \in DOMAIN vs : vs[i] = c
    OBVIOUS
  <2>3. c \in {vs[i] : i \in DOMAIN vs}
    BY <2>1
  <2>4. ASSUME NEW v \in {vs[i] : i \in DOMAIN vs} PROVE v = c
    BY <2>2
  <2> QED
    BY <2>3, <2>4
<1>2. {i \in DOMAIN vs : vs[i] < c} = {}
  OBVIOUS
<1>3. {i \in DOMAIN vs : vs[i] <= c} = 1..n
  OBVIOUS
<1>4. Cardinality(1..n) = n /\ Cardinality({}) = 0
  BY FS_Interval, FS_EmptySet
<1>5. ASSUME NEW k \in 1..n PROVE Nth(vs, k) = c
  <2> DEFINE R(v) == /\ Cardinality({i \in DOMAIN vs : vs[i] < v}) < k
                     /\ k <= Cardinality({i \in DOMAIN vs : vs[i] <= v})
  <2>1. R(c)
    <3>1. Cardinality({i \in DOMAIN vs : vs[i] < c}) = 0
      BY ONLY <1>2, <1>4, Zenon
    <3>2. Cardinality({i \in DOMAIN vs : vs[i] <= c}) = n
      BY ONLY <1>3, <1>4, Zenon
    <3>3. 0 < k /\ k <= n
      OBVIOUS
    <3> QED
      BY <3>1, <3>2, <3>3
  <2>2. c \in {vs[i] : i \in DOMAIN vs}
    BY <1>1
  <2>3. Nth(vs, k) \in {vs[i] : i \in DOMAIN vs}
    BY <2>1, <2>2 DEF Nth
  <2> QED
    BY <2>3, <1>1
<1>6. (n + 1) \div 2 \in 1..n /\ (n + 2) \div 2 \in 1..n
  OBVIOUS
<1> QED
  BY <1>5, <1>6 DEF Median2

\* Aggregate's fields.
LEMMA AggregateIs ==
  ASSUME NEW j, NEW ts, NEW good, good = Ok(ts), NEW r, r = Aggregate(j, ts)
  PROVE  /\ good = <<>> => r = EmptyRow(j, Last(ts).status, ts)
         /\ good # <<>> =>
              /\ r.status = RowStatus(j, good) /\ r.family = j.family
              /\ r.requested = j.repeats /\ r.successful = Len(good)
              /\ r.bytes = Bytes2(good) \div 2 /\ r.seconds2 = Seconds2(good)
              /\ r.trials = ts
         /\ good # <<>> =>
              /\ r.deterministic = IF Cardinality(Hashes(good)) = 1 THEN "yes" ELSE "no"
              /\ r.archive = IF Cardinality(Hashes(good)) = 1 THEN good[1].hash ELSE "none"
              /\ r.input = InputHash(j)
         /\ good # <<>> => (r.roundtrip <=> \A n \in DOMAIN good : good[n].roundtrip)
         /\ good # <<>> => (r.listed <=> j.input = "verified")
         /\ good # <<>> /\ j.family = "mathzip" =>
              /\ r.inspection = LastInspection(good) /\ r.phase2 = Phase2(good)
              /\ r.search = (IF SameSearch(good) THEN Last(good).metrics ELSE "none")
              /\ r.sameSearch = (IF ~Declared(good) THEN "none"
                                ELSE IF SameSearch(good) THEN "yes" ELSE "no")
         /\ good # <<>> /\ j.family # "mathzip" => r.inspection = Blank
         /\ DOMAIN r = DOMAIN EmptyRow(j, "ok", ts)
<1> DEFINE one == Cardinality(Hashes(good)) = 1
           math == MathzipMetrics(good)
           base == [EmptyRow(j, RowStatus(j, good), ts) EXCEPT
                !.successful = Len(good), !.bytes = Bytes2(good) \div 2,
                !.seconds2 = Seconds2(good),
                !.roundtrip = \A n \in DOMAIN good : good[n].roundtrip,
                !.deterministic = IF one THEN "yes" ELSE "no",
                !.archive = IF one THEN good[1].hash ELSE "none"]
<1>1. r = IF good = <<>> THEN EmptyRow(j, Last(ts).status, ts)
          ELSE IF j.family # "mathzip" THEN base
          ELSE [base EXCEPT !.inspection = math.inspection, !.phase2 = math.phase2,
                            !.search = math.search, !.sameSearch = math.sameSearch]
  BY DEF Aggregate
<1>2. /\ base.status = RowStatus(j, good) /\ base.family = j.family
      /\ base.requested = j.repeats /\ base.successful = Len(good)
      /\ base.bytes = Bytes2(good) \div 2 /\ base.seconds2 = Seconds2(good)
      /\ base.trials = ts
  BY DEF EmptyRow
<1>3. /\ base.deterministic = (IF one THEN "yes" ELSE "no")
      /\ base.archive = (IF one THEN good[1].hash ELSE "none")
      /\ base.input = InputHash(j)
  BY DEF EmptyRow
<1>4. base.roundtrip <=> \A n \in DOMAIN good : good[n].roundtrip
  BY DEF EmptyRow
<1>5. base.listed <=> j.input = "verified"
  BY DEF EmptyRow
<1>6. base.inspection = Blank /\ DOMAIN base = DOMAIN EmptyRow(j, "ok", ts)
  BY DEF EmptyRow
<1>7. /\ math.inspection = LastInspection(good) /\ math.phase2 = Phase2(good)
      /\ math.search = (IF SameSearch(good) THEN Last(good).metrics ELSE "none")
      /\ math.sameSearch = (IF ~Declared(good) THEN "none"
                           ELSE IF SameSearch(good) THEN "yes" ELSE "no")
  BY DEF MathzipMetrics
<1>8. /\ "inspection" \in DOMAIN base /\ "phase2" \in DOMAIN base
      /\ "search" \in DOMAIN base /\ "sameSearch" \in DOMAIN base
  BY DEF EmptyRow
<1>9. DOMAIN EmptyRow(j, Last(ts).status, ts) = DOMAIN EmptyRow(j, "ok", ts)
  BY DEF EmptyRow
<1> HIDE DEF base, math
<1>10. CASE good = <<>>
  BY <1>1, <1>9, <1>10
<1>11. CASE good # <<>> /\ j.family # "mathzip"
  <2>1. r = base
    BY <1>1, <1>11
  <2> QED
    BY <2>1, <1>11, <1>2, <1>3, <1>4, <1>5, <1>6
<1>12. CASE good # <<>> /\ j.family = "mathzip"
  <2>1. r = [base EXCEPT !.inspection = math.inspection, !.phase2 = math.phase2,
                         !.search = math.search, !.sameSearch = math.sameSearch]
    BY <1>1, <1>12
  <2>2. /\ r.inspection = math.inspection /\ r.phase2 = math.phase2
        /\ r.search = math.search /\ r.sameSearch = math.sameSearch
    BY <2>1, <1>8
  <2>3. /\ r.status = base.status /\ r.family = base.family
        /\ r.requested = base.requested /\ r.successful = base.successful
        /\ r.bytes = base.bytes /\ r.seconds2 = base.seconds2 /\ r.trials = base.trials
    BY <2>1
  <2>4. /\ r.deterministic = base.deterministic /\ r.archive = base.archive
        /\ r.input = base.input /\ r.roundtrip = base.roundtrip /\ r.listed = base.listed
    BY <2>1
  <2>5. DOMAIN r = DOMAIN base
    BY <2>1
  <2>6. (r.roundtrip <=> \A n \in DOMAIN good : good[n].roundtrip)
        /\ (r.listed <=> j.input = "verified")
    BY <2>4, <1>4, <1>5
  <2> QED
    BY <1>12, <2>2, <2>3, <2>4, <2>5, <2>6, <1>2, <1>3, <1>6, <1>7
<1> QED
  BY <1>10, <1>11, <1>12

\* The trials that succeeded are all of them exactly when each one did.
LEMMA OkIs ==
  ASSUME NEW j, NEW ts \in Seq(TrialsOf(j)), NEW good, good = Ok(ts)
  PROVE  /\ good \in Seq(TrialsOf(j)) /\ Len(good) <= Len(ts)
         /\ Len(good) = Len(ts) => good = ts /\ \A n \in DOMAIN ts : ts[n].status = "ok"
         /\ (\A n \in DOMAIN ts : ts[n].status = "ok") => good = ts
         /\ good = <<>> => \A n \in DOMAIN ts : ts[n].status # "ok"
<1> DEFINE at == {n \in DOMAIN ts : ts[n].status = "ok"}
<1>1. good = Kept(ts, at)
  BY DEF Ok
<1>2. DOMAIN ts = 1..Len(ts) /\ Len(ts) \in Nat
  OBVIOUS
<1>3. \A n \in DOMAIN ts : n \in at <=> ts[n].status = "ok"
  OBVIOUS
<1> HIDE DEF at
<1>4. /\ good \in Seq(TrialsOf(j)) /\ Len(good) <= Len(ts)
      /\ Len(good) = Len(ts) => good = ts /\ DOMAIN ts \subseteq at
      /\ DOMAIN ts \subseteq at => good = ts
  <2>1. good \in Seq(TrialsOf(j)) /\ Len(good) <= Len(ts)
    BY <1>1, KeptIs
  <2>2. Len(good) = Len(ts) => good = ts /\ DOMAIN ts \subseteq at
    BY <1>1, KeptIs
  <2>3. DOMAIN ts \subseteq at => good = ts
    BY <1>1, KeptIs
  <2> QED
    BY <2>1, <2>2, <2>3
<1>5. PICK e : Enumerates(e, good, ts, at, Len(ts))
  BY <1>1, KeptIs
<1>6. ASSUME good = <<>>, NEW n \in DOMAIN ts PROVE n \notin at
  <2>1. 1..Len(good) = {}
    BY <1>6
  <2> QED
    BY <2>1, <1>2, <1>5 DEF Enumerates
<1> QED
  BY <1>3, <1>4, <1>6

\* What a successful row was made of.
LEMMA OkRow ==
  ASSUME NEW j \in Configured, NEW ts \in Seq(TrialsOf(j)), Len(ts) = j.repeats,
         NEW r, r = Aggregate(j, ts), r.status = "ok"
  PROVE  /\ Ok(ts) = ts /\ ts # <<>> /\ Len(ts) \in Nat \ {0} /\ DOMAIN ts = 1..Len(ts)
         /\ \A n \in DOMAIN ts : OkTrial(j, ts[n])
         /\ j.family = "mathzip" => Cardinality(Hashes(ts)) = 1 /\ Cardinality(Sizes(ts)) = 1
<1> DEFINE good == Ok(ts)
<1>1. Len(ts) \in Nat \ {0} /\ DOMAIN ts = 1..Len(ts)
  BY CellAssumption DEF Configured, Jobs
<1>2. ts # <<>> /\ Len(ts) \in DOMAIN ts /\ Last(ts) = ts[Len(ts)]
  BY <1>1 DEF Last
<1>3. good = Ok(ts)
  OBVIOUS
<1> HIDE DEF good
<1>4. good # <<>>
  <2> SUFFICES ASSUME good = <<>> PROVE FALSE
    OBVIOUS
  <2>1. r = EmptyRow(j, Last(ts).status, ts)
    BY <1>3, AggregateIs
  <2>2. Last(ts).status = "ok"
    BY <2>1 DEF EmptyRow
  <2>3. \A n \in DOMAIN ts : ts[n].status # "ok"
    BY <1>3, OkIs
  <2> QED
    BY <1>2, <2>2, <2>3
<1>5. RowStatus(j, good) = "ok"
  BY <1>3, <1>4, AggregateIs
<1>6. /\ Len(good) = j.repeats
      /\ j.family = "mathzip" =>
           Cardinality(Hashes(good)) = 1 /\ Cardinality(Sizes(good)) = 1
  BY <1>5 DEF RowStatus
<1>7. good = ts /\ \A n \in DOMAIN ts : ts[n].status = "ok"
  <2>1. Len(good) = Len(ts)
    BY <1>6
  <2> QED
    BY <2>1, <1>3, OkIs
<1>8. ASSUME NEW n \in DOMAIN ts PROVE OkTrial(j, ts[n])
  <2>1. ts[n] \in TrialsOf(j) /\ ts[n].status = "ok"
    BY <1>1, <1>7
  <2> QED
    BY <2>1, OkTrials
<1> QED
  BY <1>1, <1>2, <1>3, <1>6, <1>7, <1>8

LEMMA FiniteImage ==
  ASSUME NEW n \in Nat, NEW f
  PROVE  IsFiniteSet({f[i] : i \in 1..n})
<1> DEFINE T == {f[i] : i \in 1..n}
           g == [i \in 1..n |-> f[i]]
<1>1. g \in Surjection(1..n, T)
  BY DEF Surjection
<1>2. IsFiniteSet(1..n)
  BY FS_Interval
<1> QED
  BY <1>1, <1>2, FS_Surjection

LEMMA OneHash ==
  ASSUME NEW ts, NEW N \in Nat, DOMAIN ts = 1..N,
         NEW m \in DOMAIN ts, NEW n \in DOMAIN ts
  PROVE  /\ Cardinality(Hashes(ts)) = 1 => ts[m].hash = ts[n].hash
         /\ Cardinality(Searched(ts)) = 1 /\ ts[m].metrics # "none" /\ ts[n].metrics # "none" =>
              ts[m].metrics = ts[n].metrics
<1> DEFINE h == [i \in 1..N |-> ts[i].hash]
           s == [i \in 1..N |-> ts[i].metrics]
<1>1. Hashes(ts) = {h[i] : i \in 1..N}
  BY DEF Hashes
<1>2. Searched(ts) = {s[i] : i \in 1..N} \ {"none"}
  BY DEF Searched
<1>3. IsFiniteSet({h[i] : i \in 1..N}) /\ IsFiniteSet({s[i] : i \in 1..N})
  <2> HIDE DEF h, s
  <2> QED
    BY FiniteImage
<1>4. IsFiniteSet(Searched(ts))
  BY <1>2, <1>3, FS_Subset
<1>5. h[m] = ts[m].hash /\ h[n] = ts[n].hash /\ s[m] = ts[m].metrics /\ s[n] = ts[n].metrics
  OBVIOUS
<1> HIDE DEF h, s
<1>6. ASSUME Cardinality(Hashes(ts)) = 1 PROVE h[m] = h[n]
  <2>1. IsFiniteSet(Hashes(ts))
    BY <1>1, <1>3
  <2>2. PICK x : Hashes(ts) = {x}
    BY <2>1, <1>6, FS_Singleton
  <2>3. h[m] \in Hashes(ts) /\ h[n] \in Hashes(ts)
    BY <1>1
  <2> QED
    BY <2>2, <2>3
<1>7. ASSUME Cardinality(Searched(ts)) = 1, s[m] # "none", s[n] # "none" PROVE s[m] = s[n]
  <2>1. PICK x : Searched(ts) = {x}
    BY <1>4, <1>7, FS_Singleton
  <2>2. s[m] \in Searched(ts) /\ s[n] \in Searched(ts)
    BY <1>2, <1>7
  <2> QED
    BY <2>1, <2>2
<1> QED
  BY <1>5, <1>6, <1>7

\* A successful MathZip row is about one archive.
LEMMA OneArchiveRow ==
  ASSUME NEW j \in Configured, NEW ts \in Seq(TrialsOf(j)), Len(ts) = j.repeats,
         NEW r, r = Aggregate(j, ts), r.status = "ok", j.family = "mathzip"
  PROVE  \E a \in Contents :
           /\ r.archive = a /\ r.bytes = SizeOf[a]
           /\ r.inspection \in {Blank, SizeOf[a]}
           /\ \A n \in DOMAIN ts : ts[n].hash = a /\ ts[n].restored = "input"
<1>1. /\ Ok(ts) = ts /\ ts # <<>> /\ Len(ts) \in Nat \ {0} /\ DOMAIN ts = 1..Len(ts)
      /\ Cardinality(Hashes(ts)) = 1
  BY OkRow
<1>2. \A n \in DOMAIN ts : OkTrial(j, ts[n])
  BY OkRow
<1>3. 1 \in DOMAIN ts
  BY <1>1
<1> DEFINE a == ts[1].hash
<1>4. a \in Contents
  BY <1>2, <1>3 DEF OkTrial
<1>5. \A n \in DOMAIN ts : ts[n].hash = a /\ ts[n].restored = "input"
  <2>1. ASSUME NEW n \in DOMAIN ts PROVE ts[n].hash = a
    <3> DEFINE N == Len(ts)
    <3>1. N \in Nat /\ DOMAIN ts = 1..N
      BY <1>1
    <3> HIDE DEF N
    <3> QED
      BY <3>1, <1>1, <1>3, OneHash
  <2> QED
    BY <2>1, <1>2 DEF OkTrial
<1>6. SizeOf[a] \in Int
  BY <1>4, CellAssumption
<1>7. \A n \in DOMAIN ts : ts[n].bytes = SizeOf[a] /\ ts[n].inspection \in {Blank, SizeOf[a]}
  BY <1>2, <1>5 DEF OkTrial
<1>8. Bytes2(ts) = SizeOf[a] + SizeOf[a]
  <2> DEFINE vs == [n \in DOMAIN ts |-> ts[n].bytes]
             N == Len(ts)
             c == SizeOf[a]
  <2>1. /\ N \in Nat \ {0} /\ c \in Int /\ Len(vs) = N /\ DOMAIN vs = 1..N
        /\ \A i \in 1..N : vs[i] = c
    BY <1>1, <1>6, <1>7
  <2>2. Bytes2(ts) = Median2(vs)
    BY DEF Bytes2
  <2> HIDE DEF vs, N, c
  <2>3. Median2(vs) = c + c
    BY <2>1, MedianOfEqual
  <2> QED
    BY <2>2, <2>3 DEF c
<1>9. /\ r.bytes = Bytes2(ts) \div 2 /\ r.archive = a /\ r.inspection = LastInspection(ts)
  BY <1>1, AggregateIs
<1>10. r.bytes = SizeOf[a]
  BY <1>6, <1>8, <1>9
<1>11. LastInspection(ts) \in {Blank, SizeOf[a]}
  <2> DEFINE at == {n \in DOMAIN ts : ts[n].inspection # Blank}
             seen == Kept(ts, at)
  <2>1. LastInspection(ts) = IF seen = <<>> THEN Blank ELSE Last(seen).inspection
    BY DEF LastInspection
  <2>2. PICK e : Enumerates(e, seen, ts, at, Len(ts))
    <3> DEFINE k == seen
    <3>1. k = Kept(ts, at)
      OBVIOUS
    <3> HIDE DEF at, k
    <3>2. \E e : Enumerates(e, k, ts, at, Len(ts))
      BY <3>1, KeptIs
    <3> QED
      BY <3>2 DEF k
  <2>3. seen \in Seq(TrialsOf(j))
    <3> HIDE DEF at
    <3> QED
      BY KeptIs
  <2> HIDE DEF seen
  <2>4. CASE seen # <<>>
    <3>1. Len(seen) \in 1..Len(seen) /\ Last(seen) = seen[Len(seen)]
      BY <2>3, <2>4 DEF Last
    <3>2. e[Len(seen)] \in 1..Len(ts) /\ Last(seen) = ts[e[Len(seen)]]
      BY <2>2, <3>1 DEF Enumerates
    <3> QED
      BY <2>1, <2>4, <3>2, <1>1, <1>7
  <2>5. CASE seen = <<>>
    BY <2>1, <2>5
  <2> QED
    BY <2>4, <2>5
<1> QED
  BY <1>4, <1>5, <1>9, <1>10, <1>11

\* The verifier accepts a successful row.
LEMMA OkRowPasses ==
  ASSUME NEW j \in Configured, NEW ts \in Seq(TrialsOf(j)), Len(ts) = j.repeats,
         NEW r, r = Aggregate(j, ts), r.status = "ok", j.input # "absent"
  PROVE  AcceptsRow(r)
<1>1. /\ Ok(ts) = ts /\ ts # <<>> /\ Len(ts) \in Nat \ {0} /\ DOMAIN ts = 1..Len(ts)
  BY OkRow
<1>2. \A n \in DOMAIN ts : OkTrial(j, ts[n])
  BY OkRow
<1>3. /\ r.family = j.family /\ r.requested = j.repeats /\ r.successful = Len(ts)
      /\ r.bytes = Bytes2(ts) \div 2 /\ r.seconds2 = Seconds2(ts) /\ r.trials = ts
  BY <1>1, AggregateIs
<1>4. /\ r.deterministic = (IF Cardinality(Hashes(ts)) = 1 THEN "yes" ELSE "no")
      /\ r.archive = (IF Cardinality(Hashes(ts)) = 1 THEN ts[1].hash ELSE "none")
      /\ r.input = InputHash(j)
  BY <1>1, AggregateIs
<1>5. r.roundtrip
  <2>1. r.roundtrip <=> \A n \in DOMAIN ts : ts[n].roundtrip
    BY <1>1, AggregateIs
  <2> QED
    BY <2>1, <1>2 DEF OkTrial
<1>6. TrialsSupport(r)
  <2>1. ASSUME NEW n \in DOMAIN ts PROVE ts[n].bytes # Blank
    BY <1>2, CellAssumption DEF OkTrial, Blank
  <2>2. r.input = "input"
    BY <1>4 DEF InputHash
  <2>3. \A n \in DOMAIN ts : ts[n].status = "ok" /\ ts[n].roundtrip /\ ts[n].restored = "input"
    BY <1>2 DEF OkTrial
  <2>4. r.requested >= 1 /\ r.successful = r.requested /\ Len(r.trials) = r.requested
    BY <1>1, <1>3
  <2> QED
    BY <1>3, <1>5, <2>1, <2>2, <2>3, <2>4 DEF TrialsSupport
<1>7. MediansAgree(r)
  BY <1>3 DEF MediansAgree
<1>8. OneArchive(r)
  <2>1. j.family = "mathzip" => Cardinality(Hashes(ts)) = 1 /\ Cardinality(Sizes(ts)) = 1
    BY OkRow
  <2> QED
    BY <1>3, <1>4, <2>1 DEF OneArchive
<1>9. BreakdownSums(r)
  <2> SUFFICES ASSUME r.family = "mathzip", r.inspection # Blank PROVE r.inspection = r.bytes
    BY DEF BreakdownSums
  <2>1. j.family = "mathzip"
    BY <1>3
  <2> QED
    BY <2>1, OneArchiveRow
<1> QED
  BY <1>6, <1>7, <1>8, <1>9 DEF AcceptsRow

\* A row that is called successful keeps the trials of the row it was.
Improved(r) == [r EXCEPT !.status = "ok", !.successful = r.requested, !.roundtrip = TRUE]

\* The verifier refuses a row that is only called successful.
LEMMA ImprovedRowFails ==
  ASSUME NEW j \in Configured, NEW ts \in Seq(TrialsOf(j)), Len(ts) = j.repeats,
         NEW r, r = Aggregate(j, ts), r.status # "ok"
  PROVE  ~AcceptsRow(Improved(r))
<1> SUFFICES ASSUME AcceptsRow(Improved(r)) PROVE FALSE
  OBVIOUS
<1>1. DOMAIN r = DOMAIN EmptyRow(j, "ok", ts)
  BY AggregateIs
<1>2. Improved(r).status = "ok"
  BY <1>1 DEF Improved, EmptyRow
<1>3. TrialsSupport(Improved(r)) /\ OneArchive(Improved(r))
  BY <1>2 DEF AcceptsRow
<1>4. Improved(r).trials = r.trials /\ Improved(r).family = r.family
  BY DEF Improved
<1>5. r.trials = ts
  <2>1. CASE Ok(ts) = <<>>
    <3>1. r = EmptyRow(j, Last(ts).status, ts)
      BY <2>1, AggregateIs
    <3> QED
      BY <3>1 DEF EmptyRow
  <2>2. CASE Ok(ts) # <<>>
    BY <2>2, AggregateIs
  <2> QED
    BY <2>1, <2>2
<1>6. \A n \in DOMAIN ts : ts[n].status = "ok"
  BY <1>3, <1>4, <1>5 DEF TrialsSupport
<1>7. Ok(ts) = ts
  BY <1>6, OkIs
<1>8. ts # <<>>
  BY CellAssumption DEF Configured, Jobs
<1>9. r.status = RowStatus(j, ts) /\ r.family = j.family
  BY <1>7, <1>8, AggregateIs
<1>10. j.family = "mathzip" => Cardinality(Hashes(ts)) = 1 /\ Cardinality(Sizes(ts)) = 1
  BY <1>3, <1>4, <1>5, <1>9 DEF OneArchive
<1>11. RowStatus(j, ts) = "ok"
  BY <1>10 DEF RowStatus
<1> QED
  BY <1>9, <1>11

\* What strict results demand of a successful row.
LEMMA StrictRow ==
  ASSUME NEW j \in Configured, NEW ts \in Seq(TrialsOf(j)), Len(ts) = j.repeats,
         NEW r, r = Aggregate(j, ts), r.status = "ok", j.input # "absent"
  PROVE  AcceptsRowStrictly(r, j) <=>
           /\ j.repeats >= StrictRepeats /\ j.input = "verified"
           /\ j.family = "mathzip" => j.collect /\ (Declared(ts) => SameSearch(ts))
<1>1. /\ Ok(ts) = ts /\ ts # <<>> /\ Len(ts) \in Nat \ {0} /\ DOMAIN ts = 1..Len(ts)
  BY OkRow
<1>2. \A n \in DOMAIN ts : OkTrial(j, ts[n])
  BY OkRow
<1>3. AcceptsRow(r)
  BY OkRowPasses
<1>4. r.family = j.family /\ r.requested = j.repeats /\ r.trials = ts
  BY <1>1, AggregateIs
<1>5. r.listed <=> j.input = "verified"
  BY <1>1, AggregateIs
<1>6. AcceptsRowStrictly(r, j) <=>
        /\ j.input = "verified" /\ j.repeats >= StrictRepeats
        /\ j.family = "mathzip" => MathzipIsStrict(r, j)
  BY <1>3, <1>4, <1>5 DEF AcceptsRowStrictly
<1>7. ASSUME j.family = "mathzip", MathzipIsStrict(r, j)
      PROVE  j.collect /\ (Declared(ts) => SameSearch(ts))
  BY <1>4, <1>7 DEF MathzipIsStrict, SearchAgrees
<1>8. ASSUME j.family = "mathzip", j.collect, Declared(ts) => SameSearch(ts)
      PROVE  MathzipIsStrict(r, j)
  <2>1. /\ r.inspection = LastInspection(ts) /\ r.phase2 = Phase2(ts)
        /\ r.search = (IF SameSearch(ts) THEN Last(ts).metrics ELSE "none")
        /\ r.sameSearch = (IF ~Declared(ts) THEN "none"
                           ELSE IF SameSearch(ts) THEN "yes" ELSE "no")
    BY <1>1, <1>8, AggregateIs
  <2>2. \A n \in DOMAIN ts : /\ ts[n].inspection # Blank /\ ts[n].metrics # "none"
                             /\ ts[n].probed = "metrics"
    BY <1>2, <1>8, CellAssumption DEF OkTrial, Blank
  <2>3. \A n \in DOMAIN ts : ts[n].timed = (j.mode = "inline")
    <3> SUFFICES ASSUME NEW n \in DOMAIN ts PROVE ts[n].timed = (j.mode = "inline")
      OBVIOUS
    <3>1. ts[n].timed <=> Timed(j)
      BY <1>2 DEF OkTrial
    <3>2. ts[n] \in TrialsOf(j)
      BY <1>1
    <3>3. PICK w \in TrialWorlds : ts[n] = ExecuteTrial(j, j.collect, w)
      BY <3>2 DEF TrialsOf
    <3>4. ts[n].timed = FALSE \/ ts[n].timed = Timed(j)
      <4>1. CASE w.compress # "ok" \/ w.decompress # "ok"
        BY <3>3, <4>1 DEF ExecuteTrial, FailedTrial, NoTrial
      <4>2. CASE w.compress = "ok" /\ w.decompress = "ok"
        BY <3>3, <4>2 DEF ExecuteTrial, RestoredTrial
      <4> QED
        BY <4>1, <4>2
    <3>5. Timed(j) = (j.mode = "inline")
      BY <1>8 DEF Timed
    <3> QED
      BY <3>1, <3>4, <3>5
  <2>4. r.inspection # Blank
    <3> DEFINE at == {n \in DOMAIN ts : ts[n].inspection # Blank}
    <3>1. DOMAIN ts \subseteq at
      BY <2>2
    <3>2. Kept(ts, at) = ts
      <4> HIDE DEF at
      <4> QED
        BY <3>1, KeptIs
    <3>3. LastInspection(ts) = Last(ts).inspection
      BY <3>2, <1>1 DEF LastInspection
    <3>4. Len(ts) \in DOMAIN ts /\ Last(ts) = ts[Len(ts)]
      BY <1>1 DEF Last
    <3> QED
      BY <2>1, <2>2, <3>3, <3>4
  <2>5. CommandsAgree(r, j)
    BY <2>2, <2>3, <1>4 DEF CommandsAgree
  <2>6. SearchAgrees(r)
    <3> SUFFICES ASSUME Declared(ts)
                 PROVE  /\ SameSearch(ts) /\ "none" \notin {ts[n].metrics : n \in DOMAIN ts}
                        /\ r.search = ts[1].metrics /\ r.sameSearch = "yes"
      BY <1>4 DEF SearchAgrees
    <3>1. SameSearch(ts)
      BY <1>8
    <3>2. "none" \notin {ts[n].metrics : n \in DOMAIN ts}
      BY <2>2
    <3>3. r.search = Last(ts).metrics /\ r.sameSearch = "yes"
      BY <2>1, <3>1
    <3>4. Len(ts) \in DOMAIN ts /\ Last(ts) = ts[Len(ts)] /\ 1 \in DOMAIN ts
      BY <1>1 DEF Last
    <3>5. Cardinality(Searched(ts)) = 1
      BY <3>1 DEF SameSearch
    <3> DEFINE N == Len(ts)
    <3>6. N \in Nat /\ DOMAIN ts = 1..N /\ N \in DOMAIN ts /\ 1 \in DOMAIN ts
      BY <1>1, <3>4
    <3>7. ts[N].metrics # "none" /\ ts[1].metrics # "none"
      BY <2>2, <3>6
    <3>8. ts[N].metrics = ts[1].metrics
      <4> HIDE DEF N
      <4> QED
        BY <3>5, <3>6, <3>7, OneHash
    <3> QED
      BY <3>1, <3>2, <3>3, <3>4, <3>8
  <2> QED
    BY <1>4, <1>8, <2>1, <2>2, <2>4, <2>5, <2>6 DEF MathzipIsStrict
<1> QED
  BY <1>6, <1>7, <1>8

-----------------------------------------------------------------------------
(* The runner of a cell.                                                   *)

Unmeasured == {"missing_input", "input_integrity_failed", "unavailable_codec", "warmup_failed"}

\* The rows the runner can make of the trials so far.
RunnerRows ==
  {EmptyRow(job, s, <<>>) : s \in Unmeasured}
  \cup {Aggregate(job, t) : t \in {u \in {trials} : Len(u) = job.repeats}}

\* A row is the runner's, or was improved from one that was no success; trials
\* are those of the job, whose input is there once it has any.
RowInv ==
  /\ job \in Configured /\ trials \in Seq(TrialsOf(job)) /\ relabelled \in BOOLEAN
  /\ trials # <<>> => job.input # "absent"
  /\ ~relabelled => row = NoRow \/ row \in RunnerRows
  /\ relabelled => \E r \in RunnerRows : r.status # "ok" /\ row = Improved(r)

LEMMA ImprovedIsOk ==
  ASSUME NEW r \in RunnerRows
  PROVE  Improved(r).status = "ok"
<1>1. ASSUME NEW s, NEW t PROVE "status" \in DOMAIN EmptyRow(job, s, t)
  BY DEF EmptyRow
<1>2. CASE r \in {EmptyRow(job, s, <<>>) : s \in Unmeasured}
  BY <1>1, <1>2 DEF Improved
<1>3. CASE r \in {Aggregate(job, t) : t \in {u \in {trials} : Len(u) = job.repeats}}
  <2>1. r = Aggregate(job, trials)
    BY <1>3
  <2>2. DOMAIN r = DOMAIN EmptyRow(job, "ok", trials)
    BY <2>1, AggregateIs
  <2> QED
    BY <2>2, <1>1 DEF Improved
<1> QED
  BY <1>2, <1>3 DEF RunnerRows

LEMMA RowInitially == RowInit => RowInv
<1> SUFFICES ASSUME RowInit PROVE RowInv
  OBVIOUS
<1>1. job \in Configured /\ trials = <<>> /\ row = NoRow /\ relabelled = FALSE
  BY DEF RowInit
<1>2. trials \in Seq(TrialsOf(job))
  BY <1>1
<1> QED
  BY <1>1, <1>2 DEF RowInv

LEMMA RowSteps == RowInv /\ [RowNext]_rowVars => RowInv'
<1> SUFFICES ASSUME RowInv, [RowNext]_rowVars PROVE RowInv'
  OBVIOUS
<1>0. /\ job \in Configured /\ trials \in Seq(TrialsOf(job)) /\ relabelled \in BOOLEAN
      /\ trials # <<>> => job.input # "absent"
      /\ ~relabelled => row = NoRow \/ row \in RunnerRows
      /\ relabelled => \E r \in RunnerRows : r.status # "ok" /\ row = Improved(r)
  BY DEF RowInv
<1>a. ASSUME row = NoRow, relabelled PROVE FALSE
  <2>1. PICK r \in RunnerRows : row = Improved(r)
    BY <1>0, <1>a
  <2>2. row.status = "ok"
    BY <2>1, ImprovedIsOk
  <2> QED
    BY <2>2, <1>a DEF NoRow
<1>1. CASE Skip
  <2>1. /\ row = NoRow /\ row' = EmptyRow(job, SkippedStatus, <<>>)
        /\ UNCHANGED <<job, warmed, trials, relabelled>>
    BY <1>1 DEF Skip, Pending
  <2>2. SkippedStatus \in Unmeasured
    BY DEF SkippedStatus, Unmeasured
  <2>3. row' \in RunnerRows'
    BY <2>1, <2>2 DEF RunnerRows
  <2> QED
    BY <2>1, <2>3, <1>0, <1>a DEF RowInv
<1>2. CASE WarmUp
  <2>1. row = NoRow /\ UNCHANGED <<job, trials, relabelled>>
    BY <1>2 DEF WarmUp, Pending
  <2>2. row' = row \/ row' = EmptyRow(job, "warmup_failed", <<>>)
    BY <1>2 DEF WarmUp
  <2>3. row' = NoRow \/ row' \in RunnerRows'
    BY <2>1, <2>2 DEF RunnerRows, Unmeasured
  <2> QED
    BY <2>1, <2>3, <1>0, <1>a DEF RowInv
<1>3. CASE Measure
  <2>1. row = NoRow /\ UNCHANGED <<job, row, relabelled>> /\ ~Skips
    BY <1>3 DEF Measure, Pending
  <2>2. PICK w \in TrialWorlds : trials' = Append(trials, ExecuteTrial(job, job.collect, w))
    BY <1>3 DEF Measure
  <2>3. ExecuteTrial(job, job.collect, w) \in TrialsOf(job)
    BY DEF TrialsOf
  <2>4. trials' \in Seq(TrialsOf(job))
    BY <2>2, <2>3, <1>0
  <2>5. job.input # "absent"
    BY <2>1 DEF Skips
  <2> QED
    BY <2>1, <2>4, <2>5, <1>0, <1>a DEF RowInv
<1>4. CASE FinishRow
  <2>1. /\ row = NoRow /\ row' = Aggregate(job, trials) /\ Len(trials) = job.repeats
        /\ UNCHANGED <<job, warmed, trials, relabelled>>
    BY <1>4 DEF FinishRow, Pending
  <2>2. row' \in RunnerRows'
    BY <2>1 DEF RunnerRows
  <2> QED
    BY <2>1, <2>2, <1>0, <1>a DEF RowInv
<1>5. CASE Relabel
  <2>1. /\ row # NoRow /\ row.status # "ok" /\ relabelled' = TRUE
        /\ UNCHANGED <<job, warmed, trials>>
    BY <1>5 DEF Relabel, Pending
  <2>2. row' = Improved(row)
    BY <1>5 DEF Relabel, Improved
  <2>3. ~relabelled
    <3> SUFFICES ASSUME relabelled PROVE FALSE
      OBVIOUS
    <3>1. PICK r \in RunnerRows : row = Improved(r)
      BY <1>0
    <3>2. row.status = "ok"
      BY <3>1, ImprovedIsOk
    <3> QED
      BY <3>2, <2>1
  <2>4. row \in RunnerRows'
    BY <2>1, <2>3, <1>0 DEF RunnerRows
  <2> QED
    BY <2>1, <2>2, <2>4, <1>0 DEF RowInv
<1>6. CASE UNCHANGED rowVars
  BY <1>0, <1>6 DEF RowInv, rowVars, RunnerRows
<1> QED
  BY <1>1, <1>2, <1>3, <1>4, <1>5, <1>6 DEF RowNext

LEMMA RowInvVerifies == RowInv => RowsVerify
<1> SUFFICES ASSUME RowInv PROVE RowsVerify
  OBVIOUS
<1>0. /\ job \in Configured /\ trials \in Seq(TrialsOf(job)) /\ relabelled \in BOOLEAN
      /\ trials # <<>> => job.input # "absent"
      /\ ~relabelled => row = NoRow \/ row \in RunnerRows
      /\ relabelled => \E r \in RunnerRows : r.status # "ok" /\ row = Improved(r)
  BY DEF RowInv
<1>1. ASSUME NEW r \in RunnerRows
      PROVE  \/ r.status # "ok" /\ \E s : r = EmptyRow(job, s, <<>>)
             \/ r = Aggregate(job, trials) /\ Len(trials) = job.repeats
  <2>1. CASE r \in {EmptyRow(job, s, <<>>) : s \in Unmeasured}
    BY <2>1 DEF Unmeasured, EmptyRow
  <2>2. CASE r \in {Aggregate(job, t) : t \in {u \in {trials} : Len(u) = job.repeats}}
    BY <2>2
  <2> QED
    BY <2>1, <2>2 DEF RunnerRows
<1>2. ASSUME Len(trials) = job.repeats PROVE job.input # "absent"
  BY <1>0, <1>2, CellAssumption DEF Configured, Jobs
<1>3. RelabelledRowsFail
  <2> SUFFICES ASSUME relabelled PROVE ~AcceptsRow(row)
    BY DEF RelabelledRowsFail
  <2>1. PICK r \in RunnerRows : r.status # "ok" /\ row = Improved(r)
    BY <1>0
  <2>2. CASE \E s : r = EmptyRow(job, s, <<>>)
    <3>1. PICK s : r = EmptyRow(job, s, <<>>)
      BY <2>2
    <3>2. /\ row.status = "ok" /\ row.requested = job.repeats /\ row.trials = <<>>
      BY <2>1, <3>1 DEF Improved, EmptyRow
    <3>3. ~TrialsSupport(row)
      BY <3>2 DEF TrialsSupport
    <3> QED
      BY <3>2, <3>3 DEF AcceptsRow
  <2>3. CASE r = Aggregate(job, trials) /\ Len(trials) = job.repeats
    BY <2>1, <2>3, <1>0, ImprovedRowFails
  <2> QED
    BY <1>1, <2>2, <2>3
<1>4. CASE row = NoRow \/ relabelled
  BY <1>3, <1>4
     DEF RowsVerify, RunnerRowsPass, StrictRowsAreInspected, MathzipRowsAreOneArchive, Pending
<1>5. CASE row.status # "ok"
  BY <1>3, <1>5
     DEF RowsVerify, RunnerRowsPass, StrictRowsAreInspected, MathzipRowsAreOneArchive, AcceptsRow
<1>6. CASE ~relabelled /\ row # NoRow /\ row.status = "ok"
  <2>1. row \in RunnerRows
    BY <1>0, <1>6
  <2>2. row = Aggregate(job, trials) /\ Len(trials) = job.repeats
    BY <2>1, <1>1, <1>6
  <2>3. job.input # "absent"
    BY <2>2, <1>2
  <2>4. AcceptsRow(row)
    BY <1>0, <1>6, <2>2, <2>3, OkRowPasses
  <2>5. AcceptsRowStrictly(row, job) <=>
          /\ job.repeats >= StrictRepeats /\ job.input = "verified"
          /\ job.family = "mathzip" => job.collect /\ (Declared(trials) => SameSearch(trials))
    BY <1>0, <1>6, <2>2, <2>3, StrictRow
  <2>6. row.family = job.family
    <3>1. Ok(trials) = trials /\ trials # <<>>
      BY <1>0, <1>6, <2>2, OkRow
    <3> QED
      BY <2>2, <3>1, AggregateIs
  <2>7. ASSUME row.family = "mathzip"
        PROVE  \E a \in Contents :
                 /\ row.archive = a /\ row.bytes = SizeOf[a]
                 /\ row.inspection \in {Blank, SizeOf[a]}
                 /\ \A n \in DOMAIN trials : trials[n].hash = a /\ trials[n].restored = "input"
    <3>1. job.family = "mathzip"
      BY <2>6, <2>7
    <3> QED
      BY <3>1, <1>0, <1>6, <2>2, OneArchiveRow
  <2>8. RunnerRowsPass
    BY <2>4 DEF RunnerRowsPass
  <2>9. StrictRowsAreInspected
    BY <2>5, <2>6 DEF StrictRowsAreInspected
  <2>10. MathzipRowsAreOneArchive
    BY <2>7 DEF MathzipRowsAreOneArchive
  <2> QED
    BY <1>3, <2>8, <2>9, <2>10 DEF RowsVerify
<1> QED
  BY <1>4, <1>5, <1>6

\* The verifier and the runner agree about every row.
LEMMA EveryRowVerifies == RowSpec => []RowsVerify
<1>1. RowSpec => []RowInv
  BY RowInitially, RowSteps, PTL DEF RowSpec
<1> QED
  BY <1>1, RowInvVerifies, PTL

-----------------------------------------------------------------------------
(* Discovery: the grid of a campaign.                                      *)

LEMMA InputsAre ==
  ASSUME NEW n \in DOMAIN Inputs
  PROVE  /\ Inputs[n] \in InputSources /\ n \in Nat
         /\ Inputs[n].files \in Seq(STRING) /\ Distinct(Inputs[n].files)
         /\ Inputs[n].max \in Nat
<1>1. Inputs \in Seq(InputSources) /\ Distinct(Inputs[n].files)
  BY DocumentAssumption
<1>2. Inputs[n] \in InputSources /\ n \in Nat
  BY <1>1
<1> QED
  BY <1>1, <1>2 DEF InputSources

LEMMA ConcatIs ==
  ASSUME NEW S, NEW a \in Seq(S), NEW b \in Seq(S), NEW c, c = a \o b,
         NEW k, k = Len(a), NEW l, l = Len(b)
  PROVE  /\ c \in Seq(S) /\ DOMAIN c = 1..(k + l) /\ k \in Nat /\ l \in Nat
         /\ \A i \in 1..k : c[i] = a[i]
         /\ \A i \in 1..l : c[k + i] = b[i]
         /\ \A i \in 1..(k + l) : i \in 1..k \/ (i - k \in 1..l /\ c[i] = b[i - k])
<1>1. c \in Seq(S) /\ Len(c) = k + l /\ k \in Nat /\ l \in Nat
  BY ConcatProperties
<1>2. \A i \in 1..(k + l) : c[i] = IF i <= k THEN a[i] ELSE b[i - k]
  BY <1>1, ConcatProperties
<1>3. \A i \in 1..k : c[i] = a[i]
  BY <1>1, <1>2
<1>4. ASSUME NEW i \in 1..l PROVE c[k + i] = b[i]
  <2>1. k + i \in 1..(k + l) /\ ~(k + i <= k) /\ (k + i) - k = i
    BY <1>1
  <2> QED
    BY <2>1, <1>2
<1>5. ASSUME NEW i \in 1..(k + l), i \notin 1..k PROVE i - k \in 1..l /\ c[i] = b[i - k]
  <2>1. i - k \in 1..l /\ ~(i <= k)
    BY <1>1, <1>5
  <2>2. c[i] = IF i <= k THEN a[i] ELSE b[i - k]
    BY <1>2
  <2> QED
    BY <2>1, <2>2
<1>6. DOMAIN c = 1..(k + l)
  BY <1>1
<1> QED
  BY <1>1, <1>3, <1>4, <1>5, <1>6

\* Where the elements of a shortened sequence were.
Embeds(e, k, s) ==
  /\ \A i \in DOMAIN k : e[i] \in DOMAIN s /\ k[i] = s[e[i]]
  /\ \A i, j \in DOMAIN k : e[i] = e[j] => i = j

\* The limit of a source shortens the cases, but leaves one of each corpus.
LEMMA LimitedIs ==
  ASSUME NEW S, NEW cases \in Seq(S), NEW src \in InputSources, NEW k, k = Limited(cases, src)
  PROVE  /\ k \in Seq(S)
         /\ \E e : Embeds(e, k, cases)
         /\ \A n \in DOMAIN cases : \E i \in DOMAIN k : k[i].corpus = cases[n].corpus
<1>1. CASE src.max = 0
  <2>1. k = cases
    BY <1>1 DEF Limited
  <2>2. Embeds([i \in DOMAIN k |-> i], k, cases)
    BY <2>1 DEF Embeds
  <2> QED
    BY <2>1, <2>2
<1>2. CASE src.max # 0
  <2> DEFINE rank(n) == Cardinality({m \in 1..n : cases[m].corpus = src.corpus})
             at == {n \in DOMAIN cases : cases[n].corpus # src.corpus \/ rank(n) <= src.max}
  <2>1. k = Kept(cases, at)
    BY <1>2 DEF Limited
  <2>0. src.max \in Nat \ {0} /\ Len(cases) \in Nat /\ DOMAIN cases = 1..Len(cases)
    BY <1>2 DEF InputSources
  <2>2. ASSUME NEW n \in DOMAIN cases
        PROVE  \E m \in at : m \in DOMAIN cases /\ cases[m].corpus = cases[n].corpus
    <3>1. CASE cases[n].corpus # src.corpus
      BY <3>1
    <3>2. CASE cases[n].corpus = src.corpus
      <4> DEFINE T == {m \in DOMAIN cases : cases[m].corpus = src.corpus}
      <4>1. T \subseteq Nat /\ n \in T
        BY <3>2, <2>0
      <4>2. PICK m \in T : \A i \in T : m <= i
        <5> HIDE DEF T
        <5>1. PICK m \in T : \A i \in T : <<i, m>> \notin OpToRel(<, Nat)
          BY <4>1, NatLessThanWellFounded, WFMin
        <5>2. ASSUME NEW i \in T PROVE m <= i
          <6>1. i \in Nat /\ m \in Nat
            BY <4>1
          <6>2. ~(i < m)
            BY <5>1, <6>1 DEF OpToRel
          <6> QED
            BY <6>1, <6>2
        <5> QED
          BY <5>2
      <4>3. m \in DOMAIN cases /\ cases[m].corpus = src.corpus
        OBVIOUS
      <4>4. {i \in 1..m : cases[i].corpus = src.corpus} = {m}
        <5>1. ASSUME NEW i \in 1..m, cases[i].corpus = src.corpus PROVE i = m
          <6>1. i \in T
            BY <5>1, <4>3, <2>0
          <6>2. m <= i
            BY <6>1, <4>2
          <6> QED
            BY <6>2, <4>3, <2>0
        <5>2. m \in 1..m
          BY <4>3, <2>0
        <5> QED
          BY <5>1, <5>2, <4>3
      <4>5. Cardinality({m}) = 1
        BY FS_Singleton
      <4>6. rank(m) = 1
        BY ONLY <4>4, <4>5, Zenon
      <4>7. m \in at
        <5> HIDE DEF rank
        <5> QED
          BY <4>3, <4>6, <2>0
      <4> QED
        BY <4>3, <4>7, <3>2
    <3> QED
      BY <3>1, <3>2
  <2> HIDE DEF at
  <2>3. k \in Seq(S)
    BY <2>1, KeptIs
  <2>4. PICK e : Enumerates(e, k, cases, at, Len(cases))
    BY <2>1, KeptIs
  <2>5. DOMAIN k = 1..Len(k) /\ Len(k) \in Nat
    BY <2>3
  <2>6. Embeds(e, k, cases)
    <3>1. \A i \in DOMAIN k : e[i] \in DOMAIN cases /\ k[i] = cases[e[i]]
      BY <2>0, <2>4, <2>5 DEF Enumerates
    <3>2. ASSUME NEW i \in DOMAIN k, NEW j \in DOMAIN k, i # j PROVE e[i] # e[j]
      <4>1. i \in Nat /\ j \in Nat /\ e[i] \in Nat /\ e[j] \in Nat
        BY <2>0, <2>5, <3>1
      <4>2. i < j => e[i] < e[j]
        BY <2>4, <2>5 DEF Enumerates
      <4>3. j < i => e[j] < e[i]
        BY <2>4, <2>5 DEF Enumerates
      <4> QED
        BY <4>1, <4>2, <4>3, <3>2
    <3> QED
      BY <3>1, <3>2 DEF Embeds
  <2>7. ASSUME NEW n \in DOMAIN cases
        PROVE  \E i \in DOMAIN k : k[i].corpus = cases[n].corpus
    <3>1. PICK m \in at : m \in DOMAIN cases /\ cases[m].corpus = cases[n].corpus
      BY <2>2
    <3>2. PICK i \in 1..Len(k) : e[i] = m
      BY <3>1, <2>0, <2>4 DEF Enumerates
    <3> QED
      BY <3>1, <3>2, <2>5, <2>6 DEF Embeds
  <2> QED
    BY <2>3, <2>6, <2>7
<1> QED
  BY <1>1, <1>2

\* What Discover computes, as a relation.
FindsUpTo(f, w, m) ==
  f = [n \in 0..m |-> IF n = 0 THEN NothingFound ELSE Discovered(f[n - 1], Inputs[n], w)]

LEMMA FindingExists ==
  ASSUME NEW w, NEW N \in Nat
  PROVE  \E f : FindsUpTo(f, w, N)
<1> DEFINE T == {m \in Nat : \E f : FindsUpTo(f, w, m)}
<1>1. 0 \in T
  <2> DEFINE g == [n \in 0..0 |-> NothingFound]
  <2>1. g = [n \in 0..0 |-> IF n = 0 THEN NothingFound
                            ELSE Discovered(g[n - 1], Inputs[n], w)]
    OBVIOUS
  <2> HIDE DEF g
  <2> QED
    BY <2>1 DEF FindsUpTo
<1>2. ASSUME NEW k \in Nat, k \in T PROVE k + 1 \in T
  <2>1. PICK f : FindsUpTo(f, w, k)
    BY <1>2
  <2> DEFINE last == Discovered(f[k], Inputs[k + 1], w)
  <2> DEFINE g == [n \in 0..k+1 |-> IF n = k + 1 THEN last ELSE f[n]]
  <2>2. ASSUME NEW n \in 0..k+1
        PROVE  g[n] = IF n = 0 THEN NothingFound ELSE Discovered(g[n - 1], Inputs[n], w)
    <3>1. CASE n = k + 1
      <4>1. n # 0 /\ n - 1 = k /\ k \in 0..k+1 /\ k # k + 1 /\ g[k] = f[k]
        BY <3>1
      <4> QED
        BY <3>1, <4>1
    <3>2. CASE n # k + 1
      <4>1. n \in 0..k /\ g[n] = f[n]
        BY <3>2
      <4>2. f[n] = IF n = 0 THEN NothingFound ELSE Discovered(f[n - 1], Inputs[n], w)
        BY <4>1, <2>1 DEF FindsUpTo
      <4>3. n # 0 => n - 1 \in 0..k+1 /\ n - 1 # k + 1 /\ g[n - 1] = f[n - 1]
        BY <4>1
      <4> QED
        BY <4>1, <4>2, <4>3
    <3> QED
      BY <3>1, <3>2
  <2>3. g = [n \in 0..k+1 |-> IF n = 0 THEN NothingFound
                              ELSE Discovered(g[n - 1], Inputs[n], w)]
    BY <2>2
  <2> HIDE DEF g
  <2>4. FindsUpTo(g, w, k + 1)
    BY <2>3 DEF FindsUpTo
  <2> QED
    BY <2>4
<1>3. Nat \subseteq T
  <2> HIDE DEF T
  <2> QED
    BY <1>1, <1>2, NaturalsFrom
<1> QED
  BY <1>3

LEMMA DiscoverDef ==
  ASSUME NEW w
  PROVE  \E f : FindsUpTo(f, w, Len(Inputs)) /\ Discover(w) = f[Len(Inputs)]
<1> DEFINE f == CHOOSE g : FindsUpTo(g, w, Len(Inputs))
<1>0. Len(Inputs) \in Nat
  BY DocumentAssumption
<1>1. FindsUpTo(f, w, Len(Inputs))
  BY <1>0, FindingExists
<1>2. Discover(w) = f[Len(Inputs)]
  BY DEF Discover, FindsUpTo
<1> QED
  BY <1>1, <1>2

Cases(w) == {Case(src, file, w) : src \in InputSources, file \in STRING}

InTable(table, corpus) == \E m \in DOMAIN table : table[m].corpus = corpus

\* What holds of the first k sources: no file is taken twice, and no required
\* corpus is forgotten.
Finding(found, w, k) ==
  /\ found.cases \in Seq(Cases(w)) /\ found.missing \in Seq(InputSources)
  /\ \A n \in DOMAIN found.cases : found.cases[n].file \in found.seen
  /\ \A m, n \in DOMAIN found.cases : found.cases[m].file = found.cases[n].file => m = n
  /\ \A n \in 1..k : Inputs[n].required =>
       InTable(found.cases, Inputs[n].corpus) \/ InTable(found.missing, Inputs[n].corpus)

\* The files of a source that are new.
There(found, src, w) ==
  Kept(src.files, {n \in DOMAIN src.files : /\ w.disk[src.files[n]] # "gone"
                                            /\ src.files[n] \notin found.seen})

LEMMA ThereIs ==
  ASSUME NEW found, NEW src \in InputSources, Distinct(src.files), NEW w,
         NEW there, there = There(found, src, w)
  PROVE  /\ there \in Seq(STRING) /\ Distinct(there)
         /\ \A n \in DOMAIN there : there[n] \notin found.seen
<1> DEFINE files == src.files
           at == {n \in DOMAIN files : w.disk[files[n]] # "gone" /\ files[n] \notin found.seen}
<1>1. files \in Seq(STRING) /\ Distinct(files)
  BY DEF InputSources
<1>2. there = Kept(files, at)
  BY DEF There
<1>3. \A n \in at : files[n] \notin found.seen
  OBVIOUS
<1> HIDE DEF at, files
<1>4. there \in Seq(STRING)
  BY <1>1, <1>2, KeptIs
<1>5. PICK e : Enumerates(e, there, files, at, Len(files))
  BY <1>1, <1>2, KeptIs
<1>6. DOMAIN there = 1..Len(there) /\ DOMAIN files = 1..Len(files)
      /\ Len(there) \in Nat /\ Len(files) \in Nat
  BY <1>1, <1>4
<1>7. \A n \in DOMAIN there : e[n] \in DOMAIN files /\ e[n] \in at /\ there[n] = files[e[n]]
  BY <1>5, <1>6 DEF Enumerates
<1>8. ASSUME NEW m \in DOMAIN there, NEW n \in DOMAIN there, there[m] = there[n]
      PROVE  m = n
  <2>1. e[m] = e[n]
    BY <1>1, <1>7, <1>8 DEF Distinct
  <2>2. m \in Nat /\ n \in Nat /\ e[m] \in Nat /\ e[n] \in Nat
    BY <1>6, <1>7
  <2>3. (m < n => e[m] < e[n]) /\ (n < m => e[n] < e[m])
    BY <1>5, <1>6 DEF Enumerates
  <2> QED
    BY <2>1, <2>2, <2>3
<1> QED
  BY <1>3, <1>4, <1>7, <1>8 DEF Distinct

LEMMA DiscoveredIs ==
  ASSUME NEW w, NEW k \in Nat, k + 1 \in DOMAIN Inputs, NEW found, Finding(found, w, k),
         NEW new, new = Discovered(found, Inputs[k + 1], w)
  PROVE  Finding(new, w, k + 1)
<1> DEFINE src == Inputs[k + 1]
           there == There(found, src, w)
           more == [n \in DOMAIN there |-> Case(src, there[n], w)]
           all == found.cases \o more
           cases == Limited(all, src)
           lacks == src.required /\ ~\E n \in DOMAIN cases : cases[n].corpus = src.corpus
<1>1. src \in InputSources /\ Distinct(src.files)
  BY SMTT(40), InputsAre
<1>2. /\ new.cases = cases /\ new.seen = found.seen \cup ToSet(there)
      /\ new.missing = IF lacks THEN Append(found.missing, src) ELSE found.missing
  BY DEF Discovered, There
<1>3. found.cases \in Seq(Cases(w)) /\ found.missing \in Seq(InputSources)
  BY DEF Finding
<1>4. /\ there \in Seq(STRING) /\ Distinct(there)
      /\ \A n \in DOMAIN there : there[n] \notin found.seen
  <2> HIDE DEF src
  <2>1. there \in Seq(STRING) /\ Distinct(there)
    BY <1>1, ThereIs
  <2>2. \A n \in DOMAIN there : there[n] \notin found.seen
    BY <1>1, ThereIs
  <2> QED
    BY <2>1, <2>2
<1> HIDE DEF src, there
<1>5. /\ more \in Seq(Cases(w)) /\ DOMAIN more = DOMAIN there /\ Len(more) = Len(there)
      /\ \A n \in DOMAIN more : more[n].file = there[n] /\ more[n].corpus = src.corpus
  <2>1. DOMAIN there = 1..Len(there) /\ Len(there) \in Nat /\ \A n \in DOMAIN there : there[n] \in STRING
    BY <1>4
  <2>2. \A n \in DOMAIN there : Case(src, there[n], w) \in Cases(w)
    BY <1>1, <2>1 DEF Cases
  <2>3. \A n \in DOMAIN there : /\ Case(src, there[n], w).file = there[n]
                                /\ Case(src, there[n], w).corpus = src.corpus
    BY DEF Case
  <2> QED
    BY <2>1, <2>2, <2>3
<1> HIDE DEF more
<1> DEFINE a == Len(found.cases)
           b == Len(more)
<1>6. /\ all \in Seq(Cases(w)) /\ DOMAIN all = 1..(a + b) /\ a \in Nat /\ b \in Nat
      /\ \A i \in 1..a : all[i] = found.cases[i]
      /\ \A i \in 1..(a + b) : i \in 1..a \/ (i - a \in 1..b /\ all[i] = more[i - a])
  <2>0. all = found.cases \o more /\ a = Len(found.cases) /\ b = Len(more)
    OBVIOUS
  <2> HIDE DEF a, b, all
  <2>4. found.cases \in Seq(Cases(w)) /\ more \in Seq(Cases(w))
    BY <1>3, <1>5
  <2>1. all \in Seq(Cases(w)) /\ DOMAIN all = 1..(a + b) /\ a \in Nat /\ b \in Nat
    BY ONLY <2>0, <2>4, ConcatIs
  <2>2. \A i \in 1..a : all[i] = found.cases[i]
    BY ONLY <2>0, <2>4, ConcatIs
  <2>3. \A i \in 1..(a + b) : i \in 1..a \/ (i - a \in 1..b /\ all[i] = more[i - a])
    BY ONLY <2>0, <2>4, ConcatIs
  <2> QED
    BY <2>1, <2>2, <2>3
<1>7. DOMAIN found.cases = 1..a /\ DOMAIN more = 1..b
  BY <1>3, <1>5
<1> HIDE DEF a, b, all
<1>8. /\ cases \in Seq(Cases(w))
      /\ \A n \in DOMAIN all : \E i \in DOMAIN cases : cases[i].corpus = all[n].corpus
  <2>0. cases = Limited(all, src)
    OBVIOUS
  <2> HIDE DEF cases
  <2>3. all \in Seq(Cases(w)) /\ src \in InputSources
    BY <1>1, <1>6
  <2>1. cases \in Seq(Cases(w))
    BY ONLY <2>0, <2>3, LimitedIs
  <2>2. \A n \in DOMAIN all : \E i \in DOMAIN cases : cases[i].corpus = all[n].corpus
    BY ONLY <2>0, <2>3, LimitedIs
  <2> QED
    BY <2>1, <2>2
<1>9. PICK e : Embeds(e, cases, all)
  BY <1>1, <1>6, LimitedIs
<1> HIDE DEF cases
<1>10. ASSUME NEW n \in DOMAIN all
       PROVE  all[n].file \in new.seen
  <2>1. CASE n \in 1..a
    BY <1>2, <1>6, <1>7, <2>1 DEF Finding
  <2>2. CASE n \notin 1..a
    <3>1. n - a \in DOMAIN there /\ all[n].file = there[n - a]
      BY <1>5, <1>6, <1>7, <2>2
    <3>2. there[n - a] \in ToSet(there)
      BY <3>1 DEF ToSet
    <3> QED
      BY <3>1, <3>2, <1>2
  <2> QED
    BY <2>1, <2>2
<1>11. ASSUME NEW m \in DOMAIN all, NEW n \in DOMAIN all, all[m].file = all[n].file
       PROVE  m = n
  <2>1. ASSUME NEW i \in DOMAIN all, i \notin 1..a
        PROVE  /\ i - a \in DOMAIN there /\ all[i].file = there[i - a]
               /\ all[i].file \notin found.seen
    <3>1. i - a \in DOMAIN there /\ all[i].file = there[i - a]
      BY <1>5, <1>6, <1>7, <2>1
    <3> QED
      BY <3>1, <1>4
  <2>2. ASSUME NEW i \in DOMAIN all, i \in 1..a
        PROVE  i \in DOMAIN found.cases /\ all[i] = found.cases[i] /\ all[i].file \in found.seen
    BY <1>6, <1>7, <2>2 DEF Finding
  <2>3. CASE m \in 1..a /\ n \in 1..a
    BY <2>2, <2>3, <1>11 DEF Finding
  <2>4. CASE m \notin 1..a /\ n \notin 1..a
    <3>1. m - a = n - a
      BY <2>1, <2>4, <1>4, <1>11 DEF Distinct
    <3> QED
      BY <3>1, <1>6
  <2>5. CASE (m \in 1..a /\ n \notin 1..a) \/ (m \notin 1..a /\ n \in 1..a)
    BY <2>1, <2>2, <2>5, <1>11
  <2> QED
    BY <2>3, <2>4, <2>5
<1>12. \A n \in DOMAIN cases : cases[n].file \in new.seen
  BY <1>9, <1>10 DEF Embeds
<1>13. \A m, n \in DOMAIN cases : cases[m].file = cases[n].file => m = n
  BY <1>9, <1>11 DEF Embeds
<1>14. new.missing \in Seq(InputSources)
  BY <1>1, <1>2, <1>3
<1>15. ASSUME NEW c, InTable(found.missing, c) PROVE InTable(new.missing, c)
  <2>1. CASE new.missing = found.missing
    BY <1>15, <2>1
  <2>2. CASE new.missing = Append(found.missing, src)
    <3>1. PICK m \in DOMAIN found.missing : found.missing[m].corpus = c
      BY <1>15 DEF InTable
    <3>2. m \in DOMAIN new.missing /\ new.missing[m] = found.missing[m]
      BY <2>2, <1>3, <1>1
    <3> QED
      BY <3>1, <3>2 DEF InTable
  <2> QED
    BY <2>1, <2>2, <1>2
<1>16. ASSUME NEW c, InTable(found.cases, c) PROVE InTable(cases, c)
  <2>1. PICK m \in DOMAIN found.cases : found.cases[m].corpus = c
    BY <1>16 DEF InTable
  <2>2. m \in DOMAIN all /\ all[m].corpus = c
    BY <2>1, <1>6, <1>7
  <2> QED
    BY <2>2, <1>8 DEF InTable
<1>17. ASSUME NEW n \in 1..k+1, Inputs[n].required
       PROVE  InTable(cases, Inputs[n].corpus) \/ InTable(new.missing, Inputs[n].corpus)
  <2>1. CASE n = k + 1
    <3>1. src = Inputs[n]
      BY <2>1 DEF src
    <3>2. CASE lacks
      <4>1. new.missing = Append(found.missing, src)
        BY <3>2, <1>2
      <4>2. Len(found.missing) + 1 \in DOMAIN new.missing
            /\ new.missing[Len(found.missing) + 1] = src
        BY <4>1, <1>1, <1>3
      <4> QED
        BY <4>2, <3>1 DEF InTable
    <3>3. CASE ~lacks
      BY <3>1, <3>3, <1>17 DEF InTable
    <3> QED
      BY <3>2, <3>3
  <2>2. CASE n # k + 1
    <3>1. n \in 1..k
      BY <2>2
    <3>2. InTable(found.cases, Inputs[n].corpus) \/ InTable(found.missing, Inputs[n].corpus)
      BY <3>1, <1>17 DEF Finding
    <3> QED
      BY <3>2, <1>15, <1>16
  <2> QED
    BY <2>1, <2>2
<1> QED
  BY <1>2, <1>8, <1>12, <1>13, <1>14, <1>17 DEF Finding

LEMMA DiscoverIs ==
  ASSUME NEW w
  PROVE  Finding(Discover(w), w, Len(Inputs))
<1>0. Len(Inputs) \in Nat /\ DOMAIN Inputs = 1..Len(Inputs)
  BY DocumentAssumption
<1>1. PICK f : FindsUpTo(f, w, Len(Inputs)) /\ Discover(w) = f[Len(Inputs)]
  BY DiscoverDef
<1> DEFINE N == Len(Inputs)
           T == {k \in Nat : k <= N => Finding(f[k], w, k)}
<1>2. 0 \in T
  <2>1. f[0] = NothingFound
    BY <1>0, <1>1 DEF FindsUpTo
  <2>2. NothingFound.cases = <<>> /\ NothingFound.missing = <<>>
    BY DEF NothingFound
  <2>3. <<>> \in Seq(Cases(w)) /\ <<>> \in Seq(InputSources) /\ DOMAIN <<>> = {} /\ 1..0 = {}
    OBVIOUS
  <2>4. Finding(f[0], w, 0)
    BY <2>1, <2>2, <2>3 DEF Finding
  <2> QED
    BY <2>4
<1>3. ASSUME NEW k \in Nat, k \in T PROVE k + 1 \in T
  <2> SUFFICES ASSUME k + 1 <= N PROVE Finding(f[k + 1], w, k + 1)
    OBVIOUS
  <2>1. /\ Finding(f[k], w, k) /\ k + 1 \in DOMAIN Inputs
        /\ k + 1 \in 0..N /\ k + 1 # 0 /\ (k + 1) - 1 = k
    BY <1>0, <1>3
  <2>2. f[k + 1] = Discovered(f[k], Inputs[k + 1], w)
    BY <2>1, <1>1 DEF FindsUpTo
  <2> QED
    BY <2>1, <2>2, DiscoveredIs
<1>4. Nat \subseteq T
  <2> HIDE DEF T
  <2> QED
    BY <1>2, <1>3, NaturalsFrom
<1>5. N \in T /\ N <= N
  BY <1>0, <1>4
<1> QED
  BY <1>1, <1>5

Entries(w) ==
  {MissingEntry(src, w) : src \in InputSources} \cup {CaseEntry(c, w) : c \in Cases(w)}

\* The evidence of an entry, as the verifier computes it again.
Evident(e) ==
  /\ e.missing \in BOOLEAN /\ e.manifest \in BOOLEAN
  /\ e.verified = IF e.missing THEN None
                  ELSE IF e.expected # None /\ e.actual = e.expected THEN "yes" ELSE "no"
  /\ e.verified = "yes" => e.actual = "listed" /\ ~e.missing

LEMMA EntriesAreEvident ==
  ASSUME NEW w, NEW e \in Entries(w)
  PROVE  Evident(e)
<1>1. CASE e \in {MissingEntry(src, w) : src \in InputSources}
  <2>1. PICK src \in InputSources : e = MissingEntry(src, w)
    BY <1>1
  <2>2. e.missing = TRUE /\ e.manifest = FALSE /\ e.verified = None
    BY <2>1 DEF MissingEntry
  <2>3. e.verified # "yes"
    BY <2>2 DEF None
  <2> QED
    BY <2>2, <2>3 DEF Evident
<1>2. CASE e \in {CaseEntry(c, w) : c \in Cases(w)}
  <2>1. PICK c \in Cases(w) : e = CaseEntry(c, w)
    BY <1>2
  <2>2. c.manifest \in BOOLEAN
    <3>1. PICK src \in InputSources, file \in STRING : c = Case(src, file, w)
      BY DEF Cases
    <3>2. c.manifest = (w.manifest[src.corpus] = "lists")
      BY <3>1 DEF Case
    <3> QED
      BY <3>2
  <2>3. e.missing = FALSE /\ e.manifest = c.manifest /\ e.actual = w.disk[c.file]
    BY <2>1 DEF CaseEntry
  <2>4. e.expected = IF c.manifest THEN "listed" ELSE None
    BY <2>1 DEF CaseEntry
  <2>5. e.verified = IF c.manifest /\ w.disk[c.file] = "listed" THEN "yes" ELSE "no"
    BY <2>1 DEF CaseEntry
  <2>6. CASE c.manifest
    BY <2>2, <2>3, <2>4, <2>5, <2>6 DEF Evident, None
  <2>7. CASE ~c.manifest
    BY <2>2, <2>3, <2>4, <2>5, <2>7 DEF Evident, None
  <2> QED
    BY <2>6, <2>7
<1> QED
  BY <1>1, <1>2 DEF Entries

\* The grid of a campaign: evident entries, no file twice, no required corpus
\* without an entry.
LEMMA GridIs ==
  ASSUME NEW w, NEW grid, grid = ExpectedGrid(w)
  PROVE  /\ grid \in Seq(Entries(w))
         /\ \A m, n \in DOMAIN grid :
              grid[m].file = grid[n].file /\ ~grid[m].missing /\ ~grid[n].missing => m = n
         /\ \A n \in DOMAIN Inputs : Inputs[n].required => InTable(grid, Inputs[n].corpus)
<1> DEFINE found == Discover(w)
           a == [n \in DOMAIN found.missing |-> MissingEntry(found.missing[n], w)]
           b == [n \in DOMAIN found.cases |-> CaseEntry(found.cases[n], w)]
           k == Len(a)
           l == Len(b)
<1>1. Finding(found, w, Len(Inputs))
  BY DiscoverIs
<1>2. grid = a \o b
  BY DEF ExpectedGrid
<1>3. DOMAIN Inputs = 1..Len(Inputs)
  BY DocumentAssumption
<1> HIDE DEF found
<1>4. found.cases \in Seq(Cases(w)) /\ found.missing \in Seq(InputSources)
  BY <1>1 DEF Finding
<1>5. /\ a \in Seq(Entries(w)) /\ DOMAIN a = 1..k /\ DOMAIN a = DOMAIN found.missing
      /\ \A n \in DOMAIN a : a[n].missing /\ a[n].corpus = found.missing[n].corpus
  <2>1. /\ DOMAIN found.missing = 1..Len(found.missing) /\ Len(found.missing) \in Nat
        /\ \A n \in DOMAIN found.missing : found.missing[n] \in InputSources
    BY <1>4
  <2>2. \A n \in DOMAIN found.missing : MissingEntry(found.missing[n], w) \in Entries(w)
    BY <2>1 DEF Entries
  <2>3. \A n \in DOMAIN found.missing :
          /\ MissingEntry(found.missing[n], w).missing
          /\ MissingEntry(found.missing[n], w).corpus = found.missing[n].corpus
    BY DEF MissingEntry
  <2> QED
    BY <2>1, <2>2, <2>3
<1>6. /\ b \in Seq(Entries(w)) /\ DOMAIN b = 1..l /\ DOMAIN b = DOMAIN found.cases
      /\ \A n \in DOMAIN b : /\ ~b[n].missing /\ b[n].corpus = found.cases[n].corpus
                             /\ b[n].file = found.cases[n].file
  <2>1. /\ DOMAIN found.cases = 1..Len(found.cases) /\ Len(found.cases) \in Nat
        /\ \A n \in DOMAIN found.cases : found.cases[n] \in Cases(w)
    BY <1>4
  <2>2. \A n \in DOMAIN found.cases : CaseEntry(found.cases[n], w) \in Entries(w)
    BY <2>1 DEF Entries
  <2>3. \A n \in DOMAIN found.cases :
          /\ ~CaseEntry(found.cases[n], w).missing
          /\ CaseEntry(found.cases[n], w).corpus = found.cases[n].corpus
          /\ CaseEntry(found.cases[n], w).file = found.cases[n].file
    BY DEF CaseEntry
  <2> QED
    BY <2>1, <2>2, <2>3
<1>7. k = Len(a) /\ l = Len(b)
  OBVIOUS
<1> HIDE DEF a, b, k, l
<1>8. /\ grid \in Seq(Entries(w)) /\ DOMAIN grid = 1..(k + l) /\ k \in Nat /\ l \in Nat
      /\ \A i \in 1..k : grid[i] = a[i]
      /\ \A i \in 1..l : grid[k + i] = b[i]
      /\ \A i \in 1..(k + l) : i \in 1..k \/ (i - k \in 1..l /\ grid[i] = b[i - k])
  <2>0. a \in Seq(Entries(w)) /\ b \in Seq(Entries(w))
    BY <1>5, <1>6
  <2>1. grid \in Seq(Entries(w)) /\ DOMAIN grid = 1..(k + l) /\ k \in Nat /\ l \in Nat
    BY ONLY <2>0, <1>2, <1>7, ConcatIs
  <2>2. \A i \in 1..k : grid[i] = a[i]
    BY ONLY <2>0, <1>2, <1>7, ConcatIs
  <2>3. \A i \in 1..l : grid[k + i] = b[i]
    BY ONLY <2>0, <1>2, <1>7, ConcatIs
  <2>4. \A i \in 1..(k + l) : i \in 1..k \/ (i - k \in 1..l /\ grid[i] = b[i - k])
    BY ONLY <2>0, <1>2, <1>7, ConcatIs
  <2> QED
    BY <2>1, <2>2, <2>3, <2>4
<1>9. ASSUME NEW m \in DOMAIN grid, ~grid[m].missing
      PROVE  /\ m - k \in DOMAIN found.cases /\ m \in Nat
             /\ grid[m].file = found.cases[m - k].file
  <2>1. m \notin 1..k
    <3> SUFFICES ASSUME m \in 1..k PROVE FALSE
      OBVIOUS
    <3>1. grid[m] = a[m] /\ m \in DOMAIN a
      BY <1>5, <1>8
    <3>2. a[m].missing
      BY <3>1, <1>5
    <3> QED
      BY <3>1, <3>2, <1>9
  <2>2. m \in 1..(k + l) /\ m \in Nat
    BY <1>8
  <2>3. m - k \in 1..l /\ grid[m] = b[m - k]
    BY <2>1, <2>2, <1>8
  <2>4. m - k \in DOMAIN b /\ m - k \in DOMAIN found.cases
    BY <2>3, <1>6
  <2>5. b[m - k].file = found.cases[m - k].file
    BY <2>4, <1>6
  <2> QED
    BY <2>2, <2>3, <2>4, <2>5
<1>10. ASSUME NEW m \in DOMAIN grid, NEW n \in DOMAIN grid, grid[m].file = grid[n].file,
              ~grid[m].missing, ~grid[n].missing
       PROVE  m = n
  <2>1. /\ m - k \in DOMAIN found.cases /\ n - k \in DOMAIN found.cases
        /\ found.cases[m - k].file = found.cases[n - k].file /\ m \in Nat /\ n \in Nat
    BY <1>9, <1>10
  <2>2. m - k = n - k
    BY <2>1, <1>1 DEF Finding
  <2> QED
    BY <2>1, <2>2, <1>8
<1>11. ASSUME NEW n \in DOMAIN Inputs, Inputs[n].required
       PROVE  InTable(grid, Inputs[n].corpus)
  <2>1. InTable(found.cases, Inputs[n].corpus) \/ InTable(found.missing, Inputs[n].corpus)
    BY <1>1, <1>3, <1>11 DEF Finding
  <2>2. CASE InTable(found.missing, Inputs[n].corpus)
    <3>1. PICK m \in DOMAIN found.missing : found.missing[m].corpus = Inputs[n].corpus
      BY <2>2 DEF InTable
    <3>2. m \in 1..k /\ a[m].corpus = Inputs[n].corpus
      BY <3>1, <1>5
    <3>3. m \in DOMAIN grid /\ grid[m] = a[m]
      BY <3>2, <1>8
    <3> QED
      BY <3>2, <3>3 DEF InTable
  <2>3. CASE InTable(found.cases, Inputs[n].corpus)
    <3>1. PICK m \in DOMAIN found.cases : found.cases[m].corpus = Inputs[n].corpus
      BY <2>3 DEF InTable
    <3>2. m \in 1..l /\ grid[k + m] = b[m] /\ b[m].corpus = Inputs[n].corpus
      BY <3>1, <1>6, <1>8
    <3>3. k + m \in DOMAIN grid
      BY <3>2, <1>8
    <3> QED
      BY <3>2, <3>3 DEF InTable
  <2> QED
    BY <2>1, <2>2, <2>3
<1> QED
  BY <1>8, <1>10, <1>11

-----------------------------------------------------------------------------
(* A campaign: its cells, its rows and its intervals.                      *)

LEMMA DivMod ==
  ASSUME NEW W \in Nat \ {0}, NEW a \in Nat
  PROVE  /\ a \div W \in Nat /\ a % W \in 0..W-1
         /\ a = W * (a \div W) + (a % W)
<1>1. a % W \in 0..W-1
  OBVIOUS
<1>2. a = W * (a \div W) + (a % W)
  OBVIOUS
<1>3. a \div W \in Int
  OBVIOUS
<1>4. a \div W >= 0
  BY <1>1, <1>2, <1>3
<1> QED
  BY <1>1, <1>2, <1>3, <1>4

LEMMA QuotientBound ==
  ASSUME NEW W \in Nat \ {0}, NEW L \in Nat, NEW q \in Nat, NEW r \in 0..W-1,
         W * q + r < L * W
  PROVE  q < L
<1> SUFFICES ASSUME q >= L PROVE FALSE
  OBVIOUS
<1>1. PICK d \in Nat : q = L + d
  <2>1. q - L \in Nat /\ q = L + (q - L)
    OBVIOUS
  <2> QED BY <2>1
<1>2. W * q = L * W + W * d
  BY <1>1
<1>3. W * d >= 0
  OBVIOUS
<1>4. W * q \in Int /\ L * W \in Int /\ W * d \in Int
  BY <1>1
<1> QED
  BY <1>2, <1>3, <1>4

\* The entry and the codec of a cell, by their places.
EntryAt(n) == ((n - 1) \div Width) + 1
CodecAt(n) == ((n - 1) % Width) + 1

LEMMA CellsAre ==
  ASSUME NEW S, NEW grid \in Seq(S), NEW n \in 1..CellCount(grid)
  PROVE  /\ EntryAt(n) \in DOMAIN grid /\ EntryOf(grid, n) = grid[EntryAt(n)]
         /\ CodecAt(n) \in DOMAIN Codecs /\ CodecOf(n) = Codecs[CodecAt(n)]
         /\ Width \in Nat \ {0}
         /\ EntryAt(n) \in Nat /\ n = Width * (EntryAt(n) - 1) + CodecAt(n)
<1> DEFINE W == Width
           L == Len(grid)
           a == n - 1
<1>1. W \in Nat /\ L \in Nat /\ DOMAIN Codecs = 1..W /\ DOMAIN grid = 1..L
  BY DocumentAssumption DEF Width
<1>2. n \in 1..(L * W)
  BY DEF CellCount
<1> HIDE DEF W, L
<1>3. W \in Nat \ {0}
  <2> SUFFICES ASSUME W = 0 PROVE FALSE
    BY <1>1
  <2>1. L * W = 0
    BY <1>1
  <2> QED
    BY <2>1, <1>2
<1>4. L * W \in Nat
  BY <1>1
<1>5. a \in Nat /\ a < L * W /\ n = a + 1
  BY <1>2, <1>4
<1>6. /\ a \div W \in Nat /\ a % W \in 0..W-1 /\ a = W * (a \div W) + (a % W)
  BY <1>3, <1>5, DivMod
<1>7. a \div W < L
  <2> DEFINE q == a \div W
             r == a % W
  <2>1. q \in Nat /\ r \in 0..W-1 /\ W * q + r < L * W
    BY <1>5, <1>6
  <2> HIDE DEF q, r
  <2>2. q < L
    BY <2>1, <1>1, <1>3, QuotientBound
  <2> QED
    BY <2>2 DEF q
<1>8. EntryAt(n) = (a \div W) + 1 /\ CodecAt(n) = (a % W) + 1
  BY DEF EntryAt, CodecAt, W
<1> HIDE DEF a
<1>9. /\ EntryAt(n) \in DOMAIN grid /\ CodecAt(n) \in DOMAIN Codecs
      /\ EntryAt(n) \in Nat
  <2> DEFINE q == a \div W
             r == a % W
  <2>1. q \in Nat /\ r \in 0..W-1 /\ q < L
    BY <1>6, <1>7
  <2>2. EntryAt(n) = q + 1 /\ CodecAt(n) = r + 1
    BY <1>8
  <2> HIDE DEF q, r
  <2>3. q + 1 \in 1..L /\ r + 1 \in 1..W /\ q + 1 \in Nat
    BY <2>1, <1>1, <1>3
  <2> QED
    BY <2>2, <2>3, <1>1
<1>10. EntryAt(n) - 1 = a \div W /\ n = W * (a \div W) + ((a % W) + 1)
  <2> DEFINE q == a \div W
             r == a % W
             p == W * q
  <2>1. p \in Int
    BY <1>3, <1>6
  <2>2. q \in Nat /\ r \in 0..W-1 /\ a = p + r /\ EntryAt(n) = q + 1 /\ n = a + 1
    BY <1>5, <1>6, <1>8
  <2> HIDE DEF q, r, p
  <2>3. EntryAt(n) - 1 = q /\ n = p + (r + 1)
    BY <2>1, <2>2, <1>1, <1>3
  <2> QED
    BY <2>3 DEF p, q, r
<1>11. EntryOf(grid, n) = grid[EntryAt(n)] /\ CodecOf(n) = Codecs[CodecAt(n)]
  BY DEF EntryOf, CodecOf, EntryAt, CodecAt
<1> QED
  BY <1>3, <1>8, <1>9, <1>10, <1>11 DEF W

\* Two cells of a grid differ in their keys.
LEMMA KeysAreDistinct ==
  ASSUME NEW S, NEW grid \in Seq(S), UniqueKeys(grid),
         NEW m \in 1..CellCount(grid), NEW n \in 1..CellCount(grid),
         KeyOf(grid, m) = KeyOf(grid, n)
  PROVE  m = n
<1>1. /\ InputKey(EntryOf(grid, m)) = InputKey(EntryOf(grid, n))
      /\ CodecOf(m).name = CodecOf(n).name
  BY DEF KeyOf
<1>2. ASSUME NEW i \in 1..CellCount(grid)
      PROVE  /\ EntryAt(i) \in DOMAIN grid /\ EntryOf(grid, i) = grid[EntryAt(i)]
             /\ CodecAt(i) \in DOMAIN Codecs /\ CodecOf(i) = Codecs[CodecAt(i)]
             /\ i = Width * (EntryAt(i) - 1) + CodecAt(i)
  BY CellsAre
<1>3. EntryAt(m) = EntryAt(n)
  BY <1>1, <1>2 DEF UniqueKeys
<1>4. CodecAt(m) = CodecAt(n)
  BY <1>1, <1>2, DocumentAssumption
<1> QED
  BY <1>2, <1>3, <1>4

\* The campaign began with a grid and an identity that some world of its start
\* had.
Begun ==
  \E w \in Worlds : /\ begun = [grid |-> ExpectedGrid(w), identity |-> RunIdentity(w)]
                    /\ UniqueKeys(ExpectedGrid(w))

LEMMA BegunIs ==
  ASSUME Begun
  PROVE  /\ \E w : begun.grid \in Seq(Entries(w))
         /\ UniqueKeys(begun.grid) /\ \A n \in DOMAIN begun.grid : Evident(begun.grid[n])
         /\ \A m, n \in DOMAIN begun.grid :
              begun.grid[m].file = begun.grid[n].file
                /\ ~begun.grid[m].missing /\ ~begun.grid[n].missing => m = n
         /\ \A n \in DOMAIN Inputs :
              Inputs[n].required => InTable(begun.grid, Inputs[n].corpus)
<1>1. PICK w \in Worlds : /\ begun = [grid |-> ExpectedGrid(w), identity |-> RunIdentity(w)]
                          /\ UniqueKeys(ExpectedGrid(w))
  BY DEF Begun
<1> DEFINE grid == begun.grid
<1>2. grid = ExpectedGrid(w) /\ UniqueKeys(grid)
  BY <1>1
<1> HIDE DEF grid
<1>3. grid \in Seq(Entries(w))
  BY <1>2, GridIs
<1>4. \A m, n \in DOMAIN grid :
              grid[m].file = grid[n].file /\ ~grid[m].missing /\ ~grid[n].missing => m = n
  BY <1>2, GridIs
<1>5. \A n \in DOMAIN Inputs : Inputs[n].required => InTable(grid, Inputs[n].corpus)
  BY <1>2, GridIs
<1>6. \A n \in DOMAIN grid : Evident(grid[n])
  BY <1>3, EntriesAreEvident
<1> QED
  BY <1>2, <1>3, <1>4, <1>5, <1>6 DEF grid

\* The rows so far are the first cells of the grid, and a success measured the
\* bytes the grid lists.
RowsAreCells ==
  /\ rows \in Seq(ToSet(rows)) /\ Len(rows) <= CellCount(begun.grid)
  /\ \A n \in DOMAIN rows :
       /\ rows[n] = CellRow(EntryOf(begun.grid, n), CodecOf(n), rows[n].status,
                            rows[n].measured)
       /\ rows[n].status = "ok" => rows[n].measured = EntryOf(begun.grid, n).actual

\* Every interval but the last was interrupted, and none is completed yet.
IntervalsRun ==
  /\ intervals \in Seq([resumed : BOOLEAN, interrupted : BOOLEAN, completed : BOOLEAN])
  /\ Len(intervals) >= 1
  /\ \A n \in DOMAIN intervals :
       /\ intervals[n].resumed = (n > 1) /\ intervals[n].completed = FALSE
       /\ intervals[n].interrupted = (n < Len(intervals))

-----------------------------------------------------------------------------
(* The runner's document.                                                  *)

GapsOf(after, g) == Gaps(policy, begun.identity, after, g = begun.grid, rows)
Closed == [intervals EXCEPT ![Len(intervals)].completed = TRUE]

LEMMA DocumentIs ==
  ASSUME NEW after, NEW g, NEW d, d = ResultDocument(after, g)
  PROVE  /\ d.rows = rows /\ d.count = Len(rows) /\ d.failures = Cardinality(Failed(rows))
         /\ d.csv = rows /\ d.grid = begun.grid /\ d.gridDigest = begun.grid
         /\ d.gridBefore = begun.grid /\ d.gridAfter = g
         /\ d.expected = CellCount(begun.grid) /\ d.before = begun.identity /\ d.after = after
         /\ d.gridStable = (g = begun.grid)
         /\ d.sourceStable = (after.source = begun.identity.source)
         /\ d.configStable = (after.config = begun.identity.config)
         /\ d.hostStable = (after.host = begun.identity.host)
         /\ d.toolsStable = (after.tools = begun.identity.tools)
         /\ d.build = BuildMatches(begun.identity, after)
         /\ d.rights = ("rights" \notin GapsOf(after, g))
         /\ d.integrity = ("integrity" \notin GapsOf(after, g))
         /\ d.policy = policy /\ d.timing = TimingCompliant(policy)
         /\ d.gaps = GapsOf(after, g) /\ d.complete = (GapsOf(after, g) = {})
         /\ d.intervals = Closed /\ d.resumes = Len(intervals) - 1
         /\ d = [x \in DOMAIN d |-> d[x]]
         /\ DOMAIN d = {"rows", "count", "failures", "csv", "grid", "gridDigest", "gridBefore",
                        "gridAfter", "gridStable", "expected", "before", "after",
                        "sourceStable", "configStable", "hostStable", "toolsStable", "build",
                        "rights", "integrity", "policy", "timing", "gaps", "complete",
                        "intervals", "resumes"}
<1>1. /\ d.rows = rows /\ d.count = Len(rows) /\ d.failures = Cardinality(Failed(rows))
      /\ d.csv = rows /\ d.grid = begun.grid /\ d.gridDigest = begun.grid
      /\ d.gridBefore = begun.grid /\ d.gridAfter = g
      /\ d.expected = CellCount(begun.grid) /\ d.before = begun.identity /\ d.after = after
  BY DEF ResultDocument
<1>2. d.gridStable = (g = begun.grid)
  BY DEF ResultDocument
<1>3. d.sourceStable = (after.source = begun.identity.source)
  BY DEF ResultDocument
<1>4. d.configStable = (after.config = begun.identity.config)
  BY DEF ResultDocument
<1>5. d.hostStable = (after.host = begun.identity.host)
  BY DEF ResultDocument
<1>6. d.toolsStable = (after.tools = begun.identity.tools)
  BY DEF ResultDocument
<1>7. d.build = BuildMatches(begun.identity, after)
  BY DEF ResultDocument
<1>8. d.rights = ("rights" \notin GapsOf(after, g))
  BY DEF ResultDocument, GapsOf
<1>9. d.integrity = ("integrity" \notin GapsOf(after, g))
  BY DEF ResultDocument, GapsOf
<1>10. d.policy = policy /\ d.timing = TimingCompliant(policy)
  BY DEF ResultDocument
<1>11. d.gaps = GapsOf(after, g)
  BY DEF ResultDocument, GapsOf
<1>12. d.complete = (GapsOf(after, g) = {})
  BY DEF ResultDocument, GapsOf
<1>13. d.intervals = Closed /\ d.resumes = Len(intervals) - 1
  BY DEF ResultDocument, Closed
<1>14. d = [x \in DOMAIN d |-> d[x]]
  <2> DEFINE gaps == GapsOf(after, g)
             rowCount == Len(rows)
             failures == Cardinality(Failed(rows))
             gridStable == g = begun.grid
             cells == CellCount(begun.grid)
             sourceStable == after.source = begun.identity.source
             configStable == after.config = begun.identity.config
             hostStable == after.host = begun.identity.host
             toolsStable == after.tools = begun.identity.tools
             build == BuildMatches(begun.identity, after)
             rights == "rights" \notin gaps
             integrity == "integrity" \notin gaps
             timing == TimingCompliant(policy)
             complete == gaps = {}
             resumes == Len(intervals) - 1
  <2>1. d = [rows |-> rows, count |-> rowCount, failures |-> failures, csv |-> rows,
             grid |-> begun.grid, gridDigest |-> begun.grid, gridBefore |-> begun.grid,
             gridAfter |-> g, gridStable |-> gridStable, expected |-> cells,
             before |-> begun.identity, after |-> after, sourceStable |-> sourceStable,
             configStable |-> configStable, hostStable |-> hostStable,
             toolsStable |-> toolsStable, build |-> build, rights |-> rights,
             integrity |-> integrity, policy |-> policy, timing |-> timing, gaps |-> gaps,
             complete |-> complete, intervals |-> Closed, resumes |-> resumes]
    BY Zenon DEF ResultDocument, GapsOf, Closed
  <2> HIDE DEF gaps, rowCount, failures, gridStable, cells, sourceStable, configStable,
               hostStable, toolsStable, build, rights, integrity, timing, complete, resumes
  <2> QED
    BY <2>1
<1>15. DOMAIN d = {"rows", "count", "failures", "csv", "grid", "gridDigest", "gridBefore",
                   "gridAfter", "gridStable", "expected", "before", "after",
                   "sourceStable", "configStable", "hostStable", "toolsStable", "build",
                   "rights", "integrity", "policy", "timing", "gaps", "complete",
                   "intervals", "resumes"}
  BY DEF ResultDocument
<1> QED
  BY <1>1, <1>2, <1>3, <1>4, <1>5, <1>6, <1>7, <1>8, <1>9, <1>10, <1>11, <1>12, <1>13, <1>14,
     <1>15

LEMMA ClosedIs ==
  ASSUME IntervalsRun
  PROVE  /\ Len(Closed) = Len(intervals) /\ Len(intervals) \in Nat \ {0}
         /\ DOMAIN Closed = 1..Len(intervals)
         /\ \A n \in 1..Len(intervals) :
              /\ Closed[n].resumed = (n > 1)
              /\ Closed[n].completed = (n = Len(intervals))
              /\ Closed[n].interrupted = (n < Len(intervals))
<1> DEFINE K == Len(intervals)
           R == [resumed : BOOLEAN, interrupted : BOOLEAN, completed : BOOLEAN]
<1>1. /\ intervals \in Seq(R) /\ K \in Nat \ {0} /\ DOMAIN intervals = 1..K
  BY DEF IntervalsRun
<1>3. \A n \in 1..K : intervals[n] \in R
  <2> HIDE DEF R, K
  <2> QED
    BY <1>1 DEF K
<1>2. /\ Len(Closed) = K /\ DOMAIN Closed = 1..K
      /\ Closed[K] = [intervals[K] EXCEPT !.completed = TRUE]
      /\ \A n \in 1..K : n # K => Closed[n] = intervals[n]
  <2> DEFINE last == [intervals[K] EXCEPT !.completed = TRUE]
  <2>1. Closed = [intervals EXCEPT ![K] = last]
    BY DEF Closed
  <2>3. K \in 1..K
    BY <1>1
  <2>2. last \in R
    <3> DEFINE x == intervals[K]
    <3>1. x \in R /\ last = [x EXCEPT !.completed = TRUE]
      BY <1>3, <2>3
    <3> HIDE DEF x, last
    <3> QED
      BY <3>1
  <2> HIDE DEF last, R
  <2>4. Closed \in Seq(R) /\ Len(Closed) = Len(intervals)
    BY <1>1, <2>1, <2>2, <2>3
  <2>5. Closed[K] = last /\ \A n \in 1..K : n # K => Closed[n] = intervals[n]
    BY <1>1, <2>1, <2>3
  <2> QED
    BY <1>1, <2>4, <2>5 DEF last
<1>4. \A n \in 1..K : /\ intervals[n].resumed = (n > 1) /\ intervals[n].completed = FALSE
                      /\ intervals[n].interrupted = (n < K)
  BY <1>1 DEF IntervalsRun
<1>5. ASSUME NEW n \in 1..K
      PROVE  /\ Closed[n].resumed = (n > 1) /\ Closed[n].completed = (n = K)
             /\ Closed[n].interrupted = (n < K)
  <2>1. CASE n = K
    <3>1. /\ Closed[n].resumed = intervals[n].resumed /\ Closed[n].completed = TRUE
          /\ Closed[n].interrupted = intervals[n].interrupted
      BY <1>2, <1>3, <2>1
    <3> QED
      BY <3>1, <1>4, <2>1
  <2>2. CASE n # K
    BY <1>2, <1>4, <2>2
  <2> QED
    BY <2>1, <2>2
<1> QED
  BY <1>1, <1>2, <1>5

\* The verifier accepts what the runner publishes.
LEMMA OwnDocumentPasses ==
  ASSUME Begun, RowsAreCells, IntervalsRun, Len(rows) = CellCount(begun.grid),
         NEW after, NEW g, NEW d, d = ResultDocument(after, g)
  PROVE  AcceptsDocument(d) /\ CsvHolds(d)
<1> DEFINE grid == begun.grid
           C == CellCount(grid)
<1>1. PICK w : grid \in Seq(Entries(w))
  BY BegunIs
<1>2. UniqueKeys(grid) /\ \A n \in DOMAIN grid : Evident(grid[n])
  BY BegunIs
<1>3. /\ d.rows = rows /\ d.count = Len(rows) /\ d.failures = Cardinality(Failed(rows))
      /\ d.csv = rows /\ d.grid = grid /\ d.gridDigest = grid
      /\ d.gridBefore = grid /\ d.gridAfter = g /\ d.expected = C
      /\ d.intervals = Closed /\ d.resumes = Len(intervals) - 1
  BY DocumentIs
<1>4. GridHolds(d)
  <2>1. d.gridStable = (d.gridBefore = d.gridAfter)
    <3>1. d.gridStable = (g = grid)
      BY DocumentIs
    <3> QED
      BY <3>1, <1>3
  <2>2. \A n \in DOMAIN grid :
          grid[n].verified =
            IF grid[n].missing THEN None
            ELSE IF grid[n].expected # None /\ grid[n].actual = grid[n].expected THEN "yes"
            ELSE "no"
    BY <1>2 DEF Evident
  <2> HIDE DEF grid
  <2> QED
    BY <1>2, <1>3, <2>1, <2>2 DEF GridHolds
<1>5. /\ DOMAIN rows = 1..C /\ Len(rows) = C
      /\ \A n \in 1..C : /\ rows[n] = CellRow(EntryOf(grid, n), CodecOf(n), rows[n].status,
                                              rows[n].measured)
  BY DEF RowsAreCells
<1>6. \A n \in 1..C : /\ rows[n].key = KeyOf(grid, n)
                      /\ rows[n].manifest = EntryOf(grid, n).manifest
                      /\ rows[n].input = EntryOf(grid, n).actual
                      /\ rows[n].verified = EntryOf(grid, n).verified
  <2> SUFFICES ASSUME NEW n \in 1..C
               PROVE  /\ rows[n].key = KeyOf(grid, n)
                      /\ rows[n].manifest = EntryOf(grid, n).manifest
                      /\ rows[n].input = EntryOf(grid, n).actual
                      /\ rows[n].verified = EntryOf(grid, n).verified
    OBVIOUS
  <2> DEFINE s == rows[n].status
             x == rows[n].measured
             e == EntryOf(grid, n)
             c == CodecOf(n)
  <2>1. rows[n] = CellRow(e, c, s, x)
    BY <1>5
  <2> HIDE DEF s, x, e, c
  <2>2. /\ rows[n].key = <<InputKey(e), c.name>> /\ rows[n].manifest = e.manifest
        /\ rows[n].input = e.actual /\ rows[n].verified = e.verified
    BY <2>1 DEF CellRow
  <2> QED
    BY <2>2 DEF e, c, KeyOf
<1> HIDE DEF grid, C
<1>7. \A m, n \in 1..C : KeyOf(grid, m) = KeyOf(grid, n) => m = n
  BY <1>1, <1>2, KeysAreDistinct DEF C
<1>8. RowsHold(d)
  <2>1. \A m, n \in DOMAIN rows : rows[m].key = rows[n].key => m = n
    BY <1>5, <1>6, <1>7
  <2>2. {rows[n].key : n \in DOMAIN rows} = {KeyOf(grid, n) : n \in 1..C}
    BY <1>5, <1>6
  <2> QED
    <3>1. Len(d.rows) = d.expected /\ d.count = Len(d.rows) /\ d.failures = Cardinality(Failed(d.rows))
      BY <1>3, <1>5
    <3>2. \A m, n \in DOMAIN d.rows : d.rows[m].key = d.rows[n].key => m = n
      BY <1>3, <2>1
    <3>3. {d.rows[n].key : n \in DOMAIN d.rows} = {rows[n].key : n \in DOMAIN rows}
      BY <1>3
    <3>4. {KeyOf(d.grid, n) : n \in 1..d.expected} = {KeyOf(grid, n) : n \in 1..C}
      BY <1>3
    <3> QED
      BY <3>1, <3>2, <3>3, <3>4, <2>2 DEF RowsHold
<1>9. EvidenceHolds(d)
  <2> SUFFICES ASSUME NEW n \in DOMAIN rows, NEW m \in DOMAIN grid,
                      rows[n].key[1] = InputKey(grid[m])
               PROVE  /\ rows[n].manifest = grid[m].manifest
                      /\ rows[n].input = grid[m].actual
                      /\ rows[n].verified = grid[m].verified
    BY <1>3 DEF EvidenceHolds
  <2>1. n \in 1..CellCount(grid)
    BY <1>5 DEF C
  <2>2. EntryAt(n) \in DOMAIN grid /\ EntryOf(grid, n) = grid[EntryAt(n)]
    BY <1>1, <2>1, CellsAre
  <2>3. rows[n].key[1] = InputKey(EntryOf(grid, n))
    BY <1>5, <1>6 DEF KeyOf
  <2>4. EntryAt(n) = m
    BY <1>2, <2>2, <2>3 DEF UniqueKeys
  <2> QED
    BY <1>5, <1>6, <2>2, <2>4
<1>10. ResumeHolds(d)
  <2> DEFINE K == Len(intervals)
  <2>1. /\ Len(Closed) = K /\ K \in Nat \ {0}
        /\ \A n \in 1..K : /\ Closed[n].resumed = (n > 1) /\ Closed[n].completed = (n = K)
                           /\ Closed[n].interrupted = (n < K)
    BY ClosedIs
  <2> HIDE DEF K
  <2>2. d.intervals = Closed /\ d.resumes = K - 1
    BY <1>3 DEF K
  <2>3. ASSUME NEW n \in 1..K
        PROVE  /\ Closed[n].resumed = (n > 1) /\ ~(Closed[n].interrupted /\ Closed[n].completed)
               /\ Closed[n].interrupted \/ Closed[n].completed \/ n = K
    <3>1. Closed[n].resumed = (n > 1)
      BY <2>1
    <3>2. Closed[n].completed <=> n = K
      BY <2>1
    <3>3. Closed[n].interrupted <=> n < K
      BY <2>1
    <3>4. n < K \/ n = K
      BY <2>1
    <3>5. ~(n < K /\ n = K)
      BY <2>1
    <3> QED
      BY <3>1, <3>2, <3>3, <3>4, <3>5
  <2>4. Closed[K].completed /\ ~Closed[K].interrupted
    <3>1. K \in 1..K /\ ~(K < K)
      BY <2>1
    <3>2. Closed[K].completed <=> K = K
      BY <2>1, <3>1
    <3>3. Closed[K].interrupted <=> K < K
      BY <2>1, <3>1
    <3> QED
      BY <3>1, <3>2, <3>3
  <2> QED
    BY <2>1, <2>2, <2>3, <2>4 DEF ResumeHolds
<1>11. FlagsHold(d)
  <2>1. d.before = begun.identity /\ d.after = after /\ d.policy = policy
        /\ d.gaps = GapsOf(after, g)
    BY DocumentIs
  <2>2. d.sourceStable = (after.source = begun.identity.source)
    BY DocumentIs
  <2>config. d.configStable = (after.config = begun.identity.config)
    BY DocumentIs
  <2>4. d.hostStable = (after.host = begun.identity.host)
    BY DocumentIs
  <2>5. d.timing = TimingCompliant(policy) /\ d.complete = (GapsOf(after, g) = {})
    BY DocumentIs
  <2> QED
    BY <2>1, <2>2, <2>config, <2>4, <2>5 DEF FlagsHold
<1>12. CsvHolds(d)
  BY <1>3 DEF CsvHolds
<1> QED
  BY <1>4, <1>8, <1>9, <1>10, <1>11, <1>12 DEF AcceptsDocument

-----------------------------------------------------------------------------
(* A document that was made better.                                        *)

LEMMA SameField ==
  ASSUME NEW r, r = [x \in DOMAIN r |-> r[x]], NEW f \in DOMAIN r, NEW v, v = r[f]
  PROVE  [r EXCEPT ![f] = v] = r
  OBVIOUS

\* The rows of a finished campaign.
Finished ==
  Begun /\ RowsAreCells /\ IntervalsRun /\ Len(rows) = CellCount(begun.grid)

LEMMA CellIs ==
  ASSUME Finished, NEW n \in DOMAIN rows
  PROVE  /\ rows[n] = [x \in DOMAIN rows[n] |-> rows[n][x]]
         /\ DOMAIN rows[n] = {"key", "family", "status", "rights", "manifest", "input",
                              "verified", "measured"}
         /\ EntryAt(n) \in DOMAIN begun.grid
         /\ rows[n].key = KeyOf(begun.grid, n)
         /\ rows[n].key[1] = InputKey(begun.grid[EntryAt(n)])
         /\ rows[n].input = begun.grid[EntryAt(n)].actual
         /\ rows[n].verified = begun.grid[EntryAt(n)].verified
         /\ rows[n].status = "ok" => rows[n].measured = begun.grid[EntryAt(n)].actual
<1>1. PICK w : begun.grid \in Seq(Entries(w))
  BY BegunIs DEF Finished
<1>2. n \in 1..CellCount(begun.grid)
  BY DEF Finished, RowsAreCells
<1>3. EntryAt(n) \in DOMAIN begun.grid /\ EntryOf(begun.grid, n) = begun.grid[EntryAt(n)]
  BY <1>1, <1>2, CellsAre
<1> DEFINE s == rows[n].status
           x == rows[n].measured
           e == EntryOf(begun.grid, n)
           c == CodecOf(n)
<1>4. rows[n] = CellRow(e, c, s, x) /\ (s = "ok" => x = e.actual)
  BY DEF Finished, RowsAreCells
<1>5. KeyOf(begun.grid, n) = <<InputKey(e), c.name>>
  BY DEF KeyOf
<1>6. e = begun.grid[EntryAt(n)]
  BY <1>3
<1>10. s = rows[n].status /\ x = rows[n].measured
  OBVIOUS
<1> HIDE DEF s, x, e, c
<1>7. /\ rows[n].key = <<InputKey(e), c.name>> /\ rows[n].input = e.actual
      /\ rows[n].verified = e.verified
  BY <1>4 DEF CellRow
<1>8. rows[n] = [f \in DOMAIN rows[n] |-> rows[n][f]]
  <2> DEFINE k == InputKey(e)
  <2> HIDE DEF k
  <2> QED
    BY <1>4 DEF CellRow
<1>9. DOMAIN rows[n] = {"key", "family", "status", "rights", "manifest", "input",
                        "verified", "measured"}
  BY <1>4 DEF CellRow
<1> QED
  BY <1>3, <1>4, <1>5, <1>6, <1>7, <1>8, <1>9, <1>10

\* A row that is replaced by itself is no better table.
LEMMA SameTable ==
  ASSUME Finished, NEW n \in DOMAIN rows, NEW f \in DOMAIN rows[n], NEW v, v = rows[n][f]
  PROVE  [rows EXCEPT ![n][f] = v] = rows
<1> DEFINE r == rows[n]
<1>1. r = [x \in DOMAIN r |-> r[x]] /\ f \in DOMAIN r /\ v = r[f]
  BY CellIs
<1>2. [rows EXCEPT ![n][f] = v] = [rows EXCEPT ![n] = [r EXCEPT ![f] = v]]
  OBVIOUS
<1> HIDE DEF r
<1>3. [r EXCEPT ![f] = v] = r
  BY <1>1, SameField
<1>4. [rows EXCEPT ![n] = r] = rows
  <2>1. rows \in Seq(ToSet(rows))
    BY DEF Finished, RowsAreCells
  <2> QED
    BY <2>1 DEF r
<1> QED
  BY <1>2, <1>3, <1>4

\* A better table fails the check of the rows or of their evidence.
LEMMA BetterRowsFail ==
  ASSUME Finished, NEW after, NEW g, NEW old, old = ResultDocument(after, g),
         NEW table \in BetterRows(rows), NEW d, d = [old EXCEPT !.rows = table, !.csv = table],
         RowsHold(d), EvidenceHolds(d)
  PROVE  table = rows
<1>1. /\ DOMAIN old = {"rows", "count", "failures", "csv", "grid", "gridDigest", "gridBefore",
                        "gridAfter", "gridStable", "expected", "before", "after",
                        "sourceStable", "configStable", "hostStable", "toolsStable", "build",
                        "rights", "integrity", "policy", "timing", "gaps", "complete",
                        "intervals", "resumes"}
  BY DocumentIs
<1>2. /\ old.expected = CellCount(begun.grid) /\ old.grid = begun.grid
      /\ old.failures = Cardinality(Failed(rows))
  BY DocumentIs
<1>3. /\ d.rows = table /\ d.expected = CellCount(begun.grid) /\ d.grid = begun.grid
      /\ d.failures = Cardinality(Failed(rows))
  BY <1>1, <1>2
<1>4. rows \in Seq(ToSet(rows)) /\ Len(rows) = CellCount(begun.grid) /\ DOMAIN rows = 1..Len(rows)
  BY DEF Finished, RowsAreCells
<1>5. ASSUME NEW n \in DOMAIN rows, table = [rows EXCEPT ![n].status = "ok"]
      PROVE  table = rows
  <2>1. "status" \in DOMAIN rows[n] /\ DOMAIN table = DOMAIN rows
    BY <1>5, CellIs
  <2>2. CASE rows[n].status = "ok"
    BY <1>5, <2>1, <2>2, SameTable
  <2>3. CASE rows[n].status # "ok"
    <3>1. \A i \in DOMAIN rows : table[i].status = IF i = n THEN "ok" ELSE rows[i].status
      BY <1>5, <2>1
    <3>2. Failed(table) = Failed(rows) \ {n} /\ n \in Failed(rows)
      BY <2>1, <2>3, <3>1 DEF Failed
    <3>3. IsFiniteSet(Failed(rows))
      <4>1. Len(rows) \in Nat
        BY <1>4
      <4>2. IsFiniteSet(1..Len(rows))
        <5> DEFINE N == Len(rows)
        <5>1. N \in Int
          BY <4>1
        <5> HIDE DEF N
        <5>2. IsFiniteSet(1..N)
          BY SMTT(40), <5>1, FS_Interval
        <5> QED
          BY <5>2 DEF N
      <4>3. Failed(rows) \subseteq 1..Len(rows)
        BY <1>4 DEF Failed
      <4> QED
        BY <4>2, <4>3, FS_Subset
    <3>4. Cardinality(Failed(rows) \ {n}) = Cardinality(Failed(rows)) - 1
          /\ Cardinality(Failed(rows)) \in Nat
      <4>1. Cardinality(Failed(rows) \ {n}) = Cardinality(Failed(rows)) - 1
        BY <3>2, <3>3, FS_RemoveElement
      <4>2. Cardinality(Failed(rows)) \in Nat
        BY <3>3, FS_CardinalityType
      <4> QED
        BY <4>1, <4>2
    <3>5. Cardinality(Failed(table)) = Cardinality(Failed(rows))
      BY <1>3 DEF RowsHold
    <3> QED
      BY <3>2, <3>4, <3>5
  <2> QED
    BY <2>2, <2>3
<1>7. ASSUME NEW n \in DOMAIN rows, table = [rows EXCEPT ![n].input = "listed"]
      PROVE  table = rows
  <2>1. /\ EntryAt(n) \in DOMAIN begun.grid
        /\ rows[n].key[1] = InputKey(begun.grid[EntryAt(n)]) /\ "input" \in DOMAIN rows[n]
        /\ "key" \in DOMAIN rows[n]
        /\ rows[n].input = begun.grid[EntryAt(n)].actual
    BY CellIs
  <2>2. /\ n \in DOMAIN table /\ table[n].key = rows[n].key /\ table[n].input = "listed"
    BY <1>7, <2>1
  <2>3. table[n].input = begun.grid[EntryAt(n)].actual
    BY <1>3, <2>1, <2>2 DEF EvidenceHolds
  <2>4. rows[n].input = "listed"
    BY <2>1, <2>2, <2>3
  <2> QED
    BY <1>7, <2>1, <2>4, SameTable
<1>8. ASSUME NEW n \in DOMAIN rows, table = [rows EXCEPT ![n].verified = "yes"]
      PROVE  table = rows
  <2>1. /\ EntryAt(n) \in DOMAIN begun.grid
        /\ rows[n].key[1] = InputKey(begun.grid[EntryAt(n)]) /\ "verified" \in DOMAIN rows[n]
        /\ "key" \in DOMAIN rows[n]
        /\ rows[n].verified = begun.grid[EntryAt(n)].verified
    BY CellIs
  <2>2. /\ n \in DOMAIN table /\ table[n].key = rows[n].key /\ table[n].verified = "yes"
    BY <1>8, <2>1
  <2>3. table[n].verified = begun.grid[EntryAt(n)].verified
    BY <1>3, <2>1, <2>2 DEF EvidenceHolds
  <2>4. rows[n].verified = "yes"
    BY <2>1, <2>2, <2>3
  <2> QED
    BY <1>8, <2>1, <2>4, SameTable
<1>9. ASSUME NEW n \in DOMAIN rows, table = RemoveAt(rows, n)
      PROVE  table = rows
  <2>1. Len(table) = Len(rows) - 1
    BY SMTT(40), <1>4, <1>9 DEF RemoveAt
  <2>2. Len(table) = Len(rows)
    BY <1>3, <1>4 DEF RowsHold
  <2> QED
    BY <1>4, <2>1, <2>2
<1>10. ASSUME NEW n \in DOMAIN rows, NEW m \in DOMAIN rows, table = [rows EXCEPT ![n] = rows[m]]
       PROVE  table = rows
  <2>1. m = n
    <3>1. table[m].key = table[n].key /\ m \in DOMAIN table /\ n \in DOMAIN table
      BY <1>10
    <3> QED
      BY <3>1, <1>3 DEF RowsHold
  <2> QED
    BY <2>1, <1>4, <1>10
<1>11. Failed(rows) \subseteq DOMAIN rows
  BY DEF Failed
<1>12. \/ table \in {[rows EXCEPT ![n].status = "ok"] : n \in DOMAIN rows}
       \/ table \in {[rows EXCEPT ![n].input = "listed"] : n \in DOMAIN rows}
       \/ table \in {[rows EXCEPT ![n].verified = "yes"] : n \in DOMAIN rows}
       \/ table \in {RemoveAt(rows, n) : n \in Failed(rows)}
       \/ table \in {[rows EXCEPT ![n] = rows[m]] : n \in Failed(rows), m \in DOMAIN rows}
  BY DEF BetterRows
<1> QED
  BY <1>5, <1>7, <1>8, <1>9, <1>10, <1>11, <1>12

\* No statement of the runner's document can be improved unnoticed.
LEMMA BetterDocumentFails ==
  ASSUME Finished, NEW after, NEW g, NEW old, old = ResultDocument(after, g),
         NEW d \in Better(old), AcceptsDocument(d), CsvHolds(d)
  PROVE  d = old
<1> DEFINE Fields == {"rows", "count", "failures", "csv", "grid", "gridDigest", "gridBefore",
                      "gridAfter", "gridStable", "expected", "before", "after",
                      "sourceStable", "configStable", "hostStable", "toolsStable", "build",
                      "rights", "integrity", "policy", "timing", "gaps", "complete",
                      "intervals", "resumes"}
<1>1. old = [x \in DOMAIN old |-> old[x]] /\ DOMAIN old = Fields
  BY DocumentIs
<1>2. /\ old.rows = rows /\ old.csv = rows /\ old.grid = begun.grid
      /\ old.gridDigest = begun.grid /\ old.failures = Cardinality(Failed(rows))
      /\ old.gridBefore = begun.grid /\ old.gridAfter = g
      /\ old.before = begun.identity /\ old.after = after
      /\ old.policy = policy /\ old.gaps = GapsOf(after, g)
      /\ old.intervals = Closed /\ old.resumes = Len(intervals) - 1
  BY DocumentIs
<1>3. old.gridStable = (g = begun.grid)
  BY DocumentIs
<1>4. old.sourceStable = (after.source = begun.identity.source)
  BY DocumentIs
<1>5. old.configStable = (after.config = begun.identity.config)
  BY DocumentIs
<1>6. old.hostStable = (after.host = begun.identity.host)
  BY DocumentIs
<1>7. old.timing = TimingCompliant(policy)
  BY DocumentIs
<1>8. old.complete = (GapsOf(after, g) = {})
  BY DocumentIs
<1>9. /\ GridHolds(d) /\ RowsHold(d) /\ EvidenceHolds(d) /\ ResumeHolds(d) /\ FlagsHold(d)
      /\ d.csv = d.rows
  BY DEF AcceptsDocument, CsvHolds
<1>10. ASSUME NEW f \in Fields, NEW v, d = [old EXCEPT ![f] = v]
       PROVE  /\ d[f] = v /\ \A x \in Fields : x # f => d[x] = old[x]
              /\ v = old[f] => d = old
  <2>1. d[f] = v /\ \A x \in Fields : x # f => d[x] = old[x]
    BY <1>1, <1>10
  <2>2. ASSUME v = old[f] PROVE d = old
    <3> HIDE DEF Fields
    <3> QED
      BY <1>1, <1>10, <2>2, SameField
  <2> QED
    BY <2>1, <2>2
<1>11. ASSUME d \in {[old EXCEPT !.rows = table, !.csv = table] : table \in BetterRows(old.rows)}
       PROVE  d = old
  <2>1. PICK table \in BetterRows(rows) : d = [old EXCEPT !.rows = table, !.csv = table]
    BY <1>2, <1>11
  <2>2. table = rows
    BY <1>9, <2>1, BetterRowsFail
  <2>3. "rows" \in DOMAIN old /\ "csv" \in DOMAIN old
    BY <1>1
  <2>4. [old EXCEPT !.rows = table] = old
    BY <1>1, <1>2, <2>2, <2>3, SameField
  <2>5. [old EXCEPT !.csv = table] = old
    BY <1>1, <1>2, <2>2, <2>3, SameField
  <2>6. d = [[old EXCEPT !.rows = table] EXCEPT !.csv = table]
    BY <2>1
  <2> QED
    BY <2>4, <2>5, <2>6
<1>12. ASSUME NEW n, d = [old EXCEPT !.csv[n].status = "ok"] PROVE d = old
  <2> DEFINE v == [old.csv EXCEPT ![n].status = "ok"]
  <2>1. d = [old EXCEPT !["csv"] = v] /\ "csv" \in Fields /\ "rows" \in Fields
    BY <1>12
  <2> HIDE DEF v, Fields
  <2>2. d.csv = v /\ d.rows = old.rows
    BY <2>1, <1>10
  <2>3. v = old["csv"]
    BY <2>2, <1>2, <1>9
  <2> QED
    BY <2>1, <2>3, <1>10
<1>13. ASSUME NEW v, d = [old EXCEPT !["grid"] = v] PROVE d = old
  <2>1. "grid" \in Fields /\ "gridDigest" \in Fields
    OBVIOUS
  <2> HIDE DEF Fields
  <2>2. d.grid = v /\ d.gridDigest = old.gridDigest
    BY <1>10, <1>13, <2>1
  <2>3. v = old["grid"]
    BY <2>2, <1>2, <1>9 DEF GridHolds
  <2> QED
    BY <1>10, <1>13, <2>1, <2>3
<1>14. ASSUME d = [old EXCEPT !["gridStable"] = TRUE] PROVE d = old
  <2>1. "gridStable" \in Fields /\ "gridBefore" \in Fields /\ "gridAfter" \in Fields
    OBVIOUS
  <2> HIDE DEF Fields
  <2>2. d.gridStable = TRUE /\ d.gridBefore = old.gridBefore /\ d.gridAfter = old.gridAfter
    BY <1>10, <1>14, <2>1
  <2>3. g = begun.grid
    BY <2>2, <1>2, <1>9 DEF GridHolds
  <2>4. old["gridStable"] = TRUE
    BY <2>3, <1>3
  <2> QED
    BY <1>10, <1>14, <2>1, <2>4
<1>15. ASSUME d = [old EXCEPT !["sourceStable"] = TRUE] PROVE d = old
  <2>1. "sourceStable" \in Fields /\ "before" \in Fields /\ "after" \in Fields
    OBVIOUS
  <2> HIDE DEF Fields
  <2>2. d.sourceStable = TRUE /\ d.before = old.before /\ d.after = old.after
    BY <1>10, <1>15, <2>1
  <2>3. after.source = begun.identity.source
    BY ZenonT(60), <2>2, <1>2, <1>9 DEF FlagsHold
  <2>4. old["sourceStable"] = TRUE
    BY <2>3, <1>4
  <2> QED
    BY <1>10, <1>15, <2>1, <2>4
<1>16. ASSUME d = [old EXCEPT !["configStable"] = TRUE] PROVE d = old
  <2>1. "configStable" \in Fields /\ "before" \in Fields /\ "after" \in Fields
    OBVIOUS
  <2> HIDE DEF Fields
  <2>2. d.configStable = TRUE /\ d.before = old.before /\ d.after = old.after
    BY <1>10, <1>16, <2>1
  <2>3. after.config = begun.identity.config
    BY <2>2, <1>2, <1>9 DEF FlagsHold
  <2>4. old["configStable"] = TRUE
    BY <2>3, <1>5
  <2> QED
    BY <1>10, <1>16, <2>1, <2>4
<1>17. ASSUME d = [old EXCEPT !["hostStable"] = TRUE] PROVE d = old
  <2>1. "hostStable" \in Fields /\ "before" \in Fields /\ "after" \in Fields
    OBVIOUS
  <2> HIDE DEF Fields
  <2>2. d.hostStable = TRUE /\ d.before = old.before /\ d.after = old.after
    BY <1>10, <1>17, <2>1
  <2>3. after.host = begun.identity.host
    BY <2>2, <1>2, <1>9 DEF FlagsHold
  <2>4. old["hostStable"] = TRUE
    BY <2>3, <1>6
  <2> QED
    BY <1>10, <1>17, <2>1, <2>4
<1>18. ASSUME d = [old EXCEPT !["timing"] = TRUE] PROVE d = old
  <2>1. "timing" \in Fields /\ "policy" \in Fields
    OBVIOUS
  <2> HIDE DEF Fields
  <2>2. d.timing = TRUE /\ d.policy = old.policy
    BY <1>10, <1>18, <2>1
  <2>3. TimingCompliant(policy) = TRUE
    BY <2>2, <1>2, <1>9 DEF FlagsHold
  <2>4. old["timing"] = TRUE
    BY <2>3, <1>7
  <2> QED
    BY <1>10, <1>18, <2>1, <2>4
<1>19. ASSUME d = [old EXCEPT !["gaps"] = {}] PROVE d = old
  <2>1. "gaps" \in Fields /\ "complete" \in Fields
    OBVIOUS
  <2> HIDE DEF Fields
  <2>2. d.gaps = {} /\ d.complete = old.complete
    BY <1>10, <1>19, <2>1
  <2>3. old.complete = TRUE
    BY <2>2, <1>9 DEF FlagsHold
  <2>4. old["gaps"] = {}
    BY <2>3, <1>2, <1>8
  <2> QED
    BY <1>10, <1>19, <2>1, <2>4
<1>20. ASSUME d = [old EXCEPT !["complete"] = TRUE] PROVE d = old
  <2>1. "gaps" \in Fields /\ "complete" \in Fields
    OBVIOUS
  <2> HIDE DEF Fields
  <2>2. d.gaps = old.gaps /\ d.complete = TRUE
    BY <1>10, <1>20, <2>1
  <2>3. GapsOf(after, g) = {}
    BY <2>2, <1>2, <1>9 DEF FlagsHold
  <2>4. old["complete"] = TRUE
    BY <2>3, <1>8
  <2> QED
    BY <1>10, <1>20, <2>1, <2>4
<1>21. ASSUME d = [old EXCEPT !["failures"] = 0] PROVE d = old
  <2>1. "failures" \in Fields /\ "rows" \in Fields
    OBVIOUS
  <2> HIDE DEF Fields
  <2>2. d.failures = 0 /\ d.rows = rows
    BY ZenonT(60), <1>2, <1>10, <1>21, <2>1
  <2>3. old["failures"] = 0
    BY <2>2, <1>2, <1>9 DEF RowsHold
  <2> QED
    BY <1>10, <1>21, <2>1, <2>3
<1>22. Len(Closed) = Len(intervals) /\ Len(intervals) \in Nat \ {0}
  BY ClosedIs DEF Finished
<1>23. ASSUME d = [old EXCEPT !["resumes"] = 0] PROVE d = old
  <2>1. "resumes" \in Fields /\ "intervals" \in Fields
    OBVIOUS
  <2> HIDE DEF Fields
  <2>2. d.resumes = 0 /\ d.intervals = Closed
    BY <1>2, <1>10, <1>23, <2>1
  <2>3. old["resumes"] = 0
    BY <2>2, <1>2, <1>9, <1>22 DEF ResumeHolds
  <2> QED
    BY <1>10, <1>23, <2>1, <2>3
<1>24. ASSUME d = [old EXCEPT !["intervals"] = <<Last(Closed)>>] PROVE d = old
  <2>1. "resumes" \in Fields /\ "intervals" \in Fields
    OBVIOUS
  <2> HIDE DEF Fields
  <2>2. d.resumes = Len(intervals) - 1 /\ d.intervals = <<Last(Closed)>>
    <3> DEFINE v == <<Last(Closed)>>
    <3>1. d = [old EXCEPT !["intervals"] = v]
      BY <1>24
    <3> HIDE DEF v
    <3>2. d["intervals"] = v /\ d["resumes"] = old["resumes"]
      BY <3>1, <1>10, <2>1
    <3> QED
      BY <3>2, <1>2 DEF v
  <2>3. Len(<<Last(Closed)>>) = 1
    OBVIOUS
  <2>4. Len(intervals) = 1
    BY <2>2, <2>3, <1>9, <1>22 DEF ResumeHolds
  <2>5. Closed = <<Last(Closed)>>
    <3>1. DOMAIN Closed = 1..1 /\ Last(Closed) = Closed[1]
      BY <2>4, <1>22, ClosedIs DEF Last, Finished
    <3>2. Closed = [n \in DOMAIN Closed |-> Closed[n]]
      BY DEF Closed, Finished, IntervalsRun
    <3> HIDE DEF Closed
    <3> QED
      BY <3>1, <3>2
  <2> QED
    BY <1>2, <1>10, <1>24, <2>1, <2>5
<1> QED
  <2> HIDE DEF Fields
  <2>1. \/ d \in {[old EXCEPT !.rows = table, !.csv = table] : table \in BetterRows(old.rows)}
        \/ d \in {[old EXCEPT !.csv[n].status = "ok"] : n \in DOMAIN old.rows}
        \/ d \in {[old EXCEPT !.grid[n].verified = "yes"] : n \in DOMAIN old.grid}
        \/ d \in {[old EXCEPT !.grid = RemoveAt(@, n)] : n \in DOMAIN old.grid}
        \/ d \in {[old EXCEPT !.gridStable = TRUE], [old EXCEPT !.sourceStable = TRUE],
                  [old EXCEPT !.configStable = TRUE], [old EXCEPT !.hostStable = TRUE],
                  [old EXCEPT !.timing = TRUE], [old EXCEPT !.gaps = {}],
                  [old EXCEPT !.complete = TRUE], [old EXCEPT !.failures = 0],
                  [old EXCEPT !.resumes = 0], [old EXCEPT !.intervals = <<Last(@)>>]}
    BY DEF Better
  <2>2. CASE d \in {[old EXCEPT !.csv[n].status = "ok"] : n \in DOMAIN old.rows}
    BY <1>12, <2>2
  <2>verified. CASE d \in {[old EXCEPT !.grid[n].verified = "yes"] : n \in DOMAIN old.grid}
    <3>1. PICK n : d = [old EXCEPT !.grid[n].verified = "yes"]
      BY <2>verified
    <3> DEFINE v == [old.grid EXCEPT ![n].verified = "yes"]
    <3>2. d = [old EXCEPT !["grid"] = v]
      BY <3>1
    <3> HIDE DEF v
    <3> QED
      BY <3>2, <1>13
  <2>4. CASE d \in {[old EXCEPT !.grid = RemoveAt(@, n)] : n \in DOMAIN old.grid}
    <3>1. PICK n : d = [old EXCEPT !.grid = RemoveAt(@, n)]
      BY <2>4
    <3> DEFINE v == RemoveAt(old.grid, n)
    <3>2. d = [old EXCEPT !["grid"] = v]
      BY <3>1
    <3> HIDE DEF v
    <3> QED
      BY <3>2, <1>13
  <2>5. CASE d = [old EXCEPT !.intervals = <<Last(@)>>]
    <3>1. d = [old EXCEPT !["intervals"] = <<Last(Closed)>>]
      BY <2>5, <1>2
    <3> QED
      BY <3>1, <1>24
  <2> QED
    BY ZenonT(60), <2>1, <2>2, <2>verified, <2>4, <2>5, <1>11, <1>14, <1>15, <1>16, <1>17, <1>18, <1>19, <1>20,
       <1>21, <1>23

-----------------------------------------------------------------------------
(* What strict results are.                                                *)

LEMMA NoGaps ==
  ASSUME NEW after, NEW g, GapsOf(after, g) = {}
  PROVE  /\ TimingCompliant(policy) /\ after.tools = begun.identity.tools
         /\ BuildMatches(begun.identity, after) /\ SourceEvidence(begun.identity, after)
         /\ after.config = begun.identity.config /\ after.host = begun.identity.host
         /\ \A n \in DOMAIN rows : rows[n].verified = "yes"
         /\ g = begun.grid /\ ~policy.filtered
<1> DEFINE Names == {"timing", "binaries", "build", "source", "config", "rights", "integrity",
                     "grid", "host", "filter"}
<1>1. ASSUME NEW x \in Names PROVE x \notin GapsOf(after, g)
  OBVIOUS
<1>2. TimingCompliant(policy)
  BY <1>1 DEF GapsOf, Gaps
<1>3. after.tools = begun.identity.tools
  BY <1>1 DEF GapsOf, Gaps
<1>4. BuildMatches(begun.identity, after)
  BY <1>1 DEF GapsOf, Gaps
<1>5. SourceEvidence(begun.identity, after)
  BY <1>1 DEF GapsOf, Gaps
<1>6. after.config = begun.identity.config
  BY <1>1 DEF GapsOf, Gaps
<1>7. \A n \in DOMAIN rows : rows[n].verified = "yes"
  BY <1>1 DEF GapsOf, Gaps
<1>8. g = begun.grid
  BY <1>1 DEF GapsOf, Gaps
<1>9. after.host = begun.identity.host
  BY <1>1 DEF GapsOf, Gaps
<1>10. ~policy.filtered
  BY <1>1 DEF GapsOf, Gaps
<1> QED
  BY <1>2, <1>3, <1>4, <1>5, <1>6, <1>7, <1>8, <1>9, <1>10

\* The strict verifier asks for no gap, success and inspection.
LEMMA StrictDocument ==
  ASSUME Finished, NEW after, NEW g, NEW d, d = ResultDocument(after, g)
  PROVE  AcceptsDocumentStrictly(d) <=>
           /\ d.complete
           /\ \A n \in DOMAIN rows : /\ rows[n].status = "ok"
                                     /\ rows[n].family = "mathzip" => policy.collect
<1>1. /\ d.rows = rows /\ d.before = begun.identity /\ d.after = after /\ d.policy = policy
      /\ d.gaps = GapsOf(after, g)
  BY DocumentIs
<1>2. d.complete <=> GapsOf(after, g) = {}
  <2>1. d.complete = (GapsOf(after, g) = {})
    BY DocumentIs
  <2> QED
    BY <2>1
<1>3. ASSUME AcceptsDocumentStrictly(d), NEW n \in DOMAIN rows
      PROVE  d.complete /\ rows[n].status = "ok" /\ (rows[n].family = "mathzip" => policy.collect)
  BY <1>1, <1>3 DEF AcceptsDocumentStrictly
<1>4. AcceptsDocumentStrictly(d) => d.complete
  BY DEF AcceptsDocumentStrictly
<1>5. ASSUME d.complete,
             \A n \in DOMAIN rows : /\ rows[n].status = "ok"
                                    /\ rows[n].family = "mathzip" => policy.collect
      PROVE  AcceptsDocumentStrictly(d)
  <2>0. GapsOf(after, g) = {}
    BY <1>2, <1>5
  <2>1. AcceptsDocument(d)
    BY OwnDocumentPasses DEF Finished
  <2>2. /\ TimingCompliant(policy) /\ after.tools = begun.identity.tools
        /\ BuildMatches(begun.identity, after) /\ SourceEvidence(begun.identity, after)
        /\ after.config = begun.identity.config /\ after.host = begun.identity.host
    BY <2>0, NoGaps
  <2>3. /\ \A n \in DOMAIN rows : rows[n].verified = "yes"
        /\ g = begun.grid /\ ~policy.filtered
    BY <2>0, NoGaps
  <2>4. d.timing
    <3>1. d.timing = TimingCompliant(policy)
      BY DocumentIs
    <3> QED
      BY <3>1, <2>2
  <2>5. d.gridStable
    <3>1. d.gridStable = (g = begun.grid)
      BY DocumentIs
    <3> QED
      BY <3>1, <2>3
  <2>6. d.configStable
    <3>1. d.configStable = (after.config = begun.identity.config)
      BY DocumentIs
    <3> QED
      BY <3>1, <2>2
  <2>7. d.hostStable
    <3>1. d.hostStable = (after.host = begun.identity.host)
      BY DocumentIs
    <3> QED
      BY <3>1, <2>2
  <2>8. StrictSource(d)
    <3>1. d.sourceStable = (after.source = begun.identity.source)
      BY DocumentIs
    <3>2. after.source = begun.identity.source /\ begun.identity.source # "dirty"
      BY <2>2 DEF SourceEvidence
    <3> QED
      BY <3>1, <3>2, <1>1 DEF StrictSource
  <2>9. StrictBuild(d)
    <3>1. d.toolsStable = (after.tools = begun.identity.tools)
      BY DocumentIs
    <3>2. d.build = BuildMatches(begun.identity, after)
      BY DocumentIs
    <3>3. d.toolsStable /\ d.build
      BY <3>1, <3>2, <2>2
    <3>4. HasMathzip(begun.identity) =>
            begun.identity.source = "clean" /\ begun.identity.tools = "built"
      BY <2>2 DEF BuildMatches
    <3> QED
      BY <3>3, <3>4, <1>1 DEF StrictBuild
  <2>10. d.rights /\ d.integrity
    <3>1. d.rights = ("rights" \notin GapsOf(after, g))
      BY DocumentIs
    <3>2. d.integrity = ("integrity" \notin GapsOf(after, g))
      BY DocumentIs
    <3>3. "rights" \notin GapsOf(after, g) /\ "integrity" \notin GapsOf(after, g)
      BY <2>0
    <3> QED
      BY <3>1, <3>2, <3>3
  <2>11. \A n \in DOMAIN d.rows : /\ d.rows[n].status = "ok" /\ d.rows[n].verified = "yes"
                                  /\ d.rows[n].family = "mathzip" => d.policy.collect
    BY <1>1, <1>5, <2>3
  <2>12. ~d.policy.filtered
    BY <1>1, <2>3
  <2> QED
    BY <1>5, <2>1, <2>4, <2>5, <2>6, <2>7, <2>8, <2>9, <2>10, <2>11, <2>12
       DEF AcceptsDocumentStrictly
<1> QED
  BY <1>3, <1>4, <1>5

-----------------------------------------------------------------------------
(* The campaign.                                                           *)

\* The document the runner would publish now.
OwnDocument == ResultDocument(RunIdentity(world), ExpectedGrid(world))

\* A campaign goes on with the grid it began with, its rows are that grid's
\* first cells, and its document is its own or was improved from its own.
DocumentInv ==
  /\ phase \in {"idle", "refused", "running", "stopped", "published"}
  /\ improved \in BOOLEAN /\ (improved => phase = "published")
  /\ phase = "idle" => world \in Worlds
  /\ phase \in {"idle", "refused"} => rows = <<>>
  /\ phase \in {"running", "stopped", "published"} => Begun /\ RowsAreCells /\ IntervalsRun
  /\ phase = "published" =>
       /\ Len(rows) = CellCount(begun.grid)
       /\ IF improved THEN doc \in Better(OwnDocument) /\ doc # OwnDocument
          ELSE doc = OwnDocument

LEMMA DocumentInvVerifies == DocumentInv => DocumentsVerify
<1> SUFFICES ASSUME DocumentInv PROVE DocumentsVerify
  OBVIOUS
<1>1. OwnDocumentsPass
  BY DEF DocumentInv, OwnDocumentsPass
<1>2. phase = "published" =>
        Finished /\ IF improved THEN doc \in Better(OwnDocument) /\ doc # OwnDocument
                    ELSE doc = OwnDocument
  BY DEF DocumentInv, Finished
<1>3. BetterDocumentsFail
  <2> SUFFICES ASSUME improved, AcceptsDocument(doc), CsvHolds(doc) PROVE FALSE
    BY DEF BetterDocumentsFail
  <2>1. Finished /\ doc \in Better(OwnDocument) /\ doc # OwnDocument
    BY <1>2 DEF DocumentInv
  <2> DEFINE after == RunIdentity(world)
             g == ExpectedGrid(world)
             old == OwnDocument
  <2>2. old = ResultDocument(after, g)
    BY DEF OwnDocument
  <2> HIDE DEF after, g
  <2>3. doc = old
    <3> HIDE DEF old
    <3>1. doc \in Better(old)
      BY <2>1 DEF old
    <3> QED
      BY <2>1, <2>2, <3>1, BetterDocumentFails
  <2> QED
    BY <2>1, <2>3
<1>4. ASSUME DocumentPublished
      PROVE  /\ Finished
             /\ \E after, g : doc = ResultDocument(after, g)
  BY <1>2, <1>4 DEF DocumentPublished, OwnDocument
<1>5. ASSUME DocumentPublished
      PROVE  AcceptsDocumentStrictly(doc) <=>
               /\ doc.complete
               /\ \A n \in DOMAIN rows : /\ rows[n].status = "ok"
                                         /\ rows[n].family = "mathzip" => policy.collect
  <2>1. PICK after, g : doc = ResultDocument(after, g)
    BY <1>4, <1>5
  <2> QED
    BY <2>1, <1>4, <1>5, StrictDocument
<1>6. StrictMeasuresListedInputs
  <2> SUFFICES ASSUME DocumentPublished, AcceptsDocumentStrictly(doc)
               PROVE  /\ \A n \in DOMAIN rows : rows[n].measured = "listed"
                      /\ doc.after = doc.before /\ begun.identity.source # "dirty"
    BY DEF StrictMeasuresListedInputs
  <2>1. Finished /\ doc = ResultDocument(RunIdentity(world), ExpectedGrid(world))
    BY <1>2 DEF DocumentPublished, OwnDocument
  <2>2. doc.complete /\ \A n \in DOMAIN rows : rows[n].status = "ok"
    BY <1>5
  <2>3. GapsOf(RunIdentity(world), ExpectedGrid(world)) = {}
    <3>1. doc.complete = (GapsOf(RunIdentity(world), ExpectedGrid(world)) = {})
      BY <2>1, DocumentIs
    <3> QED
      BY <3>1, <2>2
  <2> DEFINE after == RunIdentity(world)
             g == ExpectedGrid(world)
  <2>4. after.tools = begun.identity.tools /\ after.config = begun.identity.config
        /\ after.host = begun.identity.host
    BY <2>3, NoGaps
  <2>5. SourceEvidence(begun.identity, after) /\ \A n \in DOMAIN rows : rows[n].verified = "yes"
    BY <2>3, NoGaps
  <2>6. after.source = begun.identity.source /\ begun.identity.source # "dirty"
    BY <2>5 DEF SourceEvidence
  <2>7. doc.after = after /\ doc.before = begun.identity
    BY <2>1, DocumentIs
  <2>8. after = begun.identity
    <3>1. PICK w \in Worlds : begun = [grid |-> ExpectedGrid(w), identity |-> RunIdentity(w)]
      BY <2>1 DEF Finished, Begun
    <3>2. begun.identity = RunIdentity(w)
      BY <3>1
    <3> QED
      BY <3>2, <2>4, <2>6 DEF RunIdentity
  <2>9. ASSUME NEW n \in DOMAIN rows PROVE rows[n].measured = "listed"
    <3>1. /\ EntryAt(n) \in DOMAIN begun.grid
          /\ rows[n].verified = begun.grid[EntryAt(n)].verified
          /\ rows[n].measured = begun.grid[EntryAt(n)].actual
      BY <2>1, <2>2, CellIs
    <3>2. Evident(begun.grid[EntryAt(n)])
      BY <2>1, <3>1, BegunIs DEF Finished
    <3> QED
      BY <2>5, <3>1, <3>2 DEF Evident
  <2> QED
    BY <2>6, <2>7, <2>8, <2>9
<1>7. InputsAreAccountedFor
  <2> SUFFICES ASSUME DocumentPublished
               PROVE  /\ \A n \in DOMAIN Inputs : Inputs[n].required =>
                           \E m \in DOMAIN doc.grid : doc.grid[m].corpus = Inputs[n].corpus
                      /\ \A m, n \in DOMAIN doc.grid :
                           doc.grid[m].file = doc.grid[n].file
                             /\ ~doc.grid[m].missing /\ ~doc.grid[n].missing => m = n
    BY DEF InputsAreAccountedFor
  <2>1. PICK after, g : doc = ResultDocument(after, g)
    BY <1>4
  <2>2. doc.grid = begun.grid
    BY <2>1, DocumentIs
  <2>3. Begun
    BY <1>4 DEF Finished
  <2>4. \A m, n \in DOMAIN begun.grid :
              begun.grid[m].file = begun.grid[n].file
                /\ ~begun.grid[m].missing /\ ~begun.grid[n].missing => m = n
    BY <2>3, BegunIs
  <2>5. \A n \in DOMAIN Inputs : Inputs[n].required => InTable(begun.grid, Inputs[n].corpus)
    BY <2>3, BegunIs
  <2> QED
    BY <2>2, <2>4, <2>5 DEF InTable
<1>8. StrictIsComplete
  BY <1>5 DEF StrictIsComplete
<1> QED
  BY <1>1, <1>3, <1>6, <1>7, <1>8 DEF DocumentsVerify

LEMMA IsASequence ==
  ASSUME NEW S, NEW s \in Seq(S)
  PROVE  s \in Seq(ToSet(s))
<1>1. \A n \in 1..Len(s) : s[n] \in ToSet(s)
  BY DEF ToSet
<1> HIDE DEF ToSet
<1>2. s = [n \in 1..Len(s) |-> s[n]] /\ Len(s) \in Nat
  OBVIOUS
<1> QED
  BY <1>1, <1>2

LEMMA DocumentInitially == DocumentInit => DocumentInv
  BY DEF DocumentInit, DocumentInv

LEMMA OpenIs ==
  ASSUME NEW n \in Nat
  PROVE  /\ Open(n) \in [resumed : BOOLEAN, interrupted : BOOLEAN, completed : BOOLEAN]
         /\ Open(n).resumed = (n > 1) /\ Open(n).interrupted = FALSE
         /\ Open(n).completed = FALSE
<1> DEFINE b == n > 1
<1>1. b \in BOOLEAN /\ Open(n) = [resumed |-> b, interrupted |-> FALSE, completed |-> FALSE]
  BY DEF Open
<1> HIDE DEF b
<1>2. /\ Open(n) \in [resumed : BOOLEAN, interrupted : BOOLEAN, completed : BOOLEAN]
      /\ Open(n).resumed = b /\ Open(n).interrupted = FALSE /\ Open(n).completed = FALSE
  BY <1>1
<1> QED
  BY <1>2 DEF b

LEMMA BeginKeepsInv == DocumentInv /\ Begin => DocumentInv'
<1> SUFFICES ASSUME DocumentInv, Begin PROVE DocumentInv'
  OBVIOUS
<1>1. /\ phase = "idle" /\ world \in Worlds /\ rows = <<>> /\ improved = FALSE
      /\ UNCHANGED <<world, changes, policy, rows, stops, doc, improved>>
  BY DEF DocumentInv, Begin
<1>2. CASE ManifestsReadable(world) /\ UniqueKeys(ExpectedGrid(world))
  <2>1. /\ begun' = [grid |-> ExpectedGrid(world), identity |-> RunIdentity(world)]
        /\ intervals' = <<Open(1)>> /\ phase' = "running"
    BY <1>2 DEF Begin
  <2>2. Begun'
    BY <1>1, <1>2, <2>1 DEF Begun
  <2>3. RowsAreCells'
    <3>1. \E w : begun.grid' \in Seq(Entries(w))
      <4>1. ExpectedGrid(world) \in Seq(Entries(world))
        BY GridIs
      <4> QED
        BY <4>1, <2>1
    <3>2. CellCount(begun'.grid) \in Nat
      <4>1. Len(begun'.grid) \in Nat
        BY <3>1
      <4>2. Width \in Nat
        BY DocumentAssumption DEF Width
      <4> QED
        BY <4>1, <4>2 DEF CellCount
    <3>3. rows' = <<>> /\ <<>> \in Seq(ToSet(<<>>)) /\ Len(<<>>) = 0 /\ DOMAIN <<>> = {}
      BY <1>1
    <3> QED
      BY <3>2, <3>3 DEF RowsAreCells
  <2>4. IntervalsRun'
    <3> DEFINE R == [resumed : BOOLEAN, interrupted : BOOLEAN, completed : BOOLEAN]
               i == Open(1)
    <3>1. i \in R /\ i.resumed = (1 > 1) /\ i.interrupted = FALSE /\ i.completed = FALSE
      BY OpenIs
    <3>2. intervals' = <<i>>
      BY <2>1
    <3> HIDE DEF i
    <3>3. intervals' \in Seq(R) /\ Len(intervals') = 1 /\ DOMAIN intervals' = {1}
          /\ intervals'[1] = i
      <4> HIDE DEF R
      <4> QED
        BY <3>1, <3>2
    <3> QED
      BY <3>1, <3>3 DEF IntervalsRun
  <2> QED
    BY <1>1, <2>1, <2>2, <2>3, <2>4 DEF DocumentInv
<1>3. CASE ~(ManifestsReadable(world) /\ UniqueKeys(ExpectedGrid(world)))
  <2>1. phase' = "refused"
    BY <1>3 DEF Begin
  <2> QED
    BY <1>1, <2>1 DEF DocumentInv
<1> QED
  BY <1>2, <1>3

LEMMA ResumeKeepsInv == DocumentInv /\ Resume => DocumentInv'
<1> SUFFICES ASSUME DocumentInv, Resume PROVE DocumentInv'
  OBVIOUS
<1>1. /\ phase = "stopped" /\ phase' = "running"
      /\ UNCHANGED <<world, changes, policy, begun, rows, stops, doc, improved>>
  BY DEF Resume
<1>2. Begun /\ RowsAreCells /\ IntervalsRun /\ improved = FALSE
  BY <1>1 DEF DocumentInv
<1> DEFINE K == Len(intervals)
           R == [resumed : BOOLEAN, interrupted : BOOLEAN, completed : BOOLEAN]
           last == [intervals[K] EXCEPT !.interrupted = TRUE]
           held == [intervals EXCEPT ![K] = last]
           next == Open(K + 1)
<1>3. intervals' = Append(held, next)
  BY DEF Resume
<1>4. intervals \in Seq(R) /\ K \in Nat \ {0} /\ DOMAIN intervals = 1..K /\ intervals[K] \in R
  <2>1. intervals \in Seq(R) /\ K >= 1
    BY <1>2 DEF IntervalsRun
  <2> HIDE DEF R
  <2>2. K \in Nat \ {0} /\ DOMAIN intervals = 1..K /\ K \in 1..K
    BY <2>1
  <2> QED
    BY <2>1, <2>2
<1>5. \A n \in 1..K : /\ intervals[n].resumed = (n > 1) /\ intervals[n].completed = FALSE
                      /\ intervals[n].interrupted = (n < K)
  BY <1>2, <1>4 DEF IntervalsRun
<1>6. /\ next \in R /\ next.resumed = (K + 1 > 1) /\ next.completed = FALSE
      /\ next.interrupted = FALSE
  <2>1. K + 1 \in Nat
    BY <1>4
  <2> HIDE DEF K
  <2> QED
    BY <2>1, OpenIs
<1>7. last \in R /\ last.resumed = intervals[K].resumed /\ last.interrupted = TRUE
      /\ last.completed = intervals[K].completed
  <2> DEFINE x == intervals[K]
  <2>1. x \in R /\ last = [x EXCEPT !.interrupted = TRUE] /\ x = intervals[K]
    BY <1>4
  <2> HIDE DEF x, last, K
  <2> QED
    BY <2>1
<1>8. K = Len(intervals)
  OBVIOUS
<1> HIDE DEF last, next, R, K
<1>9. held \in Seq(R) /\ Len(held) = K /\ held[K] = last
      /\ \A n \in 1..K : n # K => held[n] = intervals[n]
  <2>1. K \in 1..K /\ last \in R
    BY <1>4, <1>7
  <2>2. held \in Seq(R) /\ Len(held) = Len(intervals)
    BY <2>1, <1>4
  <2>3. held[K] = last /\ \A n \in 1..K : n # K => held[n] = intervals[n]
    BY <2>1, <1>4
  <2> QED
    BY <2>2, <2>3, <1>8
<1> HIDE DEF held
<1>10. /\ intervals' \in Seq(R) /\ Len(intervals') = K + 1 /\ intervals'[K + 1] = next
       /\ \A n \in 1..K : intervals'[n] = held[n]
  BY <1>3, <1>6, <1>9, AppendIs
<1>11. ASSUME NEW n \in 1..(K + 1)
       PROVE  /\ intervals'[n].resumed = (n > 1) /\ intervals'[n].completed = FALSE
              /\ intervals'[n].interrupted = (n < K + 1)
  <2>1. CASE n = K + 1
    <3>1. intervals'[n] = next /\ ~(n < K + 1) /\ n > 1 /\ K + 1 > 1
      BY <1>4, <1>10, <2>1
    <3>2. next.resumed = TRUE /\ next.completed = FALSE /\ next.interrupted = FALSE
      BY <1>6, <3>1
    <3>3. (n < K + 1) = FALSE /\ (n > 1) = TRUE
      BY <3>1
    <3> QED
      BY <3>1, <3>2, <3>3
  <2>2. CASE n = K
    <3>1. intervals'[n] = last /\ n \in 1..K /\ n < K + 1
      BY <1>4, <1>9, <1>10, <2>2
    <3> QED
      BY <3>1, <1>5, <1>7, <2>2
  <2>3. CASE n # K + 1 /\ n # K
    <3>1. intervals'[n] = intervals[n] /\ n \in 1..K /\ n < K /\ n < K + 1
      BY <1>4, <1>9, <1>10, <2>3
    <3> QED
      BY <3>1, <1>5
  <2> QED
    BY <2>1, <2>2, <2>3
<1>12. IntervalsRun'
  <2>1. DOMAIN intervals' = 1..(K + 1) /\ Len(intervals') >= 1
    BY <1>4, <1>10
  <2> QED
    BY <1>10, <1>11, <2>1 DEF IntervalsRun, R
<1>13. Begun' /\ RowsAreCells'
  BY <1>1, <1>2 DEF Begun, RowsAreCells
<1> QED
  BY <1>1, <1>2, <1>12, <1>13 DEF DocumentInv

LEMMA CommitKeepsInv == DocumentInv /\ Commit => DocumentInv'
<1> SUFFICES ASSUME DocumentInv, Commit PROVE DocumentInv'
  OBVIOUS
<1>1. /\ phase = "running" /\ Len(rows) + 1 <= CellCount(begun.grid)
      /\ UNCHANGED <<world, changes, policy, begun, intervals, stops, phase, doc, improved>>
  BY DEF Commit
<1>2. Begun /\ RowsAreCells /\ IntervalsRun /\ improved = FALSE
  BY <1>1 DEF DocumentInv
<1> DEFINE n == Len(rows) + 1
           entry == EntryOf(begun.grid, n)
           codec == CodecOf(n)
<1>3. PICK s, x : /\ rows' = Append(rows, CellRow(entry, codec, s, x))
                  /\ s = "ok" => x = entry.actual
  <2>1. CASE Skipped(entry, codec) # None
    <3>1. rows' = Append(rows, CellRow(entry, codec, Skipped(entry, codec), None))
      BY <2>1 DEF Commit
    <3>2. Skipped(entry, codec) # "ok"
      BY <2>1 DEF Skipped, None
    <3> QED
      BY <3>1, <3>2
  <2>2. CASE Skipped(entry, codec) = None
    <3>1. PICK s \in TrialOutcomes(entry) :
            rows' = Append(rows, CellRow(entry, codec, s, world.disk[entry.file]))
      BY <2>2 DEF Commit
    <3>2. s = "ok" => world.disk[entry.file] = entry.actual
      BY <3>1 DEF TrialOutcomes
    <3> QED
      BY <3>1, <3>2
  <2> QED
    BY <2>1, <2>2
<1> DEFINE r == CellRow(entry, codec, s, x)
           S == ToSet(rows) \cup {r}
<1>4. r.status = s /\ r.measured = x
  BY DEF CellRow
<1>5. /\ rows \in Seq(ToSet(rows)) /\ DOMAIN rows = 1..Len(rows) /\ Len(rows) \in Nat
      /\ \A i \in DOMAIN rows :
           /\ rows[i] = CellRow(EntryOf(begun.grid, i), CodecOf(i), rows[i].status,
                                rows[i].measured)
           /\ rows[i].status = "ok" => rows[i].measured = EntryOf(begun.grid, i).actual
  BY <1>2 DEF RowsAreCells
<1>6. rows \in Seq(S) /\ r \in S
  BY <1>5
<1>7. rows' = Append(rows, r)
  BY <1>3
<1>8. r = CellRow(EntryOf(begun.grid, n), CodecOf(n), r.status, r.measured)
      /\ (r.status = "ok" => r.measured = EntryOf(begun.grid, n).actual)
  BY <1>3, <1>4
<1> HIDE DEF r, S, entry, codec
<1>9. /\ rows' \in Seq(S) /\ Len(rows') = n /\ rows'[n] = r
      /\ \A i \in 1..Len(rows) : rows'[i] = rows[i]
  <2> DEFINE K == Len(rows)
  <2>1. K = Len(rows) /\ n = K + 1
    OBVIOUS
  <2> HIDE DEF K, n
  <2>2. /\ rows' \in Seq(S) /\ Len(rows') = K + 1 /\ rows'[K + 1] = r
        /\ \A i \in 1..K : rows'[i] = rows[i]
    BY <1>6, <1>7, <2>1, AppendIs
  <2> QED
    BY <2>1, <2>2
<1>10. RowsAreCells'
  <2>1. rows' \in Seq(ToSet(rows'))
    BY <1>9, IsASequence
  <2>2. DOMAIN rows' = 1..n /\ Len(rows') <= CellCount(begun.grid)
    BY <1>1, <1>9
  <2>3. ASSUME NEW i \in 1..n
        PROVE  /\ rows'[i] = CellRow(EntryOf(begun.grid, i), CodecOf(i), rows'[i].status,
                                     rows'[i].measured)
               /\ rows'[i].status = "ok" => rows'[i].measured = EntryOf(begun.grid, i).actual
    <3>1. CASE i = n
      BY <1>8, <1>9, <3>1
    <3>2. CASE i # n
      <4>1. i \in 1..Len(rows) /\ rows'[i] = rows[i]
        BY <1>5, <1>9, <3>2
      <4> QED
        BY <4>1, <1>5
    <3> QED
      BY <3>1, <3>2
  <2> HIDE DEF n
  <2> QED
    BY <1>1, <2>1, <2>2, <2>3 DEF RowsAreCells, EntryOf, CodecOf
<1>11. Begun' /\ IntervalsRun'
  BY <1>1, <1>2 DEF Begun, IntervalsRun
<1> QED
  BY <1>1, <1>2, <1>10, <1>11 DEF DocumentInv

LEMMA PublishKeepsInv == DocumentInv /\ PublishDocument => DocumentInv'
<1> SUFFICES ASSUME DocumentInv, PublishDocument PROVE DocumentInv'
  OBVIOUS
<1>1. /\ phase = "running" /\ Len(rows) = CellCount(begun.grid)
      /\ UNCHANGED <<world, changes, policy, begun, rows, intervals, stops, improved>>
  BY DEF PublishDocument
<1>2. Begun /\ RowsAreCells /\ IntervalsRun /\ improved = FALSE
  BY <1>1 DEF DocumentInv
<1>3. AcceptsDocument(OwnDocument) /\ CsvHolds(OwnDocument)
  <2> DEFINE d == OwnDocument
  <2>1. d = ResultDocument(RunIdentity(world), ExpectedGrid(world))
    BY DEF OwnDocument
  <2> HIDE DEF d
  <2>2. AcceptsDocument(d) /\ CsvHolds(d)
    BY <1>1, <1>2, <2>1, OwnDocumentPasses
  <2> QED
    BY <2>2 DEF d
<1>4. doc' = OwnDocument /\ phase' = "published"
  BY <1>3 DEF PublishDocument, OwnDocument
<1>5. OwnDocument' = OwnDocument
  <2>1. UNCHANGED <<world, policy, begun, rows, intervals>>
    BY <1>1
  <2> QED
    BY ONLY <2>1 DEF OwnDocument, ResultDocument
<1>6. Begun' /\ RowsAreCells' /\ IntervalsRun'
  BY <1>1, <1>2 DEF Begun, RowsAreCells, IntervalsRun
<1> QED
  BY <1>1, <1>2, <1>4, <1>5, <1>6 DEF DocumentInv

LEMMA DocumentSteps == DocumentInv /\ [DocumentNext]_documentVars => DocumentInv'
<1> SUFFICES ASSUME DocumentInv, [DocumentNext]_documentVars PROVE DocumentInv'
  OBVIOUS
<1>1. CASE Change
  <2>1. /\ phase \in {"running", "stopped"}
        /\ UNCHANGED <<policy, begun, rows, intervals, stops, phase, doc, improved>>
    BY <1>1 DEF Change
  <2> QED
    BY <2>1 DEF DocumentInv, Begun, RowsAreCells, IntervalsRun
<1>2. CASE Begin
  BY <1>2, BeginKeepsInv
<1>3. CASE Stop
  BY <1>3 DEF Stop, DocumentInv, Begun, RowsAreCells, IntervalsRun
<1>4. CASE Resume
  BY <1>4, ResumeKeepsInv
<1>5. CASE Commit
  BY <1>5, CommitKeepsInv
<1>6. CASE PublishDocument
  BY <1>6, PublishKeepsInv
<1>7. CASE EditDocument
  <2>1. /\ phase = "published" /\ ~improved /\ improved' = TRUE
        /\ UNCHANGED <<world, changes, policy, begun, rows, intervals, stops, phase>>
    BY <1>7 DEF EditDocument
  <2>2. doc = OwnDocument /\ Len(rows) = CellCount(begun.grid)
    BY <2>1 DEF DocumentInv
  <2>3. doc' \in Better(doc) /\ doc' # doc
    BY <1>7 DEF EditDocument
  <2>4. OwnDocument' = OwnDocument
    BY <2>1 DEF OwnDocument, ResultDocument
  <2>5. Begun' /\ RowsAreCells' /\ IntervalsRun'
    BY <2>1 DEF DocumentInv, Begun, RowsAreCells, IntervalsRun
  <2>6. doc' \in Better(OwnDocument') /\ doc' # OwnDocument'
    BY <2>2, <2>3, <2>4
  <2> QED
    BY <2>1, <2>2, <2>5, <2>6 DEF DocumentInv
<1>8. CASE UNCHANGED documentVars
  <2>1. OwnDocument' = OwnDocument
    BY <1>8 DEF OwnDocument, ResultDocument, documentVars
  <2> QED
    BY <1>8, <2>1 DEF documentVars, DocumentInv, Begun, RowsAreCells, IntervalsRun
<1> QED
  BY <1>1, <1>2, <1>3, <1>4, <1>5, <1>6, <1>7, <1>8 DEF DocumentNext

LEMMA EveryDocumentVerifies == DocumentSpec => []DocumentsVerify
<1>1. DocumentSpec => []DocumentInv
  BY DocumentInitially, DocumentSteps, PTL DEF DocumentSpec
<1> QED
  BY <1>1, DocumentInvVerifies, PTL

-----------------------------------------------------------------------------

\* The runner of a mathzip_bench campaign and its independent verifier agree on
\* every row and every document (aggregate_trials, run_benchmark,
\* validate_result_document): the runner's own pass, the ones that an editor
\* made better fail, and what the strict verifier accepts measured the listed
\* bytes of every required corpus.
THEOREM Results == RowSpec /\ DocumentSpec => []ResultsVerify
<1>1. RowsVerify /\ DocumentsVerify => ResultsVerify
  BY DEF ResultsVerify
<1> QED
  BY EveryRowVerifies, EveryDocumentVerifies, <1>1, PTL

=============================================================================
