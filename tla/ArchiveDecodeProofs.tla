-------------------------- MODULE ArchiveDecodeProofs --------------------------
(* The streaming decoder, for every file, however it is rewritten between  *)
(* any two reads: what it holds in memory, what it accepts, what it puts   *)
(* in the spool and, of a file left alone, which verdict it comes to.      *)
EXTENDS ArchiveDecode, SequenceTheorems, WellFoundedInduction, TLAPS

--------------------------------------------------------------------------------
(* Sums and concatenations.                                                *)

(* Induction over the naturals, with a set in place of the predicate. *)
LEMMA NaturalsFrom ==
    ASSUME NEW T, 0 \in T, \A n \in Nat : n \in T => n + 1 \in T
    PROVE  Nat \subseteq T
<1> SUFFICES ASSUME Nat \ T # {} PROVE FALSE
  OBVIOUS
<1>1. PICK m \in Nat \ T : \A k \in Nat \ T : <<k, m>> \notin OpToRel(<, Nat)
  BY NatLessThanWellFounded, WFMin
<1>2. m # 0 /\ m - 1 \in Nat /\ m - 1 < m /\ (m - 1) + 1 = m
  OBVIOUS
<1>3. <<m - 1, m>> \in OpToRel(<, Nat)
  BY <1>2 DEF OpToRel
<1> QED
  BY <1>1, <1>2, <1>3

LEMMA AppendIs ==
    ASSUME NEW S, NEW seq \in Seq(S), NEW last \in S, NEW n, n = Len(seq)
    PROVE  /\ n \in Nat
           /\ Append(seq, last) \in Seq(S)
           /\ Len(Append(seq, last)) = n + 1
           /\ Append(seq, last)[n + 1] = last
           /\ \A i \in 1..n : Append(seq, last)[i] = seq[i]
BY AppendProperties

--------------------------------------------------------------------------------
(* Total, given by the sums of its first parts. *)
Sums(n, lengths, g) ==
    g = [i \in 0..n |-> IF i = 0 THEN 0 ELSE g[i-1] + lengths[i]]

LEMMA SumsExist ==
    ASSUME NEW lengths, NEW n \in Nat
    PROVE  \E g : Sums(n, lengths, g)
<1> DEFINE T == {k \in Nat : \E g : Sums(k, lengths, g)}
<1>1. 0 \in T
  <2> DEFINE g == [i \in 0..0 |-> 0]
  <2>1. g = [i \in 0..0 |-> IF i = 0 THEN 0 ELSE g[i-1] + lengths[i]]
    OBVIOUS
  <2> HIDE DEF g
  <2> QED
    BY <2>1 DEF Sums
<1>2. ASSUME NEW k \in Nat, k \in T PROVE k + 1 \in T
  <2>1. PICK g : Sums(k, lengths, g)
    BY <1>2
  <2> DEFINE h == [i \in 0..k+1 |-> IF i = k + 1 THEN g[k] + lengths[k + 1] ELSE g[i]]
  <2>2. ASSUME NEW i \in 0..k+1
        PROVE  h[i] = IF i = 0 THEN 0 ELSE h[i-1] + lengths[i]
    <3>1. CASE i = k + 1
      <4>1. i # 0 /\ i - 1 = k /\ k \in 0..k+1 /\ k # k + 1 /\ i \in 0..k+1
        BY <3>1
      <4>2. h[i] = g[k] + lengths[k + 1] /\ h[k] = g[k]
        BY <3>1, <4>1
      <4> QED
        BY <3>1, <4>1, <4>2
    <3>2. CASE i # k + 1
      <4>1. i \in 0..k
        BY <3>2
      <4>2. g[i] = IF i = 0 THEN 0 ELSE g[i-1] + lengths[i]
        BY <2>1, <4>1 DEF Sums
      <4>3. h[i] = g[i]
        BY <3>2
      <4>4. i # 0 => i - 1 \in 0..k+1 /\ i - 1 # k + 1
        BY <4>1
      <4>5. i # 0 => h[i-1] = g[i-1]
        BY <4>4
      <4> QED
        BY <4>2, <4>3, <4>5
    <3> QED
      BY <3>1, <3>2
  <2>3. h = [i \in 0..k+1 |-> h[i]]
    OBVIOUS
  <2> HIDE DEF h
  <2>4. h = [i \in 0..k+1 |-> IF i = 0 THEN 0 ELSE h[i-1] + lengths[i]]
    BY <2>2, <2>3
  <2>5. k + 1 \in Nat /\ Sums(k + 1, lengths, h)
    BY <2>4 DEF Sums
  <2> QED
    BY <2>5
<1> HIDE DEF T
<1>3. n \in T
  BY <1>1, <1>2, NaturalsFrom
<1> QED
  BY <1>3 DEF T

LEMMA TotalIs ==
    ASSUME NEW lengths, NEW n \in Nat, n = Len(lengths)
    PROVE  \E g : Sums(n, lengths, g) /\ Total(lengths) = g[n]
<1> DEFINE sum[i \in 0..n] == IF i = 0 THEN 0 ELSE sum[i-1] + lengths[i]
<1>1. Total(lengths) = sum[n]
  BY DEF Total
<1>2. PICK g : Sums(n, lengths, g)
  BY SumsExist
<1>3. Sums(n, lengths, sum)
  BY <1>2 DEF Sums, sum
<1> HIDE DEF sum
<1> QED
  BY <1>1, <1>3

LEMMA TotalEmpty == Total(<<>>) = 0
<1>1. PICK g : Sums(0, <<>>, g) /\ Total(<<>>) = g[0]
  BY TotalIs
<1> QED
  BY <1>1 DEF Sums

(* Two sums agree as far as their terms do. *)
LEMMA SumsAgree ==
    ASSUME NEW n \in Nat, NEW m \in Nat, n <= m, NEW a, NEW b, NEW g, NEW h,
           Sums(n, a, g), Sums(m, b, h), \A i \in 1..n : a[i] = b[i]
    PROVE  g[n] = h[n]
<1> DEFINE T == {k \in Nat : k <= n => g[k] = h[k]}
<1>1. 0 \in T
  BY DEF Sums
<1>2. ASSUME NEW k \in Nat, k \in T PROVE k + 1 \in T
  <2>0. k + 1 \in Nat
    OBVIOUS
  <2>1. ASSUME k + 1 <= n PROVE g[k + 1] = h[k + 1]
    <3>1. k + 1 \in 1..n /\ k + 1 \in 0..n /\ k + 1 \in 0..m /\ k + 1 # 0 /\ (k + 1) - 1 = k
      BY <2>1
    <3>2. g[k + 1] = g[k] + a[k + 1] /\ h[k + 1] = h[k] + b[k + 1]
      BY <3>1 DEF Sums
    <3>3. g[k] = h[k]
      BY <1>2, <2>1
    <3> QED
      BY <3>1, <3>2, <3>3
  <2> QED
    BY <2>0, <2>1
<1> HIDE DEF T
<1>3. n \in T
  BY <1>1, <1>2, NaturalsFrom
<1> QED
  BY <1>3 DEF T

LEMMA TotalAppend ==
    ASSUME NEW a, NEW b, NEW n \in Nat, Len(a) = n, Len(b) = n + 1,
           \A i \in 1..n : b[i] = a[i]
    PROVE  Total(b) = Total(a) + b[n + 1]
<1>1. PICK g : Sums(n, a, g) /\ Total(a) = g[n]
  BY TotalIs
<1>2. n + 1 \in Nat /\ n <= n + 1 /\ n + 1 # 0 /\ n + 1 \in 0..n+1 /\ (n + 1) - 1 = n
  OBVIOUS
<1>3. PICK h : Sums(n + 1, b, h) /\ Total(b) = h[n + 1]
  BY <1>2, TotalIs
<1>4. g[n] = h[n]
  BY <1>1, <1>2, <1>3, SumsAgree
<1>5. h[n + 1] = h[n] + b[n + 1]
  BY <1>2, <1>3 DEF Sums
<1> QED
  BY <1>1, <1>3, <1>4, <1>5

--------------------------------------------------------------------------------
(* FlattenSeq, given by the concatenations of its first parts.             *)
Concatenations(n, seqs, g) ==
    g = [i \in 1..n |-> IF i = 1 THEN seqs[i] ELSE g[i-1] \o seqs[i]]

LEMMA ConcatenationsExist ==
    ASSUME NEW seqs, NEW n \in Nat
    PROVE  \E g : Concatenations(n, seqs, g)
<1> DEFINE T == {k \in Nat : \E g : Concatenations(k, seqs, g)}
<1>1. 0 \in T
  <2> DEFINE g == [i \in 1..0 |-> 0]
  <2>1. g = [i \in 1..0 |-> IF i = 1 THEN seqs[i] ELSE g[i-1] \o seqs[i]]
    OBVIOUS
  <2> HIDE DEF g
  <2> QED
    BY <2>1 DEF Concatenations
<1>2. ASSUME NEW k \in Nat, k \in T PROVE k + 1 \in T
  <2>1. PICK g : Concatenations(k, seqs, g)
    BY <1>2
  <2> DEFINE h == [i \in 1..k+1 |-> IF i # k + 1 THEN g[i]
                                   ELSE IF k = 0 THEN seqs[i] ELSE g[k] \o seqs[k + 1]]
  <2>2. ASSUME NEW i \in 1..k+1
        PROVE  h[i] = IF i = 1 THEN seqs[i] ELSE h[i-1] \o seqs[i]
    <3>1. CASE i = k + 1
      <4>1. i - 1 = k /\ (k # 0 => k \in 1..k+1 /\ i # 1) /\ k # k + 1 /\ (k = 0 => i = 1)
        BY <3>1
      <4>2. h[i] = IF k = 0 THEN seqs[i] ELSE g[k] \o seqs[k + 1]
        BY <3>1
      <4>3. k # 0 => h[k] = g[k]
        BY <4>1
      <4> QED
        BY <3>1, <4>1, <4>2, <4>3
    <3>2. CASE i # k + 1
      <4>1. i \in 1..k
        BY <3>2
      <4>2. g[i] = IF i = 1 THEN seqs[i] ELSE g[i-1] \o seqs[i]
        BY <2>1, <4>1 DEF Concatenations
      <4>3. h[i] = g[i]
        BY <3>2
      <4>4. i # 1 => i - 1 \in 1..k+1 /\ i - 1 # k + 1
        BY <4>1
      <4>5. i # 1 => h[i-1] = g[i-1]
        BY <4>4
      <4> QED
        BY <4>2, <4>3, <4>5
    <3> QED
      BY <3>1, <3>2
  <2>3. h = [i \in 1..k+1 |-> h[i]]
    OBVIOUS
  <2> HIDE DEF h
  <2>4. h = [i \in 1..k+1 |-> IF i = 1 THEN seqs[i] ELSE h[i-1] \o seqs[i]]
    BY <2>2, <2>3
  <2>5. Concatenations(k + 1, seqs, h)
    BY <2>4 DEF Concatenations
  <2>6. k + 1 \in Nat
    OBVIOUS
  <2> QED
    BY <2>5, <2>6
<1> HIDE DEF T
<1>3. n \in T
  BY <1>1, <1>2, NaturalsFrom
<1> QED
  BY <1>3 DEF T

LEMMA FlattenIs ==
    ASSUME NEW seqs, NEW n \in Nat \ {0}, n = Len(seqs)
    PROVE  \E g : Concatenations(n, seqs, g) /\ FlattenSeq(seqs) = g[n]
<1> DEFINE flatten[i \in 1..n] == IF i = 1 THEN seqs[i] ELSE flatten[i-1] \o seqs[i]
<1>1. FlattenSeq(seqs) = flatten[n]
  BY DEF FlattenSeq
<1>2. PICK g : Concatenations(n, seqs, g)
  BY SMTT(40), ConcatenationsExist
<1>3. Concatenations(n, seqs, flatten)
  BY <1>2 DEF Concatenations, flatten
<1> HIDE DEF flatten
<1> QED
  BY <1>1, <1>3

LEMMA FlattenEmpty == ASSUME NEW seqs, Len(seqs) = 0 PROVE FlattenSeq(seqs) = seqs
BY DEF FlattenSeq

LEMMA ConcatenationsAgree ==
    ASSUME NEW n \in Nat \ {0}, NEW m \in Nat, n <= m, NEW a, NEW b, NEW g, NEW h,
           Concatenations(n, a, g), Concatenations(m, b, h), \A i \in 1..n : a[i] = b[i]
    PROVE  g[n] = h[n]
<1> DEFINE T == {k \in Nat : k + 1 <= n => g[k + 1] = h[k + 1]}
<1>1. 0 \in T
  <2>1. 1 \in 1..n /\ 1 \in 1..m
    OBVIOUS
  <2>2. g[1] = a[1] /\ h[1] = b[1]
    BY <2>1 DEF Concatenations
  <2>3. g[0 + 1] = h[0 + 1]
    BY <2>1, <2>2
  <2> QED
    BY <2>3
<1>2. ASSUME NEW k \in Nat, k \in T PROVE k + 1 \in T
  <2>0. k + 1 \in Nat
    OBVIOUS
  <2>1. ASSUME (k + 1) + 1 <= n PROVE g[(k + 1) + 1] = h[(k + 1) + 1]
    <3> DEFINE i == (k + 1) + 1
    <3>1. i \in 1..n /\ i \in 1..m /\ i # 1 /\ i - 1 = k + 1
      BY <2>1
    <3> HIDE DEF i
    <3>2. g[i] = g[i-1] \o a[i] /\ h[i] = h[i-1] \o b[i]
      BY <3>1 DEF Concatenations
    <3>3. g[k + 1] = h[k + 1]
      BY <1>2, <2>1
    <3>4. g[i] = h[i]
      BY <3>1, <3>2, <3>3
    <3> QED
      BY <3>4 DEF i
  <2> QED
    BY <2>0, <2>1
<1> HIDE DEF T
<1>3. n - 1 \in Nat /\ (n - 1) + 1 = n
  OBVIOUS
<1>4. n - 1 \in T
  BY <1>1, <1>2, <1>3, NaturalsFrom
<1> QED
  BY <1>3, <1>4 DEF T

LEMMA FlattenAppend ==
    ASSUME NEW a, NEW b, NEW n \in Nat \ {0}, Len(a) = n, Len(b) = n + 1,
           \A i \in 1..n : b[i] = a[i]
    PROVE  FlattenSeq(b) = FlattenSeq(a) \o b[n + 1]
<1>1. PICK g : Concatenations(n, a, g) /\ FlattenSeq(a) = g[n]
  BY FlattenIs
<1>2. n + 1 \in Nat \ {0} /\ n <= n + 1 /\ n + 1 # 1 /\ n + 1 \in 1..n+1 /\ (n + 1) - 1 = n
  OBVIOUS
<1>3. PICK h : Concatenations(n + 1, b, h) /\ FlattenSeq(b) = h[n + 1]
  BY <1>2, FlattenIs
<1>4. g[n] = h[n]
  BY <1>1, <1>2, <1>3, ConcatenationsAgree
<1>5. h[n + 1] = h[n] \o b[n + 1]
  BY <1>2, <1>3 DEF Concatenations
<1> QED
  BY <1>1, <1>3, <1>4, <1>5

LEMMA FlattenOne ==
    ASSUME NEW b, Len(b) = 1
    PROVE  FlattenSeq(b) = b[1]
<1>1. PICK h : Concatenations(1, b, h) /\ FlattenSeq(b) = h[1]
  <2>1. 1 \in Nat \ {0} /\ 1 = Len(b)
    OBVIOUS
  <2> QED
    BY <2>1, FlattenIs
<1> QED
  BY <1>1 DEF Concatenations

--------------------------------------------------------------------------------
(* Memory is bounded.                                                      *)

AfterHeader == {"directory", "blocks", "payload", "footer", "accepted"}

(* Everything the decoder keeps was a word of the file once, and every     *)
(* record of the second pass met the limits again.                         *)
WordsInv ==
    /\ file \in Seq(Written)
    /\ directory \in Seq(Written)
    /\ reread \in Seq(Written)
    /\ \A i \in 1..Len(reread) : RecordFits(reread[i])
    /\ pc = "payload" => reread # <<>>
    /\ pc \in AfterHeader => header \in Written /\ header.kind = "header"
    /\ buffered \in [payload : Nat, restored : Nat]

IInv == TypeOK /\ AllocationsBounded /\ WordsInv
--------------------------------------------------------------------------------
LEMMA SumNat == ASSUME NEW a \in Nat, NEW b \in Nat PROVE a + b \in Nat
OBVIOUS

LEMMA MostWithin ==
    ASSUME NEW a \in Nat, NEW b \in Nat, NEW limit \in Nat, a <= limit, b <= limit
    PROVE  Most(a, b) \in Nat /\ Most(a, b) <= limit
BY DEF Most

LEMMA HeaderWord ==
    ASSUME NEW word \in Written, word.kind = "header" PROVE word.payloadOffset \in Nat
BY WordsAssumption

LEMMA RecordWord ==
    ASSUME NEW word \in Written, word.kind = "record"
    PROVE  word.length \in Nat /\ word.payloadLength \in Nat /\ word.nodes \in Nat
BY WordsAssumption

LEMMA Constants ==
    /\ DecoderLimits.blockOutput \in Nat /\ DecoderLimits.blockPayload \in Nat
    /\ Restores \in [Programs -> Seq(Nat)]
BY LimitsAssumption, ProgramsAssumption DEF LimitFields

LEMMA FileWord ==
    ASSUME WordsInv, NEW i \in Nat \ {0}, Readable(i)
    PROVE  file[i] \in Written
BY DEF WordsInv, Readable

LEMMA InitIInv == Init => IInv
<1> SUFFICES ASSUME Init PROVE IInv
  OBVIOUS
<1>1. TypeOK
  BY DecodeAssumption DEF Init, TypeOK, Running
<1>2. AllocationsBounded
  BY Constants DEF Init, AllocationsBounded
<1>3. WordsInv
  BY WordsAssumption DEF Init, WordsInv, AfterHeader
<1> QED
  BY <1>1, <1>2, <1>3 DEF IInv

(* Another process writes words only. *)
LEMMA RewriteStep == ASSUME IInv, Rewrite PROVE IInv'
<1>1. file' \in Seq(Written)
  <2>1. file \in Seq(Written)
    BY DEF IInv, WordsInv
  <2>2. CASE file' = <<>>
    BY <2>2
  <2>3. ASSUME NEW source \in Rewrites, NEW i \in 1..Len(source),
               i <= Len(file) + 1,
               file' = IF i <= Len(file) THEN [file EXCEPT ![i] = source[i]]
                                         ELSE Append(file, source[i])
        PROVE  file' \in Seq(Written)
    <3>1. source[i] \in Written
      BY <2>3 DEF Written
    <3> QED
      BY <2>1, <2>3, <3>1
  <2> QED
    BY <2>2, <2>3 DEF Rewrite
<1>2. /\ UNCHANGED <<pc, failure, length, header, directory, reread, payload, footer,
                     passVars, outVars>>
      /\ writes < MaxWrites /\ writes' = writes + 1
  BY DEF Rewrite
<1>3. TypeOK'
  BY <1>2, DecodeAssumption DEF IInv, TypeOK, passVars, outVars, HeaderFits, HeaderUnlimited,
     RecordFits, RecordShaped
<1>4. AllocationsBounded' /\ WordsInv'
  BY <1>1, <1>2 DEF IInv, AllocationsBounded, WordsInv, outVars, RecordFits, RecordShaped
<1> QED
  BY <1>3, <1>4 DEF IInv

(* A step that keeps nothing new. *)
LEMMA QuietStep ==
    ASSUME IInv, UNCHANGED <<file, writes, length, header, directory, reread, buffered, restored>>,
           pc' \in Running \cup {"accepted", "failed"}, failure' \in {"none", "format", "io"},
           pc' = "failed" <=> failure' # "none",
           pc' \in AfterHeader => pc \in AfterHeader \ {"accepted"},
           pc' # "payload" \/ pc = "payload",
           offset' \in Nat, position' \in Nat, nodes' \in Nat, spool' \in Seq(Nat)
    PROVE  IInv'
<1>1. TypeOK'
  BY DEF IInv, TypeOK, AfterHeader, Running, HeaderFits, HeaderUnlimited, RecordFits, RecordShaped
<1>2. AllocationsBounded' /\ WordsInv'
  BY DEF IInv, AllocationsBounded, WordsInv, RecordFits, RecordShaped
<1> QED
  BY <1>1, <1>2 DEF IInv

LEMMA OpenStep == ASSUME IInv, Open PROVE IInv'
<1>1. Len(file) \in Nat
  BY DEF IInv, WordsInv
<1>2. TypeOK'
  BY <1>1 DEF Open, Reject, Fail, IInv, TypeOK, Running, fileVars, passVars, outVars,
     RecordFits, RecordShaped
<1>3. AllocationsBounded' /\ WordsInv'
  BY DEF Open, Reject, Fail, IInv, AllocationsBounded, WordsInv, AfterHeader, fileVars, outVars,
     RecordFits, RecordShaped
<1> QED
  BY <1>2, <1>3 DEF IInv

LEMMA ReadHeaderStep == ASSUME IInv, ReadHeader PROVE IInv'
<1>1. CASE Readable(1) /\ HeaderFits(file[1], length)
  <2>1. file[1] \in Written /\ file[1].kind = "header"
    BY <1>1, FileWord DEF IInv, HeaderFits, HeaderUnlimited
  <2>2. file[1].payloadOffset \in Nat
    BY <2>1, HeaderWord
  <2>3. TypeOK'
    BY <1>1, <2>2 DEF ReadHeader, IInv, TypeOK, Running, fileVars, outVars, HeaderFits,
       HeaderUnlimited, RecordFits, RecordShaped
  <2>4. AllocationsBounded' /\ WordsInv'
    BY <1>1, <2>1 DEF ReadHeader, IInv, AllocationsBounded, WordsInv, AfterHeader, fileVars,
       outVars, RecordFits, RecordShaped
  <2> QED
    BY <2>3, <2>4 DEF IInv
<1>2. CASE ~(Readable(1) /\ HeaderFits(file[1], length))
  <2> USE <1>2 DEF ReadHeader, Reject, Fail, fileVars, outVars
  <2>1. offset' \in Nat /\ position' \in Nat /\ nodes' \in Nat /\ spool' \in Seq(Nat)
    BY DEF IInv, TypeOK
  <2>2. pc' = "failed" /\ failure' = "format"
    OBVIOUS
  <2>3. UNCHANGED <<file, writes, length, header, directory, reread, buffered, restored>>
    OBVIOUS
  <2> QED
    BY <2>1, <2>2, <2>3, QuietStep DEF AfterHeader
<1> QED
  BY <1>1, <1>2

(* The first pass keeps a record that met the limits. *)
LEMMA ReadRecordStep == ASSUME IInv, ReadRecord PROVE IInv'
<1> DEFINE next == HeaderWords + Len(directory) + 1
<1>1. directory \in Seq(Written) /\ Len(directory) \in Nat /\ next \in Nat \ {0}
      /\ \A i \in 1..Len(directory) : RecordFits(directory[i])
  BY DEF IInv, WordsInv, TypeOK, HeaderWords
<1>2. PICK word : word = file[next]
  OBVIOUS
<1>3. CASE Readable(next) /\ RecordFits(word) /\ word.length > 0 /\ Contiguous(word)
  <2>1. word \in Written /\ word.kind = "record"
    BY <1>1, <1>2, <1>3, FileWord DEF IInv, RecordFits, RecordShaped
  <2>2. word.length \in Nat /\ word.payloadLength \in Nat /\ word.nodes \in Nat
    BY <2>1, RecordWord
  <2>3. /\ directory' = Append(directory, word)
        /\ offset' = offset + word.length
        /\ position' = position + word.payloadLength
        /\ nodes' = nodes + word.nodes
        /\ UNCHANGED <<pc, failure, file, writes, length, header, reread, restored, spool,
                       buffered>>
    BY <1>2, <1>3 DEF ReadRecord, fileVars, outVars
  <2>4. \A i \in 1..Len(directory') : RecordFits(directory'[i])
    BY <1>1, <1>3, <2>3
  <2>5. TypeOK'
    <3>1. offset \in Nat /\ position \in Nat /\ nodes \in Nat
      BY DEF IInv, TypeOK
    <3>2. offset' \in Nat /\ position' \in Nat /\ nodes' \in Nat
      BY <2>2, <2>3, <3>1, SumNat
    <3> QED
      BY <3>2, <2>3, <2>4 DEF IInv, TypeOK, HeaderFits, HeaderUnlimited, RecordFits, RecordShaped
  <2>6. AllocationsBounded' /\ WordsInv'
    BY <1>1, <2>1, <2>3 DEF IInv, AllocationsBounded, WordsInv, RecordFits, RecordShaped
  <2> QED
    BY <2>5, <2>6 DEF IInv
<1>4. CASE ~(Readable(next) /\ RecordFits(word) /\ word.length > 0 /\ Contiguous(word))
  <2>1. /\ UNCHANGED <<file, writes, length, header, directory, reread, buffered, restored>>
        /\ pc' = "failed" /\ failure' \in {"format", "io"}
        /\ UNCHANGED <<offset, position, nodes, spool>>
    BY <1>2, <1>4 DEF ReadRecord, Fail, fileVars, passVars, outVars
  <2>2. offset' \in Nat /\ position' \in Nat /\ nodes' \in Nat /\ spool' \in Seq(Nat)
    BY <2>1 DEF IInv, TypeOK
  <2> QED
    BY <2>1, <2>2, QuietStep DEF AfterHeader
<1> QED
  BY <1>3, <1>4

LEMMA EndDirectoryStep == ASSUME IInv, EndDirectory PROVE IInv'
<1>1. header.payloadOffset \in Nat
  BY HeaderWord DEF IInv, WordsInv, EndDirectory, AfterHeader
<1>2. /\ UNCHANGED <<file, writes, length, header, directory, reread, buffered, restored>>
      /\ pc = "directory" /\ failure = "none"
      /\ \/ pc' \in {"footer", "blocks"} /\ failure' = failure
         \/ pc' = "failed" /\ failure' = "format"
      /\ offset' \in Nat /\ position' \in Nat /\ nodes' \in Nat /\ spool' \in Seq(Nat)
  BY <1>1 DEF EndDirectory, Reject, Fail, fileVars, outVars, IInv, TypeOK
<1> QED
  BY <1>2, QuietStep DEF AfterHeader, Running

(* The second pass checks the limits of a record again before it makes     *)
(* room for its payload.                                                   *)
LEMMA RereadRecordStep == ASSUME IInv, RereadRecord PROVE IInv'
<1> DEFINE next == HeaderWords + Len(reread) + 1
<1>1. reread \in Seq(Written) /\ Len(reread) \in Nat /\ next \in Nat \ {0}
      /\ \A i \in 1..Len(reread) : RecordFits(reread[i])
  BY DEF IInv, WordsInv, HeaderWords
<1>b. /\ buffered.payload \in Nat /\ buffered.restored \in Nat
      /\ buffered = [payload |-> buffered.payload, restored |-> buffered.restored]
      /\ buffered.payload <= DecoderLimits.blockPayload
      /\ buffered.restored <= DecoderLimits.blockOutput
  BY DEF IInv, WordsInv, AllocationsBounded
<1>2. PICK word : word = file[next]
  OBVIOUS
<1>3. CASE Readable(next) /\ RereadFits(word)
  <2>1. word \in Written /\ word.kind = "record" /\ RecordFits(word)
    BY <1>1, <1>2, <1>3, FileWord DEF IInv, RereadFits, RecordFits, RecordShaped
  <2>2. word.payloadLength \in Nat /\ word.payloadLength <= DecoderLimits.blockPayload
    BY <2>1, RecordWord DEF RecordFits
  <2>3. /\ reread' = Append(reread, word)
        /\ buffered' = [buffered EXCEPT !.payload = Most(@, word.payloadLength)]
        /\ pc = "blocks" /\ pc' = "payload" /\ failure' = failure
        /\ UNCHANGED <<file, writes, length, header, directory, offset, position, nodes,
                       restored, spool>>
    BY <1>2, <1>3 DEF RereadRecord, fileVars, passVars
  <2>4. /\ buffered' \in [payload : Nat, restored : Nat]
        /\ buffered'.payload <= DecoderLimits.blockPayload
        /\ buffered'.restored <= DecoderLimits.blockOutput
    <3>1. /\ Most(buffered.payload, word.payloadLength) \in Nat
          /\ Most(buffered.payload, word.payloadLength) <= DecoderLimits.blockPayload
      BY <1>b, <2>2, Constants, MostWithin
    <3> QED
      BY <1>b, <2>3, <3>1
  <2>5. reread' \in Seq(Written) /\ reread' # <<>>
        /\ \A i \in 1..Len(reread') : RecordFits(reread'[i])
    BY <1>1, <2>1, <2>3
  <2>6. TypeOK'
    BY <2>3 DEF IInv, TypeOK, Running, HeaderFits, HeaderUnlimited, RecordFits, RecordShaped
  <2>7. AllocationsBounded' /\ WordsInv'
    BY <2>3, <2>4, <2>5 DEF IInv, AllocationsBounded, WordsInv, AfterHeader, RecordFits,
       RecordShaped
  <2> QED
    BY <2>6, <2>7 DEF IInv
<1>4. CASE ~(Readable(next) /\ RereadFits(word))
  <2>1. /\ UNCHANGED <<file, writes, length, header, directory, reread, buffered, restored>>
        /\ pc' = "failed" /\ failure' = "format"
        /\ UNCHANGED <<offset, position, nodes, spool>>
    BY <1>2, <1>4 DEF RereadRecord, Reject, Fail, fileVars, passVars
  <2>2. offset' \in Nat /\ position' \in Nat /\ nodes' \in Nat /\ spool' \in Seq(Nat)
    BY <2>1 DEF IInv, TypeOK
  <2> QED
    BY <2>1, <2>2, QuietStep DEF AfterHeader
<1> QED
  BY <1>3, <1>4

(* A payload that verifies restores no more than the record it was read    *)
(* for allows.                                                             *)
LEMMA VerifiedBytes ==
    ASSUME IInv, pc = "payload", Verifies(CurrentPayload, Current)
    PROVE  /\ Current \in Written /\ RecordFits(Current)
           /\ Current.length \in Nat /\ Current.payloadLength \in Nat
           /\ Current.restoredHash \in Seq(Nat)
           /\ Len(Current.restoredHash) \in Nat
           /\ Len(Current.restoredHash) = Current.length
           /\ Len(Current.restoredHash) <= DecoderLimits.blockOutput
<1>1. reread \in Seq(Written) /\ Len(reread) \in 1..Len(reread)
  BY DEF IInv, WordsInv
<1>2. Current \in Written /\ RecordFits(Current)
  BY <1>1 DEF Current, IInv, WordsInv
<1>3. Current.length \in Nat /\ Current.payloadLength \in Nat
  BY <1>2, RecordWord DEF RecordFits, RecordShaped
<1>4. PICK program \in Programs :
         Current.length = Len(Restores[program]) /\ Restores[program] = Current.restoredHash
  BY DEF Verifies, Parses
<1>5. Current.restoredHash \in Seq(Nat) /\ Len(Current.restoredHash) = Current.length
  BY <1>4, Constants
<1> QED
  BY <1>2, <1>3, <1>5 DEF RecordFits

LEMMA ReadPayloadStep == ASSUME IInv, ReadPayload PROVE IInv'
<1>1. CASE Readable(PayloadEnd) /\ Verifies(CurrentPayload, Current)
  <2>1. /\ RecordFits(Current)
        /\ Current.length \in Nat /\ Current.payloadLength \in Nat
        /\ Current.restoredHash \in Seq(Nat)
        /\ Len(Current.restoredHash) \in Nat
        /\ Len(Current.restoredHash) <= DecoderLimits.blockOutput
    BY <1>1, VerifiedBytes DEF ReadPayload
  <2>2. /\ restored' = restored \o Current.restoredHash
        /\ spool' = spool \o Current.restoredHash
        /\ buffered' = [buffered EXCEPT !.restored = Most(@, Len(Current.restoredHash))]
        /\ offset' = offset + Current.length
        /\ position' = position + Current.payloadLength
        /\ pc = "payload" /\ pc' = "blocks" /\ failure' = failure
        /\ UNCHANGED <<file, writes, length, header, directory, reread, nodes>>
    BY <1>1 DEF ReadPayload, Delivered, fileVars
  <2>3. /\ buffered.payload \in Nat /\ buffered.restored \in Nat
        /\ buffered = [payload |-> buffered.payload, restored |-> buffered.restored]
        /\ buffered.payload <= DecoderLimits.blockPayload
        /\ buffered.restored <= DecoderLimits.blockOutput
    BY DEF IInv, WordsInv, AllocationsBounded
  <2>4. /\ buffered' \in [payload : Nat, restored : Nat]
        /\ buffered'.payload <= DecoderLimits.blockPayload
        /\ buffered'.restored <= DecoderLimits.blockOutput
    <3>1. /\ Most(buffered.restored, Len(Current.restoredHash)) \in Nat
          /\ Most(buffered.restored, Len(Current.restoredHash)) <= DecoderLimits.blockOutput
      BY <2>1, <2>3, Constants, MostWithin
    <3> QED
      BY <2>2, <2>3, <3>1
  <2>5. restored' \in Seq(Nat) /\ spool' \in Seq(Nat)
    BY <2>1, <2>2 DEF IInv, TypeOK
  <2>6. offset' \in Nat /\ position' \in Nat
    <3>1. offset \in Nat /\ position \in Nat
      BY DEF IInv, TypeOK
    <3> QED
      BY <2>1, <2>2, <3>1, SumNat
  <2>7. TypeOK'
    BY <2>2, <2>5, <2>6 DEF IInv, TypeOK, Running, HeaderFits, HeaderUnlimited, RecordFits,
       RecordShaped
  <2>8. AllocationsBounded' /\ WordsInv'
    BY <2>2, <2>4 DEF IInv, AllocationsBounded, WordsInv, AfterHeader, RecordFits, RecordShaped
  <2> QED
    BY <2>7, <2>8 DEF IInv
<1>2. CASE ~(Readable(PayloadEnd) /\ Verifies(CurrentPayload, Current))
  <2>1. /\ UNCHANGED <<file, writes, length, header, directory, reread, buffered, restored>>
        /\ pc' = "failed" /\ failure' \in {"format", "io"}
        /\ UNCHANGED <<offset, position, nodes, spool>>
    BY <1>2 DEF ReadPayload, Fail, fileVars
  <2>2. offset' \in Nat /\ position' \in Nat /\ nodes' \in Nat /\ spool' \in Seq(Nat)
    BY <2>1 DEF IInv, TypeOK
  <2> QED
    BY <2>1, <2>2, QuietStep DEF AfterHeader
<1> QED
  BY <1>1, <1>2

LEMMA EndSteps == ASSUME IInv, EndBlocks \/ ReadFooter PROVE IInv'
<1>1. /\ UNCHANGED <<file, writes, length, header, directory, reread, buffered, restored>>
      /\ UNCHANGED <<offset, position, nodes, spool>>
      /\ pc \in {"blocks", "footer"}
      /\ \/ pc' \in {"footer", "accepted"} /\ failure' = failure
         \/ pc' = "failed" /\ failure' = "format"
  BY DEF EndBlocks, ReadFooter, Reject, Fail, fileVars, passVars, outVars
<1>2. offset' \in Nat /\ position' \in Nat /\ nodes' \in Nat /\ spool' \in Seq(Nat)
  BY <1>1 DEF IInv, TypeOK
<1>3. failure = "none"
  BY <1>1 DEF IInv, TypeOK
<1> QED
  BY <1>1, <1>2, <1>3, QuietStep DEF AfterHeader, Running

(* A failing write leaves a part of a verified block in the spool. *)
LEMMA IoErrorStep == ASSUME IInv, IoError PROVE IInv'
<1>1. /\ UNCHANGED <<file, writes, length, header, directory, reread, buffered>>
      /\ UNCHANGED <<offset, position, nodes>>
      /\ pc' = "failed" /\ failure' = "io"
  BY DEF IoError, fileVars, passVars
<1>2. restored' \in Seq(Nat) /\ spool' \in Seq(Nat)
  <2>0. restored \in Seq(Nat) /\ spool \in Seq(Nat)
    BY DEF IInv, TypeOK
  <2>1. CASE UNCHANGED <<restored, spool>>
    BY <2>0, <2>1
  <2>2. CASE ~UNCHANGED <<restored, spool>>
    <3>1. PICK bytes : bytes = Current.restoredHash
      OBVIOUS
    <3>2. /\ pc = "payload" /\ Verifies(CurrentPayload, Current)
          /\ restored' = restored \o bytes
          /\ \E n \in 0..Len(bytes)-1 : spool' = spool \o SubSeq(bytes, 1, n)
      BY <2>2, <3>1 DEF IoError
    <3>3. bytes \in Seq(Nat) /\ Len(bytes) \in Nat
      BY <3>1, <3>2, VerifiedBytes
    <3>4. ASSUME NEW n \in 0..Len(bytes)-1 PROVE SubSeq(bytes, 1, n) \in Seq(Nat)
      BY <3>3
    <3> QED
      BY <2>0, <3>2, <3>3, <3>4
  <2> QED
    BY <2>1, <2>2
<1>3. TypeOK'
  BY <1>1, <1>2 DEF IInv, TypeOK, Running, RecordFits, RecordShaped
<1>4. AllocationsBounded' /\ WordsInv'
  BY <1>1 DEF IInv, AllocationsBounded, WordsInv, AfterHeader, RecordFits, RecordShaped
<1> QED
  BY <1>3, <1>4 DEF IInv

LEMMA StepIInv == IInv /\ [Next]_vars => IInv'
<1> SUFFICES ASSUME IInv, [Next]_vars PROVE IInv'
  OBVIOUS
<1>1. CASE UNCHANGED vars
  <2>1. TypeOK'
    BY <1>1 DEF vars, fileVars, passVars, outVars, IInv, TypeOK, HeaderFits, HeaderUnlimited,
       RecordFits, RecordShaped
  <2>2. AllocationsBounded' /\ WordsInv'
    BY <1>1 DEF vars, fileVars, passVars, outVars, IInv, AllocationsBounded, WordsInv, RecordFits,
       RecordShaped
  <2> QED
    BY <2>1, <2>2 DEF IInv
<1>2. CASE FirstPass
  BY <1>2, OpenStep, ReadHeaderStep, ReadRecordStep, EndDirectoryStep DEF FirstPass
<1>3. CASE SecondPass
  BY <1>3, RereadRecordStep, ReadPayloadStep, EndSteps DEF SecondPass
<1>4. CASE Rewrite \/ IoError
  BY <1>4, RewriteStep, IoErrorStep
<1> QED
  BY <1>1, <1>2, <1>3, <1>4 DEF Next, Decoder

(* decode_archive_stream never holds more than the limits allow for one    *)
(* payload and one restored block: the lengths it allocates by are checked *)
(* in both passes, so a file rewritten between them cannot enlarge either. *)
THEOREM BoundedMemory == Spec => []MemoryIsBounded
<1>1. IInv => MemoryIsBounded
  BY DEF IInv, MemoryIsBounded
<1> QED
  BY <1>1, InitIInv, StepIInv, PTL DEF Spec

--------------------------------------------------------------------------------
(* What the two passes know of the archive.                                *)

SecondPassed == {"blocks", "payload", "footer", "accepted"}

(* Where the first k records of a directory end. *)
OffsetOf(records, k) == IF k = 0 THEN 0 ELSE records[k].offset + records[k].length
EndOf(records, k) ==
    IF k = 0 THEN header.payloadOffset ELSE records[k].payloadOffset + records[k].payloadLength
NodesOf(records) == [i \in 1..Len(records) |-> records[i].nodes]
Promised(records, k) == FlattenSeq([i \in 1..k |-> records[i].restoredHash])

(* Blocks whose payload was read, and what was read of one. *)
Completed == IF pc = "payload" THEN Len(reread) - 1 ELSE Len(reread)
Kept(record) ==
    LET start == record.payloadOffset - header.payloadOffset
    IN /\ start >= 0
       /\ start + record.payloadLength <= Len(payload)
       /\ Verifies(SubSeq(payload, start + 1, start + record.payloadLength), record)

HeaderInv ==
    /\ pc \notin {"open", "failed"} => length <= DecoderLimits.archive /\ length >= MinArchive
    /\ pc \in AfterHeader => HeaderFits(header, length)
    /\ pc \in {"open", "header"} => directory = <<>> /\ offset = 0 /\ nodes = 0
    /\ pc \in {"open", "header", "directory"} =>
         reread = <<>> /\ payload = <<>> /\ restored = <<>> /\ spool = <<>>

FirstInv ==
    /\ pc \in AfterHeader => RecordsTile(header, directory)
    /\ pc = "directory" => /\ offset = OffsetOf(directory, Len(directory))
                           /\ position = EndOf(directory, Len(directory))
                           /\ nodes = Total(NodesOf(directory))
    /\ pc \in SecondPassed =>
         /\ Len(directory) = header.blockCount
         /\ IF header.blockCount = 0 THEN EmptyHeader(header)
            ELSE header.originalSize > 0 /\ RecordsAddUp(header, directory)

SecondInv ==
    pc \in SecondPassed =>
        /\ \A i \in 1..Len(reread) : reread[i].payloadOffset = EndOf(reread, i - 1)
        /\ payload \in Seq(Written)
        /\ position = EndOf(reread, Completed)
        /\ position = header.payloadOffset + Len(payload)
        /\ \A i \in 1..Completed : Kept(reread[i])
        /\ restored = Promised(reread, Completed)
        /\ pc \in {"footer", "accepted"} => reread = directory /\ header.originalHash = restored

SpoolInv ==
    /\ Promised(reread, Len(reread)) \in Seq(Nat)
    /\ IsPrefix(spool, Promised(reread, Len(reread)))
    /\ pc # "failed" => spool = restored

FinalInv ==
    pc = "accepted" =>
        footer \in Written /\ FooterMatches(footer, directory, payload, Prefix, length)

DecodeInv == HeaderInv /\ FirstInv /\ SecondInv /\ SpoolInv /\ FinalInv
--------------------------------------------------------------------------------
LEMMA PromisedNone == ASSUME NEW records PROVE Promised(records, 0) = <<>>
<1>1. [i \in 1..0 |-> records[i].restoredHash] = <<>>
  OBVIOUS
<1> QED
  BY <1>1, FlattenEmpty DEF Promised

LEMMA PromisedSame ==
    ASSUME NEW a, NEW b, NEW k \in Nat, \A i \in 1..k : a[i] = b[i]
    PROVE  Promised(a, k) = Promised(b, k)
<1>1. [i \in 1..k |-> a[i].restoredHash] = [i \in 1..k |-> b[i].restoredHash]
  OBVIOUS
<1> QED
  BY <1>1 DEF Promised

LEMMA PromisedNext ==
    ASSUME NEW records, NEW k \in Nat, records[k + 1].restoredHash \in Seq(Nat),
           Promised(records, k) \in Seq(Nat)
    PROVE  /\ Promised(records, k + 1) = Promised(records, k) \o records[k + 1].restoredHash
           /\ Promised(records, k + 1) \in Seq(Nat)
<1> DEFINE a == [i \in 1..k |-> records[i].restoredHash]
           b == [i \in 1..k+1 |-> records[i].restoredHash]
<1>1. Len(a) = k /\ Len(b) = k + 1 /\ b[k + 1] = records[k + 1].restoredHash
      /\ \A i \in 1..k : b[i] = a[i]
  OBVIOUS
<1>2. Promised(records, k) = FlattenSeq(a) /\ Promised(records, k + 1) = FlattenSeq(b)
  BY DEF Promised
<1> HIDE DEF a, b
<1>3. Promised(records, k + 1) = Promised(records, k) \o records[k + 1].restoredHash
  <2>1. CASE k = 0
    <3>1. Promised(records, k + 1) = records[k + 1].restoredHash
      BY <1>1, <1>2, <2>1, FlattenOne
    <3>2. Promised(records, k) = <<>>
      BY <2>1, PromisedNone
    <3> QED
      BY <3>1, <3>2, ConcatEmptySeq
  <2>2. CASE k # 0
    BY <1>1, <1>2, <2>2, FlattenAppend
  <2> QED
    BY <2>1, <2>2
<1> QED
  BY <1>3, ConcatProperties

LEMMA PrefixSelf == ASSUME NEW s \in Seq(Nat) PROVE IsPrefix(s, s)
BY DEF IsPrefix

LEMMA PrefixConcat ==
    ASSUME NEW s \in Seq(Nat), NEW t \in Seq(Nat), NEW n \in 0..Len(t)
    PROVE  IsPrefix(s \o SubSeq(t, 1, n), s \o t)
<1> DEFINE part == SubSeq(t, 1, n)
           short == s \o part
           long == s \o t
<1>1. Len(s) \in Nat /\ Len(t) \in Nat /\ n \in Nat /\ n <= Len(t)
      /\ \A i \in 1..n : t[i] \in Nat
  OBVIOUS
<1>2. part \in Seq(Nat) /\ Len(part) = n /\ \A i \in 1..n : part[i] = t[i]
  <2>1. /\ part \in Seq(Nat) /\ Len(part) = IF 1 <= n THEN n - 1 + 1 ELSE 0
        /\ \A i \in 1 .. n-1+1 : part[i] = t[1+i-1]
    BY <1>1, SubSeqProperties
  <2> QED
    BY <1>1, <2>1
<1> HIDE DEF part
<1>3. /\ short \in Seq(Nat) /\ Len(short) = Len(s) + n
      /\ \A i \in 1..Len(s)+n : short[i] = IF i <= Len(s) THEN s[i] ELSE part[i - Len(s)]
  BY <1>1, <1>2, ConcatProperties
<1>4. /\ long \in Seq(Nat) /\ Len(long) = Len(s) + Len(t)
      /\ \A i \in 1..Len(s)+Len(t) : long[i] = IF i <= Len(s) THEN s[i] ELSE t[i - Len(s)]
  BY <1>1, ConcatProperties
<1> HIDE DEF short, long
<1>5. ASSUME NEW i \in 1..Len(s)+n PROVE short[i] = long[i]
  <2>1. i \in 1..Len(s)+Len(t) /\ (~(i <= Len(s)) => i - Len(s) \in 1..n)
    BY <1>1
  <2> QED
    BY <1>2, <1>3, <1>4, <2>1
<1>6. SubSeq(short, 1, Len(short)) = short
  BY <1>3, SubSeqFull
<1>7. SubSeq(long, 1, Len(short)) = short
  <2> DEFINE m == Len(s) + n
             cut == SubSeq(long, 1, m)
  <2>1. m \in Nat /\ m <= Len(long) /\ \A i \in 1..m : long[i] \in Nat
    BY <1>1, <1>4
  <2>2. /\ cut \in Seq(Nat) /\ Len(cut) = IF 1 <= m THEN m - 1 + 1 ELSE 0
        /\ \A i \in 1 .. m-1+1 : cut[i] = long[1+i-1]
    <3> HIDE DEF m
    <3> QED
      BY <2>1, SubSeqProperties
  <2>3. Len(cut) = m /\ \A i \in 1..m : cut[i] = long[i]
    <3> HIDE DEF m, cut
    <3> QED
      BY <2>1, <2>2
  <2> HIDE DEF cut
  <2>4. cut = short
    BY <1>3, <1>5, <2>2, <2>3, SeqEqual
  <2> QED
    BY <1>3, <2>4 DEF cut
<1> QED
  BY <1>1, <1>3, <1>4, <1>6, <1>7 DEF IsPrefix, short, long, part

(* The parts of a concatenation. *)
LEMMA ConcatOf ==
    ASSUME NEW S, NEW a \in Seq(S), NEW b \in Seq(S)
    PROVE  /\ Len(a) \in Nat /\ Len(b) \in Nat
           /\ a \o b \in Seq(S) /\ Len(a \o b) = Len(a) + Len(b)
           /\ SubSeq(a \o b, 1, Len(a)) = a
           /\ SubSeq(a \o b, Len(a) + 1, Len(a) + Len(b)) = b
           /\ \A i \in 1..Len(a) : (a \o b)[i] = a[i]
           /\ \A i \in 1..Len(b) : (a \o b)[Len(a) + i] = b[i]
<1>0. PICK n, m : n = Len(a) /\ m = Len(b)
  OBVIOUS
<1>1. n \in Nat /\ m \in Nat
  BY <1>0
<1>2. /\ a \o b \in Seq(S) /\ Len(a \o b) = n + m
      /\ \A i \in 1..n+m : (a \o b)[i] = IF i <= n THEN a[i] ELSE b[i - n]
  BY <1>0, ConcatProperties
<1>3. SubSeq(a \o b, 1, n) = a
  <2>1. CASE n = 0
    <3>1. SubSeq(a \o b, 1, n) = <<>>
      BY <2>1, SubSeqEmpty
    <3> QED
      BY <1>0, <2>1, <3>1, EmptySeq
  <2>2. CASE n # 0
    <3>1. 1 \in 1..Len(a) /\ n \in 1..Len(a)
      BY <1>0, <1>1, <2>2
    <3>2. SubSeq(a \o b, 1, n) = SubSeq(a, 1, n)
      BY <3>1, SubSeqOfConcat1
    <3> QED
      BY <1>0, <3>2, SubSeqFull
  <2> QED
    BY <2>1, <2>2
<1>4. SubSeq(a \o b, n + 1, n + m) = b
  <2>1. CASE m = 0
    <3>1. n + 1 \in Int /\ n + m \in Int /\ n + m < n + 1
      BY <1>1, <2>1
    <3>2. SubSeq(a \o b, n + 1, n + m) = <<>>
      BY <3>1, SubSeqEmpty
    <3> QED
      BY <1>0, <2>1, <3>2, EmptySeq
  <2>2. CASE m # 0
    <3>0. PICK i, j : i = n + 1 /\ j = n + m
      OBVIOUS
    <3>1. /\ i \in Len(a)+1 .. Len(a)+Len(b) /\ j \in Len(a)+1 .. Len(a)+Len(b)
          /\ i - Len(a) = 1 /\ j - Len(a) = m
      BY <1>0, <1>1, <2>2, <3>0
    <3>2. SubSeq(a \o b, i, j) = SubSeq(b, 1, m)
      BY <3>1, SubSeqOfConcat2
    <3> QED
      BY <1>0, <3>0, <3>2, SubSeqFull
  <2> QED
    BY <2>1, <2>2
<1>5. \A i \in 1..n : (a \o b)[i] = a[i]
  BY <1>1, <1>2
<1>6. ASSUME NEW i \in 1..m PROVE (a \o b)[n + i] = b[i]
  <2>0. PICK k : k = n + i
    OBVIOUS
  <2>1. k \in 1..n+m /\ ~(k <= n) /\ k - n = i
    BY <1>1, <2>0
  <2> QED
    BY <1>2, <2>0, <2>1
<1> QED
  BY <1>0, <1>1, <1>2, <1>3, <1>4, <1>5, <1>6

LEMMA ConcatParts ==
    ASSUME NEW a \in Seq(Written), NEW b \in Seq(Written)
    PROVE  /\ Len(a) \in Nat /\ Len(b) \in Nat
           /\ a \o b \in Seq(Written) /\ Len(a \o b) = Len(a) + Len(b)
           /\ SubSeq(a \o b, 1, Len(a)) = a
           /\ SubSeq(a \o b, Len(a) + 1, Len(a) + Len(b)) = b
           /\ \A i \in 1..Len(a) : (a \o b)[i] = a[i]
           /\ \A i \in 1..Len(b) : (a \o b)[Len(a) + i] = b[i]
BY ConcatOf

LEMMA InitDecode == Init => DecodeInv
<1> SUFFICES ASSUME Init PROVE DecodeInv
  OBVIOUS
<1>1. HeaderInv /\ FirstInv /\ SecondInv /\ FinalInv
  BY DEF Init, HeaderInv, FirstInv, SecondInv, FinalInv, AfterHeader, SecondPassed
<1>2. SpoolInv
  <2>1. reread = <<>> /\ spool = <<>> /\ restored = <<>> /\ Len(reread) = 0
    BY DEF Init
  <2>2. Promised(reread, Len(reread)) = <<>>
    BY <2>1, PromisedNone
  <2>3. <<>> \in Seq(Nat)
    OBVIOUS
  <2> QED
    BY <2>1, <2>2, <2>3, PrefixSelf DEF SpoolInv
<1> QED
  BY <1>1, <1>2 DEF DecodeInv

(* A call that failed has only its spool to answer for. *)
LEMMA FailedDecode ==
    ASSUME DecodeInv, pc' = "failed", UNCHANGED <<reread, spool>>
    PROVE  DecodeInv'
BY DEF DecodeInv, HeaderInv, FirstInv, SecondInv, SpoolInv, FinalInv, Promised, AfterHeader,
   SecondPassed

(* A step that only other processes take. *)
LEMMA StillDecode ==
    ASSUME DecodeInv, UNCHANGED <<pc, length, header, directory, reread, payload, footer,
                                  offset, position, nodes, restored, spool>>
    PROVE  DecodeInv'
<1>1. HeaderInv' /\ SpoolInv'
  BY DEF DecodeInv, HeaderInv, SpoolInv, Promised, HeaderFits, HeaderUnlimited
<1>2. FirstInv'
  BY DEF DecodeInv, FirstInv, OffsetOf, EndOf, NodesOf, RecordsTile, RecordsAddUp, EmptyHeader,
     RecordFits, RecordShaped
<1>3. SecondInv'
  BY DEF DecodeInv, SecondInv, Promised, EndOf, Completed, Kept
<1>4. FinalInv'
  BY DEF DecodeInv, FinalInv, FooterMatches, Prefix
<1> QED
  BY <1>1, <1>2, <1>3, <1>4 DEF DecodeInv

LEMMA OpenDecode == ASSUME IInv, DecodeInv, Open PROVE DecodeInv'
<1>1. CASE pc' = "failed"
  BY <1>1, FailedDecode DEF Open, outVars
<1>2. CASE pc' # "failed"
  <2>1. /\ pc = "open" /\ pc' = "header" /\ length' = Len(file)
        /\ Len(file) <= DecoderLimits.archive /\ Len(file) >= MinArchive
        /\ UNCHANGED <<directory, reread, payload, offset, nodes, restored, spool>>
    BY <1>2 DEF Open, Reject, Fail, outVars, passVars
  <2>2. HeaderInv' /\ FirstInv' /\ SecondInv' /\ FinalInv'
    BY <2>1 DEF DecodeInv, HeaderInv, FirstInv, SecondInv, FinalInv, AfterHeader, SecondPassed
  <2>3. SpoolInv'
    BY <2>1 DEF DecodeInv, SpoolInv, Promised
  <2> QED
    BY <2>2, <2>3 DEF DecodeInv
<1> QED
  BY <1>1, <1>2

LEMMA ReadHeaderDecode == ASSUME IInv, DecodeInv, ReadHeader PROVE DecodeInv'
<1>1. CASE pc' = "failed"
  BY <1>1, FailedDecode DEF ReadHeader, outVars
<1>2. CASE pc' # "failed"
  <2>1. /\ pc = "header" /\ pc' = "directory"
        /\ HeaderFits(file[1], length) /\ header' = file[1]
        /\ position' = file[1].payloadOffset
        /\ UNCHANGED <<length, directory, reread, payload, offset, nodes, restored, spool>>
    BY <1>2 DEF ReadHeader, Reject, Fail, outVars
  <2>2. directory = <<>> /\ offset = 0 /\ nodes = 0
    BY <2>1 DEF DecodeInv, HeaderInv
  <2>3. HeaderInv'
    BY <2>1 DEF DecodeInv, HeaderInv, HeaderFits, HeaderUnlimited
  <2>4. FirstInv'
    <3>1. directory' = <<>> /\ Len(directory') = 0 /\ 1..0 = {}
      BY <2>1, <2>2
    <3>2. Total(NodesOf(directory'))  = 0
      <4>1. NodesOf(directory') = <<>>
        BY <3>1 DEF NodesOf
      <4> QED
        BY <4>1, TotalEmpty
    <3> QED
      BY <2>1, <2>2, <3>1, <3>2 DEF FirstInv, RecordsTile, OffsetOf, EndOf, SecondPassed, NodesOf
  <2>5. SpoolInv' /\ SecondInv' /\ FinalInv'
    BY <2>1 DEF DecodeInv, SpoolInv, Promised, SecondInv, FinalInv, SecondPassed
  <2> QED
    BY <2>3, <2>4, <2>5 DEF DecodeInv
<1> QED
  BY <1>1, <1>2

LEMMA ReadRecordDecode == ASSUME IInv, DecodeInv, ReadRecord PROVE DecodeInv'
<1> DEFINE n == Len(directory)
<1>0. n \in Nat /\ directory \in Seq(Written) /\ HeaderWords + n + 1 \in Nat \ {0}
  BY DEF IInv, WordsInv, HeaderWords
<1>1. CASE pc' = "failed"
  BY <1>1, FailedDecode DEF ReadRecord, outVars
<1>2. CASE pc' # "failed"
  <2>1. PICK word : word = file[HeaderWords + n + 1]
    OBVIOUS
  <2>2. /\ pc = "directory" /\ pc' = "directory"
        /\ Readable(HeaderWords + n + 1)
        /\ RecordFits(word) /\ word.length > 0 /\ Contiguous(word)
        /\ directory' = Append(directory, word)
        /\ offset' = offset + word.length
        /\ position' = position + word.payloadLength
        /\ nodes' = nodes + word.nodes
        /\ UNCHANGED <<length, header, reread, payload, restored, spool>>
    BY <1>2, <2>1 DEF ReadRecord, Fail, outVars
  <2>3. word \in Written
    BY <1>0, <2>1, <2>2, FileWord DEF IInv
  <2>4. /\ Len(directory') = n + 1 /\ directory'[n + 1] = word
        /\ \A i \in 1..n : directory'[i] = directory[i]
    BY <1>0, <2>2, <2>3, AppendIs
  <2>5. /\ RecordsTile(header, directory)
        /\ offset = OffsetOf(directory, n) /\ position = EndOf(directory, n)
        /\ nodes = Total(NodesOf(directory))
    BY <2>2 DEF DecodeInv, FirstInv, AfterHeader
  <2>6. RecordsTile(header', directory')
    <3>1. ASSUME NEW i \in 1..n+1
          PROVE  /\ RecordFits(directory'[i])
                 /\ directory'[i].length > 0
                 /\ directory'[i].offset =
                      IF i = 1 THEN 0 ELSE directory'[i-1].offset + directory'[i-1].length
                 /\ directory'[i].payloadOffset =
                      IF i = 1 THEN header.payloadOffset
                      ELSE directory'[i-1].payloadOffset + directory'[i-1].payloadLength
      <4>1. CASE i = n + 1
        <5>1. i - 1 = n /\ (i = 1 <=> n = 0) /\ (i # 1 => n \in 1..n)
          BY <1>0, <4>1
        <5>2. word.offset = OffsetOf(directory, n) /\ word.payloadOffset = EndOf(directory, n)
          BY <2>2, <2>5 DEF Contiguous
        <5>3. i # 1 => directory'[i-1] = directory[n]
          BY <2>4, <5>1
        <5>4. directory'[i] = word
          BY <2>4, <4>1
        <5> QED
          BY <2>2, <5>1, <5>2, <5>3, <5>4 DEF OffsetOf, EndOf
      <4>2. CASE i # n + 1
        <5>1. i \in 1..n /\ (i # 1 => i - 1 \in 1..n)
          BY <1>0, <4>2
        <5>2. directory'[i] = directory[i] /\ (i # 1 => directory'[i-1] = directory[i-1])
          BY <2>4, <5>1
        <5> QED
          BY <2>5, <5>1, <5>2 DEF RecordsTile
      <4> QED
        BY <4>1, <4>2
    <3>2. header' = header /\ Len(directory') = n + 1
      BY <2>2, <2>4
    <3> QED
      BY <3>1, <3>2 DEF RecordsTile
  <2>7. Total(NodesOf(directory')) = nodes'
    <3>1. /\ Len(NodesOf(directory)) = n /\ Len(NodesOf(directory')) = n + 1
          /\ NodesOf(directory')[n + 1] = word.nodes
      BY <1>0, <2>4 DEF NodesOf
    <3>2. ASSUME NEW i \in 1..n PROVE NodesOf(directory')[i] = NodesOf(directory)[i]
      <4>1. i \in 1..n+1
        BY <1>0
      <4>2. NodesOf(directory')[i] = directory'[i].nodes
        BY <2>4, <4>1 DEF NodesOf
      <4> QED
        BY <2>4, <4>2 DEF NodesOf
    <3> QED
      <4>1. PICK a, b : a = NodesOf(directory) /\ b = NodesOf(directory')
        OBVIOUS
      <4>2. /\ n \in Nat /\ Len(a) = n /\ Len(b) = n + 1 /\ b[n + 1] = word.nodes
            /\ \A i \in 1..n : b[i] = a[i]
        BY <1>0, <3>1, <3>2, <4>1
      <4>3. Total(b) = Total(a) + b[n + 1]
        BY <4>2, TotalAppend
      <4> QED
        BY <2>2, <2>5, <4>1, <4>2, <4>3
  <2>8. /\ offset' = OffsetOf(directory', Len(directory'))
        /\ position' = EndOf(directory, Len(directory))'
    <3>1. n + 1 # 0
      BY <1>0
    <3>2. word.offset = offset /\ word.payloadOffset = position
      BY <2>2 DEF Contiguous
    <3>3. directory'[n + 1].payloadOffset + directory'[n + 1].payloadLength = position'
          /\ directory'[n + 1].offset + directory'[n + 1].length = offset'
      BY <2>2, <2>4, <3>2
    <3>4. Len(directory') # 0 /\ Len(directory') = n + 1
      BY <2>4, <3>1
    <3> QED
      BY <3>1, <3>3, <3>4 DEF OffsetOf, EndOf
  <2>9. HeaderInv' /\ SecondInv' /\ FinalInv' /\ SpoolInv'
    <3>1. AfterHeader # {} /\ pc \in AfterHeader
      BY <2>2 DEF AfterHeader
    <3>2. HeaderInv'
      BY <2>2, <3>1 DEF DecodeInv, HeaderInv, HeaderFits, HeaderUnlimited
    <3>3. SecondInv' /\ FinalInv'
      BY <2>2 DEF SecondInv, FinalInv, SecondPassed
    <3>4. SpoolInv'
      BY <2>2 DEF DecodeInv, SpoolInv, Promised
    <3> QED
      BY <3>2, <3>3, <3>4
  <2>10. FirstInv'
    BY <2>2, <2>4, <2>6, <2>7, <2>8 DEF FirstInv, SecondPassed
  <2> QED
    BY <2>9, <2>10 DEF DecodeInv
<1> QED
  BY <1>1, <1>2

LEMMA EndDirectoryDecode == ASSUME IInv, DecodeInv, EndDirectory PROVE DecodeInv'
<1>1. CASE pc' = "failed"
  BY <1>1, FailedDecode DEF EndDirectory, outVars
<1>2. CASE pc' # "failed"
  <2>1. /\ pc = "directory" /\ Len(directory) = header.blockCount
        /\ pc' = IF header.blockCount = 0 THEN "footer" ELSE "blocks"
        /\ TotalsMatch
        /\ IF header.blockCount = 0 THEN EmptyHeader(header) ELSE header.originalSize > 0
        /\ position' = header.payloadOffset
        /\ UNCHANGED <<length, header, directory, reread, payload, restored, spool>>
    BY <1>2 DEF EndDirectory, Reject, Fail, outVars
  <2>2. /\ reread = <<>> /\ payload = <<>> /\ restored = <<>>
        /\ HeaderFits(header, length) /\ RecordsTile(header, directory)
        /\ directory \in Seq(Written) /\ Len(directory) \in Nat
        /\ header \in Written /\ header.payloadOffset \in Nat
    BY <2>1, HeaderWord DEF DecodeInv, HeaderInv, FirstInv, AfterHeader, IInv, WordsInv
  <2>3. HeaderInv' /\ FinalInv' /\ SpoolInv'
    <3>1. HeaderInv'
      BY <2>1, <2>2 DEF DecodeInv, HeaderInv, HeaderFits, HeaderUnlimited
    <3>2. SpoolInv' /\ FinalInv'
      BY <2>1 DEF DecodeInv, SpoolInv, FinalInv, Promised
    <3> QED
      BY <3>1, <3>2
  <2>4. FirstInv'
    <3>1. header.blockCount # 0 => RecordsAddUp(header, directory)
      <4>1. /\ offset = OffsetOf(directory, Len(directory))
            /\ position = EndOf(directory, Len(directory))
            /\ nodes = Total(NodesOf(directory))
        BY <2>1 DEF DecodeInv, FirstInv
      <4> QED
        BY <2>1, <4>1 DEF RecordsAddUp, TotalsMatch, OffsetOf, EndOf, NodesOf
    <3>2. header' = header /\ directory' = directory /\ pc' # "directory"
      BY <2>1
    <3> QED
      BY <2>1, <2>2, <3>1, <3>2 DEF FirstInv
  <2>5. SecondInv'
    <3>1. reread' = <<>> /\ Len(reread') = 0 /\ payload' = <<>> /\ Len(payload') = 0
          /\ payload' \in Seq(Written) /\ restored' = <<>> /\ header' = header
      BY <2>1, <2>2
    <3>2. Completed' = 0
      BY <2>1, <3>1 DEF Completed
    <3>3. restored' = Promised(reread', 0)
      BY <3>1, PromisedNone
    <3>4. pc' \in {"footer", "accepted"} => directory' = <<>> /\ header'.originalHash = <<>>
      BY <2>1, <2>2, <3>1, EmptySeq DEF EmptyHeader
    <3>5. position' = EndOf(reread, 0)' /\ position' = header'.payloadOffset + Len(payload')
      BY <2>1, <2>2, <3>1 DEF EndOf
    <3> QED
      BY <3>1, <3>2, <3>3, <3>4, <3>5 DEF SecondInv, EndOf
  <2> QED
    BY <2>3, <2>4, <2>5 DEF DecodeInv
<1> QED
  BY <1>1, <1>2

--------------------------------------------------------------------------------
(* The second pass.                                                        *)

LEMMA RereadRecordDecode == ASSUME IInv, DecodeInv, RereadRecord PROVE DecodeInv'
<1>0. PICK n : n = Len(reread)
  OBVIOUS
<1>1. /\ n \in Nat /\ reread \in Seq(Written) /\ HeaderWords + n + 1 \in Nat \ {0}
      /\ spool \in Seq(Nat)
  BY <1>0 DEF IInv, WordsInv, TypeOK, HeaderWords
<1>2. CASE pc' = "failed"
  <2>1. UNCHANGED <<reread, spool>>
    BY <1>2 DEF RereadRecord, Reject, Fail
  <2> QED
    BY <1>2, <2>1, FailedDecode
<1>3. CASE pc' # "failed"
  <2>1. PICK word : word = file[HeaderWords + n + 1]
    OBVIOUS
  <2>2. /\ pc = "blocks" /\ pc' = "payload"
        /\ Readable(HeaderWords + n + 1)
        /\ RecordFits(word) /\ Contiguous(word)
        /\ reread' = Append(reread, word)
        /\ UNCHANGED <<length, header, directory, payload, offset, position, nodes, restored,
                       spool>>
    BY <1>0, <1>3, <2>1 DEF RereadRecord, Reject, Fail, RereadFits, passVars
  <2>3. word \in Written /\ word.restoredHash \in Seq(Nat)
    <3>1. word \in Written
      BY <1>1, <2>1, <2>2, FileWord DEF IInv
    <3> QED
      BY <2>2, <3>1, WordsAssumption DEF RecordFits, RecordShaped
  <2>4. /\ Len(reread') = n + 1 /\ reread'[n + 1] = word
        /\ \A i \in 1..n : reread'[i] = reread[i]
    BY <1>0, <1>1, <2>2, <2>3, AppendIs
  <2>5. /\ \A i \in 1..n : reread[i].payloadOffset = EndOf(reread, i - 1)
        /\ payload \in Seq(Written)
        /\ position = EndOf(reread, n)
        /\ position = header.payloadOffset + Len(payload)
        /\ \A i \in 1..n : Kept(reread[i])
        /\ restored = Promised(reread, n)
    BY <1>0, <2>2 DEF DecodeInv, SecondInv, SecondPassed, Completed
  <2>6. Completed' = n
    BY <1>1, <2>2, <2>4 DEF Completed
  <2>7. Promised(reread', n) = Promised(reread, n)
    BY <1>1, <2>4, PromisedSame
  <2>8. SecondInv'
    <3>1. ASSUME NEW i \in 1..n+1, NEW k, k = i - 1
          PROVE  reread'[i].payloadOffset =
                   IF k = 0 THEN header.payloadOffset
                   ELSE reread'[k].payloadOffset + reread'[k].payloadLength
      <4>1. CASE i = n + 1
        <5>1. k = n /\ (k # 0 => k \in 1..n)
          BY <1>1, <3>1, <4>1
        <5>2. word.payloadOffset = EndOf(reread, n)
          BY <2>2, <2>5 DEF Contiguous
        <5> QED
          BY <2>4, <4>1, <5>1, <5>2 DEF EndOf
      <4>2. CASE i # n + 1
        <5>1. i \in 1..n /\ (k # 0 => k \in 1..n)
          BY <1>1, <3>1, <4>2
        <5>2. reread[i].payloadOffset = EndOf(reread, k)
          BY <2>5, <3>1, <5>1
        <5> QED
          BY <2>4, <5>1, <5>2 DEF EndOf
      <4> QED
        BY <4>1, <4>2
    <3>2. position' = EndOf(reread, Completed)'
      <4>1. n # 0 => n \in 1..n
        BY <1>1
      <4>2. n # 0 => reread'[n] = reread[n]
        BY <2>4, <4>1
      <4> QED
        BY <2>2, <2>5, <2>6, <4>2 DEF EndOf
    <3>3. \A i \in 1..Completed' : Kept(reread[i])'
      BY <2>2, <2>4, <2>5, <2>6 DEF Kept
    <3>4. restored' = Promised(reread', Completed')
      BY <2>2, <2>5, <2>6, <2>7
    <3>5. \A i \in 1..Len(reread') : reread'[i].payloadOffset = EndOf(reread, i - 1)'
      BY <2>2, <2>4, <3>1 DEF EndOf
    <3>6. pc' \notin {"footer", "accepted"} /\ payload' = payload /\ position' = position
          /\ header' = header
      BY <2>2
    <3> QED
      BY <2>5, <3>2, <3>3, <3>4, <3>5, <3>6 DEF SecondInv
  <2>9. SpoolInv'
    <3>1. spool = restored
      BY <2>2 DEF DecodeInv, SpoolInv
    <3>2. restored \in Seq(Nat)
      BY DEF IInv, TypeOK
    <3>3. /\ Promised(reread', n + 1) = restored \o word.restoredHash
          /\ Promised(reread', n + 1) \in Seq(Nat)
      BY <1>1, <2>3, <2>4, <2>5, <2>7, <3>2, PromisedNext
    <3>4. IsPrefix(restored, restored \o word.restoredHash)
      <4>1. 0 \in 0..Len(word.restoredHash)
        BY <2>3
      <4>2. IsPrefix(restored \o SubSeq(word.restoredHash, 1, 0), restored \o word.restoredHash)
        BY <2>3, <3>2, <4>1, PrefixConcat
      <4>3. SubSeq(word.restoredHash, 1, 0) = <<>>
        BY SubSeqEmpty
      <4>4. restored \o <<>> = restored
        BY <3>2, ConcatEmptySeq
      <4> QED
        BY <4>2, <4>3, <4>4
    <3> QED
      BY <2>2, <2>4, <3>1, <3>3, <3>4 DEF SpoolInv
  <2>10. HeaderInv'
    BY <2>2 DEF DecodeInv, HeaderInv, AfterHeader, HeaderFits, HeaderUnlimited
  <2>11. FirstInv'
    BY <2>2 DEF DecodeInv, FirstInv, AfterHeader, SecondPassed, RecordsTile, RecordsAddUp,
       EmptyHeader, RecordFits, RecordShaped
  <2>12. FinalInv'
    BY <2>2 DEF FinalInv
  <2> QED
    BY <2>8, <2>9, <2>10, <2>11, <2>12 DEF DecodeInv
<1> QED
  BY <1>2, <1>3

(* What is read of a payload that verifies. *)
LEMMA CurrentIs ==
    ASSUME IInv, DecodeInv, pc = "payload", NEW n, n = Len(reread)
    PROVE  /\ n \in Nat \ {0} /\ n - 1 \in Nat /\ n - 1 + 1 = n
           /\ Current = reread[n] /\ Current \in Written /\ RecordFits(Current)
           /\ Current.payloadOffset \in Nat /\ Current.payloadLength \in Nat \ {0}
           /\ Current.restoredHash \in Seq(Nat)
           /\ Current.payloadOffset = position
           /\ restored = Promised(reread, n - 1) /\ restored \in Seq(Nat)
           /\ spool = restored
           /\ Promised(reread, n) = restored \o Current.restoredHash
<1>1. reread \in Seq(Written) /\ reread # <<>> /\ n \in Nat \ {0}
  BY EmptySeq DEF IInv, WordsInv
<1>2. Current = reread[n] /\ Current \in Written /\ RecordFits(Current)
  BY <1>1 DEF Current, IInv, WordsInv
<1>3. /\ Current.payloadOffset \in Nat /\ Current.payloadLength \in Nat
      /\ Current.restoredHash \in Seq(Nat)
  BY <1>2, WordsAssumption DEF RecordFits, RecordShaped
<1>4. Current.payloadLength # 0
  BY <1>2, <1>3 DEF RecordFits, RecordShaped, BlockHeaderCells
<1>5. /\ Completed = n - 1
      /\ \A i \in 1..n : reread[i].payloadOffset = EndOf(reread, i - 1)
      /\ position = EndOf(reread, n - 1) /\ restored = Promised(reread, n - 1)
  BY DEF DecodeInv, SecondInv, SecondPassed, Completed
<1>6. n \in 1..n /\ n - 1 \in Nat /\ n - 1 + 1 = n
  BY <1>1
<1>7. restored \in Seq(Nat) /\ spool = restored
  BY DEF IInv, TypeOK, DecodeInv, SpoolInv
<1>8. Promised(reread, n) = restored \o Current.restoredHash
  <2>1. PICK k : k = n - 1
    OBVIOUS
  <2>2. k \in Nat /\ k + 1 = n
    BY <1>6, <2>1
  <2> QED
    BY <1>2, <1>3, <1>5, <1>7, <2>1, <2>2, PromisedNext
<1> QED
  BY <1>1, <1>2, <1>3, <1>4, <1>5, <1>6, <1>7, <1>8

LEMMA CurrentPayloadIs ==
    ASSUME IInv, DecodeInv, pc = "payload", Readable(PayloadEnd)
    PROVE  CurrentPayload \in Seq(Written) /\ Len(CurrentPayload) = Current.payloadLength
<1>1. Current.payloadOffset \in Nat /\ Current.payloadLength \in Nat \ {0}
  BY CurrentIs
<1>2. PICK a, b : a = Current.payloadOffset + 1 /\ b = PayloadEnd
  OBVIOUS
<1>4. file \in Seq(Written) /\ Len(file) \in Nat
  BY DEF IInv, WordsInv
<1>3. a \in Int /\ b \in Int /\ a <= b /\ b - a + 1 = Current.payloadLength
      /\ a >= 1 /\ b <= Len(file)
  <2>1. PICK start, more, last :
          start = Current.payloadOffset /\ more = Current.payloadLength /\ last = Len(file)
    OBVIOUS
  <2>2. start \in Nat /\ more \in Nat \ {0} /\ last \in Nat
    BY <1>1, <1>4, <2>1
  <2>3. a = start + 1 /\ b = start + more /\ b <= last
    BY <1>2, <2>1 DEF PayloadEnd, Readable
  <2>4. a \in Int /\ b \in Int /\ a <= b /\ b - a + 1 = more /\ a >= 1
    BY <2>2, <2>3
  <2> QED
    BY <2>1, <2>3, <2>4
<1>5. \A i \in a..b : file[i] \in Written
  BY <1>3, <1>4
<1>6. SubSeq(file, a, b) \in Seq(Written) /\ Len(SubSeq(file, a, b)) = b - a + 1
  BY <1>3, <1>5, SubSeqProperties
<1> QED
  BY <1>2, <1>3, <1>6 DEF CurrentPayload

LEMMA ReadPayloadDecode == ASSUME IInv, DecodeInv, ReadPayload PROVE DecodeInv'
<1>1. CASE pc' = "failed"
  <2>1. UNCHANGED <<reread, spool>>
    BY <1>1 DEF ReadPayload, Fail
  <2> QED
    BY <1>1, <2>1, FailedDecode
<1>2. CASE pc' # "failed"
  <2>0. PICK n, part, size :
          n = Len(reread) /\ part = CurrentPayload /\ size = Len(payload)
    OBVIOUS
  <2>1. /\ pc = "payload" /\ pc' = "blocks"
        /\ Readable(PayloadEnd) /\ Verifies(part, Current)
        /\ payload' = payload \o part
        /\ restored' = restored \o Current.restoredHash
        /\ spool' = spool \o Current.restoredHash
        /\ position' = position + Current.payloadLength
        /\ UNCHANGED <<length, header, directory, reread, footer>>
    BY <1>2, <2>0 DEF ReadPayload, Fail, Delivered
  <2>2. /\ n \in Nat \ {0} /\ n - 1 \in Nat
        /\ Current = reread[n] /\ Current.payloadLength \in Nat \ {0}
        /\ Current.payloadOffset \in Nat /\ Current.payloadOffset = position
        /\ Current.restoredHash \in Seq(Nat) /\ restored \in Seq(Nat)
        /\ spool = restored /\ Promised(reread, n) = restored \o Current.restoredHash
    BY <2>0, <2>1, CurrentIs
  <2>3. part \in Seq(Written) /\ Len(part) = Current.payloadLength
    BY <2>0, <2>1, CurrentPayloadIs
  <2>4. /\ \A i \in 1..n : reread[i].payloadOffset = EndOf(reread, i - 1)
        /\ payload \in Seq(Written) /\ size \in Nat
        /\ position = header.payloadOffset + size
        /\ \A i \in 1..n-1 : Kept(reread[i])
    BY <2>0, <2>1 DEF DecodeInv, SecondInv, SecondPassed, Completed
  <2>5. header.payloadOffset \in Nat
    BY <2>1, HeaderWord DEF IInv, WordsInv, AfterHeader
  <2>m. PICK more : more = Current.payloadLength
    OBVIOUS
  <2>6. /\ payload' \in Seq(Written) /\ Len(payload') = size + more
        /\ SubSeq(payload', size + 1, size + more) = part
    <3>1. payload \in Seq(Written) /\ part \in Seq(Written)
          /\ size = Len(payload) /\ more = Len(part)
      BY <2>0, <2>3, <2>4, <2>m
    <3>2. /\ payload \o part \in Seq(Written) /\ Len(payload \o part) = size + more
          /\ SubSeq(payload \o part, size + 1, size + more) = part
      BY <3>1, ConcatParts
    <3> QED
      BY <2>1, <3>2
  <2>7. ASSUME NEW i \in 1..n PROVE Kept(reread[i])'
    <3>1. CASE i = n
      <4>1. reread'[i] = Current /\ header' = header
        BY <2>1, <2>2, <3>1
      <4>2. Current.payloadOffset - header.payloadOffset = size
        <5>1. PICK base, start : base = header.payloadOffset /\ start = Current.payloadOffset
          OBVIOUS
        <5>2. base \in Nat /\ size \in Nat /\ start = base + size
          BY <2>2, <2>4, <2>5, <5>1
        <5>3. start - base = size
          BY <5>2
        <5> QED
          BY <5>1, <5>2, <5>3
      <4>3. size >= 0 /\ size + more <= Len(payload')
        BY <2>4, <2>6
      <4> QED
        BY <2>1, <2>6, <2>m, <4>1, <4>2, <4>3 DEF Kept
    <3>2. CASE i # n
      <4>0. i \in 1..n-1 /\ i \in 1..Len(reread)
        BY <2>0, <2>2, <3>2
      <4>1. PICK start, many :
              start = reread[i].payloadOffset - header.payloadOffset
              /\ many = reread[i].payloadLength
        OBVIOUS
      <4>2. /\ start >= 0 /\ start + many <= size
            /\ Verifies(SubSeq(payload, start + 1, start + many), reread[i])
        BY <2>0, <2>4, <4>0, <4>1 DEF Kept
      <4>3. reread[i] \in Written /\ RecordFits(reread[i])
        BY <4>0 DEF IInv, WordsInv
      <4>4. many \in Nat \ {0} /\ start \in Int
        <5>1. reread[i].payloadOffset \in Nat /\ many \in Nat /\ many >= 1
          BY <4>1, <4>3, WordsAssumption DEF RecordFits, RecordShaped, BlockHeaderCells
        <5> QED
          BY <2>5, <4>1, <5>1
      <4>5. start + 1 \in 1..size /\ start + many \in 1..size
        BY <2>4, <4>2, <4>4
      <4>6. SubSeq(payload', start + 1, start + many) = SubSeq(payload, start + 1, start + many)
        BY <2>0, <2>1, <2>3, <2>4, <4>5, SubSeqOfConcat1
      <4>7. start + many <= Len(payload')
        <5>1. more \in Nat /\ start + many \in Int
          BY <2>2, <2>m, <4>4
        <5> QED
          BY <2>4, <2>6, <4>2, <5>1
      <4> QED
        BY <2>1, <4>1, <4>2, <4>6, <4>7 DEF Kept
    <3> QED
      BY <3>1, <3>2
  <2>8. SecondInv'
    <3>1. Completed' = n /\ Len(reread') = n /\ reread' = reread
      BY <2>0, <2>1 DEF Completed
    <3>2. position' = EndOf(reread, Completed)'
      BY <2>1, <2>2, <3>1 DEF EndOf
    <3>3. position' = header'.payloadOffset + Len(payload')
      <4>1. PICK base : base = header.payloadOffset
        OBVIOUS
      <4>2. base \in Nat /\ size \in Nat /\ more \in Nat /\ position' = (base + size) + more
        BY <2>1, <2>2, <2>4, <2>5, <2>m, <4>1
      <4>3. (base + size) + more = base + (size + more)
        BY <4>2
      <4> QED
        BY <2>1, <2>6, <4>1, <4>2, <4>3
    <3>4. restored' = Promised(reread', Completed')
      BY <2>1, <2>2, <3>1
    <3>5. \A i \in 1..Len(reread') : reread'[i].payloadOffset = EndOf(reread, i - 1)'
      BY <2>1, <2>4, <3>1 DEF EndOf
    <3>6. \A i \in 1..Completed' : Kept(reread[i])'
      BY <2>7, <3>1
    <3> QED
      BY <2>1, <2>6, <3>2, <3>3, <3>4, <3>5, <3>6 DEF SecondInv
  <2>9. SpoolInv'
    <3>1. spool' = restored' /\ reread' = reread /\ Promised(reread', Len(reread')) = spool'
      BY <2>0, <2>1, <2>2
    <3>2. spool' \in Seq(Nat)
      BY <2>1, <2>2, ConcatProperties
    <3> QED
      BY <3>1, <3>2, PrefixSelf DEF SpoolInv
  <2>10. HeaderInv'
    BY <2>1 DEF DecodeInv, HeaderInv, AfterHeader, HeaderFits, HeaderUnlimited
  <2>11. FirstInv'
    BY <2>1 DEF DecodeInv, FirstInv, AfterHeader, SecondPassed, RecordsTile, RecordsAddUp,
       EmptyHeader, RecordFits, RecordShaped
  <2>12. FinalInv'
    BY <2>1 DEF FinalInv
  <2> QED
    BY <2>8, <2>9, <2>10, <2>11, <2>12 DEF DecodeInv
<1> QED
  BY <1>1, <1>2

LEMMA EndBlocksDecode == ASSUME IInv, DecodeInv, EndBlocks PROVE DecodeInv'
<1>1. CASE pc' = "failed"
  BY <1>1, FailedDecode DEF EndBlocks, outVars
<1>2. CASE pc' # "failed"
  <2>1. /\ pc = "blocks" /\ pc' = "footer" /\ reread = directory
        /\ header.originalHash = restored
        /\ UNCHANGED <<length, header, directory, reread, payload, position, restored, spool>>
    BY <1>2 DEF EndBlocks, Reject, Fail, DirectoryUnchanged, passVars, outVars
  <2>2. HeaderInv' /\ SpoolInv' /\ FinalInv'
    BY <2>1 DEF DecodeInv, HeaderInv, SpoolInv, FinalInv, Promised, AfterHeader, HeaderFits,
       HeaderUnlimited
  <2>3. FirstInv'
    BY <2>1 DEF DecodeInv, FirstInv, AfterHeader, SecondPassed, RecordsTile, RecordsAddUp,
       EmptyHeader, RecordFits, RecordShaped
  <2>4. SecondInv'
    BY <2>1 DEF DecodeInv, SecondInv, SecondPassed, Completed, Promised, EndOf, Kept
  <2> QED
    BY <2>2, <2>3, <2>4 DEF DecodeInv
<1> QED
  BY <1>1, <1>2

LEMMA ReadFooterDecode == ASSUME IInv, DecodeInv, ReadFooter PROVE DecodeInv'
<1>1. CASE pc' = "failed"
  BY <1>1, FailedDecode DEF ReadFooter, outVars
<1>2. CASE pc' # "failed"
  <2>0. PICK at : at = header.footerOffset + 1
    OBVIOUS
  <2>1. /\ pc = "footer" /\ pc' = "accepted"
        /\ Readable(at) /\ footer' = file[at] /\ FooterFits(file[at])
        /\ UNCHANGED <<length, header, directory, reread, payload, position, restored, spool>>
    BY <1>2, <2>0 DEF ReadFooter, Reject, Fail, passVars, outVars
  <2>2. HeaderInv' /\ SpoolInv'
    BY <2>1 DEF DecodeInv, HeaderInv, SpoolInv, Promised, AfterHeader, HeaderFits,
       HeaderUnlimited
  <2>3. FirstInv'
    BY <2>1 DEF DecodeInv, FirstInv, AfterHeader, SecondPassed, RecordsTile, RecordsAddUp,
       EmptyHeader, RecordFits, RecordShaped
  <2>4. SecondInv'
    BY <2>1 DEF DecodeInv, SecondInv, SecondPassed, Completed, Promised, EndOf, Kept
  <2>5. FinalInv'
    <3>1. at \in Nat \ {0}
      <4>1. header.footerOffset \in Nat
        BY <2>1, WordsAssumption DEF IInv, WordsInv, AfterHeader
      <4> QED
        BY <2>0, <4>1
    <3>2. footer' \in Written
      BY <2>1, <3>1, FileWord DEF IInv
    <3> QED
      BY <2>1, <3>2 DEF FinalInv, FooterFits, FooterMatches, Prefix
  <2> QED
    BY <2>2, <2>3, <2>4, <2>5 DEF DecodeInv
<1> QED
  BY <1>1, <1>2

LEMMA IoErrorDecode == ASSUME IInv, DecodeInv, IoError PROVE DecodeInv'
<1>1. pc' = "failed" /\ UNCHANGED reread
  BY DEF IoError
<1>2. CASE UNCHANGED spool
  BY <1>1, <1>2, FailedDecode
<1>3. CASE ~UNCHANGED spool
  <2>0. PICK n, hash : n = Len(reread) /\ hash = Current.restoredHash
    OBVIOUS
  <2>1. pc = "payload" /\ \E k \in 0..Len(hash)-1 : spool' = spool \o SubSeq(hash, 1, k)
    BY <1>3, <2>0 DEF IoError
  <2>2. /\ hash \in Seq(Nat) /\ restored \in Seq(Nat) /\ spool = restored
        /\ Promised(reread, n) = restored \o hash
    BY <2>0, <2>1, CurrentIs
  <2>3. PICK k \in 0..Len(hash)-1 : spool' = spool \o SubSeq(hash, 1, k)
    BY <2>1
  <2>4. k \in 0..Len(hash)
    BY <2>2
  <2>5. IsPrefix(spool', Promised(reread', Len(reread')))
    BY <1>1, <2>0, <2>2, <2>3, <2>4, PrefixConcat
  <2>6. SpoolInv'
    BY <1>1, <2>5 DEF DecodeInv, SpoolInv, Promised
  <2> QED
    BY <1>1, <2>6 DEF DecodeInv, HeaderInv, FirstInv, SecondInv, FinalInv, AfterHeader,
       SecondPassed
<1> QED
  BY <1>2, <1>3

LEMMA StepDecode == IInv /\ DecodeInv /\ [Next]_vars => DecodeInv'
<1> SUFFICES ASSUME IInv, DecodeInv, [Next]_vars PROVE DecodeInv'
  OBVIOUS
<1>1. CASE UNCHANGED vars
  BY <1>1, StillDecode DEF vars
<1>2. CASE Rewrite
  BY <1>2, StillDecode DEF Rewrite, passVars, outVars
<1>3. CASE FirstPass
  BY <1>3, OpenDecode, ReadHeaderDecode, ReadRecordDecode, EndDirectoryDecode DEF FirstPass
<1>4. CASE SecondPass
  BY <1>4, RereadRecordDecode, ReadPayloadDecode, EndBlocksDecode, ReadFooterDecode
     DEF SecondPass
<1>5. CASE IoError
  BY <1>5, IoErrorDecode
<1> QED
  BY <1>1, <1>2, <1>3, <1>4, <1>5 DEF Next, Decoder

LEMMA Decoded == Spec => [](IInv /\ DecodeInv)
<1>1. Init => IInv /\ DecodeInv
  BY InitIInv, InitDecode
<1>2. (IInv /\ DecodeInv) /\ [Next]_vars => (IInv /\ DecodeInv)'
  BY StepIInv, StepDecode
<1> QED
  BY <1>1, <1>2, PTL DEF Spec

--------------------------------------------------------------------------------
(* What is accepted is one archive.                                        *)

(* The parts of the archive that was read. *)
(* An archive and its parts, whatever its words are. *)
ArchiveParts(S, first, records, cells, last, prefix, whole, n, m) ==
    /\ whole \in Seq(S)
    /\ Len(whole) = n + m + 2
    /\ whole[1] = first /\ whole[n + m + 2] = last
    /\ SubSeq(whole, 2, n + 1) = records
    /\ SubSeq(whole, n + 2, n + 1 + m) = cells
    /\ SubSeq(whole, 1, n + 1 + m) = prefix
    /\ \A start \in Nat, many \in Nat \ {0} : start + many <= m =>
         SubSeq(whole, n + 1 + start + 1, n + 1 + start + many)
           = SubSeq(cells, start + 1, start + many)

LEMMA WholeIs ==
    ASSUME NEW S, NEW first \in S, NEW last \in S, NEW records \in Seq(S), NEW cells \in Seq(S),
           NEW prefix, prefix = <<first>> \o records \o cells,
           NEW whole, whole = prefix \o <<last>>,
           NEW n \in Nat, NEW m \in Nat, n = Len(records), m = Len(cells)
    PROVE  ArchiveParts(S, first, records, cells, last, prefix, whole, n, m)
<1>0. \A x \in Seq(S), y \in Seq(S) :
        /\ x \o y \in Seq(S) /\ Len(x \o y) = Len(x) + Len(y)
        /\ SubSeq(x \o y, 1, Len(x)) = x
        /\ SubSeq(x \o y, Len(x) + 1, Len(x) + Len(y)) = y
        /\ \A i \in 1..Len(x) : (x \o y)[i] = x[i]
        /\ \A i \in 1..Len(y) : (x \o y)[Len(x) + i] = y[i]
  BY ConcatOf
<1>1. PICK a, p : a = <<first>> \o records /\ p = a \o cells
  OBVIOUS
<1>2. prefix = p /\ whole = p \o <<last>>
  BY <1>1
<1>3. /\ <<first>> \in Seq(S) /\ Len(<<first>>) = 1 /\ <<first>>[1] = first
      /\ <<last>> \in Seq(S) /\ Len(<<last>>) = 1 /\ <<last>>[1] = last
  OBVIOUS
<1>4. /\ a \in Seq(S) /\ Len(a) = 1 + n /\ a[1] = first
      /\ SubSeq(a, 1 + 1, 1 + n) = records
  <2>1. PICK h : h = <<first>>
    OBVIOUS
  <2>2. h \in Seq(S) /\ Len(h) = 1 /\ h[1] = first /\ a = h \o records
    BY <1>1, <1>3, <2>1
  <2>3. /\ h \o records \in Seq(S) /\ Len(h \o records) = Len(h) + Len(records)
        /\ SubSeq(h \o records, Len(h) + 1, Len(h) + Len(records)) = records
        /\ \A i \in 1..Len(h) : (h \o records)[i] = h[i]
    BY <2>2, <1>0
  <2>4. 1 \in 1..Len(h)
    BY <2>2
  <2> QED
    BY <2>2, <2>3, <2>4
<1>5. /\ p \in Seq(S) /\ Len(p) = 1 + n + m
      /\ SubSeq(p, 1, 1 + n) = a
      /\ SubSeq(p, 1 + n + 1, 1 + n + m) = cells
      /\ \A i \in 1..1+n : p[i] = a[i]
  <2>1. /\ a \o cells \in Seq(S) /\ Len(a \o cells) = Len(a) + Len(cells)
        /\ SubSeq(a \o cells, 1, Len(a)) = a
        /\ SubSeq(a \o cells, Len(a) + 1, Len(a) + Len(cells)) = cells
        /\ \A i \in 1..Len(a) : (a \o cells)[i] = a[i]
    BY <1>4, <1>0
  <2> QED
    BY <1>1, <1>4, <2>1
<1>6. /\ whole \in Seq(S) /\ Len(whole) = 1 + n + m + 1
      /\ SubSeq(whole, 1, 1 + n + m) = p
      /\ \A i \in 1..1+n+m : whole[i] = p[i]
      /\ whole[1 + n + m + 1] = last
  <2>1. PICK f : f = <<last>>
    OBVIOUS
  <2>2. f \in Seq(S) /\ Len(f) = 1 /\ f[1] = last /\ whole = p \o f
    BY <1>2, <1>3, <2>1
  <2>3. /\ p \o f \in Seq(S) /\ Len(p \o f) = Len(p) + Len(f)
        /\ SubSeq(p \o f, 1, Len(p)) = p
        /\ \A i \in 1..Len(p) : (p \o f)[i] = p[i]
        /\ \A i \in 1..Len(f) : (p \o f)[Len(p) + i] = f[i]
    BY <1>5, <2>2, <1>0
  <2>4. 1 \in 1..Len(f)
    BY <2>2
  <2> QED
    BY <1>5, <2>2, <2>3, <2>4
<1>7. whole[1] = first
  <2>1. 1 \in 1..1+n+m /\ 1 \in 1..1+n
    OBVIOUS
  <2> QED
    BY <1>4, <1>5, <1>6, <2>1
<1>8. ASSUME NEW i \in Nat \ {0}, NEW j \in Nat \ {0}, i <= 1 + n + m, j <= 1 + n + m
      PROVE  SubSeq(whole, i, j) = SubSeq(p, i, j)
  <2>1. i \in 1..Len(p) /\ j \in 1..Len(p)
    BY <1>5, <1>8
  <2> QED
    BY <1>2, <1>3, <1>5, <2>1, SubSeqOfConcat1
<1>9. SubSeq(whole, 2, n + 1) = records
  <2>1. CASE n = 0
    <3>1. SubSeq(whole, 2, n + 1) = <<>>
      BY <2>1, SubSeqEmpty
    <3> QED
      BY <2>1, <3>1, EmptySeq
  <2>2. CASE n # 0
    <3>1. PICK k : k = n + 1
      OBVIOUS
    <3>2. /\ k \in Nat \ {0} /\ 2 \in Nat \ {0} /\ 2 <= 1 + n + m /\ k <= 1 + n + m
          /\ 2 \in 1..Len(a) /\ k \in 1..Len(a) /\ 1 + n = k
      BY <1>4, <2>2, <3>1
    <3>3. SubSeq(whole, 2, k) = SubSeq(p, 2, k)
      BY <1>8, <3>2
    <3>4. SubSeq(p, 2, k) = SubSeq(a, 2, k)
      BY <1>1, <1>4, <3>2, SubSeqOfConcat1
    <3>5. SubSeq(a, 2, k) = records
      <4>1. 1 + 1 = 2
        OBVIOUS
      <4> QED
        BY <1>4, <3>2, <4>1
    <3> QED
      BY <3>1, <3>3, <3>4, <3>5
  <2> QED
    BY <2>1, <2>2
<1>10. SubSeq(whole, n + 2, n + 1 + m) = cells
  <2>0. PICK i, j : i = n + 2 /\ j = n + 1 + m
    OBVIOUS
  <2>1. i \in Nat \ {0} /\ j \in Nat \ {0} /\ i = 1 + n + 1 /\ j = 1 + n + m
    BY <2>0
  <2>2. SubSeq(p, i, j) = cells
    BY <1>5, <2>1
  <2>3. CASE m = 0
    <3>1. j < i /\ i \in Int /\ j \in Int
      BY <2>0, <2>3
    <3>2. SubSeq(whole, i, j) = <<>>
      BY <3>1, SubSeqEmpty
    <3> QED
      BY <2>0, <2>3, <3>2, EmptySeq
  <2>4. CASE m # 0
    <3>1. i <= 1 + n + m /\ j <= 1 + n + m
      BY <2>1, <2>4
    <3>2. SubSeq(whole, i, j) = SubSeq(p, i, j)
      BY <1>8, <2>1, <3>1
    <3> QED
      BY <2>0, <2>2, <3>2
  <2> QED
    BY <2>3, <2>4
<1>11. ASSUME NEW start \in Nat, NEW many \in Nat \ {0}, start + many <= m
       PROVE  SubSeq(whole, n + 1 + start + 1, n + 1 + start + many)
                = SubSeq(cells, start + 1, start + many)
  <2>0. PICK i, j, x, y : /\ i = n + 1 + start + 1 /\ j = n + 1 + start + many
                          /\ x = start + 1 /\ y = start + many
    OBVIOUS
  <2>1. /\ i \in Nat \ {0} /\ j \in Nat \ {0} /\ i <= 1 + n + m /\ j <= 1 + n + m
        /\ i \in Len(a)+1 .. Len(a)+Len(cells) /\ j \in Len(a)+1 .. Len(a)+Len(cells)
        /\ i - Len(a) = x /\ j - Len(a) = y
    <3>1. Len(a) = 1 + n /\ Len(cells) = m
      BY <1>4
    <3> QED
      BY <1>11, <2>0, <3>1
  <2>2. SubSeq(whole, i, j) = SubSeq(p, i, j)
    BY <1>8, <2>1
  <2>3. SubSeq(p, i, j) = SubSeq(cells, x, y)
    <3>1. SubSeq(a \o cells, i, j) = SubSeq(cells, i - Len(a), j - Len(a))
      BY <1>4, <2>1, SubSeqOfConcat2
    <3> QED
      BY <1>1, <2>1, <3>1
  <2> QED
    BY <2>0, <2>2, <2>3
<1>12. 1 + n + m + 1 = n + m + 2 /\ 1 + n + m = n + 1 + m
  OBVIOUS
<1> QED
  BY <1>2, <1>6, <1>7, <1>9, <1>10, <1>11, <1>12 DEF ArchiveParts

LEMMA ObservedIs ==
    ASSUME header \in Written, footer \in Written,
           directory \in Seq(Written), payload \in Seq(Written),
           NEW n \in Nat, NEW m \in Nat, n = Len(directory), m = Len(payload)
    PROVE  /\ Observed \in Seq(Written)
           /\ Len(Observed) = n + m + 2
           /\ Observed[1] = header /\ Observed[n + m + 2] = footer
           /\ SubSeq(Observed, 2, n + 1) = directory
           /\ SubSeq(Observed, n + 2, n + 1 + m) = payload
           /\ SubSeq(Observed, 1, n + 1 + m) = Prefix
           /\ \A start \in Nat, many \in Nat \ {0} : start + many <= m =>
                SubSeq(Observed, n + 1 + start + 1, n + 1 + start + many)
                  = SubSeq(payload, start + 1, start + many)
<1>1. Prefix = <<header>> \o directory \o payload /\ Observed = Prefix \o <<footer>>
  BY DEF Observed, Prefix
<1>2. ArchiveParts(Written, header, directory, payload, footer, Prefix, Observed, n, m)
  BY <1>1, WholeIs
<1> QED
  BY <1>2 DEF ArchiveParts

(* What the two passes know of an archive when only its footer is left. *)
LEMMA AcceptedParts ==
    ASSUME IInv, DecodeInv, pc \in {"footer", "accepted"},
           NEW n, n = Len(directory), NEW m, m = Len(payload)
    PROVE  /\ n \in Nat /\ m \in Nat
           /\ header \in Written
           /\ directory \in Seq(Written) /\ payload \in Seq(Written)
           /\ header.blockCount = n /\ header.payloadOffset = n + 1
           /\ header.footerOffset = n + 1 + m /\ length = n + m + 2
           /\ reread = directory /\ spool = header.originalHash
<1>1. /\ header \in Written /\ header.kind = "header" /\ HeaderFits(header, length)
      /\ directory \in Seq(Written) /\ n \in Nat
      /\ payload \in Seq(Written) /\ m \in Nat
  BY DEF IInv, WordsInv, DecodeInv, HeaderInv, SecondInv, SecondPassed, AfterHeader
<1>2. /\ n = header.blockCount
      /\ IF header.blockCount = 0 THEN EmptyHeader(header)
         ELSE header.originalSize > 0 /\ RecordsAddUp(header, directory)
      /\ reread = directory /\ header.originalHash = restored /\ spool = restored
      /\ position = EndOf(directory, n) /\ position = header.payloadOffset + m
  BY DEF DecodeInv, FirstInv, SecondInv, SpoolInv, SecondPassed, Completed
<1>3. /\ header.blockCount \in Nat /\ header.payloadOffset \in Nat
      /\ header.payloadBytes \in Nat /\ header.footerOffset \in Nat
  BY <1>1, WordsAssumption
<1>4. PICK base, bytes, end :
        base = header.payloadOffset /\ bytes = header.payloadBytes /\ end = header.footerOffset
  OBVIOUS
<1>5. base = n + 1 /\ end = base + bytes /\ length = end + 1
      /\ base \in Nat /\ bytes \in Nat /\ end \in Nat
  BY <1>1, <1>2, <1>3, <1>4 DEF HeaderFits, HeaderUnlimited, RecordWords, HeaderWords, FooterWords
<1>6. end = base + m
  <2>1. CASE n = 0
    <3>1. bytes = 0 /\ position = base
      BY <1>2, <1>4, <2>1 DEF EmptyHeader, EndOf
    <3> QED
      BY <1>1, <1>2, <1>4, <1>5, <3>1
  <2>2. CASE n # 0
    <3>1. position = end
      BY <1>2, <1>4, <2>2 DEF RecordsAddUp, EndOf
    <3> QED
      BY <1>2, <1>4, <3>1
  <2> QED
    BY <2>1, <2>2
<1>7. end = n + 1 + m /\ length = n + m + 2
  BY <1>1, <1>5, <1>6
<1> QED
  BY <1>1, <1>2, <1>4, <1>5, <1>7

LEMMA AcceptedBlocks ==
    ASSUME IInv, DecodeInv, pc = "accepted", directory # <<>>
    PROVE  BlocksVerify(Observed, header, directory)
<1>0. PICK n, m : n = Len(directory) /\ m = Len(payload)
  OBVIOUS
<1>1. /\ n \in Nat /\ m \in Nat
      /\ header \in Written /\ footer \in Written
      /\ directory \in Seq(Written) /\ payload \in Seq(Written)
      /\ header.payloadOffset = n + 1 /\ reread = directory
  BY <1>0, AcceptedParts DEF DecodeInv, FinalInv
<1>2. /\ \A i \in 1..n : Kept(directory[i])
      /\ header.originalHash = Promised(directory, n)
  BY <1>0, <1>1 DEF DecodeInv, SecondInv, SecondPassed, Completed
<1>3. ASSUME NEW i \in 1..n
      PROVE  Verifies(SubSeq(Observed, directory[i].payloadOffset + 1,
                             directory[i].payloadOffset + directory[i].payloadLength),
                      directory[i])
  <2>0. PICK at, many, start :
          /\ at = directory[i].payloadOffset /\ many = directory[i].payloadLength
          /\ start = at - (n + 1)
    OBVIOUS
  <2>1. at \in Nat /\ many \in Nat \ {0}
    <3>1. directory[i] \in Written /\ RecordFits(directory[i])
      BY <1>0, <1>1 DEF IInv, WordsInv
    <3>2. many \in Nat /\ many >= 1 /\ at \in Nat
      BY <2>0, <3>1, WordsAssumption DEF RecordFits, RecordShaped, BlockHeaderCells
    <3> QED
      BY <3>2
  <2>2. /\ start >= 0 /\ start + many <= m
        /\ Verifies(SubSeq(payload, start + 1, start + many), directory[i])
    BY <1>0, <1>1, <1>2, <2>0 DEF Kept
  <2>3. start \in Nat /\ at = n + 1 + start
    BY SMTT(40), <1>1, <2>0, <2>1, <2>2
  <2>4. SubSeq(Observed, n + 1 + start + 1, n + 1 + start + many)
          = SubSeq(payload, start + 1, start + many)
    <3>1. \A s \in Nat, k \in Nat \ {0} : s + k <= m =>
            SubSeq(Observed, n + 1 + s + 1, n + 1 + s + k) = SubSeq(payload, s + 1, s + k)
      BY <1>0, <1>1, ObservedIs
    <3> QED
      BY <2>1, <2>2, <2>3, <3>1
  <2> QED
    BY <2>0, <2>2, <2>3, <2>4
<1> QED
  BY <1>0, <1>2, <1>3 DEF BlocksVerify, Promised

LEMMA AcceptedHolds == IInv /\ DecodeInv => AcceptedIsOneArchive
<1> SUFFICES ASSUME IInv, DecodeInv, pc = "accepted"
             PROVE  /\ InMemoryAccepts(Observed)
                    /\ spool = header.originalHash
                    /\ Len(Observed) = length
  BY DEF AcceptedIsOneArchive
<1>0. PICK n, m : n = Len(directory) /\ m = Len(payload)
  OBVIOUS
<1>1. /\ n \in Nat /\ m \in Nat
      /\ header \in Written /\ footer \in Written
      /\ directory \in Seq(Written) /\ payload \in Seq(Written)
      /\ header.blockCount = n /\ header.payloadOffset = n + 1
      /\ header.footerOffset = n + 1 + m /\ length = n + m + 2
      /\ reread = directory /\ spool = header.originalHash
  BY <1>0, AcceptedParts DEF DecodeInv, FinalInv
<1>2. /\ Len(Observed) = n + m + 2
      /\ Observed[1] = header /\ Observed[n + m + 2] = footer
      /\ SubSeq(Observed, 2, n + 1) = directory
      /\ SubSeq(Observed, n + 2, n + 1 + m) = payload
      /\ SubSeq(Observed, 1, n + 1 + m) = Prefix
  BY <1>0, <1>1, ObservedIs
<1>3. /\ length <= DecoderLimits.archive /\ length >= MinArchive
      /\ HeaderFits(header, length)
      /\ RecordsTile(header, directory)
      /\ IF header.blockCount = 0 THEN EmptyHeader(header)
         ELSE header.originalSize > 0 /\ RecordsAddUp(header, directory)
      /\ FooterMatches(footer, directory, payload, Prefix, length)
  BY DEF DecodeInv, HeaderInv, FirstInv, FinalInv, AfterHeader, SecondPassed
<1>4. n # 0 => BlocksVerify(Observed, header, directory)
  BY <1>0, <1>1, AcceptedBlocks, EmptySeq
<1>5. Len(Observed) = length /\ Observed[Len(Observed)] = footer
  BY <1>1, <1>2
<1>6. SubSeq(Observed, 2, header.payloadOffset) = directory
      /\ SubSeq(Observed, header.payloadOffset + 1, header.footerOffset) = payload
      /\ SubSeq(Observed, 1, header.footerOffset) = Prefix
  <2>1. n + 1 + 1 = n + 2
    BY <1>1
  <2> QED
    BY <1>1, <1>2, <2>1
<1>7. InMemoryAccepts(Observed)
  BY <1>1, <1>2, <1>3, <1>4, <1>5, <1>6 DEF InMemoryAccepts
<1> QED
  BY <1>1, <1>5, <1>7

(* decode_archive_stream, for every file and however it is rewritten while *)
(* it is decoded: what it accepts is one archive that the in-memory        *)
(* decoder accepts too, and the spool is what that archive promises.       *)
THEOREM AcceptsOneArchive == Spec => []AcceptedIsOneArchive
BY Decoded, AcceptedHolds, PTL

LEMMA SpoolHolds == IInv /\ DecodeInv => SpoolIsPromisedPrefix
<1> SUFFICES ASSUME IInv, DecodeInv, IsPrefix(reread, directory)
             PROVE  IsPrefix(spool, Promised(directory, Len(reread)))
  BY DEF SpoolIsPromisedPrefix, Promised
<1>1. PICK n : n = Len(reread)
  OBVIOUS
<1>2. /\ reread \in Seq(Written) /\ directory \in Seq(Written) /\ n \in Nat
      /\ n <= Len(directory) /\ Len(directory) \in Nat
  BY <1>1 DEF IInv, WordsInv, IsPrefix
<1>3. ASSUME NEW i \in 1..n PROVE reread[i] = directory[i]
  <2>1. SubSeq(reread, 1, n) = SubSeq(directory, 1, n)
    BY <1>1 DEF IsPrefix
  <2>2. /\ \A j \in 1..n : reread[j] \in Written /\ directory[j] \in Written
        /\ 1 \in Int /\ n \in Int /\ i \in 1..n-1+1 /\ 1 + i - 1 = i
    BY <1>1, <1>2
  <2>3. SubSeq(reread, 1, n)[i] = reread[1 + i - 1]
    BY <2>2, SubSeqProperties
  <2>4. SubSeq(directory, 1, n)[i] = directory[1 + i - 1]
    BY <2>2, SubSeqProperties
  <2> QED
    BY <2>1, <2>2, <2>3, <2>4
<1>4. Promised(directory, n) = Promised(reread, n)
  BY <1>2, <1>3, PromisedSame
<1>5. IsPrefix(spool, Promised(reread, n))
  BY <1>1 DEF DecodeInv, SpoolInv
<1> QED
  BY <1>1, <1>4, <1>5

(* While the second pass sees the records of the first, the spool holds    *)
(* nothing but the first bytes those records promise, in their order.      *)
THEOREM SpoolIsPromised == Spec => []SpoolIsPromisedPrefix
BY Decoded, SpoolHolds, PTL

--------------------------------------------------------------------------------
(* The verdict on a file left alone.                                       *)

(* The file is the one that was opened. *)
CleanInv ==
    /\ pc \notin {"open", "failed"} => length = Len(file)
    /\ pc \in AfterHeader =>
         header = file[1] /\ \A i \in 1..Len(directory) : directory[i] = file[i + 1]
    /\ pc \in SecondPassed =>
         /\ \A i \in 1..Len(reread) : reread[i] = file[i + 1]
         /\ header.payloadOffset + Len(payload) <= Len(file)
         /\ \A i \in 1..Len(payload) : payload[i] = file[header.payloadOffset + i]
    /\ pc = "accepted" => footer = file[header.footerOffset + 1]
    /\ failure = "format" => ~InMemoryAccepts(file)

(* The second pass counts its records and the bytes it restored. *)
CountInv ==
    pc \in SecondPassed =>
        /\ Len(reread) <= header.blockCount
        /\ offset = OffsetOf(reread, Completed)
        /\ Len(restored) = offset
        /\ pc = "payload" => Current.offset = offset

VerdictInv == CountInv /\ (writes = 0 => CleanInv)
--------------------------------------------------------------------------------
(* What an archive that is accepted in memory looks like to the passes. *)
LEMMA InMemoryIs ==
    ASSUME file \in Seq(Written), InMemoryAccepts(file), header = file[1]
    PROVE  LET n == header.blockCount
               records == SubSeq(file, 2, n + 1)
           IN  /\ Len(file) <= DecoderLimits.archive /\ Len(file) >= MinArchive
               /\ header \in Written /\ header.kind = "header"
               /\ HeaderFits(header, Len(file)) /\ n \in Nat
               /\ header.payloadOffset = n + 1
               /\ header.footerOffset \in Nat /\ header.payloadBytes \in Nat
               /\ n + 1 <= header.footerOffset /\ Len(file) = header.footerOffset + 1
               /\ records \in Seq(Written) /\ Len(records) = n
               /\ \A i \in 1..n : records[i] = file[i + 1]
               /\ FooterMatches(file[Len(file)], records,
                                SubSeq(file, n + 1 + 1, header.footerOffset),
                                SubSeq(file, 1, header.footerOffset), Len(file))
               /\ n = 0 => EmptyHeader(header)
               /\ n # 0 => /\ header.originalSize > 0 /\ RecordsTile(header, records)
                           /\ RecordsAddUp(header, records)
                           /\ BlocksVerify(file, header, records)
<1>0. PICK h, n, records : h = header /\ n = h.blockCount /\ records = SubSeq(file, 2, n + 1)
  OBVIOUS
<1>1. /\ Len(file) <= DecoderLimits.archive /\ Len(file) >= 2 /\ Len(file) \in Nat
      /\ HeaderFits(h, Len(file))
  BY <1>0 DEF InMemoryAccepts, MinArchive, HeaderWords, FooterWords
<1>2. h \in Written /\ h.kind = "header"
  <2>1. 1 \in 1..Len(file)
    BY <1>1
  <2> QED
    BY <1>0, <1>1, <2>1 DEF HeaderFits, HeaderUnlimited
<1>3. /\ n \in Nat /\ h.payloadOffset \in Nat /\ h.payloadBytes \in Nat /\ h.footerOffset \in Nat
  BY <1>0, <1>2, WordsAssumption
<1>4. PICK base, bytes, end, all :
        base = h.payloadOffset /\ bytes = h.payloadBytes /\ end = h.footerOffset
        /\ all = Len(file)
  OBVIOUS
<1>5. base = n + 1 /\ end = base + bytes /\ all = end + 1
      /\ base \in Nat /\ bytes \in Nat /\ end \in Nat
  BY <1>0, <1>1, <1>3, <1>4 DEF HeaderFits, HeaderUnlimited, RecordWords, HeaderWords, FooterWords
<1>6. n + 1 <= end
  BY <1>3, <1>5
<1>7. /\ records \in Seq(Written) /\ Len(records) = n
      /\ \A i \in 1..n : records[i] = file[i + 1]
  <2>0. PICK last : last = n + 1
    OBVIOUS
  <2>1. last \in Int /\ 2 \in Int /\ (2 <= last <=> n # 0) /\ last - 2 + 1 = n
    BY <1>3, <2>0
  <2>2. \A i \in 2..last : i \in 1..Len(file)
    BY <1>3, <1>4, <1>5, <1>6, <2>0
  <2>3. \A i \in 2..last : file[i] \in Written
    BY <2>2
  <2>4. /\ SubSeq(file, 2, last) \in Seq(Written)
        /\ Len(SubSeq(file, 2, last)) = IF 2 <= last THEN last - 2 + 1 ELSE 0
        /\ \A i \in 1 .. last-2+1 : SubSeq(file, 2, last)[i] = file[2+i-1]
    BY <2>1, <2>3, SubSeqProperties
  <2>5. ASSUME NEW i \in 1..n PROVE records[i] = file[i + 1]
    <3>1. 2 + i - 1 = i + 1
      OBVIOUS
    <3> QED
      BY <1>0, <2>0, <2>1, <2>4, <3>1
  <2> QED
    BY <1>0, <2>0, <2>1, <2>4, <2>5
<1>8. /\ FooterMatches(file[Len(file)], SubSeq(file, 2, base), SubSeq(file, base + 1, end),
                       SubSeq(file, 1, end), Len(file))
      /\ IF n = 0 THEN EmptyHeader(h)
         ELSE /\ h.originalSize > 0
              /\ RecordsTile(h, SubSeq(file, 2, base))
              /\ RecordsAddUp(h, SubSeq(file, 2, base))
              /\ BlocksVerify(file, h, SubSeq(file, 2, base))
  BY <1>0, <1>4 DEF InMemoryAccepts
<1> QED
  BY <1>0, <1>1, <1>2, <1>3, <1>4, <1>5, <1>6, <1>7, <1>8 DEF MinArchive, HeaderWords, FooterWords

LEMMA InitVerdict == Init => VerdictInv
BY DEF Init, VerdictInv, CountInv, CleanInv, AfterHeader, SecondPassed

(* The in-memory verdict is the file's. *)
LEMMA StillAccepted ==
    ASSUME file' = file
    PROVE  InMemoryAccepts(file)' <=> InMemoryAccepts(file)
BY DEF InMemoryAccepts, HeaderFits, HeaderUnlimited, FooterMatches, EmptyHeader, RecordsTile,
       RecordsAddUp, BlocksVerify, RecordFits, RecordShaped, Verifies, Parses

(* A step that fails must be justified by the file if it blames it. *)
LEMMA FailedVerdict ==
    ASSUME pc' = "failed", UNCHANGED <<file, writes>>,
           writes = 0 /\ failure' = "format" => ~InMemoryAccepts(file)
    PROVE  VerdictInv'
<1>1. InMemoryAccepts(file)' <=> InMemoryAccepts(file)
  BY StillAccepted
<1> QED
  BY <1>1 DEF VerdictInv, CountInv, CleanInv, AfterHeader, SecondPassed

LEMMA OpenVerdict == ASSUME IInv, VerdictInv, Open PROVE VerdictInv'
<1>1. CASE pc' = "failed"
  BY <1>1, FailedVerdict DEF Open, Reject, Fail, InMemoryAccepts, fileVars
<1>2. CASE pc' # "failed"
  <2>1. pc' = "header" /\ failure' = failure /\ length' = Len(file) /\ UNCHANGED <<file, writes>>
        /\ failure = "none"
    BY <1>2 DEF Open, Reject, Fail, fileVars, IInv, TypeOK
  <2> QED
    BY <2>1 DEF VerdictInv, CountInv, CleanInv, AfterHeader, SecondPassed
<1> QED
  BY <1>1, <1>2

LEMMA ReadHeaderVerdict == ASSUME IInv, DecodeInv, VerdictInv, ReadHeader PROVE VerdictInv'
<1>1. CASE pc' = "failed"
  <2>1. ~(Readable(1) /\ HeaderFits(file[1], length)) /\ pc = "header" /\ UNCHANGED <<file, writes>>
    BY <1>1 DEF ReadHeader, fileVars
  <2>2. ASSUME writes = 0, InMemoryAccepts(file) PROVE FALSE
    <3>1. length = Len(file)
      BY <2>1, <2>2 DEF VerdictInv, CleanInv
    <3>2. Readable(1)
      <4>1. file \in Seq(Written) /\ Len(file) >= MinArchive
        BY <2>2 DEF IInv, WordsInv, InMemoryAccepts
      <4> QED
        BY <4>1 DEF MinArchive, HeaderWords, FooterWords, Readable
    <3>3. HeaderFits(file[1], Len(file))
      BY <2>2 DEF InMemoryAccepts
    <3> QED
      BY <2>1, <3>1, <3>2, <3>3
  <2> QED
    BY <1>1, <2>1, <2>2, FailedVerdict
<1>2. CASE pc' # "failed"
  <2>1. /\ pc = "header" /\ pc' = "directory" /\ failure' = failure /\ failure = "none"
        /\ header' = file[1] /\ UNCHANGED <<file, writes, length, directory>>
    BY <1>2 DEF ReadHeader, Reject, Fail, fileVars, IInv, TypeOK
  <2>2. directory' = <<>> /\ Len(directory') = 0
    BY <2>1 DEF DecodeInv, HeaderInv
  <2> QED
    BY <2>1, <2>2 DEF VerdictInv, CountInv, CleanInv, AfterHeader, SecondPassed
<1> QED
  BY <1>1, <1>2

LEMMA ReadRecordVerdict == ASSUME IInv, DecodeInv, VerdictInv, ReadRecord PROVE VerdictInv'
<1>0. PICK n, next, word :
        n = Len(directory) /\ next = HeaderWords + n + 1 /\ word = file[next]
  OBVIOUS
<1>1. /\ n \in Nat /\ directory \in Seq(Written) /\ next = n + 2 /\ next \in Nat \ {0}
      /\ file \in Seq(Written) /\ header \in Written /\ header.blockCount \in Nat
      /\ n < header.blockCount /\ pc = "directory" /\ failure = "none"
  <2>1. /\ n \in Nat /\ directory \in Seq(Written) /\ pc = "directory" /\ failure = "none"
        /\ file \in Seq(Written) /\ header \in Written /\ header.kind = "header"
        /\ n < header.blockCount
    BY <1>0 DEF IInv, WordsInv, TypeOK, ReadRecord, AfterHeader
  <2>2. next = n + 2 /\ next \in Nat \ {0}
    BY <1>0, <2>1 DEF HeaderWords
  <2> QED
    BY <2>1, <2>2, WordsAssumption
<1>2. CASE pc' = "failed"
  <2>1. /\ UNCHANGED <<file, writes>>
        /\ ~(Readable(next) /\ RecordFits(word) /\ word.length > 0 /\ Contiguous(word))
    BY <1>0, <1>1, <1>2 DEF ReadRecord, fileVars
  <2>2. ASSUME writes = 0, InMemoryAccepts(file) PROVE FALSE
    <3>1. /\ header = file[1] /\ length = Len(file)
          /\ \A i \in 1..n : directory[i] = file[i + 1]
      BY <1>0, <1>1, <2>2 DEF VerdictInv, CleanInv, AfterHeader
    <3>2. PICK m, records : m = header.blockCount /\ records = SubSeq(file, 2, m + 1)
      OBVIOUS
    <3>3. /\ m + 1 <= header.footerOffset /\ Len(file) = header.footerOffset + 1
          /\ header.footerOffset \in Nat
          /\ Len(records) = m /\ \A i \in 1..m : records[i] = file[i + 1]
          /\ m # 0 => RecordsTile(header, records)
      BY <1>1, <2>2, <3>1, <3>2, InMemoryIs
    <3>4. n + 1 \in 1..m /\ m # 0 /\ n + 1 + 1 = next /\ (n # 0 => n \in 1..m)
      BY <1>1, <3>2
    <3>5. records[n + 1] = word
      BY <1>0, <3>3, <3>4
    <3>6. n # 0 => records[n] = directory[n]
      <4>1. n # 0 => n \in 1..n
        BY <1>1
      <4> QED
        BY <3>1, <3>3, <3>4, <4>1
    <3>7. /\ RecordFits(word) /\ word.length > 0
          /\ word.offset = OffsetOf(directory, n)
          /\ word.payloadOffset = EndOf(directory, n)
      <4>1. PICK i : i = n + 1
        OBVIOUS
      <4>2. i \in 1..Len(records) /\ i - 1 = n /\ (i = 1 <=> n = 0)
        BY <1>1, <3>3, <3>4, <4>1
      <4>3. /\ RecordFits(records[i]) /\ records[i].length > 0
            /\ records[i].offset =
                 IF i = 1 THEN 0 ELSE records[i-1].offset + records[i-1].length
            /\ records[i].payloadOffset =
                 IF i = 1 THEN header.payloadOffset
                 ELSE records[i-1].payloadOffset + records[i-1].payloadLength
        BY <3>3, <3>4, <4>2 DEF RecordsTile
      <4> QED
        BY <3>5, <3>6, <4>1, <4>2, <4>3 DEF OffsetOf, EndOf
    <3>8. offset = OffsetOf(directory, n) /\ position = EndOf(directory, n)
      BY <1>0, <1>1 DEF DecodeInv, FirstInv
    <3>9. Readable(next)
      <4>1. PICK end, all : end = header.footerOffset /\ all = Len(file)
        OBVIOUS
      <4>2. next <= all
        BY <1>1, <3>2, <3>3, <4>1
      <4> QED
        BY <4>1, <4>2 DEF Readable
    <3> QED
      BY <2>1, <3>7, <3>8, <3>9 DEF Contiguous
  <2> QED
    BY <1>2, <2>1, <2>2, FailedVerdict
<1>3. CASE pc' # "failed"
  <2>1. /\ pc' = "directory" /\ failure' = failure /\ Readable(next) /\ RecordFits(word)
        /\ directory' = Append(directory, word)
        /\ UNCHANGED <<file, writes, length, header>>
    BY <1>0, <1>1, <1>3 DEF ReadRecord, Fail, fileVars
  <2>2. word \in Written
    BY <1>0, <1>1, <2>1, FileWord DEF IInv
  <2>3. /\ Len(directory') = n + 1 /\ directory'[n + 1] = word
        /\ \A i \in 1..n : directory'[i] = directory[i]
    BY <1>0, <1>1, <2>1, <2>2, AppendIs
  <2>4. ASSUME writes = 0, NEW i \in 1..n+1 PROVE directory'[i] = file[i + 1]
    <3>1. CASE i = n + 1
      <4>1. i + 1 = next
        BY <1>1, <3>1
      <4> QED
        BY <1>0, <2>3, <3>1, <4>1
    <3>2. CASE i # n + 1
      <4>1. i \in 1..n
        BY <1>1, <3>2
      <4> QED
        BY <1>0, <1>1, <2>3, <2>4, <4>1 DEF VerdictInv, CleanInv, AfterHeader
    <3> QED
      BY <3>1, <3>2
  <2> QED
    BY <1>1, <2>1, <2>3, <2>4 DEF VerdictInv, CountInv, CleanInv, AfterHeader, SecondPassed
<1> QED
  BY <1>2, <1>3

(* A file left alone that is accepted in memory has the directory the      *)
(* first pass kept.                                                        *)
LEMMA DirectoryIs ==
    ASSUME IInv, DecodeInv, VerdictInv, writes = 0, pc \in AfterHeader, InMemoryAccepts(file),
           NEW n, n = Len(directory), n = header.blockCount
    PROVE  /\ n \in Nat /\ header = file[1] /\ length = Len(file)
           /\ header.payloadOffset = n + 1 /\ header.footerOffset \in Nat
           /\ n + 1 <= header.footerOffset /\ Len(file) = header.footerOffset + 1
           /\ directory \in Seq(Written)
           /\ directory = SubSeq(file, 2, n + 1)
           /\ FooterMatches(file[Len(file)], directory,
                            SubSeq(file, n + 1 + 1, header.footerOffset),
                            SubSeq(file, 1, header.footerOffset), Len(file))
           /\ n = 0 => EmptyHeader(header)
           /\ n # 0 => /\ header.originalSize > 0 /\ RecordsTile(header, directory)
                       /\ RecordsAddUp(header, directory)
                       /\ BlocksVerify(file, header, directory)
<1>1. /\ header = file[1] /\ length = Len(file) /\ file \in Seq(Written)
      /\ directory \in Seq(Written) /\ \A i \in 1..n : directory[i] = file[i + 1]
  BY DEF VerdictInv, CleanInv, AfterHeader, IInv, WordsInv
<1>2. PICK records : records = SubSeq(file, 2, n + 1)
  OBVIOUS
<1>3. /\ n \in Nat /\ header.payloadOffset = n + 1 /\ header.footerOffset \in Nat
      /\ n + 1 <= header.footerOffset /\ Len(file) = header.footerOffset + 1
      /\ records \in Seq(Written) /\ Len(records) = n
      /\ \A i \in 1..n : records[i] = file[i + 1]
      /\ FooterMatches(file[Len(file)], records, SubSeq(file, n + 1 + 1, header.footerOffset),
                       SubSeq(file, 1, header.footerOffset), Len(file))
      /\ n = 0 => EmptyHeader(header)
      /\ n # 0 => /\ header.originalSize > 0 /\ RecordsTile(header, records)
                  /\ RecordsAddUp(header, records) /\ BlocksVerify(file, header, records)
  BY <1>1, <1>2, InMemoryIs
<1>4. directory = records
  <2>1. ASSUME NEW i \in 1..Len(directory) PROVE directory[i] = records[i]
    BY <1>1, <1>3
  <2> QED
    BY <1>1, <1>3, <2>1, SeqEqual
<1> QED
  BY <1>1, <1>2, <1>3, <1>4

LEMMA EndDirectoryVerdict == ASSUME IInv, DecodeInv, VerdictInv, EndDirectory PROVE VerdictInv'
<1>0. PICK n : n = Len(directory)
  OBVIOUS
<1>1. /\ pc = "directory" /\ n = header.blockCount /\ failure = "none" /\ n \in Nat
      /\ UNCHANGED <<file, writes, length, header, directory, reread, payload, restored>>
      /\ offset = OffsetOf(directory, n) /\ position = EndOf(directory, n)
      /\ nodes = Total(NodesOf(directory)) /\ reread = <<>> /\ payload = <<>> /\ restored = <<>>
      /\ offset' = 0
  BY <1>0 DEF EndDirectory, fileVars, outVars, IInv, TypeOK, WordsInv, DecodeInv, FirstInv,
     HeaderInv
<1>2. CASE pc' = "failed"
  <2>1. ~(TotalsMatch /\ IF n = 0 THEN EmptyHeader(header) ELSE header.originalSize > 0)
    BY <1>1, <1>2 DEF EndDirectory
  <2>2. ASSUME writes = 0, InMemoryAccepts(file) PROVE FALSE
    <3>1. /\ n = 0 => EmptyHeader(header)
          /\ n # 0 => header.originalSize > 0 /\ RecordsAddUp(header, directory)
      BY <1>0, <1>1, <2>2, DirectoryIs DEF AfterHeader
    <3>2. TotalsMatch
      <4>1. CASE n = 0
        <5>1. /\ header.originalSize = 0 /\ header.payloadBytes = 0 /\ header.nodes = 0
          BY <3>1, <4>1 DEF EmptyHeader
        <5>2. offset = 0 /\ position = header.payloadOffset
          BY <1>1, <4>1 DEF OffsetOf, EndOf
        <5>3. nodes = 0
          <6>1. NodesOf(directory) = <<>>
            BY <1>0, <4>1 DEF NodesOf
          <6> QED
            BY <1>1, <6>1, TotalEmpty
        <5>4. header.footerOffset = header.payloadOffset
          <6>1. header.payloadOffset \in Nat
            BY <1>1, HeaderWord DEF IInv, WordsInv, AfterHeader
          <6>2. header.footerOffset = header.payloadOffset + header.payloadBytes
            BY <1>1 DEF DecodeInv, HeaderInv, AfterHeader, HeaderFits, HeaderUnlimited
          <6> QED
            BY <5>1, <6>1, <6>2
        <5> QED
          BY <5>1, <5>2, <5>3, <5>4 DEF TotalsMatch
      <4>2. CASE n # 0
        BY <1>0, <1>1, <3>1, <4>2 DEF TotalsMatch, RecordsAddUp, OffsetOf, EndOf, NodesOf
      <4> QED
        BY <4>1, <4>2
    <3> QED
      BY <2>1, <3>1, <3>2
  <2> QED
    BY <1>1, <1>2, <2>2, FailedVerdict
<1>3. CASE pc' # "failed"
  <2>1. pc' \in {"blocks", "footer"} /\ failure' = failure
    BY <1>3 DEF EndDirectory, Reject, Fail
  <2>2. CountInv'
    <3>1. Completed' = 0 /\ Len(restored') = 0 /\ Len(reread') = 0
      BY <1>1, <2>1 DEF Completed
    <3>2. Len(reread') <= header'.blockCount
      BY <1>1, <3>1
    <3> QED
      BY <1>1, <2>1, <3>1, <3>2 DEF CountInv, OffsetOf
  <2>3. ASSUME writes = 0 PROVE CleanInv'
    <3>1. /\ length = Len(file) /\ header = file[1]
          /\ \A i \in 1..Len(directory) : directory[i] = file[i + 1]
      BY <1>1, <2>3 DEF VerdictInv, CleanInv, AfterHeader
    <3>2. header.payloadOffset + Len(payload) <= Len(file)
      <4>1. /\ HeaderFits(header, length)
            /\ header.payloadOffset \in Nat /\ header.payloadBytes \in Nat
        <5>1. HeaderFits(header, length) /\ header \in Written /\ header.kind = "header"
          BY <1>1 DEF DecodeInv, HeaderInv, IInv, WordsInv, AfterHeader
        <5> QED
          BY <5>1, WordsAssumption
      <4>2. PICK base, bytes, end :
              base = header.payloadOffset /\ bytes = header.payloadBytes
              /\ end = header.footerOffset
        OBVIOUS
      <4>3. end = base + bytes /\ Len(file) = end + 1 /\ base \in Nat /\ bytes \in Nat
            /\ Len(payload) = 0
        BY <1>1, <3>1, <4>1, <4>2 DEF HeaderFits, HeaderUnlimited, FooterWords
      <4>4. base + Len(payload) <= Len(file)
        BY <4>3
      <4> QED
        BY <4>2, <4>4
    <3>3. Len(reread') = 0 /\ Len(payload') = 0
      BY <1>1
    <3> QED
      BY <1>1, <2>1, <3>1, <3>2, <3>3 DEF CleanInv
  <2> QED
    BY <1>1, <2>2, <2>3 DEF VerdictInv
<1> QED
  BY <1>2, <1>3

(* What the second pass knows of a file left alone. *)
LEMMA SecondPassIs ==
    ASSUME IInv, DecodeInv, VerdictInv, writes = 0, pc \in SecondPassed,
           NEW n, n = Len(reread)
    PROVE  /\ n \in Nat /\ header = file[1] /\ length = Len(file)
           /\ \A i \in 1..n : reread[i] = file[i + 1]
           /\ reread \in Seq(Written) /\ directory \in Seq(Written)
           /\ Len(directory) = header.blockCount /\ header.blockCount \in Nat
           /\ n <= header.blockCount => \A i \in 1..n : reread[i] = directory[i]
<1>1. /\ n \in Nat /\ header = file[1] /\ length = Len(file)
      /\ \A i \in 1..n : reread[i] = file[i + 1]
      /\ \A i \in 1..Len(directory) : directory[i] = file[i + 1]
      /\ reread \in Seq(Written) /\ directory \in Seq(Written)
      /\ Len(directory) = header.blockCount
  BY DEF IInv, WordsInv, VerdictInv, CleanInv, SecondPassed, AfterHeader, DecodeInv, FirstInv
<1>2. header.blockCount \in Nat
  BY <1>1
<1>3. ASSUME n <= header.blockCount, NEW i \in 1..n PROVE reread[i] = directory[i]
  <2>1. i \in 1..Len(directory)
    BY <1>1, <1>2, <1>3
  <2> QED
    BY <1>1, <2>1
<1> QED
  BY <1>1, <1>2, <1>3

(* The records a second pass over the same file finds fit again. *)
LEMMA RereadRecordVerdict == ASSUME IInv, DecodeInv, VerdictInv, RereadRecord PROVE VerdictInv'
<1>0. PICK n, next, word :
        n = Len(reread) /\ next = HeaderWords + n + 1 /\ word = file[next]
  OBVIOUS
<1>1. /\ pc = "blocks" /\ failure = "none" /\ n < header.blockCount
      /\ n \in Nat /\ next = n + 2 /\ next \in Nat \ {0}
      /\ reread \in Seq(Written) /\ UNCHANGED <<file, writes>>
  <2>1. /\ pc = "blocks" /\ failure = "none" /\ n < header.blockCount
        /\ n \in Nat /\ reread \in Seq(Written) /\ UNCHANGED <<file, writes>>
    BY <1>0 DEF RereadRecord, IInv, TypeOK, WordsInv, fileVars
  <2> QED
    BY <1>0, <2>1 DEF HeaderWords
<1>2. CASE pc' = "failed"
  <2>1. ~(Readable(next) /\ RecordFits(word) /\ Contiguous(word))
    BY <1>0, <1>1, <1>2 DEF RereadRecord, RereadFits
  <2>2. ASSUME writes = 0, InMemoryAccepts(file) PROVE FALSE
    <3>1. PICK m : m = Len(directory)
      OBVIOUS
    <3>2. /\ header = file[1] /\ Len(directory) = header.blockCount
          /\ header.blockCount \in Nat /\ directory \in Seq(Written)
          /\ \A i \in 1..n : reread[i] = directory[i]
      BY <1>0, <1>1, <2>2, SecondPassIs DEF SecondPassed
    <3>3. /\ m \in Nat /\ header.footerOffset \in Nat
          /\ m + 1 <= header.footerOffset /\ Len(file) = header.footerOffset + 1
          /\ directory = SubSeq(file, 2, m + 1)
          /\ m # 0 => RecordsTile(header, directory)
      BY <1>1, <2>2, <3>1, <3>2, DirectoryIs DEF AfterHeader
    <3>4. /\ n + 1 \in 1..m /\ m # 0 /\ n + 1 + 1 = next
          /\ (n # 0 => n \in 1..m /\ n \in 1..n)
      BY <1>1, <3>1, <3>2
    <3>5. directory[n + 1] = word
      <4>1. \A i \in 1..Len(directory) : directory[i] = file[i + 1]
        BY <1>1, <2>2 DEF VerdictInv, CleanInv, AfterHeader
      <4>2. directory[n + 1] = file[n + 1 + 1]
        BY <3>1, <3>4, <4>1
      <4> QED
        BY <1>0, <3>4, <4>2
    <3>6. n # 0 => directory[n] = reread[n]
      BY <3>2, <3>4
    <3>7. /\ RecordFits(word)
          /\ word.offset = OffsetOf(reread, n)
          /\ word.payloadOffset = EndOf(reread, n)
      <4>1. PICK i : i = n + 1
        OBVIOUS
      <4>2. i \in 1..Len(directory) /\ i - 1 = n /\ (i = 1 <=> n = 0)
        BY <1>1, <3>1, <3>4, <4>1
      <4>3. /\ RecordFits(directory[i])
            /\ directory[i].offset =
                 IF i = 1 THEN 0 ELSE directory[i-1].offset + directory[i-1].length
            /\ directory[i].payloadOffset =
                 IF i = 1 THEN header.payloadOffset
                 ELSE directory[i-1].payloadOffset + directory[i-1].payloadLength
        BY <3>3, <3>4, <4>2 DEF RecordsTile
      <4> QED
        BY <3>5, <3>6, <4>1, <4>2, <4>3 DEF OffsetOf, EndOf
    <3>8. offset = OffsetOf(reread, n) /\ position = EndOf(reread, n)
      BY <1>0, <1>1 DEF DecodeInv, SecondInv, VerdictInv, CountInv, SecondPassed, Completed
    <3>9. Readable(next)
      <4>1. PICK end, all : end = header.footerOffset /\ all = Len(file)
        OBVIOUS
      <4>2. next <= all
        BY <1>1, <3>3, <3>4, <4>1
      <4> QED
        BY <4>1, <4>2 DEF Readable
    <3> QED
      BY <2>1, <3>7, <3>8, <3>9 DEF Contiguous
  <2> QED
    BY <1>1, <1>2, <2>2, FailedVerdict
<1>3. CASE pc' # "failed"
  <2>1. /\ pc' = "payload" /\ failure' = failure /\ Readable(next) /\ RecordFits(word)
        /\ reread' = Append(reread, word)
        /\ UNCHANGED <<length, header, directory, payload, offset, restored>>
    BY <1>0, <1>3 DEF RereadRecord, Reject, Fail, RereadFits, passVars
  <2>2. word \in Written
    BY <1>0, <1>1, <2>1, FileWord DEF IInv
  <2>3. /\ Len(reread') = n + 1 /\ reread'[n + 1] = word
        /\ \A i \in 1..n : reread'[i] = reread[i]
    BY <1>0, <1>1, <2>1, <2>2, AppendIs
  <2>4. CountInv'
    <3>1. Completed' = n
      BY <1>1, <2>1, <2>3 DEF Completed
    <3>2. offset = OffsetOf(reread, n) /\ Len(restored) = offset
      BY <1>0, <1>1 DEF VerdictInv, CountInv, SecondPassed, Completed
    <3>3. OffsetOf(reread', n) = OffsetOf(reread, n)
      <4>1. n # 0 => n \in 1..n
        BY <1>1
      <4> QED
        BY <2>3, <4>1 DEF OffsetOf
    <3>4. Current' = word /\ word.offset = offset
      BY <1>1, <1>3, <2>1, <2>3, <1>0 DEF Current, RereadRecord, RereadFits, Reject, Fail,
         Contiguous
    <3>5. Len(reread') <= header'.blockCount
      <4>1. header.blockCount \in Nat
        BY <1>1, WordsAssumption DEF IInv, WordsInv, AfterHeader
      <4> QED
        BY <1>1, <2>1, <2>3, <4>1
    <3> QED
      BY <2>1, <3>1, <3>2, <3>3, <3>4, <3>5 DEF CountInv
  <2>5. ASSUME writes = 0 PROVE CleanInv'
    <3>1. ASSUME NEW i \in 1..n+1 PROVE reread'[i] = file[i + 1]
      <4>1. CASE i = n + 1
        <5>1. i + 1 = next
          BY <1>1, <4>1
        <5> QED
          BY <1>0, <2>3, <4>1, <5>1
      <4>2. CASE i # n + 1
        <5>1. i \in 1..n
          BY <1>1, <4>2
        <5> QED
          BY <1>0, <1>1, <2>3, <2>5, <5>1 DEF VerdictInv, CleanInv, SecondPassed
      <4> QED
        BY <4>1, <4>2
    <3>2. CleanInv
      BY <2>5 DEF VerdictInv
    <3> QED
      BY <1>1, <2>1, <2>3, <3>1, <3>2 DEF CleanInv, AfterHeader, SecondPassed
  <2> QED
    BY <1>1, <2>4, <2>5 DEF VerdictInv
<1> QED
  BY <1>2, <1>3

LEMMA ReadPayloadVerdict == ASSUME IInv, DecodeInv, VerdictInv, ReadPayload PROVE VerdictInv'
<1>0. PICK n, part, size : n = Len(reread) /\ part = CurrentPayload /\ size = Len(payload)
  OBVIOUS
<1>1. pc = "payload" /\ failure = "none" /\ UNCHANGED <<file, writes>>
  BY DEF ReadPayload, IInv, TypeOK, fileVars
<1>2. PICK at, more : at = Current.payloadOffset /\ more = Current.payloadLength
  OBVIOUS
<1>3. /\ n \in Nat \ {0} /\ Current = reread[n] /\ Current \in Written
      /\ at \in Nat /\ more \in Nat \ {0} /\ at = position
      /\ part = SubSeq(file, at + 1, at + more) /\ PayloadEnd = at + more
  BY <1>0, <1>1, <1>2, CurrentIs DEF CurrentPayload, PayloadEnd
<1>4. CASE pc' = "failed"
  <2>1. failure' = "format" => ~Verifies(part, Current)
    BY <1>0, <1>1, <1>4 DEF ReadPayload, Fail
  <2>2. ASSUME writes = 0, InMemoryAccepts(file), failure' = "format" PROVE FALSE
    <3>1. PICK m : m = Len(directory)
      OBVIOUS
    <3>2. /\ m = header.blockCount /\ m \in Nat
          /\ n <= header.blockCount => \A i \in 1..n : reread[i] = directory[i]
      BY <1>0, <1>1, <2>2, <3>1, SecondPassIs DEF SecondPassed
    <3>3. m # 0 => BlocksVerify(file, header, directory)
      BY <1>1, <2>2, <3>1, <3>2, DirectoryIs DEF AfterHeader
    <3>4. n <= header.blockCount
      BY <1>0, <1>1 DEF VerdictInv, CountInv, SecondPassed
    <3>5. n \in 1..n /\ n \in 1..m /\ m # 0
      BY <1>3, <3>2, <3>4
    <3>6. directory[n] = Current
      BY <1>3, <3>2, <3>4, <3>5
    <3>7. Verifies(SubSeq(file, at + 1, at + more), Current)
      BY <1>2, <3>1, <3>3, <3>5, <3>6 DEF BlocksVerify
    <3> QED
      BY <1>3, <2>1, <2>2, <3>7
  <2> QED
    BY <1>1, <1>4, <2>2, FailedVerdict
<1>5. CASE pc' # "failed"
  <2>1. /\ pc' = "blocks" /\ failure' = failure /\ Readable(PayloadEnd) /\ Verifies(part, Current)
        /\ payload' = payload \o part
        /\ restored' = restored \o Current.restoredHash
        /\ offset' = offset + Current.length
        /\ UNCHANGED <<length, header, directory, reread>>
    BY <1>0, <1>5 DEF ReadPayload, Fail
  <2>2. CountInv'
    <3>1. PICK hash, many : hash = Current.restoredHash /\ many = Current.length
      OBVIOUS
    <3>2. hash \in Seq(Nat) /\ many \in Nat /\ Len(hash) = many
      BY <1>0, <1>1, <2>1, <3>1, VerifiedBytes
    <3>3. restored \in Seq(Nat) /\ offset \in Nat
      BY DEF IInv, TypeOK
    <3>4. /\ Len(reread) <= header.blockCount /\ Len(restored) = offset
          /\ Current.offset = offset
      BY <1>1 DEF VerdictInv, CountInv, SecondPassed
    <3>5. Len(restored') = offset'
      <4>1. Len(restored \o hash) = Len(restored) + Len(hash)
        BY <3>2, <3>3, ConcatProperties
      <4> QED
        BY <2>1, <3>1, <3>2, <3>4, <4>1
    <3>6. Completed' = n
      BY <1>0, <2>1 DEF Completed
    <3>7. offset' = OffsetOf(reread', n)
      BY <1>3, <2>1, <3>4 DEF OffsetOf
    <3> QED
      BY <2>1, <3>4, <3>5, <3>6, <3>7 DEF CountInv
  <2>3. ASSUME writes = 0 PROVE CleanInv'
    <3>0. PICK base, all : base = header.payloadOffset /\ all = Len(file)
      OBVIOUS
    <3>1. /\ payload \in Seq(Written) /\ size \in Nat /\ base \in Nat /\ at = base + size
          /\ \A i \in 1..size : payload[i] = file[base + i]
      <4>1. payload \in Seq(Written) /\ position = base + size
        BY <1>0, <1>1, <3>0 DEF DecodeInv, SecondInv, SecondPassed
      <4>2. base \in Nat
        BY <1>1, <3>0, HeaderWord DEF IInv, WordsInv, AfterHeader
      <4>3. \A i \in 1..size : payload[i] = file[base + i]
        BY <1>0, <1>1, <2>3, <3>0 DEF VerdictInv, CleanInv, SecondPassed
      <4>4. size \in Nat
        BY <1>0, <4>1
      <4>5. at = base + size
        BY <1>0, <1>3, <4>1
      <4> QED
        BY <4>1, <4>2, <4>3, <4>4, <4>5
    <3>2. /\ file \in Seq(Written) /\ all \in Nat /\ at + more <= all
      BY <1>3, <2>1, <3>0 DEF Readable, IInv, WordsInv
    <3>3. /\ part \in Seq(Written) /\ Len(part) = more
          /\ \A i \in 1..more : part[i] = file[at + i]
      <4>0. PICK a, b : a = at + 1 /\ b = at + more
        OBVIOUS
      <4>1. a \in Int /\ b \in Int /\ a <= b /\ b - a + 1 = more
            /\ \A i \in a..b : i \in 1..all
        BY <1>3, <3>2, <4>0
      <4>2. \A i \in a..b : file[i] \in Written
        BY <3>0, <3>2, <4>1
      <4>3. /\ SubSeq(file, a, b) \in Seq(Written)
            /\ Len(SubSeq(file, a, b)) = IF a <= b THEN b - a + 1 ELSE 0
            /\ \A i \in 1 .. b-a+1 : SubSeq(file, a, b)[i] = file[a + i - 1]
        BY <4>1, <4>2, SubSeqProperties
      <4>4. ASSUME NEW i \in 1..more PROVE part[i] = file[at + i]
        <5>1. a + i - 1 = at + i
          BY <1>3, <4>0
        <5> QED
          BY <1>3, <4>0, <4>1, <4>3, <5>1
      <4> QED
        BY <1>3, <4>0, <4>1, <4>3, <4>4
    <3>4. /\ Len(payload \o part) = size + more
          /\ \A i \in 1..size : (payload \o part)[i] = payload[i]
          /\ \A i \in 1..more : (payload \o part)[size + i] = part[i]
      <4>1. /\ Len(payload \o part) = Len(payload) + Len(part)
            /\ \A i \in 1..Len(payload) : (payload \o part)[i] = payload[i]
            /\ \A i \in 1..Len(part) : (payload \o part)[Len(payload) + i] = part[i]
        BY <3>1, <3>3, ConcatParts
      <4> QED
        BY <1>0, <3>3, <4>1
    <3>5. ASSUME NEW i \in 1..size+more PROVE payload'[i] = file[base + i]
      <4>1. CASE i <= size
        <5>1. i \in 1..size
          BY <1>3, <3>1, <4>1
        <5> QED
          BY <2>1, <3>1, <3>4, <5>1
      <4>2. CASE ~(i <= size)
        <5>1. PICK k : k = i - size
          OBVIOUS
        <5>2. k \in 1..more /\ size + k = i /\ at + k = base + i
          BY <1>3, <3>1, <4>2, <5>1
        <5> QED
          BY <2>1, <3>3, <3>4, <5>2
      <4> QED
        BY <4>1, <4>2
    <3>6. base + Len(payload') <= all
      <4>1. base + (size + more) = at + more
        BY <1>3, <3>1
      <4> QED
        BY <2>1, <3>2, <3>4, <4>1
    <3>7. CleanInv
      BY <2>3 DEF VerdictInv
    <3> QED
      BY <1>1, <2>1, <3>0, <3>4, <3>5, <3>6, <3>7 DEF CleanInv, AfterHeader, SecondPassed
  <2> QED
    BY <1>1, <2>2, <2>3 DEF VerdictInv
<1> QED
  BY <1>4, <1>5

LEMMA EndBlocksVerdict == ASSUME IInv, DecodeInv, VerdictInv, EndBlocks PROVE VerdictInv'
<1>0. PICK n : n = Len(reread)
  OBVIOUS
<1>1. /\ pc = "blocks" /\ failure = "none" /\ n = header.blockCount /\ n \in Nat
      /\ UNCHANGED <<file, writes, length, header, directory, reread, payload, footer, offset,
                     restored>>
  BY <1>0 DEF EndBlocks, IInv, TypeOK, WordsInv, fileVars, passVars, outVars
<1>2. CASE pc' = "failed"
  <2>1. ~(/\ reread = directory /\ header.originalSize = Len(restored)
          /\ header.originalHash = restored)
    BY <1>2 DEF EndBlocks, DirectoryUnchanged
  <2>2. ASSUME writes = 0, InMemoryAccepts(file) PROVE FALSE
    <3>1. /\ reread \in Seq(Written) /\ directory \in Seq(Written) /\ Len(directory) = n
          /\ \A i \in 1..n : reread[i] = directory[i]
      BY <1>0, <1>1, <2>2, SecondPassIs DEF SecondPassed
    <3>2. reread = directory
      BY <1>0, <3>1, SeqEqual
    <3>3. /\ n = 0 => EmptyHeader(header)
          /\ n # 0 => RecordsAddUp(header, directory) /\ BlocksVerify(file, header, directory)
      BY <1>1, <2>2, <3>1, DirectoryIs DEF AfterHeader
    <3>4. /\ restored = Promised(directory, n) /\ Len(restored) = OffsetOf(directory, n)
      BY <1>0, <1>1, <3>2 DEF DecodeInv, SecondInv, VerdictInv, CountInv, SecondPassed, Completed
    <3>5. CASE n = 0
      <4>1. restored = <<>> /\ Len(restored) = 0
        BY <3>4, <3>5, PromisedNone DEF OffsetOf
      <4> QED
        BY <2>1, <3>2, <3>3, <3>5, <4>1 DEF EmptyHeader
    <3>6. CASE n # 0
      <4>1. header.originalHash = restored
        BY <3>1, <3>3, <3>4, <3>6 DEF BlocksVerify, Promised
      <4>2. header.originalSize = Len(restored)
        BY <3>1, <3>3, <3>4, <3>6 DEF RecordsAddUp, OffsetOf
      <4> QED
        BY <2>1, <3>2, <4>1, <4>2
    <3> QED
      BY <3>5, <3>6
  <2> QED
    BY <1>1, <1>2, <2>2, FailedVerdict
<1>3. CASE pc' # "failed"
  <2>1. pc' = "footer" /\ failure' = failure
    BY <1>3 DEF EndBlocks, Reject, Fail
  <2>2. CountInv'
    BY <1>1, <2>1 DEF VerdictInv, CountInv, SecondPassed, Completed, OffsetOf
  <2>3. writes = 0 => CleanInv'
    BY <1>1, <2>1 DEF VerdictInv, CleanInv, AfterHeader, SecondPassed
  <2> QED
    BY <1>1, <2>2, <2>3 DEF VerdictInv
<1> QED
  BY <1>2, <1>3

(* A part of the file. *)
LEMMA SubSeqIs ==
    ASSUME file \in Seq(Written), NEW a \in Seq(Written), NEW k \in Nat, k + Len(a) <= Len(file),
           \A i \in 1..Len(a) : a[i] = file[k + i]
    PROVE  SubSeq(file, k + 1, k + Len(a)) = a
<1>0. PICK x, y, n : x = k + 1 /\ y = k + Len(a) /\ n = Len(a)
  OBVIOUS
<1>1. /\ n \in Nat /\ x \in Int /\ y \in Int /\ y - x + 1 = n /\ (x <= y <=> n # 0)
      /\ \A i \in x..y : i \in 1..Len(file)
  BY <1>0
<1>2. \A i \in x..y : file[i] \in Written
  BY <1>1
<1>3. /\ SubSeq(file, x, y) \in Seq(Written)
      /\ Len(SubSeq(file, x, y)) = IF x <= y THEN y - x + 1 ELSE 0
      /\ \A i \in 1 .. y-x+1 : SubSeq(file, x, y)[i] = file[x + i - 1]
  BY <1>1, <1>2, SubSeqProperties
<1>4. ASSUME NEW i \in 1..n PROVE SubSeq(file, x, y)[i] = a[i]
  <2>1. x + i - 1 = k + i
    BY <1>0, <1>1
  <2> QED
    BY <1>0, <1>1, <1>3, <2>1
<1> QED
  BY <1>0, <1>1, <1>3, <1>4, SeqEqual

(* What was read of a file left alone when only the footer is left. *)
LEMMA CleanParts ==
    ASSUME IInv, DecodeInv, VerdictInv, writes = 0, pc \in {"footer", "accepted"},
           NEW n, n = Len(directory), NEW m, m = Len(payload)
    PROVE  /\ n \in Nat /\ m \in Nat /\ header.footerOffset = n + 1 + m
           /\ length = Len(file) /\ Len(file) = n + 1 + m + 1
           /\ Prefix \in Seq(Written) /\ Len(Prefix) = n + 1 + m
           /\ \A i \in 1..n+1+m : Prefix[i] = file[i]
           /\ SubSeq(file, n + 1 + 1, n + 1 + m) = payload
           /\ SubSeq(file, 1, n + 1 + m) = Prefix
<1>1. /\ n \in Nat /\ m \in Nat /\ header \in Written
      /\ directory \in Seq(Written) /\ payload \in Seq(Written)
      /\ header.blockCount = n /\ header.payloadOffset = n + 1
      /\ header.footerOffset = n + 1 + m /\ length = n + m + 2
  BY AcceptedParts
<1>2. /\ file \in Seq(Written) /\ length = Len(file) /\ header = file[1]
      /\ \A i \in 1..n : directory[i] = file[i + 1]
      /\ \A i \in 1..m : payload[i] = file[n + 1 + i]
  BY <1>1 DEF IInv, WordsInv, VerdictInv, CleanInv, AfterHeader, SecondPassed
<1>3. Len(file) = n + 1 + m + 1
  BY <1>1, <1>2
<1>4. PICK h, a : h = <<header>> /\ a = h \o directory
  OBVIOUS
<1>5. h \in Seq(Written) /\ Len(h) = 1 /\ h[1] = header
  BY <1>1, <1>4
<1>6. /\ a \in Seq(Written) /\ Len(a) = 1 + n
      /\ \A i \in 1..n+1 : a[i] = file[i]
  <2>1. /\ a \in Seq(Written) /\ Len(a) = Len(h) + Len(directory)
        /\ \A i \in 1..Len(h) + Len(directory) :
             a[i] = IF i <= Len(h) THEN h[i] ELSE directory[i - Len(h)]
    BY <1>1, <1>4, <1>5, ConcatProperties
  <2>2. ASSUME NEW i \in 1..n+1 PROVE a[i] = file[i]
    <3>1. CASE i = 1
      <4>1. 1 \in 1..Len(h) + Len(directory) /\ 1 <= Len(h)
        BY <1>1, <1>5
      <4> QED
        BY <1>2, <1>5, <2>1, <3>1, <4>1
    <3>2. CASE i # 1
      <4>1. PICK k : k = i - 1
        OBVIOUS
      <4>2. i \in 1..Len(h) + Len(directory) /\ ~(i <= Len(h)) /\ i - Len(h) = k
            /\ k \in 1..n /\ k + 1 = i
        BY <1>1, <1>5, <3>2, <4>1
      <4> QED
        BY <1>2, <2>1, <4>2
    <3> QED
      BY <3>1, <3>2
  <2> QED
    BY <1>1, <1>5, <2>1, <2>2
<1>7. /\ Prefix \in Seq(Written) /\ Len(Prefix) = n + 1 + m
      /\ \A i \in 1..n+1+m : Prefix[i] = file[i]
  <2>0. Prefix = a \o payload
    BY <1>4 DEF Prefix
  <2>1. /\ a \o payload \in Seq(Written) /\ Len(a \o payload) = Len(a) + Len(payload)
        /\ \A i \in 1..Len(a) + Len(payload) :
             (a \o payload)[i] = IF i <= Len(a) THEN a[i] ELSE payload[i - Len(a)]
    BY <1>1, <1>6, ConcatProperties
  <2>2. ASSUME NEW i \in 1..n+1+m PROVE Prefix[i] = file[i]
    <3>0. i \in 1..Len(a) + Len(payload)
      BY <1>1, <1>6
    <3>1. CASE i <= n + 1
      <4>1. i <= Len(a) /\ i \in 1..n+1
        BY <1>1, <1>6, <3>1
      <4> QED
        BY <1>6, <2>0, <2>1, <3>0, <4>1
    <3>2. CASE ~(i <= n + 1)
      <4>1. PICK k : k = i - (n + 1)
        OBVIOUS
      <4>2. ~(i <= Len(a)) /\ i - Len(a) = k /\ k \in 1..m /\ n + 1 + k = i
        BY <1>1, <1>6, <3>2, <4>1
      <4> QED
        BY <1>2, <2>0, <2>1, <3>0, <4>2
    <3> QED
      BY <3>1, <3>2
  <2>3. Len(a) + Len(payload) = n + 1 + m
    BY <1>1, <1>6
  <2> QED
    BY <2>0, <2>1, <2>2, <2>3
<1>8. SubSeq(file, n + 1 + 1, n + 1 + m) = payload
  <2>1. PICK k : k = n + 1
    OBVIOUS
  <2>2. /\ k \in Nat /\ k + Len(payload) <= Len(file)
        /\ \A i \in 1..Len(payload) : payload[i] = file[k + i]
    BY <1>1, <1>2, <1>3, <2>1
  <2>3. SubSeq(file, k + 1, k + Len(payload)) = payload
    BY <1>1, <1>2, <2>2, SubSeqIs
  <2> QED
    BY <2>1, <2>3
<1>9. SubSeq(file, 1, n + 1 + m) = Prefix
  <2>1. PICK all : all = Len(Prefix)
    OBVIOUS
  <2>2. all = n + 1 + m /\ all \in Nat /\ 0 + 1 = 1 /\ 0 + all = all /\ 0 + all <= Len(file)
    BY <1>1, <1>3, <1>7, <2>1
  <2>3. ASSUME NEW i \in 1..all PROVE Prefix[i] = file[0 + i]
    <3>1. 0 + i = i
      BY <2>2
    <3> QED
      BY <1>7, <2>2, <3>1
  <2>4. SubSeq(file, 0 + 1, 0 + all) = Prefix
    BY <1>2, <1>7, <2>1, <2>2, <2>3, SubSeqIs
  <2> QED
    BY <2>2, <2>4
<1> QED
  BY <1>1, <1>2, <1>3, <1>7, <1>8, <1>9

LEMMA ReadFooterVerdict == ASSUME IInv, DecodeInv, VerdictInv, ReadFooter PROVE VerdictInv'
<1>0. PICK n, m, at : n = Len(directory) /\ m = Len(payload) /\ at = header.footerOffset + 1
  OBVIOUS
<1>1. /\ pc = "footer" /\ failure = "none"
      /\ UNCHANGED <<file, writes, length, header, directory, reread, payload, offset, restored>>
  BY DEF ReadFooter, IInv, TypeOK, fileVars, passVars, outVars
<1>2. CASE pc' = "failed"
  <2>1. ~(Readable(at) /\ FooterFits(file[at]))
    BY <1>0, <1>2 DEF ReadFooter
  <2>2. ASSUME writes = 0, InMemoryAccepts(file) PROVE FALSE
    <3>1. /\ header.footerOffset = n + 1 + m
          /\ length = Len(file) /\ Len(file) = n + 1 + m + 1
          /\ SubSeq(file, n + 1 + 1, n + 1 + m) = payload
          /\ SubSeq(file, 1, n + 1 + m) = Prefix /\ n \in Nat /\ m \in Nat
      BY <1>0, <1>1, <2>2, CleanParts
    <3>2. n = header.blockCount
      BY <1>0, <1>1 DEF DecodeInv, FirstInv, SecondPassed
    <3>3. FooterMatches(file[Len(file)], directory,
                        SubSeq(file, n + 1 + 1, header.footerOffset),
                        SubSeq(file, 1, header.footerOffset), Len(file))
      BY <1>0, <1>1, <2>2, <3>2, DirectoryIs DEF AfterHeader
    <3>4. at = Len(file) /\ Readable(at)
      BY <1>0, <3>1 DEF Readable
    <3> QED
      BY <2>1, <3>1, <3>3, <3>4 DEF FooterFits
  <2> QED
    BY <1>1, <1>2, <2>2, FailedVerdict
<1>3. CASE pc' # "failed"
  <2>1. pc' = "accepted" /\ failure' = failure /\ footer' = file[at]
    BY <1>0, <1>3 DEF ReadFooter, Reject, Fail
  <2>2. CountInv'
    BY <1>1, <2>1 DEF VerdictInv, CountInv, SecondPassed, Completed, OffsetOf
  <2>3. writes = 0 => CleanInv'
    BY <1>0, <1>1, <2>1 DEF VerdictInv, CleanInv, AfterHeader, SecondPassed
  <2> QED
    BY <1>1, <2>2, <2>3 DEF VerdictInv
<1> QED
  BY <1>2, <1>3

LEMMA StillVerdict ==
    ASSUME VerdictInv, UNCHANGED <<pc, failure, length, header, directory, reread, payload, footer,
                                   offset, restored>>,
           writes' = 0 => UNCHANGED <<file, writes>>
    PROVE  VerdictInv'
<1>1. CountInv'
  BY DEF VerdictInv, CountInv, Completed, OffsetOf, Current
<1>2. ASSUME writes' = 0 PROVE CleanInv'
  <2>1. file' = file /\ writes = 0
    BY <1>2
  <2>2. InMemoryAccepts(file)' <=> InMemoryAccepts(file)
    BY <2>1, StillAccepted
  <2> QED
    BY <2>1, <2>2 DEF VerdictInv, CleanInv
<1> QED
  BY <1>1, <1>2 DEF VerdictInv

LEMMA StepVerdict == IInv /\ DecodeInv /\ VerdictInv /\ [Next]_vars => VerdictInv'
<1> SUFFICES ASSUME IInv, DecodeInv, VerdictInv, [Next]_vars PROVE VerdictInv'
  OBVIOUS
<1>1. CASE UNCHANGED vars
  BY <1>1, StillVerdict DEF vars
<1>2. CASE Rewrite
  <2>1. writes' # 0
    BY <1>2 DEF Rewrite, IInv, TypeOK
  <2> QED
    BY <1>2, <2>1, StillVerdict DEF Rewrite, passVars, outVars
<1>3. CASE FirstPass
  BY <1>3, OpenVerdict, ReadHeaderVerdict, ReadRecordVerdict, EndDirectoryVerdict DEF FirstPass
<1>4. CASE SecondPass
  BY <1>4, RereadRecordVerdict, ReadPayloadVerdict, EndBlocksVerdict, ReadFooterVerdict
     DEF SecondPass
<1>5. CASE IoError
  <2>1. pc' = "failed" /\ failure' = "io" /\ UNCHANGED <<file, writes>>
    BY <1>5 DEF IoError, fileVars
  <2> QED
    BY <2>1, FailedVerdict
<1> QED
  BY <1>1, <1>2, <1>3, <1>4, <1>5 DEF Next, Decoder

LEMMA VerdictHolds == IInv /\ DecodeInv /\ VerdictInv => SameVerdictAsInMemory
<1> SUFFICES ASSUME IInv, DecodeInv, VerdictInv, writes = 0, pc = "accepted"
             PROVE  InMemoryAccepts(file)
  BY DEF SameVerdictAsInMemory, VerdictInv, CleanInv
<1>0. PICK n, m, all : n = Len(directory) /\ m = Len(payload) /\ all = n + 1 + m
  OBVIOUS
<1>1. /\ n \in Nat /\ m \in Nat /\ header.footerOffset = all /\ Len(file) = all + 1
      /\ Prefix \in Seq(Written) /\ Len(Prefix) = all
      /\ \A i \in 1..all : Prefix[i] = file[i]
  BY <1>0, CleanParts
<1>2. footer \in Written /\ footer = file[all + 1] /\ file \in Seq(Written)
  BY <1>1 DEF VerdictInv, CleanInv, DecodeInv, FinalInv, IInv, WordsInv
<1>3. PICK f : f = <<footer>>
  OBVIOUS
<1>4. f \in Seq(Written) /\ Len(f) = 1 /\ f[1] = footer
  BY <1>2, <1>3
<1>5. Observed = Prefix \o f
  BY <1>3 DEF Observed, Prefix
<1>6. /\ Observed \in Seq(Written) /\ Len(Observed) = all + 1
      /\ \A i \in 1..all+1 : Observed[i] = IF i <= all THEN Prefix[i] ELSE f[i - all]
  <2>1. PICK p : p = Prefix
    OBVIOUS
  <2>2. p \in Seq(Written) /\ Len(p) = all
    BY <1>1, <2>1
  <2>3. /\ p \o f \in Seq(Written)
        /\ Len(p \o f) = Len(p) + Len(f)
        /\ \A i \in 1..Len(p) + Len(f) :
             (p \o f)[i] = IF i <= Len(p) THEN p[i] ELSE f[i - Len(p)]
    BY <1>4, <2>2, ConcatProperties
  <2> QED
    BY <1>4, <1>5, <2>1, <2>2, <2>3
<1>7. ASSUME NEW i \in 1..all+1 PROVE Observed[i] = file[i]
  <2>1. CASE i <= all
    <3>1. i \in 1..all
      BY <1>0, <1>1, <2>1
    <3> QED
      BY <1>1, <1>6, <2>1, <3>1
  <2>2. CASE ~(i <= all)
    <3>1. i = all + 1 /\ i - all = 1
      BY <1>0, <1>1, <2>2
    <3> QED
      BY <1>2, <1>4, <1>6, <2>2, <3>1
  <2> QED
    BY <2>1, <2>2
<1>8. Observed = file
  BY <1>1, <1>2, <1>6, <1>7, SeqEqual
<1>9. InMemoryAccepts(Observed)
  BY AcceptedHolds DEF AcceptedIsOneArchive
<1> QED
  BY <1>8, <1>9

(* decode_archive_stream and decode_archive give the same verdict on every *)
(* file that is left alone, although they check in different orders.       *)
THEOREM SameVerdicts == Spec => []SameVerdictAsInMemory
<1>1. Init => IInv /\ DecodeInv /\ VerdictInv
  BY InitIInv, InitDecode, InitVerdict
<1>2. (IInv /\ DecodeInv /\ VerdictInv) /\ [Next]_vars => (IInv /\ DecodeInv /\ VerdictInv)'
  BY StepIInv, StepDecode, StepVerdict
<1> QED
  BY <1>1, <1>2, VerdictHolds, PTL DEF Spec

--------------------------------------------------------------------------------
(* What the encoder writes is what both decoders look for.                 *)

SumTo(f, k) == Total([i \in 1..k |-> f[i]])
JoinTo(f, k) == FlattenSeq([i \in 1..k |-> f[i]])

LEMMA SumToNext == ASSUME NEW f, NEW k \in Nat PROVE SumTo(f, k + 1) = SumTo(f, k) + f[k + 1]
<1> DEFINE a == [i \in 1..k |-> f[i]]
           b == [i \in 1..k+1 |-> f[i]]
<1>1. Len(a) = k /\ Len(b) = k + 1 /\ b[k + 1] = f[k + 1] /\ \A i \in 1..k : b[i] = a[i]
  OBVIOUS
<1>2. SumTo(f, k) = Total(a) /\ SumTo(f, k + 1) = Total(b)
  BY DEF SumTo
<1> HIDE DEF a, b
<1> QED
  BY <1>1, <1>2, TotalAppend

LEMMA SumToNone == ASSUME NEW f PROVE SumTo(f, 0) = 0
<1>1. [i \in 1..0 |-> f[i]] = <<>>
  OBVIOUS
<1> QED
  BY <1>1, TotalEmpty DEF SumTo

LEMMA SumToNat ==
    ASSUME NEW n \in Nat, NEW f \in [1..n -> Nat], NEW k \in 0..n
    PROVE  SumTo(f, k) \in Nat
<1> DEFINE T == {i \in Nat : i <= n => SumTo(f, i) \in Nat}
<1>1. 0 \in T
  BY SumToNone
<1>2. ASSUME NEW i \in Nat, i \in T PROVE i + 1 \in T
  <2> SUFFICES ASSUME i + 1 <= n PROVE SumTo(f, i + 1) \in Nat
    OBVIOUS
  <2>1. SumTo(f, i) \in Nat /\ f[i + 1] \in Nat
    BY <1>2
  <2> QED
    BY <2>1, SumToNext, SumNat
<1> HIDE DEF T
<1>3. Nat \subseteq T
  BY <1>1, <1>2, NaturalsFrom
<1> QED
  BY <1>3 DEF T

LEMMA SumToGrows ==
    ASSUME NEW n \in Nat, NEW f \in [1..n -> Nat], NEW j \in 0..n, NEW k \in 0..n, j <= k
    PROVE  SumTo(f, j) <= SumTo(f, k)
<1> DEFINE T == {d \in Nat : j + d <= n => SumTo(f, j) <= SumTo(f, j + d)}
<1>1. 0 \in T
  <2>1. SumTo(f, j) \in Nat /\ j + 0 = j
    BY SumToNat
  <2> QED
    BY <2>1
<1>2. ASSUME NEW d \in Nat, d \in T PROVE d + 1 \in T
  <2> SUFFICES ASSUME j + (d + 1) <= n PROVE SumTo(f, j) <= SumTo(f, j + (d + 1))
    OBVIOUS
  <2>0. PICK at : at = j + d
    OBVIOUS
  <2>1. at \in Nat /\ at \in 0..n /\ at + 1 \in 1..n /\ j + (d + 1) = at + 1
    BY <2>0
  <2>2. SumTo(f, j) <= SumTo(f, at)
    BY <1>2, <2>0, <2>1
  <2>3. f[at + 1] \in Nat /\ SumTo(f, at) \in Nat /\ SumTo(f, j) \in Nat
    BY <2>1, SumToNat
  <2>4. SumTo(f, at + 1) = SumTo(f, at) + f[at + 1]
    BY <2>1, SumToNext
  <2> QED
    BY <2>1, <2>2, <2>3, <2>4
<1> HIDE DEF T
<1>3. Nat \subseteq T
  BY <1>1, <1>2, NaturalsFrom
<1>4. k - j \in Nat /\ j + (k - j) = k
  OBVIOUS
<1> QED
  BY <1>3, <1>4 DEF T

LEMMA JoinToNext ==
    ASSUME NEW f, NEW S, NEW k \in Nat, JoinTo(f, k) \in Seq(S), f[k + 1] \in Seq(S)
    PROVE  JoinTo(f, k + 1) = JoinTo(f, k) \o f[k + 1]
<1> DEFINE a == [i \in 1..k |-> f[i]]
           b == [i \in 1..k+1 |-> f[i]]
<1>1. Len(a) = k /\ Len(b) = k + 1 /\ b[k + 1] = f[k + 1] /\ \A i \in 1..k : b[i] = a[i]
  OBVIOUS
<1>2. JoinTo(f, k) = FlattenSeq(a) /\ JoinTo(f, k + 1) = FlattenSeq(b)
  BY DEF JoinTo
<1>3. k = 0 => a = <<>>
  OBVIOUS
<1> HIDE DEF a, b
<1>4. CASE k = 0
  <2>1. JoinTo(f, k + 1) = f[k + 1]
    BY <1>1, <1>2, <1>4, FlattenOne
  <2>2. JoinTo(f, k) = <<>>
    BY <1>1, <1>2, <1>3, <1>4, FlattenEmpty
  <2> QED
    BY <2>1, <2>2, ConcatEmptySeq
<1>5. CASE k # 0
  <2>1. k \in Nat \ {0}
    BY <1>5
  <2>2. FlattenSeq(b) = FlattenSeq(a) \o b[k + 1]
    <3>1. Len(a) = k /\ Len(b) = k + 1
      BY <1>1
    <3>2. \A i \in 1..k : b[i] = a[i]
      BY <1>1
    <3> QED
      BY <2>1, <3>1, <3>2, FlattenAppend, ZenonT(40)
  <2> QED
    BY <1>1, <1>2, <2>2
<1> QED
  BY <1>4, <1>5

LEMMA JoinToNone == ASSUME NEW f PROVE JoinTo(f, 0) = <<>>
<1>1. [i \in 1..0 |-> f[i]] = <<>>
  OBVIOUS
<1> QED
  BY <1>1, FlattenEmpty DEF JoinTo

Sized(S, n, f, sizes) ==
    /\ n \in Nat /\ sizes \in [1..n -> Nat]
    /\ \A i \in 1..n : f[i] \in Seq(S) /\ sizes[i] = Len(f[i])

LEMMA JoinToIs ==
    ASSUME NEW S, NEW n, NEW f, NEW sizes, Sized(S, n, f, sizes), NEW k \in 0..n
    PROVE  JoinTo(f, k) \in Seq(S) /\ Len(JoinTo(f, k)) = SumTo(sizes, k)
<1>0. n \in Nat
  BY DEF Sized
<1> DEFINE T == {j \in Nat : j <= n =>
                   JoinTo(f, j) \in Seq(S) /\ Len(JoinTo(f, j)) = SumTo(sizes, j)}
<1>1. 0 \in T
  <2>1. <<>> \in Seq(S) /\ Len(<<>>) = 0
    OBVIOUS
  <2> QED
    BY <2>1, SumToNone, JoinToNone
<1>2. ASSUME NEW j \in Nat, j \in T PROVE j + 1 \in T
  <2> SUFFICES ASSUME j + 1 <= n
               PROVE  /\ JoinTo(f, j + 1) \in Seq(S)
                      /\ Len(JoinTo(f, j + 1)) = SumTo(sizes, j + 1)
    OBVIOUS
  <2>0. PICK a, b : a = JoinTo(f, j) /\ b = f[j + 1]
    OBVIOUS
  <2>1. /\ a \in Seq(S) /\ Len(a) = SumTo(sizes, j)
        /\ b \in Seq(S) /\ sizes[j + 1] = Len(b)
    BY <1>0, <1>2, <2>0 DEF Sized
  <2>2. JoinTo(f, j + 1) = a \o b
    BY <2>0, <2>1, JoinToNext
  <2>3. a \o b \in Seq(S) /\ Len(a \o b) = Len(a) + Len(b)
    BY <2>1, ConcatOf
  <2> QED
    BY <2>1, <2>2, <2>3, SumToNext
<1> HIDE DEF T
<1>3. Nat \subseteq T
  BY <1>1, <1>2, NaturalsFrom
<1> QED
  BY <1>0, <1>3 DEF T

(* Each part is found in the whole where the sizes before it say. *)
LEMMA JoinToParts ==
    ASSUME NEW S, NEW n, NEW f, NEW sizes, Sized(S, n, f, sizes),
           \A i \in 1..n : sizes[i] # 0, NEW k \in 1..n
    PROVE  SubSeq(JoinTo(f, n), SumTo(sizes, k - 1) + 1, SumTo(sizes, k)) = f[k]
<1>0. PICK from, to : from = SumTo(sizes, k - 1) + 1 /\ to = SumTo(sizes, k)
  OBVIOUS
<1>a. /\ k - 1 \in 0..n /\ k - 1 \in Nat /\ (k - 1) + 1 = k
      /\ f[k] \in Seq(S) /\ sizes[k] = Len(f[k]) /\ sizes[k] \in Nat \ {0}
      /\ n \in Nat /\ sizes \in [1..n -> Nat] /\ k \in 1..n /\ k \in Nat
  BY DEF Sized
<1>b. SumTo(sizes, k - 1) \in Nat /\ to = SumTo(sizes, k - 1) + sizes[k]
  BY <1>0, <1>a, SumToNat, SumToNext
<1>c. from \in Nat \ {0} /\ to \in Nat \ {0} /\ from <= to
  BY <1>0, <1>a, <1>b
<1>d. \A x \in Seq(S), y \in Seq(S) : SubSeq(x \o y, Len(x) + 1, Len(x) + Len(y)) = y
  BY ConcatOf
<1> DEFINE T == {d \in Nat : k + d <= n => SubSeq(JoinTo(f, k + d), from, to) = f[k]}
<1>1. 0 \in T
  <2>0. PICK a, b : a = JoinTo(f, k - 1) /\ b = f[k]
    OBVIOUS
  <2>1. a \in Seq(S) /\ Len(a) = SumTo(sizes, k - 1)
    BY <1>a, <2>0, JoinToIs
  <2>2. JoinTo(f, k) = a \o b
    BY <1>a, <2>0, <2>1, JoinToNext
  <2>3. SubSeq(a \o b, Len(a) + 1, Len(a) + Len(b)) = b
    BY <1>a, <1>d, <2>0, <2>1
  <2>4. from = Len(a) + 1 /\ to = Len(a) + Len(b)
    BY <1>0, <1>a, <1>b, <2>0, <2>1
  <2>5. SubSeq(JoinTo(f, k), from, to) = f[k]
    BY <2>0, <2>2, <2>3, <2>4
  <2>6. k + 0 = k
    BY <1>a
  <2> QED
    BY <2>5, <2>6
<1>2. ASSUME NEW d \in Nat, d \in T PROVE d + 1 \in T
  <2> SUFFICES ASSUME k + (d + 1) <= n
               PROVE  SubSeq(JoinTo(f, k + (d + 1)), from, to) = f[k]
    OBVIOUS
  <2>0. PICK at : at = k + d
    OBVIOUS
  <2>1. at \in Nat /\ at \in 0..n /\ at + 1 \in 1..n /\ k + (d + 1) = at + 1 /\ k <= at
    BY <1>a, <2>0
  <2>a. PICK a, b : a = JoinTo(f, at) /\ b = f[at + 1]
    OBVIOUS
  <2>2. a \in Seq(S) /\ Len(a) = SumTo(sizes, at) /\ b \in Seq(S)
    <3>1. a \in Seq(S) /\ Len(a) = SumTo(sizes, at)
      BY <2>1, <2>a, JoinToIs
    <3>2. b \in Seq(S)
      BY <2>1, <2>a DEF Sized
    <3> QED
      BY <3>1, <3>2
  <2>3. JoinTo(f, at + 1) = a \o b
    BY <2>1, <2>2, <2>a, JoinToNext
  <2>4. to <= Len(a) /\ Len(a) \in Nat
    <3>1. k \in 0..n
      BY <1>a
    <3>2. SumTo(sizes, k) <= SumTo(sizes, at)
      BY <1>a, <2>1, <3>1, SumToGrows
    <3>3. SumTo(sizes, at) \in Nat
      BY <1>a, <2>1, SumToNat
    <3> QED
      BY <1>0, <2>2, <3>2, <3>3
  <2>5. from \in 1..Len(a) /\ to \in 1..Len(a)
    BY <1>c, <2>4
  <2>6. SubSeq(a \o b, from, to) = SubSeq(a, from, to)
    BY <2>2, <2>5, SubSeqOfConcat1
  <2>7. SubSeq(a, from, to) = f[k]
    BY <1>2, <2>0, <2>1, <2>a
  <2> QED
    BY <2>1, <2>3, <2>6, <2>7
<1> HIDE DEF T
<1>3. Nat \subseteq T
  BY <1>1, <1>2, NaturalsFrom
<1>4. n - k \in Nat /\ k + (n - k) = n /\ k + (n - k) <= n
  BY <1>a
<1>5. SubSeq(JoinTo(f, n), from, to) = f[k]
  <2>0. PICK d : d = n - k
    OBVIOUS
  <2>1. d \in T
    BY <1>3, <1>4, <2>0
  <2> QED
    BY <1>4, <2>0, <2>1 DEF T
<1> QED
  BY <1>0, <1>5

BlockSet == [program : Programs, restored : Seq(Nat)]
BlockList == Seq(BlockSet)
CellWords == [kind : {"cell"}, program : Programs, index : Nat]
Records(blocks) == [i \in 1..Len(blocks) |-> EncodeRecord(blocks, i)]
Parts(blocks) == [i \in 1..Len(blocks) |-> Serialized(blocks[i].program)]

LEMMA BlocksAre ==
    ASSUME NEW blocks \in BlockList, NEW n, n = Len(blocks)
    PROVE  /\ n \in Nat
           /\ \A i \in 1..n : blocks[i].program \in Programs /\ blocks[i].restored \in Seq(Nat)
           /\ \A i \in 1..n : PayloadLengths(blocks)[i] \in Nat \ {0}
           /\ \A i \in 1..n : PayloadLengths(blocks)[i] = PayloadCells[blocks[i].program]
           /\ \A i \in 1..n : RestoredLengths(blocks)[i] = Len(blocks[i].restored)
           /\ PayloadLengths(blocks) \in [1..n -> Nat]
           /\ RestoredLengths(blocks) \in [1..n -> Nat]
<1>1. n \in Nat /\ \A i \in 1..n : blocks[i] \in BlockSet
  BY DEF BlockList
<1>2. ASSUME NEW i \in 1..n
      PROVE  /\ blocks[i].program \in Programs /\ blocks[i].restored \in Seq(Nat)
             /\ PayloadCells[blocks[i].program] \in Nat \ {0} /\ Len(blocks[i].restored) \in Nat
  <2>1. blocks[i].program \in Programs /\ blocks[i].restored \in Seq(Nat)
    BY <1>1 DEF BlockSet
  <2> QED
    BY <2>1, ProgramsAssumption
<1> QED
  BY <1>1, <1>2 DEF PayloadLengths, RestoredLengths

LEMMA TotalsAre ==
    ASSUME NEW blocks \in BlockList, NEW n, n = Len(blocks)
    PROVE  /\ Total(PayloadLengths(blocks)) = SumTo(PayloadLengths(blocks), n)
           /\ Total(RestoredLengths(blocks)) = SumTo(RestoredLengths(blocks), n)
<1>1. /\ PayloadLengths(blocks) = [i \in 1..n |-> PayloadLengths(blocks)[i]]
      /\ RestoredLengths(blocks) = [i \in 1..n |-> RestoredLengths(blocks)[i]]
  BY BlocksAre
<1> QED
  BY <1>1 DEF SumTo

(* A record begins where the blocks before it end. *)
LEMMA RecordIs ==
    ASSUME NEW blocks \in BlockList, NEW n, n = Len(blocks), NEW k \in 1..n
    PROVE  /\ EncodeRecord(blocks, k).offset = SumTo(RestoredLengths(blocks), k - 1)
           /\ EncodeRecord(blocks, k).payloadOffset
                = PayloadStart(n) + SumTo(PayloadLengths(blocks), k - 1)
<1>0. PICK before, m : before = SubSeq(blocks, 1, k - 1) /\ m = k - 1
  OBVIOUS
<1>1. n \in Nat /\ m \in Nat /\ m <= n
  BY <1>0, BlocksAre
<1>2. \A i \in 1..m : i \in 1..n /\ blocks[i] \in BlockSet
  BY <1>1 DEF BlockList
<1>3. Len(before) = m /\ \A i \in 1..m : before[i] = blocks[i]
  BY <1>0, <1>1, <1>2 DEF BlockList
<1>4. /\ PayloadLengths(before) = [i \in 1..m |-> PayloadLengths(blocks)[i]]
      /\ RestoredLengths(before) = [i \in 1..m |-> RestoredLengths(blocks)[i]]
  BY <1>2, <1>3 DEF PayloadLengths, RestoredLengths
<1> QED
  BY <1>0, <1>4 DEF EncodeRecord, SumTo

LEMMA SerializedIs ==
    ASSUME NEW program \in Programs
    PROVE  /\ Serialized(program) \in Seq(CellWords)
           /\ Len(Serialized(program)) = PayloadCells[program]
<1>0. PICK n : n = PayloadCells[program]
  OBVIOUS
<1>1. n \in Nat
  BY <1>0, ProgramsAssumption
<1>2. PICK s : s = Serialized(program)
  OBVIOUS
<1>3. \A i \in 1..n : s[i] \in CellWords
  BY <1>0, <1>1, <1>2 DEF Serialized, CellWords
<1>4. s = [i \in 1..n |-> s[i]]
  BY <1>0, <1>2 DEF Serialized
<1>5. s \in Seq(CellWords) /\ Len(s) = n
  BY <1>1, <1>3, <1>4
<1> QED
  BY <1>0, <1>2, <1>5

LEMMA SerializedOnce ==
    ASSUME NEW p \in Programs, NEW q \in Programs, Serialized(p) = Serialized(q)
    PROVE  p = q
<1>1. PayloadCells[p] \in Nat \ {0} /\ PayloadCells[q] \in Nat \ {0}
  BY ProgramsAssumption
<1>2. 1 \in 1..PayloadCells[p] /\ 1 \in 1..PayloadCells[q]
  BY <1>1
<1>3. Serialized(p)[1].program = p /\ Serialized(q)[1].program = q
  BY <1>2 DEF Serialized
<1> QED
  BY <1>3

(* An encoded archive of n blocks and m payload cells, and its parts. *)
EncodedParts(blocks, n, m, whole) ==
    LET cells == FlattenSeq(Parts(blocks))
        prefix == <<EncodeHeader(blocks)>> \o Records(blocks) \o cells
    IN  /\ n \in Nat /\ m \in Nat /\ Len(whole) = n + m + 2
        /\ whole[1] = EncodeHeader(blocks)
        /\ SubSeq(whole, 2, n + 1) = Records(blocks)
        /\ SubSeq(whole, n + 2, n + 1 + m) = cells
        /\ SubSeq(whole, 1, n + 1 + m) = prefix /\ Len(prefix) = n + 1 + m
        /\ whole[n + m + 2] = EncodeFooter(Records(blocks), cells, prefix)
        /\ \A k \in 1..n :
             SubSeq(whole, n + 1 + SumTo(PayloadLengths(blocks), k - 1) + 1,
                    n + 1 + SumTo(PayloadLengths(blocks), k - 1) + PayloadLengths(blocks)[k])
               = Serialized(blocks[k].program)

LEMMA EncodeIs ==
    ASSUME NEW blocks \in BlockList, NEW n, n = Len(blocks),
           NEW m, m = SumTo(PayloadLengths(blocks), n),
           NEW whole, whole = Encode(blocks)
    PROVE  EncodedParts(blocks, n, m, whole)
<1>0. PICK cells, prefix, records, first, last, sizes :
        /\ cells = FlattenSeq(Parts(blocks)) /\ records = Records(blocks)
        /\ first = EncodeHeader(blocks) /\ prefix = <<first>> \o records \o cells
        /\ last = EncodeFooter(records, cells, prefix) /\ sizes = PayloadLengths(blocks)
  OBVIOUS
<1> DEFINE S == {first, last} \cup {records[i] : i \in 1..n} \cup CellWords
<1>1. /\ n \in Nat /\ sizes \in [1..n -> Nat]
      /\ \A i \in 1..n : sizes[i] \in Nat \ {0} /\ sizes[i] = PayloadCells[blocks[i].program]
                         /\ blocks[i].program \in Programs
  BY <1>0, BlocksAre
<1>2. \A i \in 1..n : /\ Parts(blocks)[i] = Serialized(blocks[i].program)
                      /\ Parts(blocks)[i] \in Seq(CellWords) /\ sizes[i] = Len(Parts(blocks)[i])
  BY <1>1, SerializedIs DEF Parts
<1>3. cells = JoinTo(Parts(blocks), n)
  <2>1. Parts(blocks) = [i \in 1..n |-> Parts(blocks)[i]]
    BY DEF Parts
  <2> QED
    BY <1>0, <2>1 DEF JoinTo
<1>4. cells \in Seq(CellWords) /\ Len(cells) = m /\ m \in Nat
  <2>1. n \in 0..n /\ Sized(CellWords, n, Parts(blocks), sizes)
    BY <1>1, <1>2 DEF Sized
  <2> QED
    BY <1>0, <1>1, <1>3, <2>1, JoinToIs, SumToNat
<1>5. cells \in Seq(S) /\ records \in Seq(S) /\ first \in S /\ last \in S /\ Len(records) = n
  <2>1. cells \in Seq(S)
    BY <1>4 DEF S
  <2>2. records = [i \in 1..n |-> records[i]]
    BY <1>0 DEF Records
  <2> QED
    BY <1>1, <2>1, <2>2 DEF S
<1> HIDE DEF S
<1>6. prefix \in Seq(S) /\ Len(prefix) = n + 1 + m
  <2>0. PICK h, a : h = <<first>> /\ a = h \o records
    OBVIOUS
  <2>1. h \in Seq(S) /\ Len(h) = 1
    BY <1>5, <2>0
  <2>2. a \in Seq(S) /\ Len(a) = 1 + n
    BY <1>5, <2>0, <2>1, ConcatProperties
  <2>3. prefix = a \o cells
    BY <1>0, <2>0
  <2>4. a \o cells \in Seq(S) /\ Len(a \o cells) = Len(a) + Len(cells)
    BY <1>5, <2>2, ConcatProperties
  <2> QED
    BY <1>1, <1>4, <2>2, <2>3, <2>4
<1>7. whole = prefix \o <<last>>
  <2>1. whole = Append(prefix, last)
    BY <1>0 DEF Encode, Records, Parts
  <2> QED
    BY <1>5, <1>6, <2>1, AppendIsConcat
<1>8. ArchiveParts(S, first, records, cells, last, prefix, whole, n, m)
  BY <1>0, <1>1, <1>4, <1>5, <1>7, WholeIs
<1>9. ASSUME NEW k \in 1..n
      PROVE  SubSeq(whole, n + 1 + SumTo(sizes, k - 1) + 1, n + 1 + SumTo(sizes, k - 1) + sizes[k])
               = Serialized(blocks[k].program)
  <2>0. PICK start, many : start = SumTo(sizes, k - 1) /\ many = sizes[k]
    OBVIOUS
  <2>1. k - 1 \in 0..n /\ k \in 0..n /\ k - 1 \in Nat /\ (k - 1) + 1 = k /\ n \in 0..n /\ k <= n
    BY <1>1
  <2>2. start \in Nat /\ many \in Nat \ {0} /\ SumTo(sizes, k) = start + many
    BY <1>1, <2>0, <2>1, SumToNat, SumToNext
  <2>3. start + many <= m
    <3>1. sizes \in [1..n -> Nat] /\ SumTo(sizes, n) = m
      BY <1>0, <1>1
    <3>2. SumTo(sizes, k) <= SumTo(sizes, n)
      BY <1>1, <2>1, <3>1, SumToGrows, SMTT(40)
    <3> QED
      BY <2>2, <3>1, <3>2
  <2>4. SubSeq(whole, n + 1 + start + 1, n + 1 + start + many)
          = SubSeq(cells, start + 1, start + many)
    BY <1>8, <2>2, <2>3 DEF ArchiveParts
  <2>5. SubSeq(cells, SumTo(sizes, k - 1) + 1, SumTo(sizes, k)) = Parts(blocks)[k]
    <3>1. Sized(CellWords, n, Parts(blocks), sizes) /\ \A i \in 1..n : sizes[i] # 0
      BY <1>1, <1>2 DEF Sized
    <3> QED
      BY <1>3, <3>1, JoinToParts
  <2> QED
    BY <1>2, <2>0, <2>2, <2>4, <2>5
<1>10. SubSeq(whole, 2, n + 1) = records /\ SubSeq(whole, n + 2, n + 1 + m) = cells
       /\ Len(whole) = n + m + 2 /\ whole[1] = first /\ whole[n + m + 2] = last
       /\ SubSeq(whole, 1, n + 1 + m) = prefix
  BY <1>8 DEF ArchiveParts
<1> QED
  BY <1>0, <1>1, <1>4, <1>6, <1>9, <1>10 DEF EncodedParts

(* Only honest blocks are accepted. *)
LEMMA AcceptedIsHonest ==
    ASSUME NEW blocks \in BlockList, InMemoryAccepts(Encode(blocks))
    PROVE  Honest(blocks)
<1>0. PICK n, m, whole, first :
        /\ n = Len(blocks) /\ m = SumTo(PayloadLengths(blocks), n)
        /\ whole = Encode(blocks) /\ first = EncodeHeader(blocks)
  OBVIOUS
<1>1. n \in Nat /\ whole[1] = first /\ SubSeq(whole, 2, n + 1) = Records(blocks)
  <2>1. EncodedParts(blocks, n, m, whole)
    BY <1>0, EncodeIs
  <2> QED
    BY <1>0, <2>1 DEF EncodedParts
<1>2. first.blockCount = n /\ first.payloadOffset = 1 + n
  BY <1>0, <1>1 DEF EncodeHeader, PayloadStart, HeaderWords, RecordWords
<1>3. SUFFICES ASSUME NEW i \in 1..n PROVE Restores[blocks[i].program] = blocks[i].restored
  BY <1>0 DEF Honest
<1>4. n # 0
  BY <1>1
<1>5. BlocksVerify(whole, first, Records(blocks))
  <2>1. SubSeq(whole, 2, first.payloadOffset) = Records(blocks)
    <3>1. 1 + n = n + 1
      BY <1>1
    <3> QED
      BY <1>1, <1>2, <3>1
  <2>2. InMemoryAccepts(whole)
    BY <1>0
  <2>3. BlocksVerify(whole, whole[1], SubSeq(whole, 2, whole[1].payloadOffset))
    BY <1>1, <1>2, <1>4, <2>2 DEF InMemoryAccepts
  <2> QED
    BY <1>1, <2>1, <2>3
<1>6. /\ Len(Records(blocks)) = n
      /\ Records(blocks)[i].payloadHash = Serialized(blocks[i].program)
      /\ Records(blocks)[i].restoredHash = blocks[i].restored
  BY <1>0, <1>1 DEF Records, EncodeRecord
<1>7. PICK payload0 : Verifies(payload0, Records(blocks)[i])
  BY <1>1, <1>5, <1>6 DEF BlocksVerify
<1>8. PICK program \in Programs : /\ Serialized(program) = Serialized(blocks[i].program)
                                  /\ Restores[program] = blocks[i].restored
  BY <1>6, <1>7 DEF Verifies, Parses
<1>9. blocks[i].program = program
  BY <1>0, <1>8, BlocksAre, SerializedOnce
<1> QED
  BY <1>8, <1>9

RecordFields(blocks, n, i, r) ==
    /\ r.kind = "record" /\ r.length = RestoredLengths(blocks)[i]
    /\ r.payloadLength = PayloadLengths(blocks)[i]
    /\ r.nodes = NodeCount[blocks[i].program]
    /\ r.restoredHash = blocks[i].restored
    /\ r.payloadHash = Serialized(blocks[i].program)
    /\ r.offset = SumTo(RestoredLengths(blocks), i - 1)
    /\ r.payloadOffset = 1 + n + SumTo(PayloadLengths(blocks), i - 1)

LEMMA RecordFieldsAre ==
    ASSUME NEW blocks \in BlockList, NEW n, n = Len(blocks), NEW i \in 1..n, NEW r,
           r = Records(blocks)[i]
    PROVE  RecordFields(blocks, n, i, r)
<1>1. n \in Nat /\ r = EncodeRecord(blocks, i)
  BY BlocksAre DEF Records
<1>2. /\ RestoredLengths(blocks)[i] = Len(blocks[i].restored)
      /\ PayloadLengths(blocks)[i] = PayloadCells[blocks[i].program]
  BY BlocksAre
<1>3. /\ r.offset = SumTo(RestoredLengths(blocks), i - 1)
      /\ r.payloadOffset = PayloadStart(n) + SumTo(PayloadLengths(blocks), i - 1)
  BY <1>1, RecordIs
<1>4. PayloadStart(n) = 1 + n
  BY <1>1 DEF PayloadStart, HeaderWords, RecordWords
<1>5. /\ r.kind = "record" /\ r.length = Len(blocks[i].restored)
      /\ r.payloadLength = PayloadCells[blocks[i].program]
      /\ r.nodes = NodeCount[blocks[i].program]
      /\ r.restoredHash = blocks[i].restored
      /\ r.payloadHash = Serialized(blocks[i].program)
  BY <1>1 DEF EncodeRecord
<1> QED
  BY <1>2, <1>3, <1>4, <1>5 DEF RecordFields

LEMMA HeaderFieldsAre ==
    ASSUME NEW blocks \in BlockList, NEW n, n = Len(blocks),
           NEW m, m = SumTo(PayloadLengths(blocks), n), NEW first, first = EncodeHeader(blocks)
    PROVE  /\ first.kind = "header" /\ first.blockCount = n /\ first.directoryBytes = n
           /\ first.originalSize = SumTo(RestoredLengths(blocks), n)
           /\ first.payloadOffset = 1 + n /\ first.payloadBytes = m
           /\ first.footerOffset = 1 + n + m
           /\ first.nodes = Total(Nodes(blocks)) /\ first.originalHash = Restored(blocks)
<1>1. n \in Nat
  BY BlocksAre
<1>2. PayloadStart(n) = 1 + n /\ n * RecordWords = n
  BY <1>1 DEF PayloadStart, HeaderWords, RecordWords
<1> QED
  BY <1>2, TotalsAre DEF EncodeHeader

LEMMA EncodedTiles ==
    ASSUME NEW blocks \in BlockList, Encodes(blocks, DecoderLimits),
           NEW first, first = EncodeHeader(blocks)
    PROVE  RecordsTile(first, Records(blocks))
<1>0. PICK n, records, lengths, sizes :
        /\ n = Len(blocks) /\ records = Records(blocks)
        /\ lengths = RestoredLengths(blocks) /\ sizes = PayloadLengths(blocks)
  OBVIOUS
<1>1. /\ n \in Nat /\ lengths \in [1..n -> Nat] /\ sizes \in [1..n -> Nat]
      /\ \A i \in 1..n : /\ sizes[i] \in Nat \ {0} /\ sizes[i] = PayloadCells[blocks[i].program]
                         /\ lengths[i] = Len(blocks[i].restored)
                         /\ blocks[i].program \in Programs
  BY <1>0, BlocksAre
<1>2. Len(records) = n
  BY <1>0, <1>1 DEF Records
<1>3. first.payloadOffset = 1 + n
  BY <1>0, HeaderFieldsAre
<1> SUFFICES ASSUME NEW i \in 1..n
             PROVE  /\ RecordFits(records[i]) /\ records[i].length > 0
                    /\ records[i].offset =
                         IF i = 1 THEN 0 ELSE records[i-1].offset + records[i-1].length
                    /\ records[i].payloadOffset =
                         IF i = 1 THEN first.payloadOffset
                                  ELSE records[i-1].payloadOffset + records[i-1].payloadLength
  BY <1>0, <1>2 DEF RecordsTile
<1>4. /\ records[i].kind = "record" /\ records[i].length = lengths[i]
      /\ records[i].payloadLength = sizes[i] /\ records[i].nodes = NodeCount[blocks[i].program]
      /\ records[i].offset = SumTo(lengths, i - 1)
      /\ records[i].payloadOffset = 1 + n + SumTo(sizes, i - 1)
  BY <1>0, RecordFieldsAre DEF RecordFields
<1>5. Preparable(blocks[i], DecoderLimits)
  BY <1>0 DEF Encodes
<1>6. /\ lengths[i] > 0 /\ lengths[i] <= DecoderLimits.blockOutput
      /\ sizes[i] <= DecoderLimits.blockPayload
  BY <1>1, <1>5 DEF Preparable
<1>7. NodeCount[blocks[i].program] > 0
  BY <1>1, ProgramsAssumption
<1>8. RecordFits(records[i]) /\ records[i].length > 0
  BY <1>1, <1>4, <1>6, <1>7 DEF RecordFits, RecordShaped, BlockHeaderCells
<1>9. CASE i = 1
  <2>1. i - 1 = 0 /\ SumTo(lengths, 0) = 0 /\ SumTo(sizes, 0) = 0
    BY <1>9, SumToNone
  <2> QED
    BY <1>1, <1>3, <1>4, <1>8, <1>9, <2>1
<1>10. CASE i # 1
  <2>0. PICK j : j = i - 1
    OBVIOUS
  <2>1. j \in 1..n /\ j - 1 \in Nat /\ (j - 1) + 1 = j /\ j - 1 \in 0..n
    BY <1>1, <1>10, <2>0
  <2>2. /\ records[j].length = lengths[j] /\ records[j].payloadLength = sizes[j]
        /\ records[j].offset = SumTo(lengths, j - 1)
        /\ records[j].payloadOffset = 1 + n + SumTo(sizes, j - 1)
    <3>1. RecordFields(blocks, n, j, records[j])
      BY <1>0, <2>1, RecordFieldsAre
    <3> QED
      BY <1>0, <3>1 DEF RecordFields
  <2>3. /\ SumTo(lengths, j) = SumTo(lengths, j - 1) + lengths[j]
        /\ SumTo(sizes, j) = SumTo(sizes, j - 1) + sizes[j]
    BY <2>1, SumToNext
  <2>4. SumTo(sizes, j - 1) \in Nat /\ sizes[j] \in Nat
    BY <1>1, <2>1, SumToNat
  <2>5. records[i].offset = records[j].offset + records[j].length
    BY <1>4, <2>0, <2>2, <2>3
  <2>6. records[i].payloadOffset = records[j].payloadOffset + records[j].payloadLength
    BY <1>1, <1>4, <2>0, <2>2, <2>3, <2>4
  <2> QED
    BY <1>8, <1>10, <2>0, <2>5, <2>6
<1> QED
  BY <1>9, <1>10

LEMMA EncodedAddsUp ==
    ASSUME NEW blocks \in BlockList, Len(blocks) # 0, NEW first, first = EncodeHeader(blocks)
    PROVE  RecordsAddUp(first, Records(blocks))
<1>0. PICK n, m, records, lengths, sizes :
        /\ n = Len(blocks) /\ m = SumTo(sizes, n) /\ records = Records(blocks)
        /\ lengths = RestoredLengths(blocks) /\ sizes = PayloadLengths(blocks)
  OBVIOUS
<1>1. n \in Nat /\ lengths \in [1..n -> Nat] /\ sizes \in [1..n -> Nat]
  BY <1>0, BlocksAre
<1>2. Len(records) = n /\ n \in 1..n /\ n - 1 \in Nat /\ (n - 1) + 1 = n /\ n - 1 \in 0..n
  BY <1>0, <1>1 DEF Records
<1>3. /\ records[n].length = lengths[n] /\ records[n].payloadLength = sizes[n]
      /\ records[n].offset = SumTo(lengths, n - 1)
      /\ records[n].payloadOffset = 1 + n + SumTo(sizes, n - 1)
  BY <1>0, <1>2, RecordFieldsAre DEF RecordFields
<1>4. /\ first.originalSize = SumTo(lengths, n) /\ first.footerOffset = 1 + n + m
      /\ first.nodes = Total(Nodes(blocks))
  BY <1>0, HeaderFieldsAre
<1>5. /\ SumTo(lengths, n) = SumTo(lengths, n - 1) + lengths[n]
      /\ SumTo(sizes, n) = SumTo(sizes, n - 1) + sizes[n]
  BY <1>2, SumToNext
<1>6. SumTo(sizes, n - 1) \in Nat /\ sizes[n] \in Nat
  BY <1>1, <1>2, SumToNat
<1>7. records[n].offset + records[n].length = first.originalSize
  BY <1>3, <1>4, <1>5
<1>8. records[n].payloadOffset + records[n].payloadLength = first.footerOffset
  <2>0. PICK a, b, at, many, end :
          /\ a = SumTo(sizes, n - 1) /\ b = sizes[n] /\ at = records[n].payloadOffset
          /\ many = records[n].payloadLength /\ end = first.footerOffset
    OBVIOUS
  <2>1. at = 1 + n + a /\ many = b /\ end = 1 + n + m /\ m = a + b
    BY <1>0, <1>3, <1>4, <1>5, <2>0
  <2>2. n \in Nat /\ a \in Nat /\ b \in Nat
    BY <1>1, <1>6, <2>0
  <2>3. at + many = end
    BY <2>1, <2>2
  <2> QED
    BY <2>0, <2>3
<1>9. [i \in 1..Len(records) |-> records[i].nodes] = Nodes(blocks)
  <2>1. \A i \in 1..n : records[i].nodes = NodeCount[blocks[i].program]
    BY <1>0, RecordFieldsAre DEF RecordFields
  <2> QED
    BY <1>0, <1>2, <2>1 DEF Nodes
<1> QED
  BY <1>0, <1>2, <1>4, <1>7, <1>8, <1>9 DEF RecordsAddUp

LEMMA EncodedVerifies ==
    ASSUME NEW blocks \in BlockList, Honest(blocks), NEW whole, whole = Encode(blocks),
           NEW first, first = EncodeHeader(blocks)
    PROVE  BlocksVerify(whole, first, Records(blocks))
<1>0. PICK n, records, sizes :
        n = Len(blocks) /\ records = Records(blocks) /\ sizes = PayloadLengths(blocks)
  OBVIOUS
<1>1. /\ n \in Nat /\ sizes \in [1..n -> Nat]
      /\ \A i \in 1..n : /\ sizes[i] \in Nat \ {0}
                         /\ RestoredLengths(blocks)[i] = Len(blocks[i].restored)
                         /\ blocks[i].program \in Programs
  BY ZenonT(60), <1>0, BlocksAre
<1>2. Len(records) = n
  BY <1>0, <1>1 DEF Records
<1>3. ASSUME NEW i \in 1..n
      PROVE  Verifies(SubSeq(whole, records[i].payloadOffset + 1,
                             records[i].payloadOffset + records[i].payloadLength), records[i])
  <2>0. PICK start, r, program :
          start = SumTo(sizes, i - 1) /\ r = records[i] /\ program = blocks[i].program
    OBVIOUS
  <2>1. start \in Nat /\ sizes[i] \in Nat /\ program \in Programs
    <3>1. i - 1 \in 0..n
      BY <1>1
    <3> QED
      BY <1>1, <2>0, <3>1, SumToNat
  <2>2. /\ r.payloadOffset = 1 + n + start /\ r.payloadLength = sizes[i]
        /\ r.length = Len(blocks[i].restored) /\ r.nodes = NodeCount[program]
        /\ r.restoredHash = blocks[i].restored /\ r.payloadHash = Serialized(program)
    <3>1. RecordFields(blocks, n, i, r)
      BY <1>0, <2>0, RecordFieldsAre
    <3> QED
      BY <1>0, <1>1, <2>0, <3>1 DEF RecordFields
  <2>3. SubSeq(whole, n + 1 + start + 1, n + 1 + start + sizes[i]) = Serialized(program)
    <3>1. EncodedParts(blocks, n, SumTo(sizes, n), whole)
      BY <1>0, EncodeIs
    <3> QED
      BY <1>0, <2>0, <3>1 DEF EncodedParts
  <2>4. /\ r.payloadOffset + 1 = n + 1 + start + 1
        /\ r.payloadOffset + r.payloadLength = n + 1 + start + sizes[i]
    BY <1>1, <2>1, <2>2
  <2>5. SubSeq(whole, r.payloadOffset + 1, r.payloadOffset + r.payloadLength)
          = Serialized(program)
    BY <2>3, <2>4
  <2>6. Restores[program] = blocks[i].restored
    BY <1>0, <2>0 DEF Honest
  <2>7. Verifies(Serialized(program), r)
    BY <2>1, <2>2, <2>6 DEF Verifies, Parses
  <2> QED
    BY <2>0, <2>5, <2>7
<1>4. first.originalHash = FlattenSeq([i \in 1..Len(records) |-> records[i].restoredHash])
  <2>1. \A i \in 1..n : records[i].restoredHash = blocks[i].restored
    BY <1>0, RecordFieldsAre DEF RecordFields
  <2>2. [i \in 1..Len(records) |-> records[i].restoredHash]
          = [i \in 1..Len(blocks) |-> blocks[i].restored]
    BY <1>0, <1>2, <2>1
  <2>3. first.originalHash = Restored(blocks)
    BY HeaderFieldsAre
  <2> QED
    BY <2>2, <2>3 DEF Restored
<1> QED
  BY <1>0, <1>2, <1>3, <1>4 DEF BlocksVerify

(* What an encoder within the decoder's limits writes of honest blocks is  *)
(* accepted.                                                               *)
LEMMA EncodedIsAccepted ==
    ASSUME NEW blocks \in BlockList, Honest(blocks), Encodes(blocks, DecoderLimits)
    PROVE  InMemoryAccepts(Encode(blocks))
<1>0. PICK n, m, whole, first, records, cells, prefix :
        /\ n = Len(blocks) /\ m = SumTo(PayloadLengths(blocks), n)
        /\ whole = Encode(blocks) /\ first = EncodeHeader(blocks)
        /\ records = Records(blocks) /\ cells = FlattenSeq(Parts(blocks))
        /\ prefix = <<first>> \o records \o cells
  OBVIOUS
<1>1. /\ n \in Nat /\ m \in Nat /\ Len(whole) = n + m + 2 /\ whole[1] = first
      /\ SubSeq(whole, 2, n + 1) = records /\ SubSeq(whole, n + 2, n + 1 + m) = cells
      /\ SubSeq(whole, 1, n + 1 + m) = prefix /\ Len(prefix) = n + 1 + m
      /\ whole[n + m + 2] = EncodeFooter(records, cells, prefix)
  <2>1. EncodedParts(blocks, n, m, whole)
    BY <1>0, EncodeIs
  <2> QED
    BY <1>0, <2>1 DEF EncodedParts
<1>2. /\ first.kind = "header" /\ first.blockCount = n /\ first.directoryBytes = n
      /\ first.originalSize = SumTo(RestoredLengths(blocks), n)
      /\ first.payloadOffset = 1 + n /\ first.payloadBytes = m
      /\ first.footerOffset = 1 + n + m
      /\ first.nodes = Total(Nodes(blocks)) /\ first.originalHash = Restored(blocks)
  BY <1>0, HeaderFieldsAre
<1>3. /\ Len(whole) <= DecoderLimits.archive
      /\ first.originalSize <= DecoderLimits.output
  BY <1>0, <1>2, TotalsAre DEF Encodes
<1>4. Len(whole) >= MinArchive
  BY <1>1 DEF MinArchive, HeaderWords, FooterWords
<1>5. HeaderFits(first, Len(whole))
  <2>1. /\ first.directoryBytes = first.blockCount * RecordWords
        /\ first.payloadOffset = HeaderWords + first.directoryBytes
        /\ first.footerOffset = first.payloadOffset + first.payloadBytes
        /\ Len(whole) = first.footerOffset + FooterWords
    BY <1>1, <1>2 DEF HeaderWords, RecordWords, FooterWords
  <2> QED
    BY <1>2, <1>3, <2>1 DEF HeaderFits, HeaderUnlimited
<1>6. /\ SubSeq(whole, 2, first.payloadOffset) = records
      /\ SubSeq(whole, first.payloadOffset + 1, first.footerOffset) = cells
      /\ SubSeq(whole, 1, first.footerOffset) = prefix
  <2>1. /\ first.payloadOffset = n + 1 /\ first.payloadOffset + 1 = n + 2
        /\ first.footerOffset = n + 1 + m
    BY <1>1, <1>2
  <2> QED
    BY <1>1, <2>1
<1>7. FooterMatches(whole[Len(whole)], records, cells, prefix, Len(whole))
  <2>0. PICK last : last = EncodeFooter(records, cells, prefix)
    OBVIOUS
  <2>1. /\ last.kind = "footer" /\ last.directoryHash = records /\ last.payloadHash = cells
        /\ last.prefixHash = prefix /\ last.archiveBytes = Len(prefix) + FooterWords
    BY <2>0 DEF EncodeFooter
  <2>2. last.archiveBytes = Len(whole) /\ whole[Len(whole)] = last
    BY <1>1, <2>0, <2>1 DEF FooterWords
  <2> QED
    BY <2>1, <2>2 DEF FooterMatches
<1>8. CASE n = 0
  <2>1. first.originalSize = 0 /\ first.payloadBytes = 0
    BY <1>0, <1>2, <1>8, SumToNone
  <2>2. Nodes(blocks) = <<>> /\ [i \in 1..Len(blocks) |-> blocks[i].restored] = <<>>
    BY <1>0, <1>8 DEF Nodes
  <2>3. Total(<<>>) = 0
    BY TotalEmpty
  <2>4. Restored(blocks) = <<>>
    BY <2>2, FlattenEmpty DEF Restored
  <2>5. EmptyHeader(first)
    BY <1>2, <2>1, <2>2, <2>3, <2>4 DEF EmptyHeader
  <2> QED
    BY <1>0, <1>1, <1>2, <1>3, <1>4, <1>5, <1>6, <1>7, <1>8, <2>5 DEF InMemoryAccepts
<1>9. CASE n # 0
  <2>1. first.originalSize > 0
    <3>0. PICK lengths : lengths = RestoredLengths(blocks)
      OBVIOUS
    <3>1. 1 \in 1..n /\ 1 \in 0..n /\ n \in 0..n /\ 1 <= n
      BY <1>1, <1>9
    <3>2. lengths \in [1..n -> Nat] /\ lengths[1] = Len(blocks[1].restored)
      BY <1>0, <3>0, <3>1, BlocksAre
    <3>3. lengths[1] > 0
      BY <1>0, <3>1, <3>2 DEF Encodes, Preparable
    <3>4. SumTo(lengths, 0) = 0 /\ SumTo(lengths, 0 + 1) = SumTo(lengths, 0) + lengths[0 + 1]
      BY SumToNone, SumToNext
    <3>5. SumTo(lengths, 1) <= SumTo(lengths, n)
      BY <1>1, <3>1, <3>2, SumToGrows
    <3>6. SumTo(lengths, 1) \in Nat /\ SumTo(lengths, n) \in Nat
      BY <1>1, <3>1, <3>2, SumToNat
    <3>7. SumTo(lengths, 1) = lengths[1]
      <4>1. lengths[1] \in Nat
        BY <3>1, <3>2
      <4> QED
        BY <3>4, <4>1
    <3> QED
      BY <1>2, <3>0, <3>3, <3>5, <3>6, <3>7
  <2>2. /\ RecordsTile(first, records) /\ RecordsAddUp(first, records)
        /\ BlocksVerify(whole, first, records)
    BY <1>0, <1>9, EncodedTiles, EncodedAddsUp, EncodedVerifies
  <2> QED
    BY <1>0, <1>1, <1>2, <1>3, <1>4, <1>5, <1>6, <1>7, <1>9, <2>1, <2>2 DEF InMemoryAccepts
<1> QED
  BY <1>8, <1>9

(* What the stream decoder says of an encoded archive left alone.          *)
LEMMA FormatHolds == IInv /\ DecodeInv /\ VerdictInv => AgreesWithFormat
<1> SUFFICES ASSUME IInv, DecodeInv, VerdictInv PROVE HonestRestores
  BY VerdictHolds DEF AgreesWithFormat
<1> SUFFICES ASSUME NEW blocks \in Inputs, writes = 0, file = Encode(blocks)
             PROVE  /\ pc = "accepted" => Honest(blocks) /\ spool = Restored(blocks)
                    /\ failure = "format" => ~(Honest(blocks) /\ Encodes(blocks, DecoderLimits))
  BY DEF HonestRestores
<1>1. blocks \in BlockList
  BY InputsAssumption DEF BlockList, BlockSet
<1>2. /\ pc = "accepted" => InMemoryAccepts(file)
      /\ failure = "format" => ~InMemoryAccepts(file)
  BY VerdictHolds DEF SameVerdictAsInMemory
<1>3. ASSUME pc = "accepted" PROVE Honest(blocks) /\ spool = Restored(blocks)
  <2>1. Honest(blocks)
    BY <1>1, <1>2, <1>3, AcceptedIsHonest
  <2>2. spool = header.originalHash
    BY <1>3, AcceptedHolds DEF AcceptedIsOneArchive
  <2>first. header = file[1]
    BY <1>3 DEF VerdictInv, CleanInv, AfterHeader
  <2>4. file[1] = EncodeHeader(blocks)
    BY <1>1, EncodeIs DEF EncodedParts
  <2>5. EncodeHeader(blocks).originalHash = Restored(blocks)
    BY <1>1, HeaderFieldsAre
  <2> QED
    BY <2>1, <2>2, <2>first, <2>4, <2>5
<1>4. ASSUME failure = "format" PROVE ~(Honest(blocks) /\ Encodes(blocks, DecoderLimits))
  BY <1>1, <1>2, <1>4, EncodedIsAccepted
<1> QED
  BY <1>3, <1>4

(* encode_archive and decode_archive_stream keep the same format: for      *)
(* every list of blocks, an archive left alone is accepted only if every   *)
(* program restores its bytes, and the spool is then those bytes; and it   *)
(* is never rejected if they all do and the decoder's limits allow them.   *)
THEOREM FormatIsKept == Spec => []AgreesWithFormat
<1>1. Init => IInv /\ DecodeInv /\ VerdictInv
  BY InitIInv, InitDecode, InitVerdict
<1>2. (IInv /\ DecodeInv /\ VerdictInv) /\ [Next]_vars => (IInv /\ DecodeInv /\ VerdictInv)'
  BY StepIInv, StepDecode, StepVerdict
<1> QED
  BY <1>1, <1>2, FormatHolds, PTL DEF Spec
================================================================================
