---------------------------- MODULE Hello_proofs ----------------------------
(***************************************************************************)
(* Proofs about Hellos (HelloCodec) and about the OSPF part of the router  *)
(* program (HelloExchange): the arithmetic of the checksum, for every      *)
(* packet; that a Hello is read as it was built, for every Hello; that a   *)
(* Hello which is accepted is the one that was sent, whatever HelloCodec   *)
(* does to it on the way; and, for any addresses, interfaces and number of *)
(* packets, that the program does not answer itself, reads its own device  *)
(* only, and is understood.                                                *)
(***************************************************************************)
EXTENDS HelloExchange, HelloCodec, SequenceFacts

-----------------------------------------------------------------------------
(* The folding of the checksum. *)

\* One fold of calculate_final_result, for a word of any size.
FoldAt(m, sum) == (sum % m) + (sum \div m)

\* Equal modulo m - 1, and zero together: the same ones' complement number.
Equivalent(m, a, b) == /\ \E c \in Int : a = b + (m - 1) * c
                       /\ a = 0 <=> b = 0

\* Quotient and remainder, as every fold takes them.
LEMMA DivMod ==
  ASSUME NEW s \in Nat, NEW m \in Nat, m > 0
  PROVE  /\ s = m * (s \div m) + (s % m)
         /\ s \div m \in Nat /\ s % m \in 0 .. m - 1
  OBVIOUS

\* They are the only ones.
LEMMA DivModUnique ==
  ASSUME NEW m \in Nat, m > 0, NEW q \in Nat, NEW r \in 0 .. m - 1
  PROVE  (m * q + r) \div m = q /\ (m * q + r) % m = r
  OBVIOUS

\* A fold keeps the ones' complement number.
LEMMA FoldKeeps ==
  ASSUME NEW m \in Nat, m > 1, NEW s \in Nat
  PROVE  FoldAt(m, s) \in Nat /\ Equivalent(m, s, FoldAt(m, s))
<1> DEFINE q == s \div m
           r == s % m
<1>1. s = m * q + r /\ q \in Nat /\ r \in Nat
  BY DivMod
<1>2. FoldAt(m, s) = q + r
  BY <1>1 DEF FoldAt
<1> HIDE DEF q, r
<1>3. s = (q + r) + (m - 1) * q
  BY <1>1
<1>4. s = 0 <=> q + r = 0
  <2>1. (m - 1) * q \in Nat
    BY <1>1
  <2>2. q = 0 => (m - 1) * q = 0
    BY <1>1
  <2>3. QED
    BY <1>1, <1>3, <2>1, <2>2
<1>5. \E c \in Int : s = (q + r) + (m - 1) * c
  <2>1. q \in Int
    BY <1>1
  <2>2. QED
    BY <1>3, <2>1
<1>6. Equivalent(m, s, q + r)
  BY <1>4, <1>5 DEF Equivalent
<1>7. QED
  BY <1>1, <1>2, <1>6

\* A fold of two words leaves at most twice the largest word.
LEMMA FoldOfTwoWords ==
  ASSUME NEW m \in Nat, m > 1, NEW s \in 0 .. m * m - 1
  PROVE  FoldAt(m, s) \in 0 .. 2 * m - 2
<1> DEFINE q == s \div m
           r == s % m
<1>1. s = m * q + r /\ q \in Nat /\ r \in 0 .. m - 1
  BY DivMod
<1>2. FoldAt(m, s) = q + r
  BY <1>1 DEF FoldAt
<1> HIDE DEF q, r
<1>3. q < m
  <2>1. SUFFICES ASSUME q >= m PROVE FALSE
    BY <1>1
  <2>2. m * q >= m * m
    BY <1>1, <2>1
  <2>3. s < m * m
    OBVIOUS
  <2>4. m * m \in Nat /\ m * q \in Nat /\ s \in Nat
    BY <1>1
  <2>5. QED
    BY <1>1, <2>2, <2>3, <2>4
<1>4. QED
  BY <1>1, <1>2, <1>3

\* What is left is a word, which another fold keeps, or carries once more.
LEMMA SecondFold ==
  ASSUME NEW m \in Nat, m > 1, NEW t \in 0 .. 2 * m - 2
  PROVE  FoldAt(m, t) = IF t < m THEN t ELSE (t - m) + 1
<1>1. CASE t < m
  <2>1. t \div m = 0 /\ t % m = t
    BY <1>1, DivModUnique, m * 0 + t = t
  <2>2. QED
    BY <1>1, <2>1 DEF FoldAt
<1>2. CASE t >= m
  <2>1. t \div m = 1 /\ t % m = t - m
    BY <1>2
  <2>2. QED
    BY <1>2, <2>1 DEF FoldAt
<1>3. QED
  BY <1>1, <1>2

\* Equivalence carries over from one fold to the next.
LEMMA EquivalentTransitive ==
  ASSUME NEW m \in Nat, NEW a \in Int, NEW b \in Int, NEW c \in Int,
         Equivalent(m, a, b), Equivalent(m, b, c)
  PROVE  Equivalent(m, a, c)
<1>1. PICK d \in Int : a = b + (m - 1) * d
  BY DEF Equivalent
<1>2. PICK e \in Int : b = c + (m - 1) * e
  BY DEF Equivalent
<1>3. d + e \in Int /\ a = c + (m - 1) * (d + e)
  BY <1>1, <1>2
<1>4. \E f \in Int : a = c + (m - 1) * f
  BY <1>3
<1>5. a = 0 <=> c = 0
  BY DEF Equivalent
<1>6. QED
  BY <1>4, <1>5 DEF Equivalent

\* The size of a word, of which the proofs use no more than this.
LEMMA WordSize == Word \in Nat /\ Word > 1 /\ Word - 1 = 65535
  BY DEF Word

\* The folds of Checksum are those.
LEMMA FoldIsFoldAt ==
  ASSUME NEW sum
  PROVE  Fold(sum) = FoldAt(Word, sum)
  BY DEF Fold, FoldAt

\* calculate_final_result gives the checksum of RFC 1071 for every sum of words it
\* can be given: what it inverts is one word, equal to the sum modulo 65535, and
\* zero only when all words are.
THEOREM ChecksumIsOnesComplement ==
  ASSUME NEW s \in 0 .. Word * Word - 1
  PROVE  /\ FinalResult(s) \in 0 .. Word - 1
         /\ Equivalent(Word, s, (Word - 1) - FinalResult(s))
<1>1. Word \in Nat /\ Word > 1 /\ Word * Word \in Nat
  BY WordSize
<1>2. s \in Nat
  BY <1>1
<1>3. Fold(s) \in Nat /\ Equivalent(Word, s, Fold(s))
  BY <1>1, <1>2, FoldKeeps, FoldIsFoldAt
<1>4. Fold(Fold(s)) \in 0 .. Word - 1
  <2>1. Fold(s) \in 0 .. 2 * Word - 2
    BY <1>1, FoldOfTwoWords, FoldIsFoldAt
  <2>2. Fold(Fold(s)) = IF Fold(s) < Word THEN Fold(s) ELSE (Fold(s) - Word) + 1
    BY <1>1, <2>1, SecondFold, FoldIsFoldAt
  <2>3. QED
    BY <1>1, <2>1, <2>2
<1>5. Equivalent(Word, Fold(s), Fold(Fold(s)))
  BY <1>1, <1>3, FoldKeeps, FoldIsFoldAt
<1>6. Equivalent(Word, s, Fold(Fold(s)))
  BY <1>1, <1>2, <1>3, <1>4, <1>5, EquivalentTransitive
<1>7. FinalResult(s) = (Word - 1) - Fold(Fold(s))
  BY WordSize DEF FinalResult
<1>8. (Word - 1) - FinalResult(s) = Fold(Fold(s))
  BY <1>1, <1>4, <1>7
<1>9. FinalResult(s) \in 0 .. Word - 1
  BY <1>1, <1>4, <1>7
<1>10. QED
  BY <1>6, <1>8, <1>9

\* ParseHeader folds once: it computes what BuildHeader put there just when the
\* fold leaves one word, and one more when a carry is left.
THEOREM OneFoldDecides ==
  ASSUME NEW s \in 0 .. Word * Word - 1
  PROVE  FinalResultFoldedOnce(s) = FinalResult(s) + (IF Fold(s) < Word THEN 0 ELSE 1)
<1> DEFINE t == Fold(s)
<1>1. Word \in Nat /\ Word > 1 /\ Word * Word \in Nat
  BY WordSize
<1>2. t \in 0 .. 2 * Word - 2
  BY <1>1, FoldOfTwoWords, FoldIsFoldAt
<1>3. Fold(t) = IF t < Word THEN t ELSE (t - Word) + 1
  BY <1>1, <1>2, SecondFold, FoldIsFoldAt
<1>4. FinalResult(s) = (Word - 1) - Fold(t)
  BY WordSize DEF FinalResult
<1>5. FinalResultFoldedOnce(s) = ((Word - 1) - t) % Word
  BY WordSize DEF FinalResultFoldedOnce
<1> HIDE DEF t
<1>6. CASE t < Word
  <2>1. ((Word - 1) - t) % Word = (Word - 1) - t
    <3>1. (Word - 1) - t \in 0 .. Word - 1
      BY <1>1, <1>2, <1>6
    <3>2. QED
      BY <1>1, <3>1, DivModUnique, Word * 0 + ((Word - 1) - t) = (Word - 1) - t
  <2>2. QED
    BY <1>1, <1>2, <1>3, <1>4, <1>5, <1>6, <2>1 DEF t
<1>7. CASE t >= Word
  <2>1. ((Word - 1) - t) % Word = ((Word - 1) - t) + Word
    BY <1>1, <1>2, <1>7
  <2>2. FinalResult(s) = (Word - 1) - ((t - Word) + 1)
    BY <1>1, <1>2, <1>3, <1>4, <1>7
  <2>3. FinalResultFoldedOnce(s) = FinalResult(s) + 1
    BY <1>1, <1>2, <1>5, <2>1, <2>2
  <2>4. QED
    BY <1>1, <1>2, <1>7, <2>3 DEF t
<1>8. QED
  BY <1>1, <1>2, <1>6, <1>7

-----------------------------------------------------------------------------
(* The sum of the words. *)

\* s[i] is the sum of the first i weights.
Sums(w, n, s) == s = [i \in 0 .. n |-> IF i = 0 THEN 0 ELSE s[i - 1] + w[i]]

\* What a byte is.
LEMMA ByteFacts == \A b : b \in Byte <=> b \in Nat /\ b <= 255
BY DEF Byte

\* A product grows with its factors.
LEMMA TimesMonotone ==
  ASSUME NEW a \in Nat, NEW b \in Nat, NEW c \in Nat, a <= b
  PROVE  a * c <= b * c
<1>1. PICK d \in Nat : b = a + d
  <2>1. b - a \in Nat /\ b = a + (b - a)
    OBVIOUS
  <2>2. QED
    BY <2>1
<1>2. (a + d) * c = a * c + d * c /\ d * c \in Nat /\ a * c \in Nat
  OBVIOUS
<1>3. QED
  BY <1>1, <1>2

\* There is such a function, as far as one likes.
LEMMA SumsExist ==
  ASSUME NEW n \in Nat, NEW w \in [1 .. n -> Nat]
  PROVE  \E s : Sums(w, n, s)
<1> DEFINE Upto(k, s) == /\ s \in [0 .. k -> Nat] /\ s[0] = 0
                         /\ \A i \in 1 .. k : s[i] = s[i - 1] + w[i]
           T == {k \in 0 .. n : \E s : Upto(k, s)}
<1>1. 0 \in T
  <2> DEFINE z == [i \in 0 .. 0 |-> 0]
  <2>1. z \in [0 .. 0 -> Nat] /\ z[0] = 0 /\ 1 .. 0 = {}
    OBVIOUS
  <2>2. Upto(0, z)
    BY <2>1
  <2> HIDE DEF Upto, z
  <2>3. QED
    BY <2>2
<1>2. ASSUME NEW k \in 0 .. n - 1, k \in T PROVE k + 1 \in T
  <2>1. PICK s : Upto(k, s)
    BY <1>2
  <2> DEFINE t == [i \in 0 .. k + 1 |-> IF i = k + 1 THEN s[k] + w[k + 1] ELSE s[i]]
  <2>2. s[k] \in Nat /\ w[k + 1] \in Nat
    BY <2>1
  <2>3. t \in [0 .. k + 1 -> Nat] /\ t[0] = 0
    BY <2>1, <2>2
  <2>4. ASSUME NEW i \in 1 .. k + 1 PROVE t[i] = t[i - 1] + w[i]
    <3>1. t[i - 1] = s[i - 1]
      BY <2>4
    <3>2. t[i] = IF i = k + 1 THEN s[k] + w[k + 1] ELSE s[i]
      BY <2>4
    <3>3. i # k + 1 => s[i] = s[i - 1] + w[i]
      BY <2>1, <2>4
    <3> HIDE DEF t
    <3>4. CASE i = k + 1
      <4>1. i - 1 = k
        BY <3>4
      <4>2. QED
        BY <3>1, <3>2, <3>4, <4>1
    <3>5. CASE i # k + 1
      BY <3>1, <3>2, <3>3, <3>5
    <3>6. QED
      BY <3>4, <3>5
  <2>5. Upto(k + 1, t)
    BY <2>3, <2>4
  <2> HIDE DEF Upto
  <2>6. QED
    BY <2>5
<1> HIDE DEF T
<1>3. n \in T
  <2>1. 0 .. n \subseteq T
    BY <1>1, <1>2, FiniteInduction
  <2>2. QED
    BY <2>1
<1>4. PICK s : Upto(n, s)
  BY <1>3 DEF T
<1>5. ASSUME NEW i \in 0 .. n
      PROVE  s[i] = IF i = 0 THEN 0 ELSE s[i - 1] + w[i]
  BY <1>4
<1>6. Sums(w, n, s)
  BY <1>4, <1>5 DEF Sums
<1>7. QED
  BY <1>6

\* What SumOf adds up, and how far it can come.
LEMMA SumFacts ==
  ASSUME NEW n \in Nat, NEW m \in Nat, NEW w \in [1 .. n -> 0 .. m]
  PROVE  \E s \in [0 .. n -> Nat] :
           /\ SumOf(w) = s[n] /\ s[0] = 0
           /\ \A i \in 1 .. n : s[i] = s[i - 1] + w[i]
           /\ s[n] <= m * n
<1> DEFINE s == CHOOSE f : Sums(w, n, f)
<1>1. Len(w) = n
  BY FunctionIsSeq
<1>2. SumOf(w) = s[n]
  BY <1>1 DEF SumOf, Sums
<1>3. Sums(w, n, s)
  BY SumsExist
<1> HIDE DEF s
<1>4. /\ DOMAIN s = 0 .. n /\ s[0] = 0
      /\ s = [i \in 0 .. n |-> s[i]]
      /\ \A i \in 1 .. n : s[i] = s[i - 1] + w[i]
  BY <1>3 DEF Sums
<1> DEFINE T == {k \in 0 .. n : s[k] \in Nat /\ s[k] <= m * k}
<1>5. 0 \in T
  BY <1>4
<1>6. ASSUME NEW k \in 0 .. n - 1, k \in T PROVE k + 1 \in T
  <2>1. k + 1 \in 1 .. n /\ (k + 1) - 1 = k
    OBVIOUS
  <2>2. s[k + 1] = s[k] + w[k + 1] /\ w[k + 1] \in 0 .. m
    BY <1>4, <2>1
  <2>3. s[k] \in Nat /\ s[k] <= m * k /\ m * k \in Nat /\ m * (k + 1) = m * k + m
    BY <1>6
  <2>4. s[k + 1] \in Nat /\ s[k + 1] <= m * (k + 1)
    BY <2>2, <2>3
  <2>5. QED
    BY <2>4
<1>7. 0 .. n \subseteq T
  <2> HIDE DEF T
  <2> QED BY <1>5, <1>6, FiniteInduction
<1>8. s \in [0 .. n -> Nat] /\ s[n] <= m * n
  BY <1>4, <1>7
<1>9. QED
  BY <1>2, <1>4, <1>8

\* The sum of a packet is one that ChecksumIsOnesComplement and OneFoldDecides are
\* about: so many bytes cannot bring it to two words.
LEMMA WordSumFacts ==
  ASSUME NEW data \in Seq(Byte), Len(data) < Word, NEW skipped
  PROVE  WordSum(data, skipped) \in 0 .. Word * Word - 1
<1> DEFINE n == Len(data)
           w == Weights(data, skipped)
<1>1. n \in Nat /\ \A i \in 1 .. n : data[i] \in Nat /\ data[i] <= 255
  BY ByteFacts
<1>2. PICK m : m = 65280
  OBVIOUS
<1>3. Word \in Nat /\ 256 * 255 = m /\ m \in Nat /\ m < Word /\ 255 <= m
  BY <1>2 DEF Word
<1>4. w \in [1 .. n -> 0 .. m]
  <2>1. ASSUME NEW i \in 1 .. n
        PROVE  (IF i - 1 \in skipped THEN 0 ELSE IF i % 2 = 1 THEN 256 * data[i] ELSE data[i])
                 \in 0 .. m
    BY <1>1, <1>3
  <2>2. QED
    BY <2>1 DEF Weights
<1> HIDE DEF w
<1>5. SumOf(w) \in Nat /\ SumOf(w) <= m * n
  <2>1. n \in Nat /\ m \in Nat
    BY <1>1, <1>3
  <2>2. PICK s \in [0 .. n -> Nat] : SumOf(w) = s[n] /\ s[n] <= m * n
    <3> HIDE DEF n
    <3> QED BY <1>4, <2>1, SumFacts
  <2>3. QED
    BY <2>1, <2>2
<1>6. m * n <= Word * n /\ Word * n <= Word * Word /\ m * n < Word * Word
  <2>1. /\ n \in Nat /\ m \in Nat /\ Word \in Nat /\ m + 1 <= Word /\ n <= Word /\ 0 < Word
    BY <1>1, <1>3
  <2> HIDE DEF n
  <2>2. m * n <= Word * n /\ n * Word <= Word * Word /\ n * m <= Word * m
    BY <2>1, TimesMonotone
  <2>3. Word * (m + 1) = Word * m + Word /\ (m + 1) * Word <= Word * Word
    BY <2>1, TimesMonotone
  <2>4. QED
    BY <2>1, <2>2, <2>3
<1>7. SumOf(w) \in Nat /\ SumOf(w) < Word * Word
  BY <1>1, <1>3, <1>5, <1>6
<1>8. QED
  BY <1>3, <1>7 DEF WordSum, w

-----------------------------------------------------------------------------
(* Packets put together. *)

Bytes == Seq(Byte)

\* The bytes of a slice.
LEMMA SliceFacts ==
  ASSUME NEW S, NEW q \in Seq(S), NEW from \in Nat, NEW to \in from .. Len(q)
  PROVE  /\ Slice(q, from, to) \in Seq(S) /\ Len(Slice(q, from, to)) = to - from
         /\ \A k \in 1 .. to - from : Slice(q, from, to)[k] = q[from + k]
BY DEF Slice

\* What is appended to a packet can be cut out again, and nothing before it changes.
LEMMA Appended ==
  ASSUME NEW q \in Bytes, NEW r \in Bytes
  PROVE  /\ q \o r \in Bytes /\ Len(q \o r) = Len(q) + Len(r)
         /\ \A i \in 1 .. Len(q) : (q \o r)[i] = q[i]
         /\ \A i \in 1 .. Len(r) : (q \o r)[Len(q) + i] = r[i]
         /\ Slice(q \o r, Len(q), Len(q) + Len(r)) = r
         /\ \A to \in 0 .. Len(q) : \A from \in 0 .. to :
              Slice(q \o r, from, to) = Slice(q, from, to)
<1> DEFINE w == q \o r
<1>1. /\ q \in Seq(Byte) /\ r \in Seq(Byte) /\ Len(q) \in Nat /\ Len(r) \in Nat
      /\ w \in Seq(Byte) /\ Len(w) = Len(q) + Len(r)
      /\ \A i \in 1 .. Len(q) : w[i] = q[i]
      /\ \A i \in 1 .. Len(r) : w[Len(q) + i] = r[i]
  BY ConcatFacts DEF Bytes
<1> HIDE DEF w
<1>2. Slice(w, Len(q), Len(q) + Len(r)) = r
  <2> DEFINE v == Slice(w, Len(q), Len(q) + Len(r))
  <2>1. PICK from, to : from = Len(q) /\ to = Len(q) + Len(r)
    OBVIOUS
  <2>2. from \in Nat /\ to \in from .. Len(w) /\ to - from = Len(r) /\ v = Slice(w, from, to)
    BY <1>1, <2>1
  <2> HIDE DEF v
  <2>3. v \in Seq(Byte) /\ Len(v) = to - from /\ \A i \in 1 .. to - from : v[i] = w[from + i]
    BY <1>1, <2>2, SliceFacts
  <2>4. v = r
    BY <1>1, <2>1, <2>2, <2>3, EqualSeqs
  <2>5. QED
    BY <2>4 DEF v
<1>3. ASSUME NEW to \in 0 .. Len(q), NEW from \in 0 .. to
      PROVE  Slice(w, from, to) = Slice(q, from, to)
  <2> DEFINE u == Slice(w, from, to)
             v == Slice(q, from, to)
  <2>1. from \in Nat /\ to \in from .. Len(w) /\ to \in from .. Len(q) /\ to - from \in Nat
    BY <1>1
  <2>2. /\ u \in Seq(Byte) /\ Len(u) = to - from /\ \A i \in 1 .. to - from : u[i] = w[from + i]
        /\ v \in Seq(Byte) /\ Len(v) = to - from /\ \A i \in 1 .. to - from : v[i] = q[from + i]
    BY <1>1, <2>1, SliceFacts
  <2>3. \A i \in 1 .. to - from : w[from + i] = q[from + i]
    <3>1. ASSUME NEW i \in 1 .. to - from PROVE from + i \in 1 .. Len(q)
      BY <1>1, <2>1
    <3>2. QED
      BY <1>1, <3>1
  <2> HIDE DEF u, v
  <2>4. u = v
    BY <2>2, <2>3, EqualSeqs
  <2>5. QED
    BY <2>4 DEF u, v
<1>4. QED
  BY <1>1, <1>2, <1>3 DEF w, Bytes

\* Two packets agree except for their checksums.
SameButChecksum(q, r) ==
  /\ Len(q) = Len(r) /\ \A i \in 1 .. Len(r) : i # 13 /\ i # 14 => q[i] = r[i]

\* They still do with the same bytes appended.
LEMMA StillSame ==
  ASSUME NEW q \in Bytes, NEW r \in Bytes, SameButChecksum(q, r), NEW t \in Bytes
  PROVE  SameButChecksum(q \o t, r \o t)
<1> DEFINE u == q \o t
           v == r \o t
<1>1. /\ Len(q) \in Nat /\ Len(t) \in Nat /\ Len(r) = Len(q)
      /\ Len(u) = Len(q) + Len(t) /\ Len(v) = Len(q) + Len(t)
      /\ \A i \in 1 .. Len(q) : u[i] = q[i] /\ v[i] = r[i]
      /\ \A i \in 1 .. Len(t) : u[Len(q) + i] = t[i] /\ v[Len(q) + i] = t[i]
  <2>1. Len(q) \in Nat /\ Len(t) \in Nat /\ Len(r) = Len(q)
    BY DEF SameButChecksum, Bytes
  <2>2. /\ Len(u) = Len(q) + Len(t) /\ \A i \in 1 .. Len(q) : u[i] = q[i]
        /\ \A i \in 1 .. Len(t) : u[Len(q) + i] = t[i]
    BY Appended
  <2>3. /\ Len(v) = Len(r) + Len(t) /\ \A i \in 1 .. Len(r) : v[i] = r[i]
        /\ \A i \in 1 .. Len(t) : v[Len(r) + i] = t[i]
    BY Appended
  <2> HIDE DEF u, v
  <2>4. QED
    BY <2>1, <2>2, <2>3
<1> HIDE DEF u, v
<1>2. ASSUME NEW i \in 1 .. Len(v), i # 13, i # 14 PROVE u[i] = v[i]
  <2>1. CASE i <= Len(q)
    <3>1. i \in 1 .. Len(q) /\ i \in 1 .. Len(r)
      BY <1>1, <1>2, <2>1
    <3>2. q[i] = r[i]
      BY <1>2, <3>1 DEF SameButChecksum
    <3>3. QED
      BY <1>1, <3>1, <3>2
  <2>2. CASE i > Len(q)
    <3>1. i - Len(q) \in 1 .. Len(t) /\ Len(q) + (i - Len(q)) = i
      BY <1>1, <1>2, <2>2
    <3>2. QED
      BY <1>1, <3>1
  <2>3. QED
    BY <1>1, <2>1, <2>2
<1>3. SameButChecksum(u, v)
  BY <1>1, <1>2 DEF SameButChecksum
<1>4. QED
  BY <1>3 DEF u, v

\* Numbers and addresses as bytes.
LEMMA NumberBytes ==
  ASSUME NEW n \in Nat, n < Word
  PROVE  /\ Bytes16(n) \in Bytes /\ Len(Bytes16(n)) = 2 /\ Number16(Bytes16(n)) = n
         /\ Bytes16(n)[1] = n \div 256 /\ Bytes16(n)[2] = n % 256
         /\ Bytes16(n)[1] \in Byte /\ Bytes16(n)[2] \in Byte
<1>1. n \div 256 \in Nat /\ n \div 256 <= 255 /\ n % 256 \in Nat /\ n % 256 <= 255
      /\ 256 * (n \div 256) + (n % 256) = n
  BY DEF Word
<1>2. n \div 256 \in Byte /\ n % 256 \in Byte
  BY <1>1, ByteFacts
<1> DEFINE a == n \div 256
           b == n % 256
<1> HIDE DEF a, b
<1>3. <<a, b>> \in Bytes /\ Len(<<a, b>>) = 2 /\ <<a, b>>[1] = a /\ <<a, b>>[2] = b
  BY <1>2 DEF Bytes, a, b
<1>4. QED
  BY <1>1, <1>2, <1>3 DEF Bytes16, Number16, a, b

\* An address is four bytes of a packet.
LEMMA AddressBytes ==
  ASSUME NEW r \in Address
  PROVE  r \in Bytes /\ Len(r) = 4
BY FunctionIsSeq DEF Address, Bytes

\* The two bytes of a number.
LEMMA TwoBytes ==
  ASSUME NEW a \in Byte, NEW b \in Byte
  PROVE  /\ <<a, b>> \in Bytes /\ Len(<<a, b>>) = 2
         /\ <<a, b>>[1] = a /\ <<a, b>>[2] = b
BY DEF Bytes

\* A packet that starts with another one.
StartsWith(w, q) ==
  /\ w \in Bytes /\ q \in Bytes /\ Len(q) <= Len(w)
  /\ \A i \in 1 .. Len(q) : w[i] = q[i]
  /\ \A to \in 0 .. Len(q) : \A from \in 0 .. to : Slice(w, from, to) = Slice(q, from, to)

\* What a packet starts with stays where it was.
LEMMA AppendedStarts ==
  ASSUME NEW q \in Bytes, NEW r \in Bytes
  PROVE  /\ StartsWith(q \o r, q) /\ Len(q \o r) = Len(q) + Len(r)
         /\ Slice(q \o r, Len(q), Len(q) + Len(r)) = r
<1>1. Len(q) \in Nat /\ Len(r) \in Nat
  BY DEF Bytes
<1> DEFINE w == q \o r
<1>2. /\ w \in Bytes /\ Len(w) = Len(q) + Len(r)
      /\ \A i \in 1 .. Len(q) : w[i] = q[i]
      /\ Slice(w, Len(q), Len(q) + Len(r)) = r
      /\ \A to \in 0 .. Len(q) : \A from \in 0 .. to : Slice(w, from, to) = Slice(q, from, to)
  BY Appended
<1> HIDE DEF w
<1>3. Len(q) <= Len(w)
  BY <1>1, <1>2
<1>4. StartsWith(w, q)
  BY <1>2, <1>3 DEF StartsWith
<1>5. QED
  BY <1>2, <1>4 DEF w

\* The start of a start is a start.
LEMMA StartsTransitive ==
  ASSUME NEW u, NEW v, NEW w, StartsWith(w, v), StartsWith(v, u)
  PROVE  StartsWith(w, u)
<1>1. /\ w \in Bytes /\ u \in Bytes /\ v \in Bytes
      /\ Len(u) \in Nat /\ Len(v) \in Nat /\ Len(w) \in Nat
      /\ Len(u) <= Len(v) /\ Len(v) <= Len(w)
  BY DEF StartsWith, Bytes
<1>2. \A i \in 1 .. Len(u) : w[i] = u[i]
  BY <1>1 DEF StartsWith
<1>3. \A to \in 0 .. Len(u) : \A from \in 0 .. to : Slice(w, from, to) = Slice(u, from, to)
  BY <1>1 DEF StartsWith
<1>4. QED
  BY <1>1, <1>2, <1>3 DEF StartsWith

\* s[i] is the first i sequences of r put together.
Joins(r, n, s) == s = [i \in 1 .. n |-> IF i = 1 THEN r[i] ELSE s[i - 1] \o r[i]]

\* There is such a function, as far as there are sequences.
LEMMA JoinsExist ==
  ASSUME NEW n \in Nat, NEW r \in [1 .. n -> Bytes]
  PROVE  \E s : Joins(r, n, s)
<1> DEFINE Upto(k, s) == /\ s \in [1 .. k -> Bytes]
                         /\ \A i \in 1 .. k : s[i] = IF i = 1 THEN r[i] ELSE s[i - 1] \o r[i]
           T == {k \in 0 .. n : \E s : Upto(k, s)}
<1>1. 0 \in T
  <2> DEFINE z == [i \in 1 .. 0 |-> <<>>]
  <2>1. z \in [1 .. 0 -> Bytes] /\ 1 .. 0 = {}
    OBVIOUS
  <2>2. Upto(0, z)
    BY <2>1
  <2> HIDE DEF Upto, z
  <2>3. QED
    BY <2>2
<1>2. ASSUME NEW k \in 0 .. n - 1, k \in T PROVE k + 1 \in T
  <2>1. PICK s : Upto(k, s)
    BY <1>2
  <2> DEFINE last == IF k = 0 THEN r[1] ELSE s[k] \o r[k + 1]
             t == [i \in 1 .. k + 1 |-> IF i = k + 1 THEN last ELSE s[i]]
  <2>2. last \in Bytes
    <3>1. r[k + 1] \in Bytes /\ (k = 0 => r[1] \in Bytes) /\ (k # 0 => s[k] \in Bytes)
      BY <2>1
    <3>2. QED
      BY <3>1, Appended
  <2> HIDE DEF last
  <2>3. t \in [1 .. k + 1 -> Bytes]
    BY <2>1, <2>2
  <2>4. ASSUME NEW i \in 1 .. k + 1 PROVE t[i] = IF i = 1 THEN r[i] ELSE t[i - 1] \o r[i]
    <3>1. i # 1 => t[i - 1] = s[i - 1]
      BY <2>4
    <3>2. t[i] = IF i = k + 1 THEN last ELSE s[i]
      BY <2>4
    <3>3. i # k + 1 => s[i] = IF i = 1 THEN r[i] ELSE s[i - 1] \o r[i]
      <4>1. i # k + 1 => i \in 1 .. k
        BY <2>4
      <4>2. QED
        BY <2>1, <4>1, Zenon
    <3> HIDE DEF t
    <3>4. CASE i = k + 1
      <4>1. i - 1 = k
        BY <3>4
      <4>2. QED
        BY <3>1, <3>2, <3>4, <4>1 DEF last
    <3>5. CASE i # k + 1
      BY <3>1, <3>2, <3>3, <3>5
    <3>6. QED
      BY <3>4, <3>5
  <2>5. Upto(k + 1, t)
    BY <2>3, <2>4
  <2> HIDE DEF Upto
  <2>6. QED
    BY <2>5
<1> HIDE DEF T
<1>3. n \in T
  <2>1. 0 .. n \subseteq T
    BY <1>1, <1>2, FiniteInduction
  <2>2. QED
    BY <2>1
<1>4. PICK s : Upto(n, s)
  BY <1>3 DEF T
<1>5. Joins(r, n, s)
  BY <1>4 DEF Joins
<1>6. QED
  BY <1>5

\* The neighbours of a Hello, one after the other.
LEMMA FlattenFacts ==
  ASSUME NEW r \in Seq(Address)
  PROVE  /\ FlattenSeq(r) \in Bytes /\ Len(FlattenSeq(r)) = 4 * Len(r)
         /\ \A j \in 1 .. Len(r) : Slice(FlattenSeq(r), 4 * j - 4, 4 * j) = r[j]
<1> DEFINE n == Len(r)
           s == CHOOSE f : Joins(r, n, f)
<1>1. /\ n \in Nat /\ \A i \in 1 .. n : r[i] \in Bytes /\ Len(r[i]) = 4
      /\ r \in [1 .. n -> Bytes]
  BY AddressBytes
<1>2. CASE n = 0
  <2>1. r = <<>> /\ FlattenSeq(r) = r
    BY <1>2 DEF FlattenSeq
  <2>2. <<>> \in Bytes /\ Len(<<>>) = 0
    BY DEF Bytes
  <2>3. QED
    BY <2>1, <2>2
<1>3. CASE n # 0
  <2>1. FlattenSeq(r) = s[n]
    BY <1>3 DEF FlattenSeq, Joins
  <2>2. Joins(r, n, s)
    BY <1>1, JoinsExist
  <2> HIDE DEF s
  <2>3. s[1] = r[1] /\ \A i \in 2 .. n : s[i] = s[i - 1] \o r[i]
    <3>1. \A i \in 1 .. n : s[i] = IF i = 1 THEN r[i] ELSE s[i - 1] \o r[i]
      BY <2>2, Zenon DEF Joins
    <3>2. 1 \in 1 .. n /\ \A i \in 2 .. n : i \in 1 .. n /\ i # 1
      BY <1>1, <1>3
    <3>3. QED
      BY <3>1, <3>2, Zenon
  <2> DEFINE Joined(k) == /\ s[k] \in Bytes /\ Len(s[k]) = 4 * k
                          /\ \A j \in 1 .. k : Slice(s[k], 4 * j - 4, 4 * j) = r[j]
             T == {0} \cup {k \in 1 .. n : Joined(k)}
  <2>4. Joined(1)
    <3>1. r[1] \in Bytes /\ Len(r[1]) = 4 /\ Slice(r[1], 0, 4) = r[1]
      <4>1. r[1] \in Bytes /\ Len(r[1]) = 4
        BY <1>1, <1>3
      <4>2. QED
        BY <4>1, WholeOrNone DEF Slice, Bytes
    <3>2. QED
      BY <2>3, <3>1
  <2>5. ASSUME NEW k \in 1 .. n - 1, Joined(k) PROVE Joined(k + 1)
    <3>1. s[k + 1] = s[k] \o r[k + 1] /\ r[k + 1] \in Bytes /\ Len(r[k + 1]) = 4
      <4>1. k + 1 \in 2 .. n /\ k + 1 \in 1 .. n /\ (k + 1) - 1 = k
        BY <1>1
      <4>2. QED
        BY <1>1, <2>3, <4>1
    <3>2. /\ StartsWith(s[k + 1], s[k]) /\ Len(s[k + 1]) = 4 * k + 4
          /\ Slice(s[k + 1], 4 * k, 4 * k + 4) = r[k + 1]
      BY <2>5, <3>1, AppendedStarts
    <3>3. 4 * (k + 1) = 4 * k + 4 /\ 4 * (k + 1) - 4 = 4 * k
      OBVIOUS
    <3>4. ASSUME NEW j \in 1 .. k + 1 PROVE Slice(s[k + 1], 4 * j - 4, 4 * j) = r[j]
      <4>1. CASE j = k + 1
        BY <3>2, <3>3, <4>1
      <4>2. CASE j # k + 1
        <5>1. j \in 1 .. k /\ 4 * j \in 0 .. Len(s[k]) /\ 4 * j - 4 \in 0 .. 4 * j
          BY <2>5, <4>2
        <5>2. Slice(s[k + 1], 4 * j - 4, 4 * j) = Slice(s[k], 4 * j - 4, 4 * j)
          BY <3>2, <5>1 DEF StartsWith
        <5>3. QED
          BY <2>5, <5>1, <5>2
      <4>3. QED
        BY <4>1, <4>2
    <3>5. s[k + 1] \in Bytes
      BY <3>2 DEF StartsWith
    <3>6. QED
      BY <3>2, <3>3, <3>4, <3>5
  <2> HIDE DEF Joined
  <2>6. 0 \in T
    OBVIOUS
  <2>7. ASSUME NEW k \in 0 .. n - 1, k \in T PROVE k + 1 \in T
    <3>1. CASE k = 0
      BY <1>1, <1>3, <2>4, <3>1
    <3>2. CASE k # 0
      <4>1. k \in 1 .. n - 1 /\ Joined(k) /\ k + 1 \in 1 .. n
        BY <1>1, <2>7, <3>2
      <4>2. QED
        BY <2>5, <4>1
    <3>3. QED
      BY <3>1, <3>2
  <2>8. n \in T
    <3>1. 0 .. n \subseteq T
      <4> HIDE DEF T, n
      <4> QED BY <1>1, <2>6, <2>7, FiniteInduction
    <3>2. QED
      BY <1>1, <3>1
  <2>9. Joined(n)
    BY <1>3, <2>8
  <2>10. QED
    BY <2>1, <2>9 DEF Joined
<1>4. QED
  BY <1>2, <1>3

-----------------------------------------------------------------------------
(* The header and the Hello, as they are built. *)

\* w is q with r appended, from one offset to the other.
Joined(w, q, r, from, to) ==
  /\ w \in Bytes /\ Len(w) = to /\ StartsWith(w, q)
  /\ Slice(w, from, to) = r /\ \A i \in 1 .. Len(r) : w[Len(q) + i] = r[i]

\* Where a piece appended to a packet lies.
LEMMA Piece ==
  ASSUME NEW q \in Bytes, NEW r \in Bytes, NEW from, NEW to,
         Len(q) = from, Len(q) + Len(r) = to
  PROVE  Joined(q \o r, q, r, from, to)
BY AppendedStarts, Appended, Zenon DEF Joined

\* The header as bytes, with the authentication type a and header z.
HeaderOf(type, length, router_id, area_id, c, a, z) ==
  <<2, type>> \o Bytes16(length) \o router_id \o area_id \o Bytes16(c) \o Bytes16(a) \o z

\* Where in h each of its fields is.
HeaderLayout(h, type, length, router_id, area_id, c, a, z) ==
  /\ h \in Bytes /\ Len(h) = 24
  /\ h[1] = 2 /\ h[2] = type
  /\ Slice(h, 2, 4) = Bytes16(length)
  /\ Slice(h, 4, 8) = router_id /\ Slice(h, 8, 12) = area_id
  /\ Slice(h, 12, 14) = Bytes16(c) /\ h[13] = c \div 256 /\ h[14] = c % 256
  /\ Slice(h, 14, 16) = Bytes16(a) /\ Slice(h, 16, 24) = z
  /\ \A i \in 1 .. 8 : h[16 + i] = z[i]
  /\ SameButChecksum(h, HeaderOf(type, length, router_id, area_id, 0, a, z))

\* Its fields lie there.
LEMMA HeaderPieces ==
  ASSUME NEW type \in Byte, NEW length \in Nat, length < Word,
         NEW router_id \in Address, NEW area_id \in Address, NEW c \in Nat, c < Word,
         NEW a \in Nat, a < Word, NEW z \in Bytes, Len(z) = 8,
         NEW h, h = HeaderOf(type, length, router_id, area_id, c, a, z)
  PROVE  HeaderLayout(h, type, length, router_id, area_id, c, a, z)
<1> DEFINE u1    == <<2, type>>
           u2    == u1 \o Bytes16(length)
           u3    == u2 \o router_id
           u4    == u3 \o area_id
           u5(d) == u4 \o Bytes16(d)
           u6(d) == u5(d) \o Bytes16(a)
           u7(d) == u6(d) \o z
<1>1. \A d : HeaderOf(type, length, router_id, area_id, d, a, z) = u7(d)
  BY DEF HeaderOf
<1>2. u1 \in Bytes /\ Len(u1) = 2 /\ u1[1] = 2 /\ u1[2] = type
  <2>1. 2 \in Byte
    BY ByteFacts
  <2>2. QED
    BY <2>1, TwoBytes
<1>3. /\ Bytes16(length) \in Bytes /\ Len(Bytes16(length)) = 2
      /\ Bytes16(a) \in Bytes /\ Len(Bytes16(a)) = 2
      /\ router_id \in Bytes /\ Len(router_id) = 4 /\ area_id \in Bytes /\ Len(area_id) = 4
  BY NumberBytes, AddressBytes
<1>4. z \in Bytes /\ Len(z) = 8
  OBVIOUS
<1> HIDE DEF u1
<1>5. Joined(u2, u1, Bytes16(length), 2, 4)
  <2>1. Len(u1) = 2 /\ Len(u1) + Len(Bytes16(length)) = 4
    BY <1>2, <1>3
  <2>2. u1 \in Bytes /\ Bytes16(length) \in Bytes
    BY <1>2, <1>3
  <2>3. QED
    BY <2>1, <2>2, Piece, Zenon
<1> HIDE DEF u2
<1>6. Joined(u3, u2, router_id, 4, 8)
  <2>1. Len(u2) = 4 /\ Len(u2) + Len(router_id) = 8
    BY <1>3, <1>5 DEF Joined
  <2>2. u2 \in Bytes /\ router_id \in Bytes
    BY <1>3, <1>5 DEF Joined
  <2>3. QED
    BY <2>1, <2>2, Piece, Zenon
<1> HIDE DEF u3
<1>7. Joined(u4, u3, area_id, 8, 12)
  <2>1. Len(u3) = 8 /\ Len(u3) + Len(area_id) = 12
    BY <1>3, <1>6 DEF Joined
  <2>2. u3 \in Bytes /\ area_id \in Bytes
    BY <1>3, <1>6 DEF Joined
  <2>3. QED
    BY <2>1, <2>2, Piece, Zenon
<1> HIDE DEF u4
<1>8. ASSUME NEW d \in Nat, d < Word
      PROVE  /\ Joined(u5(d), u4, Bytes16(d), 12, 14)
             /\ Joined(u6(d), u5(d), Bytes16(a), 14, 16)
             /\ Joined(u7(d), u6(d), z, 16, 24)
  <2>1. Joined(u5(d), u4, Bytes16(d), 12, 14)
    <3>1. Bytes16(d) \in Bytes /\ Len(Bytes16(d)) = 2
      BY <1>8, NumberBytes
    <3>2. Len(u4) = 12 /\ Len(u4) + Len(Bytes16(d)) = 14
      BY <1>7, <3>1 DEF Joined
    <3>3. u4 \in Bytes
      BY <1>7 DEF Joined
    <3>4. QED
      BY <3>1, <3>2, <3>3, Piece, Zenon
  <2> HIDE DEF u5
  <2>2. Joined(u6(d), u5(d), Bytes16(a), 14, 16)
    <3>1. Len(u5(d)) = 14 /\ Len(u5(d)) + Len(Bytes16(a)) = 16
      <4>1. Len(u5(d)) = 14
        BY <2>1, Zenon DEF Joined
      <4>2. 14 + 2 = 16
        OBVIOUS
      <4>3. QED
        BY <1>3, <4>1, <4>2, Zenon
    <3>2. u5(d) \in Bytes /\ Bytes16(a) \in Bytes
      BY <1>3, <2>1 DEF Joined
    <3>3. QED
      BY <3>1, <3>2, Piece, Zenon
  <2> HIDE DEF u6
  <2>3. Joined(u7(d), u6(d), z, 16, 24)
    <3>1. Len(u6(d)) = 16 /\ Len(u6(d)) + Len(z) = 24
      BY <1>4, <2>2 DEF Joined
    <3>2. u6(d) \in Bytes /\ z \in Bytes
      BY <1>4, <2>2 DEF Joined
    <3>3. QED
      BY <3>1, <3>2, Piece, Zenon
  <2>4. QED
    BY <2>1, <2>2, <2>3
<1> HIDE DEF u5
<1>9. /\ Joined(u5(c), u4, Bytes16(c), 12, 14) /\ Joined(u6(c), u5(c), Bytes16(a), 14, 16)
      /\ Joined(u7(c), u6(c), z, 16, 24)
      /\ Joined(u5(0), u4, Bytes16(0), 12, 14) /\ Joined(u6(0), u5(0), Bytes16(a), 14, 16)
      /\ Joined(u7(0), u6(0), z, 16, 24)
  <2>1. 0 \in Nat /\ 0 < Word
    BY DEF Word
  <2>2. QED
    BY <1>8, <2>1
<1>10. SameButChecksum(u6(c), u6(0))
  <2>1. SameButChecksum(u5(c), u5(0))
    <3>1. \A i \in 1 .. 12 : u5(c)[i] = u4[i] /\ u5(0)[i] = u4[i]
      <4>1. Len(u4) = 12 /\ StartsWith(u5(c), u4) /\ StartsWith(u5(0), u4)
        BY <1>7, <1>9 DEF Joined
      <4>2. QED
        BY <4>1 DEF StartsWith
    <3>2. Len(u5(c)) = 14 /\ Len(u5(0)) = 14
      BY <1>9 DEF Joined
    <3>3. \A i \in 1 .. 14 : i # 13 /\ i # 14 => i \in 1 .. 12
      OBVIOUS
    <3>4. \A i \in 1 .. 14 : i # 13 /\ i # 14 => u5(c)[i] = u5(0)[i]
      BY <3>1, <3>3, Zenon
    <3>5. QED
      BY <3>2, <3>4 DEF SameButChecksum
  <2>2. u5(c) \in Bytes /\ u5(0) \in Bytes /\ Bytes16(a) \in Bytes
    BY <1>3, <1>9 DEF Joined
  <2>3. QED
    BY <2>1, <2>2, StillSame, Zenon
<1> HIDE DEF u6
<1>11. u7(c) \in Bytes /\ Len(u7(c)) = 24
  BY <1>9 DEF Joined
<1>12. SameButChecksum(u7(c), u7(0))
  <2>1. u6(c) \in Bytes /\ u6(0) \in Bytes /\ z \in Bytes
    BY <1>4, <1>9 DEF Joined
  <2>2. QED
    BY <1>10, <2>1, StillSame, Zenon
<1> HIDE DEF u7
<1>13. /\ StartsWith(u7(c), u6(c)) /\ StartsWith(u7(c), u5(c)) /\ StartsWith(u7(c), u4)
       /\ StartsWith(u7(c), u3) /\ StartsWith(u7(c), u2) /\ StartsWith(u7(c), u1)
  <2>1. /\ StartsWith(u7(c), u6(c)) /\ StartsWith(u6(c), u5(c)) /\ StartsWith(u5(c), u4)
        /\ StartsWith(u4, u3) /\ StartsWith(u3, u2) /\ StartsWith(u2, u1)
    BY <1>5, <1>6, <1>7, <1>9 DEF Joined
  <2>2. StartsWith(u7(c), u5(c))
    BY <2>1, StartsTransitive
  <2>3. StartsWith(u7(c), u4)
    BY <2>1, <2>2, StartsTransitive
  <2>4. StartsWith(u7(c), u3)
    BY <2>1, <2>3, StartsTransitive
  <2>5. StartsWith(u7(c), u2)
    BY <2>1, <2>4, StartsTransitive
  <2>6. StartsWith(u7(c), u1)
    BY <2>1, <2>5, StartsTransitive
  <2>7. QED
    BY <2>1, <2>2, <2>3, <2>4, <2>5, <2>6
<1>14. u7(c)[1] = 2 /\ u7(c)[2] = type
  BY <1>2, <1>13 DEF StartsWith
<1>15. Slice(u7(c), 2, 4) = Bytes16(length)
  BY <1>5, <1>13 DEF StartsWith, Joined
<1>16. Slice(u7(c), 4, 8) = router_id
  BY <1>6, <1>13 DEF StartsWith, Joined
<1>17. Slice(u7(c), 8, 12) = area_id
  BY <1>7, <1>13 DEF StartsWith, Joined
<1>18. Slice(u7(c), 12, 14) = Bytes16(c) /\ u7(c)[13] = c \div 256 /\ u7(c)[14] = c % 256
  <2>1. Bytes16(c)[1] = c \div 256 /\ Bytes16(c)[2] = c % 256 /\ Len(Bytes16(c)) = 2
    BY NumberBytes
  <2>2. /\ Slice(u5(c), 12, 14) = Bytes16(c) /\ Len(u5(c)) = 14
        /\ \A i \in 1 .. Len(Bytes16(c)) : u5(c)[Len(u4) + i] = Bytes16(c)[i]
        /\ Len(u4) = 12
    BY <1>7, <1>9 DEF Joined
  <2>3. u5(c)[13] = Bytes16(c)[1] /\ u5(c)[14] = Bytes16(c)[2]
    BY <2>1, <2>2
  <2>4. u7(c)[13] = u5(c)[13] /\ u7(c)[14] = u5(c)[14] /\ Slice(u7(c), 12, 14) = Slice(u5(c), 12, 14)
    BY <1>13, <2>2 DEF StartsWith
  <2>5. QED
    BY <2>1, <2>2, <2>3, <2>4
<1>19. Slice(u7(c), 14, 16) = Bytes16(a)
  BY <1>9, <1>13 DEF StartsWith, Joined
<1>20. Slice(u7(c), 16, 24) = z /\ \A i \in 1 .. 8 : u7(c)[16 + i] = z[i]
  BY <1>4, <1>9 DEF Joined
<1>21. h = u7(c) /\ HeaderOf(type, length, router_id, area_id, 0, a, z) = u7(0)
  BY <1>1
<1>22. QED
  BY <1>11, <1>12, <1>14, <1>15, <1>16, <1>17, <1>18, <1>19, <1>20, <1>21 DEF HeaderLayout

\* Where they lie in the header of a builder.
LEMMA HeaderAsBytes ==
  ASSUME NEW type \in Byte, NEW length \in Nat, length < Word,
         NEW router_id \in Address, NEW area_id \in Address, NEW c \in Nat, c < Word,
         NEW h, h = HeaderBytes(BuildHeader(type, length, router_id, area_id, c))
  PROVE  /\ h \in Bytes /\ Len(h) = 24
         /\ h[1] = 2 /\ h[2] = type
         /\ Slice(h, 2, 4) = Bytes16(length)
         /\ Slice(h, 4, 8) = router_id /\ Slice(h, 8, 12) = area_id
         /\ Slice(h, 12, 14) = Bytes16(c) /\ h[13] = c \div 256 /\ h[14] = c % 256
         /\ Slice(h, 14, 16) = Bytes16(0)
         /\ \A i \in 17 .. 24 : h[i] = 0
         /\ SameButChecksum(h, HeaderBytes(BuildHeader(type, length, router_id, area_id, 0)))
<1> DEFINE zeros == [i \in 1 .. 8 |-> 0]
<1>1. \A d : HeaderBytes(BuildHeader(type, length, router_id, area_id, d))
              = HeaderOf(type, length, router_id, area_id, d, 0, zeros)
  <2> TAKE d
  <2> DEFINE b == BuildHeader(type, length, router_id, area_id, d)
  <2>1. /\ b.version = 2 /\ b.message_type = type /\ b.packet_length = length
        /\ b.router_id = router_id /\ b.area_id = area_id /\ b.checksum = d
        /\ b.authentication_type = 0 /\ b.authentication_header = <<>>
    BY DEF BuildHeader, AuthenticationTypes
  <2>2. AuthenticationBytes(0, <<>>) = zeros
    BY DEF AuthenticationBytes
  <2> HIDE DEF b, zeros
  <2>3. HeaderBytes(b) = HeaderOf(type, length, router_id, area_id, d, 0, zeros)
    BY <2>1, <2>2, Zenon DEF HeaderBytes, HeaderOf
  <2>4. QED
    BY <2>3 DEF b
<1>2. zeros \in Bytes /\ Len(zeros) = 8 /\ \A i \in 1 .. 8 : zeros[i] = 0
  <2>1. 0 \in Byte
    BY ByteFacts
  <2>2. zeros \in [1 .. 8 -> Byte]
    BY <2>1
  <2>3. QED
    BY <2>2, FunctionIsSeq DEF Bytes
<1> HIDE DEF zeros
<1>3. 0 \in Nat /\ 0 < Word
  BY DEF Word
<1>4. /\ h \in Bytes /\ Len(h) = 24
      /\ h[1] = 2 /\ h[2] = type
      /\ Slice(h, 2, 4) = Bytes16(length)
      /\ Slice(h, 4, 8) = router_id /\ Slice(h, 8, 12) = area_id
      /\ Slice(h, 12, 14) = Bytes16(c) /\ h[13] = c \div 256 /\ h[14] = c % 256
      /\ Slice(h, 14, 16) = Bytes16(0)
      /\ \A i \in 1 .. 8 : h[16 + i] = zeros[i]
      /\ SameButChecksum(h, HeaderOf(type, length, router_id, area_id, 0, 0, zeros))
  <2>1. h = HeaderOf(type, length, router_id, area_id, c, 0, zeros)
    BY <1>1
  <2>2. HeaderLayout(h, type, length, router_id, area_id, c, 0, zeros)
    BY <1>2, <1>3, <2>1, HeaderPieces, Zenon
  <2>3. QED
    BY <2>2, Zenon DEF HeaderLayout
<1>5. \A i \in 17 .. 24 : h[i] = 0
  <2>1. \A i \in 17 .. 24 : i - 16 \in 1 .. 8 /\ 16 + (i - 16) = i
    OBVIOUS
  <2>2. QED
    BY <1>2, <1>4, <2>1
<1>6. HeaderBytes(BuildHeader(type, length, router_id, area_id, 0))
        = HeaderOf(type, length, router_id, area_id, 0, 0, zeros)
  BY <1>1
<1>7. QED
  BY <1>4, <1>5, <1>6

\* A slice of what is appended.
LEMMA SliceBehind ==
  ASSUME NEW q \in Bytes, NEW t \in Bytes, NEW to \in 0 .. Len(t), NEW from \in 0 .. to
  PROVE  Slice(q \o t, Len(q) + from, Len(q) + to) = Slice(t, from, to)
<1> DEFINE w == q \o t
<1>1. /\ q \in Seq(Byte) /\ t \in Seq(Byte) /\ w \in Seq(Byte)
      /\ Len(q) \in Nat /\ Len(t) \in Nat /\ Len(w) = Len(q) + Len(t)
      /\ \A i \in 1 .. Len(t) : w[Len(q) + i] = t[i]
  BY ConcatFacts DEF Bytes
<1> HIDE DEF w
<1>2. PICK a, b : a = Len(q) + from /\ b = Len(q) + to
  OBVIOUS
<1>3. /\ a \in Nat /\ b \in a .. Len(w) /\ b - a = to - from
      /\ from \in Nat /\ to \in from .. Len(t)
  BY <1>1, <1>2
<1> DEFINE u == Slice(w, a, b)
           v == Slice(t, from, to)
<1>4. /\ u \in Seq(Byte) /\ Len(u) = b - a /\ \A k \in 1 .. b - a : u[k] = w[a + k]
      /\ v \in Seq(Byte) /\ Len(v) = to - from /\ \A k \in 1 .. to - from : v[k] = t[from + k]
  <2>1. /\ u \in Seq(Byte) /\ Len(u) = b - a
        /\ \A k \in 1 .. b - a : u[k] = w[a + k]
    BY <1>1, <1>3, SliceFacts
  <2>2. /\ v \in Seq(Byte) /\ Len(v) = to - from
        /\ \A k \in 1 .. to - from : v[k] = t[from + k]
    BY <1>1, <1>3, SliceFacts
  <2>3. QED
    BY <2>1, <2>2, Zenon
<1>5. ASSUME NEW k \in 1 .. to - from PROVE w[a + k] = t[from + k]
  <2>1. from + k \in 1 .. Len(t) /\ a + k = Len(q) + (from + k)
    BY <1>1, <1>2, <1>3
  <2>2. QED
    BY <1>1, <2>1
<1> HIDE DEF u, v
<1>6. u = v
  BY <1>3, <1>4, <1>5, EqualSeqs
<1>7. QED
  BY <1>2, <1>6 DEF u, v, w

\* What HelloBytes appends to the header.
WithBody(h, f) ==
  h \o f.network_mask.netmask_number \o Bytes16(f.hello_interval)
    \o <<f.options, f.router_priority>> \o f.router_dead_interval
    \o f.designated_router \o f.backup_designated_router \o FlattenSeq(f.neighbors)

\* What a builder of Hellos can be given.
HelloFields ==
  [router_id : Address, area_id : Address, network_mask : {Ipv4Netmask(m) : m \in Address},
   hello_interval : {n \in Nat : n < Word}, options : Byte, router_priority : Byte,
   router_dead_interval : Address, designated_router : Address,
   backup_designated_router : Address, neighbors : Seq(Address)]

\* Where the fields of a Hello lie behind a header.
LEMMA BodyAsBytes ==
  ASSUME NEW f \in HelloFields, NEW h \in Bytes, Len(h) = 24,
         NEW z \in Bytes, SameButChecksum(h, z),
         NEW w, w = WithBody(h, f)
  PROVE  /\ StartsWith(w, h) /\ Len(w) = 44 + 4 * Len(f.neighbors)
         /\ Slice(w, 24, 28) = f.network_mask.netmask_number
         /\ Slice(w, 28, 30) = Bytes16(f.hello_interval)
         /\ w[31] = f.options /\ w[32] = f.router_priority
         /\ Slice(w, 32, 36) = f.router_dead_interval
         /\ Slice(w, 36, 40) = f.designated_router
         /\ Slice(w, 40, 44) = f.backup_designated_router
         /\ \A j \in 1 .. Len(f.neighbors) : Slice(w, 40 + 4 * j, 44 + 4 * j) = f.neighbors[j]
         /\ SameButChecksum(w, WithBody(z, f))
<1> DEFINE r1 == f.network_mask.netmask_number
           r2 == Bytes16(f.hello_interval)
           r3 == <<f.options, f.router_priority>>
           r4 == f.router_dead_interval
           r5 == f.designated_router
           r6 == f.backup_designated_router
           r7 == FlattenSeq(f.neighbors)
           n  == Len(f.neighbors)
<1>1. /\ r1 \in Bytes /\ Len(r1) = 4 /\ r4 \in Bytes /\ Len(r4) = 4
      /\ r5 \in Bytes /\ Len(r5) = 4 /\ r6 \in Bytes /\ Len(r6) = 4
  <2>1. PICK m \in Address : f.network_mask = Ipv4Netmask(m)
    BY DEF HelloFields
  <2>2. r1 = m
    BY <2>1 DEF Ipv4Netmask
  <2>3. r4 \in Address /\ r5 \in Address /\ r6 \in Address
    BY DEF HelloFields
  <2> HIDE DEF r1, r4, r5, r6
  <2>4. QED
    BY <2>2, <2>3, AddressBytes
<1>2. r2 \in Bytes /\ Len(r2) = 2
  <2>1. f.hello_interval \in Nat /\ f.hello_interval < Word
    BY DEF HelloFields
  <2>2. QED
    BY <2>1, NumberBytes
<1>3. r3 \in Bytes /\ Len(r3) = 2 /\ r3[1] = f.options /\ r3[2] = f.router_priority
  <2>1. f.options \in Byte /\ f.router_priority \in Byte
    BY DEF HelloFields
  <2>2. QED
    BY <2>1, TwoBytes
<1>4. /\ n \in Nat /\ r7 \in Bytes /\ Len(r7) = 4 * n
      /\ \A j \in 1 .. n : Slice(r7, 4 * j - 4, 4 * j) = f.neighbors[j]
  <2>1. f.neighbors \in Seq(Address)
    BY DEF HelloFields
  <2>2. n \in Nat
    BY <2>1
  <2>3. QED
    BY <2>1, <2>2, FlattenFacts
<1> DEFINE u1 == h \o r1
           u2 == u1 \o r2
           u3 == u2 \o r3
           u4 == u3 \o r4
           u5 == u4 \o r5
           u6 == u5 \o r6
           u7 == u6 \o r7
           v1 == z \o r1
           v2 == v1 \o r2
           v3 == v2 \o r3
           v4 == v3 \o r4
           v5 == v4 \o r5
           v6 == v5 \o r6
           v7 == v6 \o r7
<1>5. w = u7 /\ WithBody(z, f) = v7
  BY Zenon DEF WithBody
<1> HIDE DEF r1, r2, r3, r4, r5, r6, r7
<1>6. /\ Joined(u1, h, r1, 24, 28)
      /\ v1 \in Bytes /\ SameButChecksum(u1, v1)
  <2>1. r1 \in Bytes /\ Len(h) + Len(r1) = 28
    BY <1>1
  <2>2. Joined(u1, h, r1, 24, 28)
    BY <2>1, Piece, Zenon
  <2>3. v1 \in Bytes
    BY <2>1, Appended
  <2>4. SameButChecksum(u1, v1)
    BY <2>1, StillSame, Zenon
  <2>5. QED
    BY <2>2, <2>3, <2>4
<1> HIDE DEF u1, v1
<1>7. /\ Joined(u2, u1, r2, 28, 30)
      /\ v2 \in Bytes /\ SameButChecksum(u2, v2)
  <2>1. u1 \in Bytes /\ v1 \in Bytes /\ Len(u1) = 28 /\ SameButChecksum(u1, v1)
    BY <1>6 DEF Joined
  <2>2. r2 \in Bytes /\ Len(u1) + Len(r2) = 30
    BY <1>2, <2>1
  <2>3. Joined(u2, u1, r2, 28, 30)
    BY <2>1, <2>2, Piece, Zenon
  <2>4. v2 \in Bytes
    BY <2>1, <2>2, Appended
  <2>5. SameButChecksum(u2, v2)
    BY <2>1, <2>2, StillSame, Zenon
  <2>6. QED
    BY <2>3, <2>4, <2>5
<1> HIDE DEF u2, v2
<1>8. /\ Joined(u3, u2, r3, 30, 32)
      /\ v3 \in Bytes /\ SameButChecksum(u3, v3)
  <2>1. u2 \in Bytes /\ v2 \in Bytes /\ Len(u2) = 30 /\ SameButChecksum(u2, v2)
    BY <1>7 DEF Joined
  <2>2. r3 \in Bytes /\ Len(u2) + Len(r3) = 32
    BY <1>3, <2>1
  <2>3. Joined(u3, u2, r3, 30, 32)
    BY <2>1, <2>2, Piece, Zenon
  <2>4. v3 \in Bytes
    BY <2>1, <2>2, Appended
  <2>5. SameButChecksum(u3, v3)
    BY <2>1, <2>2, StillSame, Zenon
  <2>6. QED
    BY <2>3, <2>4, <2>5
<1> HIDE DEF u3, v3
<1>9. /\ Joined(u4, u3, r4, 32, 36)
      /\ v4 \in Bytes /\ SameButChecksum(u4, v4)
  <2>1. u3 \in Bytes /\ v3 \in Bytes /\ Len(u3) = 32 /\ SameButChecksum(u3, v3)
    BY <1>8 DEF Joined
  <2>2. r4 \in Bytes /\ Len(u3) + Len(r4) = 36
    BY <1>1, <2>1
  <2>3. Joined(u4, u3, r4, 32, 36)
    BY <2>1, <2>2, Piece, Zenon
  <2>4. v4 \in Bytes
    BY <2>1, <2>2, Appended
  <2>5. SameButChecksum(u4, v4)
    BY <2>1, <2>2, StillSame, Zenon
  <2>6. QED
    BY <2>3, <2>4, <2>5
<1> HIDE DEF u4, v4
<1>10. /\ Joined(u5, u4, r5, 36, 40)
      /\ v5 \in Bytes /\ SameButChecksum(u5, v5)
  <2>1. u4 \in Bytes /\ v4 \in Bytes /\ Len(u4) = 36 /\ SameButChecksum(u4, v4)
    BY <1>9 DEF Joined
  <2>2. r5 \in Bytes /\ Len(u4) + Len(r5) = 40
    BY <1>1, <2>1
  <2>3. Joined(u5, u4, r5, 36, 40)
    BY <2>1, <2>2, Piece, Zenon
  <2>4. v5 \in Bytes
    BY <2>1, <2>2, Appended
  <2>5. SameButChecksum(u5, v5)
    BY <2>1, <2>2, StillSame, Zenon
  <2>6. QED
    BY <2>3, <2>4, <2>5
<1> HIDE DEF u5, v5
<1>11. /\ Joined(u6, u5, r6, 40, 44)
      /\ v6 \in Bytes /\ SameButChecksum(u6, v6)
  <2>1. u5 \in Bytes /\ v5 \in Bytes /\ Len(u5) = 40 /\ SameButChecksum(u5, v5)
    BY <1>10 DEF Joined
  <2>2. r6 \in Bytes /\ Len(u5) + Len(r6) = 44
    BY <1>1, <2>1
  <2>3. Joined(u6, u5, r6, 40, 44)
    BY <2>1, <2>2, Piece, Zenon
  <2>4. v6 \in Bytes
    BY <2>1, <2>2, Appended
  <2>5. SameButChecksum(u6, v6)
    BY <2>1, <2>2, StillSame, Zenon
  <2>6. QED
    BY <2>3, <2>4, <2>5
<1> HIDE DEF u6, v6
<1>12. /\ u7 \in Bytes /\ Len(u7) = 44 + 4 * n /\ StartsWith(u7, u6)
       /\ \A j \in 1 .. n : Slice(u7, 40 + 4 * j, 44 + 4 * j) = f.neighbors[j]
       /\ SameButChecksum(u7, v7)
  <2>1. u6 \in Bytes /\ v6 \in Bytes /\ Len(u6) = 44 /\ SameButChecksum(u6, v6)
    BY <1>11 DEF Joined
  <2>2. StartsWith(u7, u6) /\ Len(u7) = Len(u6) + Len(r7) /\ SameButChecksum(u7, v7)
    BY <1>4, <2>1, AppendedStarts, StillSame, Zenon
  <2>3. ASSUME NEW j \in 1 .. n PROVE Slice(u7, 40 + 4 * j, 44 + 4 * j) = f.neighbors[j]
    <3>1. /\ 4 * j \in 0 .. Len(r7) /\ 4 * j - 4 \in 0 .. 4 * j
          /\ Len(u6) + (4 * j - 4) = 40 + 4 * j /\ Len(u6) + 4 * j = 44 + 4 * j
      BY <1>4, <2>1
    <3>2. Slice(u7, Len(u6) + (4 * j - 4), Len(u6) + 4 * j) = Slice(r7, 4 * j - 4, 4 * j)
      BY <1>4, <2>1, <3>1, SliceBehind
    <3>3. QED
      BY <1>4, <3>1, <3>2
  <2> HIDE DEF u7, v7
  <2>4. u7 \in Bytes /\ Len(u7) = 44 + 4 * n
    BY <1>4, <2>1, <2>2 DEF StartsWith
  <2>5. QED
    BY <2>2, <2>3, <2>4
<1> HIDE DEF u7, v7
<1>13. /\ StartsWith(u7, h) /\ StartsWith(u7, u1) /\ StartsWith(u7, u2) /\ StartsWith(u7, u3)
       /\ StartsWith(u7, u4) /\ StartsWith(u7, u5) /\ StartsWith(u7, u6)
  <2>1. /\ StartsWith(u7, u6) /\ StartsWith(u6, u5) /\ StartsWith(u5, u4) /\ StartsWith(u4, u3)
        /\ StartsWith(u3, u2) /\ StartsWith(u2, u1) /\ StartsWith(u1, h)
    BY <1>6, <1>7, <1>8, <1>9, <1>10, <1>11, <1>12 DEF Joined
  <2>2. StartsWith(u7, u5)
    BY <2>1, StartsTransitive
  <2>3. StartsWith(u7, u4)
    BY <2>1, <2>2, StartsTransitive
  <2>4. StartsWith(u7, u3)
    BY <2>1, <2>3, StartsTransitive
  <2>5. StartsWith(u7, u2)
    BY <2>1, <2>4, StartsTransitive
  <2>6. StartsWith(u7, u1)
    BY <2>1, <2>5, StartsTransitive
  <2>7. StartsWith(u7, h)
    BY <2>1, <2>6, StartsTransitive
  <2>8. QED
    BY <2>1, <2>2, <2>3, <2>4, <2>5, <2>6, <2>7
<1>14. Slice(u7, 24, 28) = r1
  BY <1>6, <1>13 DEF StartsWith, Joined
<1>15. Slice(u7, 28, 30) = r2
  BY <1>7, <1>13 DEF StartsWith, Joined
<1>16. u7[31] = f.options /\ u7[32] = f.router_priority
  <2>1. Len(u3) = 32 /\ Len(u2) = 30 /\ \A i \in 1 .. Len(r3) : u3[Len(u2) + i] = r3[i]
    BY <1>7, <1>8 DEF Joined
  <2>2. u3[31] = r3[1] /\ u3[32] = r3[2]
    BY <1>3, <2>1
  <2>3. u7[31] = u3[31] /\ u7[32] = u3[32]
    BY <1>13, <2>1 DEF StartsWith
  <2>4. QED
    BY <1>3, <2>2, <2>3
<1>17. Slice(u7, 32, 36) = r4
  BY <1>9, <1>13 DEF StartsWith, Joined
<1>18. Slice(u7, 36, 40) = r5
  BY <1>10, <1>13 DEF StartsWith, Joined
<1>19. Slice(u7, 40, 44) = r6
  BY <1>11, <1>13 DEF StartsWith, Joined
<1>20. QED
  BY <1>5, <1>12, <1>13, <1>14, <1>15, <1>16, <1>17, <1>18, <1>19 DEF r1, r2, r4, r5, r6

\* Where in w each field of the Hello is.
HelloLayout(w, f, length, c) ==
  /\ w \in Bytes /\ Len(w) = 44 + 4 * Len(f.neighbors)
  /\ w[1] = 2 /\ w[2] = Hello
  /\ Slice(w, 2, 4) = Bytes16(length)
  /\ Slice(w, 4, 8) = f.router_id /\ Slice(w, 8, 12) = f.area_id
  /\ Slice(w, 12, 14) = Bytes16(c) /\ w[13] = c \div 256 /\ w[14] = c % 256
  /\ Slice(w, 14, 16) = Bytes16(0) /\ \A i \in 17 .. 24 : w[i] = 0
  /\ Slice(w, 24, 28) = f.network_mask.netmask_number
  /\ Slice(w, 28, 30) = Bytes16(f.hello_interval)
  /\ w[31] = f.options /\ w[32] = f.router_priority
  /\ Slice(w, 32, 36) = f.router_dead_interval
  /\ Slice(w, 36, 40) = f.designated_router
  /\ Slice(w, 40, 44) = f.backup_designated_router
  /\ \A j \in 1 .. Len(f.neighbors) : Slice(w, 40 + 4 * j, 44 + 4 * j) = f.neighbors[j]
  /\ SameButChecksum(w, HelloBytes(HelloPacket(f, length, 0)))

\* A Hello has them there.
LEMMA HelloAsBytes ==
  ASSUME NEW f \in HelloFields, NEW length \in Nat, length < Word, NEW c \in Nat, c < Word,
         NEW w, w = HelloBytes(HelloPacket(f, length, c))
  PROVE  HelloLayout(w, f, length, c)
<1> DEFINE h == HeaderBytes(BuildHeader(Hello, length, f.router_id, f.area_id, c))
           z == HeaderBytes(BuildHeader(Hello, length, f.router_id, f.area_id, 0))
<1>1. Hello \in Byte /\ f.router_id \in Address /\ f.area_id \in Address /\ 0 \in Nat /\ 0 < Word
  <2>1. Hello \in Byte
    BY ByteFacts DEF Hello
  <2>2. QED
    BY <2>1 DEF HelloFields, Word
<1>2. /\ h \in Bytes /\ Len(h) = 24 /\ h[1] = 2 /\ h[2] = Hello
      /\ Slice(h, 2, 4) = Bytes16(length)
      /\ Slice(h, 4, 8) = f.router_id /\ Slice(h, 8, 12) = f.area_id
      /\ Slice(h, 12, 14) = Bytes16(c) /\ h[13] = c \div 256 /\ h[14] = c % 256
      /\ Slice(h, 14, 16) = Bytes16(0) /\ \A i \in 17 .. 24 : h[i] = 0
      /\ SameButChecksum(h, z)
  BY <1>1, HeaderAsBytes
<1>3. z \in Bytes
  BY <1>1, HeaderAsBytes
<1>4. w = WithBody(h, f) /\ HelloBytes(HelloPacket(f, length, 0)) = WithBody(z, f)
  <2>1. \A d : HelloBytes(HelloPacket(f, length, d))
                 = WithBody(HeaderBytes(BuildHeader(Hello, length, f.router_id, f.area_id, d)), f)
    <3> TAKE d
    <3> DEFINE p == HelloPacket(f, length, d)
    <3>1. /\ p.header = BuildHeader(Hello, length, f.router_id, f.area_id, d)
          /\ p.network_mask = f.network_mask /\ p.hello_interval = f.hello_interval
          /\ p.options = f.options /\ p.router_priority = f.router_priority
          /\ p.router_dead_interval = f.router_dead_interval
          /\ p.designated_router = f.designated_router
          /\ p.backup_designated_router = f.backup_designated_router
          /\ p.neighbors = f.neighbors
      BY DEF HelloPacket
    <3> HIDE DEF p
    <3>2. HelloBytes(p)
            = WithBody(HeaderBytes(BuildHeader(Hello, length, f.router_id, f.area_id, d)), f)
      BY <3>1, Zenon DEF HelloBytes, WithBody
    <3>3. QED
      BY <3>2 DEF p
  <2>2. QED
    BY <2>1
<1> HIDE DEF h, z
<1>5. /\ StartsWith(w, h) /\ Len(w) = 44 + 4 * Len(f.neighbors)
      /\ Slice(w, 24, 28) = f.network_mask.netmask_number
      /\ Slice(w, 28, 30) = Bytes16(f.hello_interval)
      /\ w[31] = f.options /\ w[32] = f.router_priority
      /\ Slice(w, 32, 36) = f.router_dead_interval
      /\ Slice(w, 36, 40) = f.designated_router
      /\ Slice(w, 40, 44) = f.backup_designated_router
      /\ \A j \in 1 .. Len(f.neighbors) : Slice(w, 40 + 4 * j, 44 + 4 * j) = f.neighbors[j]
      /\ SameButChecksum(w, WithBody(z, f))
  BY <1>2, <1>3, <1>4, BodyAsBytes
<1>6. \A i \in 1 .. 24 : w[i] = h[i]
  BY <1>2, <1>5 DEF StartsWith
<1>7. \A to \in 0 .. 24 : \A from \in 0 .. to : Slice(w, from, to) = Slice(h, from, to)
  BY <1>2, <1>5 DEF StartsWith
<1>8. w \in Bytes
  BY <1>5 DEF StartsWith
<1>9. /\ Slice(w, 2, 4) = Slice(h, 2, 4) /\ Slice(w, 4, 8) = Slice(h, 4, 8)
      /\ Slice(w, 8, 12) = Slice(h, 8, 12) /\ Slice(w, 12, 14) = Slice(h, 12, 14)
      /\ Slice(w, 14, 16) = Slice(h, 14, 16)
      /\ w[1] = h[1] /\ w[2] = h[2] /\ w[13] = h[13] /\ w[14] = h[14]
      /\ \A i \in 17 .. 24 : w[i] = h[i]
  BY <1>6, <1>7
<1>10. QED
  BY <1>2, <1>4, <1>5, <1>8, <1>9 DEF HelloLayout

\* What the parser sums is what the builder has summed: the checksum that is left
\* out is the one that was not there yet, and the authentication header is zero.
LEMMA SameSum ==
  ASSUME NEW q \in Bytes, NEW r \in Bytes, SameButChecksum(q, r),
         r[13] = 0, r[14] = 0, \A i \in 17 .. 24 : r[i] = 0
  PROVE  WordSum(q, Unsummed) = WordSum(r, {})
<1>1. Len(q) = Len(r) /\ Len(r) \in Nat
  BY DEF SameButChecksum, Bytes
<1>2. ASSUME NEW i \in 1 .. Len(r)
      PROVE  (IF i - 1 \in Unsummed THEN 0 ELSE IF i % 2 = 1 THEN 256 * q[i] ELSE q[i])
               = (IF i - 1 \in {} THEN 0 ELSE IF i % 2 = 1 THEN 256 * r[i] ELSE r[i])
  <2>1. i - 1 \in Unsummed <=> i = 13 \/ i = 14 \/ i \in 17 .. 24
    BY <1>1 DEF Unsummed
  <2>2. CASE i - 1 \in Unsummed
    <3>1. r[i] = 0
      BY <2>1, <2>2
    <3>2. QED
      BY <2>2, <3>1
  <2>3. CASE i - 1 \notin Unsummed
    <3>1. i # 13 /\ i # 14
      BY <2>1, <2>3
    <3>2. q[i] = r[i]
      BY <3>1 DEF SameButChecksum
    <3>3. QED
      BY <2>3, <3>2
  <2>4. QED
    BY <2>2, <2>3
<1>3. Weights(q, Unsummed) = Weights(r, {})
  BY <1>1, <1>2, Zenon DEF Weights
<1>4. QED
  BY <1>3 DEF WordSum

\* The length and the checksum of a Hello that can be built.
LEMMA BuiltHello ==
  ASSUME NEW f \in HelloFields, Len(f.neighbors) <= MaxNeighbors,
         NEW length, length = 44 + 4 * Len(f.neighbors)
  PROVE  /\ length \in Nat /\ length < Word /\ length % 4 = 0 /\ length >= 44
         /\ (length - 44) \div 4 = Len(f.neighbors)
         /\ \E c \in Nat :
              /\ c < Word /\ BuildHello(f) = HelloPacket(f, length, c)
              /\ WordSum(HelloBytes(BuildHello(f)), Unsummed) \in 0 .. Word * Word - 1
              /\ c = FinalResult(WordSum(HelloBytes(BuildHello(f)), Unsummed))
<1> DEFINE n == Len(f.neighbors)
           r == HelloBytes(HelloPacket(f, length, 0))
           c == InternetChecksum(r)
           w == HelloBytes(HelloPacket(f, length, c))
<1>1. n \in Nat /\ n <= 16372 /\ length = 44 + 4 * n
  BY DEF HelloFields, MaxNeighbors, HeaderLength
<1>2. /\ length \in Nat /\ length < Word /\ length >= 44
      /\ length % 4 = 0 /\ (length - 44) \div 4 = n
  <2> HIDE DEF n
  <2>1. length \in Nat /\ length < Word /\ length >= 44
    BY <1>1 DEF Word
  <2>2. PICK q \in Nat : q = n + 11
    BY <1>1
  <2>3. length = 4 * q /\ length - 44 = 4 * n
    BY <1>1, <2>2
  <2>4. (4 * q) % 4 = 0 /\ (4 * n) \div 4 = n
    BY <1>1
  <2>5. length % 4 = 0
    BY <2>3, <2>4, Zenon
  <2>6. (length - 44) \div 4 = n
    BY <2>3, <2>4, Zenon
  <2>7. QED
    BY <2>1, <2>5, <2>6, Zenon
<1>3. HelloLength(n) = length
  <2> HIDE DEF n
  <2> QED BY <1>1, <1>2 DEF HelloLength, HeaderLength, Word
<1>4. BuildHello(f) = HelloPacket(f, length, c)
  <2>1. ~ (Len(f.neighbors) > MaxNeighbors)
    BY <1>1 DEF MaxNeighbors, HeaderLength
  <2>2. QED
    BY <1>3, <2>1, Zenon DEF BuildHello
<1>5. 0 \in Nat /\ 0 < Word /\ 0 \div 256 = 0 /\ 0 % 256 = 0
  BY DEF Word
<1>6. /\ r \in Bytes /\ Len(r) = length /\ r[13] = 0 /\ r[14] = 0
      /\ \A i \in 17 .. 24 : r[i] = 0
  <2>1. r = HelloBytes(HelloPacket(f, length, 0)) /\ length \in Nat /\ length < Word
        /\ 0 \in Nat /\ 0 < Word
    BY <1>2, <1>5
  <2> HIDE DEF r
  <2>2. HelloLayout(r, f, length, 0)
    BY <2>1, HelloAsBytes, Zenon
  <2>3. QED
    BY <1>2, <1>5, <2>2 DEF HelloLayout
<1>7. WordSum(r, {}) \in 0 .. Word * Word - 1
  <2> HIDE DEF r
  <2> QED BY <1>2, <1>6, WordSumFacts DEF Bytes
<1>8. c = FinalResult(WordSum(r, {})) /\ c \in 0 .. Word - 1
  BY <1>7, ChecksumIsOnesComplement DEF InternetChecksum
<1>9. c \in Nat /\ c < Word
  BY <1>8, WordSize
<1> HIDE DEF c
<1>10. w \in Bytes /\ SameButChecksum(w, r)
  <2> HIDE DEF r
  <2>1. w = HelloBytes(HelloPacket(f, length, c)) /\ length \in Nat /\ length < Word
    BY <1>2
  <2> HIDE DEF w
  <2>2. HelloLayout(w, f, length, c)
    BY <1>9, <2>1, HelloAsBytes, Zenon
  <2>3. QED
    BY <2>2 DEF HelloLayout, r
<1>11. WordSum(w, Unsummed) = WordSum(r, {})
  <2> HIDE DEF w, r
  <2> QED BY <1>6, <1>10, SameSum
<1>12. HelloBytes(BuildHello(f)) = w
  BY <1>4
<1> HIDE DEF w, r
<1>13. QED
  BY <1>2, <1>4, <1>7, <1>8, <1>9, <1>11, <1>12

\* What an OspfHelloPacketBuilder builds, OspfHelloPacket::try_from reads as it was
\* meant, whatever follows it in the buffer.  The one exception is the checksum that
\* is folded once: the packet is refused just when the fold leaves a carry.
THEOREM HelloReadAsBuilt ==
  ASSUME NEW f \in HelloFields, Len(f.neighbors) <= MaxNeighbors, NEW padding \in Bytes,
         NEW w, w = HelloBytes(BuildHello(f))
  PROVE  ParseHello(w \o padding) =
           IF Fold(WordSum(w, Unsummed)) < Word THEN BuildHello(f)
                                                ELSE Failed("InvalidChecksum")
<1> DEFINE n == Len(f.neighbors)
           length == 44 + 4 * n
           data == w \o padding
<1>1. /\ length \in Nat /\ length < Word /\ length % 4 = 0 /\ length >= 44
      /\ (length - 44) \div 4 = n
  BY BuiltHello
<1>2. PICK c \in Nat : /\ c < Word /\ BuildHello(f) = HelloPacket(f, length, c)
                       /\ WordSum(w, Unsummed) \in 0 .. Word * Word - 1
                       /\ c = FinalResult(WordSum(w, Unsummed))
  BY BuiltHello
<1>3. n \in Nat
  BY DEF HelloFields
<1>4. w = HelloBytes(HelloPacket(f, length, c))
  BY <1>2
<1> HIDE DEF length
<1>5. /\ w \in Bytes /\ Len(w) = length
      /\ w[1] = 2 /\ w[2] = Hello
      /\ Slice(w, 2, 4) = Bytes16(length)
      /\ Slice(w, 4, 8) = f.router_id /\ Slice(w, 8, 12) = f.area_id
      /\ Slice(w, 12, 14) = Bytes16(c) /\ Slice(w, 14, 16) = Bytes16(0)
      /\ Slice(w, 24, 28) = f.network_mask.netmask_number
      /\ Slice(w, 28, 30) = Bytes16(f.hello_interval)
      /\ w[31] = f.options /\ w[32] = f.router_priority
      /\ Slice(w, 32, 36) = f.router_dead_interval
      /\ Slice(w, 36, 40) = f.designated_router
      /\ Slice(w, 40, 44) = f.backup_designated_router
      /\ \A j \in 1 .. n : Slice(w, 40 + 4 * j, 44 + 4 * j) = f.neighbors[j]
  <2>1. Len(w) = 44 + 4 * n => Len(w) = length
    BY DEF length
  <2>2. HelloLayout(w, f, length, c)
    BY <1>1, <1>2, <1>4, HelloAsBytes, Zenon
  <2>3. QED
    BY <2>1, <2>2 DEF HelloLayout
<1>6. StartsWith(data, w)
  BY <1>5, AppendedStarts
<1> HIDE DEF data
<1>7. /\ data \in Bytes /\ Len(data) >= length /\ Len(data) \in Nat
      /\ \A i \in 1 .. length : data[i] = w[i]
      /\ \A to \in 0 .. length : \A from \in 0 .. to : Slice(data, from, to) = Slice(w, from, to)
  BY <1>1, <1>5, <1>6 DEF StartsWith, Bytes
<1>8. /\ Slice(data, 2, 4) = Slice(w, 2, 4) /\ Slice(data, 14, 16) = Slice(w, 14, 16)
      /\ Slice(data, 24, 28) = Slice(w, 24, 28) /\ Slice(data, 28, 30) = Slice(w, 28, 30)
      /\ Slice(data, 32, 36) = Slice(w, 32, 36) /\ Slice(data, 36, 40) = Slice(w, 36, 40)
      /\ Slice(data, 40, 44) = Slice(w, 40, 44) /\ data[31] = w[31] /\ data[32] = w[32]
  BY <1>1, <1>7
<1>9. Slice(data, 0, length) = w
  <2>1. Slice(data, 0, length) = Slice(w, 0, length)
    BY <1>1, <1>7
  <2>2. Slice(w, 0, length) = w
    BY <1>1, <1>5, WholeOrNone DEF Slice, Bytes
  <2>3. QED
    BY <2>1, <2>2
<1>10. ASSUME NEW j \in 1 .. n
       PROVE  Slice(data, 40 + 4 * j, 44 + 4 * j) = f.neighbors[j]
  <2>1. 44 + 4 * j \in 0 .. length /\ 40 + 4 * j \in 0 .. 44 + 4 * j
    BY <1>3 DEF length
  <2>2. QED
    BY <1>5, <1>7, <2>1
<1>11. Number16(Slice(data, 2, 4)) = length /\ Number16(Slice(data, 14, 16)) = 0
       /\ Number16(Slice(w, 12, 14)) = c
  <2>1. 0 \in Nat /\ 0 < Word
    BY DEF Word
  <2>2. QED
    BY <1>1, <1>2, <1>5, <1>8, <2>1, NumberBytes
<1>12. ParseHeader(data) = ReadHeader(w, length, 0)
  <2>1. /\ ~ (Len(data) < HeaderLength) /\ ~ (length < HeaderLength) /\ ~ (Len(data) < length)
        /\ ~ (length % 4 # 0) /\ ~ (0 \notin 0 .. 2)
    BY <1>1, <1>7 DEF HeaderLength
  <2>2. QED
    BY <1>9, <1>11, <2>1, Zenon DEF ParseHeader
<1> DEFINE b == BuildHeader(Hello, length, f.router_id, f.area_id, c)
<1>13. ReadHeader(w, length, 0) = IF Fold(WordSum(w, Unsummed)) < Word THEN b
                                  ELSE Failed("InvalidChecksum")
  <2>1. ExpectedChecksum(w, 0) = FinalResultFoldedOnce(WordSum(w, Unsummed))
    BY DEF ExpectedChecksum, AuthenticationTypes
  <2>2. c = ExpectedChecksum(w, 0) <=> Fold(WordSum(w, Unsummed)) < Word
    <3>1. ExpectedChecksum(w, 0) = c + (IF Fold(WordSum(w, Unsummed)) < Word THEN 0 ELSE 1)
      BY <1>2, <2>1, OneFoldDecides
    <3>2. QED
      BY <1>2, <3>1
  <2>3. /\ ~ (w[1] # 2) /\ ~ (w[2] \notin MessageTypes)
        /\ AuthenticationHeader(0, Slice(w, 16, 24)) = <<>>
    BY <1>5 DEF Hello, MessageTypes, AuthenticationHeader
  <2>4. b = [version |-> w[1], message_type |-> w[2], packet_length |-> length,
             router_id |-> Slice(w, 4, 8), area_id |-> Slice(w, 8, 12), checksum |-> c,
             authentication_type |-> 0,
             authentication_header |-> AuthenticationHeader(0, Slice(w, 16, 24))]
    <3>1. AuthenticationTypes.Null = 0
      BY DEF AuthenticationTypes
    <3>2. QED
      BY <1>5, <2>3, <3>1, Zenon DEF BuildHeader
  <2> HIDE DEF b
  <2>5. CASE Fold(WordSum(w, Unsummed)) < Word
    BY <1>11, <2>2, <2>3, <2>4, <2>5, Zenon DEF ReadHeader
  <2>6. CASE ~ (Fold(WordSum(w, Unsummed)) < Word)
    BY <1>11, <2>2, <2>6, Zenon DEF ReadHeader
  <2>7. QED
    BY <2>5, <2>6
<1>14. CASE ~ (Fold(WordSum(w, Unsummed)) < Word)
  <2>1. ParseHeader(data) = Failed("InvalidChecksum")
    BY <1>12, <1>13, <1>14
  <2>2. ~ Ok(Failed("InvalidChecksum"))
    BY DEF Ok, Failed
  <2>3. ParseHello(data) = Failed("InvalidChecksum")
    BY <2>1, <2>2, Zenon DEF ParseHello
  <2>4. QED
    BY <1>14, <2>3 DEF data
<1>15. CASE Fold(WordSum(w, Unsummed)) < Word
  <2>1. ParseHeader(data) = b
    BY <1>12, <1>13, <1>15
  <2>2. Ok(b) /\ b.packet_length = length /\ b.authentication_type = 0
    BY DEF Ok, BuildHeader, AuthenticationTypes
  <2>3. AuthenticationTypes.Null = 0
    BY DEF AuthenticationTypes
  <2> HIDE DEF b
  <2>4. ~ (length < 44) /\ ~ (length % 4 # 0)
    BY <1>1
  <2>5. ParseHello(data) = ReadHello(data, b)
    BY <2>1, <2>2, <2>3, <2>4, Zenon DEF ParseHello
  <2>6. Ipv4Netmask(Slice(data, 24, 28)) = f.network_mask
    <3>1. PICK m \in Address : f.network_mask = Ipv4Netmask(m)
      BY DEF HelloFields
    <3>2. f.network_mask.netmask_number = m
      BY <3>1 DEF Ipv4Netmask
    <3>3. QED
      BY <1>5, <1>8, <3>1, <3>2
  <2>7. Number16(Slice(data, 28, 30)) = f.hello_interval
    <3>1. f.hello_interval \in Nat /\ f.hello_interval < Word
      BY DEF HelloFields
    <3>2. QED
      BY <1>5, <1>8, <3>1, NumberBytes
  <2>8. [i \in 1 .. (b.packet_length - 44) \div 4 |-> Slice(data, 40 + 4 * i, 44 + 4 * i)]
          = f.neighbors
    <3>1. (b.packet_length - 44) \div 4 = n
      BY <1>1, <2>2
    <3>2. [i \in 1 .. n |-> Slice(data, 40 + 4 * i, 44 + 4 * i)] = [i \in 1 .. n |-> f.neighbors[i]]
      BY <1>10, Zenon
    <3>3. f.neighbors = [i \in 1 .. n |-> f.neighbors[i]]
      BY DEF HelloFields
    <3>4. QED
      BY <3>1, <3>2, <3>3
  <2>9. ReadHello(data, b) = HelloPacket(f, length, c)
    <3> HIDE DEF n
    <3> QED BY <1>5, <1>8, <2>6, <2>7, <2>8, Zenon DEF ReadHello, HelloPacket, b
  <2>10. QED
    BY <1>2, <1>15, <2>5, <2>9 DEF data
<1>16. QED
  BY <1>14, <1>15

-----------------------------------------------------------------------------
(* Packets compared. *)

\* q and r have the same bytes from one offset to the other.
SameBetween(q, r, from, to) == \A i \in from + 1 .. to : q[i] = r[i]

\* Then that slice of them is the same.
LEMMA SlicesAgree ==
  ASSUME NEW q \in Bytes, NEW r \in Bytes,
         NEW to \in 0 .. Len(r), to <= Len(q), NEW from \in 0 .. to,
         SameBetween(q, r, from, to)
  PROVE  Slice(q, from, to) = Slice(r, from, to)
<1> DEFINE u == Slice(q, from, to)
           v == Slice(r, from, to)
<1>1. /\ q \in Seq(Byte) /\ r \in Seq(Byte) /\ from \in Nat
      /\ to \in from .. Len(q) /\ to \in from .. Len(r)
  BY DEF Bytes
<1>2. /\ u \in Seq(Byte) /\ Len(u) = to - from /\ \A k \in 1 .. to - from : u[k] = q[from + k]
      /\ v \in Seq(Byte) /\ Len(v) = to - from /\ \A k \in 1 .. to - from : v[k] = r[from + k]
  BY <1>1, SliceFacts
<1>3. ASSUME NEW k \in 1 .. to - from PROVE q[from + k] = r[from + k]
  <2>1. from + k \in from + 1 .. to
    BY <1>1
  <2>2. QED
    BY <2>1 DEF SameBetween
<1> HIDE DEF u, v
<1>4. u = v
  BY <1>2, <1>3, EqualSeqs
<1>5. QED
  BY <1>4 DEF u, v

\* The bytes of a slice are those of the packet.
LEMMA SliceBytes ==
  ASSUME NEW q \in Bytes, NEW from \in Nat, NEW to \in from .. Len(q)
  PROVE  /\ Slice(q, from, to) \in Bytes /\ Len(Slice(q, from, to)) = to - from
         /\ \A k \in 1 .. to - from : Slice(q, from, to)[k] = q[from + k]
BY SliceFacts DEF Bytes

\* A number read from a packet: it has a byte for each half.
LEMMA NumberRange ==
  ASSUME NEW q \in Bytes, NEW from \in Nat, from + 2 <= Len(q),
         NEW n, n = Number16(Slice(q, from, from + 2))
  PROVE  /\ n \in Nat /\ n < Word /\ n = 256 * q[from + 1] + q[from + 2]
         /\ n \div 256 = q[from + 1] /\ n % 256 = q[from + 2]
         /\ q[from + 1] \in Byte /\ q[from + 2] \in Byte
<1>1. PICK to : to = from + 2
  OBVIOUS
<1>2. to \in from .. Len(q) /\ to - from = 2 /\ Len(q) \in Nat
  BY <1>1 DEF Bytes
<1>3. Slice(q, from, to)[1] = q[from + 1] /\ Slice(q, from, to)[2] = q[from + 2]
  <2>1. \A k \in 1 .. to - from : Slice(q, from, to)[k] = q[from + k]
    BY <1>2, SliceBytes, Zenon
  <2>2. QED
    BY <1>2, <2>1
<1> DEFINE a == q[from + 1]
           b == q[from + 2]
<1>4. a \in Byte /\ b \in Byte
  <2>1. from + 1 \in 1 .. Len(q) /\ from + 2 \in 1 .. Len(q)
    BY <1>2
  <2>2. QED
    BY <2>1 DEF Bytes
<1>5. n = 256 * a + b
  BY <1>1, <1>3, Zenon DEF Number16
<1> HIDE DEF a, b
<1>6. a \in Nat /\ a <= 255 /\ b \in Nat /\ b <= 255
  BY <1>4, ByteFacts
<1>7. n \in Nat /\ n < Word
  BY <1>5, <1>6 DEF Word
<1>8. n \div 256 = a /\ n % 256 = b
  BY <1>5, <1>6
<1>9. QED
  BY <1>4, <1>5, <1>7, <1>8 DEF a, b

\* q and r have the same bytes, but for those that are left out of the sum, or 0.
CountAlike(q, A, r, B) ==
  \A i \in 1 .. Len(r) : (IF i - 1 \in A THEN 0 ELSE q[i]) = (IF i - 1 \in B THEN 0 ELSE r[i])

\* Bytes that count alike give the same sum, whatever is left out of it.
LEMMA SumsAgree ==
  ASSUME NEW q, NEW r, Len(q) = Len(r), NEW A, NEW B, CountAlike(q, A, r, B)
  PROVE  WordSum(q, A) = WordSum(r, B)
<1>1. ASSUME NEW i \in 1 .. Len(r)
      PROVE  (IF i - 1 \in A THEN 0 ELSE IF i % 2 = 1 THEN 256 * q[i] ELSE q[i])
               = (IF i - 1 \in B THEN 0 ELSE IF i % 2 = 1 THEN 256 * r[i] ELSE r[i])
  <2>1. (IF i - 1 \in A THEN 0 ELSE q[i]) = (IF i - 1 \in B THEN 0 ELSE r[i])
    BY Zenon DEF CountAlike
  <2>2. 256 * 0 = 0
    OBVIOUS
  <2>3. CASE i - 1 \in A /\ i - 1 \in B
    BY <2>3
  <2>4. CASE i - 1 \in A /\ i - 1 \notin B
    BY <2>1, <2>2, <2>4
  <2>5. CASE i - 1 \notin A /\ i - 1 \in B
    BY <2>1, <2>2, <2>5
  <2>6. CASE i - 1 \notin A /\ i - 1 \notin B
    BY <2>1, <2>6
  <2>7. QED
    BY <2>3, <2>4, <2>5, <2>6
<1>2. Weights(q, A) = Weights(r, B)
  BY <1>1, Zenon DEF Weights
<1>3. QED
  BY <1>2 DEF WordSum

\* Only a multiple of 65535 can hide from the checksum.
LEMMA FinalResultsDiffer ==
  ASSUME NEW s \in 0 .. Word * Word - 1, NEW t \in 0 .. Word * Word - 1,
         NEW d \in Int, s = t + d, d # 0, d < Word - 1, -d < Word - 1
  PROVE  FinalResult(s) # FinalResult(t)
<1>1. SUFFICES ASSUME FinalResult(s) = FinalResult(t) PROVE FALSE
  OBVIOUS
<1>2. Word \in Nat /\ Word > 1 /\ Word * Word \in Nat
  BY WordSize
<1> DEFINE x == (Word - 1) - FinalResult(t)
<1>3. FinalResult(t) \in 0 .. Word - 1 /\ Equivalent(Word, t, x) /\ Equivalent(Word, s, x)
  BY <1>1, ChecksumIsOnesComplement
<1>4. x \in Int
  BY <1>2, <1>3
<1> HIDE DEF x
<1>5. PICK a \in Int : s = x + (Word - 1) * a
  BY <1>3 DEF Equivalent
<1>6. PICK b \in Int : t = x + (Word - 1) * b
  BY <1>3 DEF Equivalent
<1>7. PICK m \in Nat : m = Word - 1
  BY <1>2
<1>8. /\ s \in Int /\ t \in Int /\ s = x + m * a /\ t = x + m * b /\ d < m /\ -d < m
  BY <1>2, <1>5, <1>6, <1>7
<1>9. m * a = m * b + d
  BY <1>4, <1>8
<1>10. PICK e \in Int : e = a - b
  OBVIOUS
<1>11. m * e = d
  <2>1. m * e = m * a - m * b /\ m * a \in Int /\ m * b \in Int
    BY <1>10
  <2>2. QED
    BY <1>9, <2>1
<1>12. CASE e >= 1
  <2>1. PICK g \in Nat : e = g + 1
    BY <1>12
  <2>2. m * e = m * g + m /\ m * g \in Nat
    BY <2>1
  <2>3. QED
    BY <1>8, <1>11, <2>2
<1>13. CASE e <= -1
  <2>1. PICK g \in Nat : e = -(g + 1)
    <3>1. -e - 1 \in Nat /\ e = -((-e - 1) + 1)
      BY <1>13
    <3>2. QED
      BY <3>1
  <2>2. m * e = -(m * g) - m /\ m * g \in Nat
    BY <2>1
  <2>3. QED
    BY <1>8, <1>11, <2>2
<1>14. CASE e = 0
  BY <1>11, <1>14
<1>15. QED
  BY <1>12, <1>13, <1>14

\* Two packets that differ in one byte that is summed have different checksums.
LEMMA OneByteShows ==
  ASSUME NEW q \in Bytes, NEW r \in Bytes, Len(q) = Len(r), Len(r) < Word,
         NEW i \in 1 .. Len(r), i - 1 \notin Unsummed, q[i] # r[i],
         \A j \in 1 .. Len(r) : j # i => q[j] = r[j]
  PROVE  FinalResult(WordSum(q, Unsummed)) # FinalResult(WordSum(r, Unsummed))
<1> DEFINE n == Len(r)
           w == Weights(q, Unsummed)
           v == Weights(r, Unsummed)
<1>1. /\ n \in Nat /\ \A j \in 1 .. n : q[j] \in Nat /\ q[j] <= 255 /\ r[j] \in Nat /\ r[j] <= 255
      /\ q \in Seq(Byte) /\ r \in Seq(Byte)
  BY ByteFacts DEF Bytes
<1>2. PICK m : m = 65280
  OBVIOUS
<1>3. m \in Nat /\ 256 * 255 = m /\ 255 <= m /\ m < Word - 1
  BY <1>2 DEF Word
<1>4. /\ w = [j \in 1 .. n |-> IF j - 1 \in Unsummed THEN 0
                               ELSE IF j % 2 = 1 THEN 256 * q[j] ELSE q[j]]
      /\ v = [j \in 1 .. n |-> IF j - 1 \in Unsummed THEN 0
                               ELSE IF j % 2 = 1 THEN 256 * r[j] ELSE r[j]]
  BY Zenon DEF Weights
<1>5. WordSum(q, Unsummed) = SumOf(w) /\ WordSum(r, Unsummed) = SumOf(v)
  BY DEF WordSum
<1>6. WordSum(q, Unsummed) \in 0 .. Word * Word - 1 /\ WordSum(r, Unsummed) \in 0 .. Word * Word - 1
  BY <1>1, WordSumFacts
<1> HIDE DEF n, w, v
<1>7. w \in [1 .. n -> 0 .. m] /\ v \in [1 .. n -> 0 .. m]
  <2>1. \A j \in 1 .. n :
          (IF j - 1 \in Unsummed THEN 0 ELSE IF j % 2 = 1 THEN 256 * q[j] ELSE q[j]) \in 0 .. m
    BY <1>1, <1>3
  <2>2. \A j \in 1 .. n :
          (IF j - 1 \in Unsummed THEN 0 ELSE IF j % 2 = 1 THEN 256 * r[j] ELSE r[j]) \in 0 .. m
    BY <1>1, <1>3
  <2>3. w \in [1 .. n -> 0 .. m]
    BY <1>4, <2>1
  <2>4. v \in [1 .. n -> 0 .. m]
    BY <1>4, <2>2
  <2>5. QED
    BY <2>3, <2>4
<1>8. \A j \in 1 .. n : j # i => w[j] = v[j]
  BY <1>4 DEF n
<1>9. PICK d \in Int : w[i] = v[i] + d /\ d # 0 /\ d < Word - 1 /\ -d < Word - 1
  <2>1. i \in 1 .. n
    BY DEF n
  <2>2. w[i] \in 0 .. m /\ v[i] \in 0 .. m
    BY <1>7, <2>1
  <2>3. w[i] # v[i]
    <3>1. /\ w[i] = IF i % 2 = 1 THEN 256 * q[i] ELSE q[i]
          /\ v[i] = IF i % 2 = 1 THEN 256 * r[i] ELSE r[i]
      BY <1>4, <2>1
    <3>2. q[i] \in Nat /\ r[i] \in Nat
      BY <1>1, <2>1
    <3>3. 256 * q[i] # 256 * r[i]
      BY <3>2
    <3>4. QED
      BY <3>1, <3>3
  <2>4. /\ w[i] - v[i] \in Int /\ w[i] = v[i] + (w[i] - v[i]) /\ w[i] - v[i] # 0
        /\ w[i] - v[i] <= m /\ -(w[i] - v[i]) <= m
    BY <1>3, <2>2, <2>3
  <2>5. PICK e : e = w[i] - v[i]
    OBVIOUS
  <2>6. e \in Int /\ w[i] = v[i] + e /\ e # 0 /\ e <= m /\ -e <= m
    BY <2>4, <2>5
  <2>7. e < Word - 1 /\ -e < Word - 1
    BY <1>3, <2>6, WordSize
  <2>8. QED
    BY <2>6, <2>7
<1>10. \A x \in [1 .. n -> 0 .. m] :
         \E s \in [0 .. n -> Nat] :
           SumOf(x) = s[n] /\ s[0] = 0 /\ \A j \in 1 .. n : s[j] = s[j - 1] + x[j]
  <2>1. n \in Nat /\ m \in Nat
    BY <1>1, <1>3
  <2>2. QED
    BY <2>1, SumFacts
<1>11. /\ \E s \in [0 .. n -> Nat] :
            SumOf(w) = s[n] /\ s[0] = 0 /\ \A j \in 1 .. n : s[j] = s[j - 1] + w[j]
       /\ \E t \in [0 .. n -> Nat] :
            SumOf(v) = t[n] /\ t[0] = 0 /\ \A j \in 1 .. n : t[j] = t[j - 1] + v[j]
  BY <1>7, <1>10, Zenon
<1>12. PICK s \in [0 .. n -> Nat] :
         SumOf(w) = s[n] /\ s[0] = 0 /\ \A j \in 1 .. n : s[j] = s[j - 1] + w[j]
  BY <1>11, Zenon
<1>13. PICK t \in [0 .. n -> Nat] :
         SumOf(v) = t[n] /\ t[0] = 0 /\ \A j \in 1 .. n : t[j] = t[j - 1] + v[j]
  BY <1>11, Zenon
<1> DEFINE T == {k \in 0 .. n : s[k] = t[k] + (IF k < i THEN 0 ELSE d)}
<1>14. 0 \in T
  BY <1>1, <1>12, <1>13
<1>15. ASSUME NEW k \in 0 .. n - 1, k \in T PROVE k + 1 \in T
  <2>1. k + 1 \in 1 .. n /\ (k + 1) - 1 = k /\ k + 1 \in 0 .. n /\ k \in 0 .. n /\ k \in Nat
    BY <1>1
  <2>2. s[k + 1] = s[k] + w[k + 1] /\ t[k + 1] = t[k] + v[k + 1]
    BY <1>12, <1>13, <2>1
  <2>3. s[k] \in Nat /\ t[k] \in Nat /\ w[k + 1] \in Nat /\ v[k + 1] \in Nat
    BY <1>7, <2>1
  <2>4. s[k] = t[k] + (IF k < i THEN 0 ELSE d)
    BY <1>15
  <2>5. i \in Nat
    OBVIOUS
  <2>6. s[k + 1] = t[k + 1] + (IF k + 1 < i THEN 0 ELSE d)
    <3>1. CASE k + 1 = i
      <4>1. w[k + 1] = v[k + 1] + d /\ k < i /\ ~ (k + 1 < i)
        BY <1>9, <2>1, <3>1
      <4>2. QED
        BY <2>2, <2>3, <2>4, <4>1
    <3>2. CASE k + 1 # i
      <4>1. w[k + 1] = v[k + 1] /\ (k < i <=> k + 1 < i)
        BY <1>8, <2>1, <2>5, <3>2
      <4>2. QED
        BY <2>2, <2>3, <2>4, <4>1
    <3>3. QED
      BY <3>1, <3>2
  <2>7. QED
    BY <2>1, <2>6
<1>16. n \in T
  <2>1. 0 .. n \subseteq T
    <3> HIDE DEF T
    <3> QED BY <1>1, <1>14, <1>15, FiniteInduction
  <2>2. QED
    BY <1>1, <2>1
<1>17. s[n] = t[n] + d
  <2>1. ~ (n < i)
    BY <1>1 DEF n
  <2>2. QED
    BY <1>16, <2>1
<1>18. QED
  BY <1>5, <1>6, <1>9, <1>12, <1>13, <1>17, FinalResultsDiffer

\* A packet starts with what it agrees with.
LEMMA AgreesStarts ==
  ASSUME NEW q \in Bytes, NEW u \in Bytes, Len(u) <= Len(q), SameBetween(q, u, 0, Len(u))
  PROVE  StartsWith(q, u)
<1>1. Len(u) \in Nat /\ Len(q) \in Nat
  BY DEF Bytes
<1>2. \A i \in 1 .. Len(u) : q[i] = u[i]
  BY <1>1 DEF SameBetween
<1>3. ASSUME NEW to \in 0 .. Len(u), NEW from \in 0 .. to
      PROVE  Slice(q, from, to) = Slice(u, from, to)
  <2>1. to <= Len(q)
    BY <1>1
  <2>2. SameBetween(q, u, from, to)
    <3>1. \A i \in from + 1 .. to : i \in 1 .. Len(u)
      BY <1>1
    <3>2. QED
      BY <1>2, <3>1 DEF SameBetween
  <2>3. QED
    BY <2>1, <2>2, SlicesAgree
<1>4. QED
  BY <1>2, <1>3 DEF StartsWith

\* And with what it is cut to.
LEMMA CutStarts ==
  ASSUME NEW q \in Bytes, NEW length \in 0 .. Len(q), NEW u, u = Slice(q, 0, length)
  PROVE  StartsWith(q, u) /\ u \in Bytes /\ Len(u) = length
<1>1. 0 \in Nat /\ length \in Nat /\ length - 0 = length /\ Len(q) \in Nat
  BY DEF Bytes
<1>2. u \in Bytes /\ Len(u) = length /\ \A k \in 1 .. length : u[k] = q[0 + k]
  BY <1>1, SliceBytes
<1>3. Len(u) <= Len(q) /\ SameBetween(q, u, 0, Len(u))
  <2>1. \A k \in 0 + 1 .. length : q[k] = u[k]
    <3>1. \A k \in 0 + 1 .. length : k \in 1 .. length /\ 0 + k = k
      BY <1>1
    <3>2. QED
      BY <1>2, <3>1
  <2>2. QED
    BY <1>1, <1>2, <2>1 DEF SameBetween
<1>4. QED
  BY <1>2, <1>3, AgreesStarts

-----------------------------------------------------------------------------
(* What the parsers accept. *)

\* What OspfHeader::try_from asks of a packet with this length and type of
\* authentication in its header.
Acceptable(q, length, type) ==
  /\ Len(q) >= 24 /\ length = Number16(Slice(q, 2, 4)) /\ type = Number16(Slice(q, 14, 16))
  /\ length >= 24 /\ length <= Len(q) /\ length % 4 = 0 /\ type \in 0 .. 2
  /\ Number16(Slice(q, 12, 14)) = ExpectedChecksum(Slice(q, 0, length), type)
  /\ q[1] = 2 /\ q[2] \in MessageTypes

\* What it makes of such a packet.
HeaderIn(q, length, type) ==
  [version |-> q[1], message_type |-> q[2], packet_length |-> length,
   router_id |-> Slice(q, 4, 8), area_id |-> Slice(q, 8, 12),
   checksum |-> Number16(Slice(q, 12, 14)), authentication_type |-> type,
   authentication_header |-> AuthenticationHeader(type, Slice(q, 16, 24))]

\* It is no error.
LEMMA HeaderIsOk ==
  ASSUME NEW q, NEW length, NEW type
  PROVE  Ok(HeaderIn(q, length, type))
BY DEF Ok, HeaderIn

\* And what it answers otherwise is one.
LEMMA FailedIsNotOk == \A error : ~ Ok(Failed(error))
BY DEF Ok, Failed

\* The header of a packet is read from what its length leaves of it, which is what
\* is there.
LEMMA HeaderWithin ==
  ASSUME NEW q \in Bytes, NEW length \in 24 .. Len(q), NEW type
  PROVE  ReadHeader(Slice(q, 0, length), length, type) =
           IF Number16(Slice(q, 12, 14)) # ExpectedChecksum(Slice(q, 0, length), type)
             THEN Failed("InvalidChecksum")
           ELSE IF q[1] # 2 THEN Failed("Version")
           ELSE IF q[2] \notin MessageTypes THEN Failed("Type")
           ELSE HeaderIn(q, length, type)
<1> DEFINE d == Slice(q, 0, length)
<1>1. length \in 0 .. Len(q) /\ length >= 24 /\ length \in Nat
  BY DEF Bytes
<1>2. StartsWith(q, d) /\ Len(d) = length
  BY <1>1, CutStarts
<1> HIDE DEF d
<1>3. /\ d[1] = q[1] /\ d[2] = q[2] /\ Slice(d, 4, 8) = Slice(q, 4, 8)
      /\ Slice(d, 8, 12) = Slice(q, 8, 12) /\ Slice(d, 12, 14) = Slice(q, 12, 14)
      /\ Slice(d, 16, 24) = Slice(q, 16, 24)
  <2>1. /\ \A i \in 1 .. length : q[i] = d[i]
        /\ \A to \in 0 .. length : \A from \in 0 .. to : Slice(q, from, to) = Slice(d, from, to)
    BY <1>2, Zenon DEF StartsWith
  <2>2. QED
    BY <1>1, <2>1
<1>4. ReadHeader(d, length, type) =
        IF Number16(Slice(q, 12, 14)) # ExpectedChecksum(d, type) THEN Failed("InvalidChecksum")
        ELSE IF q[1] # 2 THEN Failed("Version")
        ELSE IF q[2] \notin MessageTypes THEN Failed("Type")
        ELSE HeaderIn(q, length, type)
  BY <1>3, Zenon DEF ReadHeader, HeaderIn
<1>5. QED
  BY <1>4 DEF d

\* OspfHeader::try_from reads just what is acceptable.
LEMMA HeaderParsed ==
  ASSUME NEW q \in Bytes,
         NEW length, length = Number16(Slice(q, 2, 4)),
         NEW type, type = Number16(Slice(q, 14, 16))
  PROVE  /\ Ok(ParseHeader(q)) <=> Acceptable(q, length, type)
         /\ Acceptable(q, length, type) => ParseHeader(q) = HeaderIn(q, length, type)
<1>1. CASE Len(q) < 24
  <2>1. ParseHeader(q) = Failed("InvalidHeaderLength")
    BY <1>1 DEF ParseHeader, HeaderLength
  <2>2. ~ Acceptable(q, length, type)
    BY <1>1 DEF Acceptable, Bytes
  <2>3. QED
    BY <2>1, <2>2, FailedIsNotOk
<1>2. CASE ~ (Len(q) < 24)
  <2>1. Len(q) \in Nat /\ Len(q) >= 24
    BY <1>2 DEF Bytes
  <2>2. length \in Nat
    <3>1. 2 \in Nat /\ 2 + 2 <= Len(q) /\ 2 + 2 = 4
      BY <2>1
    <3>2. \A n : n = Number16(Slice(q, 2, 2 + 2)) => n \in Nat
      BY <3>1, NumberRange
    <3>3. QED
      BY <3>1, <3>2
  <2>3. CASE length < 24 \/ Len(q) < length \/ length % 4 # 0 \/ type \notin 0 .. 2
    <3>1. ~ Acceptable(q, length, type)
      BY <2>1, <2>2, <2>3 DEF Acceptable
    <3>2. \E error : ParseHeader(q) = Failed(error)
      BY <1>2, <2>3, Zenon DEF ParseHeader, HeaderLength
    <3>3. QED
      BY <3>1, <3>2, FailedIsNotOk
  <2>4. CASE ~ (length < 24 \/ Len(q) < length \/ length % 4 # 0 \/ type \notin 0 .. 2)
    <3>1. length \in 24 .. Len(q)
      BY <2>1, <2>2, <2>4
    <3>2. ParseHeader(q) = ReadHeader(Slice(q, 0, length), length, type)
      BY <1>2, <2>4, Zenon DEF ParseHeader, HeaderLength
    <3> DEFINE right == /\ Number16(Slice(q, 12, 14)) = ExpectedChecksum(Slice(q, 0, length), type)
                        /\ q[1] = 2 /\ q[2] \in MessageTypes
    <3>3. Acceptable(q, length, type) <=> right
      <4>1. /\ Len(q) >= 24 /\ length >= 24 /\ length <= Len(q) /\ length % 4 = 0 /\ type \in 0 .. 2
        BY <2>1, <2>2, <2>4
      <4>2. QED
        BY <4>1, Zenon DEF Acceptable
    <3>4. /\ right => ParseHeader(q) = HeaderIn(q, length, type)
          /\ ~ right => \E error : ParseHeader(q) = Failed(error)
      BY <3>1, <3>2, HeaderWithin, Zenon
    <3> HIDE DEF right
    <3>5. QED
      BY <3>3, <3>4, HeaderIsOk, FailedIsNotOk, Zenon
  <2>5. QED
    BY <2>3, <2>4
<1>3. QED
  BY <1>1, <1>2

\* OspfHelloPacket::try_from reads just what is acceptable, long enough and without
\* authentication.
LEMMA HelloParsed ==
  ASSUME NEW q \in Bytes, NEW length, length = Number16(Slice(q, 2, 4))
  PROVE  /\ Ok(ParseHello(q)) <=> Acceptable(q, length, 0) /\ length >= 44
         /\ Acceptable(q, length, 0) /\ length >= 44
              => ParseHello(q) = ReadHello(q, HeaderIn(q, length, 0))
<1>1. PICK type : type = Number16(Slice(q, 14, 16))
  OBVIOUS
<1> DEFINE b == HeaderIn(q, length, type)
<1>2. /\ Ok(ParseHeader(q)) <=> Acceptable(q, length, type)
      /\ Acceptable(q, length, type) => ParseHeader(q) = b
  BY <1>1, HeaderParsed
<1>3. b.packet_length = length /\ b.authentication_type = type
  BY DEF HeaderIn
<1>4. Acceptable(q, length, 0) => type = 0
  BY <1>1 DEF Acceptable
<1>5. CASE ~ Acceptable(q, length, type)
  <2>1. ParseHello(q) = ParseHeader(q)
    BY <1>2, <1>5, Zenon DEF ParseHello
  <2>2. QED
    BY <1>2, <1>4, <1>5, <2>1
<1>6. CASE Acceptable(q, length, type)
  <2>1. ParseHeader(q) = b /\ Ok(b) /\ length % 4 = 0
    BY <1>2, <1>6, HeaderIsOk DEF Acceptable
  <2>2. AuthenticationTypes.Null = 0
    BY DEF AuthenticationTypes
  <2>3. length \in Nat
    <3>1. 2 \in Nat /\ 2 + 2 <= Len(q) /\ 2 + 2 = 4
      BY <1>6 DEF Acceptable, Bytes
    <3>2. \A n : n = Number16(Slice(q, 2, 2 + 2)) => n \in Nat
      BY <3>1, NumberRange
    <3>3. QED
      BY <3>1, <3>2
  <2> HIDE DEF b
  <2>4. CASE length < 44 \/ type # 0
    <3>1. \E error : ParseHello(q) = Failed(error)
      BY <1>3, <2>1, <2>2, <2>4, Zenon DEF ParseHello
    <3>2. ~ (length >= 44) \/ type # 0
      BY <2>3, <2>4
    <3>3. QED
      BY <1>4, <3>1, <3>2, FailedIsNotOk
  <2>5. CASE ~ (length < 44) /\ type = 0
    <3>1. ParseHello(q) = ReadHello(q, b)
      BY <1>3, <2>1, <2>2, <2>5, Zenon DEF ParseHello
    <3>2. Ok(ReadHello(q, b))
      BY DEF Ok, ReadHello
    <3>3. length >= 44
      BY <2>3, <2>5
    <3>4. b = HeaderIn(q, length, 0) /\ Acceptable(q, length, 0)
      BY <1>6, <2>5 DEF b
    <3>5. QED
      BY <3>1, <3>2, <3>3, <3>4, Zenon
  <2>6. QED
    BY <2>4, <2>5
<1>7. QED
  BY <1>5, <1>6

-----------------------------------------------------------------------------
(* A packet and what it is serialised to. *)

\* Slices that meet make one slice.
LEMMA SlicesJoin ==
  ASSUME NEW q \in Bytes, NEW to \in 0 .. Len(q), NEW mid \in 0 .. to, NEW from \in 0 .. mid
  PROVE  Slice(q, from, mid) \o Slice(q, mid, to) = Slice(q, from, to)
<1> DEFINE a == Slice(q, from, mid)
           b == Slice(q, mid, to)
           u == Slice(q, from, to)
           v == a \o b
<1>1. /\ from \in Nat /\ mid \in Nat /\ to \in Nat /\ mid \in from .. Len(q)
      /\ to \in mid .. Len(q) /\ to \in from .. Len(q) /\ Len(q) \in Nat
  BY DEF Bytes
<1>2. a \in Bytes /\ Len(a) = mid - from /\ \A k \in 1 .. mid - from : a[k] = q[from + k]
  BY <1>1, SliceBytes
<1>3. b \in Bytes /\ Len(b) = to - mid /\ \A k \in 1 .. to - mid : b[k] = q[mid + k]
  BY <1>1, SliceBytes
<1>4. u \in Bytes /\ Len(u) = to - from /\ \A k \in 1 .. to - from : u[k] = q[from + k]
  BY <1>1, SliceBytes
<1> HIDE DEF a, b, u
<1>5. /\ v \in Bytes /\ Len(v) = Len(a) + Len(b) /\ \A k \in 1 .. Len(a) : v[k] = a[k]
      /\ \A k \in 1 .. Len(b) : v[Len(a) + k] = b[k]
  BY <1>2, <1>3, Appended
<1> HIDE DEF v
<1>6. Len(v) = Len(u)
  BY <1>1, <1>2, <1>3, <1>4, <1>5
<1>7. ASSUME NEW k \in 1 .. Len(u) PROVE v[k] = u[k]
  <2>1. k \in 1 .. to - from /\ u[k] = q[from + k]
    BY <1>1, <1>4
  <2>2. CASE k <= mid - from
    <3>1. k \in 1 .. mid - from
      BY <1>1, <2>1, <2>2
    <3>2. QED
      BY <1>2, <1>5, <2>1, <3>1
  <2>3. CASE k > mid - from
    <3>1. PICK j : j = k - (mid - from)
      OBVIOUS
    <3>2. j \in 1 .. to - mid /\ k = (mid - from) + j /\ mid + j = from + k
      BY <1>1, <2>1, <2>3, <3>1
    <3>3. v[k] = b[j] /\ b[j] = q[mid + j]
      BY <1>2, <1>3, <1>5, <3>2
    <3>4. QED
      BY <2>1, <3>2, <3>3
  <2>4. QED
    BY <1>1, <2>1, <2>2, <2>3
<1>8. v = u
  BY <1>4, <1>5, <1>6, <1>7, EqualSeqs DEF Bytes
<1>9. QED
  BY <1>8 DEF v, u, a, b

\* A byte of a packet is a byte.
LEMMA ByteAt ==
  ASSUME NEW q \in Bytes, NEW i \in 1 .. Len(q)
  PROVE  q[i] \in Byte
BY DEF Bytes

\* Two bytes are a slice, and so is the number they make.
LEMMA SliceOfTwo ==
  ASSUME NEW q \in Bytes, NEW from \in Nat, NEW to, to = from + 2, to <= Len(q)
  PROVE  /\ <<q[from + 1], q[from + 2]>> = Slice(q, from, to)
         /\ Bytes16(Number16(Slice(q, from, to))) = Slice(q, from, to)
         /\ Slice(q, from, to) \in Bytes /\ Len(Slice(q, from, to)) = 2
<1> DEFINE u == Slice(q, from, to)
           a == q[from + 1]
           b == q[from + 2]
           n == Number16(u)
<1>1. to \in from .. Len(q) /\ to - from = 2 /\ Len(q) \in Nat
  BY DEF Bytes
<1>2. u \in Bytes /\ Len(u) = 2 /\ \A k \in 1 .. to - from : u[k] = q[from + k]
  BY <1>1, SliceBytes
<1>3. /\ n \in Nat /\ n < Word /\ n \div 256 = a /\ n % 256 = b /\ a \in Byte /\ b \in Byte
  BY <1>1, NumberRange
<1> HIDE DEF u, n
<1>4. u[1] = a /\ u[2] = b
  BY <1>1, <1>2
<1> HIDE DEF a, b
<1>5. <<a, b>> = u
  <2>1. <<a, b>> \in Bytes /\ Len(<<a, b>>) = 2 /\ <<a, b>>[1] = a /\ <<a, b>>[2] = b
    BY <1>3, TwoBytes
  <2> DEFINE v == <<a, b>>
  <2> HIDE DEF v
  <2>2. \A p \in 1 .. 2 : v[p] = u[p]
    <3>1. \A p \in 1 .. 2 : p = 1 \/ p = 2
      OBVIOUS
    <3>2. QED
      BY <1>4, <2>1, <3>1 DEF v
  <2>3. v = u
    BY <1>2, <2>1, <2>2, EqualSeqs DEF Bytes, v
  <2>4. QED
    BY <2>3 DEF v
<1>6. Bytes16(n) = <<a, b>>
  BY <1>3 DEF Bytes16
<1>7. QED
  BY <1>2, <1>5, <1>6 DEF u, n, a, b

\* The authentication header is eight bytes again, and reads the same.
LEMMA AuthenticationBack ==
  ASSUME NEW type \in 0 .. 2, NEW a \in Bytes, Len(a) = 8,
         NEW z, z = AuthenticationBytes(type, AuthenticationHeader(type, a))
  PROVE  /\ z \in Bytes /\ Len(z) = 8
         /\ AuthenticationHeader(type, z) = AuthenticationHeader(type, a)
<1>1. 0 \in Byte
  BY ByteFacts
<1>2. CASE type = 0
  <2>1. z = [i \in 1 .. 8 |-> 0]
    BY <1>2 DEF AuthenticationBytes
  <2>2. z \in [1 .. 8 -> Byte]
    BY <1>1, <2>1
  <2>3. z \in Bytes /\ Len(z) = 8
    BY <2>2, FunctionIsSeq DEF Bytes
  <2>4. QED
    BY <1>2, <2>3 DEF AuthenticationHeader
<1>3. CASE type = 1
  <2>1. z = a
    BY <1>3 DEF AuthenticationBytes, AuthenticationHeader
  <2>2. QED
    BY <2>1
<1>4. CASE type = 2
  <2> DEFINE b == a[3]
             c == a[4]
             t == Slice(a, 4, 8)
             h == <<0, 0, b, c>>
  <2>1. z = h \o t
    BY <1>4 DEF AuthenticationBytes, AuthenticationHeader
  <2>2. b \in Byte /\ c \in Byte
    <3>1. 3 \in 1 .. Len(a) /\ 4 \in 1 .. Len(a)
      OBVIOUS
    <3>2. QED
      BY <3>1, ByteAt, Zenon
  <2>3. t \in Bytes /\ Len(t) = 4
    <3>1. 4 \in Nat /\ 8 \in 4 .. Len(a) /\ 8 - 4 = 4
      OBVIOUS
    <3>2. QED
      BY <3>1, SliceBytes
  <2> HIDE DEF b, c, t
  <2>4. h \in Bytes /\ Len(h) = 4 /\ h[3] = b /\ h[4] = c
    BY <1>1, <2>2 DEF Bytes
  <2> HIDE DEF h
  <2>5. /\ z \in Bytes /\ Len(z) = Len(h) + Len(t)
        /\ \A i \in 1 .. Len(h) : z[i] = h[i]
        /\ Slice(z, Len(h), Len(h) + Len(t)) = t
    <3>1. h \in Bytes /\ t \in Bytes
      BY <2>3, <2>4
    <3>2. /\ h \o t \in Bytes /\ Len(h \o t) = Len(h) + Len(t)
          /\ \A i \in 1 .. Len(h) : (h \o t)[i] = h[i]
          /\ Slice(h \o t, Len(h), Len(h) + Len(t)) = t
      BY <3>1, Appended, Zenon
    <3>3. QED
      BY <2>1, <3>2, Zenon
  <2>6. Len(z) = 8 /\ z[3] = b /\ z[4] = c /\ Slice(z, 4, 8) = t
    BY <2>3, <2>4, <2>5
  <2>7. \A x : AuthenticationHeader(2, x) = [key_id |-> x[3], authentication_data_length |-> x[4],
                                             cryptographic_sequence_number |-> Slice(x, 4, 8)]
    BY DEF AuthenticationHeader
  <2>8. AuthenticationHeader(type, z) = AuthenticationHeader(type, a)
    BY <1>4, <2>6, <2>7, Zenon DEF b, c, t
  <2>9. QED
    BY <2>5, <2>6, <2>8
<1>5. QED
  BY <1>2, <1>3, <1>4

\* The header that was read is serialised to the first sixteen bytes of the packet
\* and an authentication header.
LEMMA HeaderBack ==
  ASSUME NEW q \in Bytes, NEW length, NEW type, Acceptable(q, length, type),
         NEW z, z = AuthenticationBytes(type, AuthenticationHeader(type, Slice(q, 16, 24)))
  PROVE  HeaderBytes(HeaderIn(q, length, type)) = Slice(q, 0, 16) \o z
<1> DEFINE b == HeaderIn(q, length, type)
<1>1. /\ b.version = q[1] /\ b.message_type = q[2] /\ b.packet_length = length
      /\ b.router_id = Slice(q, 4, 8) /\ b.area_id = Slice(q, 8, 12)
      /\ b.checksum = Number16(Slice(q, 12, 14)) /\ b.authentication_type = type
      /\ b.authentication_header = AuthenticationHeader(type, Slice(q, 16, 24))
  BY DEF HeaderIn
<1> HIDE DEF b
<1>2. Len(q) \in Nat /\ Len(q) >= 24
  BY DEF Acceptable, Bytes
<1>3. length = Number16(Slice(q, 2, 4)) /\ type = Number16(Slice(q, 14, 16))
  BY Zenon DEF Acceptable
<1>4. /\ <<q[1], q[2]>> = Slice(q, 0, 2)
      /\ Bytes16(length) = Slice(q, 2, 4)
      /\ Bytes16(Number16(Slice(q, 12, 14))) = Slice(q, 12, 14)
      /\ Bytes16(type) = Slice(q, 14, 16)
  <2>1. \A from \in Nat : from + 2 <= Len(q) =>
          /\ <<q[from + 1], q[from + 2]>> = Slice(q, from, from + 2)
          /\ Bytes16(Number16(Slice(q, from, from + 2))) = Slice(q, from, from + 2)
    BY SliceOfTwo
  <2>2. <<q[1], q[2]>> = Slice(q, 0, 2)
    <3>1. 0 \in Nat /\ 0 + 2 <= Len(q) /\ 0 + 1 = 1 /\ 0 + 2 = 2
      BY <1>2
    <3>2. QED
      BY <2>1, <3>1
  <2>3. Bytes16(Number16(Slice(q, 2, 4))) = Slice(q, 2, 4)
    <3>1. 2 \in Nat /\ 2 + 2 <= Len(q) /\ 2 + 2 = 4
      BY <1>2
    <3>2. QED
      BY <2>1, <3>1
  <2>4. Bytes16(Number16(Slice(q, 12, 14))) = Slice(q, 12, 14)
    <3>1. 12 \in Nat /\ 12 + 2 <= Len(q) /\ 12 + 2 = 14
      BY <1>2
    <3>2. QED
      BY <2>1, <3>1
  <2>5. Bytes16(Number16(Slice(q, 14, 16))) = Slice(q, 14, 16)
    <3>1. 14 \in Nat /\ 14 + 2 <= Len(q) /\ 14 + 2 = 16
      BY <1>2
    <3>2. QED
      BY <2>1, <3>1
  <2>6. QED
    BY <1>3, <2>2, <2>3, <2>4, <2>5
<1>5. /\ Slice(q, 0, 2) \o Slice(q, 2, 4) = Slice(q, 0, 4)
      /\ Slice(q, 0, 4) \o Slice(q, 4, 8) = Slice(q, 0, 8)
      /\ Slice(q, 0, 8) \o Slice(q, 8, 12) = Slice(q, 0, 12)
      /\ Slice(q, 0, 12) \o Slice(q, 12, 14) = Slice(q, 0, 14)
      /\ Slice(q, 0, 14) \o Slice(q, 14, 16) = Slice(q, 0, 16)
  <2>1. \A to \in 0 .. Len(q) : \A mid \in 0 .. to :
          Slice(q, 0, mid) \o Slice(q, mid, to) = Slice(q, 0, to)
    <3>1. \A to \in 0 .. Len(q) : \A mid \in 0 .. to : 0 \in 0 .. mid
      BY <1>2
    <3>2. QED
      BY <3>1, SlicesJoin
  <2>2. /\ 4 \in 0 .. Len(q) /\ 8 \in 0 .. Len(q) /\ 12 \in 0 .. Len(q) /\ 14 \in 0 .. Len(q)
        /\ 16 \in 0 .. Len(q)
        /\ 2 \in 0 .. 4 /\ 4 \in 0 .. 8 /\ 8 \in 0 .. 12 /\ 12 \in 0 .. 14 /\ 14 \in 0 .. 16
    BY <1>2
  <2>3. QED
    BY <2>1, <2>2, Zenon
<1>6. HeaderBytes(b) = Slice(q, 0, 2) \o Slice(q, 2, 4) \o Slice(q, 4, 8) \o Slice(q, 8, 12)
                         \o Slice(q, 12, 14) \o Slice(q, 14, 16) \o z
  BY <1>1, <1>4, Zenon DEF HeaderBytes
<1>7. HeaderBytes(b) = Slice(q, 0, 16) \o z
  BY <1>5, <1>6, Zenon
<1>8. QED
  BY <1>7 DEF b

\* A sequence is a function on 1 .. n.
LEMMA SeqIsFunction ==
  ASSUME NEW S, NEW q \in Seq(S), NEW n, Len(q) = n
  PROVE  q \in [1 .. n -> S]
OBVIOUS

\* Counting in fours.
LEMMA InFours ==
  ASSUME NEW s \in Nat
  PROVE  \E a \in Nat, b \in 0 .. 3 : s = 4 * a + b
<1>1. PICK m : m = 4
  OBVIOUS
<1>2. m \in Nat /\ m > 0 /\ m - 1 = 3
  BY <1>1
<1>3. s = m * (s \div m) + (s % m) /\ s \div m \in Nat /\ s % m \in 0 .. m - 1
  BY <1>2, DivMod
<1>4. QED
  BY <1>1, <1>2, <1>3

\* The neighbours that were read, put together, are what follows the fixed part.
LEMMA NeighboursBack ==
  ASSUME NEW q \in Bytes, NEW n \in Nat, 44 + 4 * n <= Len(q),
         NEW r, r = [i \in 1 .. n |-> Slice(q, 40 + 4 * i, 44 + 4 * i)]
  PROVE  FlattenSeq(r) = Slice(q, 44, 44 + 4 * n)
<1> DEFINE u == FlattenSeq(r)
           v == Slice(q, 44, 44 + 4 * n)
<1>1. Len(q) \in Nat
  BY DEF Bytes
<1>2. ASSUME NEW i \in 1 .. n
      PROVE  /\ Slice(q, 40 + 4 * i, 44 + 4 * i) \in Address
             /\ \A k \in 1 .. 4 : Slice(q, 40 + 4 * i, 44 + 4 * i)[k] = q[(40 + 4 * i) + k]
  <2>1. PICK from, to : from = 40 + 4 * i /\ to = 44 + 4 * i
    OBVIOUS
  <2>2. from \in Nat /\ to \in from .. Len(q) /\ to - from = 4
    BY <1>1, <2>1
  <2>3. /\ Slice(q, from, to) \in Bytes /\ Len(Slice(q, from, to)) = 4
        /\ \A k \in 1 .. 4 : Slice(q, from, to)[k] = q[from + k]
    BY <2>2, SliceBytes
  <2>4. Slice(q, from, to) \in Address
    <3> DEFINE x == Slice(q, from, to)
    <3> HIDE DEF x
    <3>1. x \in Seq(Byte) /\ Len(x) = 4
      BY <2>3 DEF x, Bytes
    <3>2. QED
      BY <3>1, SeqIsFunction, Zenon DEF x, Address
  <2>5. QED
    BY <2>1, <2>3, <2>4, Zenon
<1>3. r \in [1 .. n -> Address]
  BY <1>2
<1>4. r \in Seq(Address) /\ Len(r) = n
  BY <1>3, FunctionIsSeq
<1>5. /\ u \in Bytes /\ Len(u) = 4 * n
      /\ \A j \in 1 .. n : Slice(u, 4 * j - 4, 4 * j) = r[j]
  BY <1>4, FlattenFacts
<1>6. v \in Bytes /\ Len(v) = 4 * n /\ \A k \in 1 .. 4 * n : v[k] = q[44 + k]
  <2>1. PICK to : to = 44 + 4 * n
    OBVIOUS
  <2>2. 44 \in Nat /\ to \in 44 .. Len(q) /\ to - 44 = 4 * n
    BY <1>1, <2>1
  <2>3. /\ Slice(q, 44, to) \in Bytes /\ Len(Slice(q, 44, to)) = to - 44
        /\ \A k \in 1 .. to - 44 : Slice(q, 44, to)[k] = q[44 + k]
    BY <2>2, SliceBytes, Zenon
  <2>4. QED
    BY <2>1, <2>2, <2>3, Zenon
<1> HIDE DEF u, v
<1>7. ASSUME NEW k \in 1 .. 4 * n PROVE u[k] = v[k]
  <2>1. PICK j \in 1 .. n, e \in 1 .. 4 : k = (4 * j - 4) + e
    <3>1. k - 1 \in Nat
      OBVIOUS
    <3>2. PICK a \in Nat, b \in 0 .. 3 : k - 1 = 4 * a + b
      BY <3>1, InFours
    <3>3. a + 1 \in 1 .. n /\ b + 1 \in 1 .. 4 /\ k = (4 * (a + 1) - 4) + (b + 1)
      BY <3>2
    <3>4. QED
      BY <3>3
  <2>2. u[k] = r[j][e]
    <3>1. PICK from, to : from = 4 * j - 4 /\ to = 4 * j
      OBVIOUS
    <3>2. from \in Nat /\ to \in from .. Len(u) /\ to - from = 4
      BY <1>5, <3>1
    <3>3. \A i \in 1 .. to - from : Slice(u, from, to)[i] = u[from + i]
      BY <1>5, <3>2, SliceBytes, Zenon
    <3>4. Slice(u, from, to)[e] = u[k]
      BY <2>1, <3>1, <3>2, <3>3
    <3>5. QED
      BY <1>5, <3>1, <3>4
  <2>3. r[j][e] = q[(40 + 4 * j) + e]
    BY <1>2
  <2>4. (40 + 4 * j) + e = 44 + k
    BY <2>1
  <2>5. v[k] = q[44 + k]
    BY <1>6
  <2>6. QED
    BY <2>2, <2>3, <2>4, <2>5
<1>8. u = v
  BY <1>5, <1>6, <1>7, EqualSeqs DEF Bytes
<1>9. QED
  BY <1>8 DEF u, v

\* A length in steps of four leaves room for whole neighbours.
LEMMA NeighboursFit ==
  ASSUME NEW length \in Nat, length >= 44, length % 4 = 0
  PROVE  (length - 44) \div 4 \in Nat /\ length = 44 + 4 * ((length - 44) \div 4)
<1>1. PICK a \in Nat : length = 4 * a
  BY DivMod
<1>2. PICK n : n = a - 11
  OBVIOUS
<1>3. n \in Nat /\ length - 44 = 4 * n
  BY <1>1, <1>2
<1>4. (4 * n) \div 4 = n
  BY <1>3
<1>5. (length - 44) \div 4 = n
  BY <1>3, <1>4, Zenon
<1>6. QED
  BY <1>3, <1>5

\* The Hello that was read is serialised to the bytes it was read from, behind the
\* header.
LEMMA HelloBack ==
  ASSUME NEW q \in Bytes, NEW length, Acceptable(q, length, 0), length >= 44
  PROVE  HelloBytes(ReadHello(q, HeaderIn(q, length, 0)))
           = Slice(q, 0, 16) \o AuthenticationBytes(0, <<>>) \o Slice(q, 24, length)
<1> DEFINE b == HeaderIn(q, length, 0)
           p == ReadHello(q, b)
           n == (length - 44) \div 4
           h == Slice(q, 0, 16) \o AuthenticationBytes(0, <<>>)
<1>1. /\ length \in Nat /\ length % 4 = 0 /\ length <= Len(q) /\ Len(q) \in Nat
  <2>1. Len(q) \in Nat /\ Len(q) >= 24 /\ length = Number16(Slice(q, 2, 4))
        /\ length % 4 = 0 /\ length <= Len(q)
    BY DEF Acceptable, Bytes
  <2>2. length \in Nat
    <3>1. 2 \in Nat /\ 2 + 2 <= Len(q) /\ 2 + 2 = 4
      BY <2>1
    <3>2. \A m : m = Number16(Slice(q, 2, 2 + 2)) => m \in Nat
      BY <3>1, NumberRange
    <3>3. QED
      BY <2>1, <3>1, <3>2
  <2>3. QED
    BY <2>1, <2>2
<1>2. n \in Nat /\ length = 44 + 4 * n
  BY <1>1, NeighboursFit
<1>3. HeaderBytes(b) = h /\ h \in Bytes
  <2>1. AuthenticationHeader(0, Slice(q, 16, 24)) = <<>>
    BY DEF AuthenticationHeader
  <2>2. HeaderBytes(b) = h
    BY <2>1, HeaderBack, Zenon
  <2>3. 0 \in 0 .. 2 /\ 16 \in Nat /\ 0 \in Nat /\ 24 \in 16 .. Len(q) /\ 24 - 16 = 8 /\ 16 \in 0 .. Len(q)
    BY <1>1
  <2>4. Slice(q, 16, 24) \in Bytes /\ Len(Slice(q, 16, 24)) = 8 /\ Slice(q, 0, 16) \in Bytes
    BY <2>3, SliceBytes
  <2>5. AuthenticationBytes(0, <<>>) \in Bytes
    BY <2>1, <2>3, <2>4, AuthenticationBack
  <2>6. QED
    BY <2>2, <2>4, <2>5, Appended, Zenon
<1>4. /\ p.header = b /\ p.network_mask = Ipv4Netmask(Slice(q, 24, 28))
      /\ p.hello_interval = Number16(Slice(q, 28, 30))
      /\ p.options = q[31] /\ p.router_priority = q[32]
      /\ p.router_dead_interval = Slice(q, 32, 36) /\ p.designated_router = Slice(q, 36, 40)
      /\ p.backup_designated_router = Slice(q, 40, 44)
      /\ p.neighbors = [i \in 1 .. n |-> Slice(q, 40 + 4 * i, 44 + 4 * i)]
  <2>1. b.packet_length = length
    BY DEF HeaderIn
  <2> HIDE DEF b
  <2>2. QED
    BY <2>1 DEF ReadHello
<1>5. Ipv4Netmask(Slice(q, 24, 28)).netmask_number = Slice(q, 24, 28)
  BY DEF Ipv4Netmask
<1>6. FlattenSeq(p.neighbors) = Slice(q, 44, length)
  <2> HIDE DEF p, n
  <2>1. 44 + 4 * n <= Len(q)
    BY <1>1, <1>2
  <2>2. FlattenSeq(p.neighbors) = Slice(q, 44, 44 + 4 * n)
    BY <1>2, <1>4, <2>1, NeighboursBack, Zenon
  <2>3. QED
    BY <1>2, <2>2
<1>7. /\ Bytes16(Number16(Slice(q, 28, 30))) = Slice(q, 28, 30)
      /\ <<q[31], q[32]>> = Slice(q, 30, 32)
  <2>1. \A from \in Nat : from + 2 <= Len(q) =>
          /\ <<q[from + 1], q[from + 2]>> = Slice(q, from, from + 2)
          /\ Bytes16(Number16(Slice(q, from, from + 2))) = Slice(q, from, from + 2)
    BY SliceOfTwo
  <2>2. 28 \in Nat /\ 28 + 2 <= Len(q) /\ 28 + 2 = 30
    BY <1>1
  <2>3. 30 \in Nat /\ 30 + 2 <= Len(q) /\ 30 + 1 = 31 /\ 30 + 2 = 32
    BY <1>1
  <2>4. Bytes16(Number16(Slice(q, 28, 30))) = Slice(q, 28, 30)
    BY <2>1, <2>2
  <2>5. <<q[31], q[32]>> = Slice(q, 30, 32)
    BY <2>1, <2>3
  <2>6. QED
    BY <2>4, <2>5
<1> HIDE DEF b, p, n, h
<1>8. HelloBytes(p) = h \o Slice(q, 24, 28) \o Slice(q, 28, 30) \o Slice(q, 30, 32)
                        \o Slice(q, 32, 36) \o Slice(q, 36, 40) \o Slice(q, 40, 44)
                        \o Slice(q, 44, length)
  BY <1>3, <1>4, <1>5, <1>6, <1>7, Zenon DEF HelloBytes
<1>9. ASSUME NEW to \in 24 .. Len(q), NEW mid \in 24 .. to
      PROVE  (h \o Slice(q, 24, mid)) \o Slice(q, mid, to) = h \o Slice(q, 24, to)
  <2>1. 24 \in 0 .. mid /\ mid \in 0 .. to /\ to \in 0 .. Len(q) /\ 24 \in Nat /\ mid \in Nat
        /\ mid \in 24 .. Len(q) /\ to \in mid .. Len(q)
    BY <1>1
  <2>2. Slice(q, 24, mid) \o Slice(q, mid, to) = Slice(q, 24, to)
    BY <2>1, SlicesJoin, Zenon
  <2>3. Slice(q, 24, mid) \in Seq(Byte) /\ Slice(q, mid, to) \in Seq(Byte) /\ h \in Seq(Byte)
    <3>1. Slice(q, 24, mid) \in Bytes /\ Slice(q, mid, to) \in Bytes
      BY <2>1, SliceBytes, Zenon
    <3>2. QED
      BY <1>3, <3>1 DEF Bytes
  <2>4. (h \o Slice(q, 24, mid)) \o Slice(q, mid, to) = h \o (Slice(q, 24, mid) \o Slice(q, mid, to))
    BY <2>3, ConcatAssociates
  <2>5. QED
    BY <2>2, <2>4
<1>10. /\ (h \o Slice(q, 24, 28)) \o Slice(q, 28, 30) = h \o Slice(q, 24, 30)
       /\ (h \o Slice(q, 24, 30)) \o Slice(q, 30, 32) = h \o Slice(q, 24, 32)
       /\ (h \o Slice(q, 24, 32)) \o Slice(q, 32, 36) = h \o Slice(q, 24, 36)
       /\ (h \o Slice(q, 24, 36)) \o Slice(q, 36, 40) = h \o Slice(q, 24, 40)
       /\ (h \o Slice(q, 24, 40)) \o Slice(q, 40, 44) = h \o Slice(q, 24, 44)
       /\ (h \o Slice(q, 24, 44)) \o Slice(q, 44, length) = h \o Slice(q, 24, length)
  <2>1. /\ 30 \in 24 .. Len(q) /\ 32 \in 24 .. Len(q) /\ 36 \in 24 .. Len(q)
        /\ 40 \in 24 .. Len(q) /\ 44 \in 24 .. Len(q) /\ length \in 24 .. Len(q)
        /\ 28 \in 24 .. 30 /\ 30 \in 24 .. 32 /\ 32 \in 24 .. 36 /\ 36 \in 24 .. 40
        /\ 40 \in 24 .. 44 /\ 44 \in 24 .. length
    BY <1>1
  <2>2. QED
    BY <1>9, <2>1, Zenon
<1>11. HelloBytes(p) = h \o Slice(q, 24, length)
  BY <1>8, <1>10, Zenon
<1>12. QED
  BY <1>11 DEF p, h, b

\* A header that was read, serialised in front of the rest of the packet, is read
\* the same.
LEMMA HeaderReread ==
  ASSUME NEW q \in Bytes, NEW length, NEW type, Acceptable(q, length, type)
  PROVE  ParseHeader(HeaderBytes(HeaderIn(q, length, type)) \o Slice(q, 24, length))
           = HeaderIn(q, length, type)
<1> DEFINE a == Slice(q, 16, 24)
           z == AuthenticationBytes(type, AuthenticationHeader(type, a))
           front == Slice(q, 0, 16)
           h == front \o z
           t == Slice(q, 24, length)
           r == h \o t
<1>1. /\ length \in Nat /\ length >= 24 /\ length <= Len(q) /\ Len(q) \in Nat /\ type \in 0 .. 2
  <2>1. Len(q) \in Nat /\ length = Number16(Slice(q, 2, 4)) /\ length >= 24 /\ length <= Len(q)
        /\ Len(q) >= 24 /\ type \in 0 .. 2
    BY DEF Acceptable, Bytes
  <2>2. length \in Nat
    <3>1. 2 \in Nat /\ 2 + 2 <= Len(q) /\ 2 + 2 = 4
      BY <2>1
    <3>2. \A m : m = Number16(Slice(q, 2, 2 + 2)) => m \in Nat
      BY <3>1, NumberRange
    <3>3. QED
      BY <2>1, <3>1, <3>2
  <2>3. QED
    BY <2>1, <2>2
<1>2. /\ a \in Bytes /\ Len(a) = 8
      /\ front \in Bytes /\ Len(front) = 16 /\ \A k \in 1 .. 16 : front[k] = q[k]
      /\ t \in Bytes /\ Len(t) = length - 24 /\ \A k \in 1 .. length - 24 : t[k] = q[24 + k]
  <2>1. /\ 16 \in Nat /\ 24 \in 16 .. Len(q) /\ 24 - 16 = 8
        /\ 0 \in Nat /\ 16 \in 0 .. Len(q) /\ 16 - 0 = 16
        /\ 24 \in Nat /\ length \in 24 .. Len(q)
    BY <1>1
  <2>2. a \in Bytes /\ Len(a) = 24 - 16
    BY <2>1, SliceBytes, Zenon
  <2>3. front \in Bytes /\ Len(front) = 16 - 0 /\ \A k \in 1 .. 16 - 0 : front[k] = q[0 + k]
    BY <2>1, SliceBytes, Zenon
  <2>4. t \in Bytes /\ Len(t) = length - 24 /\ \A k \in 1 .. length - 24 : t[k] = q[24 + k]
    BY <2>1, SliceBytes, Zenon
  <2> HIDE DEF a, front, t
  <2>5. QED
    BY <2>2, <2>3, <2>4
<1>3. HeaderBytes(HeaderIn(q, length, type)) = h
  BY HeaderBack
<1> HIDE DEF a, front, t
<1>4. z \in Bytes /\ Len(z) = 8 /\ AuthenticationHeader(type, z) = AuthenticationHeader(type, a)
  BY <1>1, <1>2, AuthenticationBack
<1> HIDE DEF z
<1>5. /\ h \in Bytes /\ Len(h) = 24 /\ \A k \in 1 .. 16 : h[k] = q[k]
      /\ Slice(h, 16, 24) = z
  <2>1. /\ h \in Bytes /\ Len(h) = Len(front) + Len(z)
        /\ \A k \in 1 .. Len(front) : h[k] = front[k]
        /\ Slice(h, Len(front), Len(front) + Len(z)) = z
    BY <1>2, <1>4, Appended, Zenon
  <2> HIDE DEF h
  <2>2. QED
    BY <1>2, <1>4, <2>1
<1> HIDE DEF h
<1>6. /\ r \in Bytes /\ Len(r) = length /\ \A k \in 1 .. 16 : r[k] = q[k]
      /\ Slice(r, 16, 24) = z /\ \A k \in 25 .. length : r[k] = q[k]
  <2>1. /\ r \in Bytes /\ Len(r) = Len(h) + Len(t)
        /\ \A k \in 1 .. Len(h) : r[k] = h[k]
        /\ \A k \in 1 .. Len(t) : r[Len(h) + k] = t[k]
        /\ \A to \in 0 .. Len(h) : \A from \in 0 .. to : Slice(r, from, to) = Slice(h, from, to)
    <3>1. h \in Bytes /\ t \in Bytes
      BY <1>2, <1>5
    <3>2. QED
      BY <3>1, Appended, Zenon
  <2> HIDE DEF r
  <2>2. Len(r) = length
    BY <1>1, <1>2, <1>5, <2>1
  <2>3. Slice(r, 16, 24) = z
    <3>1. 24 \in 0 .. Len(h) /\ 16 \in 0 .. 24
      BY <1>5
    <3>2. Slice(r, 16, 24) = Slice(h, 16, 24)
      BY <2>1, <3>1, Zenon
    <3>3. QED
      BY <1>5, <3>2
  <2>4. \A k \in 1 .. 16 : r[k] = q[k]
    <3>1. \A k \in 1 .. 16 : k \in 1 .. Len(h)
      BY <1>5
    <3>2. QED
      BY <1>5, <2>1, <3>1
  <2>5. ASSUME NEW k \in 25 .. length PROVE r[k] = q[k]
    <3>1. PICK j : j = k - 24
      OBVIOUS
    <3>2. j \in 1 .. length - 24 /\ k = 24 + j
      BY <1>1, <3>1
    <3>3. r[24 + j] = t[j] /\ t[j] = q[24 + j]
      BY <1>2, <1>5, <2>1, <3>2
    <3>4. QED
      BY <3>2, <3>3
  <2>6. QED
    BY <2>1, <2>2, <2>3, <2>4, <2>5
<1> HIDE DEF r
<1>7. ASSUME NEW to \in 0 .. 16, NEW from \in 0 .. to
      PROVE  Slice(r, from, to) = Slice(q, from, to)
  <2>1. to \in 0 .. Len(q) /\ to <= Len(r)
    <3>1. Len(r) = length
      BY <1>6
    <3>2. QED
      BY <1>1, <3>1
  <2>2. SameBetween(r, q, from, to)
    <3>1. \A k \in from + 1 .. to : k \in 1 .. 16
      OBVIOUS
    <3>2. QED
      BY <1>6, <3>1, Zenon DEF SameBetween
  <2>3. QED
    BY <1>6, <2>1, <2>2, SlicesAgree
<1>8. /\ Slice(r, 2, 4) = Slice(q, 2, 4) /\ Slice(r, 4, 8) = Slice(q, 4, 8)
      /\ Slice(r, 8, 12) = Slice(q, 8, 12) /\ Slice(r, 12, 14) = Slice(q, 12, 14)
      /\ Slice(r, 14, 16) = Slice(q, 14, 16) /\ r[1] = q[1] /\ r[2] = q[2]
  BY <1>6, <1>7
<1>9. Slice(r, 0, length) = r
  BY <1>6, WholeOrNone DEF Slice, Bytes
<1> DEFINE d == Slice(q, 0, length)
<1>10. ExpectedChecksum(r, type) = ExpectedChecksum(d, type)
  <2>1. length \in 0 .. Len(q)
    BY <1>1
  <2>2. d \in Bytes /\ Len(d) = length /\ \A k \in 1 .. length : q[k] = d[k]
    <3>1. StartsWith(q, d) /\ d \in Bytes /\ Len(d) = length
      BY <2>1, CutStarts
    <3>2. QED
      BY <3>1 DEF StartsWith
  <2> HIDE DEF d
  <2>3. CountAlike(r, Unsummed, d, Unsummed)
    <3>1. \A k \in 1 .. length : k - 1 \in Unsummed \/ k \in 1 .. 16 \/ k \in 25 .. length
      BY <1>1 DEF Unsummed
    <3>2. \A k \in 1 .. length : k - 1 \in Unsummed \/ r[k] = d[k]
      BY <1>6, <2>2, <3>1
    <3>3. QED
      BY <2>2, <3>2 DEF CountAlike
  <2>4. WordSum(r, Unsummed) = WordSum(d, Unsummed)
    <3>1. Len(r) = Len(d)
      BY <1>6, <2>2
    <3>2. QED
      BY <2>3, <3>1, SumsAgree
  <2>5. QED
    BY <2>4 DEF ExpectedChecksum
<1> HIDE DEF d
<1>11. Acceptable(r, length, type)
  <2>1. /\ length = Number16(Slice(q, 2, 4)) /\ type = Number16(Slice(q, 14, 16))
        /\ length % 4 = 0 /\ Number16(Slice(q, 12, 14)) = ExpectedChecksum(d, type)
        /\ q[1] = 2 /\ q[2] \in MessageTypes
    BY Zenon DEF Acceptable, d
  <2>2. Len(r) >= 24 /\ length >= 24 /\ length <= Len(r) /\ type \in 0 .. 2
    BY <1>1, <1>6
  <2>3. QED
    BY <1>8, <1>9, <1>10, <2>1, <2>2, Zenon DEF Acceptable
<1>12. ParseHeader(r) = HeaderIn(r, length, type)
  <2>1. length = Number16(Slice(r, 2, 4)) /\ type = Number16(Slice(r, 14, 16))
    BY <1>11, Zenon DEF Acceptable
  <2>2. QED
    BY <1>6, <1>11, <2>1, HeaderParsed
<1>13. HeaderIn(r, length, type) = HeaderIn(q, length, type)
  BY <1>4, <1>6, <1>8, Zenon DEF HeaderIn, a
<1>14. QED
  BY <1>3, <1>12, <1>13 DEF r, t

-----------------------------------------------------------------------------
(* What is sent. *)

\* What the constants allow a builder to be given is what HelloReadAsBuilt is about.
LEMMA HellosAreFields ==
  ASSUME NEW f \in Hellos
  PROVE  f \in HelloFields /\ Len(f.neighbors) <= MaxNeighbors
<1> DEFINE g == f.network_mask
<1>1. /\ f \in [router_id : Address, area_id : Address,
                network_mask : [netmask_number : Address, prefix_length : 0 .. 32],
                hello_interval : 0 .. Word - 1, options : Byte, router_priority : Byte,
                router_dead_interval : Address, designated_router : Address,
                backup_designated_router : Address, neighbors : Seq(Address)]
      /\ g = Ipv4Netmask(g.netmask_number)
      /\ Len(f.neighbors) <= MaxNeighbors
  BY CodecAssumption, Zenon
<1>2. g.netmask_number \in Address
  BY <1>1
<1>3. g \in {Ipv4Netmask(m) : m \in Address}
  BY <1>1, <1>2, Zenon
<1>4. f.hello_interval \in {n \in Nat : n < Word}
  <2>1. f.hello_interval \in 0 .. Word - 1
    BY <1>1
  <2>2. QED
    BY <2>1, WordSize
<1> HIDE DEF g
<1>5. f \in HelloFields
  BY <1>1, <1>3, <1>4 DEF HelloFields, g
<1>6. QED
  BY <1>1, <1>5

\* The length of a packet with so many neighbours.
LEMMA LengthFits ==
  ASSUME NEW f \in HelloFields, Len(f.neighbors) <= MaxNeighbors,
         NEW length, length = 44 + 4 * Len(f.neighbors)
  PROVE  length \in Nat /\ length < Word /\ length >= 44
<1>1. Len(f.neighbors) \in Nat /\ Len(f.neighbors) <= 16372
  BY DEF HelloFields, MaxNeighbors, HeaderLength
<1>2. QED
  BY <1>1 DEF Word

\* Where in u the fields of a packet are that has the form of a Hello.
Laid(u, f, type, c, a) ==
  /\ u \in Bytes /\ Len(u) = 44 + 4 * Len(f.neighbors)
  /\ u[1] = 2 /\ u[2] = type
  /\ Number16(Slice(u, 2, 4)) = Len(u)
  /\ Slice(u, 4, 8) = f.router_id /\ Slice(u, 8, 12) = f.area_id
  /\ Number16(Slice(u, 12, 14)) = c /\ Number16(Slice(u, 14, 16)) = a
  /\ Ipv4Netmask(Slice(u, 24, 28)) = f.network_mask
  /\ Number16(Slice(u, 28, 30)) = f.hello_interval
  /\ u[31] = f.options /\ u[32] = f.router_priority
  /\ Slice(u, 32, 36) = f.router_dead_interval
  /\ Slice(u, 36, 40) = f.designated_router
  /\ Slice(u, 40, 44) = f.backup_designated_router
  /\ \A j \in 1 .. Len(f.neighbors) : Slice(u, 40 + 4 * j, 44 + 4 * j) = f.neighbors[j]

\* A header with its body has them there, whatever its checksum, which nothing else
\* depends on.
LEMMA WrittenIsLaid ==
  ASSUME NEW f \in HelloFields, Len(f.neighbors) <= MaxNeighbors,
         NEW length, length = 44 + 4 * Len(f.neighbors), NEW type \in MessageTypes,
         NEW c \in Nat, c < Word, NEW a \in Nat, a < Word, NEW z \in Bytes, Len(z) = 8,
         NEW u, u = WithBody(HeaderOf(type, length, f.router_id, f.area_id, c, a, z), f)
  PROVE  /\ Laid(u, f, type, c, a)
         /\ u[13] = c \div 256 /\ u[14] = c % 256
         /\ SameButChecksum(u, WithBody(HeaderOf(type, length, f.router_id, f.area_id, 0, a, z), f))
<1> DEFINE h    == HeaderOf(type, length, f.router_id, f.area_id, c, a, z)
           none == HeaderOf(type, length, f.router_id, f.area_id, 0, a, z)
<1>1. type \in Byte /\ f.router_id \in Address /\ f.area_id \in Address /\ 0 \in Nat /\ 0 < Word
  <2>1. type \in Nat /\ type <= 255
    BY DEF MessageTypes
  <2>2. QED
    BY <2>1, ByteFacts DEF HelloFields, Word
<1>2. length \in Nat /\ length < Word
  BY LengthFits
<1>3. HeaderLayout(h, type, length, f.router_id, f.area_id, c, a, z)
  BY <1>1, <1>2, HeaderPieces, Zenon
<1>4. none \in Bytes
  <2>1. HeaderLayout(none, type, length, f.router_id, f.area_id, 0, a, z)
    BY <1>1, <1>2, HeaderPieces, Zenon
  <2>2. QED
    BY <2>1, Zenon DEF HeaderLayout
<1>5. h \in Bytes /\ Len(h) = 24 /\ SameButChecksum(h, none)
  BY <1>3, Zenon DEF HeaderLayout
<1>6. /\ h[1] = 2 /\ h[2] = type
      /\ Slice(h, 2, 4) = Bytes16(length)
      /\ Slice(h, 4, 8) = f.router_id /\ Slice(h, 8, 12) = f.area_id
      /\ Slice(h, 12, 14) = Bytes16(c) /\ h[13] = c \div 256 /\ h[14] = c % 256
      /\ Slice(h, 14, 16) = Bytes16(a)
  BY <1>3, Zenon DEF HeaderLayout
<1>7. u = WithBody(h, f)
  OBVIOUS
<1> DEFINE v == WithBody(none, f)
<1> HIDE DEF h, none
<1>8. /\ StartsWith(u, h) /\ Len(u) = 44 + 4 * Len(f.neighbors)
      /\ Slice(u, 24, 28) = f.network_mask.netmask_number
      /\ Slice(u, 28, 30) = Bytes16(f.hello_interval)
      /\ u[31] = f.options /\ u[32] = f.router_priority
      /\ Slice(u, 32, 36) = f.router_dead_interval
      /\ Slice(u, 36, 40) = f.designated_router
      /\ Slice(u, 40, 44) = f.backup_designated_router
      /\ \A j \in 1 .. Len(f.neighbors) : Slice(u, 40 + 4 * j, 44 + 4 * j) = f.neighbors[j]
      /\ SameButChecksum(u, v)
  BY <1>4, <1>5, <1>7, BodyAsBytes, Zenon
<1> HIDE DEF v
<1>9. /\ \A i \in 1 .. 24 : u[i] = h[i]
      /\ \A to \in 0 .. 24 : \A from \in 0 .. to : Slice(u, from, to) = Slice(h, from, to)
      /\ u \in Bytes
  BY <1>5, <1>8 DEF StartsWith
<1>10. /\ Slice(u, 2, 4) = Slice(h, 2, 4) /\ Slice(u, 4, 8) = Slice(h, 4, 8)
       /\ Slice(u, 8, 12) = Slice(h, 8, 12) /\ Slice(u, 12, 14) = Slice(h, 12, 14)
       /\ Slice(u, 14, 16) = Slice(h, 14, 16)
       /\ u[1] = h[1] /\ u[2] = h[2] /\ u[13] = h[13] /\ u[14] = h[14]
  BY <1>9
<1>11. /\ Number16(Slice(u, 2, 4)) = length /\ Number16(Slice(u, 12, 14)) = c
       /\ Number16(Slice(u, 14, 16)) = a
  <2>1. \A n \in Nat : n < Word => Number16(Bytes16(n)) = n
    BY NumberBytes
  <2>2. QED
    BY <1>2, <1>6, <1>10, <2>1, Zenon
<1>12. Number16(Slice(u, 28, 30)) = f.hello_interval
  <2>1. f.hello_interval \in Nat /\ f.hello_interval < Word
    BY DEF HelloFields
  <2>2. Number16(Bytes16(f.hello_interval)) = f.hello_interval
    BY <2>1, NumberBytes
  <2>3. QED
    BY <1>8, <2>2
<1>13. Ipv4Netmask(Slice(u, 24, 28)) = f.network_mask
  <2>1. PICK m \in Address : f.network_mask = Ipv4Netmask(m)
    BY DEF HelloFields
  <2>2. f.network_mask.netmask_number = m
    BY <2>1 DEF Ipv4Netmask
  <2>3. QED
    BY <1>8, <2>1, <2>2
<1>14. Len(u) = length
  BY <1>8
<1>15. Laid(u, f, type, c, a)
  BY <1>6, <1>8, <1>9, <1>10, <1>11, <1>12, <1>13, <1>14, Zenon DEF Laid
<1>16. u[13] = c \div 256 /\ u[14] = c % 256
  BY <1>6, <1>10, Zenon
<1>17. SameButChecksum(u, v)
  BY <1>8
<1>18. QED
  BY <1>15, <1>16, <1>17 DEF v, none

\* A packet as it is sent, up to the digest that follows it: with the checksum of its
\* words, but for cryptographic authentication.
Core(u, f, type, a) ==
  Laid(u, f, type, IF a = 2 THEN 0 ELSE FinalResult(WordSum(u, Unsummed)), a)

\* The packet of OspfHelloPacketBuilder is one.
LEMMA BuiltCore ==
  ASSUME NEW f \in HelloFields, Len(f.neighbors) <= MaxNeighbors,
         NEW w, w = HelloBytes(BuildHello(f))
  PROVE  Core(w, f, Hello, 0)
<1>1. PICK length : length = 44 + 4 * Len(f.neighbors)
  OBVIOUS
<1>2. length \in Nat /\ length < Word
  BY <1>1, LengthFits
<1>3. PICK c \in Nat : /\ c < Word /\ BuildHello(f) = HelloPacket(f, length, c)
                       /\ c = FinalResult(WordSum(w, Unsummed))
  BY <1>1, BuiltHello
<1>4. HelloLayout(w, f, length, c)
  <2>1. w = HelloBytes(HelloPacket(f, length, c))
    BY <1>3
  <2>2. QED
    BY <1>2, <1>3, <2>1, HelloAsBytes, Zenon
<1>5. /\ w \in Bytes /\ Len(w) = length /\ Slice(w, 2, 4) = Bytes16(length)
      /\ Slice(w, 12, 14) = Bytes16(c) /\ Slice(w, 14, 16) = Bytes16(0)
      /\ Slice(w, 24, 28) = f.network_mask.netmask_number
      /\ Slice(w, 28, 30) = Bytes16(f.hello_interval)
  BY <1>1, <1>4, Zenon DEF HelloLayout
<1>6. /\ Number16(Slice(w, 2, 4)) = Len(w) /\ Number16(Slice(w, 12, 14)) = c
      /\ Number16(Slice(w, 14, 16)) = 0 /\ Number16(Slice(w, 28, 30)) = f.hello_interval
  <2>1. \A n \in Nat : n < Word => Number16(Bytes16(n)) = n
    BY NumberBytes
  <2>2. f.hello_interval \in Nat /\ f.hello_interval < Word /\ 0 \in Nat /\ 0 < Word
    BY DEF HelloFields, Word
  <2>3. QED
    BY <1>2, <1>3, <1>5, <2>1, <2>2, Zenon
<1>7. Ipv4Netmask(Slice(w, 24, 28)) = f.network_mask
  <2>1. PICK m \in Address : f.network_mask = Ipv4Netmask(m)
    BY DEF HelloFields
  <2>2. f.network_mask.netmask_number = m
    BY <2>1 DEF Ipv4Netmask
  <2>3. QED
    BY <1>5, <2>1, <2>2
<1>8. Laid(w, f, Hello, c, 0)
  BY <1>4, <1>6, <1>7, Zenon DEF Laid, HelloLayout
<1>9. (IF 0 = 2 THEN 0 ELSE FinalResult(WordSum(w, Unsummed))) = c
  BY <1>3
<1>10. QED
  BY <1>8, <1>9, Zenon DEF Core

\* So is that of another implementation, with a digest where it has one.
LEMMA ForeignCore ==
  ASSUME NEW f \in HelloFields, Len(f.neighbors) <= MaxNeighbors,
         NEW type \in MessageTypes, NEW a \in 0 .. 2
  PROVE  \E u, tail : /\ ForeignPacket(type, a, f) = u \o tail
                      /\ Core(u, f, type, a)
                      /\ tail \in Bytes /\ (a # 2 => tail = <<>>)
<1> DEFINE length == 44 + 4 * Len(f.neighbors)
           z == AuthenticationBytes(a, Credentials(a))
           written(c) == WithBody(HeaderOf(type, length, f.router_id, f.area_id, c, a, z), f)
           drafted(c) == HelloBytes([HelloPacket(f, length, c) EXCEPT
                           !.header.message_type = type,
                           !.header.authentication_type = a,
                           !.header.authentication_header = Credentials(a)])
           digest == [i \in 1 .. 16 |-> 17 * (i - 1)]
           sum == WordSum(written(0), 16 .. 23)
<1>1. ForeignPacket(type, a, f) =
        IF a = 2 THEN drafted(0) \o digest
        ELSE drafted((Word - 1) - Fold(Fold(WordSum(drafted(0), 16 .. 23))))
  BY Zenon DEF ForeignPacket
<1>2. \A c : drafted(c) = written(c)
  <2> TAKE c
  <2> DEFINE p == [HelloPacket(f, length, c) EXCEPT
                     !.header.message_type = type,
                     !.header.authentication_type = a,
                     !.header.authentication_header = Credentials(a)]
             b == BuildHeader(Hello, length, f.router_id, f.area_id, c)
             e == [b EXCEPT !.message_type = type, !.authentication_type = a,
                            !.authentication_header = Credentials(a)]
  <2>1. /\ e.version = 2 /\ e.message_type = type /\ e.packet_length = length
        /\ e.router_id = f.router_id /\ e.area_id = f.area_id /\ e.checksum = c
        /\ e.authentication_type = a /\ e.authentication_header = Credentials(a)
    BY DEF BuildHeader
  <2>2. /\ p.header = e
        /\ p.network_mask = f.network_mask /\ p.hello_interval = f.hello_interval
        /\ p.options = f.options /\ p.router_priority = f.router_priority
        /\ p.router_dead_interval = f.router_dead_interval
        /\ p.designated_router = f.designated_router
        /\ p.backup_designated_router = f.backup_designated_router
        /\ p.neighbors = f.neighbors
    BY DEF HelloPacket
  <2> HIDE DEF e, p
  <2>3. HeaderBytes(e) = HeaderOf(type, length, f.router_id, f.area_id, c, a, z)
    BY <2>1, Zenon DEF HeaderBytes, HeaderOf
  <2>4. HelloBytes(p) = WithBody(HeaderBytes(e), f)
    BY <2>2, Zenon DEF HelloBytes, WithBody
  <2>5. QED
    BY <2>3, <2>4 DEF p
<1> HIDE DEF drafted
<1>3. z \in Bytes /\ Len(z) = 8
  <2>1. CASE a = 0
    <3>1. z = [i \in 1 .. 8 |-> 0] /\ 0 \in Byte
      BY <2>1, ByteFacts DEF AuthenticationBytes
    <3>2. z \in [1 .. 8 -> Byte]
      BY <3>1
    <3>3. QED
      BY <3>2, FunctionIsSeq DEF Bytes
  <2>2. CASE a = 1
    <3>1. z = <<115, 101, 99, 114, 101, 116, 0, 0>>
      BY <2>2 DEF AuthenticationBytes, Credentials
    <3>2. /\ 115 \in Byte /\ 101 \in Byte /\ 99 \in Byte /\ 114 \in Byte /\ 116 \in Byte
          /\ 0 \in Byte
      BY ByteFacts
    <3>3. QED
      BY <3>1, <3>2 DEF Bytes
  <2>3. CASE a = 2
    <3>1. z = <<0, 0, 7, 16>> \o <<0, 0, 255, 255>>
      <4> DEFINE r == Credentials(2)
      <4>1. /\ r.key_id = 7 /\ r.authentication_data_length = 16
            /\ r.cryptographic_sequence_number = <<0, 0, 255, 255>>
        BY DEF Credentials
      <4> HIDE DEF r
      <4>2. AuthenticationBytes(2, r) = <<0, 0, r.key_id, r.authentication_data_length>>
                                          \o r.cryptographic_sequence_number
        BY DEF AuthenticationBytes
      <4>3. z = AuthenticationBytes(2, r)
        BY <2>3 DEF r
      <4>4. QED
        BY <4>1, <4>2, <4>3
    <3>2. 0 \in Byte /\ 7 \in Byte /\ 16 \in Byte /\ 255 \in Byte
      BY ByteFacts
    <3>3. /\ <<0, 0, 7, 16>> \in Bytes /\ Len(<<0, 0, 7, 16>>) = 4
          /\ <<0, 0, 255, 255>> \in Bytes /\ Len(<<0, 0, 255, 255>>) = 4
      BY <3>2 DEF Bytes
    <3>4. QED
      BY <3>1, <3>3, Appended
  <2>4. QED
    BY <2>1, <2>2, <2>3
<1> HIDE DEF z
<1>4. a \in Nat /\ a < Word /\ 0 \in Nat /\ 0 < Word
  BY DEF Word
<1>5. ASSUME NEW c \in Nat, c < Word
      PROVE  /\ Laid(written(c), f, type, c, a)
             /\ written(c)[13] = c \div 256 /\ written(c)[14] = c % 256
             /\ SameButChecksum(written(c), written(0))
  <2>1. PICK m, u, v : m = length /\ u = written(c) /\ v = written(0)
    OBVIOUS
  <2>2. /\ u = WithBody(HeaderOf(type, m, f.router_id, f.area_id, c, a, z), f)
        /\ v = WithBody(HeaderOf(type, m, f.router_id, f.area_id, 0, a, z), f)
        /\ m = 44 + 4 * Len(f.neighbors)
    BY <2>1
  <2>3. Laid(u, f, type, c, a) /\ u[13] = c \div 256 /\ u[14] = c % 256 /\ SameButChecksum(u, v)
    BY <1>3, <1>4, <1>5, <2>2, WrittenIsLaid
  <2>4. QED
    BY <2>1, <2>3
<1> HIDE DEF written
<1>6. /\ Laid(written(0), f, type, 0, a) /\ written(0)[13] = 0 /\ written(0)[14] = 0
      /\ written(0) \in Bytes /\ Len(written(0)) < Word
  <2>1. 0 \div 256 = 0 /\ 0 % 256 = 0
    OBVIOUS
  <2>2. Laid(written(0), f, type, 0, a) /\ written(0)[13] = 0 /\ written(0)[14] = 0
    BY <1>4, <1>5, <2>1
  <2>3. written(0) \in Bytes /\ Len(written(0)) = length
    BY <2>2, Zenon DEF Laid
  <2>4. length < Word
    BY LengthFits
  <2>5. QED
    BY <2>2, <2>3, <2>4
<1>7. CASE a = 2
  <2>1. ForeignPacket(type, a, f) = written(0) \o digest
    <3>1. ForeignPacket(type, a, f) = drafted(0) \o digest
      BY <1>1, <1>7, Zenon
    <3>2. QED
      BY <1>2, <3>1, Zenon
  <2>2. digest \in Bytes
    <3>1. \A i \in 1 .. 16 : 17 * (i - 1) \in Byte
      BY DEF Byte
    <3>2. digest \in [1 .. 16 -> Byte]
      BY <3>1
    <3>3. QED
      BY <3>2, FunctionIsSeq DEF Bytes
  <2>3. Core(written(0), f, type, a)
    BY <1>6, <1>7 DEF Core
  <2> HIDE DEF digest
  <2>4. QED
    BY <1>7, <2>1, <2>2, <2>3
<1>8. CASE a # 2
  <2>1. sum \in 0 .. Word * Word - 1
    BY <1>6, WordSumFacts DEF Bytes
  <2> DEFINE c == FinalResult(sum)
  <2>2. c \in Nat /\ c < Word
    BY <2>1, ChecksumIsOnesComplement, WordSize
  <2>3. ForeignPacket(type, a, f) = written(c)
    <3>1. ForeignPacket(type, a, f) = drafted((Word - 1) - Fold(Fold(WordSum(drafted(0), 16 .. 23))))
      BY <1>1, <1>8, Zenon
    <3>2. \A s : FinalResult(s) = (Word - 1) - Fold(Fold(s))
      BY WordSize DEF FinalResult
    <3>3. QED
      BY <1>2, <3>1, <3>2, Zenon
  <2> HIDE DEF sum, c
  <2>4. Laid(written(c), f, type, c, a) /\ SameButChecksum(written(c), written(0))
    BY <1>5, <2>2
  <2>5. written(c) \in Bytes
    BY <2>4, Zenon DEF Laid
  <2>6. WordSum(written(c), Unsummed) = sum
    <3> DEFINE q == written(c)
               r == written(0)
    <3>1. Len(q) = Len(r) /\ Len(r) \in Nat /\ r[13] = 0 /\ r[14] = 0
          /\ \A i \in 1 .. Len(r) : i # 13 /\ i # 14 => q[i] = r[i]
      BY <1>6, <2>4 DEF SameButChecksum, Bytes
    <3> HIDE DEF q, r
    <3>2. CountAlike(q, Unsummed, r, 16 .. 23)
      <4>1. \A i \in 1 .. Len(r) : i - 1 \in Unsummed <=> i = 13 \/ i = 14 \/ i - 1 \in 16 .. 23
        BY <3>1 DEF Unsummed
      <4>2. QED
        BY <3>1, <4>1 DEF CountAlike
    <3>3. WordSum(q, Unsummed) = WordSum(r, 16 .. 23)
      <4>1. Len(q) = Len(r)
        BY <3>1
      <4>2. QED
        BY <3>2, <4>1, SumsAgree
    <3>4. QED
      BY <3>3 DEF q, r, sum
  <2>7. Core(written(c), f, type, a)
    BY <1>8, <2>4, <2>6 DEF Core, c
  <2>8. <<>> \in Bytes /\ written(c) = written(c) \o <<>>
    BY <2>5, ConcatEmpty DEF Bytes
  <2>9. QED
    BY <2>3, <2>7, <2>8
<1>9. QED
  BY <1>7, <1>8

-----------------------------------------------------------------------------
(* What is accepted is what was meant. *)

\* The contents of a Hello that was read, as Means has them.
MeantBy(hello, type, f) ==
  /\ hello.header.router_id = f.router_id
  /\ hello.header.area_id = f.area_id
  /\ hello.header.message_type = type
  /\ \A n \in DOMAIN hello \ {"header", "neighbors"} : hello[n] = f[n]
  /\ IsPrefix(hello.neighbors, f.neighbors)
  /\ hello.header.packet_length = 44 + 4 * Len(f.neighbors) => hello.neighbors = f.neighbors

\* The fixed part of a Hello.
FixedPartMeant(q, f) ==
  /\ Slice(q, 4, 8) = f.router_id /\ Slice(q, 8, 12) = f.area_id
  /\ Ipv4Netmask(Slice(q, 24, 28)) = f.network_mask
  /\ Number16(Slice(q, 28, 30)) = f.hello_interval
  /\ q[31] = f.options /\ q[32] = f.router_priority
  /\ Slice(q, 32, 36) = f.router_dead_interval
  /\ Slice(q, 36, 40) = f.designated_router
  /\ Slice(q, 40, 44) = f.backup_designated_router

\* With the neighbours after it.
FieldsMeant(q, f) ==
  /\ FixedPartMeant(q, f)
  /\ \A j \in 1 .. Len(f.neighbors) : Slice(q, 40 + 4 * j, 44 + 4 * j) = f.neighbors[j]

\* Two packets that differ in the length, the checksum and the authentication only.
SameFields(q, u) == \A i \in 1 .. Len(u) : i \in 5 .. 12 \/ i >= 25 => q[i] = u[i]

\* They are not disturbed by the length, the checksum and the authentication.
LEMMA FieldsKept ==
  ASSUME NEW q \in Bytes, NEW u, NEW f, NEW type, NEW c, NEW a,
         Laid(u, f, type, c, a), f \in HelloFields, Len(u) <= Len(q),
         SameFields(q, u)
  PROVE  FieldsMeant(q, f)
<1> DEFINE n == Len(f.neighbors)
<1>1. u \in Bytes /\ Len(u) = 44 + 4 * n
  BY Zenon DEF Laid
<1>2. n \in Nat
  BY DEF HelloFields
<1>3. ASSUME NEW to \in 0 .. Len(u), NEW from \in 0 .. to, from >= 4, to <= 12 \/ from >= 24
      PROVE  Slice(q, from, to) = Slice(u, from, to)
  <2>1. SameBetween(q, u, from, to)
    <3>1. \A i \in from + 1 .. to : i \in 1 .. Len(u) /\ (i \in 5 .. 12 \/ i >= 25)
      BY <1>1, <1>2, <1>3
    <3>2. QED
      BY <3>1 DEF SameBetween, SameFields
  <2>2. to <= Len(q)
    <3>1. Len(q) \in Nat /\ Len(u) \in Nat
      BY <1>1 DEF Bytes
    <3>2. QED
      BY <3>1
  <2>3. QED
    BY <1>1, <2>1, <2>2, SlicesAgree
<1>4. /\ Slice(q, 4, 8) = Slice(u, 4, 8) /\ Slice(q, 8, 12) = Slice(u, 8, 12)
      /\ Slice(q, 24, 28) = Slice(u, 24, 28) /\ Slice(q, 28, 30) = Slice(u, 28, 30)
      /\ Slice(q, 32, 36) = Slice(u, 32, 36) /\ Slice(q, 36, 40) = Slice(u, 36, 40)
      /\ Slice(q, 40, 44) = Slice(u, 40, 44)
  <2>1. /\ 8 \in 0 .. Len(u) /\ 12 \in 0 .. Len(u) /\ 28 \in 0 .. Len(u) /\ 30 \in 0 .. Len(u)
        /\ 36 \in 0 .. Len(u) /\ 40 \in 0 .. Len(u) /\ 44 \in 0 .. Len(u)
        /\ 4 \in 0 .. 8 /\ 8 \in 0 .. 12 /\ 24 \in 0 .. 28 /\ 28 \in 0 .. 30
        /\ 32 \in 0 .. 36 /\ 36 \in 0 .. 40 /\ 40 \in 0 .. 44
        /\ 4 >= 4 /\ 8 >= 4 /\ 24 >= 4 /\ 28 >= 4 /\ 32 >= 4 /\ 36 >= 4 /\ 40 >= 4
        /\ 8 <= 12 /\ 12 <= 12
        /\ 24 >= 24 /\ 28 >= 24 /\ 32 >= 24 /\ 36 >= 24 /\ 40 >= 24
    BY <1>1, <1>2
  <2>2. QED
    BY <1>3, <2>1, Zenon
<1>5. q[31] = u[31] /\ q[32] = u[32]
  <2>1. 31 \in 1 .. Len(u) /\ 32 \in 1 .. Len(u) /\ 31 >= 25 /\ 32 >= 25
    BY <1>1, <1>2
  <2>2. QED
    BY <2>1 DEF SameFields
<1>6. FixedPartMeant(q, f)
  BY <1>4, <1>5, Zenon DEF Laid, FixedPartMeant
<1>7. ASSUME NEW j \in 1 .. n PROVE Slice(q, 40 + 4 * j, 44 + 4 * j) = f.neighbors[j]
  <2>1. PICK from, to : from = 40 + 4 * j /\ to = 44 + 4 * j
    OBVIOUS
  <2>2. to \in 0 .. Len(u) /\ from \in 0 .. to /\ from >= 4 /\ from >= 24
    BY <1>1, <1>2, <2>1
  <2>3. Slice(q, from, to) = Slice(u, from, to)
    BY <1>3, <2>2
  <2>4. Slice(u, 40 + 4 * j, 44 + 4 * j) = f.neighbors[j]
    BY Zenon DEF Laid
  <2>5. QED
    BY <2>1, <2>3, <2>4
<1>8. QED
  BY <1>6, <1>7, Zenon DEF FieldsMeant

\* A Hello read up to the length in the header is what was meant, but for neighbours
\* that a shorter length hides.
LEMMA ReadIsMeant ==
  ASSUME NEW q, NEW f \in HelloFields, NEW type, FieldsMeant(q, f), q[2] = type,
         NEW length \in Nat, length >= 44, length % 4 = 0, length <= 44 + 4 * Len(f.neighbors)
  PROVE  MeantBy(ReadHello(q, HeaderIn(q, length, 0)), type, f)
<1> DEFINE b == HeaderIn(q, length, 0)
           p == ReadHello(q, b)
           n == Len(f.neighbors)
           m == (length - 44) \div 4
<1>1. m \in Nat /\ length = 44 + 4 * m
  BY NeighboursFit
<1> HIDE DEF m
<1>2. f.neighbors \in Seq(Address) /\ n \in Nat /\ m <= n /\ (length = 44 + 4 * n => m = n)
  <2>1. f.neighbors \in Seq(Address)
    BY DEF HelloFields
  <2>2. n \in Nat
    BY <2>1
  <2> HIDE DEF n
  <2>3. m <= n
    <3>1. length <= 44 + 4 * n
      BY DEF n
    <3>2. QED
      BY <1>1, <2>2, <3>1
  <2>4. length = 44 + 4 * n => m = n
    BY <1>1, <2>2
  <2>5. QED
    BY <2>1, <2>2, <2>3, <2>4 DEF n
<1>3. /\ b.packet_length = length /\ b.router_id = Slice(q, 4, 8) /\ b.area_id = Slice(q, 8, 12)
      /\ b.message_type = q[2]
  BY DEF HeaderIn
<1> HIDE DEF b
<1>4. /\ p.header = b /\ p.network_mask = Ipv4Netmask(Slice(q, 24, 28))
      /\ p.hello_interval = Number16(Slice(q, 28, 30))
      /\ p.options = q[31] /\ p.router_priority = q[32]
      /\ p.router_dead_interval = Slice(q, 32, 36) /\ p.designated_router = Slice(q, 36, 40)
      /\ p.backup_designated_router = Slice(q, 40, 44)
      /\ p.neighbors = [i \in 1 .. m |-> Slice(q, 40 + 4 * i, 44 + 4 * i)]
  BY <1>3 DEF ReadHello, m
<1>5. DOMAIN p = {"header", "network_mask", "hello_interval", "options", "router_priority",
                  "router_dead_interval", "designated_router", "backup_designated_router",
                  "neighbors"}
  BY DEF ReadHello
<1> HIDE DEF p
<1>6. \A k \in DOMAIN p \ {"header", "neighbors"} : p[k] = f[k]
  <2>1. FixedPartMeant(q, f)
    BY DEF FieldsMeant
  <2>2. QED
    BY <1>4, <1>5, <2>1 DEF FixedPartMeant
<1>7. p.neighbors = [i \in 1 .. m |-> f.neighbors[i]]
  <2>1. \A i \in 1 .. m : i \in 1 .. n
    BY <1>1, <1>2
  <2>2. QED
    BY <1>4, <2>1, Zenon DEF FieldsMeant
<1>8. p.neighbors = SubSeq(f.neighbors, 1, m)
  <2>1. \A r \in Seq(Address) : \A k \in 0 .. Len(r) : SubSeq(r, 1, k) = [i \in 1 .. k |-> r[i]]
    OBVIOUS
  <2>2. m \in 0 .. Len(f.neighbors)
    BY <1>1, <1>2
  <2>3. QED
    BY <1>2, <1>7, <2>1, <2>2
<1>9. IsPrefix(p.neighbors, f.neighbors)
  <2>1. \A r \in Seq(Address) : \A k \in 0 .. Len(r) : IsPrefix(SubSeq(r, 1, k), r)
    BY DEF IsPrefix
  <2>2. m \in 0 .. Len(f.neighbors)
    BY <1>1, <1>2
  <2>3. QED
    BY <1>2, <1>8, <2>1, <2>2
<1>10. m = n => p.neighbors = f.neighbors
  BY <1>2, <1>8, WholeOrNone
<1>11. MeantBy(p, type, f)
  <2>1. p.header.router_id = f.router_id /\ p.header.area_id = f.area_id
        /\ p.header.message_type = type
    BY <1>3, <1>4 DEF FieldsMeant, FixedPartMeant
  <2>2. p.header.packet_length = 44 + 4 * Len(f.neighbors) => p.neighbors = f.neighbors
    BY <1>2, <1>3, <1>4, <1>10
  <2>3. QED
    BY <1>6, <1>9, <2>1, <2>2, Zenon DEF MeantBy
<1>12. QED
  BY <1>11 DEF p, b

\* The packet u is at the start of q, with its header.
StillThere(q, u, f, type, c, a) ==
  /\ Number16(Slice(q, 2, 4)) = Len(u) /\ Number16(Slice(q, 12, 14)) = c
  /\ Number16(Slice(q, 14, 16)) = a /\ q[1] = 2 /\ q[2] = type
  /\ Slice(q, 0, Len(u)) = u
  /\ u \in Bytes /\ Len(u) \in 44 .. Word - 1 /\ Len(u) <= Len(q) /\ Len(u) % 4 = 0
  /\ Len(u) = 44 + 4 * Len(f.neighbors) /\ Len(f.neighbors) \in Nat
  /\ \A i \in 1 .. Len(u) : q[i] = u[i]

\* It is, with any bytes after it.
LEMMA UntouchedHeader ==
  ASSUME NEW q \in Bytes, NEW u, StartsWith(q, u), NEW f \in HelloFields,
         Len(f.neighbors) <= MaxNeighbors, NEW type, NEW c, NEW a, Laid(u, f, type, c, a)
  PROVE  StillThere(q, u, f, type, c, a)
<1>1. u \in Bytes /\ Len(u) = 44 + 4 * Len(f.neighbors)
  BY Zenon DEF Laid
<1>2. Len(f.neighbors) \in Nat
  BY DEF HelloFields
<1>3. PICK length : length = 44 + 4 * Len(f.neighbors)
  OBVIOUS
<1>4. length \in Nat /\ length < Word /\ length >= 44 /\ Len(u) = length
  BY <1>1, <1>3, LengthFits
<1>5. length % 4 = 0
  BY <1>3, BuiltHello
<1>6. /\ \A i \in 1 .. Len(u) : q[i] = u[i]
      /\ \A to \in 0 .. Len(u) : \A from \in 0 .. to : Slice(q, from, to) = Slice(u, from, to)
      /\ Len(u) <= Len(q)
  BY Zenon DEF StartsWith
<1>7. Slice(q, 2, 4) = Slice(u, 2, 4) /\ Slice(q, 12, 14) = Slice(u, 12, 14)
      /\ Slice(q, 14, 16) = Slice(u, 14, 16) /\ Slice(q, 0, Len(u)) = Slice(u, 0, Len(u))
      /\ q[1] = u[1] /\ q[2] = u[2]
  BY <1>4, <1>6
<1>8. Slice(u, 0, Len(u)) = u
  BY <1>1, WholeOrNone DEF Slice, Bytes
<1>9. u[1] = 2 /\ u[2] = type /\ Number16(Slice(u, 2, 4)) = Len(u)
      /\ Number16(Slice(u, 12, 14)) = c /\ Number16(Slice(u, 14, 16)) = a
  BY Zenon DEF Laid
<1>10. Len(u) \in 44 .. Word - 1 /\ Len(u) % 4 = 0
  <2>1. length \in 44 .. Word - 1
    BY <1>4, WordSize
  <2>2. QED
    BY <1>4, <1>5, <2>1
<1>11. /\ Number16(Slice(q, 2, 4)) = Len(u) /\ Number16(Slice(q, 12, 14)) = c
       /\ Number16(Slice(q, 14, 16)) = a /\ q[1] = 2 /\ q[2] = type /\ Slice(q, 0, Len(u)) = u
  BY <1>7, <1>8, <1>9, Zenon
<1>12. QED
  BY <1>1, <1>2, <1>6, <1>10, <1>11, Zenon DEF StillThere

\* What was sent is accepted, unless its sum carries twice.
LEMMA UntouchedAccepted ==
  ASSUME NEW q \in Bytes, NEW u, StartsWith(q, u), NEW f \in HelloFields,
         Len(f.neighbors) <= MaxNeighbors, NEW type \in MessageTypes, NEW a \in 0 .. 2,
         Core(u, f, type, a),
         NEW length, length = Number16(Slice(q, 2, 4)),
         a = 2 \/ Fold(WordSum(Slice(q, 0, length), Unsummed)) < Word
  PROVE  Acceptable(q, length, a) /\ length >= 44
<1> DEFINE c == IF a = 2 THEN 0 ELSE FinalResult(WordSum(u, Unsummed))
<1>1. Laid(u, f, type, c, a)
  BY DEF Core
<1>2. /\ length = Len(u) /\ Number16(Slice(q, 12, 14)) = c
      /\ Number16(Slice(q, 14, 16)) = a /\ q[1] = 2 /\ q[2] = type
      /\ Slice(q, 0, Len(u)) = u
      /\ u \in Bytes /\ Len(u) \in 44 .. Word - 1 /\ Len(u) <= Len(q) /\ Len(u) % 4 = 0
  <2> HIDE DEF c
  <2>1. StillThere(q, u, f, type, c, a)
    BY <1>1, UntouchedHeader, Zenon
  <2>2. QED
    BY <1>1, <2>1 DEF StillThere
<1>3. c = ExpectedChecksum(u, a)
  <2>1. CASE a = 2
    BY <2>1 DEF ExpectedChecksum, AuthenticationTypes
  <2>2. CASE a # 2
    <3>1. WordSum(u, Unsummed) \in 0 .. Word * Word - 1
      <4>1. u \in Seq(Byte) /\ Len(u) < Word
        BY <1>2, WordSize DEF Bytes
      <4>2. QED
        BY <4>1, WordSumFacts
    <3>2. Fold(WordSum(u, Unsummed)) < Word
      BY <1>2, <2>2
    <3>3. FinalResultFoldedOnce(WordSum(u, Unsummed)) = FinalResult(WordSum(u, Unsummed))
      <4>1. FinalResult(WordSum(u, Unsummed)) \in 0 .. Word - 1
        BY <3>1, ChecksumIsOnesComplement
      <4>2. QED
        BY <3>1, <3>2, <4>1, OneFoldDecides, WordSize
    <3>4. QED
      BY <2>2, <3>3 DEF ExpectedChecksum, AuthenticationTypes
  <2>3. QED
    BY <2>1, <2>2
<1> HIDE DEF c
<1>4. Len(q) >= 24 /\ length >= 24 /\ length >= 44 /\ length <= Len(q) /\ length % 4 = 0
  <2>1. Len(q) \in Nat /\ Word \in Nat
    BY WordSize DEF Bytes
  <2>2. QED
    BY <1>2, <2>1
<1>5. Acceptable(q, length, a)
  BY <1>2, <1>3, <1>4, Zenon DEF Acceptable
<1>6. QED
  BY <1>4, <1>5

\* What is accepted of it is what was meant, and not authenticated.
LEMMA UntouchedMeant ==
  ASSUME NEW q \in Bytes, NEW u, StartsWith(q, u), NEW f \in HelloFields,
         Len(f.neighbors) <= MaxNeighbors, NEW type, NEW c, NEW a, Laid(u, f, type, c, a),
         Ok(ParseHello(q))
  PROVE  MeantBy(ParseHello(q), type, f) /\ a = 0
<1>1. PICK length : length = Number16(Slice(q, 2, 4))
  OBVIOUS
<1>2. /\ length = Len(u) /\ Number16(Slice(q, 14, 16)) = a /\ q[2] = type
      /\ Len(u) \in 44 .. Word - 1 /\ Len(u) <= Len(q) /\ Len(u) % 4 = 0
      /\ Len(u) = 44 + 4 * Len(f.neighbors) /\ Len(f.neighbors) \in Nat
      /\ \A i \in 1 .. Len(u) : q[i] = u[i]
  <2>1. StillThere(q, u, f, type, c, a)
    BY UntouchedHeader, Zenon
  <2>2. QED
    BY <1>1, <2>1 DEF StillThere
<1>3. Acceptable(q, length, 0) /\ ParseHello(q) = ReadHello(q, HeaderIn(q, length, 0))
  BY <1>1, HelloParsed
<1>4. a = 0
  BY <1>2, <1>3 DEF Acceptable
<1>5. FieldsMeant(q, f)
  <2>1. SameFields(q, u)
    BY <1>2, Zenon DEF SameFields
  <2>2. QED
    BY <1>2, <2>1, FieldsKept, Zenon
<1>6. /\ length \in Nat /\ length >= 44 /\ length % 4 = 0 /\ length <= 44 + 4 * Len(f.neighbors)
  <2>1. length = Len(u) /\ length \in 44 .. Word - 1 /\ length % 4 = 0
        /\ length = 44 + 4 * Len(f.neighbors)
    BY <1>2, Zenon
  <2>2. length \in Nat /\ length >= 44
    BY <2>1, WordSize
  <2>3. length <= length
    BY <2>2
  <2>4. QED
    BY <2>1, <2>2, <2>3, Zenon
<1>7. MeantBy(ReadHello(q, HeaderIn(q, length, 0)), type, f)
  BY <1>2, <1>5, <1>6, ReadIsMeant, Zenon
<1>8. QED
  BY <1>3, <1>4, <1>7

\* A packet that is cut short is refused.
LEMMA CutRefused ==
  ASSUME NEW f \in HelloFields, Len(f.neighbors) <= MaxNeighbors, NEW type, NEW c, NEW a,
         NEW u, Laid(u, f, type, c, a), NEW tail \in Bytes, a # 2 => tail = <<>>,
         NEW w, w = u \o tail, NEW n \in Nat, n < Len(w), NEW q, q = Slice(w, 0, n)
  PROVE  ~ Ok(ParseHello(q))
<1>1. u \in Bytes
  BY Zenon DEF Laid
<1>2. w \in Bytes /\ StartsWith(w, u) /\ Len(w) \in Nat /\ Len(w) = Len(u) + Len(tail)
  <2>1. StartsWith(w, u) /\ Len(w) = Len(u) + Len(tail)
    BY <1>1, AppendedStarts
  <2>2. w \in Bytes
    BY <2>1 DEF StartsWith
  <2>3. QED
    BY <2>1, <2>2 DEF Bytes
<1>3. /\ Number16(Slice(w, 2, 4)) = Len(u) /\ Number16(Slice(w, 14, 16)) = a
      /\ Len(u) \in 44 .. Word - 1
  <2>1. StillThere(w, u, f, type, c, a)
    BY <1>2, UntouchedHeader, Zenon
  <2>2. QED
    BY <2>1 DEF StillThere
<1>4. StartsWith(w, q) /\ q \in Bytes /\ Len(q) = n
  <2>1. n \in 0 .. Len(w)
    BY <1>2
  <2>2. QED
    BY <1>2, <2>1, CutStarts, Zenon
<1>5. SUFFICES ASSUME Ok(ParseHello(q)) PROVE FALSE
  OBVIOUS
<1>6. PICK length : length = Number16(Slice(q, 2, 4)) /\ Acceptable(q, length, 0)
  BY <1>4, <1>5, HelloParsed
<1>7. Len(q) >= 24 /\ Number16(Slice(q, 14, 16)) = 0 /\ length <= Len(q)
  BY <1>6, Zenon DEF Acceptable
<1>8. Slice(w, 2, 4) = Slice(q, 2, 4) /\ Slice(w, 14, 16) = Slice(q, 14, 16)
  <2>1. 4 \in 0 .. Len(q) /\ 2 \in 0 .. 4 /\ 16 \in 0 .. Len(q) /\ 14 \in 0 .. 16
    BY <1>4, <1>7
  <2>2. QED
    BY <1>4, <2>1, Zenon DEF StartsWith
<1>9. a = 0 /\ length = Len(u)
  BY <1>3, <1>6, <1>7, <1>8
<1>10. Len(tail) = 0
  BY <1>9
<1>11. n < Len(u) /\ Len(u) <= n
  BY <1>2, <1>3, <1>4, <1>7, <1>9, <1>10, WordSize
<1>12. QED
  BY <1>3, <1>11, WordSize

\* What the parser sums is where the header says it is.
LEMMA AcceptedChecksum ==
  ASSUME NEW q \in Bytes, NEW length \in Nat, length < Word, Acceptable(q, length, 0),
         NEW d, d = Slice(q, 0, length), Fold(WordSum(d, Unsummed)) < Word
  PROVE  Number16(Slice(q, 12, 14)) = FinalResult(WordSum(d, Unsummed))
<1>1. length \in 0 .. Len(q)
  BY DEF Acceptable, Bytes
<1>2. d \in Bytes /\ Len(d) = length
  BY <1>1, CutStarts
<1>3. WordSum(d, Unsummed) \in 0 .. Word * Word - 1
  BY <1>2, WordSumFacts DEF Bytes
<1>4. FinalResultFoldedOnce(WordSum(d, Unsummed)) = FinalResult(WordSum(d, Unsummed))
  <2>1. FinalResult(WordSum(d, Unsummed)) \in 0 .. Word - 1
    BY <1>3, ChecksumIsOnesComplement
  <2>2. QED
    BY <1>3, <2>1, OneFoldDecides, WordSize
<1>5. ExpectedChecksum(d, 0) = FinalResultFoldedOnce(WordSum(d, Unsummed))
  BY DEF ExpectedChecksum, AuthenticationTypes
<1>6. Number16(Slice(q, 12, 14)) = ExpectedChecksum(d, 0)
  BY Zenon DEF Acceptable
<1>7. QED
  BY <1>4, <1>5, <1>6

\* Bytes that make the same number are the same.
LEMMA SameBytes ==
  ASSUME NEW q \in Bytes, NEW r \in Bytes, NEW from \in Nat,
         NEW to, to = from + 2, to <= Len(q), to <= Len(r),
         Number16(Slice(q, from, to)) = Number16(Slice(r, from, to))
  PROVE  q[from + 1] = r[from + 1] /\ q[from + 2] = r[from + 2]
<1>1. PICK n : n = Number16(Slice(q, from, from + 2)) /\ n = Number16(Slice(r, from, from + 2))
  OBVIOUS
<1>2. from + 2 <= Len(q) /\ from + 2 <= Len(r)
  OBVIOUS
<1>3. n \div 256 = q[from + 1] /\ n % 256 = q[from + 2]
  BY <1>1, <1>2, NumberRange
<1>4. n \div 256 = r[from + 1] /\ n % 256 = r[from + 2]
  BY <1>1, <1>2, NumberRange
<1>5. QED
  BY <1>3, <1>4

\* A packet with one byte changed.
OneByteOff(q, w, i, v) ==
  /\ q \in Bytes /\ Len(q) = Len(w) /\ q[i] = v
  /\ \A j \in 1 .. Len(w) : j # i => q[j] = w[j]

Changed(q, w) == \E i \in 1 .. Len(w), v \in Byte : v # w[i] /\ q = [w EXCEPT ![i] = v]

\* Where the fold of the parser is enough.
OneFold(q) ==
  \A length : length = Number16(Slice(q, 2, 4))
                => Fold(WordSum(Slice(q, 0, length), Unsummed)) < Word

\* An assignment to one byte makes one.
LEMMA ByteChanged ==
  ASSUME NEW w \in Bytes, NEW i \in 1 .. Len(w), NEW v \in Byte,
         NEW q, q = [w EXCEPT ![i] = v]
  PROVE  OneByteOff(q, w, i, v)
<1>1. w \in Seq(Byte) /\ DOMAIN w = 1 .. Len(w)
  BY DEF Bytes
<1>2. i \in DOMAIN w
  BY <1>1
<1>3. /\ [w EXCEPT ![i] = v] \in Seq(Byte) /\ Len([w EXCEPT ![i] = v]) = Len(w)
      /\ \A p \in DOMAIN w : [w EXCEPT ![i] = v][p] = IF p = i THEN v ELSE w[p]
  BY <1>1, <1>2, ExceptFacts
<1>4. q \in Seq(Byte) /\ Len(q) = Len(w)
  BY <1>3, Zenon
<1>5. \A p \in 1 .. Len(w) : q[p] = IF p = i THEN v ELSE w[p]
  BY <1>1, <1>3, Zenon
<1>6. QED
  BY <1>4, <1>5, Zenon DEF Bytes, OneByteOff

\* A packet with one byte changed is refused or read as it was meant; it says then
\* that nothing authenticates it, as the packet that was sent did, or its checksum is
\* the 0 of cryptographic authentication.
LEMMA ChangedMeant ==
  ASSUME NEW f \in HelloFields, Len(f.neighbors) <= MaxNeighbors, NEW type, NEW a,
         NEW u, Core(u, f, type, a), NEW tail \in Bytes, a # 2 => tail = <<>>,
         NEW w, w = u \o tail, NEW q, Changed(q, w), Ok(ParseHello(q)), OneFold(q)
  PROVE  /\ MeantBy(ParseHello(q), type, f)
         /\ a = 0 \/ (a = 2 /\ ParseHello(q).header.checksum = 0)
<1> DEFINE c == IF a = 2 THEN 0 ELSE FinalResult(WordSum(u, Unsummed))
<1>1. Laid(u, f, type, c, a)
  BY DEF Core
<1>2. PICK i \in 1 .. Len(w), v \in Byte : v # w[i] /\ q = [w EXCEPT ![i] = v]
  BY DEF Changed
<1>3. PICK length : /\ length = Number16(Slice(q, 2, 4))
                      /\ Fold(WordSum(Slice(q, 0, length), Unsummed)) < Word
  BY DEF OneFold
<1> DEFINE d == Slice(q, 0, length)
<1>4. u \in Bytes
  BY <1>1, Zenon DEF Laid
<1>5. w \in Bytes /\ StartsWith(w, u) /\ Len(w) \in Nat /\ Len(w) = Len(u) + Len(tail)
  <2>1. StartsWith(w, u) /\ Len(w) = Len(u) + Len(tail)
    BY <1>4, AppendedStarts
  <2>2. w \in Bytes
    BY <2>1 DEF StartsWith
  <2>3. QED
    BY <2>1, <2>2 DEF Bytes
<1>6. a # 2 => w = u
  BY <1>4, ConcatEmpty DEF Bytes
<1>7. /\ q \in Bytes /\ Len(q) = Len(w) /\ q[i] = v
      /\ \A j \in 1 .. Len(w) : j # i => q[j] = w[j]
  <2>1. OneByteOff(q, w, i, v)
    BY <1>5, <1>2, ByteChanged, Zenon
  <2>2. QED
    BY <2>1, Zenon DEF OneByteOff
<1>8. StillThere(w, u, f, type, c, a)
  <2> HIDE DEF c
  <2> QED BY <1>1, <1>5, UntouchedHeader, Zenon
<1>9. /\ Acceptable(q, length, 0) /\ length >= 44
      /\ ParseHello(q) = ReadHello(q, HeaderIn(q, length, 0))
  BY <1>7, <1>3, HelloParsed
<1>10. Len(q) >= 24 /\ Number16(Slice(q, 14, 16)) = 0 /\ length <= Len(q) /\ length % 4 = 0
  BY <1>9, Zenon DEF Acceptable
<1> HIDE DEF c, d
<1>11. /\ Number16(Slice(w, 2, 4)) = Len(u) /\ Number16(Slice(w, 12, 14)) = c
      /\ Number16(Slice(w, 14, 16)) = a /\ w[2] = type
      /\ Len(u) \in Nat /\ Len(u) < Word /\ Len(u) >= 44 /\ Len(u) <= Len(w) /\ Len(u) % 4 = 0
      /\ Len(u) = 44 + 4 * Len(f.neighbors)
      /\ \A j \in 1 .. Len(u) : w[j] = u[j]
  <2>1. Len(u) \in 44 .. Word - 1
    BY <1>8 DEF StillThere
  <2>2. Len(u) \in Nat /\ Len(u) < Word /\ Len(u) >= 44
    BY <2>1, WordSize
  <2>3. QED
    BY <1>8, <2>2, Zenon DEF StillThere
<1>12. ASSUME NEW to \in 0 .. Len(w), NEW from \in 0 .. to, i \notin from + 1 .. to
       PROVE  Slice(q, from, to) = Slice(w, from, to)
  <2>1. SameBetween(q, w, from, to)
    <3>1. \A j \in from + 1 .. to : j \in 1 .. Len(w) /\ j # i
      BY <1>5, <1>12
    <3>2. QED
      BY <1>7, <3>1 DEF SameBetween
  <2>2. to <= Len(q) /\ to \in 0 .. Len(w) /\ from \in 0 .. to
    BY <1>5, <1>7
  <2>3. q \in Bytes /\ w \in Bytes
    BY <1>5, <1>7
  <2>4. QED
    BY <2>1, <2>2, <2>3, SlicesAgree, Zenon
<1>13. /\ i \notin 3 .. 4   => length = Len(u)
       /\ i \notin 13 .. 14 => Number16(Slice(q, 12, 14)) = c
       /\ i \notin 15 .. 16 => a = 0
  <2>1. 4 \in 0 .. Len(w) /\ 2 \in 0 .. 4 /\ 14 \in 0 .. Len(w) /\ 12 \in 0 .. 14
        /\ 16 \in 0 .. Len(w) /\ 14 \in 0 .. 16
        /\ 2 + 1 = 3 /\ 12 + 1 = 13 /\ 14 + 1 = 15
    BY <1>5, <1>7, <1>10
  <2>2. i \notin 3 .. 4 => Slice(q, 2, 4) = Slice(w, 2, 4)
    BY <1>12, <2>1
  <2>3. i \notin 13 .. 14 => Slice(q, 12, 14) = Slice(w, 12, 14)
    BY <1>12, <2>1
  <2>4. i \notin 15 .. 16 => Slice(q, 14, 16) = Slice(w, 14, 16)
    BY <1>12, <2>1
  <2>5. QED
    BY <1>10, <1>11, <1>3, <2>2, <2>3, <2>4, Zenon
<1>14. length \in Nat
  <2>1. 2 \in Nat /\ 2 + 2 <= Len(q) /\ 2 + 2 = 4
    BY <1>5, <1>7, <1>10
  <2>2. \A m : m = Number16(Slice(q, 2, 2 + 2)) => m \in Nat
    BY <1>7, <2>1, NumberRange
  <2>3. QED
    BY <1>3, <2>1, <2>2
<1>15. ASSUME i \in 3 .. 4 \/ i \in 13 .. 24, length <= Len(u)
       PROVE  MeantBy(ParseHello(q), type, f)
  <2>1. SameFields(q, u)
    <3>1. \A j \in 1 .. Len(u) : j \in 5 .. 12 \/ j >= 25 => j \in 1 .. Len(w) /\ j # i
      BY <1>5, <1>11, <1>15
    <3>2. QED
      BY <1>7, <1>11, <3>1, Zenon DEF SameFields
  <2>2. Len(u) <= Len(q)
    BY <1>7, <1>11
  <2>3. FieldsMeant(q, f)
    <3>1. q \in Bytes /\ Laid(u, f, type, c, a)
      BY <1>1, <1>7, Zenon DEF c
    <3>2. QED
      BY <2>1, <2>2, <3>1, FieldsKept, Zenon
  <2>4. q[2] = type
    <3>1. 2 \in 1 .. Len(w) /\ 2 # i
      BY <1>5, <1>7, <1>10, <1>15
    <3>2. QED
      BY <1>7, <1>11, <3>1, Zenon
  <2>5. length <= 44 + 4 * Len(f.neighbors)
    BY <1>11, <1>15
  <2>6. MeantBy(ReadHello(q, HeaderIn(q, length, 0)), type, f)
    BY <1>9, <1>10, <1>14, <2>3, <2>4, <2>5, ReadIsMeant, Zenon
  <2>7. QED
    BY <1>9, <2>6
<1>16. CASE i \in 3 .. 4
  <2>1. a = 0
    BY <1>13, <1>16
  <2>2. length <= Len(u)
    <3>1. w = u
      BY <1>6, <2>1
    <3>2. QED
      BY <1>7, <1>10, <3>1
  <2>3. QED
    BY <1>15, <1>16, <2>1, <2>2
<1>17. CASE i \notin 3 .. 4
  <2>1. length = Len(u) /\ length < Word
    BY <1>11, <1>13, <1>17
  <2>2. /\ StartsWith(q, d) /\ d \in Bytes /\ Len(d) = Len(u)
        /\ \A j \in 1 .. Len(u) : d[j] = q[j]
    <3>1. length \in 0 .. Len(q)
      BY <1>5, <1>7, <1>10, <1>14
    <3>2. StartsWith(q, d) /\ d \in Bytes /\ Len(d) = length
      BY <1>7, <3>1, CutStarts DEF d
    <3>3. QED
      BY <2>1, <3>2, Zenon DEF StartsWith
  <2>3. Number16(Slice(q, 12, 14)) = FinalResult(WordSum(d, Unsummed))
    BY <1>7, <1>9, <1>14, <1>3, <2>1, AcceptedChecksum DEF d
  <2>4. CASE a = 2
    <3>1. i \in 15 .. 16
      BY <1>13, <2>4
    <3>2. Number16(Slice(q, 12, 14)) = 0
      BY <1>13, <2>4, <3>1 DEF c
    <3>3. ParseHello(q).header.checksum = 0
      <4>1. \A b : ReadHello(q, b).header = b
        BY DEF ReadHello
      <4>2. HeaderIn(q, length, 0).checksum = Number16(Slice(q, 12, 14))
        BY DEF HeaderIn
      <4>3. QED
        BY <1>9, <3>2, <4>1, <4>2, Zenon
    <3>4. MeantBy(ParseHello(q), type, f)
      <4>1. length <= Len(u) /\ i \in 13 .. 24
        BY <1>11, <2>1, <3>1
      <4>2. QED
        BY <1>15, <4>1
    <3>5. QED
      BY <2>4, <3>3, <3>4
  <2>5. CASE a # 2
    <3>1. w = u /\ c = FinalResult(WordSum(u, Unsummed))
      BY <1>6, <2>5 DEF c
    <3>2. d[i] # u[i] /\ \A j \in 1 .. Len(u) : j # i => d[j] = u[j]
      <4>1. i \in 1 .. Len(u)
        BY <1>2, <3>1
      <4>2. QED
        BY <1>7, <1>2, <2>2, <3>1, <4>1
    <3>3. CASE i - 1 \notin Unsummed
      <4>1. FinalResult(WordSum(d, Unsummed)) # FinalResult(WordSum(u, Unsummed))
        <5>1. i \in 1 .. Len(u) /\ Len(u) < Word
          BY <1>11, <3>1
        <5>2. QED
          BY <1>4, <2>2, <3>2, <3>3, <5>1, OneByteShows
      <4>2. i \notin 13 .. 14
        BY <3>3 DEF Unsummed
      <4>3. QED
        BY <1>13, <2>3, <3>1, <4>1, <4>2
    <3>4. CASE i - 1 \in Unsummed
      <4>1. i \in 13 .. 14 \/ i \in 17 .. 24
        BY <3>4 DEF Unsummed
      <4>2. WordSum(d, Unsummed) = WordSum(u, Unsummed)
        <5>1. CountAlike(d, Unsummed, u, Unsummed)
          BY <3>2, <3>4 DEF CountAlike
        <5>2. QED
          BY <2>2, <5>1, SumsAgree
      <4>3. Number16(Slice(q, 12, 14)) = Number16(Slice(u, 12, 14))
        BY <1>11, <2>3, <3>1, <4>2
      <4>4. i \notin 13 .. 14
        <5>1. 14 <= Len(q) /\ 14 <= Len(u)
          <6>1. Len(q) = Len(u) /\ Len(u) \in Nat /\ Len(u) >= 44
            BY <1>7, <1>11, <3>1, Zenon
          <6>2. QED
            BY <6>1
        <5>2. 12 \in Nat /\ 14 = 12 + 2 /\ 12 + 1 = 13
          OBVIOUS
        <5>3. q \in Bytes /\ u \in Bytes
          BY <1>4, <1>7
        <5>4. q[12 + 1] = u[12 + 1] /\ q[12 + 2] = u[12 + 2]
          BY <4>3, <5>1, <5>2, <5>3, SameBytes
        <5>5. q[13] = u[13] /\ q[14] = u[14]
          BY <5>2, <5>4
        <5>6. q[i] # u[i]
          BY <1>7, <1>2, <3>1
        <5>7. i \in 13 .. 14 => i = 13 \/ i = 14
          OBVIOUS
        <5>8. QED
          BY <5>5, <5>6, <5>7
      <4>5. length <= Len(u) /\ i \in 13 .. 24 /\ i \notin 15 .. 16
        BY <1>11, <2>1, <4>1, <4>4
      <4>6. QED
        BY <1>13, <1>15, <4>5
    <3>5. QED
      BY <3>3, <3>4
  <2>6. QED
    BY <2>4, <2>5
<1>18. QED
  BY <1>16, <1>17

-----------------------------------------------------------------------------
(* A Hello on its way.  HelloCodec keeps of a packet what is left of it: that it *)
(* starts with what was sent, or has been cut short, or has one byte changed.    *)

\* What a sender means.
Meant(s) ==
  /\ s.type \in MessageTypes /\ s.authentication \in 0 .. 2
  /\ s.fields \in HelloFields /\ Len(s.fields.neighbors) <= MaxNeighbors

\* Its packet: u has the form of a Hello, tail is the digest after it.
Written(u, tail, s) ==
  /\ Core(u, s.fields, s.type, s.authentication)
  /\ tail \in Bytes /\ (s.authentication # 2 => tail = <<>>)

\* w after the damage d.
CutShort(p, w) == \E n \in Nat : n < Len(w) /\ p = Slice(w, 0, n)
OnlyPadded(d) == \A i \in DOMAIN d : d[i] = "padded"

Arrived(p, d, u, w) ==
  /\ d = <<>> => p = w
  /\ OnlyPadded(d) => StartsWith(p, u)
  /\ d = <<"cut">> => CutShort(p, w)
  /\ d = <<"changed">> => Changed(p, w)

SentAs(s, p, d) == \E u, tail : Written(u, tail, s) /\ Arrived(p, d, u, u \o tail)

ReadOf(p) == [header |-> ParseHeader(p), hello |-> ParseHello(p)]

Kinds == {"changed", "cut", "padded"}

CodecInvariant ==
  /\ packet \in Bytes
  /\ damage \in Seq(Kinds) /\ Len(damage) <= MaxFaults
  /\ sent = Nothing => damage = <<>> /\ read = Nothing
  /\ sent # Nothing => Meant(sent) /\ SentAs(sent, packet, damage)
  /\ read # Nothing => sent # Nothing /\ read = ReadOf(packet)

\* What has happened to a packet, with one thing more.
LEMMA DamageFacts ==
  ASSUME NEW d \in Seq(Kinds), NEW x \in Kinds, NEW e, e = Append(d, x)
  PROVE  /\ e \in Seq(Kinds) /\ Len(e) = Len(d) + 1 /\ e # <<>>
         /\ (\A y : e = <<y>> => d = <<>> /\ y = x)
         /\ OnlyPadded(e) => OnlyPadded(d) /\ x = "padded"
<1>1. /\ e \in Seq(Kinds) /\ Len(e) = Len(d) + 1 /\ Len(d) \in Nat
      /\ e[Len(d) + 1] = x /\ \A i \in 1 .. Len(d) : e[i] = d[i]
      /\ DOMAIN d = 1 .. Len(d) /\ DOMAIN e = 1 .. Len(d) + 1
  OBVIOUS
<1>2. e # <<>>
  BY <1>1
<1>3. ASSUME NEW y, e = <<y>> PROVE d = <<>> /\ y = x
  <2>1. Len(e) = 1 /\ e[1] = y
    BY <1>3
  <2>2. Len(d) = 0
    BY <1>1, <2>1
  <2>3. QED
    BY <1>1, <2>1, <2>2
<1>4. ASSUME OnlyPadded(e) PROVE OnlyPadded(d) /\ x = "padded"
  BY <1>1, <1>4 DEF OnlyPadded
<1>5. QED
  BY <1>1, <1>2, <1>3, <1>4

\* A new packet is as it was written.
LEMMA SentArrives ==
  ASSUME NEW s, NEW u, NEW tail, Written(u, tail, s), NEW p, p = u \o tail
  PROVE  p \in Bytes /\ SentAs(s, p, <<>>)
<1>1. u \in Bytes /\ tail \in Bytes
  BY Zenon DEF Written, Core, Laid
<1>2. StartsWith(p, u)
  BY <1>1, AppendedStarts
<1>3. p \in Bytes
  BY <1>2 DEF StartsWith
<1>4. Arrived(p, <<>>, u, u \o tail)
  BY <1>2 DEF Arrived
<1>5. QED
  BY <1>3, <1>4 DEF SentAs

\* A damaged one: the first damage is all there is to say of it, unless it is padding.
LEMMA DamagedArrives ==
  ASSUME NEW s, NEW p \in Bytes, NEW d \in Seq(Kinds), SentAs(s, p, d),
         NEW x \in Kinds, NEW e, e = Append(d, x), NEW r,
         x = "padded" => \E b \in Bytes : r = p \o b,
         x = "cut" => CutShort(r, p),
         x = "changed" => Changed(r, p)
  PROVE  SentAs(s, r, e)
<1>1. PICK u, tail : Written(u, tail, s) /\ Arrived(p, d, u, u \o tail)
  BY Zenon DEF SentAs
<1>2. PICK w : w = u \o tail
  OBVIOUS
<1>3. /\ e # <<>> /\ \A y : e = <<y>> => d = <<>> /\ y = x
      /\ OnlyPadded(e) => OnlyPadded(d) /\ x = "padded"
  BY DamageFacts
<1>4. d = <<>> => p = w
  BY <1>1, <1>2, Zenon DEF Arrived
<1>5. OnlyPadded(e) => StartsWith(r, u)
  <2>1. SUFFICES ASSUME OnlyPadded(d), x = "padded" PROVE StartsWith(r, u)
    BY <1>3, Zenon
  <2>2. PICK b \in Bytes : r = p \o b
    BY <2>1
  <2>3. StartsWith(p, u)
    BY <1>1, <2>1, Zenon DEF Arrived
  <2>4. StartsWith(r, p)
    BY <2>2, AppendedStarts
  <2>5. /\ r \in Bytes /\ u \in Bytes
        /\ Len(u) <= Len(p) /\ Len(p) <= Len(r)
        /\ \A i \in 1 .. Len(u) : p[i] = u[i]
        /\ \A i \in 1 .. Len(p) : r[i] = p[i]
    BY <2>3, <2>4, Zenon DEF StartsWith
  <2>6. Len(u) \in Nat /\ Len(p) \in Nat /\ Len(r) \in Nat
    BY <2>5 DEF Bytes
  <2>7. Len(u) <= Len(r)
    BY <2>5, <2>6
  <2>8. SameBetween(r, u, 0, Len(u))
    <3>1. \A i \in 0 + 1 .. Len(u) : i \in 1 .. Len(u) /\ i \in 1 .. Len(p)
      BY <2>5, <2>6
    <3>2. QED
      BY <2>5, <3>1, Zenon DEF SameBetween
  <2>9. QED
    BY <2>5, <2>7, <2>8, AgreesStarts, Zenon
<1>6. e = <<"cut">> => CutShort(r, w)
  BY <1>3, <1>4
<1>7. e = <<"changed">> => Changed(r, w)
  BY <1>3, <1>4
<1>8. Arrived(r, e, u, w)
  BY <1>3, <1>5, <1>6, <1>7 DEF Arrived
<1>9. QED
  BY <1>1, <1>2, <1>8 DEF SentAs

\* A damaged packet consists of bytes.
LEMMA DamagedBytes ==
  ASSUME NEW p \in Bytes, NEW r,
         (\E b \in Bytes : r = p \o b) \/ CutShort(r, p) \/ Changed(r, p)
  PROVE  r \in Bytes
<1>1. ASSUME NEW b \in Bytes, r = p \o b PROVE r \in Bytes
  BY <1>1, AppendedStarts DEF StartsWith
<1>2. CASE CutShort(r, p)
  <2>1. PICK n \in Nat : n < Len(p) /\ r = Slice(p, 0, n)
    BY <1>2 DEF CutShort
  <2>2. n \in 0 .. Len(p)
    BY <2>1 DEF Bytes
  <2>3. QED
    BY <2>1, <2>2, CutStarts
<1>3. CASE Changed(r, p)
  <2>1. PICK i \in 1 .. Len(p), v \in Byte : v # p[i] /\ r = [p EXCEPT ![i] = v]
    BY <1>3 DEF Changed
  <2>2. OneByteOff(r, p, i, v)
    BY <2>1, ByteChanged, Zenon
  <2>3. QED
    BY <2>2, Zenon DEF OneByteOff
<1>4. QED
  BY <1>1, <1>2, <1>3

\* Sending establishes the invariant,
LEMMA SendKeeps ==
  ASSUME CodecInvariant, NEW type \in MessageTypes, NEW a \in 0 .. 2, NEW f \in Hellos,
         NEW data, NEW u, NEW tail,
         Core(u, f, type, a), tail \in Bytes, a # 2 => tail = <<>>, data = u \o tail,
         Send(type, a, f, data)
  PROVE  CodecInvariant'
<1> DEFINE s == [type |-> type, authentication |-> a, fields |-> f]
<1>1. /\ sent' = s /\ packet' = data /\ damage' = damage /\ read' = read
      /\ damage = <<>> /\ read = Nothing /\ MaxFaults \in Nat
  BY CodecAssumption DEF Send, CodecInvariant
<1>2. s.type = type /\ s.authentication = a /\ s.fields = f
  OBVIOUS
<1> HIDE DEF s
<1>3. Meant(s)
  BY <1>2, HellosAreFields DEF Meant
<1>4. Written(u, tail, s)
  BY <1>2 DEF Written
<1>5. data \in Bytes /\ SentAs(s, data, <<>>)
  BY <1>4, SentArrives
<1>6. damage' \in Seq(Kinds) /\ Len(damage') <= MaxFaults
  BY <1>1 DEF CodecInvariant
<1>7. QED
  BY <1>1, <1>3, <1>5, <1>6 DEF CodecInvariant

\* and what happens on the way keeps it.
LEMMA DamageKeeps ==
  ASSUME CodecInvariant, NEW x \in Kinds, NEW data, Damage(x, data),
         x = "padded" => \E b \in Bytes : data = packet \o b,
         x = "cut" => CutShort(data, packet),
         x = "changed" => Changed(data, packet)
  PROVE  CodecInvariant'
<1>1. /\ sent' = sent /\ read' = read /\ packet' = data /\ damage' = Append(damage, x)
      /\ sent # Nothing /\ read = Nothing /\ Len(damage) < MaxFaults
  BY DEF Damage
<1>2. packet \in Bytes /\ damage \in Seq(Kinds) /\ Meant(sent) /\ SentAs(sent, packet, damage)
  BY <1>1 DEF CodecInvariant
<1>3. damage' \in Seq(Kinds) /\ Len(damage') = Len(damage) + 1
  BY <1>1, <1>2, DamageFacts
<1>4. Len(damage') <= MaxFaults
  <2>1. Len(damage) \in Nat /\ MaxFaults \in Nat
    BY <1>2, CodecAssumption
  <2>2. QED
    BY <1>1, <1>3, <2>1
<1>5. data \in Bytes
  <2>1. x = "padded" \/ x = "cut" \/ x = "changed"
    BY DEF Kinds
  <2>2. QED
    BY <1>2, <2>1, DamagedBytes
<1>6. SentAs(sent, data, damage')
  BY <1>1, <1>2, DamagedArrives
<1>7. QED
  BY <1>1, <1>2, <1>3, <1>4, <1>5, <1>6 DEF CodecInvariant

\* What a byte is changed to is a byte.
LEMMA ChangedIsByte ==
  ASSUME NEW b \in Byte, NEW off \in Changes
  PROVE  (b + off) % 256 \in Byte
<1>1. off \in Nat /\ b \in Nat
  BY CodecAssumption DEF Byte
<1>2. \A n \in Nat : n % 256 \in 0 .. 255
  OBVIOUS
<1>3. QED
  BY <1>1, <1>2 DEF Byte

\* Every step keeps the invariant.
LEMMA CodecStep ==
  ASSUME CodecInvariant, [CodecNext]_codecVars
  PROVE  CodecInvariant'
<1>1. ASSUME NEW f \in Hellos, SendBuilt(f) PROVE CodecInvariant'
  <2>1. Core(HelloBytes(BuildHello(f)), f, Hello, 0)
    BY HellosAreFields, BuiltCore
  <2>2. PICK u : u = HelloBytes(BuildHello(f))
    OBVIOUS
  <2>3. u = u \o <<>> /\ <<>> \in Bytes
    <3>1. u \in Bytes
      BY <2>1, <2>2, Zenon DEF Core, Laid
    <3>2. QED
      BY <3>1, ConcatEmpty DEF Bytes
  <2>4. Send(Hello, 0, f, u)
    BY <1>1, <2>2 DEF SendBuilt, AuthenticationTypes
  <2>5. Hello \in MessageTypes /\ 0 \in 0 .. 2
    BY DEF Hello, MessageTypes
  <2>6. Core(u, f, Hello, 0)
    BY <2>1, <2>2
  <2>7. QED
    BY <2>3, <2>4, <2>5, <2>6, SendKeeps
<1>2. ASSUME NEW f \in Hellos, NEW type \in MessageTypes, NEW a \in 0 .. 2,
             SendForeign(type, a, f)
      PROVE  CodecInvariant'
  <2>1. f \in HelloFields /\ Len(f.neighbors) <= MaxNeighbors
    BY HellosAreFields
  <2>2. PICK u, tail : /\ ForeignPacket(type, a, f) = u \o tail /\ Core(u, f, type, a)
                       /\ tail \in Bytes /\ (a # 2 => tail = <<>>)
    BY <2>1, ForeignCore
  <2>3. PICK data : data = ForeignPacket(type, a, f)
    OBVIOUS
  <2>4. Send(type, a, f, data)
    BY <1>2, <2>3, Zenon DEF SendForeign
  <2>5. data = u \o tail
    BY <2>2, <2>3, Zenon
  <2>6. QED
    BY <2>2, <2>4, <2>5, SendKeeps
<1>3. ASSUME NEW i \in DOMAIN packet, NEW off \in Changes,
             ChangeByte(i, (packet[i] + off) % 256)
      PROVE  CodecInvariant'
  <2>1. i \in 1 .. Len(packet) /\ packet[i] \in Byte
    BY DEF CodecInvariant, Bytes
  <2>2. PICK v \in Byte : v = (packet[i] + off) % 256
    BY <2>1, ChangedIsByte
  <2>3. v # packet[i] /\ Damage("changed", [packet EXCEPT ![i] = v])
    BY <1>3, <2>2, Zenon DEF ChangeByte
  <2>4. PICK data : data = [packet EXCEPT ![i] = v] /\ Damage("changed", data)
    BY <2>3
  <2>5. Changed(data, packet)
    BY <2>1, <2>2, <2>3, <2>4, Zenon DEF Changed
  <2>6. QED
    BY <2>4, <2>5, DamageKeeps DEF Kinds
<1>4. ASSUME NEW n \in 0 .. Len(packet) - 1, Cut(n) PROVE CodecInvariant'
  <2>1. n \in Nat /\ n < Len(packet)
    BY DEF CodecInvariant, Bytes
  <2>2. PICK data : data = Slice(packet, 0, n) /\ Damage("cut", data)
    BY <1>4 DEF Cut
  <2>3. CutShort(data, packet)
    BY <2>1, <2>2 DEF CutShort
  <2>4. QED
    BY <2>2, <2>3, DamageKeeps DEF Kinds
<1>5. ASSUME NEW count \in 1 .. 5, Pad(count) PROVE CodecInvariant'
  <2>1. PICK b : b = [i \in 1 .. count |-> 170]
    OBVIOUS
  <2>2. b \in Bytes
    <3>1. 170 \in Byte /\ count \in Nat
      BY DEF Byte
    <3>2. b \in Seq(Byte)
      BY <2>1, <3>1
    <3>3. QED
      BY <3>2 DEF Bytes
  <2>3. PICK data : data = packet \o b /\ Damage("padded", data)
    BY <1>5, <2>1 DEF Pad
  <2>4. QED
    BY <2>2, <2>3, DamageKeeps DEF Kinds
<1>6. CASE Parse
  <2>1. /\ sent' = sent /\ packet' = packet /\ damage' = damage
        /\ sent # Nothing /\ read' = ReadOf(packet)
    BY <1>6 DEF Parse, ReadOf
  <2>2. QED
    BY <2>1 DEF CodecInvariant
<1>7. CASE UNCHANGED codecVars
  BY <1>7 DEF codecVars, CodecInvariant
<1>8. QED
  BY <1>1, <1>2, <1>3, <1>4, <1>5, <1>6, <1>7, Zenon DEF CodecNext, Way

\* In every state a packet is what is left of what was sent, and what the parsers make
\* of it is what they make of these bytes.
LEMMA CodecInductive == CodecSpec => []CodecInvariant
<1>1. CodecInit => CodecInvariant
  <2>1. SUFFICES ASSUME CodecInit PROVE CodecInvariant
    OBVIOUS
  <2>2. <<>> \in Bytes /\ <<>> \in Seq(Kinds) /\ Len(<<>>) = 0 /\ MaxFaults \in Nat
    BY CodecAssumption DEF Bytes
  <2>3. QED
    BY <2>1, <2>2 DEF CodecInit, CodecInvariant
<1>2. CodecInvariant /\ [CodecNext]_codecVars => CodecInvariant'
  BY CodecStep
<1>3. QED
  BY <1>1, <1>2, PTL DEF CodecSpec

\* What an accepted header says fits the packet.
LEMMA TypesAreSo ==
  ASSUME CodecInvariant
  PROVE  CodecTypeOK
<1>1. packet \in Seq(Byte)
  BY DEF CodecInvariant, Bytes
<1>2. \A i \in DOMAIN packet : packet[i] \in Byte
  BY <1>1
<1>3. Len(damage) <= MaxFaults
  BY DEF CodecInvariant
<1>4. ASSUME read # Nothing, Ok(read.header)
      PROVE  /\ read.header.packet_length \in HeaderLength .. Len(packet)
             /\ read.header.checksum \in 0 .. Word - 1
             /\ read.header.message_type \in MessageTypes
  <2>1. packet \in Bytes /\ read.header = ParseHeader(packet)
    BY <1>4 DEF CodecInvariant, ReadOf
  <2>2. PICK length, type : /\ length = Number16(Slice(packet, 2, 4))
                            /\ type = Number16(Slice(packet, 14, 16))
    OBVIOUS
  <2>3. Acceptable(packet, length, type) /\ read.header = HeaderIn(packet, length, type)
    BY <1>4, <2>1, <2>2, HeaderParsed
  <2>4. /\ read.header.packet_length = length /\ read.header.message_type = packet[2]
        /\ read.header.checksum = Number16(Slice(packet, 12, 14))
    BY <2>3 DEF HeaderIn
  <2>5. /\ Len(packet) >= 24 /\ length >= 24 /\ length <= Len(packet)
        /\ packet[2] \in MessageTypes
    BY <2>3, Zenon DEF Acceptable
  <2>6. Len(packet) \in Nat
    BY <1>1
  <2>7. length \in Nat
    <3>1. 2 \in Nat /\ 2 + 2 <= Len(packet) /\ 2 + 2 = 4
      BY <2>5, <2>6
    <3>2. \A m : m = Number16(Slice(packet, 2, 2 + 2)) => m \in Nat
      BY <2>1, <3>1, NumberRange
    <3>3. QED
      BY <2>2, <3>1, <3>2
  <2>8. Number16(Slice(packet, 12, 14)) \in 0 .. Word - 1
    <3>1. 12 \in Nat /\ 12 + 2 <= Len(packet) /\ 12 + 2 = 14
      BY <2>5, <2>6
    <3>2. \A m : m = Number16(Slice(packet, 12, 12 + 2)) => m \in Nat /\ m < Word
      BY <2>1, <3>1, NumberRange
    <3>3. Number16(Slice(packet, 12, 14)) \in Nat /\ Number16(Slice(packet, 12, 14)) < Word
      BY <3>1, <3>2
    <3>4. QED
      BY <3>3, WordSize
  <2>9. read.header.packet_length \in HeaderLength .. Len(packet)
    BY <2>4, <2>5, <2>6, <2>7 DEF HeaderLength
  <2>10. read.header.checksum \in 0 .. Word - 1
    BY <2>4, <2>8, Zenon
  <2>11. QED
    BY <2>4, <2>5, <2>9, <2>10, Zenon
<1>5. QED
  BY <1>2, <1>3, <1>4 DEF CodecTypeOK

\* Where the parser's fold is enough, it says so of the packet's bytes.
LEMMA CarriesNot ==
  ASSUME packet \in Bytes, ~ FoldCarries, NEW length, length = Number16(Slice(packet, 2, 4)),
         length \in Nat, length < Word, length <= Len(packet)
  PROVE  Fold(WordSum(Slice(packet, 0, length), Unsummed)) < Word
<1> DEFINE d == Slice(packet, 0, length)
<1>1. d \in Bytes /\ Len(d) = length
  <2>1. length \in 0 .. Len(packet)
    BY DEF Bytes
  <2>2. QED
    BY <2>1, CutStarts
<1>2. WordSum(d, Unsummed) \in Nat
  BY <1>1, WordSumFacts, WordSize DEF Bytes
<1>3. Fold(WordSum(d, Unsummed)) \in Nat
  <2>1. ASSUME NEW m \in Nat, m > 1 PROVE FoldAt(m, WordSum(d, Unsummed)) \in Nat
    BY <1>2, <2>1, FoldKeeps
  <2>2. QED
    BY <2>1, FoldIsFoldAt, WordSize
<1>4. ~ (Fold(WordSum(d, Unsummed)) >= Word)
  BY Zenon DEF FoldCarries
<1>5. QED
  BY <1>3, <1>4, WordSize

\* The length of an accepted packet is a 16-bit number.
LEMMA AcceptedLength ==
  ASSUME NEW q \in Bytes, NEW length, NEW type, Acceptable(q, length, type)
  PROVE  length \in Nat /\ length < Word /\ length <= Len(q)
<1>1. /\ Len(q) >= 24 /\ length = Number16(Slice(q, 2, 4)) /\ length <= Len(q)
  BY Zenon DEF Acceptable
<1>2. 2 \in Nat /\ 2 + 2 <= Len(q) /\ 2 + 2 = 4
  BY <1>1 DEF Bytes
<1>3. \A m : m = Number16(Slice(q, 2, 2 + 2)) => m \in Nat /\ m < Word
  BY <1>2, NumberRange
<1>4. QED
  BY <1>1, <1>2, <1>3

\* The packet before the parsers, in the words of the lemmas above.
LEMMA MeantIsMeans ==
  ASSUME NEW hello, MeantBy(hello, sent.type, sent.fields)
  PROVE  Means(hello)
BY Zenon DEF MeantBy, Means

\* What is accepted is what was meant.
LEMMA AcceptedIsSo ==
  ASSUME CodecInvariant
  PROVE  AcceptedAsMeant
<1> DEFINE s == sent
           q == packet
           f == sent.fields
           type == sent.type
           a == sent.authentication
<1>1. SUFFICES ASSUME read # Nothing, Ok(read.hello), ~ FoldCarries,
                      Untouched \/ Len(damage) <= 1
               PROVE  /\ Means(read.hello)
                      /\ a = 0 \/ (a = 2 /\ damage = <<"changed">>
                                         /\ read.hello.header.checksum = 0)
  BY DEF AcceptedAsMeant, HelloAccepted, AuthenticationTypes
<1>2. q \in Bytes /\ Meant(sent) /\ SentAs(sent, q, damage) /\ read.hello = ParseHello(q)
  BY <1>1 DEF CodecInvariant, ReadOf
<1>3. PICK u, tail : Written(u, tail, sent) /\ Arrived(q, damage, u, u \o tail)
  BY <1>2, Zenon DEF SentAs
<1>4. /\ type \in MessageTypes /\ a \in 0 .. 2 /\ f \in HelloFields
      /\ Len(f.neighbors) <= MaxNeighbors
      /\ Core(u, f, type, a) /\ tail \in Bytes /\ (a # 2 => tail = <<>>)
  BY <1>2, <1>3, Zenon DEF Meant, Written
<1>5. PICK c : Laid(u, f, type, c, a)
  BY <1>4, Zenon DEF Core
<1>6. PICK w : w = u \o tail
  OBVIOUS
<1>7. Arrived(q, damage, u, w)
  BY <1>3, <1>6
<1>8. Ok(ParseHello(q))
  BY <1>1, <1>2
<1> HIDE DEF f, type, a
<1>9. ASSUME StartsWith(q, u) PROVE MeantBy(ParseHello(q), type, f) /\ a = 0
  <2>1. /\ q \in Bytes /\ f \in HelloFields /\ Len(f.neighbors) <= MaxNeighbors
        /\ Laid(u, f, type, c, a) /\ StartsWith(q, u) /\ Ok(ParseHello(q))
    BY <1>2, <1>4, <1>5, <1>8, <1>9, Zenon
  <2> HIDE DEF q
  <2>2. QED
    BY <2>1, UntouchedMeant
<1>10. ~ CutShort(q, w)
  <2>1. SUFFICES ASSUME NEW n \in Nat, n < Len(w), q = Slice(w, 0, n) PROVE FALSE
    BY DEF CutShort
  <2>2. QED
    BY <1>4, <1>5, <1>6, <1>8, <2>1, CutRefused, Zenon
<1>11. ASSUME Changed(q, w)
       PROVE  /\ MeantBy(ParseHello(q), type, f)
              /\ a = 0 \/ (a = 2 /\ ParseHello(q).header.checksum = 0)
  <2>1. PICK length : length = Number16(Slice(q, 2, 4))
    OBVIOUS
  <2>2. Acceptable(q, length, 0)
    BY <1>2, <1>8, <2>1, HelloParsed
  <2>3. length \in Nat /\ length < Word /\ length <= Len(q)
    BY <1>2, <2>2, AcceptedLength
  <2>4. Fold(WordSum(Slice(q, 0, length), Unsummed)) < Word
    BY <1>1, <1>2, <2>1, <2>3, CarriesNot
  <2>5. OneFold(q)
    BY <2>1, <2>4, Zenon DEF OneFold
  <2>6. QED
    BY <1>4, <1>6, <1>8, <1>11, <2>5, ChangedMeant, Zenon
<1>12. OnlyPadded(damage) \/ damage = <<"cut">> \/ damage = <<"changed">>
  <2>1. damage \in Seq(Kinds)
    BY DEF CodecInvariant
  <2>2. CASE Untouched
    BY <2>2 DEF Untouched, OnlyPadded
  <2>3. CASE Len(damage) <= 1
    <3>1. Len(damage) \in Nat /\ DOMAIN damage = 1 .. Len(damage)
      BY <2>1
    <3>2. CASE Len(damage) = 0
      BY <3>1, <3>2 DEF OnlyPadded
    <3>3. CASE Len(damage) = 1
      <4>1. damage[1] \in Kinds /\ DOMAIN damage = {1}
        BY <2>1, <3>1, <3>3
      <4>2. damage = <<damage[1]>>
        <5>1. <<damage[1]>> \in Seq(Kinds) /\ Len(<<damage[1]>>) = 1
          BY <4>1
        <5>2. \A i \in 1 .. Len(damage) : damage[i] = <<damage[1]>>[i]
          BY <3>3
        <5>3. QED
          BY <2>1, <3>3, <5>1, <5>2, EqualSeqs
      <4>3. QED
        BY <4>1, <4>2, Zenon DEF Kinds, OnlyPadded
    <3>4. Len(damage) = 0 \/ Len(damage) = 1
      BY <2>3, <3>1
    <3>5. QED
      BY <3>2, <3>3, <3>4
  <2>4. QED
    BY <1>1, <2>2, <2>3
<1>13. CASE OnlyPadded(damage)
  <2>1. MeantBy(ParseHello(q), type, f) /\ a = 0
    BY <1>7, <1>9, <1>13, Zenon DEF Arrived
  <2>2. QED
    BY <1>2, <2>1, MeantIsMeans DEF type, f
<1>14. CASE damage = <<"cut">>
  BY <1>7, <1>10, <1>14 DEF Arrived
<1>15. CASE damage = <<"changed">>
  <2>1. Changed(q, w)
    BY <1>7, <1>15 DEF Arrived
  <2>2. /\ MeantBy(read.hello, type, f)
        /\ a = 0 \/ (a = 2 /\ read.hello.header.checksum = 0)
    BY <1>2, <1>11, <2>1
  <2>3. Means(read.hello)
    BY <2>2, MeantIsMeans DEF type, f
  <2>4. QED
    BY <1>15, <2>2, <2>3
<1>16. QED
  BY <1>12, <1>13, <1>14, <1>15

\* What is sent is accepted.
LEMMA SentIsSo ==
  ASSUME CodecInvariant
  PROVE  AcceptedUnlessCarries
<1> DEFINE q == packet
           f == sent.fields
           type == sent.type
           a == sent.authentication
<1>1. SUFFICES ASSUME read # Nothing, Untouched, a = 2 \/ ~ FoldCarries
               PROVE  Ok(read.header) /\ (a = 0 => Ok(read.hello))
  BY DEF AcceptedUnlessCarries, AuthenticationTypes
<1>2. /\ q \in Bytes /\ Meant(sent) /\ SentAs(sent, q, damage)
      /\ read.header = ParseHeader(q) /\ read.hello = ParseHello(q)
  BY <1>1 DEF CodecInvariant, ReadOf
<1>3. PICK u, tail : Written(u, tail, sent) /\ Arrived(q, damage, u, u \o tail)
  BY <1>2, Zenon DEF SentAs
<1>4. /\ type \in MessageTypes /\ a \in 0 .. 2 /\ f \in HelloFields
      /\ Len(f.neighbors) <= MaxNeighbors /\ Core(u, f, type, a)
  BY <1>2, <1>3, Zenon DEF Meant, Written
<1>5. StartsWith(q, u)
  <2>1. OnlyPadded(damage)
    BY <1>1 DEF Untouched, OnlyPadded
  <2>2. QED
    BY <1>3, <2>1, Zenon DEF Arrived
<1> HIDE DEF f, type, a
<1>6. PICK length : length = Number16(Slice(q, 2, 4))
  OBVIOUS
<1>7. length \in Nat /\ length < Word /\ length <= Len(q)
  <2>1. PICK c : Laid(u, f, type, c, a)
    BY <1>4, Zenon DEF Core
  <2>2. StillThere(q, u, f, type, c, a)
    BY <1>2, <1>4, <1>5, <2>1, UntouchedHeader, Zenon
  <2>3. length = Len(u) /\ Len(u) \in 44 .. Word - 1 /\ Len(u) <= Len(q)
    BY <1>6, <2>2, Zenon DEF StillThere
  <2>4. QED
    BY <2>3, WordSize
<1>8. a = 2 \/ Fold(WordSum(Slice(q, 0, length), Unsummed)) < Word
  BY <1>1, <1>2, <1>6, <1>7, CarriesNot
<1>9. Acceptable(q, length, a) /\ length >= 44
  BY <1>2, <1>4, <1>5, <1>6, <1>8, UntouchedAccepted, Zenon
<1>10. a = Number16(Slice(q, 14, 16))
  BY <1>9, Zenon DEF Acceptable
<1>11. Ok(ParseHeader(q))
  BY <1>2, <1>6, <1>9, <1>10, HeaderParsed
<1>12. a = 0 => Ok(ParseHello(q))
  BY <1>2, <1>6, <1>9, HelloParsed
<1>13. QED
  BY <1>2, <1>11, <1>12

\* What is accepted is serialised to the bytes it came in.
LEMMA SerialisesBack ==
  ASSUME CodecInvariant
  PROVE  Reserialises
<1> DEFINE q == packet
<1>1. ASSUME HeaderAccepted
      PROVE  ParseHeader(HeaderBytes(read.header)
                           \o Slice(q, HeaderLength, read.header.packet_length)) = read.header
  <2>1. q \in Bytes /\ read.header = ParseHeader(q) /\ Ok(read.header)
    BY <1>1 DEF CodecInvariant, ReadOf, HeaderAccepted
  <2>2. PICK length, type : length = Number16(Slice(q, 2, 4)) /\ type = Number16(Slice(q, 14, 16))
    OBVIOUS
  <2>3. Acceptable(q, length, type) /\ read.header = HeaderIn(q, length, type)
    BY <2>1, <2>2, HeaderParsed
  <2>4. HeaderIn(q, length, type).packet_length = length
    BY DEF HeaderIn
  <2>5. ParseHeader(HeaderBytes(HeaderIn(q, length, type)) \o Slice(q, 24, length))
          = HeaderIn(q, length, type)
    BY <2>1, <2>3, HeaderReread
  <2>6. QED
    BY <2>3, <2>4, <2>5, Zenon DEF HeaderLength
<1>2. ASSUME HelloAccepted
      PROVE  HelloBytes(read.hello) =
               Slice(q, 0, 16) \o AuthenticationBytes(0, <<>>)
                 \o Slice(q, HeaderLength, read.header.packet_length)
  <2>1. /\ q \in Bytes /\ read.header = ParseHeader(q)
        /\ read.hello = ParseHello(q) /\ Ok(ParseHello(q))
    BY <1>2 DEF CodecInvariant, ReadOf, HelloAccepted
  <2>2. PICK length : length = Number16(Slice(q, 2, 4))
    OBVIOUS
  <2>3. /\ Acceptable(q, length, 0) /\ length >= 44
        /\ read.hello = ReadHello(q, HeaderIn(q, length, 0))
    BY <2>1, <2>2, HelloParsed
  <2>4. 0 = Number16(Slice(q, 14, 16))
    BY <2>3, Zenon DEF Acceptable
  <2>5. read.header = HeaderIn(q, length, 0)
    BY <2>1, <2>2, <2>3, <2>4, HeaderParsed
  <2>6. read.header.packet_length = length
    BY <2>5 DEF HeaderIn
  <2>7. HelloBytes(ReadHello(q, HeaderIn(q, length, 0)))
          = Slice(q, 0, 16) \o AuthenticationBytes(0, <<>>) \o Slice(q, 24, length)
    BY <2>1, <2>3, HelloBack
  <2>8. QED
    BY <2>3, <2>6, <2>7, Zenon DEF HeaderLength
<1>3. QED
  BY <1>1, <1>2, Zenon DEF Reserialises

\* Type correctness of HelloCodec: whatever happens to a packet on the way, a header
\* that the parser accepts has a length within the packet, a 16-bit checksum and a
\* type there is.
THEOREM CodecTypeCorrect == CodecSpec => []CodecTypeOK
BY CodecInductive, TypesAreSo, PTL

\* A Hello that OspfHelloPacket::try_from accepts is the one that was sent, for all
\* Hellos, message types and kinds of authentication: after a cut, a change of any one
\* byte to any other value or padding, its fields are the sender's, but for neighbours
\* that a shorter length hides; and it was sent without authentication, or its checksum
\* is the 0 of cryptographic authentication.  Packets whose sum carries twice are left
\* out: ParseHeader folds once.
THEOREM AcceptedIsMeant == CodecSpec => []AcceptedAsMeant
BY CodecInductive, AcceptedIsSo, PTL

\* OspfHeader::try_from accepts what OspfHelloPacketBuilder or another implementation
\* has sent, with any type, authentication and bytes after it, and
\* OspfHelloPacket::try_from accepts it if nothing authenticates it, unless its sum
\* carries twice.
THEOREM SentIsAccepted == CodecSpec => []AcceptedUnlessCarries
BY CodecInductive, SentIsSo, PTL

\* Whatever bytes arrive, an accepted header is read again from what it is serialised
\* to, and an accepted Hello is serialised to the bytes it came in, but for the eight of
\* the authentication.
THEOREM ReadIsReserialised == CodecSpec => []Reserialises
BY CodecInductive, SerialisesBack, PTL

-----------------------------------------------------------------------------
(* The Hello of the program. *)

\* A sequence of four bytes is an address.
LEMMA FourBytes ==
  ASSUME NEW a \in Byte, NEW b \in Byte, NEW c \in Byte, NEW d \in Byte
  PROVE  /\ <<a, b, c, d>> \in Address
         /\ <<a, b, c, d>>[1] = a /\ <<a, b, c, d>>[2] = b
         /\ <<a, b, c, d>>[3] = c /\ <<a, b, c, d>>[4] = d
BY DEF Address

\* t[k] is the sum of the first k words, as far as they are summed.
WordsSummed(q, n, t) ==
  /\ t[0] = 0
  /\ \A k \in 1 .. n :
       t[k] = t[k - 1] + (IF k = 7 \/ k \in 9 .. 12 THEN 0
                          ELSE 256 * q[2 * k - 1] + q[2 * k])

\* The sum is that of all words.
LEMMA WordAfterWord ==
  ASSUME NEW q \in Bytes, NEW n \in Nat, Len(q) = 2 * n
  PROVE  \E t \in [0 .. n -> Nat] : WordSum(q, Unsummed) = t[n] /\ WordsSummed(q, n, t)
<1> DEFINE w == Weights(q, Unsummed)
<1>1. \A i \in 1 .. Len(q) : q[i] \in Nat /\ q[i] <= 255
  BY ByteFacts DEF Bytes
<1>2. PICK m : m = 65280
  OBVIOUS
<1>3. m \in Nat /\ 256 * 255 = m /\ 255 <= m /\ 2 * n \in Nat
  BY <1>2
<1>4. /\ w \in [1 .. 2 * n -> 0 .. m]
      /\ \A i \in 1 .. 2 * n :
           w[i] = IF i - 1 \in Unsummed THEN 0 ELSE IF i % 2 = 1 THEN 256 * q[i] ELSE q[i]
  <2>1. ASSUME NEW i \in 1 .. 2 * n
        PROVE  (IF i - 1 \in Unsummed THEN 0 ELSE IF i % 2 = 1 THEN 256 * q[i] ELSE q[i])
                 \in 0 .. m
    BY <1>1, <1>3
  <2>2. w = [i \in 1 .. 2 * n |-> IF i - 1 \in Unsummed THEN 0
                                  ELSE IF i % 2 = 1 THEN 256 * q[i] ELSE q[i]]
    BY DEF Weights
  <2> HIDE DEF w
  <2>3. QED
    BY <2>1, <2>2
<1> HIDE DEF w
<1>5. PICK s \in [0 .. 2 * n -> Nat] :
        /\ SumOf(w) = s[2 * n] /\ s[0] = 0
        /\ \A i \in 1 .. 2 * n : s[i] = s[i - 1] + w[i]
  <2>1. w \in [1 .. 2 * n -> 0 .. m] /\ m \in Nat /\ 2 * n \in Nat
    BY <1>3, <1>4
  <2>2. QED
    BY <2>1, SumFacts, Zenon
<1> DEFINE t == [k \in 0 .. n |-> s[2 * k]]
<1>6. t \in [0 .. n -> Nat] /\ t[0] = 0 /\ t[n] = s[2 * n]
  <2>1. \A k \in 0 .. n : 2 * k \in 0 .. 2 * n
    OBVIOUS
  <2>2. t \in [0 .. n -> Nat]
    BY <1>5, <2>1
  <2>3. t[0] = s[0] /\ t[n] = s[2 * n]
    <3>1. 2 * 0 = 0 /\ 0 \in 0 .. n /\ n \in 0 .. n
      OBVIOUS
    <3>2. QED
      BY <3>1, Zenon
  <2>4. QED
    BY <1>5, <2>2, <2>3
<1>7. ASSUME NEW k \in 1 .. n
      PROVE  t[k] = t[k - 1] + (IF k = 7 \/ k \in 9 .. 12 THEN 0
                                ELSE 256 * q[2 * k - 1] + q[2 * k])
  <2>1. PICK i \in 1 .. 2 * n : i = 2 * k - 1
    OBVIOUS
  <2>2. i + 1 \in 1 .. 2 * n /\ (i + 1) - 1 = i /\ i + 1 = 2 * k /\ i - 1 = 2 * (k - 1)
    BY <2>1
  <2>3. t[k] = s[i + 1] /\ t[k - 1] = s[i - 1]
    BY <2>2
  <2>4. s[i] = s[i - 1] + w[i] /\ s[i + 1] = s[i] + w[i + 1]
    BY <1>5, <2>2
  <2>5. /\ i - 1 \in Unsummed <=> k = 7 \/ k \in 9 .. 12
        /\ (i + 1) - 1 \in Unsummed <=> k = 7 \/ k \in 9 .. 12
    BY <2>1 DEF Unsummed
  <2>6. i % 2 = 1 /\ (i + 1) % 2 # 1
    <3>1. k - 1 \in Nat /\ i = 2 * (k - 1) + 1 /\ i + 1 = 2 * k
      BY <2>1
    <3>2. (2 * (k - 1) + 1) % 2 = 1 /\ (2 * k) % 2 = 0
      OBVIOUS
    <3>3. QED
      BY <3>1, <3>2
  <2>7. /\ w[i] = IF k = 7 \/ k \in 9 .. 12 THEN 0 ELSE 256 * q[i]
        /\ w[i + 1] = IF k = 7 \/ k \in 9 .. 12 THEN 0 ELSE q[i + 1]
    BY <1>4, <2>2, <2>5, <2>6
  <2>8. s[i - 1] \in Nat /\ q[i] \in Nat /\ q[i + 1] \in Nat
    BY <1>1, <1>5, <2>2
  <2> HIDE DEF t
  <2>9. t[k] = t[k - 1] + (IF k = 7 \/ k \in 9 .. 12 THEN 0 ELSE 256 * q[i] + q[i + 1])
    <3>1. t[k] = (t[k - 1] + w[i]) + w[i + 1] /\ t[k - 1] \in Nat
      BY <2>3, <2>4, <2>8
    <3>2. CASE k = 7 \/ k \in 9 .. 12
      <4>1. w[i] = 0 /\ w[i + 1] = 0
        BY <2>7, <3>2
      <4>2. QED
        BY <3>1, <3>2, <4>1
    <3>3. CASE ~ (k = 7 \/ k \in 9 .. 12)
      <4>1. w[i] = 256 * q[i] /\ w[i + 1] = q[i + 1]
        BY <2>7, <3>3
      <4>2. PICK d \in Nat : d = 256 * q[i]
        BY <2>8
      <4>3. t[k] = (t[k - 1] + d) + q[i + 1]
        BY <3>1, <4>1, <4>2, Zenon
      <4>4. (t[k - 1] + d) + q[i + 1] = t[k - 1] + (d + q[i + 1])
        <5>1. t[k - 1] \in Nat /\ q[i + 1] \in Nat
          BY <2>8, <3>1
        <5>2. \A a, b \in Nat : (a + d) + b = a + (d + b)
          OBVIOUS
        <5>3. QED
          BY <5>1, <5>2, Zenon
      <4>5. QED
        BY <3>3, <4>2, <4>3, <4>4, Zenon
    <3>4. QED
      BY <3>2, <3>3
  <2>10. q[i] = q[2 * k - 1]
    BY <2>1
  <2>11. q[i + 1] = q[2 * k]
    BY <2>2
  <2>12. QED
    BY <2>9, <2>10, <2>11, Zenon
<1> HIDE DEF t
<1>8. WordSum(q, Unsummed) = t[n]
  BY <1>5, <1>6 DEF WordSum, w
<1>9. WordsSummed(q, n, t)
  BY <1>6, <1>7 DEF WordsSummed
<1>10. QED
  BY <1>6, <1>8, <1>9

\* Answer is something a Hello can be built from.
LEMMA AnswerIsHello ==
  /\ Answer \in HelloFields /\ Len(Answer.neighbors) = 1 /\ 1 <= MaxNeighbors
  /\ Answer.neighbors[1] = <<1, 1, 1, 1>>
<1>1. \A b \in {0, 1, 2, 5, 10, 16, 40, 172, 252, 255} : b \in Byte
  BY ByteFacts
<1>2. /\ <<2, 2, 2, 2>> \in Address /\ <<0, 0, 0, 0>> \in Address
      /\ <<255, 255, 255, 252>> \in Address /\ <<0, 0, 0, 40>> \in Address
      /\ <<172, 16, 10, 1>> \in Address /\ <<1, 1, 1, 1>> \in Address
  <2>1. /\ 0 \in Byte /\ 1 \in Byte /\ 2 \in Byte /\ 10 \in Byte /\ 16 \in Byte
        /\ 40 \in Byte /\ 172 \in Byte /\ 252 \in Byte /\ 255 \in Byte
    BY <1>1
  <2>2. <<2, 2, 2, 2>> \in Address
    BY <2>1, FourBytes
  <2>3. <<0, 0, 0, 0>> \in Address
    BY <2>1, FourBytes
  <2>4. <<255, 255, 255, 252>> \in Address
    BY <2>1, FourBytes
  <2>5. <<0, 0, 0, 40>> \in Address
    BY <2>1, FourBytes
  <2>6. <<172, 16, 10, 1>> \in Address
    BY <2>1, FourBytes
  <2>7. <<1, 1, 1, 1>> \in Address
    BY <2>1, FourBytes
  <2>8. QED
    BY <2>2, <2>3, <2>4, <2>5, <2>6, <2>7
<1>3. 2 \in Byte /\ 5 \in Byte
  BY <1>1
<1>4. 10 \in {n \in Nat : n < Word}
  BY DEF Word
<1>5. <<<<1, 1, 1, 1>>>> \in Seq(Address)
  BY <1>2
<1>6. Ipv4Netmask(<<255, 255, 255, 252>>) \in {Ipv4Netmask(m) : m \in Address}
  BY <1>2
<1>7. Answer \in HelloFields
  BY <1>2, <1>3, <1>4, <1>5, <1>6, Zenon DEF Answer, HelloFields
<1>8. Answer.neighbors = <<<<1, 1, 1, 1>>>>
  BY DEF Answer
<1>9. Len(Answer.neighbors) = 1 /\ Answer.neighbors[1] = <<1, 1, 1, 1>>
  BY <1>8
<1>10. 1 <= MaxNeighbors
  BY DEF MaxNeighbors, HeaderLength
<1>11. QED
  BY <1>7, <1>9, <1>10

\* Its words, one after the other, those of the checksum and of the authentication
\* header aside.
LEMMA AnswerWords ==
  ASSUME NEW w, w = HelloBytes(BuildHello(Answer))
  PROVE  /\ w \in Bytes /\ Len(w) = 48
         /\ w[1] = 2 /\ w[2] = 1 /\ w[3] = 0 /\ w[4] = 48
         /\ w[5] = 2 /\ w[6] = 2 /\ w[7] = 2 /\ w[8] = 2
         /\ w[9] = 0 /\ w[10] = 0 /\ w[11] = 0 /\ w[12] = 0 /\ w[15] = 0 /\ w[16] = 0
         /\ w[25] = 255 /\ w[26] = 255 /\ w[27] = 255 /\ w[28] = 252
         /\ w[29] = 0 /\ w[30] = 10 /\ w[31] = 2 /\ w[32] = 5
         /\ w[33] = 0 /\ w[34] = 0 /\ w[35] = 0 /\ w[36] = 40
         /\ w[37] = 172 /\ w[38] = 16 /\ w[39] = 10 /\ w[40] = 1
         /\ w[41] = 0 /\ w[42] = 0 /\ w[43] = 0 /\ w[44] = 0
         /\ w[45] = 1 /\ w[46] = 1 /\ w[47] = 1 /\ w[48] = 1
<1>1. PICK length : length = 44 + 4 * Len(Answer.neighbors)
  OBVIOUS
<1>2. length = 48
  BY <1>1, AnswerIsHello
<1>3. /\ length \in Nat /\ length < Word
      /\ \E c \in Nat : c < Word /\ BuildHello(Answer) = HelloPacket(Answer, length, c)
  BY <1>1, AnswerIsHello, BuiltHello, Zenon
<1>4. PICK c \in Nat : c < Word /\ BuildHello(Answer) = HelloPacket(Answer, length, c)
  BY <1>3
<1>5. HelloLayout(w, Answer, length, c)
  BY <1>3, <1>4, AnswerIsHello, HelloAsBytes, Zenon
<1>6. w \in Bytes /\ Len(w) = 48 /\ w \in Seq(Byte)
  BY <1>1, <1>2, <1>5, Zenon DEF HelloLayout, Bytes
<1>7. \A from \in 0 .. 44 : /\ Slice(w, from, from + 4)[1] = w[from + 1]
                            /\ Slice(w, from, from + 4)[2] = w[from + 2]
                            /\ Slice(w, from, from + 4)[3] = w[from + 3]
                            /\ Slice(w, from, from + 4)[4] = w[from + 4]
  <2> TAKE from \in 0 .. 44
  <2>1. PICK to : to = from + 4
    OBVIOUS
  <2>2. from \in Nat /\ to \in from .. Len(w) /\ to - from = 4
    BY <1>6, <2>1
  <2>3. \A k \in 1 .. to - from : Slice(w, from, to)[k] = w[from + k]
    BY <1>6, <2>2, SliceFacts, Zenon
  <2>4. QED
    BY <2>1, <2>2, <2>3
<1>8. \A from \in 0 .. 44 : /\ Slice(w, from, from + 2)[1] = w[from + 1]
                            /\ Slice(w, from, from + 2)[2] = w[from + 2]
  <2> TAKE from \in 0 .. 44
  <2>1. PICK to : to = from + 2
    OBVIOUS
  <2>2. from \in Nat /\ to \in from .. Len(w) /\ to - from = 2
    BY <1>6, <2>1
  <2>3. \A k \in 1 .. to - from : Slice(w, from, to)[k] = w[from + k]
    BY <1>6, <2>2, SliceFacts, Zenon
  <2>4. QED
    BY <2>1, <2>2, <2>3
<1>9. w[1] = 2 /\ w[2] = 1
  BY <1>5 DEF HelloLayout, Hello
<1>10. w[3] = 0 /\ w[4] = 48
  <2>1. Slice(w, 2, 4) = Bytes16(48)
    BY <1>2, <1>5, Zenon DEF HelloLayout
  <2>2. Slice(w, 2, 4) = <<0, 48>>
    BY <2>1 DEF Bytes16
  <2>3. QED
    BY <1>8, <2>2
<1>11. w[5] = 2 /\ w[6] = 2 /\ w[7] = 2 /\ w[8] = 2
  <2>1. Slice(w, 4, 8) = Answer.router_id
    BY <1>5, Zenon DEF HelloLayout
  <2>2. Slice(w, 4, 8) = <<2, 2, 2, 2>>
    BY <2>1 DEF Answer
  <2>3. QED
    BY <1>7, <2>2
<1>12. w[9] = 0 /\ w[10] = 0 /\ w[11] = 0 /\ w[12] = 0
  <2>1. Slice(w, 8, 12) = Answer.area_id
    BY <1>5, Zenon DEF HelloLayout
  <2>2. Slice(w, 8, 12) = <<0, 0, 0, 0>>
    BY <2>1 DEF Answer
  <2>3. QED
    BY <1>7, <2>2
<1>13. w[15] = 0 /\ w[16] = 0
  <2>1. Slice(w, 14, 16) = Bytes16(0)
    BY <1>5, Zenon DEF HelloLayout
  <2>2. Slice(w, 14, 16) = <<0, 0>>
    BY <2>1 DEF Bytes16
  <2>3. QED
    BY <1>8, <2>2
<1>14. w[25] = 255 /\ w[26] = 255 /\ w[27] = 255 /\ w[28] = 252
  <2>1. Slice(w, 24, 28) = Answer.network_mask.netmask_number
    BY <1>5, Zenon DEF HelloLayout
  <2>2. Slice(w, 24, 28) = <<255, 255, 255, 252>>
    BY <2>1 DEF Answer, Ipv4Netmask
  <2>3. QED
    BY <1>7, <2>2
<1>15. w[29] = 0 /\ w[30] = 10
  <2>1. Slice(w, 28, 30) = Bytes16(Answer.hello_interval)
    BY <1>5, Zenon DEF HelloLayout
  <2>2. Slice(w, 28, 30) = <<0, 10>>
    BY <2>1 DEF Bytes16, Answer
  <2>3. QED
    BY <1>8, <2>2
<1>16. w[31] = 2 /\ w[32] = 5
  BY <1>5 DEF HelloLayout, Answer
<1>17. w[33] = 0 /\ w[34] = 0 /\ w[35] = 0 /\ w[36] = 40
  <2>1. Slice(w, 32, 36) = Answer.router_dead_interval
    BY <1>5, Zenon DEF HelloLayout
  <2>2. Slice(w, 32, 36) = <<0, 0, 0, 40>>
    BY <2>1 DEF Answer
  <2>3. QED
    BY <1>7, <2>2
<1>18. w[37] = 172 /\ w[38] = 16 /\ w[39] = 10 /\ w[40] = 1
  <2>1. Slice(w, 36, 40) = Answer.designated_router
    BY <1>5, Zenon DEF HelloLayout
  <2>2. Slice(w, 36, 40) = <<172, 16, 10, 1>>
    BY <2>1 DEF Answer
  <2>3. QED
    BY <1>7, <2>2
<1>19. w[41] = 0 /\ w[42] = 0 /\ w[43] = 0 /\ w[44] = 0
  <2>1. Slice(w, 40, 44) = Answer.backup_designated_router
    BY <1>5, Zenon DEF HelloLayout
  <2>2. Slice(w, 40, 44) = <<0, 0, 0, 0>>
    BY <2>1 DEF Answer
  <2>3. QED
    BY <1>7, <2>2
<1>20. w[45] = 1 /\ w[46] = 1 /\ w[47] = 1 /\ w[48] = 1
  <2>1. \A j \in 1 .. Len(Answer.neighbors) :
          Slice(w, 40 + 4 * j, 44 + 4 * j) = Answer.neighbors[j]
    BY <1>5, Zenon DEF HelloLayout
  <2>2. Slice(w, 44, 48) = <<1, 1, 1, 1>>
    BY <2>1, AnswerIsHello
  <2>3. QED
    BY <1>7, <2>2
<1>21. QED
  BY <1>6, <1>9, <1>10, <1>11, <1>12, <1>13, <1>14, <1>15, <1>16, <1>17, <1>18, <1>19, <1>20

\* The sum of its words, folded once, leaves no carry.
LEMMA AnswerDoesNotCarry ==
  ASSUME NEW w, w = HelloBytes(BuildHello(Answer))
  PROVE  Fold(WordSum(w, Unsummed)) < Word
<1>1. PICK n \in Nat : n = 24
  OBVIOUS
<1>2. w \in Bytes /\ Len(w) = 2 * n
  BY <1>1, AnswerWords
<1>3. \E t \in [0 .. n -> Nat] : WordSum(w, Unsummed) = t[n] /\ WordsSummed(w, n, t)
  BY <1>2, WordAfterWord, Zenon
<1>4. PICK t \in [0 .. 24 -> Nat] : WordSum(w, Unsummed) = t[24] /\ WordsSummed(w, 24, t)
  BY <1>1, <1>3
<1> DEFINE Summed(k) == t[k] = t[k - 1] + (256 * w[2 * k - 1] + w[2 * k])
<1>5. /\ \A k \in 1 .. 24 : k # 7 /\ k \notin 9 .. 12 => Summed(k)
      /\ t[0] = 0 /\ t[7] = t[6] /\ t[9] = t[8] /\ t[10] = t[9] /\ t[11] = t[10] /\ t[12] = t[11]
  BY <1>4 DEF WordsSummed
<1>6. t[1] = 513 /\ t[2] = 561
  <2>1. Summed(1) /\ Summed(2)
    BY <1>5
  <2>2. w[1] = 2 /\ w[2] = 1 /\ w[3] = 0 /\ w[4] = 48
    BY AnswerWords
  <2>3. QED
    BY <1>5, <2>1, <2>2
<1>7. t[6] = 1589
  <2>1. Summed(3) /\ Summed(4) /\ Summed(5) /\ Summed(6)
    BY <1>5
  <2>2. /\ w[5] = 2 /\ w[6] = 2 /\ w[7] = 2 /\ w[8] = 2
        /\ w[9] = 0 /\ w[10] = 0 /\ w[11] = 0 /\ w[12] = 0
    BY AnswerWords
  <2>3. QED
    BY <1>6, <2>1, <2>2
<1>8. t[12] = 1589
  <2>1. Summed(8)
    BY <1>5
  <2>2. w[15] = 0 /\ w[16] = 0
    BY AnswerWords
  <2>3. QED
    BY <1>5, <1>7, <2>1, <2>2
<1>9. t[14] = 132656
  <2>1. Summed(13) /\ Summed(14)
    BY <1>5
  <2>2. w[25] = 255 /\ w[26] = 255 /\ w[27] = 255 /\ w[28] = 252
    BY AnswerWords
  <2>3. QED
    BY <1>8, <2>1, <2>2
<1>10. t[18] = 133223
  <2>1. Summed(15) /\ Summed(16) /\ Summed(17) /\ Summed(18)
    BY <1>5
  <2>2. /\ w[29] = 0 /\ w[30] = 10 /\ w[31] = 2 /\ w[32] = 5
        /\ w[33] = 0 /\ w[34] = 0 /\ w[35] = 0 /\ w[36] = 40
    BY AnswerWords
  <2>3. QED
    BY <1>9, <2>1, <2>2
<1>11. t[20] = 179832
  <2>1. Summed(19) /\ Summed(20)
    BY <1>5
  <2>2. w[37] = 172 /\ w[38] = 16 /\ w[39] = 10 /\ w[40] = 1
    BY AnswerWords
  <2>3. QED
    BY <1>10, <2>1, <2>2
<1>12. t[24] = 180346
  <2>1. Summed(21) /\ Summed(22) /\ Summed(23) /\ Summed(24)
    BY <1>5
  <2>2. /\ w[41] = 0 /\ w[42] = 0 /\ w[43] = 0 /\ w[44] = 0
        /\ w[45] = 1 /\ w[46] = 1 /\ w[47] = 1 /\ w[48] = 1
    BY AnswerWords
  <2>3. QED
    BY <1>11, <2>1, <2>2
<1>13. Fold(180346) < Word
  BY DEF Fold, Word
<1>14. QED
  BY <1>4, <1>12, <1>13

\* The program's own Hello is read as Answer.
LEMMA AnswerIsRead ==
  ASSUME NEW w, w = HelloBytes(BuildHello(Answer))
  PROVE  /\ ParseHello(w) = BuildHello(Answer)
         /\ Ok(BuildHello(Answer))
         /\ \A n \in DOMAIN BuildHello(Answer) \ {"header"} : BuildHello(Answer)[n] = Answer[n]
         /\ BuildHello(Answer).header.router_id = Answer.router_id
<1>1. <<>> \in Bytes /\ w \in Bytes /\ w \o <<>> = w
  BY AnswerWords, ConcatEmpty DEF Bytes
<1>2. Len(Answer.neighbors) <= MaxNeighbors
  BY AnswerIsHello
<1>3. ParseHello(w \o <<>>) = IF Fold(WordSum(w, Unsummed)) < Word THEN BuildHello(Answer)
                              ELSE Failed("InvalidChecksum")
  BY <1>1, <1>2, AnswerIsHello, HelloReadAsBuilt, Zenon
<1>4. ParseHello(w) = BuildHello(Answer)
  BY <1>1, <1>3, AnswerDoesNotCarry, Zenon
<1>5. PICK length, c : BuildHello(Answer) = HelloPacket(Answer, length, c)
  BY <1>2, AnswerIsHello, BuiltHello
<1> DEFINE p == HelloPacket(Answer, length, c)
<1>6. DOMAIN p = {"header", "network_mask", "hello_interval", "options", "router_priority",
                  "router_dead_interval", "designated_router", "backup_designated_router",
                  "neighbors"}
  BY DEF HelloPacket
<1>7. /\ p.network_mask = Answer.network_mask /\ p.hello_interval = Answer.hello_interval
      /\ p.options = Answer.options /\ p.router_priority = Answer.router_priority
      /\ p.router_dead_interval = Answer.router_dead_interval
      /\ p.designated_router = Answer.designated_router
      /\ p.backup_designated_router = Answer.backup_designated_router
      /\ p.neighbors = Answer.neighbors
      /\ p.header.router_id = Answer.router_id
  BY DEF HelloPacket, BuildHeader
<1> HIDE DEF p
<1>8. Ok(p)
  BY <1>6 DEF Ok
<1>9. \A n \in DOMAIN p \ {"header"} : p[n] = Answer[n]
  BY <1>6, <1>7
<1>10. QED
  BY <1>4, <1>5, <1>7, <1>8, <1>9 DEF p

-----------------------------------------------------------------------------
(* As it goes out. *)

\* The header of an IPv4 packet that carries n bytes.
LEMMA IpAsBytes ==
  ASSUME NEW source \in Address, NEW destination \in Address, NEW protocol \in Byte,
         NEW n \in Nat, 20 + n < Word,
         NEW x, x = IpBytes(CHOOSE h \in BuildIp(source, destination, protocol, n,
                                                 Unforced, 0, 0) : TRUE)
  PROVE  /\ x \in Bytes /\ Len(x) = 20 /\ x[1] = 69 /\ x[10] = protocol
         /\ Slice(x, 2, 4) = Bytes16(20 + n)
         /\ Slice(x, 12, 16) = source /\ Slice(x, 16, 20) = destination
<1> DEFINE h == [version |-> 4, time_to_live |-> 128, protocol |-> protocol,
                 source_address |-> source, destination_address |-> destination,
                 total_length |-> 20 + n, identification |-> 0, fragment_offset |-> 0,
                 header_checksum |-> 0, type_of_service |-> 0,
                 internet_header_length |-> 5, flags |-> 0]
<1>1. x = IpBytes(h)
  <2>1. FlagsOf({}) = 0
    BY DEF FlagsOf
  <2>2. ~ (n > 65535 - 20) /\ Unforced = -1 /\ 0 # Unforced
    BY DEF Word, Unforced
  <2>3. [h EXCEPT !.header_checksum = 0] = h
    OBVIOUS
  <2>4. BuildIp(source, destination, protocol, n, Unforced, 0, 0)
          = {[h EXCEPT !.header_checksum = 0]}
    BY <2>1, <2>2 DEF BuildIp
  <2> HIDE DEF h
  <2>5. BuildIp(source, destination, protocol, n, Unforced, 0, 0) = {h}
    BY <2>3, <2>4
  <2>6. (CHOOSE g \in {h} : TRUE) = h
    OBVIOUS
  <2>7. QED
    BY <2>5, <2>6
<1>2. FlagsWithFragmentOffset(h) = 0
  <2>1. 0 \div 8192 = 0 /\ 0 % 8192 = 0
    OBVIOUS
  <2>2. LastBits(0, 0) = 0
    BY DEF LastBits
  <2>3. QED
    BY <2>1, <2>2 DEF FlagsWithFragmentOffset
<1> DEFINE u0 == <<69, 0>>
           u1 == u0 \o Bytes16(20 + n)
           u2 == u1 \o Bytes16(0)
           u3 == u2 \o Bytes16(0)
           u4 == u3 \o <<128, protocol>>
           u5 == u4 \o Bytes16(0)
           u6 == u5 \o source
           u7 == u6 \o destination
<1>3. x = u7
  <2>1. /\ h.version = 4 /\ h.type_of_service = 0 /\ h.total_length = 20 + n
        /\ h.identification = 0 /\ h.time_to_live = 128 /\ h.protocol = protocol
        /\ h.header_checksum = 0 /\ h.source_address = source
        /\ h.destination_address = destination
    OBVIOUS
  <2>2. 16 * 4 + 5 = 69
    OBVIOUS
  <2> HIDE DEF h
  <2>3. QED
    BY <1>1, <1>2, <2>1, <2>2, Zenon DEF IpBytes
<1> HIDE DEF h
<1>4. /\ u0 \in Bytes /\ Len(u0) = 2 /\ u0[1] = 69
      /\ <<128, protocol>> \in Bytes /\ Len(<<128, protocol>>) = 2
      /\ <<128, protocol>>[1] = 128 /\ <<128, protocol>>[2] = protocol
  <2>1. 69 \in Byte /\ 0 \in Byte /\ 128 \in Byte
    BY ByteFacts
  <2>2. QED
    BY <2>1, TwoBytes
<1>5. /\ Bytes16(20 + n) \in Bytes /\ Len(Bytes16(20 + n)) = 2
      /\ Bytes16(0) \in Bytes /\ Len(Bytes16(0)) = 2
      /\ source \in Bytes /\ Len(source) = 4 /\ destination \in Bytes /\ Len(destination) = 4
  <2>1. 0 \in Nat /\ 0 < Word /\ 20 + n \in Nat
    BY DEF Word
  <2>2. QED
    BY <2>1, NumberBytes, AddressBytes
<1> HIDE DEF u0
<1>6. Joined(u1, u0, Bytes16(20 + n), 2, 4)
  <2>1. 2 + 2 = 4
    OBVIOUS
  <2>2. Len(u0) + Len(Bytes16(20 + n)) = 4
    BY <1>4, <1>5, <2>1, Zenon
  <2>3. QED
    BY <1>4, <1>5, <2>2, Piece, Zenon
<1> HIDE DEF u1
<1>7. Joined(u2, u1, Bytes16(0), 4, 6)
  <2>1. u1 \in Bytes /\ Len(u1) = 4
    BY <1>6, Zenon DEF Joined
  <2>2. 4 + 2 = 6
    OBVIOUS
  <2>3. Len(u1) + Len(Bytes16(0)) = 6
    BY <1>5, <2>1, <2>2, Zenon
  <2>4. QED
    BY <1>5, <2>1, <2>3, Piece, Zenon
<1> HIDE DEF u2
<1>8. Joined(u3, u2, Bytes16(0), 6, 8)
  <2>1. u2 \in Bytes /\ Len(u2) = 6
    BY <1>7, Zenon DEF Joined
  <2>2. 6 + 2 = 8
    OBVIOUS
  <2>3. Len(u2) + Len(Bytes16(0)) = 8
    BY <1>5, <2>1, <2>2, Zenon
  <2>4. QED
    BY <1>5, <2>1, <2>3, Piece, Zenon
<1> HIDE DEF u3
<1>9. Joined(u4, u3, <<128, protocol>>, 8, 10)
  <2>1. u3 \in Bytes /\ Len(u3) = 8 /\ Len(u3) + Len(<<128, protocol>>) = 10
    BY <1>4, <1>8 DEF Joined
  <2>2. QED
    BY <1>4, <2>1, Piece, Zenon
<1> HIDE DEF u4
<1>10. Joined(u5, u4, Bytes16(0), 10, 12)
  <2>1. u4 \in Bytes /\ Len(u4) = 10
    BY <1>9, Zenon DEF Joined
  <2>2. 10 + 2 = 12
    OBVIOUS
  <2>3. Len(u4) + Len(Bytes16(0)) = 12
    BY <1>5, <2>1, <2>2, Zenon
  <2>4. QED
    BY <1>5, <2>1, <2>3, Piece, Zenon
<1> HIDE DEF u5
<1>11. Joined(u6, u5, source, 12, 16)
  <2>1. u5 \in Bytes /\ Len(u5) = 12 /\ Len(u5) + Len(source) = 16
    BY <1>5, <1>10 DEF Joined
  <2>2. QED
    BY <1>5, <2>1, Piece, Zenon
<1> HIDE DEF u6
<1>12. Joined(u7, u6, destination, 16, 20)
  <2>1. u6 \in Bytes /\ Len(u6) = 16 /\ Len(u6) + Len(destination) = 20
    BY <1>5, <1>11 DEF Joined
  <2>2. QED
    BY <1>5, <2>1, Piece, Zenon
<1> HIDE DEF u7
<1>13. /\ StartsWith(u7, u6) /\ StartsWith(u7, u4) /\ StartsWith(u7, u1) /\ StartsWith(u7, u0)
  <2>1. /\ StartsWith(u7, u6) /\ StartsWith(u6, u5) /\ StartsWith(u5, u4) /\ StartsWith(u4, u3)
        /\ StartsWith(u3, u2) /\ StartsWith(u2, u1) /\ StartsWith(u1, u0)
    BY <1>6, <1>7, <1>8, <1>9, <1>10, <1>11, <1>12 DEF Joined
  <2>2. StartsWith(u7, u5)
    BY <2>1, StartsTransitive
  <2>3. StartsWith(u7, u4)
    BY <2>1, <2>2, StartsTransitive
  <2>4. StartsWith(u7, u3)
    BY <2>1, <2>3, StartsTransitive
  <2>5. StartsWith(u7, u2)
    BY <2>1, <2>4, StartsTransitive
  <2>6. StartsWith(u7, u1)
    BY <2>1, <2>5, StartsTransitive
  <2>7. StartsWith(u7, u0)
    BY <2>1, <2>6, StartsTransitive
  <2>8. QED
    BY <2>1, <2>3, <2>6, <2>7
<1>14. u7 \in Bytes /\ Len(u7) = 20 /\ Slice(u7, 16, 20) = destination
  BY <1>12, Zenon DEF Joined
<1>15. Slice(u7, 12, 16) = source
  BY <1>11, <1>13 DEF StartsWith, Joined
<1>16. u7[10] = protocol
  <2>1. Len(u4) = 10 /\ Len(u3) = 8
        /\ \A i \in 1 .. Len(<<128, protocol>>) : u4[Len(u3) + i] = <<128, protocol>>[i]
    BY <1>8, <1>9, Zenon DEF Joined
  <2>2. u4[8 + 2] = <<128, protocol>>[2]
    BY <1>4, <2>1
  <2>3. u7[10] = u4[10]
    BY <1>13, <2>1 DEF StartsWith
  <2>4. QED
    BY <1>4, <2>2, <2>3
<1>17. Slice(u7, 2, 4) = Bytes16(20 + n)
  BY <1>6, <1>13 DEF StartsWith, Joined
<1>18. u7[1] = 69
  BY <1>4, <1>13 DEF StartsWith
<1>19. QED
  BY <1>3, <1>14, <1>15, <1>16, <1>17, <1>18

\* k is data with other bytes of the identification and the checksum.
Completed(k, data) ==
  /\ k \in Bytes /\ Len(k) = Len(data)
  /\ \A i \in 1 .. Len(data) : i # 6 /\ i # 11 /\ i # 12 => k[i] = data[i]

\* What the kernel completes.
LEMMA KernelFacts ==
  ASSUME NEW data \in Bytes, Len(data) >= 20, NEW k, k = KernelCompletes(data)
  PROVE  Completed(k, data)
<1> DEFINE numbered == [data EXCEPT ![6] = 1]
           header == Slice(numbered, 0, 20)
           both == Bytes16(InternetChecksum(header))
<1>1. data \in Seq(Byte) /\ Len(data) \in Nat /\ DOMAIN data = 1 .. Len(data)
  BY DEF Bytes
<1>2. 1 \in Byte
  BY ByteFacts
<1>3. /\ numbered \in Seq(Byte) /\ Len(numbered) = Len(data)
      /\ \A i \in 1 .. Len(data) : i # 6 => numbered[i] = data[i]
  <2>1. 6 \in DOMAIN data
    BY <1>1
  <2>2. QED
    BY <1>1, <1>2, <2>1, ExceptFacts
<1>4. k = [[numbered EXCEPT ![11] = both[1]] EXCEPT ![12] = both[2]]
  BY DEF KernelCompletes
<1> HIDE DEF numbered
<1>5. header \in Seq(Byte) /\ Len(header) = 20
  <2>1. 0 \in Nat /\ 20 \in 0 .. Len(numbered) /\ 20 - 0 = 20
    BY <1>1, <1>3
  <2>2. QED
    BY <1>3, <2>1, SliceFacts
<1> HIDE DEF header
<1>6. InternetChecksum(header) \in Nat /\ InternetChecksum(header) < Word
  <2>1. Len(header) < Word
    BY <1>5 DEF Word
  <2>2. WordSum(header, {}) \in 0 .. Word * Word - 1
    BY <1>5, <2>1, WordSumFacts
  <2>3. FinalResult(WordSum(header, {})) \in 0 .. Word - 1
    BY <2>2, ChecksumIsOnesComplement
  <2>4. InternetChecksum(header) \in 0 .. Word - 1
    BY <2>3 DEF InternetChecksum
  <2>5. QED
    BY <2>4, WordSize
<1>7. both[1] \in Byte /\ both[2] \in Byte
  BY <1>6, NumberBytes, Zenon
<1> HIDE DEF both
<1> DEFINE j == [numbered EXCEPT ![11] = both[1]]
<1>8. /\ j \in Seq(Byte) /\ Len(j) = Len(data)
      /\ \A i \in 1 .. Len(data) : i # 11 => j[i] = numbered[i]
  <2>1. 11 \in DOMAIN numbered /\ DOMAIN numbered = 1 .. Len(data)
    BY <1>1, <1>3
  <2>2. QED
    BY <1>3, <1>7, <2>1, ExceptFacts
<1>9. k = [j EXCEPT ![12] = both[2]]
  BY <1>4
<1> HIDE DEF j
<1>10. /\ k \in Seq(Byte) /\ Len(k) = Len(data)
       /\ \A i \in 1 .. Len(data) : i # 12 => k[i] = j[i]
  <2>1. 12 \in DOMAIN j /\ DOMAIN j = 1 .. Len(data)
    BY <1>1, <1>8
  <2>2. QED
    BY <1>7, <1>8, <1>9, <2>1, ExceptFacts
<1>11. QED
  BY <1>3, <1>8, <1>10 DEF Bytes, Completed

\* The packet the program sends, and the one it gets back: a header of this host
\* that can be read, before the Hello.
LEMMA OwnHelloFacts ==
  /\ OwnHello # <<>>
  /\ LET ip == ParseIp(OwnHello) IN
     /\ Ok(ip) /\ ip.total_length = Len(OwnHello) /\ ip.source_address = LocalAddress
     /\ ip.destination_address = AllSpfRouters /\ ip.protocol = OspfProtocolNumber
     /\ Slice(OwnHello, 4 * ip.internet_header_length, Len(OwnHello))
          = HelloBytes(BuildHello(Answer))
<1> DEFINE w == HelloBytes(BuildHello(Answer))
           x == IpBytes(CHOOSE h \in BuildIp(LocalAddress, AllSpfRouters, OspfProtocolNumber,
                                             48, Unforced, 0, 0) : TRUE)
           data == x \o w
           k == KernelCompletes(data)
           ip == ParseIp(k)
<1>1. w \in Bytes /\ Len(w) = 48
  BY AnswerWords
<1>2. OwnHello = k
  BY <1>1, Zenon DEF OwnHello, Packet
<1> HIDE DEF w
<1>3. /\ x \in Bytes /\ Len(x) = 20 /\ x[1] = 69 /\ x[10] = OspfProtocolNumber
      /\ Slice(x, 2, 4) = Bytes16(20 + 48)
      /\ Slice(x, 12, 16) = LocalAddress /\ Slice(x, 16, 20) = AllSpfRouters
  <2>1. LocalAddress \in Address
    BY ExchangeAssumption DEF Address
  <2>2. AllSpfRouters \in Address
    <3>1. 224 \in Byte /\ 0 \in Byte /\ 5 \in Byte
      BY ByteFacts
    <3>2. QED
      BY <3>1, FourBytes DEF AllSpfRouters
  <2>3. OspfProtocolNumber \in Byte
    BY ByteFacts DEF OspfProtocolNumber
  <2>4. 48 \in Nat /\ 20 + 48 < Word
    BY DEF Word
  <2>5. x = IpBytes(CHOOSE h \in BuildIp(LocalAddress, AllSpfRouters, OspfProtocolNumber,
                                        48, Unforced, 0, 0) : TRUE)
    OBVIOUS
  <2> HIDE DEF x
  <2>6. QED
    BY <2>1, <2>2, <2>3, <2>4, <2>5, IpAsBytes
<1> HIDE DEF x
<1>4. Joined(data, x, w, 20, 68)
  <2>1. 20 + 48 = 68
    OBVIOUS
  <2>2. Len(x) + Len(w) = 68
    BY <1>1, <1>3, <2>1, Zenon
  <2>3. x \in Bytes /\ w \in Bytes /\ Len(x) = 20
    BY <1>1, <1>3
  <2> HIDE DEF k
  <2>4. Joined(x \o w, x, w, Len(x), Len(x) + Len(w))
    BY <2>3, Piece, Zenon
  <2>5. QED
    BY <2>2, <2>3, <2>4
<1> HIDE DEF data
<1>5. data \in Bytes /\ Len(data) = 68 /\ StartsWith(data, x) /\ Slice(data, 20, 68) = w
  BY <1>4, Zenon DEF Joined
<1>6. /\ k \in Bytes /\ Len(k) = 68
      /\ \A i \in 1 .. 68 : i # 6 /\ i # 11 /\ i # 12 => k[i] = data[i]
  <2>1. Len(data) >= 20
    BY <1>5
  <2>2. k = KernelCompletes(data)
    OBVIOUS
  <2> HIDE DEF k
  <2>3. Completed(k, data)
    BY <1>5, <2>1, <2>2, KernelFacts, Zenon
  <2>4. QED
    BY <1>5, <2>3 DEF Completed
<1> HIDE DEF k
<1>7. k[1] = 69 /\ k[10] = OspfProtocolNumber
  <2>1. data[1] = x[1] /\ data[10] = x[10]
    BY <1>3, <1>5 DEF StartsWith
  <2>2. QED
    BY <1>3, <1>6, <2>1
<1>8. /\ Slice(k, 2, 4) = Bytes16(68) /\ Slice(k, 12, 16) = LocalAddress
      /\ Slice(k, 16, 20) = AllSpfRouters /\ Slice(k, 20, 68) = w
  <2>1. \A to \in 0 .. 68 : \A from \in 0 .. to :
          (\A i \in from + 1 .. to : i # 6 /\ i # 11 /\ i # 12)
            => Slice(k, from, to) = Slice(data, from, to)
    <3> TAKE to \in 0 .. 68
    <3> TAKE from \in 0 .. to
    <3> HAVE \A i \in from + 1 .. to : i # 6 /\ i # 11 /\ i # 12
    <3>1. SameBetween(k, data, from, to)
      BY <1>6 DEF SameBetween
    <3>2. /\ to \in 0 .. Len(data) /\ Len(k) = Len(data)
          /\ k \in Bytes /\ data \in Bytes /\ from \in 0 .. to
      BY <1>5, <1>6
    <3>3. QED
      BY <3>1, <3>2, SlicesAgree
  <2>2. /\ Slice(k, 2, 4) = Slice(data, 2, 4) /\ Slice(k, 12, 16) = Slice(data, 12, 16)
        /\ Slice(k, 16, 20) = Slice(data, 16, 20) /\ Slice(k, 20, 68) = Slice(data, 20, 68)
    BY <2>1
  <2>3. /\ Slice(data, 2, 4) = Slice(x, 2, 4) /\ Slice(data, 12, 16) = Slice(x, 12, 16)
        /\ Slice(data, 16, 20) = Slice(x, 16, 20)
    BY <1>3, <1>5 DEF StartsWith
  <2>4. 20 + 48 = 68
    OBVIOUS
  <2>5. QED
    BY <1>3, <1>5, <2>2, <2>3, <2>4, Zenon
<1>9. ip = ReadIp(k)
  <2>1. ~ (Len(k) < 20) /\ k[1] % 16 = 5 /\ k[1] \div 16 = 4
    BY <1>6, <1>7
  <2>2. ~ (5 * 4 < 20) /\ ~ (5 * 4 > Len(k))
    BY <1>6
  <2>3. QED
    BY <2>1, <2>2, Zenon DEF ParseIp
<1> DEFINE r == ReadIp(k)
<1>10. /\ r.total_length = 68 /\ r.source_address = LocalAddress
       /\ r.destination_address = AllSpfRouters /\ r.protocol = OspfProtocolNumber
       /\ r.internet_header_length = 5 /\ Ok(r)
  <2>1. Number16(Slice(k, 2, 4)) = 68
    <3>1. 68 \in Nat /\ 68 < Word
      BY DEF Word
    <3>2. Number16(Bytes16(68)) = 68
      BY <3>1, NumberBytes
    <3>3. QED
      BY <1>8, <3>2, Zenon
  <2>2. k[1] % 16 = 5
    BY <1>7
  <2>3. /\ r.total_length = Number16(Slice(k, 2, 4)) /\ r.source_address = Slice(k, 12, 16)
        /\ r.destination_address = Slice(k, 16, 20) /\ r.protocol = k[10]
        /\ r.internet_header_length = k[1] % 16
    BY DEF ReadIp
  <2>4. Ok(r)
    BY DEF ReadIp, Ok
  <2> HIDE DEF r
  <2>5. QED
    BY <1>7, <1>8, <2>1, <2>2, <2>3, <2>4
<1> HIDE DEF r
<1>11. ip = r
  BY <1>9 DEF r
<1> HIDE DEF ip
<1>12. Slice(k, 4 * ip.internet_header_length, Len(k)) = w
  <2>1. 4 * 5 = 20
    OBVIOUS
  <2>2. QED
    BY <1>6, <1>8, <1>10, <1>11, <2>1
<1>13. k # <<>>
  <2>1. Len(k) = 68 /\ Len(<<>>) = 0 /\ 68 # 0
    BY <1>6
  <2>2. QED
    BY <2>1, Zenon
<1>14. ParseIp(OwnHello) = ip
  BY <1>2 DEF ip
<1>15. QED
  BY <1>2, <1>6, <1>10, <1>11, <1>12, <1>13, <1>14 DEF w

\* A packet of this host is not answered.
LEMMA OwnIsNotForeign == ~ IsForeign(ParseIp(OwnHello))
BY OwnHelloFacts DEF IsForeign

\* What the program sends is understood.
LEMMA OwnIsUnderstood == wire \in {<<>>, OwnHello} => AnswerUnderstood
<1> DEFINE ip == ParseIp(OwnHello)
           hello == ParseHello(Slice(OwnHello, 4 * ip.internet_header_length, Len(OwnHello)))
<1>1. hello = BuildHello(Answer)
  BY OwnHelloFacts, AnswerIsRead
<1>2. /\ Ok(hello) /\ \A n \in DOMAIN hello \ {"header"} : hello[n] = Answer[n]
      /\ hello.header.router_id = Answer.router_id
  BY <1>1, AnswerIsRead
<1>3. /\ Ok(ip) /\ ip.total_length = Len(OwnHello) /\ ip.source_address = LocalAddress
      /\ ip.destination_address = AllSpfRouters /\ ip.protocol = OspfProtocolNumber
  BY OwnHelloFacts
<1>4. CASE wire = OwnHello
  BY <1>2, <1>3, <1>4 DEF AnswerUnderstood
<1>5. CASE wire = <<>>
  BY <1>5 DEF AnswerUnderstood
<1>6. QED
  BY <1>4, <1>5

-----------------------------------------------------------------------------
(* The inductive invariant. *)

\* Packets in the socket or in the channel.
Packets == [id : Nat, data : {OwnHello} \cup {NeighbourPacket(source) : source \in Neighbours}]

Arrivals == [via : Devices, source : Neighbours, during : Stages, fate : Fates]

\* What waits in q: of the packets in a, each once and not settled yet; and Hellos
\* of the program.
Holds(q, a) ==
  /\ q \in Seq(Packets)
  /\ \A i \in 1 .. Len(q) :
       /\ q[i].id = OwnPacket => q[i].data = OwnHello
       /\ q[i].id # OwnPacket =>
            /\ q[i].id \in 1 .. Len(a) /\ a[q[i].id].fate = "waiting"
            /\ \A j \in 1 .. Len(q) : q[j].id = q[i].id => j = i

\* No packet waits in both.
Apart(q, r) ==
  \A i \in 1 .. Len(q) : \A j \in 1 .. Len(r) : q[i].id = r[j].id => q[i].id = OwnPacket

Queues ==
  /\ arrived \in Seq(Arrivals)
  /\ Holds(buffer, arrived) /\ Holds(channel, arrived) /\ Apart(buffer, channel)
  /\ Len(channel) <= Capacity

\* Nothing reads the socket before the handler is in place.
Polled == polling \in BOOLEAN /\ woken \in BOOLEAN /\ (woken => stage = "connected")

\* How far connecting is tells whose packets the socket receives.
Connected ==
  /\ wanted \in Names /\ stage \in Stages /\ device \in Devices \cup {Unlinked}
  /\ hears \subseteq Devices /\ present \in [devices : SUBSET Devices, removals : Nat]
  /\ Polled
  /\ stage \in {"asked", "listed", "failed"} => hears = {}
  /\ stage \in {"listed", "open", "joined", "bound", "connected"} => device \in DeviceOf(wanted)
  /\ stage \in {"bound", "connected"} => hears \subseteq {device} \/ device = Unlinked

Invariant == Queues /\ Connected /\ NoStorm /\ OwnDeviceOnly /\ wire \in {<<>>, OwnHello}

-----------------------------------------------------------------------------
(* What waits. *)

\* r is q without its k-th element.
Without(r, q, k) ==
  /\ r \in Seq(Packets) /\ Len(r) = Len(q) - 1
  /\ \A i \in 1 .. Len(r) : r[i] = q[IF i < k THEN i ELSE i + 1]

\* RemoveAt takes one out,
LEMMA RemoveIsWithout ==
  ASSUME NEW q \in Seq(Packets), NEW k \in 1 .. Len(q)
  PROVE  Without(RemoveAt(q, k), q, k)
<1> DEFINE r == RemoveAt(q, k)
<1>1. /\ r \in Seq(Packets) /\ Len(r) = Len(q) - 1
      /\ \A p \in 1 .. k - 1 : r[p] = q[p]
      /\ \A p \in k .. Len(q) - 1 : r[p] = q[p + 1]
  BY RemoveAtFacts
<1> HIDE DEF r
<1>2. Len(q) \in Nat
  OBVIOUS
<1>3. ASSUME NEW i \in 1 .. Len(r) PROVE r[i] = q[IF i < k THEN i ELSE i + 1]
  <2>1. CASE i < k
    <3>1. i \in 1 .. k - 1
      BY <1>2, <2>1
    <3>2. QED
      BY <1>1, <2>1, <3>1
  <2>2. CASE ~ (i < k)
    <3>1. i \in k .. Len(q) - 1
      BY <1>1, <1>2, <2>2
    <3>2. QED
      BY <1>1, <2>2, <3>1
  <2>3. QED
    BY <2>1, <2>2
<1>4. Without(r, q, k)
  BY <1>1, <1>3 DEF Without
<1>5. QED
  BY <1>4 DEF r

\* and so does Tail.
LEMMA TailIsWithout ==
  ASSUME NEW q \in Seq(Packets), q # <<>>
  PROVE  Without(Tail(q), q, 1) /\ Head(q) = q[1] /\ 1 \in 1 .. Len(q)
<1>1. /\ Len(q) \in Nat /\ Len(q) >= 1 /\ Head(q) = q[1]
      /\ Tail(q) \in Seq(Packets) /\ Len(Tail(q)) = Len(q) - 1
      /\ \A p \in 1 .. Len(Tail(q)) : Tail(q)[p] = q[p + 1]
  BY HeadTailFacts
<1> DEFINE r == Tail(q)
<1> HIDE DEF r
<1>2. \A i \in 1 .. Len(r) : r[i] = q[IF i < 1 THEN i ELSE i + 1]
  <2>1. \A i \in 1 .. Len(r) : ~ (i < 1)
    OBVIOUS
  <2>2. QED
    BY <1>1, <2>1 DEF r
<1>3. QED
  BY <1>1, <1>2 DEF Without, r

\* The others still wait, and the one taken out does not wait any more.
LEMMA WithoutHolds ==
  ASSUME NEW q, NEW r, NEW a, NEW k \in 1 .. Len(q), Holds(q, a), Without(r, q, k)
  PROVE  /\ Holds(r, a)
         /\ q[k].id # OwnPacket => \A i \in 1 .. Len(r) : r[i].id # q[k].id
         /\ \A t : Apart(q, t) => Apart(r, t)
         /\ \A t : Apart(t, q) => Apart(t, r)
<1>1. q \in Seq(Packets) /\ r \in Seq(Packets) /\ Len(q) \in Nat /\ Len(r) \in Nat
      /\ Len(r) = Len(q) - 1 /\ k \in Nat /\ 1 <= k /\ k <= Len(q)
  BY DEF Holds, Without
<1> DEFINE f(i) == IF i < k THEN i ELSE i + 1
<1>2. \A i \in 1 .. Len(r) : f(i) \in 1 .. Len(q) /\ f(i) # k /\ r[i] = q[f(i)]
  <2>1. \A i \in 1 .. Len(r) : f(i) \in 1 .. Len(q) /\ f(i) # k
    BY <1>1
  <2>2. QED
    BY <2>1, Zenon DEF Without
<1>3. \A i, j \in 1 .. Len(r) : f(i) = f(j) => i = j
  BY <1>1
<1> HIDE DEF f
<1>4. Holds(r, a)
  <2>1. ASSUME NEW i \in 1 .. Len(r)
        PROVE  /\ r[i].id = OwnPacket => r[i].data = OwnHello
               /\ r[i].id # OwnPacket =>
                    /\ r[i].id \in 1 .. Len(a) /\ a[r[i].id].fate = "waiting"
                    /\ \A j \in 1 .. Len(r) : r[j].id = r[i].id => j = i
    <3>1. f(i) \in 1 .. Len(q) /\ r[i] = q[f(i)]
      BY <1>2
    <3>2. /\ r[i].id = OwnPacket => r[i].data = OwnHello
          /\ r[i].id # OwnPacket => r[i].id \in 1 .. Len(a) /\ a[r[i].id].fate = "waiting"
      BY <3>1, Zenon DEF Holds
    <3>3. ASSUME r[i].id # OwnPacket, NEW j \in 1 .. Len(r), r[j].id = r[i].id PROVE j = i
      <4>1. f(j) \in 1 .. Len(q) /\ r[j] = q[f(j)]
        BY <1>2
      <4>2. f(j) = f(i)
        BY <3>1, <3>3, <4>1, Zenon DEF Holds
      <4>3. QED
        BY <1>3, <4>2
    <3>4. QED
      BY <3>2, <3>3, Zenon
  <2>2. QED
    BY <1>1, <2>1 DEF Holds
<1>5. ASSUME q[k].id # OwnPacket, NEW i \in 1 .. Len(r) PROVE r[i].id # q[k].id
  <2>1. f(i) \in 1 .. Len(q) /\ f(i) # k /\ r[i] = q[f(i)]
    BY <1>2
  <2>2. q[f(i)].id = q[k].id => f(i) = k
    BY <1>5, <2>1, Zenon DEF Holds
  <2>3. QED
    BY <2>1, <2>2
<1>6. ASSUME NEW t, Apart(q, t) PROVE Apart(r, t)
  BY <1>2, <1>6, Zenon DEF Apart
<1>7. ASSUME NEW t, Apart(t, q) PROVE Apart(t, r)
  BY <1>2, <1>7, Zenon DEF Apart
<1>8. QED
  BY <1>4, <1>5, <1>6, <1>7, Zenon

\* What settling a packet changes.
Settled(b, a, id, fate) ==
  /\ b \in Seq(Arrivals) /\ Len(b) = Len(a)
  /\ \A i \in 1 .. Len(a) :
       /\ b[i].via = a[i].via /\ b[i].during = a[i].during
       /\ b[i].fate = IF i = id THEN fate ELSE a[i].fate

\* Settle does that, and to a Hello of the program nothing.
LEMMA SettleSettles ==
  ASSUME NEW id \in 0 .. Len(arrived), arrived \in Seq(Arrivals), NEW fate \in Fates,
         Settle(id, fate)
  PROVE  Settled(arrived', arrived, id, fate)
<1>1. DOMAIN arrived = 1 .. Len(arrived) /\ Len(arrived) \in Nat
      /\ \A i \in 1 .. Len(arrived) : arrived[i] \in Arrivals
  OBVIOUS
<1>2. CASE id = OwnPacket
  <2>1. arrived' = arrived
    BY <1>2 DEF Settle
  <2>2. \A i \in 1 .. Len(arrived) : i # id
    BY <1>2 DEF OwnPacket
  <2>3. QED
    BY <2>1, <2>2 DEF Settled
<1>3. CASE id # OwnPacket
  <2>1. id \in DOMAIN arrived
    BY <1>1, <1>3 DEF OwnPacket
  <2> DEFINE x == [arrived[id] EXCEPT !.fate = fate]
  <2>2. arrived' = [arrived EXCEPT ![id] = x]
    BY <1>3 DEF Settle
  <2>3. /\ x \in Arrivals /\ x.via = arrived[id].via /\ x.during = arrived[id].during
        /\ x.fate = fate
    BY <1>1, <2>1 DEF Arrivals
  <2> HIDE DEF x
  <2>4. /\ arrived' \in Seq(Arrivals) /\ Len(arrived') = Len(arrived)
        /\ \A i \in DOMAIN arrived : arrived'[i] = IF i = id THEN x ELSE arrived[i]
    BY <2>1, <2>2, <2>3, ExceptFacts
  <2>5. QED
    BY <1>1, <2>3, <2>4 DEF Settled
<1>4. QED
  BY <1>2, <1>3

\* What waits elsewhere waits after it.
LEMMA SettledHolds ==
  ASSUME NEW q, NEW a, NEW b, NEW id, NEW fate, Holds(q, a), Settled(b, a, id, fate),
         id # OwnPacket => \A i \in 1 .. Len(q) : q[i].id # id
  PROVE  Holds(q, b)
<1>1. ASSUME NEW i \in 1 .. Len(q), q[i].id # OwnPacket
      PROVE  q[i].id \in 1 .. Len(b) /\ b[q[i].id].fate = "waiting"
  <2>1. q[i].id \in 1 .. Len(a) /\ a[q[i].id].fate = "waiting"
    BY <1>1, Zenon DEF Holds
  <2>2. q[i].id # id
    BY <1>1
  <2>3. QED
    BY <2>1, <2>2, Zenon DEF Settled
<1>2. QED
  BY <1>1, Zenon DEF Holds

\* The packets of one fate, after another has been settled.
LEMMA SettledWith ==
  ASSUME NEW id \in 0 .. Len(arrived), arrived \in Seq(Arrivals), NEW fate \in Fates,
         Settled(arrived', arrived, id, fate), fate # "waiting",
         id # OwnPacket => arrived[id].fate = "waiting"
  PROVE  /\ IsFiniteSet(With("answered")) /\ Cardinality(With("answered")) \in Nat
         /\ fate # "answered" => With("answered")' = With("answered")
         /\ fate = "answered" /\ id # OwnPacket =>
              Cardinality(With("answered")') = Cardinality(With("answered")) + 1
<1>1. /\ Len(arrived) \in Nat /\ DOMAIN arrived = 1 .. Len(arrived)
      /\ DOMAIN arrived' = 1 .. Len(arrived)
      /\ \A i \in 1 .. Len(arrived) :
           arrived'[i].fate = IF i = id THEN fate ELSE arrived[i].fate
  BY DEF Settled
<1>2. IsFiniteSet(With("answered")) /\ Cardinality(With("answered")) \in Nat
  <2>1. IsFiniteSet(1 .. Len(arrived))
    <3>1. \A n \in Nat : IsFiniteSet(1 .. n)
      BY FS_Interval
    <3>2. QED
      BY <1>1, <3>1, Zenon
  <2>2. With("answered") \subseteq 1 .. Len(arrived)
    BY <1>1 DEF With
  <2>3. QED
    BY <2>1, <2>2, FS_Subset, FS_CardinalityType
<1>3. ASSUME fate # "answered" PROVE With("answered")' = With("answered")
  <2>1. \A i \in 1 .. Len(arrived) :
          arrived'[i].fate = "answered" <=> arrived[i].fate = "answered"
    <3> TAKE i \in 1 .. Len(arrived)
    <3>1. CASE i = id
      <4>1. id # OwnPacket
        BY <3>1 DEF OwnPacket
      <4>2. QED
        BY <1>1, <1>3, <3>1, <4>1
    <3>2. CASE i # id
      BY <1>1, <3>2
    <3>3. QED
      BY <3>1, <3>2
  <2>2. QED
    BY <1>1, <2>1 DEF With
<1>4. ASSUME fate = "answered", id # OwnPacket
      PROVE  Cardinality(With("answered")') = Cardinality(With("answered")) + 1
  <2>1. id \in 1 .. Len(arrived)
    BY <1>1, <1>4 DEF OwnPacket
  <2>2. id \notin With("answered")
    BY <1>4 DEF With
  <2>3. With("answered")' = With("answered") \cup {id}
    BY <1>1, <1>4, <2>1 DEF With
  <2>4. QED
    BY <1>2, <2>2, <2>3, FS_AddElement
<1>5. QED
  BY <1>2, <1>3, <1>4

\* One packet more waits.
LEMMA AppendHolds ==
  ASSUME NEW q, NEW a, NEW x \in Packets, Holds(q, a),
         x.id = OwnPacket => x.data = OwnHello,
         x.id # OwnPacket => /\ x.id \in 1 .. Len(a) /\ a[x.id].fate = "waiting"
                             /\ \A i \in 1 .. Len(q) : q[i].id # x.id
  PROVE  Holds(Append(q, x), a)
<1> DEFINE r == Append(q, x)
<1>1. /\ q \in Seq(Packets) /\ Len(q) \in Nat /\ r \in Seq(Packets) /\ Len(r) = Len(q) + 1
      /\ \A i \in 1 .. Len(q) : r[i] = q[i]
      /\ r[Len(q) + 1] = x
  <2>1. q \in Seq(Packets)
    BY DEF Holds
  <2>2. QED
    BY <2>1, AppendFacts
<1> HIDE DEF r
<1>2. \A i \in 1 .. Len(r) : (i \in 1 .. Len(q) /\ r[i] = q[i]) \/ (i = Len(q) + 1 /\ r[i] = x)
  BY <1>1
<1>3. ASSUME NEW i \in 1 .. Len(r)
      PROVE  /\ r[i].id = OwnPacket => r[i].data = OwnHello
             /\ r[i].id # OwnPacket =>
                  /\ r[i].id \in 1 .. Len(a) /\ a[r[i].id].fate = "waiting"
                  /\ \A j \in 1 .. Len(r) : r[j].id = r[i].id => j = i
  <2>1. CASE i \in 1 .. Len(q) /\ r[i] = q[i]
    <3>1. /\ q[i].id = OwnPacket => q[i].data = OwnHello
          /\ q[i].id # OwnPacket => q[i].id \in 1 .. Len(a) /\ a[q[i].id].fate = "waiting"
      BY <2>1, Zenon DEF Holds
    <3>2. ASSUME q[i].id # OwnPacket, NEW j \in 1 .. Len(r), r[j].id = q[i].id PROVE j = i
      <4>1. CASE j \in 1 .. Len(q) /\ r[j] = q[j]
        BY <2>1, <3>2, <4>1, Zenon DEF Holds
      <4>2. CASE j = Len(q) + 1 /\ r[j] = x
        <5>1. x.id # OwnPacket /\ x.id = q[i].id
          BY <3>2, <4>2
        <5>2. QED
          BY <2>1, <5>1
      <4>3. QED
        BY <1>2, <4>1, <4>2
    <3>3. QED
      BY <2>1, <3>1, <3>2, Zenon
  <2>2. CASE i = Len(q) + 1 /\ r[i] = x
    <3>1. ASSUME x.id # OwnPacket, NEW j \in 1 .. Len(r), r[j].id = x.id PROVE j = i
      BY <1>2, <2>2, <3>1
    <3>2. QED
      BY <2>2, <3>1
  <2>3. QED
    BY <1>2, <2>1, <2>2
<1>4. Holds(r, a)
  BY <1>1, <1>3 DEF Holds
<1>5. QED
  BY <1>4 DEF r

\* Two queues stay apart when one gets what is not in the other.
LEMMA AppendApart ==
  ASSUME NEW q \in Seq(Packets), NEW t \in Seq(Packets), NEW x \in Packets,
         x.id # OwnPacket => \A i \in 1 .. Len(t) : t[i].id # x.id
  PROVE  /\ Apart(q, t) => Apart(Append(q, x), t)
         /\ Apart(t, q) => Apart(t, Append(q, x))
<1> DEFINE r == Append(q, x)
<1>1. \A i \in 1 .. Len(r) : (i \in 1 .. Len(q) /\ r[i] = q[i]) \/ r[i] = x
  <2>1. /\ Len(q) \in Nat /\ Len(r) = Len(q) + 1 /\ \A i \in 1 .. Len(q) : r[i] = q[i]
        /\ r[Len(q) + 1] = x
    BY AppendFacts
  <2> HIDE DEF r
  <2>2. QED
    BY <2>1
<1> HIDE DEF r
<1>2. ASSUME Apart(q, t) PROVE Apart(r, t)
  <2> SUFFICES ASSUME NEW i \in 1 .. Len(r), NEW j \in 1 .. Len(t), r[i].id = t[j].id
               PROVE  r[i].id = OwnPacket
    BY DEF Apart
  <2>1. CASE i \in 1 .. Len(q) /\ r[i] = q[i]
    BY <1>2, <2>1 DEF Apart
  <2>2. CASE r[i] = x
    BY <2>2
  <2>3. QED
    BY <1>1, <2>1, <2>2
<1>3. ASSUME Apart(t, q) PROVE Apart(t, r)
  <2> SUFFICES ASSUME NEW i \in 1 .. Len(t), NEW j \in 1 .. Len(r), t[i].id = r[j].id
               PROVE  t[i].id = OwnPacket
    BY DEF Apart
  <2>1. CASE j \in 1 .. Len(q) /\ r[j] = q[j]
    BY <1>3, <2>1 DEF Apart
  <2>2. CASE r[j] = x
    BY <2>2
  <2>3. QED
    BY <1>1, <2>1, <2>2
<1>4. QED
  BY <1>2, <1>3 DEF r

\* Settling a packet does not change where it has come from.
LEMMA SettledOwnDevice ==
  ASSUME NEW id, NEW fate, arrived \in Seq(Arrivals), Settled(arrived', arrived, id, fate),
         OwnDeviceOnly, UNCHANGED wanted
  PROVE  OwnDeviceOnly'
<1>1. /\ DOMAIN arrived' = 1 .. Len(arrived) /\ DOMAIN arrived = 1 .. Len(arrived)
      /\ \A i \in 1 .. Len(arrived) :
           arrived'[i].via = arrived[i].via /\ arrived'[i].during = arrived[i].during
  BY DEF Settled
<1>2. QED
  BY <1>1 DEF OwnDeviceOnly

-----------------------------------------------------------------------------
(* The steps. *)

\* Connecting starts with nothing heard and nothing received.
LEMMA InvariantInit ==
  ASSUME Init
  PROVE  Invariant
<1>1. Queues
  <2>1. arrived \in Seq(Arrivals) /\ <<>> \in Seq(Packets) /\ Len(<<>>) = 0
    BY DEF Init
  <2>2. Holds(<<>>, arrived)
    BY <2>1 DEF Holds
  <2>3. Apart(<<>>, <<>>)
    BY <2>1 DEF Apart
  <2>4. Len(channel) <= Capacity
    BY ExchangeAssumption DEF Init
  <2>5. QED
    BY <2>1, <2>2, <2>3, <2>4 DEF Init, Queues
<1>2. Connected
  BY ExchangeAssumption DEF Init, Connected, Polled, Stages
<1>3. NoStorm
  <2>1. With("answered") = {}
    BY DEF Init, With
  <2>2. QED
    BY <2>1, FS_EmptySet DEF Init, NoStorm
<1>4. OwnDeviceOnly
  BY DEF Init, OwnDeviceOnly
<1>5. QED
  BY <1>1, <1>2, <1>3, <1>4 DEF Init, Invariant

\* A step of Connect.
LEMMA InvariantConnect ==
  ASSUME Invariant, Connect
  PROVE  Invariant'
<1>1. UNCHANGED <<wanted, present, channel, arrived, hellos, wire>>
  BY DEF Connect, FindDevice, OpenSocket, JoinGroups, BindToDevice, AddItem, ConnectFails
<1>2. Queues'
  <2>1. CASE UNCHANGED buffer
    BY <1>1, <2>1, Zenon DEF Invariant, Queues
  <2>2. CASE buffer' = <<>>
    <3>1. <<>> \in Seq(Packets) /\ Len(<<>>) = 0
      OBVIOUS
    <3>2. Holds(<<>>, arrived) /\ Apart(<<>>, channel)
      BY <3>1 DEF Holds, Apart
    <3>3. QED
      BY <1>1, <2>2, <3>2, Zenon DEF Invariant, Queues
  <2>3. QED
    BY <2>1, <2>2
    DEF Connect, FindDevice, OpenSocket, JoinGroups, BindToDevice, AddItem, ConnectFails
<1>3. Connected'
  <2>1. CASE FindDevice
    <3>1. device' \in Devices \cup {Unlinked}
      BY <2>1, ExchangeAssumption DEF FindDevice, DeviceOf
    <3>2. QED
      BY <2>1, <3>1 DEF FindDevice, Reach, Invariant, Connected, Polled, Stages, DeviceOf, pollerVars
  <2>2. CASE OpenSocket
    BY <2>2 DEF OpenSocket, Reach, Invariant, Connected, Polled, Stages, DeviceOf, pollerVars
  <2>3. CASE JoinGroups
    BY <2>3 DEF JoinGroups, Reach, Invariant, Connected, Polled, Stages, DeviceOf, pollerVars
  <2>4. CASE BindToDevice
    BY <2>4 DEF BindToDevice, Reach, Invariant, Connected, Polled, Stages, DeviceOf, pollerVars
  <2>5. CASE AddItem
    BY <2>5 DEF AddItem, Reach, Invariant, Connected, Polled, Stages, DeviceOf
  <2>6. CASE ConnectFails
    BY <2>6 DEF ConnectFails, Invariant, Connected, Polled, Stages, DeviceOf, pollerVars
  <2>7. QED
    BY <2>1, <2>2, <2>3, <2>4, <2>5, <2>6 DEF Connect
<1>4. NoStorm' /\ OwnDeviceOnly'
  BY <1>1 DEF Invariant, NoStorm, With, OwnDeviceOnly
<1>5. QED
  BY <1>1, <1>2, <1>3, <1>4 DEF Invariant

\* A packet of a neighbour arrives: on the interface's device if it has one and is
\* bound to it.
LEMMA InvariantArrive ==
  ASSUME Invariant, NEW d \in Devices, NEW source \in Neighbours, Arrive(d, source)
  PROVE  Invariant'
<1> DEFINE x == [id |-> Len(arrived) + 1, data |-> NeighbourPacket(source)]
           y == [via |-> d, source |-> source, during |-> stage,
                 fate |-> "waiting"]
           n == Len(arrived)
<1>1. /\ buffer' = Append(buffer, x) /\ arrived' = Append(arrived, y) /\ d \in hears
      /\ woken' = (woken \/ (polling /\ stage = "connected"))
      /\ UNCHANGED <<wanted, stage, device, hears, present, polling, channel, hellos, wire>>
  BY DEF Arrive, Comes
<1>2. arrived \in Seq(Arrivals) /\ n \in Nat
  BY DEF Invariant, Queues
<1>3. x \in Packets /\ x.id = n + 1 /\ x.id # OwnPacket
  <2>1. NeighbourPacket(source) \in {NeighbourPacket(s) : s \in Neighbours}
    OBVIOUS
  <2> HIDE DEF n
  <2>2. QED
    BY <1>2, <2>1 DEF Packets, OwnPacket, n
<1>4. y \in Arrivals /\ y.fate = "waiting" /\ y.via = d /\ y.during = stage
  BY DEF Arrivals, Fates, Invariant, Connected
<1> HIDE DEF x, y
<1>5. /\ arrived' \in Seq(Arrivals) /\ Len(arrived') = n + 1
      /\ DOMAIN arrived' = 1 .. n + 1 /\ DOMAIN arrived = 1 .. n
      /\ \A i \in 1 .. n : arrived'[i] = arrived[i]
      /\ arrived'[n + 1] = y
  BY <1>1, <1>2, <1>4, AppendFacts
<1>6. \A q : Holds(q, arrived) => Holds(q, arrived') /\ \A i \in 1 .. Len(q) : q[i].id # n + 1
  <2> TAKE q
  <2> HAVE Holds(q, arrived)
  <2>1. ASSUME NEW i \in 1 .. Len(q), q[i].id # OwnPacket
        PROVE  q[i].id \in 1 .. Len(arrived') /\ arrived'[q[i].id].fate = "waiting"
    <3>1. q[i].id \in 1 .. n /\ arrived[q[i].id].fate = "waiting"
      BY <2>1, Zenon DEF Holds
    <3> HIDE DEF n
    <3>2. QED
      BY <1>2, <1>5, <3>1
  <2>2. Holds(q, arrived')
    BY <2>1, Zenon DEF Holds
  <2>3. ASSUME NEW i \in 1 .. Len(q) PROVE q[i].id # n + 1
    <3>1. q[i].id = OwnPacket \/ q[i].id \in 1 .. n
      BY Zenon DEF Holds
    <3> HIDE DEF n
    <3>2. QED
      BY <1>2, <3>1 DEF OwnPacket
  <2>4. QED
    BY <2>2, <2>3
<1>7. Queues'
  <2>1. /\ Holds(buffer, arrived) /\ Holds(channel, arrived) /\ Apart(buffer, channel)
        /\ Len(channel) <= Capacity
    BY DEF Invariant, Queues
  <2>2. /\ Holds(buffer, arrived') /\ \A i \in 1 .. Len(buffer) : buffer[i].id # n + 1
        /\ Holds(channel, arrived') /\ \A i \in 1 .. Len(channel) : channel[i].id # n + 1
    BY <1>6, <2>1
  <2>3. n + 1 \in 1 .. Len(arrived') /\ arrived'[n + 1].fate = "waiting"
    <3> HIDE DEF n
    <3> QED BY <1>2, <1>4, <1>5
  <2> HIDE DEF n
  <2>4. Holds(Append(buffer, x), arrived')
    BY <1>3, <2>2, <2>3, AppendHolds
  <2>5. Apart(Append(buffer, x), channel)
    <3>1. buffer \in Seq(Packets) /\ channel \in Seq(Packets)
      BY <2>1 DEF Holds
    <3>2. QED
      BY <1>3, <2>1, <2>2, <3>1, AppendApart
  <2>6. QED
    BY <1>1, <1>5, <2>1, <2>2, <2>4, <2>5 DEF Queues
<1>8. Connected'
  BY <1>1 DEF Invariant, Connected, Polled, DeviceOf
<1>9. NoStorm'
  <2>1. With("answered")' = With("answered")
    <3> HIDE DEF n
    <3> QED BY <1>2, <1>4, <1>5 DEF With
  <2>2. QED
    BY <1>1, <2>1 DEF Invariant, NoStorm
<1>10. OwnDeviceOnly'
  <2>1. \A i \in 1 .. n :
          \/ arrived[i].during \in {"open", "joined"}
          \/ \E entry \in Listing :
               entry.name = wanted /\ entry.device \in {arrived[i].via, Unlinked}
    BY <1>5 DEF Invariant, OwnDeviceOnly
  <2>2. \/ y.during \in {"open", "joined"}
        \/ \E entry \in Listing : entry.name = wanted /\ entry.device \in {y.via, Unlinked}
    <3>1. CASE stage \in {"open", "joined"}
      BY <1>4, <3>1
    <3>2. CASE stage \notin {"open", "joined"}
      <4>1. stage \in {"bound", "connected"}
        BY <1>1, <3>2 DEF Invariant, Connected, Stages
      <4>2. device \in DeviceOf(wanted) /\ (d = device \/ device = Unlinked)
        BY <1>1, <4>1 DEF Invariant, Connected
      <4>3. PICK entry \in Listing : entry.name = wanted /\ entry.device = device
        BY <4>2 DEF DeviceOf
      <4>4. QED
        BY <1>4, <4>2, <4>3
    <3>3. QED
      BY <3>1, <3>2
  <2> HIDE DEF n
  <2>3. \A i \in 1 .. n + 1 : i \in 1 .. n \/ i = n + 1
    BY <1>2
  <2>4. ASSUME NEW i \in DOMAIN arrived'
        PROVE  \/ arrived'[i].during \in {"open", "joined"}
               \/ \E entry \in Listing :
                    entry.name = wanted' /\ entry.device \in {arrived'[i].via, Unlinked}
    <3>1. CASE i \in 1 .. n
      BY <1>1, <1>5, <2>1, <3>1
    <3>2. CASE i = n + 1
      BY <1>1, <1>5, <2>2, <3>2
    <3>3. QED
      BY <1>5, <2>3, <2>4, <3>1, <3>2
  <2>5. QED
    BY <2>4 DEF OwnDeviceOnly
<1>11. QED
  BY <1>1, <1>7, <1>8, <1>9, <1>10 DEF Invariant

\* Devices that come and go.
LEMMA InvariantDevices ==
  ASSUME Invariant, NEW d \in Devices, DeviceGoes(d) \/ DeviceComes(d)
  PROVE  Invariant'
<1>1. UNCHANGED <<wanted, stage, device, buffer, polling, woken, channel, arrived,
                  hellos, wire>>
  BY DEF DeviceGoes, DeviceComes, pollerVars
<1>2. Queues'
  BY <1>1, Zenon DEF Invariant, Queues
<1>3. Connected'
  <2>1. hears' \subseteq hears
    BY DEF DeviceGoes, DeviceComes
  <2>2. present' \in [devices : SUBSET Devices, removals : Nat]
    BY DEF DeviceGoes, DeviceComes, Invariant, Connected
  <2>3. QED
    BY <1>1, <2>1, <2>2 DEF Invariant, Connected, Polled, DeviceOf
<1>4. NoStorm' /\ OwnDeviceOnly'
  BY <1>1 DEF Invariant, NoStorm, With, OwnDeviceOnly
<1>5. QED
  BY <1>1, <1>2, <1>3, <1>4 DEF Invariant

\* The poller thread ends, or the tasks that read.
LEMMA InvariantPoller ==
  ASSUME Invariant, PollerEnds \/ SocketEmpty
  PROVE  Invariant'
<1>1. UNCHANGED <<wanted, stage, device, hears, present, buffer, channel, arrived, hellos,
                  wire>>
  BY DEF PollerEnds, SocketEmpty
<1>2. Queues'
  BY <1>1, Zenon DEF Invariant, Queues
<1>3. Connected'
  <2>1. polling \in BOOLEAN /\ woken \in BOOLEAN /\ (woken => stage = "connected")
    BY DEF Invariant, Connected, Polled
  <2>2. polling' \in BOOLEAN /\ woken' \in {woken, FALSE}
    <3>1. CASE PollerEnds
      BY <3>1 DEF PollerEnds
    <3>2. CASE SocketEmpty
      BY <2>1, <3>2 DEF SocketEmpty
    <3>3. QED
      BY <3>1, <3>2
  <2>3. Polled'
    <3>1. CASE woken' = FALSE
      <4>1. woken' \in BOOLEAN /\ ~woken'
        BY <3>1
      <4>2. QED
        BY <2>2, <4>1, Zenon DEF Polled
    <3>2. CASE woken' = woken
      <4>1. woken' \in BOOLEAN
        BY <2>1, <3>2
      <4>2. woken' => stage' = "connected"
        BY <1>1, <2>1, <3>2, Zenon
      <4>3. QED
        BY <2>2, <4>1, <4>2, Zenon DEF Polled
    <3>3. QED
      BY <2>2, <3>1, <3>2
  <2>4. QED
    BY <1>1, <2>3 DEF Invariant, Connected, DeviceOf
<1>4. NoStorm' /\ OwnDeviceOnly'
  BY <1>1 DEF Invariant, NoStorm, With, OwnDeviceOnly
<1>5. QED
  BY <1>1, <1>2, <1>3, <1>4 DEF Invariant

\* A packet goes from the socket into the channel, or is dropped for want of room.
LEMMA InvariantRecv ==
  ASSUME Invariant, NEW p \in DOMAIN buffer, OnRecv(p)
  PROVE  Invariant'
<1> DEFINE x == buffer[p]
<1>1. /\ buffer' = RemoveAt(buffer, p)
      /\ UNCHANGED <<wanted, stage, device, hears, present, pollerVars, hellos, wire>>
  BY DEF OnRecv
<1>2. /\ arrived \in Seq(Arrivals)
      /\ Holds(buffer, arrived) /\ Holds(channel, arrived) /\ Apart(buffer, channel)
      /\ Len(channel) <= Capacity
  BY DEF Invariant, Queues
<1>3. buffer \in Seq(Packets) /\ channel \in Seq(Packets) /\ p \in 1 .. Len(buffer)
      /\ Len(channel) \in Nat
  BY <1>2 DEF Holds
<1>4. /\ x \in Packets /\ x.id \in Nat
      /\ x.id = OwnPacket => x.data = OwnHello
      /\ x.id # OwnPacket => x.id \in 1 .. Len(arrived) /\ arrived[x.id].fate = "waiting"
  <2>0. x \in Packets
    BY <1>3
  <2>1. x \in Packets /\ x.id \in Nat
    BY <2>0 DEF Packets
  <2>2. QED
    BY <1>2, <1>3, <2>1, Zenon DEF Holds
<1>5. \A i \in 1 .. Len(channel) : x.id # OwnPacket => channel[i].id # x.id
  BY <1>2, <1>3 DEF Apart
<1>6. /\ Holds(buffer', arrived)
      /\ x.id # OwnPacket => \A i \in 1 .. Len(buffer') : buffer'[i].id # x.id
      /\ Apart(buffer', channel)
  <2>1. Without(buffer', buffer, p)
    BY <1>1, <1>3, RemoveIsWithout
  <2>2. QED
    BY <1>2, <1>3, <2>1, WithoutHolds, Zenon
<1>7. buffer' \in Seq(Packets)
  BY <1>6 DEF Holds
<1>8. Connected'
  BY <1>1 DEF Invariant, Connected, Polled, DeviceOf, pollerVars
<1> HIDE DEF x
<1>9. CASE Len(channel) < Capacity
  <2>1. channel' = Append(channel, x) /\ UNCHANGED arrived
    BY <1>9 DEF OnRecv, x
  <2>2. Holds(Append(channel, x), arrived)
    BY <1>2, <1>4, <1>5, AppendHolds
  <2>3. Apart(buffer', Append(channel, x))
    BY <1>3, <1>4, <1>6, <1>7, AppendApart
  <2>4. Len(channel') <= Capacity
    <3>1. Len(channel') = Len(channel) + 1
      BY <1>3, <1>4, <2>1, AppendFacts
    <3>2. QED
      BY <1>3, <1>9, <3>1, ExchangeAssumption
  <2>5. Queues'
    BY <1>2, <1>6, <2>1, <2>2, <2>3, <2>4 DEF Queues
  <2>6. NoStorm' /\ OwnDeviceOnly'
    BY <1>1, <2>1 DEF Invariant, NoStorm, With, OwnDeviceOnly
  <2>7. QED
    BY <1>1, <1>8, <2>5, <2>6 DEF Invariant
<1>10. CASE ~ (Len(channel) < Capacity)
  <2>1. Settle(x.id, "dropped") /\ UNCHANGED channel
    BY <1>10 DEF OnRecv, x
  <2>2. x.id \in 0 .. Len(arrived) /\ "dropped" \in Fates
    BY <1>2, <1>4 DEF OwnPacket, Fates
  <2>3. Settled(arrived', arrived, x.id, "dropped")
    BY <1>2, <2>1, <2>2, SettleSettles
  <2>4. Holds(buffer', arrived') /\ Holds(channel', arrived')
    BY <1>2, <1>5, <1>6, <2>1, <2>3, SettledHolds
  <2>5. Queues'
    BY <1>2, <1>6, <2>1, <2>3, <2>4 DEF Queues, Settled
  <2>6. NoStorm'
    <3>1. With("answered")' = With("answered")
      BY <1>2, <1>4, <2>2, <2>3, SettledWith
    <3>2. QED
      BY <1>1, <3>1 DEF Invariant, NoStorm
  <2>7. OwnDeviceOnly'
    BY <1>1, <1>2, <2>3, SettledOwnDevice DEF Invariant
  <2>8. QED
    BY <1>1, <1>8, <2>5, <2>6, <2>7 DEF Invariant
<1>11. QED
  BY <1>9, <1>10

\* Ni::process takes a packet and may answer it: never one of its own.
LEMMA InvariantProcess ==
  ASSUME Invariant, Process
  PROVE  Invariant'
<1> DEFINE x == Head(channel)
<1>1. /\ channel # <<>> /\ channel' = Tail(channel)
      /\ UNCHANGED <<wanted, stage, device, hears, present, polling>>
      /\ stage = "connected" /\ woken' \in {woken, woken \/ (polling /\ stage = "connected")}
  BY DEF Process, Take, SendHello, Comes
<1>2. /\ arrived \in Seq(Arrivals)
      /\ Holds(buffer, arrived) /\ Holds(channel, arrived) /\ Apart(buffer, channel)
      /\ Len(channel) <= Capacity
  BY DEF Invariant, Queues
<1>3. buffer \in Seq(Packets) /\ channel \in Seq(Packets)
  BY <1>2 DEF Holds
<1>4. Without(channel', channel, 1) /\ x = channel[1] /\ 1 \in 1 .. Len(channel)
  BY <1>1, <1>3, TailIsWithout
<1> HIDE DEF x
<1>5. /\ x \in Packets /\ x.id \in Nat
      /\ x.id = OwnPacket => x.data = OwnHello
      /\ x.id # OwnPacket => x.id \in 1 .. Len(arrived) /\ arrived[x.id].fate = "waiting"
  <2>0. x \in Packets
    BY <1>3, <1>4
  <2>1. x \in Packets /\ x.id \in Nat
    BY <2>0 DEF Packets
  <2>2. QED
    BY <1>2, <1>4, <2>1, Zenon DEF Holds
<1>6. /\ Holds(channel', arrived)
      /\ x.id # OwnPacket => \A i \in 1 .. Len(channel') : channel'[i].id # x.id
      /\ Apart(buffer, channel')
  <2>1. /\ Holds(channel', arrived) /\ Apart(buffer, channel')
        /\ channel[1].id # OwnPacket =>
             \A i \in 1 .. Len(channel') : channel'[i].id # channel[1].id
    BY <1>2, <1>4, WithoutHolds, Zenon
  <2>2. QED
    BY <1>4, <2>1
<1>7. \A i \in 1 .. Len(buffer) : x.id # OwnPacket => buffer[i].id # x.id
  BY <1>2, <1>4 DEF Apart
<1>8. channel' \in Seq(Packets) /\ Len(channel') <= Capacity
  BY <1>2, <1>3, <1>4, <1>6, ExchangeAssumption DEF Holds, Without
<1>9. Connected'
  BY <1>1 DEF Invariant, Connected, Polled, DeviceOf
<1>10. x.id \in 0 .. Len(arrived)
  BY <1>2, <1>5 DEF OwnPacket
<1>11. ASSUME NEW fate \in Fates, fate # "waiting", Settle(x.id, fate)
       PROVE  /\ Settled(arrived', arrived, x.id, fate)
              /\ arrived' \in Seq(Arrivals)
              /\ Holds(buffer, arrived') /\ Holds(channel', arrived')
              /\ OwnDeviceOnly'
              /\ Cardinality(With("answered")) \in Nat
              /\ fate # "answered" => With("answered")' = With("answered")
              /\ fate = "answered" /\ x.id # OwnPacket =>
                   Cardinality(With("answered")') = Cardinality(With("answered")) + 1
  <2>1. Settled(arrived', arrived, x.id, fate)
    BY <1>2, <1>10, <1>11, SettleSettles
  <2>2. Holds(buffer, arrived') /\ Holds(channel', arrived')
    BY <1>2, <1>6, <1>7, <2>1, SettledHolds
  <2>3. OwnDeviceOnly'
    BY <1>1, <1>2, <2>1, SettledOwnDevice DEF Invariant
  <2>4. arrived' \in Seq(Arrivals)
    BY <2>1 DEF Settled
  <2>5. QED
    BY <1>2, <1>5, <1>10, <1>11, <2>1, <2>2, <2>3, <2>4, SettledWith
<1>12. CASE \/ Settle(x.id, "ignored") /\ UNCHANGED <<buffer, hellos, wire>>
            \/ Settle(x.id, "unsent") /\ UNCHANGED <<buffer, hellos, wire>>
  <2>1. PICK fate \in {"ignored", "unsent"} : Settle(x.id, fate)
    BY <1>12
  <2>2. fate \in Fates /\ fate # "waiting" /\ fate # "answered"
    BY DEF Fates
  <2>3. /\ arrived' \in Seq(Arrivals) /\ Holds(buffer, arrived') /\ Holds(channel', arrived')
        /\ OwnDeviceOnly' /\ With("answered")' = With("answered")
    BY <1>11, <2>1, <2>2
  <2>4. UNCHANGED <<buffer, hellos, wire>>
    BY <1>12
  <2>5. Queues'
    BY <1>6, <1>8, <2>3, <2>4 DEF Queues
  <2>6. NoStorm'
    BY <2>3, <2>4 DEF Invariant, NoStorm
  <2>7. QED
    BY <1>9, <2>3, <2>4, <2>5, <2>6 DEF Invariant
<1>13. CASE IsForeign(ParseIp(x.data)) /\ Settle(x.id, "answered") /\ SendHello
  <2>1. x.id # OwnPacket
    <3>1. x.id = OwnPacket => x.data = OwnHello
      BY <1>5
    <3>2. QED
      BY <1>13, <3>1, OwnIsNotForeign
  <2>2. "answered" \in Fates /\ "answered" # "waiting"
    BY DEF Fates
  <2>3. /\ arrived' \in Seq(Arrivals) /\ Holds(buffer, arrived') /\ Holds(channel', arrived')
        /\ OwnDeviceOnly'
        /\ Cardinality(With("answered")') = Cardinality(With("answered")) + 1
    BY <1>11, <1>13, <2>1, <2>2
  <2>4. wire' = OwnHello /\ hellos' = hellos + 1
    BY <1>13 DEF SendHello
  <2>5. Queues'
    <3>1. CASE UNCHANGED buffer
      BY <1>6, <1>8, <2>3, <3>1 DEF Queues
    <3>2. CASE ~ UNCHANGED buffer
      <4> DEFINE own == [id |-> OwnPacket, data |-> OwnHello]
      <4>1. buffer' = Append(buffer, own)
        BY <1>13, <3>2 DEF SendHello, Comes
      <4>2. own \in Packets /\ own.id = OwnPacket /\ own.data = OwnHello
        BY DEF Packets, OwnPacket
      <4> HIDE DEF own
      <4>3. Holds(Append(buffer, own), arrived')
        BY <2>3, <4>2, AppendHolds
      <4>4. Apart(Append(buffer, own), channel')
        BY <1>3, <1>6, <1>8, <4>2, AppendApart
      <4>5. QED
        BY <1>8, <2>3, <4>1, <4>3, <4>4 DEF Queues
    <3>3. QED
      BY <3>1, <3>2
  <2>6. NoStorm'
    <3>1. hellos = Cardinality(With("answered"))
      BY DEF Invariant, NoStorm
    <3>2. QED
      BY <2>3, <2>4, <3>1 DEF NoStorm
  <2>7. QED
    BY <1>9, <2>3, <2>4, <2>5, <2>6 DEF Invariant
<1>14. QED
  BY <1>12, <1>13 DEF Process, x

\* All the steps.
LEMMA InvariantNext ==
  ASSUME Invariant, [Next]_vars
  PROVE  Invariant'
<1>1. CASE Connect
  BY <1>1, InvariantConnect
<1>2. CASE Host
  BY <1>2, InvariantArrive, InvariantDevices DEF Host
<1>3. CASE Receive
  BY <1>3, InvariantRecv DEF Receive
<1>4. CASE Process
  BY <1>4, InvariantProcess
<1>5. CASE PollerEnds \/ SocketEmpty
  BY <1>5, InvariantPoller
<1>6. CASE UNCHANGED vars
  <2>1. Queues'
    BY <1>6, Zenon DEF vars, Invariant, Queues
  <2>2. Connected' /\ NoStorm' /\ OwnDeviceOnly' /\ wire' = wire
    BY <1>6 DEF vars, pollerVars, Invariant, Connected, Polled, DeviceOf, NoStorm, With, OwnDeviceOnly
  <2>3. QED
    BY <2>1, <2>2 DEF Invariant
<1>7. QED
  BY <1>1, <1>2, <1>3, <1>4, <1>5, <1>6 DEF Next

\* No step of the socket, of its tasks or of the host leaves the invariant.
THEOREM InvariantHolds == Spec => []Invariant
<1>1. Init => Invariant
  BY InvariantInit
<1>2. Invariant /\ [Next]_vars => Invariant'
  BY InvariantNext
<1>3. QED
  BY <1>1, <1>2, PTL DEF Spec

-----------------------------------------------------------------------------
(* The theorems. *)

\* Every variable stays in its range, the channel within its capacity: for any
\* listing, addresses and number of packets.
THEOREM TypeCorrect == Spec => []TypeOK
<1>1. Invariant => TypeOK
  <2> SUFFICES ASSUME Invariant PROVE TypeOK
    OBVIOUS
  <2>1. \A q : Holds(q, arrived) => \A i \in DOMAIN q : q[i].id \in 0 .. Len(arrived)
    <3> TAKE q
    <3> HAVE Holds(q, arrived)
    <3>1. q \in Seq(Packets) /\ DOMAIN q = 1 .. Len(q) /\ Len(arrived) \in Nat
      BY DEF Holds, Invariant, Queues
    <3>2. \A i \in 1 .. Len(q) : q[i].id = 0 \/ q[i].id \in 1 .. Len(arrived)
      BY Zenon DEF Holds, OwnPacket
    <3>3. QED
      BY <3>1, <3>2
  <2>2. \A i \in DOMAIN arrived : arrived[i].via \in Devices /\ arrived[i].fate \in Fates
    <3>1. \A i \in DOMAIN arrived : arrived[i] \in Arrivals
      BY DEF Invariant, Queues
    <3>2. QED
      BY <3>1 DEF Arrivals
  <2>3. QED
    BY <2>1, <2>2 DEF Invariant, Queues, Connected, Polled, TypeOK
<1>2. QED
  BY <1>1, InvariantHolds, PTL

\* The program's own Hellos may come back to it any number of times: it sends as
\* many as it has answered packets of others.
THEOREM AnswersNeverStorm == Spec => []NoStorm
<1>1. Invariant => NoStorm
  BY DEF Invariant
<1>2. QED
  BY <1>1, InvariantHolds, PTL

\* Whatever devices come and go, what the program reads after bind is of its device.
THEOREM OnlyOwnDevice == Spec => []OwnDeviceOnly
<1>1. Invariant => OwnDeviceOnly
  BY DEF Invariant
<1>2. QED
  BY <1>1, InvariantHolds, PTL

\* From any address of the program, the Hello that goes out is read as it is meant.
THEOREM AnswerIsUnderstood == Spec => []AnswerUnderstood
<1>1. Invariant => AnswerUnderstood
  BY OwnIsUnderstood DEF Invariant
<1>2. QED
  BY <1>1, InvariantHolds, PTL
=============================================================================
