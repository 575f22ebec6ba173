---------------------------- MODULE SequenceFacts ----------------------------
(***************************************************************************)
(* Facts about sequences that the proofs of several components rest on.    *)
(***************************************************************************)
EXTENDS Integers, SequencesExt, FiniteSetTheorems, TLAPS

\* Two sequences are the same when their elements are.
LEMMA EqualSeqs ==
  ASSUME NEW S, NEW q \in Seq(S), NEW r \in Seq(S), Len(q) = Len(r),
         \A p \in 1 .. Len(r) : q[p] = r[p]
  PROVE  q = r
OBVIOUS

\* The first element of a sequence and the rest of it.
LEMMA HeadTailFacts ==
  ASSUME NEW S, NEW q \in Seq(S), q # <<>>
  PROVE  /\ Len(q) >= 1 /\ Head(q) = q[1] /\ Head(q) \in S
         /\ Tail(q) \in Seq(S) /\ Len(Tail(q)) = Len(q) - 1
         /\ \A p \in 1 .. Len(Tail(q)) : Tail(q)[p] = q[p + 1]
OBVIOUS

\* A function on 1 .. n is a sequence of length n.
LEMMA FunctionIsSeq ==
  ASSUME NEW S, NEW n \in Nat, NEW f \in [1 .. n -> S]
  PROVE  f \in Seq(S) /\ Len(f) = n /\ DOMAIN f = 1 .. n
OBVIOUS

\* An element more at the end.
LEMMA AppendFacts ==
  ASSUME NEW S, NEW q \in Seq(S), NEW x \in S
  PROVE  /\ Append(q, x) \in Seq(S) /\ Len(Append(q, x)) = Len(q) + 1
         /\ DOMAIN Append(q, x) = 1 .. Len(q) + 1 /\ DOMAIN q = 1 .. Len(q) /\ Len(q) \in Nat
         /\ \A p \in 1 .. Len(q) : Append(q, x)[p] = q[p]
         /\ Append(q, x)[Len(q) + 1] = x
OBVIOUS

\* Another element in the place of one.
LEMMA ExceptFacts ==
  ASSUME NEW S, NEW q \in Seq(S), NEW k \in DOMAIN q, NEW x \in S
  PROVE  /\ [q EXCEPT ![k] = x] \in Seq(S) /\ Len([q EXCEPT ![k] = x]) = Len(q)
         /\ \A p \in DOMAIN q : [q EXCEPT ![k] = x][p] = IF p = k THEN x ELSE q[p]
OBVIOUS

\* The whole of a sequence, and none of it.
LEMMA WholeOrNone ==
  ASSUME NEW S, NEW q \in Seq(S)
  PROVE  SubSeq(q, 1, Len(q)) = q /\ SubSeq(q, 1, 0) = <<>>
OBVIOUS

\* A sequence cut in two: every element is in one part or the other.
LEMMA SplitFacts ==
  ASSUME NEW S, NEW q \in Seq(S), NEW n \in 0 .. Len(q)
  PROVE  /\ SubSeq(q, n + 1, Len(q)) \in Seq(S)
         /\ \A x \in Range(q) :
              x \in Range(SubSeq(q, 1, n)) \/ x \in Range(SubSeq(q, n + 1, Len(q)))
<1> DEFINE u == SubSeq(q, 1, n)
           v == SubSeq(q, n + 1, Len(q))
<1>1. u \in Seq(S) /\ Len(u) = n /\ \A p \in 1 .. n : u[p] = q[p]
  OBVIOUS
<1>2. v \in Seq(S) /\ Len(v) = Len(q) - n /\ \A p \in 1 .. Len(q) - n : v[p] = q[n + p]
  OBVIOUS
<1> HIDE DEF u, v
<1>3. ASSUME NEW p \in 1 .. Len(q) PROVE q[p] \in Range(u) \/ q[p] \in Range(v)
  <2>1. CASE p <= n
    BY <1>1, <2>1 DEF Range
  <2>2. CASE p > n
    <3>1. p - n \in 1 .. Len(v) /\ v[p - n] = q[p]
      BY <1>2, <2>2
    <3>2. QED
      BY <1>2, <3>1 DEF Range
  <2>3. QED
    BY <2>1, <2>2
<1>4. QED
  BY <1>2, <1>3 DEF Range, u, v

\* RemoveAt: the elements before k stay where they are, those after it move up.
LEMMA RemoveAtFacts ==
  ASSUME NEW S, NEW q \in Seq(S), NEW k \in 1 .. Len(q)
  PROVE  /\ RemoveAt(q, k) \in Seq(S)
         /\ Len(RemoveAt(q, k)) = Len(q) - 1
         /\ \A p \in 1 .. k - 1 : RemoveAt(q, k)[p] = q[p]
         /\ \A p \in k .. Len(q) - 1 : RemoveAt(q, k)[p] = q[p + 1]
<1> DEFINE u == SubSeq(q, 1, k - 1)
           v == SubSeq(q, k + 1, Len(q))
<1>1. u \in Seq(S) /\ Len(u) = k - 1 /\ \A p \in 1 .. k - 1 : u[p] = q[p]
  OBVIOUS
<1>2. v \in Seq(S) /\ Len(v) = Len(q) - k /\ \A p \in 1 .. Len(q) - k : v[p] = q[k + p]
  OBVIOUS
<1>3. RemoveAt(q, k) = u \o v
  BY DEF RemoveAt
<1> HIDE DEF u, v
<1>4. u \o v \in Seq(S) /\ Len(u \o v) = Len(q) - 1
  BY <1>1, <1>2
<1>5. \A p \in 1 .. k - 1 : (u \o v)[p] = q[p]
  BY <1>1, <1>2
<1>6. ASSUME NEW p \in k .. Len(q) - 1 PROVE (u \o v)[p] = q[p + 1]
  <2>1. (u \o v)[p] = v[p - (k - 1)]
    BY <1>1, <1>2
  <2>2. p - (k - 1) \in 1 .. Len(q) - k
    OBVIOUS
  <2>3. QED
    BY <1>2, <2>1, <2>2
<1>7. QED
  BY <1>3, <1>4, <1>5, <1>6

\* Two sequences put together.
LEMMA ConcatFacts ==
  ASSUME NEW S, NEW q \in Seq(S), NEW r \in Seq(S)
  PROVE  /\ q \o r \in Seq(S) /\ Len(q \o r) = Len(q) + Len(r)
         /\ \A p \in 1 .. Len(q) : (q \o r)[p] = q[p]
         /\ \A p \in 1 .. Len(r) : (q \o r)[Len(q) + p] = r[p]
OBVIOUS

\* A sequence over a set is one over every larger set.
LEMMA WiderSeq ==
  ASSUME NEW S, NEW T, S \subseteq T, NEW q \in Seq(S)
  PROVE  q \in Seq(T)
OBVIOUS

\* What is in either sequence is in the two put together.
LEMMA RangeConcat ==
  ASSUME NEW S, NEW q \in Seq(S), NEW r \in Seq(S)
  PROVE  /\ q \o r \in Seq(S)
         /\ Range(q) \subseteq Range(q \o r) /\ Range(r) \subseteq Range(q \o r)
<1> DEFINE w == q \o r
<1>1. /\ w \in Seq(S) /\ Len(w) = Len(q) + Len(r)
      /\ \A p \in 1 .. Len(q) : w[p] = q[p]
      /\ \A p \in 1 .. Len(r) : w[Len(q) + p] = r[p]
  BY ConcatFacts
<1>2. /\ DOMAIN q = 1 .. Len(q) /\ DOMAIN r = 1 .. Len(r) /\ DOMAIN w = 1 .. Len(w)
      /\ Len(q) \in Nat /\ Len(r) \in Nat
  BY <1>1
<1> HIDE DEF w
<1>3. \A p \in 1 .. Len(q) : p \in DOMAIN w
  BY <1>1, <1>2
<1>4. \A p \in 1 .. Len(r) : Len(q) + p \in DOMAIN w
  BY <1>1, <1>2
<1>5. Range(q) \subseteq Range(w)
  BY <1>1, <1>2, <1>3 DEF Range
<1>6. Range(r) \subseteq Range(w)
  BY <1>1, <1>2, <1>4 DEF Range
<1>7. QED
  BY <1>1, <1>5, <1>6 DEF w

\* The empty sequence adds nothing.
LEMMA ConcatEmpty ==
  ASSUME NEW S, NEW q \in Seq(S)
  PROVE  q \o <<>> = q /\ <<>> \o q = q
OBVIOUS

\* Three sequences put together either way.
LEMMA ConcatAssociates ==
  ASSUME NEW S, NEW q \in Seq(S), NEW r \in Seq(S), NEW t \in Seq(S)
  PROVE  (q \o r) \o t = q \o (r \o t)
OBVIOUS

\* The first element of r moves to the end of q.
LEMMA ConcatMoves ==
  ASSUME NEW S, NEW q \in Seq(S), NEW r \in Seq(S), r # <<>>
  PROVE  Append(q, Head(r)) \o Tail(r) = q \o r
OBVIOUS

\* What comes after the first k elements grows with the sequence.
LEMMA SuffixGrows ==
  ASSUME NEW S, NEW q \in Seq(S), NEW r \in Seq(S), NEW k \in 0 .. Len(q)
  PROVE  SubSeq(q \o r, k + 1, Len(q \o r)) = SubSeq(q, k + 1, Len(q)) \o r
<1> DEFINE w == q \o r
           u == SubSeq(q, k + 1, Len(q))
           v == SubSeq(w, k + 1, Len(w))
<1>1. w \in Seq(S) /\ Len(w) = Len(q) + Len(r)
  BY ConcatFacts
<1>2. u \in Seq(S) /\ Len(u) = Len(q) - k /\ \A p \in 1 .. Len(u) : u[p] = q[k + p]
  OBVIOUS
<1>3. \A p \in 1 .. Len(q) : w[p] = q[p]
  BY ConcatFacts
<1>4. \A p \in 1 .. Len(r) : w[Len(q) + p] = r[p]
  BY ConcatFacts
<1> HIDE DEF w
<1>5. v \in Seq(S) /\ Len(v) = Len(w) - k /\ \A p \in 1 .. Len(v) : v[p] = w[k + p]
  BY <1>1
<1> HIDE DEF u, v
<1> DEFINE x == u \o r
<1>6. u \in Seq(S)
  BY <1>2
<1>7. /\ x \in Seq(S) /\ Len(x) = Len(u) + Len(r)
      /\ \A p \in 1 .. Len(u) : x[p] = u[p]
      /\ \A p \in 1 .. Len(r) : x[Len(u) + p] = r[p]
  BY <1>6
<1> HIDE DEF x
<1>8. Len(v) = Len(x)
  BY <1>1, <1>2, <1>5, <1>7
<1>9. ASSUME NEW p \in 1 .. Len(v) PROVE v[p] = x[p]
  <2>1. Len(u) \in Nat /\ Len(r) \in Nat /\ Len(v) = Len(u) + Len(r) /\ p \in Nat
    BY <1>6, <1>7, <1>8
  <2>2. CASE p <= Len(u)
    <3>1. p \in 1 .. Len(u) /\ k + p \in 1 .. Len(q)
      BY <1>2, <2>1, <2>2
    <3>2. QED
      BY <1>2, <1>3, <1>5, <1>7, <3>1
  <2>3. CASE p > Len(u)
    <3> DEFINE m == p - Len(u)
    <3>1. m \in 1 .. Len(r) /\ k + p = Len(q) + m /\ p = Len(u) + m
      BY <1>2, <2>1, <2>3
    <3> HIDE DEF m
    <3>2. x[p] = r[m] /\ v[p] = w[Len(q) + m]
      BY <1>5, <1>7, <3>1
    <3>3. QED
      BY <1>4, <3>1, <3>2
  <2>4. QED
    BY <2>1, <2>2, <2>3
<1>10. v = x
  <2>1. x \in Seq(S) /\ v \in Seq(S)
    BY <1>5, <1>7
  <2>2. QED
    BY <1>8, <1>9, <2>1
<1>11. QED
  BY <1>10 DEF u, v, w, x

\* A sequence is a prefix of every extension of it.
LEMMA PrefixGrows ==
  ASSUME NEW S, NEW q \in Seq(S), NEW r \in Seq(S), NEW t \in Seq(S)
  PROVE  IsPrefix(q, q \o r) /\ (IsPrefix(q, r) => IsPrefix(q, r \o t))
BY DEF IsPrefix

\* Induction up to m: a set that has 0, and with every number below m the next
\* one, has them all.  (Were k the least number it lacks, 1 .. k would be minimal
\* among the finite sets 1 .. j of the j it lacks.)
LEMMA FiniteInduction ==
  ASSUME NEW m \in Nat, NEW T, 0 \in T, \A k \in 0 .. m - 1 : k \in T => k + 1 \in T
  PROVE  0 .. m \subseteq T
<1> DEFINE U == (0 .. m) \ T
           W == {1 .. k : k \in U}
<1> SUFFICES ASSUME U # {} PROVE FALSE
  OBVIOUS
<1>1. IsFiniteSet(1 .. m)
  BY FS_Interval
<1>2. \A k \in 0 .. m : 1 .. k \in SUBSET (1 .. m)
  OBVIOUS
<1>3. W \subseteq FiniteSubsetsOf(1 .. m)
  BY <1>1, <1>2, FS_Subset DEF FiniteSubsetsOf
<1>4. W # {}
  OBVIOUS
<1>5. IsWellFoundedOn(StrictSubsetOrdering(1 .. m), FiniteSubsetsOf(1 .. m))
  BY FS_StrictSubsetOrderingWellFounded
<1>6. \E x \in W : \A y \in W : ~ (<<y, x>> \in StrictSubsetOrdering(1 .. m))
  <2> HIDE DEF W
  <2> QED BY <1>3, <1>4, <1>5, WFMin
<1>7. PICK x \in W : \A y \in W : <<y, x>> \notin StrictSubsetOrdering(1 .. m)
  BY <1>6
<1>8. PICK k \in U : x = 1 .. k
  OBVIOUS
<1>9. k - 1 \in U
  OBVIOUS
<1>10. <<1 .. k - 1, 1 .. k>> \in StrictSubsetOrdering(1 .. m)
  BY <1>2, <1>9 DEF StrictSubsetOrdering
<1>11. QED
  BY <1>7, <1>8, <1>9, <1>10

\* A set of numbers that is not empty has a least one.
LEMMA LeastElement ==
  ASSUME NEW S \in SUBSET Nat, S # {}
  PROVE  Min(S) \in S /\ \A y \in S : Min(S) <= y
<1>1. PICK m \in S : TRUE
  OBVIOUS
<1> DEFINE T == {k \in 0 .. m : \A y \in S : y > k}
<1>2. ~(0 .. m \subseteq T)
  <2>1. m \in 0 .. m /\ ~(m > m)
    OBVIOUS
  <2>2. QED
    BY <1>1, <2>1
<1>3. \E x \in S : \A y \in S : x <= y
  <2>1. CASE 0 \notin T
    BY <2>1
  <2>2. CASE 0 \in T
    <3> HIDE DEF T
    <3>1. PICK k \in 0 .. m - 1 : k \in T /\ k + 1 \notin T
      BY <1>2, <2>2, FiniteInduction
    <3>2. \A y \in S : y > k
      BY <3>1 DEF T
    <3>3. PICK x \in S : ~(x > k + 1)
      BY <3>1 DEF T
    <3>4. \A y \in S : x <= y
      BY <3>2, <3>3
    <3>5. QED
      BY <3>4
  <2>3. QED
    BY <2>1, <2>2
<1>4. QED
  BY <1>3 DEF Min

\* The elements of a finite set in some order, each of them once.
LEMMA SetToSeqFacts ==
  ASSUME NEW S, IsFiniteSet(S)
  PROVE  /\ SetToSeq(S) \in Seq(S)
         /\ Range(SetToSeq(S)) = S
         /\ \A p, r \in DOMAIN SetToSeq(S) : SetToSeq(S)[p] = SetToSeq(S)[r] => p = r
<1> DEFINE n == Cardinality(S)
           g == SetToSeq(S)
<1>1. n \in Nat /\ ExistsBijection(1 .. n, S)
  BY FS_CardinalityType
<1>2. \E f \in [1 .. n -> S] : IsInjective(f)
  BY <1>1 DEF ExistsBijection, Bijection, Injection, IsInjective
<1>3. g \in [1 .. n -> S] /\ IsInjective(g)
  BY <1>2 DEF SetToSeq
<1>4. g \in Injection(1 .. n, S)
  BY <1>3 DEF Injection, IsInjective
<1>5. IsFiniteSet(1 .. n) /\ Cardinality(1 .. n) = n
  BY <1>1, FS_Interval
<1>6. g \in Surjection(1 .. n, S)
  BY <1>4, <1>5, FS_Injection
<1> HIDE DEF g
<1>7. QED
  BY <1>1, <1>3, <1>6 DEF Surjection, IsInjective, Range, g
=============================================================================
