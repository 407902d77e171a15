--------------------------- MODULE SequenceLemmas ---------------------------
(***************************************************************************)
(* Facts about numbers and sequences that the proofs about the components  *)
(* share.  What FlattenSeq, a recursive function, computes for any         *)
(* sequence follows from the well-foundedness of the naturals: were it     *)
(* wrong, it would be wrong first at some least position, and it is not.   *)
(***************************************************************************)
EXTENDS Integers, Sequences, SequencesExt, SequenceTheorems, WellFoundedInduction, TLAPS

\* A set of numbers that is not empty has a least one.
LEMMA LeastNumber ==
    ASSUME NEW N, N \subseteq Nat, N # {}
    PROVE  \E m \in N : \A n \in N : m <= n
<1>1. IsWellFoundedOn(OpToRel(<, Nat), Nat)
  BY NatLessThanWellFounded
<1>2. \E m \in N : \A n \in N : <<n, m>> \notin OpToRel(<, Nat)
  BY <1>1, WFMin
<1>3. PICK m \in N : \A n \in N : <<n, m>> \notin OpToRel(<, Nat)
  BY <1>2
<1>4. \A n \in N : ~(n < m)
  BY <1>3 DEF OpToRel
<1> QED
  BY <1>4

\* A set of bounded numbers that is not empty has a greatest one.
LEMMA GreatestNumber ==
    ASSUME NEW b \in Nat, NEW N, N \subseteq 0 .. b, N # {}
    PROVE  \E m \in N : \A n \in N : n <= m
<1> DEFINE Below == {b - n : n \in N}
<1>1. \A n \in N : b - n \in Nat
  OBVIOUS
<1>2. Below \subseteq Nat /\ Below # {}
  BY <1>1
<1>3. PICK k \in Below : \A n \in Below : k <= n
  BY <1>2, LeastNumber
<1>4. PICK m \in N : k = b - m
  BY <1>3
<1>5. \A n \in N : b - m <= b - n
  BY <1>3, <1>4
<1> QED
  BY <1>5

-----------------------------------------------------------------------------
(* The end of a sequence.                                                  *)

\* A part of a sequence.
LEMMA PartIs ==
    ASSUME NEW S, NEW s \in Seq(S), NEW m \in Nat, NEW n \in Nat, m <= n, n <= Len(s)
    PROVE  /\ SubSeq(s, m + 1, n) \in Seq(S)
           /\ Len(SubSeq(s, m + 1, n)) = n - m
           /\ \A i \in 1 .. n - m : SubSeq(s, m + 1, n)[i] = s[m + i]
<1> DEFINE k == m + 1
           f == SubSeq(s, k, n)
<1>1. k \in Int /\ n \in Int /\ \A i \in k .. n : s[i] \in S
  BY LenProperties, ElementOfSeq
<1> HIDE DEF k
<1>2. /\ f \in Seq(S)
      /\ Len(f) = IF k <= n THEN n - k + 1 ELSE 0
      /\ \A i \in 1 .. n - k + 1 : f[i] = s[k + i - 1]
  BY <1>1, SubSeqProperties
<1>3. n - k + 1 = n - m /\ (k <= n <=> n - m # 0) /\ \A i \in 1 .. n - m : k + i - 1 = m + i
  BY DEF k
<1> HIDE DEF f
<1>4. /\ f \in Seq(S) /\ Len(f) = n - m /\ \A i \in 1 .. n - m : f[i] = s[m + i]
  BY <1>2, <1>3
<1> QED
  BY <1>4 DEF f, k

\* A sequence is what comes before its last element, and that.
LEMMA LastApart ==
    ASSUME NEW S, NEW s \in Seq(S), Len(s) # 0
    PROVE  /\ SubSeq(s, 1, Len(s) - 1) \in Seq(S)
           /\ s = Append(SubSeq(s, 1, Len(s) - 1), s[Len(s)])
<1> DEFINE n == Len(s)
           f == SubSeq(s, 1, n - 1)
<1>1. n \in Nat /\ n > 0 /\ s[n] \in S
  BY LenProperties, ElementOfSeq
<1>2. f \in Seq(S) /\ Len(f) = n - 1 /\ \A i \in 1 .. n - 1 : f[i] = s[i]
  <2>1. 1 \in Int /\ n - 1 \in Int /\ \A i \in 1 .. n - 1 : s[i] \in S
    BY <1>1
  <2>2. /\ f \in Seq(S)
        /\ Len(f) = IF 1 <= n - 1 THEN (n - 1) - 1 + 1 ELSE 0
        /\ \A i \in 1 .. (n - 1) - 1 + 1 : f[i] = s[1 + i - 1]
    <3> HIDE DEF n
    <3> QED
      BY <2>1, SubSeqProperties
  <2> HIDE DEF f, n
  <2> QED
    BY <1>1, <2>2
<1> HIDE DEF f
<1>3. /\ Append(f, s[n]) \in Seq(S) /\ Len(Append(f, s[n])) = (n - 1) + 1
      /\ Append(f, s[n])[(n - 1) + 1] = s[n]
      /\ \A i \in 1 .. n - 1 : Append(f, s[n])[i] = f[i]
  BY <1>1, <1>2, AppendProperties
<1>4. Len(Append(f, s[n])) = n /\ \A i \in 1 .. n : Append(f, s[n])[i] = s[i]
  BY <1>1, <1>2, <1>3
<1> QED
  BY <1>2, <1>3, <1>4, SeqEqual DEF f

\* Replacing the last element leaves what comes before.
LEMMA ReplaceLast ==
    ASSUME NEW S, NEW s \in Seq(S), Len(s) # 0, NEW x \in S
    PROVE  [s EXCEPT ![Len(s)] = x] = Append(SubSeq(s, 1, Len(s) - 1), x)
<1> DEFINE n == Len(s)
           f == SubSeq(s, 1, n - 1)
           t == [s EXCEPT ![n] = x]
<1>1. n \in Nat /\ n > 0
  BY LenProperties
<1>2. f \in Seq(S) /\ Len(f) = n - 1 /\ \A i \in 1 .. n - 1 : f[i] = s[i]
  <2>1. 1 \in Int /\ n - 1 \in Int /\ \A i \in 1 .. n - 1 : s[i] \in S
    BY <1>1
  <2>2. /\ f \in Seq(S)
        /\ Len(f) = IF 1 <= n - 1 THEN (n - 1) - 1 + 1 ELSE 0
        /\ \A i \in 1 .. (n - 1) - 1 + 1 : f[i] = s[1 + i - 1]
    <3> HIDE DEF n
    <3> QED
      BY <2>1, SubSeqProperties
  <2> HIDE DEF f, n
  <2> QED
    BY <1>1, <2>2
<1>3. /\ t \in Seq(S) /\ Len(t) = n /\ t[n] = x
      /\ \A i \in 1 .. n - 1 : t[i] = s[i]
  BY <1>1
<1> HIDE DEF f, t
<1>4. /\ Append(f, x) \in Seq(S) /\ Len(Append(f, x)) = (n - 1) + 1
      /\ Append(f, x)[(n - 1) + 1] = x
      /\ \A i \in 1 .. n - 1 : Append(f, x)[i] = f[i]
  BY <1>2, AppendProperties
<1>5. Len(Append(f, x)) = n /\ \A i \in 1 .. n : Append(f, x)[i] = t[i]
  BY <1>1, <1>2, <1>3, <1>4
<1> QED
  BY <1>3, <1>4, <1>5, SeqEqual DEF f, t

\* Appending to the second of two joined sequences.
LEMMA JoinAppend ==
    ASSUME NEW S, NEW s \in Seq(S), NEW t \in Seq(S), NEW x \in S
    PROVE  s \o Append(t, x) = Append(s \o t, x)
<1>1. s \o t \in Seq(S) /\ <<x>> \in Seq(S)
  BY ConcatProperties
<1>2. Append(t, x) = t \o <<x>> /\ Append(s \o t, x) = (s \o t) \o <<x>>
  BY <1>1, AppendIsConcat
<1> QED
  BY <1>1, <1>2, ConcatAssociative

-----------------------------------------------------------------------------
(* Two sequences joined.                                                   *)

\* Two joined sequences.
LEMMA Joined ==
    ASSUME NEW S, NEW s \in Seq(S), NEW t \in Seq(S)
    PROVE  /\ s \o t \in Seq(S) /\ Len(s \o t) = Len(s) + Len(t)
           /\ \A i \in 1 .. Len(s) : (s \o t)[i] = s[i]
           /\ \A i \in 1 .. Len(t) : (s \o t)[Len(s) + i] = t[i]
BY ConcatProperties

\* u is one of them behind the other.
Joins(u, s, t) == u = s \o t

LEMMA JoinedIs ==
    ASSUME NEW S, NEW s \in Seq(S), NEW t \in Seq(S), NEW u, Joins(u, s, t)
    PROVE  /\ u \in Seq(S) /\ Len(u) = Len(s) + Len(t) /\ Len(s) \in Nat /\ Len(t) \in Nat
           /\ \A i \in 1 .. Len(s) : u[i] = s[i]
           /\ \A i \in 1 .. Len(t) : u[Len(s) + i] = t[i]
<1>1. Len(s) \in Nat /\ Len(t) \in Nat
  BY LenProperties
<1> QED
  BY <1>1, Joined DEF Joins

\* The i-th element of u is one of s or of t, and so is the one before it.
Comes(u, s, t, i) ==
    \/ /\ i \in 1 .. Len(s) /\ u[i] = s[i]
       /\ i > 1 => u[i - 1] = s[i - 1]
    \/ \E j \in 1 .. Len(t) :
        /\ i = Len(s) + j /\ u[i] = t[j]
        /\ j > 1 => i > 1 /\ u[i - 1] = t[j - 1]

\* Where an element of two joined sequences comes from.
LEMMA JoinedAt ==
    ASSUME NEW S, NEW s \in Seq(S), NEW t \in Seq(S), NEW i \in 1 .. Len(s \o t)
    PROVE  Comes(s \o t, s, t, i)
<1> DEFINE u == s \o t
<1>1. /\ Len(u) = Len(s) + Len(t)
      /\ \A k \in 1 .. Len(s) : u[k] = s[k]
      /\ \A k \in 1 .. Len(t) : u[Len(s) + k] = t[k]
  BY Joined
<1>2. Len(s) \in Nat /\ Len(t) \in Nat
  BY LenProperties
<1>3. i \in 1 .. Len(u)
  OBVIOUS
<1> DEFINE a == Len(s)
           b == Len(t)
<1>4. a \in Nat /\ b \in Nat /\ i \in 1 .. a + b
  BY <1>1, <1>2, <1>3
<1> HIDE DEF u, a, b
<1>5. CASE i <= a
  <2>1. i \in 1 .. a /\ (i > 1 => i - 1 \in 1 .. a)
    BY <1>4, <1>5
  <2> QED
    BY <1>1, <2>1 DEF a, Comes
<1>6. CASE i > a
  <2> DEFINE j == i - a
  <2>1. j \in 1 .. b /\ i = a + j /\ (j > 1 => i > 1 /\ j - 1 \in 1 .. b /\ i - 1 = a + (j - 1))
    BY <1>4, <1>6
  <2> HIDE DEF j
  <2>2. u[i] = t[j] /\ (j > 1 => u[i - 1] = t[j - 1])
    BY <1>1, <2>1 DEF a, b
  <2> QED
    BY <2>1, <2>2 DEF a, b, Comes
<1>7. i <= a \/ i > a
  BY <1>4
<1> QED
  BY <1>5, <1>6, <1>7 DEF u

\* The end of a sequence and what is appended to it.
LEMMA Rest ==
    ASSUME NEW S, NEW s \in Seq(S), NEW t \in Seq(S), NEW k \in 1 .. Len(s) + 1
    PROVE  SubSeq(s, k, Len(s)) \o t = SubSeq(s \o t, k, Len(s) + Len(t))
<1> DEFINE u == s \o t
           a == Len(s)
           b == Len(t)
<1>1. u \in Seq(S) /\ Len(u) = a + b /\ a \in Nat /\ b \in Nat
  BY Joined, LenProperties
<1>2. SubSeq(u, k, a) = SubSeq(s, k, a)
  <2>1. CASE k = a + 1
    <3>1. k \in Int /\ a \in Int /\ a < k
      BY <1>1, <2>1
    <3> HIDE DEF u, a
    <3> QED
      BY <3>1, SubSeqEmpty
  <2>2. CASE k # a + 1
    <3>1. k \in 1 .. a /\ a \in 1 .. a
      BY <1>1, <2>2
    <3> QED
      BY <3>1, SubSeqOfConcat1
  <2> QED
    BY <2>1, <2>2
<1>3. SubSeq(u, a + 1, a + b) = t
  <2>1. CASE b = 0
    <3>1. a + 1 \in Int /\ a + b \in Int /\ a + b < a + 1
      BY <1>1, <2>1
    <3>2. t = <<>>
      BY <2>1, EmptySeq
    <3> HIDE DEF u, a, b
    <3> QED
      BY <3>1, <3>2, SubSeqEmpty
  <2>2. CASE b # 0
    <3>1. a + 1 \in a + 1 .. a + b /\ a + b \in a + 1 .. a + b
          /\ a + 1 - a = 1 /\ a + b - a = b
      BY <1>1, <2>2
    <3>2. SubSeq(u, a + 1, a + b) = SubSeq(t, a + 1 - a, a + b - a)
      BY <3>1, SubSeqOfConcat2
    <3> HIDE DEF u, a
    <3> QED
      BY <3>1, <3>2, SubSeqFull
  <2> QED
    BY <2>1, <2>2
<1>4. SubSeq(u, k, a) \o SubSeq(u, a + 1, a + b) = SubSeq(u, k, a + b)
  <2>1. k \in 1 .. Len(u) + 1 /\ a \in k - 1 .. Len(u) /\ a + b \in a .. Len(u)
    BY <1>1
  <2> HIDE DEF u, a, b
  <2> QED
    BY <1>1, <2>1, ConcatAdjacentSubSeq
<1> QED
  BY <1>2, <1>3, <1>4

\* A sequence is a prefix of itself and what is appended to it.
LEMMA PrefixJoined ==
    ASSUME NEW S, NEW s \in Seq(S), NEW t \in Seq(S)
    PROVE  IsPrefix(s, s \o t)
<1>1. Len(s) \in Nat /\ Len(t) \in Nat /\ Len(s \o t) = Len(s) + Len(t)
  BY Joined, LenProperties
<1>2. SubSeq(s, 1, Len(s)) = SubSeq(s \o t, 1, Len(s))
  <2>1. CASE Len(s) = 0
    BY <2>1, SubSeqEmpty
  <2>2. CASE Len(s) # 0
    <3>1. 1 \in 1 .. Len(s) /\ Len(s) \in 1 .. Len(s)
      BY <1>1, <2>2
    <3> QED
      BY <3>1, SubSeqOfConcat1
  <2> QED
    BY <2>1, <2>2
<1>3. Len(s) <= Len(s \o t)
  BY <1>1
<1> QED
  BY <1>2, <1>3 DEF IsPrefix

\* A part of the end of a sequence.
LEMMA PartOfRest ==
    ASSUME NEW S, NEW s \in Seq(S), NEW h \in 0 .. Len(s),
           NEW m \in 1 .. Len(s) - h + 1, NEW n \in m - 1 .. Len(s) - h
    PROVE  SubSeq(SubSeq(s, h + 1, Len(s)), m, n) = SubSeq(s, h + m, h + n)
<1> DEFINE a == Len(s)
           b == SubSeq(s, h + 1, a)
<1>1. a \in Nat /\ h \in 0 .. a /\ m \in 1 .. a - h + 1 /\ n \in m - 1 .. a - h
  BY LenProperties
<1>2. CASE n = m - 1
  <2>1. m \in Int /\ n \in Int /\ n < m /\ h + m \in Int /\ h + n \in Int /\ h + n < h + m
    <3> HIDE DEF a
    <3> QED
      BY <1>1, <1>2
  <2>2. SubSeq(b, m, n) = <<>>
    <3> HIDE DEF b
    <3> QED
      BY <2>1, SubSeqEmpty
  <2>3. SubSeq(s, h + m, h + n) = <<>>
    BY <2>1, SubSeqEmpty
  <2> QED
    BY <2>2, <2>3
<1>3. CASE n # m - 1
  <2> DEFINE i == h + 1
  <2>1. /\ i \in 1 .. a /\ a \in 1 .. a /\ m \in 1 .. a - i + 1 /\ n \in 1 .. a - i + 1
        /\ i + m - 1 = h + m /\ i + n - 1 = h + n
    <3> HIDE DEF a
    <3> QED
      BY <1>1, <1>3
  <2> HIDE DEF i
  <2>2. SubSeq(SubSeq(s, i, a), m, n) = SubSeq(s, i + m - 1, i + n - 1)
    BY <2>1, SubSeqOfSubSeq
  <2> QED
    BY <2>1, <2>2 DEF i
<1> QED
  BY <1>2, <1>3

-----------------------------------------------------------------------------
(* FlattenSeq.                                                             *)

\* f holds the first n sequences of seqs, joined up to each of them.
Flattens(f, seqs, n) ==
    f = [i \in 1 .. n |-> IF i = 1 THEN seqs[i] ELSE f[i - 1] \o seqs[i]]

\* There is such a function.
LEMMA FlattensExists ==
    ASSUME NEW seqs, NEW n \in Nat
    PROVE  \E f : Flattens(f, seqs, n)
<1> DEFINE N == {k \in Nat : ~ \E f : Flattens(f, seqs, k)}
<1>1. ASSUME N # {}
      PROVE  FALSE
  <2>1. PICK m \in N : \A k \in N : m <= k
    BY <1>1, LeastNumber
  <2>2. m # 0
    <3>1. Flattens([i \in 1 .. 0 |-> 0], seqs, 0)
      BY DEF Flattens
    <3> QED
      BY <2>1, <3>1
  <2>3. m \in Nat /\ m - 1 \in Nat /\ m - 1 \notin N
    BY <2>1, <2>2
  <2>4. PICK f : Flattens(f, seqs, m - 1)
    BY <2>3
  <2> DEFINE g == [i \in 1 .. m |-> IF i < m THEN f[i]
                                    ELSE IF m = 1 THEN seqs[1] ELSE f[m - 1] \o seqs[m]]
  <2>5. \A i \in 1 .. m :
            g[i] = IF i = 1 THEN seqs[i] ELSE g[i - 1] \o seqs[i]
    <3> SUFFICES ASSUME NEW i \in 1 .. m
                 PROVE  g[i] = IF i = 1 THEN seqs[i] ELSE g[i - 1] \o seqs[i]
      OBVIOUS
    <3>1. CASE i < m
      <4>1. i \in 1 .. m - 1 /\ g[i] = f[i] /\ (i # 1 => g[i - 1] = f[i - 1])
        BY <2>3, <3>1
      <4> QED
        BY <2>4, <4>1 DEF Flattens
    <3>2. CASE i = m
      <4>1. g[i] = (IF m = 1 THEN seqs[1] ELSE f[m - 1] \o seqs[m])
            /\ (m # 1 => g[m - 1] = f[m - 1])
        BY <2>3, <3>2
      <4> QED
        BY <3>2, <4>1
    <3> QED
      BY <2>3, <3>1, <3>2
  <2>6. g = [i \in 1 .. m |-> IF i = 1 THEN seqs[i] ELSE g[i - 1] \o seqs[i]]
    BY <2>5
  <2> HIDE DEF g
  <2>7. Flattens(g, seqs, m)
    BY <2>6 DEF Flattens
  <2> QED
    BY <2>1, <2>7
<1> QED
  BY <1>1

\* The first n elements of s and t are the same.
Agree(s, t, n) == \A i \in 1 .. n : s[i] = t[i]

\* The first n of its values depend on the first n sequences only.
LEMMA FlattensAgree ==
    ASSUME NEW s, NEW t, NEW n \in Nat, NEW m \in Nat, n <= m,
           Agree(s, t, n),
           NEW f, Flattens(f, s, n), NEW g, Flattens(g, t, m)
    PROVE  Agree(f, g, n)
<1> DEFINE N == {i \in 1 .. n : f[i] # g[i]}
<1>1. ASSUME N # {}
      PROVE  FALSE
  <2>1. PICK i \in N : \A k \in N : i <= k
    <3>1. N \subseteq Nat
      OBVIOUS
    <3> HIDE DEF N
    <3> QED
      BY <1>1, <3>1, LeastNumber
  <2>2. /\ i \in 1 .. n /\ i \in 1 .. m /\ s[i] = t[i]
        /\ i # 1 => i - 1 \in 1 .. n /\ i - 1 \notin N
    BY <2>1 DEF Agree
  <2>3. /\ f[i] = IF i = 1 THEN s[i] ELSE f[i - 1] \o s[i]
        /\ g[i] = IF i = 1 THEN t[i] ELSE g[i - 1] \o t[i]
    BY <2>2 DEF Flattens
  <2> QED
    BY <2>1, <2>2, <2>3
<1> QED
  BY <1>1 DEF Agree

\* Joined sequences of elements of S are sequences of elements of S.
LEMMA FlattensTyped ==
    ASSUME NEW S, NEW seqs, NEW n \in Nat, \A i \in 1 .. n : seqs[i] \in Seq(S),
           NEW f, Flattens(f, seqs, n)
    PROVE  \A i \in 1 .. n : f[i] \in Seq(S)
<1> DEFINE N == {i \in 1 .. n : f[i] \notin Seq(S)}
<1>1. ASSUME N # {}
      PROVE  FALSE
  <2>1. PICK i \in N : \A k \in N : i <= k
    <3>1. N \subseteq Nat
      OBVIOUS
    <3> HIDE DEF N
    <3> QED
      BY <1>1, <3>1, LeastNumber
  <2>2. /\ i \in 1 .. n /\ seqs[i] \in Seq(S)
        /\ i # 1 => i - 1 \in 1 .. n /\ i - 1 \notin N
    BY <2>1
  <2>3. f[i] = IF i = 1 THEN seqs[i] ELSE f[i - 1] \o seqs[i]
    BY <2>2 DEF Flattens
  <2>4. i # 1 => f[i - 1] \in Seq(S)
    BY <2>2
  <2>5. f[i] \in Seq(S)
    BY <2>2, <2>3, <2>4, ConcatProperties
  <2> QED
    BY <2>1, <2>5
<1> QED
  BY <1>1

\* FlattenSeq is the last value of such a function.
LEMMA FlattenIs ==
    ASSUME NEW seqs, Len(seqs) \in Nat
    PROVE  /\ Len(seqs) = 0 => FlattenSeq(seqs) = seqs
           /\ \A f : Flattens(f, seqs, Len(seqs)) /\ Len(seqs) # 0 =>
                        FlattenSeq(seqs) = f[Len(seqs)]
<1> DEFINE n == Len(seqs)
           h == CHOOSE f : Flattens(f, seqs, n)
<1>1. n = 0 => FlattenSeq(seqs) = seqs
  BY DEF FlattenSeq
<1>2. n # 0 => FlattenSeq(seqs) = h[n]
  BY DEF FlattenSeq, Flattens
<1>3. Flattens(h, seqs, n)
  BY FlattensExists
<1> HIDE DEF h, n
<1>4. ASSUME NEW f, Flattens(f, seqs, n), n # 0
      PROVE  f[n] = h[n]
  <2>1. n \in Nat /\ n <= n /\ n \in 1 .. n
    BY <1>4 DEF n
  <2>2. Agree(seqs, seqs, n)
    BY DEF Agree
  <2>3. Agree(f, h, n)
    BY <1>3, <1>4, <2>1, <2>2, FlattensAgree
  <2> QED
    BY <2>1, <2>3 DEF Agree
<1> QED
  BY <1>1, <1>2, <1>4 DEF n

\* No sequence gives no element.
LEMMA FlattenEmpty == FlattenSeq(<<>>) = <<>>
<1>1. Len(<<>>) = 0
  BY EmptySeq
<1> QED
  BY <1>1, FlattenIs

\* The elements keep their type.
LEMMA FlattenTyped ==
    ASSUME NEW S, NEW seqs \in Seq(Seq(S))
    PROVE  FlattenSeq(seqs) \in Seq(S)
<1>1. Len(seqs) \in Nat /\ \A i \in 1 .. Len(seqs) : seqs[i] \in Seq(S)
  BY LenProperties, ElementOfSeq
<1>2. CASE Len(seqs) = 0
  BY <1>2, EmptySeq, FlattenEmpty
<1>3. CASE Len(seqs) # 0
  <2>1. PICK f : Flattens(f, seqs, Len(seqs))
    BY <1>1, FlattensExists
  <2>2. \A i \in 1 .. Len(seqs) : f[i] \in Seq(S)
    BY <1>1, <2>1, FlattensTyped
  <2>3. f[Len(seqs)] \in Seq(S)
    BY <1>1, <1>3, <2>2
  <2> QED
    BY <1>1, <1>3, <2>1, <2>3, FlattenIs
<1> QED
  BY <1>2, <1>3

\* One more sequence: its elements come last.
LEMMA FlattenAppend ==
    ASSUME NEW S, NEW seqs \in Seq(Seq(S)), NEW s \in Seq(S)
    PROVE  FlattenSeq(Append(seqs, s)) = FlattenSeq(seqs) \o s
<1> DEFINE n == Len(seqs)
           more == Append(seqs, s)
           m == Len(more)
<1>1. /\ n \in Nat /\ m \in Nat /\ n <= m
      /\ m = n + 1 /\ more[m] = s
      /\ \A i \in 1 .. n : seqs[i] = more[i]
  BY LenProperties, AppendProperties
<1> HIDE DEF n, more, m
<1>2. PICK f : Flattens(f, seqs, n)
  BY <1>1, FlattensExists
<1>3. PICK g : Flattens(g, more, m)
  BY <1>1, FlattensExists
<1>4. Agree(f, g, n)
  <2>1. Agree(seqs, more, n)
    BY <1>1 DEF Agree
  <2> QED
    BY <1>1, <1>2, <1>3, <2>1, FlattensAgree
<1>5. g[m] = IF n = 0 THEN s ELSE g[n] \o s
  <2>1. m \in 1 .. m /\ (m = 1 <=> n = 0) /\ m - 1 = n
    BY <1>1
  <2>2. g[m] = IF m = 1 THEN more[m] ELSE g[m - 1] \o more[m]
    BY <1>3, <2>1 DEF Flattens
  <2> QED
    BY <1>1, <2>1, <2>2
<1>6. FlattenSeq(more) = g[m]
  BY <1>1, <1>3, FlattenIs DEF m
<1>7. CASE n = 0
  <2>1. seqs = <<>>
    BY <1>7, EmptySeq DEF n
  <2> QED
    BY <1>5, <1>6, <1>7, <2>1, FlattenEmpty, ConcatEmptySeq DEF more
<1>8. CASE n # 0
  <2>1. FlattenSeq(seqs) = f[n]
    BY <1>1, <1>2, <1>8, FlattenIs DEF n
  <2>2. f[n] = g[n]
    BY <1>1, <1>4, <1>8 DEF Agree
  <2> QED
    BY <1>1, <1>4, <1>5, <1>6, <1>8, <2>1, <2>2 DEF more
<1> QED
  BY <1>7, <1>8

\* The first k sequences, joined.
Initial(seqs, k) == FlattenSeq([i \in 1 .. k |-> seqs[i]])

LEMMA FrontNext ==
    ASSUME NEW S, NEW seqs \in Seq(Seq(S)), NEW k \in 1 .. Len(seqs)
    PROVE  /\ Initial(seqs, k - 1) \in Seq(S) /\ Initial(seqs, k) \in Seq(S)
           /\ Initial(seqs, k) = Initial(seqs, k - 1) \o seqs[k]
<1> DEFINE n == Len(seqs)
           s == [i \in 1 .. k - 1 |-> seqs[i]]
           t == [i \in 1 .. k |-> seqs[i]]
<1>1. n \in Nat /\ k \in 1 .. n /\ \A i \in 1 .. n : seqs[i] \in Seq(S)
  BY LenProperties, ElementOfSeq
<1>2. s \in Seq(Seq(S)) /\ Len(s) = k - 1
  <2> HIDE DEF n
  <2> QED
    BY <1>1
<1>3. seqs[k] \in Seq(S)
  BY <1>1
<1>4. t \in Seq(Seq(S)) /\ Len(t) = k
  <2> HIDE DEF n
  <2> QED
    BY <1>1
<1>5. t = Append(s, seqs[k])
  <2> DEFINE u == Append(s, seqs[k])
  <2>1. /\ u \in Seq(Seq(S)) /\ Len(u) = (k - 1) + 1
        /\ \A i \in 1 .. k - 1 : u[i] = s[i]
        /\ u[(k - 1) + 1] = seqs[k]
    <3> HIDE DEF s
    <3> QED
      BY <1>2, <1>3, AppendProperties
  <2>2. (k - 1) + 1 = k /\ \A i \in 1 .. k : i \in 1 .. k - 1 \/ i = k
    BY <1>1
  <2>3. /\ \A i \in 1 .. k - 1 : s[i] = seqs[i]
        /\ \A i \in 1 .. k : t[i] = seqs[i]
    OBVIOUS
  <2> HIDE DEF u, s, t, n
  <2>4. Len(t) = Len(u) /\ \A i \in 1 .. Len(t) : t[i] = u[i]
    BY <1>4, <2>1, <2>2, <2>3
  <2>5. t = u
    BY <1>4, <2>1, <2>4, SeqEqual
  <2> QED
    BY <2>5 DEF u
<1> HIDE DEF s, t
<1>6. FlattenSeq(t) = FlattenSeq(s) \o seqs[k]
  BY <1>2, <1>3, <1>5, FlattenAppend
<1> QED
  BY <1>2, <1>4, <1>6, FlattenTyped DEF Initial, s, t

\* Nothing and everything in front.
LEMMA FrontEnds ==
    ASSUME NEW S, NEW seqs \in Seq(Seq(S))
    PROVE  Initial(seqs, 0) = <<>> /\ Initial(seqs, Len(seqs)) = FlattenSeq(seqs)
<1>1. [i \in 1 .. 0 |-> seqs[i]] = <<>>
  OBVIOUS
<1>2. [i \in 1 .. Len(seqs) |-> seqs[i]] = seqs
  OBVIOUS
<1> QED
  BY <1>1, <1>2, FlattenEmpty DEF Initial

\* The elements of s are the first of t.
Begins(s, t) == Len(s) <= Len(t) /\ \A i \in 1 .. Len(s) : t[i] = s[i]

LEMMA BeginsJoined ==
    ASSUME NEW S, NEW s \in Seq(S), NEW t \in Seq(S), NEW u \in Seq(S), Begins(s \o t, u)
    PROVE  /\ Begins(s, u)
           /\ Len(s) + Len(t) <= Len(u)
           /\ \A i \in 1 .. Len(t) : u[Len(s) + i] = t[i]
<1> DEFINE a == Len(s)
           b == Len(t)
           c == Len(u)
           v == s \o t
<1>1. /\ a \in Nat /\ b \in Nat /\ c \in Nat
      /\ Len(v) = a + b
      /\ \A i \in 1 .. a : v[i] = s[i]
      /\ \A i \in 1 .. b : v[a + i] = t[i]
  BY Joined, LenProperties
<1>2. a + b <= c /\ \A i \in 1 .. a + b : u[i] = v[i]
  BY <1>1 DEF Begins
<1> HIDE DEF a, b, c, v
<1>3. a <= c /\ \A i \in 1 .. a : u[i] = s[i]
  BY <1>1, <1>2
<1>4. \A i \in 1 .. b : u[a + i] = t[i]
  BY <1>1, <1>2
<1> QED
  BY <1>2, <1>3, <1>4 DEF Begins, a, b, c

\* The joined sequences begin with the first k of them, joined.
LEMMA FrontBegins ==
    ASSUME NEW S, NEW seqs \in Seq(Seq(S)), NEW k \in 0 .. Len(seqs)
    PROVE  Begins(Initial(seqs, k), FlattenSeq(seqs))
<1> DEFINE n == Len(seqs)
           all == FlattenSeq(seqs)
           N == {j \in 0 .. n : ~Begins(Initial(seqs, j), all)}
<1>1. n \in Nat /\ all \in Seq(S) /\ Len(all) \in Nat
  BY FlattenTyped, LenProperties
<1>2. ASSUME N # {}
      PROVE  FALSE
  <2>1. N \subseteq 0 .. n
    OBVIOUS
  <2>2. PICK m \in N : \A j \in N : j <= m
    <3> HIDE DEF N, n
    <3> QED
      BY <1>1, <1>2, <2>1, GreatestNumber
  <2>3. Begins(Initial(seqs, n), all)
    <3>1. Initial(seqs, n) = all
      BY FrontEnds
    <3> HIDE DEF n, all
    <3> QED
      BY <1>1, <3>1 DEF Begins
  <2>4. m \in 0 .. n /\ m # n /\ ~Begins(Initial(seqs, m), all)
    BY <2>3
  <2> DEFINE k1 == m + 1
  <2>5. k1 \in 1 .. n /\ k1 - 1 = m /\ k1 \notin N
    <3>1. m \in Nat
      BY <1>1, <2>4
    <3>2. k1 \notin N
      <4> HIDE DEF N
      <4> QED
        BY <2>2, <3>1
    <3> HIDE DEF N, n
    <3> QED
      BY <1>1, <2>4, <3>2
  <2>6. Begins(Initial(seqs, k1), all)
    BY <1>1, <2>5
  <2> HIDE DEF N, k1, all
  <2>7. /\ Initial(seqs, k1) = Initial(seqs, m) \o seqs[k1]
        /\ Initial(seqs, m) \in Seq(S) /\ seqs[k1] \in Seq(S)
    BY <2>5, FrontNext, ElementOfSeq
  <2>8. Begins(Initial(seqs, m), all)
    BY <1>1, <2>6, <2>7, BeginsJoined
  <2> QED
    BY <2>4, <2>8
<1> QED
  BY <1>2

\* Where the k-th sequence is in all of them joined.
LiesAt(seqs, k) ==
    /\ Len(Initial(seqs, k - 1)) \in Nat
    /\ Len(Initial(seqs, k)) = Len(Initial(seqs, k - 1)) + Len(seqs[k])
    /\ Len(Initial(seqs, k)) <= Len(FlattenSeq(seqs))
    /\ \A i \in 1 .. Len(seqs[k]) :
            FlattenSeq(seqs)[Len(Initial(seqs, k - 1)) + i] = seqs[k][i]

LEMMA FlattenAt ==
    ASSUME NEW S, NEW seqs \in Seq(Seq(S)), NEW k \in 1 .. Len(seqs)
    PROVE  LiesAt(seqs, k)
<1> DEFINE f == Initial(seqs, k - 1)
           g == Initial(seqs, k)
           all == FlattenSeq(seqs)
           s == seqs[k]
<1>1. s \in Seq(S) /\ f \in Seq(S) /\ g \in Seq(S) /\ all \in Seq(S) /\ g = f \o s
  BY FrontNext, FlattenTyped, ElementOfSeq
<1>2. Begins(g, all)
  <2>1. k \in 0 .. Len(seqs)
    BY LenProperties
  <2> QED
    BY <2>1, FrontBegins
<1> HIDE DEF f, g, all, s
<1>3. /\ Len(f) + Len(s) <= Len(all)
      /\ \A i \in 1 .. Len(s) : all[Len(f) + i] = s[i]
  BY <1>1, <1>2, BeginsJoined
<1>4. Len(g) = Len(f) + Len(s) /\ Len(f) \in Nat
  BY <1>1, Joined, LenProperties
<1> QED
  BY <1>3, <1>4 DEF f, g, all, s, LiesAt

-----------------------------------------------------------------------------
(* A sequence in a longer one.                                             *)

\* u is in s behind the first h elements.
Lies(u, s, h) ==
    /\ h + Len(u) <= Len(s)
    /\ \A i \in 1 .. Len(u) : s[h + i] = u[i]

LEMMA LiesInBoth ==
    ASSUME NEW S, NEW s \in Seq(S), NEW t \in Seq(S)
    PROVE  Lies(s, s \o t, 0) /\ Lies(t, s \o t, Len(s))
<1> DEFINE u == s \o t
           a == Len(s)
           b == Len(t)
<1>1. /\ Len(u) = a + b /\ a \in Nat /\ b \in Nat
      /\ \A i \in 1 .. a : u[i] = s[i]
      /\ \A i \in 1 .. b : u[a + i] = t[i]
  BY Joined, LenProperties
<1> HIDE DEF u, a, b
<1>2. /\ 0 + a <= Len(u) /\ \A i \in 1 .. a : u[0 + i] = s[i]
      /\ a + b <= Len(u) /\ \A i \in 1 .. b : u[a + i] = t[i]
  BY <1>1
<1> QED
  BY <1>2 DEF Lies, u, a, b

LEMMA LiesIn ==
    ASSUME NEW S, NEW u \in Seq(S), NEW v \in Seq(S), NEW s \in Seq(S), NEW a \in Nat, NEW h \in Nat,
           Lies(u, v, a), Lies(v, s, h)
    PROVE  Lies(u, s, h + a)
<1> DEFINE m == Len(u)
           n == Len(v)
<1>1. m \in Nat /\ n \in Nat /\ Len(s) \in Nat
  BY LenProperties
<1>2. a + m <= n /\ h + n <= Len(s)
  BY DEF Lies
<1>3. ASSUME NEW i \in 1 .. m
      PROVE  s[h + a + i] = u[i]
  <2>1. v[a + i] = u[i]
    BY DEF Lies
  <2>2. a + i \in 1 .. n /\ h + (a + i) = h + a + i
    <3> HIDE DEF m, n
    <3> QED
      BY <1>1, <1>2
  <2>3. s[h + (a + i)] = v[a + i]
    BY <2>2 DEF Lies
  <2> QED
    BY <2>1, <2>2, <2>3
<1>4. h + a + m <= Len(s)
  <2> HIDE DEF m, n
  <2> QED
    BY <1>1, <1>2
<1> QED
  BY <1>3, <1>4 DEF Lies

\* u is what s has between a and b, behind a separator or not.
Spaced(u, s, sep, a, b) ==
    \/ Lies(u, s, a) /\ b = a + Len(u)
    \/ a + 1 <= Len(s) /\ s[a + 1] = sep /\ Lies(u, s, a + 1) /\ b = a + 1 + Len(u)

\* The sequences of list follow each other in s, k of them up to place at[k].
Chain(list, s, sep, at) ==
    /\ at \in [0 .. Len(list) -> Nat]
    /\ \A k \in 1 .. Len(list) : Spaced(list[k], s, sep, at[k - 1], at[k])

\* They do so from one place to another.
Chained(list, s, sep, from, upto) ==
    \E at : Chain(list, s, sep, at) /\ at[0] = from /\ at[Len(list)] = upto

LEMMA ChainIn ==
    ASSUME NEW S, NEW list \in Seq(Seq(S)), NEW v \in Seq(S), NEW s \in Seq(S), NEW h \in Nat,
           NEW sep, NEW at, Chain(list, v, sep, at), Lies(v, s, h)
    PROVE  Chain(list, s, sep, [k \in 0 .. Len(list) |-> h + at[k]])
<1> DEFINE n == Len(list)
           new == [k \in 0 .. n |-> h + at[k]]
<1>1. n \in Nat /\ Len(s) \in Nat /\ Len(v) \in Nat /\ at \in [0 .. n -> Nat]
  BY LenProperties DEF Chain
<1>2. ASSUME NEW k \in 1 .. n
      PROVE  Spaced(list[k], s, sep, new[k - 1], new[k])
  <2> DEFINE u == list[k]
             a == at[k - 1]
             b == at[k]
  <2>1. u \in Seq(S) /\ Len(u) \in Nat
    BY ElementOfSeq, LenProperties
  <2>2. k - 1 \in 0 .. n /\ k \in 0 .. n
    <3> HIDE DEF n
    <3> QED
      BY <1>1
  <2>3. new[k - 1] = h + a /\ new[k] = h + b /\ a \in Nat /\ b \in Nat
    <3> HIDE DEF n
    <3> QED
      BY <1>1, <2>2
  <2>4. Spaced(u, v, sep, a, b)
    BY DEF Chain
  <2> HIDE DEF n, new, u, a, b
  <2>5. CASE Lies(u, v, a) /\ b = a + Len(u)
    <3>1. Lies(u, s, h + a)
      BY <2>1, <2>3, <2>5, LiesIn
    <3>2. h + b = h + a + Len(u)
      BY <2>1, <2>3, <2>5
    <3> QED
      BY <2>3, <3>1, <3>2 DEF Spaced, u
  <2>6. CASE a + 1 <= Len(v) /\ v[a + 1] = sep /\ Lies(u, v, a + 1) /\ b = a + 1 + Len(u)
    <3>1. a + 1 \in Nat /\ h + (a + 1) = h + a + 1 /\ a + 1 \in 1 .. Len(v)
      BY <1>1, <2>3, <2>6
    <3>2. Lies(u, s, h + (a + 1))
      BY <2>1, <2>3, <2>6, <3>1, LiesIn
    <3>3. s[h + (a + 1)] = sep /\ h + Len(v) <= Len(s)
      BY <2>6, <3>1 DEF Lies
    <3>4. h + b = h + a + 1 + Len(u) /\ h + a + 1 <= Len(s)
      BY <1>1, <2>1, <2>3, <2>6, <3>3
    <3> QED
      BY <2>3, <3>1, <3>2, <3>3, <3>4 DEF Spaced, u
  <2> QED
    BY <2>4, <2>5, <2>6 DEF Spaced, u
<1>3. new \in [0 .. n -> Nat]
  BY <1>1
<1> QED
  BY <1>2, <1>3 DEF Chain

\* The same places, one by one.
LEMMA ChainMoved ==
    ASSUME NEW S, NEW list \in Seq(Seq(S)), NEW v \in Seq(S), NEW s \in Seq(S), NEW h \in Nat,
           NEW sep, NEW at, Chain(list, v, sep, at), Lies(v, s, h),
           NEW new, DOMAIN new = 0 .. Len(list), new = [k \in DOMAIN new |-> new[k]],
           \A k \in 0 .. Len(list) : new[k] = h + at[k]
    PROVE  Chain(list, s, sep, new)
<1>1. PICK moved : moved = [k \in 0 .. Len(list) |-> h + at[k]]
  OBVIOUS
<1>2. Chain(list, s, sep, moved)
  BY <1>1, ChainIn
<1>3. moved = new
  BY <1>1
<1> QED
  BY <1>2, <1>3

\* The places of a chain do not fall.
LEMMA ChainRises ==
    ASSUME NEW S, NEW list \in Seq(Seq(S)), NEW s, NEW sep, NEW at, Chain(list, s, sep, at)
    PROVE  /\ \A k \in 0 .. Len(list) : at[k] \in Nat /\ at[k] <= at[Len(list)]
           /\ \A k \in 1 .. Len(list) : at[k - 1] + Len(list[k]) <= at[k]
<1> DEFINE n == Len(list)
           N == {k \in 0 .. n : ~(at[k] <= at[n])}
<1>1. n \in Nat /\ n \in 0 .. n /\ \A k \in 0 .. n : at[k] \in Nat
  <2>1. n \in Nat
    BY LenProperties
  <2>2. at \in [0 .. n -> Nat]
    BY DEF Chain
  <2> HIDE DEF n
  <2> QED
    BY <2>1, <2>2
<1>2. ASSUME NEW k \in 1 .. n
      PROVE  k - 1 \in 0 .. n /\ at[k - 1] + Len(list[k]) <= at[k] /\ at[k - 1] <= at[k]
  <2> DEFINE a == at[k - 1]
             b == at[k]
             m == Len(list[k])
  <2>1. k - 1 \in 0 .. n /\ k \in 0 .. n
    <3> HIDE DEF n
    <3> QED
      BY <1>1
  <2>2. a \in Nat /\ b \in Nat /\ m \in Nat
    BY <1>1, <2>1, ElementOfSeq, LenProperties
  <2>3. b = a + m \/ b = a + 1 + m
    BY DEF Chain, Spaced
  <2> HIDE DEF a, b, m
  <2>4. a + m <= b /\ a <= b
    BY <2>2, <2>3
  <2> QED
    BY <2>1, <2>4 DEF a, b, m
<1>3. ASSUME N # {}
      PROVE  FALSE
  <2>1. PICK m \in N : \A j \in N : j <= m
    <3>1. N \subseteq 0 .. n
      OBVIOUS
    <3> HIDE DEF N, n
    <3> QED
      BY <1>1, <1>3, <3>1, GreatestNumber
  <2>2. m \in 0 .. n /\ m # n /\ ~(at[m] <= at[n])
    <3>1. m \in 0 .. n /\ ~(at[m] <= at[n])
      OBVIOUS
    <3>2. m # n
      BY <1>1, <3>1
    <3> QED
      BY <3>1, <3>2
  <2> DEFINE k == m + 1
  <2>3. k \in 1 .. n /\ k \in 0 .. n /\ k - 1 = m /\ ~(k <= m)
    <3> HIDE DEF n, N
    <3> QED
      BY <1>1, <2>2
  <2> HIDE DEF k
  <2>4. at[m] <= at[k] /\ at[m] \in Nat /\ at[k] \in Nat /\ at[n] \in Nat
    BY <1>1, <1>2, <2>2, <2>3
  <2>5. ~(at[k] <= at[n])
    BY <2>2, <2>4
  <2>6. k \in N
    BY <2>3, <2>5
  <2> HIDE DEF N
  <2> QED
    BY <2>1, <2>3, <2>6
<1>4. \A k \in 0 .. n : at[k] <= at[n]
  BY <1>3
<1> QED
  BY <1>1, <1>2, <1>4

\* What FlattenSeq joins follows each other.
LEMMA FlattenChain ==
    ASSUME NEW S, NEW list \in Seq(Seq(S)),
           NEW at, at = [k \in 0 .. Len(list) |-> Len(Initial(list, k))]
    PROVE  /\ at \in [0 .. Len(list) -> Nat]
           /\ at[0] = 0 /\ at[Len(list)] = Len(FlattenSeq(list))
           /\ \A k \in 1 .. Len(list) :
                Lies(list[k], FlattenSeq(list), at[k - 1]) /\ at[k] = at[k - 1] + Len(list[k])
<1> DEFINE n == Len(list)
           all == FlattenSeq(list)
<1>1. n \in Nat /\ all \in Seq(S) /\ Len(all) \in Nat
  BY FlattenTyped, LenProperties
<1>2. at[0] = 0 /\ at[n] = Len(all)
  <2>1. Initial(list, 0) = <<>> /\ Initial(list, n) = all
    BY FrontEnds
  <2>2. Len(<<>>) = 0
    OBVIOUS
  <2> HIDE DEF n
  <2>3. at[0] = Len(Initial(list, 0)) /\ at[n] = Len(Initial(list, n))
    BY <1>1 DEF n
  <2> QED
    BY <2>1, <2>2, <2>3
<1>3. ASSUME NEW k \in 1 .. n
      PROVE  Lies(list[k], all, at[k - 1]) /\ at[k] = at[k - 1] + Len(list[k]) /\ at[k] \in Nat
  <2>1. LiesAt(list, k)
    BY FlattenAt
  <2>2. k - 1 \in 0 .. n /\ k \in 0 .. n
    <3> HIDE DEF n
    <3> QED
      BY <1>1
  <2>3. at[k - 1] = Len(Initial(list, k - 1)) /\ at[k] = Len(Initial(list, k))
    BY <2>2
  <2>4. Len(list[k]) \in Nat
    BY ElementOfSeq, LenProperties
  <2> HIDE DEF n, all
  <2>5. at[k] = at[k - 1] + Len(list[k]) /\ at[k] <= Len(all) /\ at[k - 1] \in Nat
    BY <2>1, <2>3 DEF LiesAt, all
  <2>6. \A i \in 1 .. Len(list[k]) : all[at[k - 1] + i] = list[k][i]
    BY <2>1, <2>3 DEF LiesAt, all
  <2>7. at[k - 1] + Len(list[k]) <= Len(all)
    BY <2>5
  <2>8. Lies(list[k], all, at[k - 1])
    BY <2>6, <2>7 DEF Lies
  <2>9. at[k] \in Nat
    BY <2>4, <2>5
  <2> QED
    BY <2>5, <2>8, <2>9
<1>4. at \in [0 .. n -> Nat]
  <2>1. \A k \in 0 .. n : at[k] = Len(Initial(list, k))
    OBVIOUS
  <2>2. \A k \in 0 .. n : k = 0 \/ k \in 1 .. n
    <3> HIDE DEF n
    <3> QED
      BY <1>1
  <2>3. \A k \in 0 .. n : at[k] \in Nat
    BY <1>2, <1>3, <2>2
  <2> QED
    BY <2>3
<1> QED
  BY <1>2, <1>3, <1>4

\* A sequence between a first and a last element.
Frames(v, a, u, b) == v = <<a>> \o u \o <<b>>

LEMMA Framed ==
    ASSUME NEW S, NEW a \in S, NEW b \in S, NEW u \in Seq(S), NEW v, Frames(v, a, u, b)
    PROVE  /\ v \in Seq(S) /\ Len(v) = Len(u) + 2 /\ v[1] = a /\ v[Len(v)] = b
           /\ Lies(u, v, 1)
<1>1. /\ <<a>> \in Seq(S) /\ <<b>> \in Seq(S) /\ Len(<<a>>) = 1 /\ Len(<<b>>) = 1
      /\ <<a>>[1] = a /\ <<b>>[1] = b
  OBVIOUS
<1> DEFINE w == <<a>> \o u
<1>2. /\ w \in Seq(S) /\ Len(w) = 1 + Len(u) /\ Len(u) \in Nat
      /\ w[1] = a /\ \A i \in 1 .. Len(u) : w[1 + i] = u[i]
  <2>1. /\ w \in Seq(S) /\ Len(w) = 1 + Len(u)
        /\ \A i \in 1 .. 1 : w[i] = <<a>>[i]
        /\ \A i \in 1 .. Len(u) : w[1 + i] = u[i]
    BY <1>1, Joined
  <2>2. w[1] = <<a>>[1]
    BY <2>1
  <2> QED
    BY <1>1, <2>1, <2>2, LenProperties
<1> HIDE DEF w
<1>3. /\ v \in Seq(S) /\ Len(v) = Len(w) + 1
      /\ \A i \in 1 .. Len(w) : v[i] = w[i]
      /\ \A i \in 1 .. 1 : v[Len(w) + i] = <<b>>[i]
  BY <1>1, <1>2, Joined DEF w, Frames
<1>4. Len(v) = Len(u) + 2 /\ v[1] = a /\ v[Len(v)] = b
  BY <1>1, <1>2, <1>3
<1>5. Lies(u, v, 1)
  <2>1. \A i \in 1 .. Len(u) : v[1 + i] = u[i]
    <3> SUFFICES ASSUME NEW i \in 1 .. Len(u)
                 PROVE  v[1 + i] = u[i]
      OBVIOUS
    <3>1. 1 + i \in 1 .. Len(w)
      BY <1>2
    <3> QED
      BY <1>2, <1>3, <3>1
  <2>2. 1 + Len(u) <= Len(v)
    BY <1>2, <1>4
  <2> QED
    BY <2>1, <2>2 DEF Lies
<1> QED
  BY <1>3, <1>4, <1>5

\* And a chain.
LEMMA FramedChain ==
    ASSUME NEW S, NEW u \in Seq(S), NEW v \in Seq(S), Lies(u, v, 1), NEW list \in Seq(Seq(S)),
           NEW sep, NEW end, Chained(list, u, sep, 0, end), end \in Int,
           NEW upto \in Int, upto = end + 1
    PROVE  Chained(list, v, sep, 1, upto)
<1>1. PICK at : Chain(list, u, sep, at) /\ at[0] = 0 /\ at[Len(list)] = end
  BY DEF Chained
<1> DEFINE n == Len(list)
           to == [k \in 0 .. n |-> 1 + at[k]]
<1>2. Chain(list, v, sep, to)
  <2>1. PICK h \in Nat : h = 1
    OBVIOUS
  <2>2. Chain(list, v, sep, [k \in 0 .. Len(list) |-> h + at[k]])
    <3>1. v \in Seq(S) /\ Lies(u, v, h)
      BY <2>1
    <3> QED
      BY <1>1, <3>1, ChainIn
  <2>3. to = [k \in 0 .. Len(list) |-> h + at[k]]
    BY <2>1
  <2> HIDE DEF to
  <2> QED
    BY <2>2, <2>3
<1>3. to[0] = 1 /\ to[n] = upto
  <2>1. n \in Nat
    BY LenProperties
  <2> HIDE DEF n
  <2>2. to[0] = 1 + at[0] /\ to[n] = 1 + at[n]
    BY <2>1
  <2> HIDE DEF to
  <2> QED
    BY <1>1, <2>2 DEF n
<1> HIDE DEF to
<1>4. Chained(list, v, sep, 1, upto)
  BY <1>2, <1>3 DEF Chained
<1> QED
  BY <1>4

\* Both.
LEMMA FramedList ==
    ASSUME NEW S, NEW a \in S, NEW b \in S, NEW u \in Seq(S), NEW list \in Seq(Seq(S)), NEW sep,
           Chained(list, u, sep, 0, Len(u)), NEW v, Frames(v, a, u, b)
    PROVE  /\ v \in Seq(S) /\ Len(v) > 1 /\ v[1] = a /\ v[Len(v)] = b
           /\ \A upto \in Int : upto = Len(v) - 1 => Chained(list, v, sep, 1, upto)
<1>1. v \in Seq(S) /\ Len(v) = Len(u) + 2 /\ v[1] = a /\ v[Len(v)] = b /\ Lies(u, v, 1)
  BY Framed
<1>2. Len(u) \in Nat
  BY LenProperties
<1> DEFINE end == Len(u)
<1>3. end \in Int /\ Chained(list, u, sep, 0, end)
  BY <1>2
<1>4. ASSUME NEW upto \in Int, upto = Len(v) - 1
      PROVE  Chained(list, v, sep, 1, upto)
  <2>1. upto = end + 1
    BY <1>1, <1>2, <1>4
  <2> HIDE DEF end
  <2> QED
    BY <1>1, <1>3, <2>1, FramedChain
<1> QED
  BY <1>1, <1>2, <1>4

\* A chain in a sequence that lies in another.
LEMMA ChainedIn ==
    ASSUME NEW S, NEW list \in Seq(Seq(S)), NEW v \in Seq(S), NEW s \in Seq(S), NEW h \in Nat, Lies(v, s, h),
           NEW sep, NEW from, NEW upto, Chained(list, v, sep, from, upto),
           NEW first \in Int, first = h + from, NEW last \in Int, last = h + upto
    PROVE  Chained(list, s, sep, first, last)
<1>1. PICK at : Chain(list, v, sep, at) /\ at[0] = from /\ at[Len(list)] = upto
  BY DEF Chained
<1> DEFINE n == Len(list)
           to == [k \in 0 .. n |-> h + at[k]]
<1>2. Chain(list, s, sep, to)
  BY <1>1, ChainIn
<1>3. to[0] = first /\ to[n] = last
  <2>1. n \in Nat
    BY LenProperties
  <2> HIDE DEF n
  <2>2. to[0] = h + at[0] /\ to[n] = h + at[n]
    BY <2>1
  <2> QED
    BY <1>1, <2>2 DEF n
<1> HIDE DEF to
<1> QED
  BY <1>2, <1>3 DEF Chained

\* A chain behind a head.
LEMMA Headed ==
    ASSUME NEW S, NEW h \in Seq(S), NEW u \in Seq(S), NEW list \in Seq(Seq(S)),
           NEW sep, NEW from, NEW upto, Chained(list, u, sep, from, upto),
           NEW first \in Int, first = Len(h) + from, NEW last \in Int, last = Len(h) + upto
    PROVE  Chained(list, h \o u, sep, first, last)
<1> DEFINE v == h \o u
           m == Len(h)
<1>1. v \in Seq(S) /\ Lies(u, v, m) /\ m \in Nat
  BY Joined, LiesInBoth, LenProperties
<1>2. first = m + from /\ last = m + upto
  OBVIOUS
<1> HIDE DEF v, m
<1>3. Chained(list, v, sep, first, last)
  BY <1>1, <1>2, ChainedIn
<1> QED
  BY <1>3 DEF v

\* A sequence behind three elements.
Heads(t, a, b, c, v) == t = <<a, b, c>> \o v

LEMMA Headed3 ==
    ASSUME NEW S, NEW a \in S, NEW b \in S, NEW c \in S, NEW v \in Seq(S), NEW t, Heads(t, a, b, c, v)
    PROVE  /\ t \in Seq(S) /\ Len(v) \in Nat /\ Len(t) = 3 + Len(v)
           /\ t[1] = a /\ t[2] = b /\ t[3] = c
           /\ \A i \in 1 .. Len(v) : t[3 + i] = v[i]
           /\ Len(v) > 0 => t[4] = v[1] /\ t[Len(t)] = v[Len(v)]
<1> DEFINE h == <<a, b, c>>
           u == h \o v
           m == Len(h)
<1>1. h \in Seq(S) /\ Len(h) = 3 /\ h[1] = a /\ h[2] = b /\ h[3] = c
  OBVIOUS
<1> HIDE DEF h
<1>2. Len(v) \in Nat
  BY LenProperties
<1>3. /\ h \o v \in Seq(S) /\ Len(h \o v) = Len(h) + Len(v)
      /\ \A i \in 1 .. Len(h) : (h \o v)[i] = h[i]
      /\ \A i \in 1 .. Len(v) : (h \o v)[Len(h) + i] = v[i]
  <2>1. h \in Seq(S) /\ v \in Seq(S)
    BY <1>1
  <2> QED
    BY <2>1, Joined
<1> HIDE DEF u, m
<1>4. /\ m = 3 /\ u \in Seq(S) /\ Len(u) = m + Len(v)
      /\ (\A i \in 1 .. m : u[i] = h[i]) /\ \A i \in 1 .. Len(v) : u[m + i] = v[i]
  BY <1>1, <1>3 DEF u, m
<1>5. /\ u \in Seq(S) /\ Len(u) = 3 + Len(v)
      /\ u[1] = a /\ u[2] = b /\ u[3] = c /\ \A i \in 1 .. Len(v) : u[3 + i] = v[i]
  BY <1>1, <1>4
<1>6. u = t
  BY DEF Heads, u, h
<1>7. Len(v) > 0 => t[4] = v[1] /\ t[Len(t)] = v[Len(v)]
  <2> SUFFICES ASSUME Len(v) > 0 PROVE t[4] = v[1] /\ t[Len(t)] = v[Len(v)]
    OBVIOUS
  <2>1. 1 \in 1 .. Len(v) /\ Len(v) \in 1 .. Len(v) /\ 3 + 1 = 4
    BY <1>2
  <2>2. t[3 + 1] = v[1] /\ t[3 + Len(v)] = v[Len(v)]
    BY <1>5, <1>6, <2>1
  <2> QED
    BY <1>5, <1>6, <2>1, <2>2
<1> QED
  BY <1>2, <1>5, <1>6, <1>7

\* And a chain in it.
LEMMA Headed3Chain ==
    ASSUME NEW S, NEW a \in S, NEW b \in S, NEW c \in S, NEW v \in Seq(S), NEW t, Heads(t, a, b, c, v),
           NEW list \in Seq(Seq(S)), NEW sep,
           \A upto \in Int : upto = Len(v) - 1 => Chained(list, v, sep, 1, upto)
    PROVE  \A upto \in Int : upto = Len(t) - 1 => Chained(list, t, sep, 4, upto)
<1> DEFINE h == <<a, b, c>>
           m == Len(v) - 1
<1>1. h \in Seq(S) /\ Len(h) = 3
  OBVIOUS
<1>2. Len(v) \in Nat /\ Len(t) = 3 + Len(v)
  BY Headed3
<1>3. m \in Int /\ Chained(list, v, sep, 1, m)
  BY <1>2
<1>4. ASSUME NEW upto \in Int, upto = Len(t) - 1
      PROVE  upto = 3 + m
  BY <1>2, <1>4
<1> HIDE DEF h, m
<1>5. ASSUME NEW upto \in Int, upto = Len(t) - 1
      PROVE  Chained(list, h \o v, sep, 4, upto)
  <2>1. 4 \in Int /\ 4 = 3 + 1 /\ upto = 3 + m
    BY <1>4, <1>5
  <2> QED
    BY <1>1, <1>3, <2>1, Headed
<1>6. t = h \o v
  BY DEF Heads, h
<1> QED
  BY <1>5, <1>6

\* Where FlattenSeq has joined them there is a chain.
LEMMA FlattenChained ==
    ASSUME NEW S, NEW list \in Seq(Seq(S)), NEW sep
    PROVE  Chained(list, FlattenSeq(list), sep, 0, Len(FlattenSeq(list)))
<1> DEFINE at == [k \in 0 .. Len(list) |-> Len(Initial(list, k))]
<1>1. /\ at \in [0 .. Len(list) -> Nat]
      /\ at[0] = 0 /\ at[Len(list)] = Len(FlattenSeq(list))
      /\ \A k \in 1 .. Len(list) :
            Lies(list[k], FlattenSeq(list), at[k - 1]) /\ at[k] = at[k - 1] + Len(list[k])
  BY FlattenChain
<1> HIDE DEF at
<1>2. Chain(list, FlattenSeq(list), sep, at)
  BY <1>1 DEF Chain, Spaced
<1> QED
  BY <1>1, <1>2 DEF Chained

=============================================================================
