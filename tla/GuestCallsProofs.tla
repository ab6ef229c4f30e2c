-------------------------- MODULE GuestCallsProofs --------------------------
(***************************************************************************)
(* The SDK's codecs, for every message, batch, envelope and output, of any *)
(* size, and for any integer widths.                                       *)
(*                                                                         *)
(* The argument has four parts.  Sequences: what the sum and the           *)
(* concatenation of a sequence's elements are, one element at a time.      *)
(* Inputs: the pieces a decoder takes follow each other in the tail, so    *)
(* what is put together from them is the tail.  Outputs: each piece of the *)
(* writer has the size the length functions give it.  Calls: what arrives, *)
(* is read and is answered keeps its type, and a contract's constructor    *)
(* fields are those of an envelope that was checked.                       *)
(***************************************************************************)
EXTENDS GuestCalls, FiniteSetTheorems, SequenceTheorems, TLAPS

----------------------------------------------------------------------------
(***************************************************************************)
(* Sequences.                                                              *)
(***************************************************************************)

(* A set of naturals with zero and the successor of each member is all.     *)
LEMMA CountingUp ==
  ASSUME NEW T, T \subseteq Nat, 0 \in T, \A n \in T : n + 1 \in T
  PROVE  T = Nat
  <1> SUFFICES ASSUME Nat \ T # {} PROVE FALSE
    OBVIOUS
  <1>1. PICK x \in Nat \ T : \A y \in Nat \ T : <<y, x>> \notin OpToRel(<, Nat)
    BY NatLessThanWellFounded, WFMin
  <1>2. x - 1 \in Nat /\ x - 1 < x
    OBVIOUS
  <1>3. x - 1 \in T
    BY <1>1, <1>2 DEF OpToRel
  <1>4. (x - 1) + 1 = x
    OBVIOUS
  <1> QED BY <1>1, <1>3, <1>4

(* A function on 1..n is a sequence of length n.                            *)
LEMMA FunctionIsSeq ==
  ASSUME NEW S, NEW n \in Nat, NEW s \in [1..n -> S]
  PROVE  s \in Seq(S) /\ Len(s) = n /\ \A i \in 1..n : s[i] \in S
  OBVIOUS

(* The largest element of a set of numbers up to n + 1 that n + 1 is in.    *)
LEMMA LargestIs ==
  ASSUME NEW n \in Nat, NEW d \in SUBSET (1..(n + 1)), n + 1 \in d
  PROVE  Max(d) = n + 1
  <1>1. \A y \in d : n + 1 >= y
    OBVIOUS
  <1>2. Max(d) \in d /\ \A y \in d : Max(d) >= y
    BY <1>1 DEF Max
  <1>3. Max(d) \in 1..(n + 1) /\ Max(d) >= n + 1
    BY <1>2
  <1> QED BY <1>3

(* h sums the elements of q that each set of indices picks.                 *)
Sums(h, q, n) ==
    /\ h[{}] = 0
    /\ \A d \in SUBSET (1..n) : d # {} => h[d] = h[d \ {Max(d)}] + q[Max(d)]

Summed(q, n) == \E h \in [SUBSET (1..n) -> Nat] : Sums(h, q, n)

(* There is a function that sums the elements of q over sets of indices.    *)
LEMMA SumsExist ==
  ASSUME NEW n \in Nat, NEW q \in [1..n -> Nat]
  PROVE  Summed(q, n)
  <1> DEFINE T == {m \in Nat : m <= n => Summed(q, m)}
  <1>1. 0 \in T
    <2> DEFINE h == [d \in SUBSET (1..0) |-> 0]
    <2>1. h \in [SUBSET (1..0) -> Nat] /\ h[{}] = 0
      OBVIOUS
    <2>2. \A d \in SUBSET (1..0) : d = {}
      OBVIOUS
    <2>3. Sums(h, q, 0)
      <3> HIDE DEF h
      <3> QED BY <2>1, <2>2 DEF Sums
    <2> HIDE DEF h
    <2>4. Summed(q, 0)
      BY <2>1, <2>3 DEF Summed
    <2> QED BY <2>4
  <1>2. ASSUME NEW m \in T PROVE m + 1 \in T
    <2>1. m \in Nat /\ (m <= n => Summed(q, m))
      OBVIOUS
    <2> SUFFICES ASSUME m + 1 <= n PROVE Summed(q, m + 1)
      BY <2>1
    <2>2. PICK f \in [SUBSET (1..m) -> Nat] : Sums(f, q, m)
      <3>1. Summed(q, m)
        BY <2>1
      <3> QED BY <3>1 DEF Summed
    <2> DEFINE g == [d \in SUBSET (1..(m + 1)) |->
                       IF m + 1 \in d THEN f[d \ {m + 1}] + q[m + 1] ELSE f[d]]
    <2>3. \A d \in SUBSET (1..(m + 1)) : d \ {m + 1} \in SUBSET (1..m)
      BY <2>1
    <2>4. \A d \in SUBSET (1..(m + 1)) : m + 1 \notin d => d \in SUBSET (1..m)
      <3> SUFFICES ASSUME NEW d \in SUBSET (1..(m + 1)), m + 1 \notin d, NEW y \in d
                   PROVE  y \in 1..m
        OBVIOUS
      <3>1. y \in 1..(m + 1) /\ y # m + 1
        OBVIOUS
      <3> QED BY <2>1, <3>1
    <2>5. m + 1 \in 1..n /\ q[m + 1] \in Nat
      BY <2>1
    <2>6. g \in [SUBSET (1..(m + 1)) -> Nat]
      <3>1. ASSUME NEW d \in SUBSET (1..(m + 1))
            PROVE  (IF m + 1 \in d THEN f[d \ {m + 1}] + q[m + 1] ELSE f[d]) \in Nat
        <4>1. CASE m + 1 \in d
          <5>1. f[d \ {m + 1}] \in Nat
            BY <2>3
          <5> QED BY <2>5, <4>1, <5>1
        <4>2. CASE m + 1 \notin d
          BY <2>4, <4>2
        <4> QED BY <4>1, <4>2
      <3> QED BY <3>1
    <2>7. g[{}] = 0
      BY <2>2 DEF Sums
    <2>8. ASSUME NEW d \in SUBSET (1..(m + 1)), d # {}
          PROVE  g[d] = g[d \ {Max(d)}] + q[Max(d)]
      <3>1. CASE m + 1 \in d
        <4>1. Max(d) = m + 1
          BY <2>1, <3>1, LargestIs
        <4>2. g[d \ {m + 1}] = f[d \ {m + 1}]
          <5>1. d \ {m + 1} \in SUBSET (1..(m + 1)) /\ m + 1 \notin d \ {m + 1}
            OBVIOUS
          <5> QED BY <5>1
        <4> QED BY <3>1, <4>1, <4>2
      <3>2. CASE m + 1 \notin d
        <4>1. d \in SUBSET (1..m) /\ d \ {Max(d)} \in SUBSET (1..(m + 1))
          BY <2>4, <3>2
        <4>2. g[d] = f[d] /\ g[d \ {Max(d)}] = f[d \ {Max(d)}]
          BY <3>2, <4>1
        <4>3. f[d] = f[d \ {Max(d)}] + q[Max(d)]
          BY <2>2, <2>8, <4>1 DEF Sums
        <4> QED BY <4>2, <4>3
      <3> QED BY <3>1, <3>2
    <2> HIDE DEF g
    <2>9. Sums(g, q, m + 1)
      BY <2>7, <2>8 DEF Sums
    <2> QED BY <2>6, <2>9 DEF Summed
  <1> HIDE DEF T
  <1>3. T = Nat
    <2>1. T \subseteq Nat
      BY DEF T
    <2> QED BY <1>1, <1>2, <2>1, CountingUp
  <1> QED BY <1>3 DEF T

(* P[k] is the sum of the first k elements of q.                            *)
Accumulates(P, q) ==
    /\ P \in [0..Len(q) -> Nat]
    /\ P[0] = 0
    /\ \A k \in 1..Len(q) : P[k] = P[k - 1] + q[k]

(* Running sums are determined by the sequence.                             *)
LEMMA AccumulatesOnce ==
  ASSUME NEW S, NEW q \in Seq(S), NEW P, NEW R, Accumulates(P, q), Accumulates(R, q)
  PROVE  P[Len(q)] = R[Len(q)]
  <1> DEFINE n == Len(q)
             T == {k \in Nat : k <= n => P[k] = R[k]}
  <1>1. n \in Nat
    BY LenProperties
  <1>2. 0 \in T
    BY DEF Accumulates
  <1>3. ASSUME NEW k \in T PROVE k + 1 \in T
    <2>1. k \in Nat /\ (k <= n => P[k] = R[k])
      OBVIOUS
    <2> SUFFICES ASSUME k + 1 <= n PROVE P[k + 1] = R[k + 1]
      BY <2>1
    <2>2. k + 1 \in 1..n /\ (k + 1) - 1 = k /\ k <= n
      BY <1>1, <2>1
    <2>3. P[k + 1] = P[k] + q[k + 1] /\ R[k + 1] = R[k] + q[k + 1]
      BY <2>2 DEF Accumulates
    <2> QED BY <2>1, <2>2, <2>3
  <1> HIDE DEF T
  <1>4. T = Nat
    <2>1. T \subseteq Nat
      BY DEF T
    <2> QED BY <1>2, <1>3, <2>1, CountingUp
  <1> QED BY <1>1, <1>4 DEF T

(* A total is the last running sum.                                         *)
LEMMA TotalAccumulates ==
  ASSUME NEW q \in Seq(Nat)
  PROVE  \E P : Accumulates(P, q) /\ Total(q) = P[Len(q)]
  <1> DEFINE n == Len(q)
             D == DOMAIN q
             Eq(h) == h = [d \in SUBSET D |-> IF d = {} THEN 0
                                              ELSE h[d \ {Max(d)}] + q[Max(d)]]
             g == CHOOSE h : Eq(h)
  <1>1. Total(q) = g[D]
    BY DEF Total, FoldLeft, MapThenFoldSet, Max
  <1>2. n \in Nat /\ D = 1..n /\ q \in [1..n -> Nat]
    BY LenProperties
  <1>3. PICK h \in [SUBSET (1..n) -> Nat] : Sums(h, q, n)
    <2> HIDE DEF n
    <2> QED BY <1>2, SumsExist DEF Summed
  <1>4. Eq(h)
    <2>1. \A d \in SUBSET D : h[d] = IF d = {} THEN 0 ELSE h[d \ {Max(d)}] + q[Max(d)]
      BY <1>2, <1>3 DEF Sums
    <2>2. h = [d \in SUBSET D |-> h[d]]
      BY <1>2
    <2> QED BY <2>1, <2>2
  <1>5. Eq(g)
    <2> HIDE DEF Eq
    <2> QED BY <1>4
  <1> HIDE DEF g, D
  <1>6. Sums(g, q, n)
    BY <1>2, <1>5 DEF Sums
  <1> DEFINE P == [k \in 0..n |-> g[1..k]]
             T == {k \in Nat : k <= n => g[1..k] \in Nat}
  <1>7. ASSUME NEW k \in 1..n PROVE g[1..k] = g[1..(k - 1)] + q[k]
    <2>1. k - 1 \in Nat /\ (k - 1) + 1 = k /\ 1..k \in SUBSET (1..n) /\ k \in 1..k
      BY <1>2
    <2>2. Max(1..k) = k
      <3> DEFINE m == k - 1
      <3>1. m \in Nat /\ m + 1 = k
        BY <2>1
      <3> HIDE DEF m
      <3> QED BY <2>1, <3>1, LargestIs
    <2>3. (1..k) \ {k} = 1..(k - 1)
      BY <1>2
    <2>4. 1..k # {}
      BY <2>1
    <2> QED BY <1>6, <2>1, <2>2, <2>3, <2>4 DEF Sums
  <1>8. g[1..0] = 0
    <2>1. 1..0 = {}
      OBVIOUS
    <2> QED BY <1>6, <2>1 DEF Sums
  <1>9. T = Nat
    <2>1. 0 \in T
      BY <1>8
    <2>2. ASSUME NEW k \in T PROVE k + 1 \in T
      <3>1. k \in Nat /\ (k <= n => g[1..k] \in Nat)
        OBVIOUS
      <3> SUFFICES ASSUME k + 1 <= n PROVE g[1..(k + 1)] \in Nat
        BY <3>1
      <3>2. k + 1 \in 1..n /\ (k + 1) - 1 = k /\ k <= n
        BY <1>2, <3>1
      <3>3. g[1..(k + 1)] = g[1..k] + q[k + 1]
        BY <1>7, <3>2
      <3>4. q[k + 1] \in Nat
        BY <1>2, <3>2
      <3> QED BY <3>1, <3>2, <3>3, <3>4
    <2>3. T \subseteq Nat
      OBVIOUS
    <2> HIDE DEF T
    <2> QED BY <2>1, <2>2, <2>3, CountingUp
  <1>10. P \in [0..n -> Nat]
    <2>1. \A k \in 0..n : g[1..k] \in Nat
      BY <1>2, <1>9
    <2> QED BY <2>1
  <1>11. ASSUME NEW k \in 1..n PROVE P[k] = P[k - 1] + q[k]
    <2>1. k \in 0..n /\ k - 1 \in 0..n
      BY <1>2
    <2> QED BY <1>7, <2>1
  <1>12. P[0] = 0 /\ P[n] = g[1..n]
    BY <1>2, <1>8
  <1> HIDE DEF P
  <1>13. Accumulates(P, q)
    BY <1>10, <1>11, <1>12 DEF Accumulates
  <1>14. Total(q) = P[n]
    BY <1>1, <1>2, <1>12
  <1> QED BY <1>13, <1>14

(* Whatever accumulates the elements of q ends with their total.            *)
LEMMA TotalIs ==
  ASSUME NEW q \in Seq(Nat), NEW P, Accumulates(P, q)
  PROVE  Total(q) = P[Len(q)]
  BY TotalAccumulates, AccumulatesOnce

(* A total of lengths is a length.                                          *)
LEMMA TotalType ==
  ASSUME NEW q \in Seq(Nat)
  PROVE  Total(q) \in Nat
  <1>1. PICK P : Accumulates(P, q) /\ Total(q) = P[Len(q)]
    BY TotalAccumulates
  <1>2. Len(q) \in 0..Len(q)
    BY LenProperties
  <1> QED BY <1>1, <1>2 DEF Accumulates

(* The total of no length and of one.                                       *)
LEMMA TotalOne ==
  /\ Total(<<>>) = 0
  /\ \A a \in Nat : Total(<<a>>) = a
  <1>1. Total(<<>>) = 0
    <2>1. <<>> \in Seq(Nat) /\ Len(<<>>) = 0
      BY EmptySeq
    <2>2. PICK P : Accumulates(P, <<>>) /\ Total(<<>>) = P[Len(<<>>)]
      BY <2>1, TotalAccumulates
    <2> QED BY <2>1, <2>2 DEF Accumulates
  <1>2. ASSUME NEW a \in Nat PROVE Total(<<a>>) = a
    <2> DEFINE q == <<a>>
    <2>1. q \in Seq(Nat) /\ Len(q) = 1 /\ q[1] = a
      OBVIOUS
    <2> HIDE DEF q
    <2>2. PICK P : Accumulates(P, q) /\ Total(q) = P[1]
      BY <2>1, TotalAccumulates
    <2>3. P[1] = P[1 - 1] + q[1] /\ P[0] = 0
      BY <2>1, <2>2 DEF Accumulates
    <2>4. Total(q) = a
      BY <2>1, <2>2, <2>3
    <2> QED BY <2>4 DEF q
  <1> QED BY <1>1, <1>2

(* The total of two sequences, one after the other.                         *)
LEMMA TotalConcat ==
  ASSUME NEW s \in Seq(Nat), NEW t \in Seq(Nat)
  PROVE  Total(s \o t) = Total(s) + Total(t)
  <1> DEFINE m == Len(s)
             n == Len(t)
             q == s \o t
  <1>1. PICK P : Accumulates(P, s) /\ Total(s) = P[m]
    BY TotalAccumulates
  <1>2. PICK R : Accumulates(R, t) /\ Total(t) = R[n]
    BY TotalAccumulates
  <1>3. /\ m \in Nat /\ n \in Nat /\ q \in Seq(Nat) /\ Len(q) = m + n
        /\ \A i \in 1..(m + n) : q[i] = IF i <= m THEN s[i] ELSE t[i - m]
    BY LenProperties, ConcatProperties
  <1>4. /\ \A k \in 0..m : P[k] \in Nat
        /\ P[0] = 0 /\ \A k \in 1..m : P[k] = P[k - 1] + s[k]
    BY <1>1 DEF Accumulates
  <1>5. /\ \A k \in 0..n : R[k] \in Nat
        /\ R[0] = 0 /\ \A k \in 1..n : R[k] = R[k - 1] + t[k]
    BY <1>2 DEF Accumulates
  <1> DEFINE W == [k \in 0..(m + n) |-> IF k <= m THEN P[k] ELSE P[m] + R[k - m]]
  <1> HIDE DEF m, n, q
  <1>6. W \in [0..(m + n) -> Nat]
    <2>1. ASSUME NEW k \in 0..(m + n) PROVE (IF k <= m THEN P[k] ELSE P[m] + R[k - m]) \in Nat
      <3>1. CASE k <= m
        <4>1. k \in 0..m
          BY <1>3, <3>1
        <4> QED BY <1>4, <3>1, <4>1
      <3>2. CASE ~(k <= m)
        <4>1. k - m \in 0..n /\ m \in 0..m
          BY <1>3, <3>2
        <4>2. P[m] \in Nat /\ R[k - m] \in Nat
          BY <1>4, <1>5, <4>1
        <4> QED BY <3>2, <4>2
      <3> QED BY <3>1, <3>2
    <2> QED BY <2>1
  <1>7. W[0] = 0
    BY <1>3, <1>4
  <1>8. ASSUME NEW k \in 1..(m + n) PROVE W[k] = W[k - 1] + q[k]
    <2>1. k \in 0..(m + n) /\ k - 1 \in 0..(m + n)
      BY <1>3
    <2>2. CASE k <= m
      <3>1. k \in 1..m /\ k - 1 <= m
        BY <1>3, <2>2
      <3>2. W[k] = P[k] /\ W[k - 1] = P[k - 1] /\ q[k] = s[k]
        BY <1>3, <2>1, <2>2, <3>1
      <3> QED BY <1>4, <3>1, <3>2
    <2>3. CASE ~(k <= m)
      <3>1. k - m \in 1..n /\ (k - 1) - m = (k - m) - 1 /\ m \in 0..m
        BY <1>3, <2>3
      <3>2. W[k] = P[m] + R[k - m] /\ q[k] = t[k - m]
        BY <1>3, <2>1, <2>3
      <3>3. W[k - 1] = P[m] + R[(k - m) - 1]
        <4>1. CASE k - 1 <= m
          <5>1. k - 1 = m /\ (k - m) - 1 = 0
            <6>1. k \in Int /\ m \in Int
              BY <1>3
            <6> QED BY <2>3, <4>1, <6>1
          <5>2. W[m] = P[m]
            BY <1>3, <2>1, <5>1
          <5>3. P[m] \in Nat /\ R[0] = 0
            BY <1>4, <1>5, <3>1
          <5> QED BY <5>1, <5>2, <5>3
        <4>2. CASE ~(k - 1 <= m)
          BY <2>1, <3>1, <4>2
        <4> QED BY <4>1, <4>2
      <3>4. R[k - m] = R[(k - m) - 1] + t[k - m]
        BY <1>5, <3>1
      <3>5. P[m] \in Nat /\ R[(k - m) - 1] \in Nat /\ t[k - m] \in Nat
        <4>1. (k - m) - 1 \in 0..n
          BY <1>3, <3>1
        <4>2. \A i \in 1..n : t[i] \in Nat
          BY ElementOfSeq DEF n
        <4> QED BY <1>4, <1>5, <3>1, <4>1, <4>2
      <3> HIDE DEF W
      <3> QED BY <3>2, <3>3, <3>4, <3>5
    <2> QED BY <2>2, <2>3
  <1>9. W[m + n] = P[m] + R[n]
    <2>1. CASE n = 0
      <3>1. m + n = m /\ m \in 0..(m + n) /\ m <= m /\ P[m] \in Nat
        BY <1>3, <1>4, <2>1
      <3> QED BY <1>5, <2>1, <3>1
    <2>2. CASE n # 0
      <3>1. ~(m + n <= m) /\ (m + n) - m = n /\ m + n \in 0..(m + n)
        BY <1>3, <2>2
      <3> QED BY <3>1
    <2> QED BY <2>1, <2>2
  <1> HIDE DEF W
  <1>10. Accumulates(W, q)
    BY <1>3, <1>6, <1>7, <1>8 DEF Accumulates
  <1>11. Total(q) = W[Len(q)]
    BY <1>3, <1>10, TotalIs
  <1>12. Total(q) = Total(s) + Total(t)
    BY <1>1, <1>2, <1>3, <1>9, <1>11
  <1> QED BY <1>12 DEF q

(* A sequence of n times the same length.                                  *)
LEMMA TotalEqual ==
  ASSUME NEW a \in Nat, NEW q \in Seq(Nat), \A i \in 1..Len(q) : q[i] = a
  PROVE  Total(q) = a * Len(q)
  <1> DEFINE n == Len(q)
             P == [k \in 0..n |-> a * k]
  <1>1. n \in Nat
    BY LenProperties
  <1>2. P \in [0..n -> Nat] /\ P[0] = 0 /\ P[n] = a * n
    <2>1. \A k \in 0..n : a * k \in Nat
      BY <1>1
    <2>2. a * 0 = 0 /\ 0 \in 0..n /\ n \in 0..n
      BY <1>1
    <2> QED BY <2>1, <2>2
  <1>3. ASSUME NEW k \in 1..n PROVE P[k] = P[k - 1] + q[k]
    <2>1. k \in 0..n /\ k - 1 \in 0..n
      BY <1>1
    <2>2. a * k = a * (k - 1) + a
      BY <1>1
    <2> QED BY <2>1, <2>2
  <1> HIDE DEF P
  <1>4. Accumulates(P, q)
    BY <1>2, <1>3 DEF Accumulates
  <1> QED BY <1>2, <1>4, TotalIs

----------------------------------------------------------------------------
(* F[k] is the first k sequences of seqs, one after the other.              *)
Joins(F, seqs) ==
    /\ F[1] = seqs[1]
    /\ \A k \in 2..Len(seqs) : F[k] = F[k - 1] \o seqs[k]

(* Whatever joins the sequences one by one ends with all of them joined.    *)
LEMMA FlattenIs ==
  ASSUME NEW S, NEW seqs \in Seq(S), Len(seqs) > 0,
         NEW F, DOMAIN F = 1..Len(seqs), F = [k \in DOMAIN F |-> F[k]], Joins(F, seqs)
  PROVE  FlattenSeq(seqs) = F[Len(seqs)]
  <1> DEFINE n == Len(seqs)
             Eq(h) == h = [i \in 1..n |-> IF i = 1 THEN seqs[i] ELSE h[i - 1] \o seqs[i]]
             g == CHOOSE h : Eq(h)
  <1>1. FlattenSeq(seqs) = g[n]
    BY DEF FlattenSeq
  <1>2. n \in Nat /\ n > 0
    BY LenProperties
  <1>3. Eq(F)
    <2>1. \A k \in 1..n : F[k] = IF k = 1 THEN seqs[k] ELSE F[k - 1] \o seqs[k]
      <3> SUFFICES ASSUME NEW k \in 1..n, k # 1 PROVE k \in 2..n
        BY DEF Joins
      <3> QED BY <1>2
    <2> QED BY <2>1
  <1>4. Eq(g)
    <2> HIDE DEF Eq
    <2> QED BY <1>3
  <1> HIDE DEF g
  <1>5. \A k \in 1..n : g[k] = IF k = 1 THEN seqs[k] ELSE g[k - 1] \o seqs[k]
    BY <1>4
  <1> DEFINE T == {k \in Nat : k + 1 <= n => g[k + 1] = F[k + 1]}
  <1> HIDE DEF n
  <1>6. 0 \in T
    <2>1. 1 \in 1..n
      BY <1>2
    <2>2. g[1] = F[1]
      BY <1>5, <2>1 DEF Joins
    <2> QED BY <2>2
  <1>7. ASSUME NEW k \in T PROVE k + 1 \in T
    <2>1. k \in Nat /\ (k + 1 <= n => g[k + 1] = F[k + 1])
      OBVIOUS
    <2> DEFINE a == k + 1
               b == (k + 1) + 1
    <2> SUFFICES ASSUME b <= n PROVE g[b] = F[b]
      BY <2>1
    <2>2. b \in 1..n /\ b # 1 /\ b - 1 = a /\ a <= n /\ b \in 2..n
      BY <1>2, <2>1
    <2>3. g[a] = F[a]
      BY <2>1, <2>2
    <2> HIDE DEF a, b
    <2>4. g[b] = g[b - 1] \o seqs[b]
      BY <1>5, <2>2
    <2>5. F[b] = F[b - 1] \o seqs[b]
      BY <2>2 DEF Joins, n
    <2> QED BY <2>2, <2>3, <2>4, <2>5
  <1> HIDE DEF T
  <1>8. T = Nat
    <2>1. T \subseteq Nat
      BY DEF T
    <2> QED BY <1>6, <1>7, <2>1, CountingUp
  <1>9. n - 1 \in T /\ (n - 1) + 1 = n
    BY <1>2, <1>8
  <1>10. g[n] = F[n]
    BY <1>2, <1>9 DEF T
  <1> QED BY <1>1, <1>10 DEF n

Joined(S, seqs, m) ==
    \E F \in [1..m -> Seq(S)] : F[1] = seqs[1] /\ \A k \in 2..m : F[k] = F[k - 1] \o seqs[k]

(* Sequences can be joined one by one.                                      *)
LEMMA JoinsExist ==
  ASSUME NEW S, NEW seqs \in Seq(Seq(S)), Len(seqs) > 0
  PROVE  \E F \in [1..Len(seqs) -> Seq(S)] : Joins(F, seqs)
  <1> DEFINE n == Len(seqs)
             T == {m \in Nat : m + 1 <= n => Joined(S, seqs, m + 1)}
  <1>1. n \in Nat /\ n > 0 /\ \A k \in 1..n : seqs[k] \in Seq(S)
    BY LenProperties, ElementOfSeq
  <1> HIDE DEF n
  <1>2. 0 \in T
    <2> DEFINE F == [k \in 1..1 |-> seqs[1]]
    <2>1. F \in [1..1 -> Seq(S)] /\ F[1] = seqs[1]
      BY <1>1
    <2>2. \A k \in 2..1 : FALSE
      OBVIOUS
    <2> HIDE DEF F
    <2>3. Joined(S, seqs, 1)
      BY <2>1, <2>2 DEF Joined
    <2>4. 0 + 1 = 1
      OBVIOUS
    <2> QED BY <2>3, <2>4
  <1>3. ASSUME NEW m \in T PROVE m + 1 \in T
    <2> DEFINE a == m + 1
               b == (m + 1) + 1
    <2>1. m \in Nat /\ (a <= n => Joined(S, seqs, a))
      OBVIOUS
    <2> SUFFICES ASSUME b <= n PROVE Joined(S, seqs, b)
      BY <2>1
    <2>2. a \in Nat /\ b \in Nat /\ b - 1 = a /\ a <= n /\ b \in 1..n /\ a \in 1..a /\ a >= 1
      BY <1>1, <2>1
    <2>3. PICK F \in [1..a -> Seq(S)] : /\ F[1] = seqs[1]
                                       /\ \A k \in 2..a : F[k] = F[k - 1] \o seqs[k]
      <3>1. Joined(S, seqs, a)
        BY <2>1, <2>2
      <3> HIDE DEF a
      <3> QED BY <3>1 DEF Joined
    <2> HIDE DEF a, b
    <2> DEFINE G == [k \in 1..b |-> IF k = b THEN F[a] \o seqs[b] ELSE F[k]]
    <2>4. F[a] \o seqs[b] \in Seq(S)
      BY <1>1, <2>2, ConcatProperties
    <2>5. \A k \in 1..b : k # b => k \in 1..a
      BY <2>2
    <2>6. G \in [1..b -> Seq(S)]
      BY <2>4, <2>5
    <2>7. G[1] = seqs[1]
      <3>1. 1 \in 1..b /\ 1 # b
        BY <2>2
      <3> QED BY <2>3, <3>1
    <2>8. ASSUME NEW k \in 2..b PROVE G[k] = G[k - 1] \o seqs[k]
      <3>1. k \in 1..b /\ k - 1 \in 1..b /\ k - 1 # b
        BY <2>2
      <3>2. G[k - 1] = F[k - 1]
        BY <3>1
      <3>3. CASE k = b
        BY <2>2, <3>1, <3>2, <3>3
      <3>4. CASE k # b
        <4>1. k \in 2..a
          BY <2>2, <3>4
        <4> QED BY <2>3, <3>1, <3>2, <3>4, <4>1
      <3> QED BY <3>3, <3>4
    <2> HIDE DEF G
    <2> QED BY <2>6, <2>7, <2>8 DEF Joined
  <1> HIDE DEF T
  <1>4. T = Nat
    <2>1. T \subseteq Nat
      BY DEF T
    <2> QED BY <1>2, <1>3, <2>1, CountingUp
  <1>5. n - 1 \in T /\ (n - 1) + 1 = n
    BY <1>1, <1>4
  <1>6. Joined(S, seqs, n)
    BY <1>1, <1>5 DEF T
  <1> QED BY <1>6 DEF Joined, Joins, n

(* Joining sequences adds up their totals.                                 *)
LEMMA TotalFlatten ==
  ASSUME NEW seqs \in Seq(Seq(Nat)), NEW w \in Seq(Nat), Len(w) = Len(seqs),
         \A i \in 1..Len(w) : w[i] = Total(seqs[i])
  PROVE  FlattenSeq(seqs) \in Seq(Nat) /\ Total(FlattenSeq(seqs)) = Total(w)
  <1> DEFINE n == Len(seqs)
  <1>1. n \in Nat /\ (n = 0 => seqs = <<>> /\ w = <<>>)
    <2>1. n \in Nat
      BY LenProperties
    <2>2. n = 0 => seqs = <<>> /\ w = <<>>
      BY EmptySeq
    <2> QED BY <2>1, <2>2
  <1>2. CASE n = 0
    <2>1. FlattenSeq(seqs) = <<>> /\ w = <<>>
      BY <1>1, <1>2 DEF FlattenSeq
    <2> QED BY <2>1, TotalOne, EmptySeq
  <1>3. CASE n # 0
    <2>1. PICK F \in [1..n -> Seq(Nat)] : Joins(F, seqs)
      BY <1>1, <1>3, JoinsExist
    <2>2. FlattenSeq(seqs) = F[n]
      <3>1. DOMAIN F = 1..n /\ F = [k \in DOMAIN F |-> F[k]] /\ n > 0
        BY <1>1, <1>3
      <3> QED BY <2>1, <3>1, FlattenIs
    <2>3. \A k \in 1..n : seqs[k] \in Seq(Nat)
      BY ElementOfSeq
    <2> DEFINE P == [k \in 0..n |-> IF k = 0 THEN 0 ELSE Total(F[k])]
    <2>4. P \in [0..n -> Nat]
      <3>1. ASSUME NEW k \in 0..n, k # 0 PROVE Total(F[k]) \in Nat
        <4>1. k \in 1..n
          BY <1>1, <3>1
        <4> QED BY <4>1, TotalType
      <3> QED BY <3>1
    <2>5. ASSUME NEW k \in 1..n PROVE P[k] = P[k - 1] + w[k]
      <3>1. k \in 0..n /\ k # 0 /\ k - 1 \in 0..n /\ w[k] = Total(seqs[k])
        BY <1>1
      <3>2. CASE k = 1
        <4>1. P[k] = Total(seqs[1]) /\ P[k - 1] = 0 /\ w[k] = Total(seqs[1])
          BY <2>1, <3>1, <3>2 DEF Joins
        <4>2. Total(seqs[1]) \in Nat
          BY <2>3, <3>2, TotalType
        <4> QED BY <4>1, <4>2
      <3>3. CASE k # 1
        <4>1. k \in 2..n /\ k - 1 \in 1..n /\ k - 1 # 0
          BY <1>1, <3>3
        <4>2. F[k] = F[k - 1] \o seqs[k]
          BY <2>1, <4>1 DEF Joins
        <4>3. Total(F[k]) = Total(F[k - 1]) + Total(seqs[k])
          BY <2>1, <2>3, <4>1, <4>2, TotalConcat
        <4> QED BY <3>1, <4>1, <4>3
      <3> QED BY <3>2, <3>3
    <2>6. P[0] = 0 /\ P[n] = Total(F[n])
      BY <1>1, <1>3
    <2> HIDE DEF P
    <2>7. Accumulates(P, w)
      BY <2>4, <2>5, <2>6 DEF Accumulates
    <2>8. Total(w) = P[n]
      BY <2>7, TotalIs
    <2>9. F[n] \in Seq(Nat)
      <3>1. n \in 1..n
        BY <1>1, <1>3
      <3> QED BY <3>1
    <2> QED BY <2>2, <2>6, <2>8, <2>9
  <1> QED BY <1>2, <1>3

----------------------------------------------------------------------------
(***************************************************************************)
(* Inputs.                                                                 *)
(***************************************************************************)

(* Cells taken from inside the tail.                                       *)
LEMMA TakeIs ==
  ASSUME NEW f, f.tail \in Seq(Nat), NEW at \in Nat, NEW n \in Nat, at + n <= Len(f.tail)
  PROVE  /\ Take(f, at, n) \in Seq(Nat)
         /\ Len(Take(f, at, n)) = n
         /\ \A k \in 1..n : Take(f, at, n)[k] = f.tail[at + k]
         /\ Take(f, at, n) = <<>> <=> n = 0
  <1> DEFINE s == f.tail
             t == SubSeq(s, at + 1, at + n)
  <1>1. \A i \in (at + 1)..(at + n) : s[i] \in Nat
    BY LenProperties, ElementOfSeq
  <1> HIDE DEF s
  <1>2. /\ t \in Seq(Nat)
        /\ Len(t) = IF at + 1 <= at + n THEN (at + n) - (at + 1) + 1 ELSE 0
        /\ \A i \in 1..((at + n) - (at + 1) + 1) : t[i] = s[(at + 1) + i - 1]
    <2>1. at + 1 \in Int /\ at + n \in Int
      OBVIOUS
    <2> QED BY <1>1, <2>1, SubSeqProperties
  <1>3. Len(t) = n /\ (at + n) - (at + 1) + 1 = n /\ \A k \in 1..n : (at + 1) + k - 1 = at + k
    BY <1>2
  <1>4. \A k \in 1..n : t[k] = s[at + k]
    BY <1>2, <1>3
  <1> HIDE DEF t
  <1>5. t = <<>> <=> n = 0
    BY <1>2, <1>3, EmptySeq
  <1> QED BY <1>2, <1>3, <1>4, <1>5 DEF Take, t, s

(* n cells at at and m cells at mid are both cells of f, one behind the other. *)
Adjacent(f, at, n, mid, m, both) ==
    /\ f.tail \in Seq(Nat) /\ at \in Nat /\ n \in Nat /\ m \in Nat
    /\ mid = at + n /\ both = n + m /\ at + both <= Len(f.tail)

(* What is taken from two neighbouring places is taken from both at once.   *)
LEMMA TakeJoins ==
  ASSUME NEW f, NEW at, NEW n, NEW mid, NEW m, NEW both, Adjacent(f, at, n, mid, m, both)
  PROVE  Take(f, at, n) \o Take(f, mid, m) = Take(f, at, both)
  <1> DEFINE s == f.tail
             a == at + 1
             k == at + n
             e == at + both
  <1> USE DEF Adjacent
  <1>1. Len(s) \in Nat
    BY LenProperties
  <1>2. a \in 1..(Len(s) + 1) /\ k \in (a - 1)..Len(s) /\ e \in k..Len(s)
    BY <1>1
  <1> HIDE DEF s, a, k, e
  <1>3. SubSeq(s, a, k) \o SubSeq(s, k + 1, e) = SubSeq(s, a, e)
    BY <1>2, ConcatAdjacentSubSeq DEF s
  <1> QED BY <1>2, <1>3 DEF Take, s, a, k, e

(* Taking all cells gives the tail.                                         *)
LEMMA TakeAll ==
  ASSUME NEW f, f.tail \in Seq(Nat)
  PROVE  Take(f, 0, Len(f.tail)) = f.tail
  <1>1. 0 + 1 = 1 /\ 0 + Len(f.tail) = Len(f.tail)
    BY LenProperties
  <1> QED BY <1>1, SubSeqFull DEF Take

(* A sorted sequence ascends over any distance.                             *)
LEMMA SortedAscends ==
  ASSUME NEW s \in Seq(Nat), StrictlySorted(s), NEW i \in 1..Len(s), NEW k \in 1..Len(s), i < k
  PROVE  s[i] < s[k]
  <1> DEFINE n == Len(s)
             T == {m \in Nat : i + m + 1 <= n => s[i] < s[i + m + 1]}
  <1>1. n \in Nat /\ \A x \in 1..n : s[x] \in Nat
    BY LenProperties, ElementOfSeq
  <1>2. \A x \in 1..(n - 1) : s[x] < s[x + 1]
    BY DEF StrictlySorted
  <1>3. i \in 1..n /\ k \in 1..n
    OBVIOUS
  <1> HIDE DEF n
  <1>4. 0 \in T
    <2>1. i + 0 + 1 = i + 1
      BY <1>3
    <2>2. i + 1 <= n => i \in 1..(n - 1)
      BY <1>1, <1>3
    <2> QED BY <1>2, <2>1, <2>2
  <1>5. ASSUME NEW m \in T PROVE m + 1 \in T
    <2>1. m \in Nat /\ (i + m + 1 <= n => s[i] < s[i + m + 1])
      OBVIOUS
    <2> SUFFICES ASSUME i + (m + 1) + 1 <= n PROVE s[i] < s[i + (m + 1) + 1]
      BY <2>1
    <2> DEFINE a == i + m + 1
    <2>2. a \in 1..(n - 1) /\ i + (m + 1) + 1 = a + 1 /\ a \in 1..n /\ a + 1 \in 1..n /\ a <= n
      BY <1>1, <1>3, <2>1
    <2>3. s[i] < s[a]
      BY <2>1, <2>2
    <2> HIDE DEF a
    <2>4. s[a] < s[a + 1]
      BY <1>2, <2>2
    <2>5. s[i] \in Nat /\ s[a] \in Nat /\ s[a + 1] \in Nat
      BY <1>1, <1>3, <2>2
    <2>6. s[i] < s[a + 1]
      BY <2>3, <2>4, <2>5
    <2> QED BY <2>2, <2>6
  <1> HIDE DEF T
  <1>6. T = Nat
    <2>1. T \subseteq Nat
      BY DEF T
    <2> QED BY <1>4, <1>5, <2>1, CountingUp
  <1>7. k - i - 1 \in T /\ i + (k - i - 1) + 1 = k /\ k <= n
    BY <1>1, <1>3, <1>6
  <1> QED BY <1>7 DEF T

(* Where two sorted lists of one set agree up to m, the next element of t   *)
(* is not below that of s: it stands in s behind the first m.               *)
LEMMA NextNotBelow ==
  ASSUME NEW s \in Seq(Nat), NEW t \in Seq(Nat), StrictlySorted(s), StrictlySorted(t),
         Len(s) = Len(t), ToSet(t) \subseteq ToSet(s),
         NEW m \in Nat, m + 1 <= Len(s), \A k \in 1..m : s[k] = t[k]
  PROVE  s[m + 1] <= t[m + 1]
  <1>1. /\ Len(s) \in Nat /\ DOMAIN s = 1..Len(s) /\ DOMAIN t = 1..Len(s)
        /\ \A k \in 1..Len(s) : s[k] \in Nat /\ t[k] \in Nat
    BY LenProperties, ElementOfSeq
  <1>2. m + 1 \in 1..Len(s)
    BY <1>1
  <1>3. PICK j \in 1..Len(s) : s[j] = t[m + 1]
    BY <1>1, <1>2 DEF ToSet
  <1>4. ~(j < m + 1)
    <2> SUFFICES ASSUME j < m + 1 PROVE FALSE
      OBVIOUS
    <2>1. j \in 1..m
      BY <1>3
    <2>2. t[j] < t[m + 1]
      BY <1>2, <1>3, SortedAscends
    <2>3. t[j] = t[m + 1]
      BY <1>3, <2>1
    <2>4. t[j] \in Nat
      BY <1>1, <1>3
    <2> QED BY <2>2, <2>3, <2>4
  <1>5. CASE j = m + 1
    BY <1>1, <1>2, <1>3, <1>5
  <1>6. CASE m + 1 < j
    <2>1. s[m + 1] < s[j]
      BY <1>2, <1>6, SortedAscends
    <2> QED BY <1>1, <1>2, <1>3, <2>1
  <1> QED BY <1>3, <1>4, <1>5, <1>6

(* A set is listed in ascending order in one way.                           *)
LEMMA OneAscending ==
  ASSUME NEW s \in Seq(Nat), NEW t \in Seq(Nat), StrictlySorted(s), StrictlySorted(t),
         Len(s) = Len(t), ToSet(s) = ToSet(t)
  PROVE  s = t
  <1> DEFINE n == Len(s)
             T == {m \in Nat : m <= n => \A k \in 1..m : s[k] = t[k]}
  <1>1. n \in Nat /\ \A k \in 1..n : s[k] \in Nat /\ t[k] \in Nat
    BY LenProperties, ElementOfSeq
  <1>2. 0 \in T
    OBVIOUS
  <1>3. ASSUME NEW m \in T PROVE m + 1 \in T
    <2> SUFFICES ASSUME m + 1 <= n PROVE \A k \in 1..(m + 1) : s[k] = t[k]
      OBVIOUS
    <2>1. m \in Nat /\ m <= n /\ \A k \in 1..m : s[k] = t[k]
      BY <1>1
    <2>2. s[m + 1] <= t[m + 1]
      BY <2>1, NextNotBelow
    <2>3. t[m + 1] <= s[m + 1]
      BY <2>1, NextNotBelow
    <2>4. m + 1 \in 1..n
      BY <1>1, <2>1
    <2>5. s[m + 1] = t[m + 1]
      BY <1>1, <2>2, <2>3, <2>4
    <2> QED BY <2>1, <2>5
  <1>4. T = Nat
    <2>1. T \subseteq Nat
      OBVIOUS
    <2> HIDE DEF T
    <2> QED BY <1>2, <1>3, <2>1, CountingUp
  <1>5. \A k \in 1..n : s[k] = t[k]
    <2>1. n \in T /\ n <= n
      BY <1>1, <1>4
    <2> QED BY <2>1
  <1> HIDE DEF T
  <1> QED BY <1>5, SeqEqual

(* What the host lists of the members of a sorted sequence is the sequence. *)
LEMMA AscendingIs ==
  ASSUME NEW s \in Seq(Nat), StrictlySorted(s)
  PROVE  /\ Ascending(ToSet(s)) = s /\ Cardinality(ToSet(s)) = Len(s)
         /\ ToSet(s) = {} <=> s = <<>>
  <1> DEFINE n == Len(s)
             ids == ToSet(s)
  <1>1. n \in Nat /\ s \in [1..n -> Nat] /\ DOMAIN s = 1..n
    BY LenProperties
  <1>2. s \in [1..n -> ids] /\ ids = {s[i] : i \in 1..n} /\ ids \subseteq Nat
    BY <1>1 DEF ToSet
  <1>3. Cardinality(ids) = n
    <2>1. \A i, k \in 1..n : s[i] = s[k] => i = k
      <3> SUFFICES ASSUME NEW i \in 1..n, NEW k \in 1..n, s[i] = s[k], i # k PROVE FALSE
        OBVIOUS
      <3>1. i < k \/ k < i
        OBVIOUS
      <3>2. s[i] < s[k] \/ s[k] < s[i]
        BY <3>1, SortedAscends
      <3>3. s[i] \in Nat /\ s[k] \in Nat
        BY <1>1
      <3> QED BY <3>2, <3>3
    <2>2. s \in Bijection(1..n, ids)
      BY <1>2, <2>1 DEF Bijection, Injection, Surjection, IsInjective
    <2> QED BY <1>1, <2>2, FS_CountingElements DEF ExistsBijection
  <1>4. s \in [1..Cardinality(ids) -> ids] /\ ToSet(s) = ids /\ StrictlySorted(s)
    BY <1>2, <1>3
  <1> DEFINE t == Ascending(ids)
  <1>5. t \in [1..n -> ids] /\ ToSet(t) = ids /\ StrictlySorted(t)
    BY <1>3, <1>4 DEF Ascending
  <1> HIDE DEF n, ids, t
  <1>6. t \in Seq(Nat) /\ Len(t) = n
    <2>1. t \in [1..n -> Nat]
      BY <1>2, <1>5
    <2> QED BY <1>1, <2>1, FunctionIsSeq
  <1>7. t = s
    BY <1>5, <1>6, OneAscending DEF n, ids
  <1>8. ids = {} <=> s = <<>>
    <2>1. ids = {} <=> n = 0
      <3>1. n # 0 => 1 \in 1..n
        BY <1>1
      <3>2. n # 0 => s[1] \in ids
        BY <1>2, <3>1
      <3>3. n = 0 => ids = {}
        BY <1>2
      <3> QED BY <3>2, <3>3
    <2>2. n = 0 <=> s = <<>>
      BY EmptySeq DEF n
    <2> QED BY <2>1, <2>2
  <1> QED BY <1>3, <1>7, <1>8 DEF n, ids, t

(* The cells of an accepted message before its currencies: how many there   *)
(* are, and that the reads are sorted and are what the host puts there.    *)
FrontCells(f) ==
    /\ CallbackCells(f) \in Nat /\ RequestCells(f) \in Nat /\ ReadsCells(f) \in Nat
    /\ ExtraAt(f) = CallbackCells(f) + RequestCells(f) + ReadsCells(f)
    /\ ExtraAt(f) + f.extra_count + f.body_len + f.signature_len = Len(f.tail)
    /\ Take(f, CallbackCells(f) + RequestCells(f), ReadsCells(f))
         = IF Reads(f) = <<>> THEN <<>> ELSE <<Len(Reads(f)), 0>> \o Reads(f)
    /\ Reads(f) \in Seq(Nat) /\ StrictlySorted(Reads(f))

(* The decoder has accepted just that.                                      *)
LEMMA FrontOfMessage ==
  ASSUME NEW f \in MessageEncoding, decode_canonical_message(f)
  PROVE  FrontCells(f)
  <1> DEFINE c == CallbackCells(f)
             r == RequestCells(f)
             x == ReadsCells(f)
             s == f.tail
  <1>1. /\ s \in Seq(Nat) /\ f.extra_count \in Nat /\ f.body_len \in Nat /\ f.signature_len \in Nat
        /\ Len(s) \in Nat /\ \A i \in 1..Len(s) : s[i] \in Nat
    <2>1. s \in Seq(Nat) /\ f.extra_count \in Nat /\ f.body_len \in Nat /\ f.signature_len \in Nat
      BY DEF MessageEncoding
    <2>2. Len(s) \in Nat /\ \A i \in 1..Len(s) : s[i] \in Nat
      <3> HIDE DEF s
      <3> QED BY <2>1, LenProperties, ElementOfSeq
    <2> QED BY <2>1, <2>2
  <1>2. c \in Nat /\ r \in Nat /\ ReadsAt(f) = c + r
    BY DEF CallbackCells, RequestCells, ReadsAt
  <1>3. Whole(f) /\ SignatureAt(f) = ExtraAt(f) + f.extra_count + f.body_len
    BY DEF decode_canonical_message, decode_internal_message, decode_external_message,
           SignatureAt, BodyAt
  <1>4. CASE Has(f, "reads")
    <2>1. f.tag = Internal /\ ReadsAt(f) + 2 <= Len(s) /\ ReadsValid(f)
      BY <1>4 DEF decode_canonical_message, decode_internal_message, decode_external_message,
                  Has, ExternalFlags
    <2> DEFINE at == c + r
               n == s[at + 1]
    <2> HIDE DEF s, c, r
    <2>2. /\ at \in Nat /\ at + 1 \in 1..Len(s) /\ at + 2 \in 1..Len(s) /\ n \in Nat
          /\ n # 0 /\ s[at + 2] = 0
      <3>1. at \in Nat /\ at + 1 \in 1..Len(s) /\ at + 2 \in 1..Len(s)
        BY <1>1, <1>2, <2>1
      <3>2. n # 0 /\ s[at + 2] = 0
        BY <1>2, <1>4, <2>1 DEF ReadsValid, s
      <3> QED BY <1>1, <3>1, <3>2
    <2>3. x = 2 + n
      BY <1>2, <1>4 DEF ReadsCells, s
    <2>4. ExtraAt(f) = at + x /\ Reads(f) = Take(f, at + 2, n)
      <3>1. ExtraAt(f) = at + x
        BY <1>2, <2>1 DEF ExtraAt
      <3>2. x - 2 = n
        BY <2>2, <2>3
      <3> HIDE DEF at, n
      <3>3. Reads(f) = Take(f, at + 2, n)
        BY <1>2, <1>4, <3>2 DEF Reads, at
      <3> QED BY <3>1, <3>3
    <2> HIDE DEF n, x, at
    <2>5. at + 2 + n <= Len(s) /\ ExtraAt(f) + f.extra_count + f.body_len + f.signature_len = Len(s)
      <3>1. ExtraAt(f) + f.extra_count + f.body_len + f.signature_len = Len(s)
        BY <1>3 DEF Whole, s
      <3>2. ExtraAt(f) = at + (2 + n)
        BY <2>3, <2>4
      <3> QED BY <1>1, <2>2, <3>1, <3>2
    <2>6. Take(f, at, 2) \o Take(f, at + 2, n) = Take(f, at, x)
      <3>1. x \in Nat /\ at + x <= Len(f.tail) /\ f.tail \in Seq(Nat)
        BY <1>1, <2>2, <2>3, <2>5 DEF s
      <3> DEFINE two == 2
                 mid == at + 2
      <3>2. two \in Nat /\ mid = at + two /\ x = two + n
        BY <2>3
      <3> HIDE DEF two, mid
      <3>3. Take(f, at, two) \o Take(f, mid, n) = Take(f, at, x)
        <4>1. Adjacent(f, at, two, mid, n, x)
          BY <2>2, <3>1, <3>2 DEF Adjacent
        <4> QED BY <4>1, TakeJoins
      <3> QED BY <3>3 DEF two, mid
    <2>7. Take(f, at, 2) = <<n, 0>>
      <3> DEFINE t == Take(f, at, 2)
      <3>1. t \in Seq(Nat) /\ Len(t) = 2 /\ \A k \in 1..2 : t[k] = s[at + k]
        <4>1. at + 2 <= Len(f.tail) /\ f.tail \in Seq(Nat) /\ at \in Nat /\ 2 \in Nat
          BY <1>1, <2>2 DEF s
        <4> QED BY <4>1, TakeIs DEF s
      <3>2. t[1] = n /\ t[2] = 0
        BY <2>2, <3>1 DEF n
      <3> HIDE DEF t
      <3>3. <<n, 0>> \in Seq(Nat) /\ Len(<<n, 0>>) = 2
        BY <2>2
      <3>4. \A k \in 1..Len(t) : t[k] = <<n, 0>>[k]
        BY <3>1, <3>2
      <3>5. t = <<n, 0>>
        BY <3>1, <3>3, <3>4, SeqEqual
      <3> QED BY <3>5 DEF t
    <2>8. Reads(f) # <<>> /\ Len(Reads(f)) = n /\ Reads(f) \in Seq(Nat)
      <3> DEFINE k == at + 2
      <3>1. k \in Nat /\ n \in Nat /\ k + n <= Len(f.tail) /\ f.tail \in Seq(Nat) /\ Reads(f) = Take(f, k, n)
        BY <1>1, <2>2, <2>4, <2>5 DEF s
      <3> HIDE DEF k
      <3> QED BY <2>2, <3>1, TakeIs
    <2>9. Take(f, at, x) = <<Len(Reads(f)), 0>> \o Reads(f)
      BY <2>3, <2>4, <2>6, <2>7, <2>8
    <2>10. x \in Nat /\ ExtraAt(f) = c + r + x
      BY <1>2, <2>2, <2>3, <2>4 DEF at
    <2>11. StrictlySorted(Reads(f))
      BY <1>4, <2>1 DEF ReadsValid
    <2> QED BY <1>2, <2>5, <2>8, <2>9, <2>10, <2>11 DEF FrontCells, at, s, c, r, x
  <1>5. CASE ~Has(f, "reads")
    <2>1. x = 0 /\ Reads(f) = <<>>
      BY <1>5 DEF ReadsCells, Reads
    <2>2. ExtraAt(f) = c + r
      <3>1. CASE f.tag = Internal
        BY <1>2, <2>1, <3>1 DEF ExtraAt
      <3>2. CASE f.tag # Internal
        <4>1. c = 0 /\ r = 0
          BY <3>2 DEF decode_canonical_message, decode_external_message, Has, ExternalFlags,
                      CallbackCells, RequestCells
        <4> QED BY <3>2, <4>1 DEF ExtraAt
      <3> QED BY <3>1, <3>2
    <2>3. Take(f, c + r, x) = <<>>
      <3>1. c + r \in Nat /\ c + r + x <= Len(s)
        <4> HIDE DEF c, r, x, s
        <4>1. ExtraAt(f) + f.extra_count + f.body_len + f.signature_len = Len(s)
          BY <1>3 DEF Whole, s
        <4> QED BY <1>1, <1>2, <2>1, <2>2, <4>1
      <3> QED BY <1>1, <2>1, <3>1, TakeIs
    <2>4. ExtraAt(f) + f.extra_count + f.body_len + f.signature_len = Len(s)
      BY <1>3 DEF Whole
    <2>5. <<>> \in Seq(Nat) /\ StrictlySorted(<<>>)
      BY EmptySeq DEF StrictlySorted
    <2> HIDE DEF c, r, x, s
    <2> QED BY <1>2, <2>1, <2>2, <2>3, <2>4, <2>5 DEF FrontCells, c, r, x, s
  <1> QED BY <1>4, <1>5

(* An accepted message is the encoding of what the contract sees.           *)
LEMMA MessageIsCanonical ==
  ASSUME NEW f \in MessageEncoding, decode_canonical_message(f)
  PROVE  Encoding(Message(f)) = f
  <1> DEFINE c == CallbackCells(f)
             r == RequestCells(f)
             x == ReadsCells(f)
             e == f.extra_count
             b == f.body_len
             g == f.signature_len
             n == Len(f.tail)
             M == IF Reads(f) = <<>> THEN <<>> ELSE <<Len(Reads(f)), 0>> \o Reads(f)
  <1>1. f.tail \in Seq(Nat) /\ e \in Nat /\ b \in Nat /\ g \in Nat
    BY DEF MessageEncoding
  <1>2. FrontCells(f)
    BY FrontOfMessage
  <1>3. /\ c \in Nat /\ r \in Nat /\ x \in Nat
        /\ ExtraAt(f) = c + r + x /\ BodyAt(f) = c + r + x + e
        /\ SignatureAt(f) = c + r + x + e + b
        /\ c + r + x + e + b + g = n
        /\ Take(f, c + r, x) = M
    BY <1>2 DEF FrontCells, BodyAt, SignatureAt
  <1>4. /\ Callback(f) = Take(f, 0, c)
        /\ Handler(f) = Take(f, c, r)
        /\ Extra(f) = Take(f, c + r + x, e)
        /\ Body(f) = Take(f, c + r + x + e, b)
        /\ Signature(f) = Take(f, c + r + x + e + b, g)
    <2> HIDE DEF c, r, x, e, b, g, n, M
    <2> QED BY <1>3 DEF Callback, Handler, Extra, Body, Signature, c, r, e, b, g
  <1> HIDE DEF c, r, x, e, b, g, n, M
  <1>5. n \in Nat
    BY <1>1, LenProperties DEF n
  <1>6. Callback(f) \o Handler(f) = Take(f, 0, c + r)
    <2> DEFINE a == c + r
    <2>1. a \in Nat /\ a <= n
      BY <1>1, <1>3, <1>5
    <2>2. a = c + r /\ c \in Nat /\ r \in Nat
      BY <1>3
    <2> HIDE DEF a
    <2>3. Take(f, 0, c) \o Take(f, c, r) = Take(f, 0, a)
      <3>1. Adjacent(f, 0, c, c, r, a)
        BY <1>1, <2>1, <2>2 DEF n, Adjacent
      <3> QED BY <3>1, TakeJoins
    <2> QED BY <1>4, <2>3 DEF a
  <1>7. Take(f, 0, c + r) \o M = Take(f, 0, c + r + x)
    <2> DEFINE a == c + r
               z == c + r + x
    <2>1. a \in Nat /\ z = a + x /\ z <= n /\ x \in Nat
      BY <1>1, <1>3, <1>5
    <2>2. M = Take(f, a, x)
      BY <1>3
    <2> HIDE DEF a, z
    <2>3. Take(f, 0, a) \o Take(f, a, x) = Take(f, 0, z)
      <3>1. Adjacent(f, 0, a, a, x, z)
        BY <1>1, <2>1 DEF n, Adjacent
      <3> QED BY <3>1, TakeJoins
    <2>4. Take(f, 0, a) \o M = Take(f, 0, z)
      BY <2>2, <2>3
    <2> QED BY <2>4 DEF a, z
  <1>8. Take(f, 0, c + r + x) \o Extra(f) = Take(f, 0, c + r + x + e)
    <2> DEFINE a == c + r + x
               z == c + r + x + e
    <2>1. a \in Nat /\ z = a + e /\ z <= n
      BY <1>1, <1>3, <1>5
    <2>2. Extra(f) = Take(f, a, e)
      BY <1>4
    <2> HIDE DEF a, z
    <2>3. Take(f, 0, a) \o Take(f, a, e) = Take(f, 0, z)
      <3>1. Adjacent(f, 0, a, a, e, z)
        BY <1>1, <2>1 DEF n, Adjacent
      <3> QED BY <3>1, TakeJoins
    <2>4. Take(f, 0, a) \o Extra(f) = Take(f, 0, z)
      BY <2>2, <2>3
    <2> QED BY <2>4 DEF a, z
  <1>9. Take(f, 0, c + r + x + e) \o Body(f) = Take(f, 0, c + r + x + e + b)
    <2> DEFINE a == c + r + x + e
               z == c + r + x + e + b
    <2>1. a \in Nat /\ z = a + b /\ z <= n
      BY <1>1, <1>3, <1>5
    <2>2. Body(f) = Take(f, a, b)
      BY <1>4
    <2> HIDE DEF a, z
    <2>3. Take(f, 0, a) \o Take(f, a, b) = Take(f, 0, z)
      <3>1. Adjacent(f, 0, a, a, b, z)
        BY <1>1, <2>1 DEF n, Adjacent
      <3> QED BY <3>1, TakeJoins
    <2>4. Take(f, 0, a) \o Body(f) = Take(f, 0, z)
      BY <2>2, <2>3
    <2> QED BY <2>4 DEF a, z
  <1>10. Take(f, 0, c + r + x + e + b) \o Signature(f) = f.tail
    <2> DEFINE a == c + r + x + e + b
    <2>1. a \in Nat /\ n = a + g /\ n <= n
      BY <1>1, <1>3, <1>5
    <2>2. Signature(f) = Take(f, a, g)
      BY <1>4
    <2> HIDE DEF a
    <2>3. Take(f, 0, a) \o Take(f, a, g) = Take(f, 0, n)
      <3>1. Adjacent(f, 0, a, a, g, n)
        BY <1>1, <2>1 DEF n, Adjacent
      <3> QED BY <3>1, TakeJoins
    <2>4. Take(f, 0, a) \o Signature(f) = Take(f, 0, n)
      BY <2>1, <2>2, <2>3
    <2>5. Take(f, 0, n) = f.tail
      BY <1>1, TakeAll DEF n
    <2>6. Take(f, 0, a) \o Signature(f) = f.tail
      BY <2>4, <2>5
    <2> QED BY <2>6 DEF a
  <1>11. Callback(f) \o Handler(f) \o M \o Extra(f) \o Body(f) \o Signature(f) = f.tail
    BY <1>6, <1>7, <1>8, <1>9, <1>10
  <1>12. Len(Extra(f)) = e /\ Len(Body(f)) = b /\ Len(Signature(f)) = g
    <2>1. Len(Extra(f)) = e
      <3>1. c + r + x \in Nat /\ c + r + x + e <= n
        BY <1>1, <1>3, <1>5
      <3> QED BY <1>1, <1>4, <3>1, TakeIs DEF n
    <2>2. Len(Body(f)) = b
      <3>1. c + r + x + e \in Nat /\ c + r + x + e + b <= n
        BY <1>1, <1>3, <1>5
      <3> QED BY <1>1, <1>4, <3>1, TakeIs DEF n
    <2>3. Len(Signature(f)) = g
      <3>1. c + r + x + e + b \in Nat /\ c + r + x + e + b + g <= n
        BY <1>1, <1>3, <1>5
      <3> QED BY <1>1, <1>4, <3>1, TakeIs DEF n
    <2> QED BY <2>1, <2>2, <2>3
  <1>13. f.reserved = 0
    BY DEF decode_canonical_message, decode_internal_message, decode_external_message
  <1>14. f = [tag |-> f.tag, flags |-> f.flags, method |-> f.method, source |-> f.source,
              destination |-> f.destination, key |-> f.key, reserved |-> f.reserved,
              extra_count |-> f.extra_count, body_len |-> f.body_len,
              signature_len |-> f.signature_len, tail |-> f.tail]
    BY DEF MessageEncoding
  <1>15. /\ Ascending(ToSet(Extra(f))) = Extra(f) /\ Cardinality(ToSet(Extra(f))) = Len(Extra(f))
         /\ Ascending(ToSet(Reads(f))) = Reads(f) /\ Cardinality(ToSet(Reads(f))) = Len(Reads(f))
         /\ ToSet(Reads(f)) = {} <=> Reads(f) = <<>>
    <2>1. Extra(f) \in Seq(Nat)
      <3>1. c + r + x \in Nat /\ c + r + x + e <= n
        BY <1>1, <1>3, <1>5
      <3> QED BY <1>1, <1>4, <3>1, TakeIs DEF n
    <2>2. StrictlySorted(Extra(f))
      BY DEF decode_canonical_message, decode_internal_message, decode_external_message
    <2>3. Reads(f) \in Seq(Nat) /\ StrictlySorted(Reads(f))
      BY <1>2 DEF FrontCells
    <2> QED BY <2>1, <2>2, <2>3, AscendingIs
  <1>16. Encoding(Message(f))
           = [tag |-> f.tag, flags |-> f.flags, method |-> f.method, source |-> f.source,
              destination |-> f.destination, key |-> f.key, reserved |-> 0,
              extra_count |-> Len(Extra(f)), body_len |-> Len(Body(f)),
              signature_len |-> Len(Signature(f)),
              tail |-> Callback(f) \o Handler(f) \o M \o Extra(f) \o Body(f) \o Signature(f)]
    <2> DEFINE m == Message(f)
               front == IF m.reads = {} THEN <<>>
                        ELSE <<Cardinality(m.reads), 0>> \o Ascending(m.reads)
    <2>1. /\ m.reads = ToSet(Reads(f)) /\ m.extra = ToSet(Extra(f))
          /\ m.callback = Callback(f) /\ m.handler = Handler(f)
          /\ m.body = Body(f) /\ m.signature = Signature(f)
          /\ m.tag = f.tag /\ m.flags = f.flags /\ m.method = f.method /\ m.source = f.source
          /\ m.destination = f.destination /\ m.key = f.key
      BY DEF Message
    <2> HIDE DEF m
    <2>2. front = M
      BY <1>15, <2>1 DEF M
    <2>3. Encoding(m)
            = [tag |-> m.tag, flags |-> m.flags, method |-> m.method, source |-> m.source,
               destination |-> m.destination, key |-> m.key, reserved |-> 0,
               extra_count |-> Cardinality(m.extra), body_len |-> Len(m.body),
               signature_len |-> Len(m.signature),
               tail |-> m.callback \o m.handler \o front \o Ascending(m.extra)
                        \o m.body \o m.signature]
      BY DEF Encoding
    <2> HIDE DEF front
    <2> QED BY <1>15, <2>1, <2>2, <2>3 DEF m
  <1> QED BY <1>11, <1>12, <1>13, <1>14, <1>16 DEF e, b, g

----------------------------------------------------------------------------
(* The messages of an accepted batch are its cells up to the last offset.   *)
LEMMA BatchIsCanonical ==
  ASSUME NEW b \in BatchEncoding, decode_batch_input(b)
  PROVE  /\ \A i \in 1..b.count : MayBatch(Item(b, i))
         /\ FlattenSeq([i \in 1..b.count |-> Item(b, i)]) = Slice(b, 0, MessagesLen(b))
  <1> DEFINE Cell == [of : STRING, at : Nat, size : Nat]
             n == b.count
             o == b.offsets
             q == [i \in 1..n |-> Item(b, i)]
             F == [i \in 1..n |-> Slice(b, 0, o[i + 1])]
  <1>1. n \in Nat /\ o \in Seq(Nat) /\ b.rest \in Seq(Cell)
    BY DEF BatchEncoding
  <1>2. /\ n + 1 <= Len(o) /\ o[1] = 0 /\ MessagesLen(b) = o[n + 1] /\ o[n + 1] + 1 <= Len(b.rest)
        /\ \A i \in 1..n : /\ o[i + 1] > Previous(b, i) /\ o[i + 1] <= o[n + 1]
                           /\ MayBatch(Slice(b, Previous(b, i), o[i + 1]))
    BY DEF decode_batch_input, StartsAtZero, MessagesLen
  <1>3. \A i \in 1..(n + 1) : o[i] \in Nat
    <2> HIDE DEF o, n
    <2>1. Len(o) \in Nat /\ \A i \in 1..Len(o) : o[i] \in Nat
      BY <1>1, LenProperties, ElementOfSeq
    <2> QED BY <1>1, <1>2, <2>1
  <1>4. \A i \in 1..n : Previous(b, i) = o[i]
    BY <1>2 DEF Previous
  <1>5. \A i \in 1..n : o[i] < o[i + 1] /\ o[i + 1] <= o[n + 1] /\ i \in 1..(n + 1) /\ i + 1 \in 1..(n + 1)
    <2> SUFFICES ASSUME NEW i \in 1..n
                 PROVE  /\ o[i] < o[i + 1] /\ o[i + 1] <= o[n + 1]
                        /\ i \in 1..(n + 1) /\ i + 1 \in 1..(n + 1)
      OBVIOUS
    <2>1. i \in 1..(n + 1) /\ i + 1 \in 1..(n + 1)
      BY <1>1
    <2>2. o[i] \in Nat /\ o[i + 1] \in Nat
      BY <1>3, <2>1
    <2>3. o[i + 1] > Previous(b, i) /\ o[i + 1] <= o[n + 1] /\ Previous(b, i) = o[i]
      BY <1>2, <1>4
    <2> HIDE DEF o, n
    <2> QED BY <2>1, <2>2, <2>3
  <1>6. \A i \in 1..n : Item(b, i) = Slice(b, o[i], o[i + 1]) /\ MayBatch(Item(b, i))
    <2> SUFFICES ASSUME NEW i \in 1..n
                 PROVE  Item(b, i) = Slice(b, o[i], o[i + 1]) /\ MayBatch(Item(b, i))
      OBVIOUS
    <2>1. o[i] <= o[i + 1] /\ o[i + 1] <= MessagesLen(b)
      BY <1>2, <1>3, <1>5
    <2>2. Item(b, i) = Slice(b, o[i], o[i + 1])
      BY <2>1 DEF Item
    <2>3. MayBatch(Slice(b, o[i], o[i + 1]))
      BY <1>2, <1>4
    <2> QED BY <2>2, <2>3
  <1>7. Len(b.rest) \in Nat
    BY <1>1, LenProperties
  <1>8. \A i \in 1..n : /\ Slice(b, o[i], o[i + 1]) \in Seq(Cell)
                        /\ Slice(b, 0, o[i]) \o Slice(b, o[i], o[i + 1]) = Slice(b, 0, o[i + 1])
    <2> SUFFICES ASSUME NEW i \in 1..n
                 PROVE  /\ Slice(b, o[i], o[i + 1]) \in Seq(Cell)
                        /\ Slice(b, 0, o[i]) \o Slice(b, o[i], o[i + 1]) = Slice(b, 0, o[i + 1])
      OBVIOUS
    <2> DEFINE lo == o[i]
               hi == o[i + 1]
               t == b.rest
    <2>1. lo \in Nat /\ hi \in Nat /\ lo < hi /\ hi <= Len(t)
      <3> DEFINE last == o[n + 1]
      <3>1. lo \in Nat /\ hi \in Nat /\ lo < hi /\ hi <= last
        BY <1>3, <1>5
      <3>2. last \in Nat /\ last + 1 <= Len(t)
        <4>1. n + 1 \in 1..(n + 1)
          BY <1>1
        <4> QED BY <1>2, <1>3, <4>1
      <3> HIDE DEF lo, hi, t, last
      <3>3. Len(t) \in Nat
        BY <1>7 DEF t
      <3> QED BY <3>1, <3>2, <3>3
    <2> HIDE DEF lo, hi, t, Cell
    <2>2. \A k \in (lo + 1)..hi : t[k] \in Cell
      BY <1>1, <2>1, ElementOfSeq DEF t
    <2>3. SubSeq(t, lo + 1, hi) \in Seq(Cell)
      <3>1. lo + 1 \in Int /\ hi \in Int
        BY <2>1
      <3> QED BY <2>2, <3>1, SubSeqProperties
    <2>4. SubSeq(t, 0 + 1, lo) \o SubSeq(t, lo + 1, hi) = SubSeq(t, 0 + 1, hi)
      <3> DEFINE one == 0 + 1
      <3>1. one \in 1..(Len(t) + 1) /\ lo \in (one - 1)..Len(t) /\ hi \in lo..Len(t)
        BY <1>7, <2>1 DEF t
      <3>2. t \in Seq(Cell)
        BY <1>1 DEF t
      <3> HIDE DEF one
      <3>3. SubSeq(t, one, lo) \o SubSeq(t, lo + 1, hi) = SubSeq(t, one, hi)
        BY <3>1, <3>2, ConcatAdjacentSubSeq
      <3> QED BY <3>3 DEF one
    <2> QED BY <2>3, <2>4 DEF Slice, lo, hi, t
  <1>9. ASSUME n = 0 PROVE FlattenSeq(q) = Slice(b, 0, MessagesLen(b))
    <2>1. q = <<>>
      BY <1>9
    <2>2. Slice(b, 0, MessagesLen(b)) = <<>>
      <3>1. MessagesLen(b) = 0
        BY <1>2, <1>9
      <3>2. SubSeq(b.rest, 0 + 1, 0) = <<>>
        BY SubSeqEmpty
      <3> QED BY <3>1, <3>2 DEF Slice
    <2>3. FlattenSeq(<<>>) = <<>>
      BY EmptySeq DEF FlattenSeq
    <2> QED BY <2>1, <2>2, <2>3
  <1>10. ASSUME n > 0 PROVE FlattenSeq(q) = Slice(b, 0, MessagesLen(b))
    <2>1. q \in Seq(Seq(Cell)) /\ Len(q) = n
      <3>1. \A i \in 1..n : Item(b, i) \in Seq(Cell)
        BY <1>6, <1>8
      <3> HIDE DEF Cell, n
      <3>2. q \in [1..n -> Seq(Cell)]
        BY <3>1
      <3> QED BY <1>1, <3>2
    <2>2. DOMAIN F = 1..Len(q) /\ F = [k \in DOMAIN F |-> F[k]]
      BY <2>1
    <2>3. Joins(F, q)
      <3>1. F[1] = q[1]
        <4>1. 1 \in 1..n
          BY <1>1, <1>10
        <4> QED BY <1>2, <1>6, <4>1
      <3>2. ASSUME NEW k \in 2..n PROVE F[k] = F[k - 1] \o q[k]
        <4>1. k \in 1..n /\ k - 1 \in 1..n /\ (k - 1) + 1 = k
          BY <1>1
        <4>2. F[k] = Slice(b, 0, o[k + 1]) /\ F[k - 1] = Slice(b, 0, o[k]) /\ q[k] = Slice(b, o[k], o[k + 1])
          BY <1>6, <4>1
        <4> QED BY <1>8, <4>1, <4>2
      <3> HIDE DEF F, q
      <3> QED BY <2>1, <3>1, <3>2 DEF Joins
    <2>4. F[n] = Slice(b, 0, MessagesLen(b))
      BY <1>1, <1>2, <1>10
    <2> HIDE DEF F, q, n, Cell
    <2>5. FlattenSeq(q) = F[n]
      BY <1>10, <2>1, <2>2, <2>3, FlattenIs
    <2> QED BY <2>4, <2>5
  <1> HIDE DEF q
  <1>11. FlattenSeq(q) = Slice(b, 0, MessagesLen(b))
    BY <1>1, <1>9, <1>10
  <1> QED BY <1>6, <1>11 DEF q

----------------------------------------------------------------------------
(***************************************************************************)
(* The constructor envelope.                                               *)
(***************************************************************************)

(* Each piece starts where the one before it ends.                         *)
LEMMA StartIs ==
  ASSUME NEW e \in EnvelopeEncoding
  PROVE  /\ e.tail \in Seq(Nat) /\ \A i \in 1..7 : e.lens[i] \in Nat
         /\ Start(e, 1) = 0
         /\ \A i \in 1..8 : Start(e, i) \in Nat
         /\ \A i \in 1..7 : Start(e, i + 1) = Start(e, i) + e.lens[i]
  <1> DEFINE s == e.lens
  <1>1. e.tail \in Seq(Nat) /\ s \in [1..7 -> Nat]
    BY DEF EnvelopeEncoding, Pieces
  <1> HIDE DEF s
  <1>2. s \in Seq(Nat) /\ Len(s) = 7 /\ \A i \in 1..7 : s[i] \in Nat
    <2>1. 7 \in Nat
      OBVIOUS
    <2> QED BY <1>1, <2>1, FunctionIsSeq
  <1>3. \A i \in 1..8 : Start(e, i) = Total(SubSeq(s, 1, i - 1))
    BY DEF Start, Total, s
  <1>4. \A i \in 1..8 : SubSeq(s, 1, i - 1) \in Seq(Nat)
    <2> SUFFICES ASSUME NEW i \in 1..8 PROVE SubSeq(s, 1, i - 1) \in Seq(Nat)
      OBVIOUS
    <2>1. 1 \in Int /\ i - 1 \in Int /\ \A k \in 1..(i - 1) : s[k] \in Nat
      BY <1>2
    <2> QED BY <2>1, SubSeqProperties
  <1>5. \A i \in 1..8 : Start(e, i) \in Nat
    BY <1>3, <1>4, TotalType
  <1>6. Start(e, 1) = 0
    <2>1. SubSeq(s, 1, 0) = <<>>
      BY SubSeqEmpty
    <2>2. 1 - 1 = 0 /\ 1 \in 1..8
      OBVIOUS
    <2>3. Start(e, 1) = Total(SubSeq(s, 1, 0))
      BY <1>3, <2>2
    <2> QED BY <2>1, <2>3, TotalOne
  <1>7. ASSUME NEW i \in 1..7 PROVE Start(e, i + 1) = Start(e, i) + s[i]
    <2>1. i \in 1..8 /\ i + 1 \in 1..8 /\ (i + 1) - 1 = i /\ i - 1 \in Int
      OBVIOUS
    <2>2. SubSeq(s, 1, i) = SubSeq(s, 1, i - 1) \o <<s[i]>>
      <3>1. 1 \in 1..Len(s) /\ i \in 1..Len(s)
        BY <1>2
      <3> QED BY <1>2, <3>1, SubSeqRecursiveSecond
    <2>3. <<s[i]>> \in Seq(Nat) /\ Total(<<s[i]>>) = s[i]
      BY <1>2, TotalOne
    <2>4. Total(SubSeq(s, 1, i)) = Total(SubSeq(s, 1, i - 1)) + s[i]
      BY <1>4, <2>1, <2>2, <2>3, TotalConcat
    <2>5. Start(e, i + 1) = Total(SubSeq(s, 1, i)) /\ Start(e, i) = Total(SubSeq(s, 1, i - 1))
      BY <1>3, <2>1
    <2> QED BY <2>4, <2>5
  <1> QED BY <1>1, <1>2, <1>5, <1>6, <1>7 DEF s

(* The seven pieces of a whole envelope, one behind the other, are its tail *)
(* up to the signature.                                                    *)
LEMMA PiecesJoin ==
  ASSUME NEW e \in EnvelopeEncoding, TailWhole(e),
         NEW p, p \in [1..7 -> {Piece(e, i) : i \in 1..7}], \A i \in 1..7 : p[i] = Piece(e, i)
  PROVE  /\ FlattenSeq(p) \o Take(e, Start(e, 8), SignatureCells(e)) = e.tail
         /\ \A i \in 1..7 : Len(p[i]) = e.lens[i]
         /\ Take(e, Start(e, 8), SignatureCells(e)) = <<>> <=> SignatureCells(e) = 0
  <1> DEFINE g == SignatureCells(e)
             n == Len(e.tail)
             l == e.lens
             F == [i \in 1..7 |-> Take(e, 0, Start(e, i + 1))]
             from == [i \in 1..8 |-> Start(e, i)]
  <1>1. /\ e.tail \in Seq(Nat) /\ \A i \in 1..7 : l[i] \in Nat
        /\ from[1] = 0
        /\ \A i \in 1..8 : from[i] \in Nat
        /\ \A i \in 1..7 : from[i + 1] = from[i] + l[i]
    BY StartIs
  <1>2. g \in Nat /\ n \in Nat /\ from[8] + g = n
    <2>1. g \in Nat
      BY DEF SignatureCells
    <2>2. n \in Nat
      BY <1>1, LenProperties
    <2> QED BY <2>1, <2>2 DEF TailWhole
  <1>3. \A i \in 1..8 : Start(e, i) = from[i]
    OBVIOUS
  <1> HIDE DEF from, g, l
  <1>4. \A i \in 1..8 : from[i] <= from[8]
    <2>1. /\ from[2] = from[1] + l[1] /\ from[3] = from[2] + l[2] /\ from[4] = from[3] + l[3]
          /\ from[5] = from[4] + l[4] /\ from[6] = from[5] + l[5] /\ from[7] = from[6] + l[6]
          /\ from[8] = from[7] + l[7]
      <3>1. \A i \in 1..7, k \in 1..8 : k = i + 1 => from[k] = from[i] + l[i]
        BY <1>1
      <3> QED BY <3>1
    <2>2. /\ l[1] \in Nat /\ l[2] \in Nat /\ l[3] \in Nat /\ l[4] \in Nat /\ l[5] \in Nat
          /\ l[6] \in Nat /\ l[7] \in Nat
      BY <1>1
    <2>3. /\ from[1] \in Nat /\ from[2] \in Nat /\ from[3] \in Nat /\ from[4] \in Nat
          /\ from[5] \in Nat /\ from[6] \in Nat /\ from[7] \in Nat /\ from[8] \in Nat
      BY <1>1
    <2>4. /\ from[1] <= from[8] /\ from[2] <= from[8] /\ from[3] <= from[8] /\ from[4] <= from[8]
          /\ from[5] <= from[8] /\ from[6] <= from[8] /\ from[7] <= from[8]
      BY <2>1, <2>2, <2>3
    <2>5. \A i \in 1..8 : i = 1 \/ i = 2 \/ i = 3 \/ i = 4 \/ i = 5 \/ i = 6 \/ i = 7 \/ i = 8
      OBVIOUS
    <2> QED BY <2>3, <2>4, <2>5
  <1>5. ASSUME NEW i \in 1..7
        PROVE  /\ Adjacent(e, 0, from[i], from[i], l[i], from[i + 1])
               /\ p[i] = Take(e, from[i], l[i]) /\ Len(p[i]) = l[i] /\ p[i] \in Seq(Nat)
    <2>1. i \in 1..8 /\ i + 1 \in 1..8
      OBVIOUS
    <2>2. /\ from[i] \in Nat /\ from[i + 1] \in Nat /\ l[i] \in Nat /\ from[i + 1] = from[i] + l[i]
          /\ from[i + 1] <= from[8] /\ from[8] \in Nat
      <3>1. from[i] \in Nat /\ from[i + 1] \in Nat /\ from[i + 1] <= from[8]
        BY <1>1, <1>4, <2>1
      <3>2. 8 \in 1..8
        OBVIOUS
      <3>3. from[8] \in Nat
        BY <1>1, <3>2
      <3> QED BY <1>1, <3>1, <3>3
    <2>3. from[i + 1] <= n /\ from[i] + l[i] <= Len(e.tail)
      BY <1>2, <2>2
    <2>4. Adjacent(e, 0, from[i], from[i], l[i], from[i + 1])
      <3> DEFINE a == from[i]
                 k == l[i]
                 z == from[i + 1]
      <3>1. a \in Nat /\ k \in Nat /\ z = a + k /\ z <= Len(e.tail)
        BY <2>2, <2>3
      <3> HIDE DEF a, k, z
      <3>2. 0 \in Nat /\ a = 0 + a /\ 0 + z <= Len(e.tail)
        BY <1>2, <3>1
      <3>3. Adjacent(e, 0, a, a, k, z)
        BY <1>1, <3>1, <3>2 DEF Adjacent
      <3> QED BY <3>3 DEF a, k, z
    <2>5. p[i] = Take(e, from[i], l[i])
      BY <1>3, <2>1 DEF Piece, l
    <2> DEFINE at == from[i]
               k == l[i]
    <2>6. at \in Nat /\ k \in Nat /\ at + k <= Len(e.tail)
      BY <2>2, <2>3
    <2> HIDE DEF at, k, n
    <2>7. Len(Take(e, at, k)) = k /\ Take(e, at, k) \in Seq(Nat)
      BY <1>1, <2>6, TakeIs
    <2> QED BY <2>4, <2>5, <2>7 DEF at, k
  <1>6. p \in Seq(Seq(Nat)) /\ Len(p) = 7
    <2> DEFINE m == 7
               T == Seq(Nat)
    <2>1. p \in [1..m -> T] /\ m \in Nat
      BY <1>5
    <2> HIDE DEF m, T
    <2>2. p \in Seq(T) /\ Len(p) = m
      BY <2>1, FunctionIsSeq
    <2> QED BY <2>2 DEF m, T
  <1>7. Joins(F, p)
    <2>1. F[1] = p[1]
      <3>1. 1 \in 1..7 /\ 1 + 1 \in 1..8
        OBVIOUS
      <3>2. p[1] = Take(e, 0, l[1]) /\ from[1 + 1] = from[1] + l[1] /\ from[1] = 0 /\ l[1] \in Nat
        BY <1>1, <1>5, <3>1
      <3>3. from[1 + 1] = l[1]
        BY <3>2
      <3>4. F[1] = Take(e, 0, from[1 + 1])
        BY <1>3, <3>1
      <3> QED BY <3>2, <3>3, <3>4
    <2>2. ASSUME NEW k \in 2..7 PROVE F[k] = F[k - 1] \o p[k]
      <3>1. k \in 1..7 /\ k - 1 \in 1..7 /\ (k - 1) + 1 = k /\ k \in 1..8 /\ k + 1 \in 1..8
        OBVIOUS
      <3>2. F[k] = Take(e, 0, from[k + 1]) /\ F[k - 1] = Take(e, 0, from[k])
        BY <1>3, <3>1
      <3>3. Take(e, 0, from[k]) \o Take(e, from[k], l[k]) = Take(e, 0, from[k + 1])
        <4>1. Adjacent(e, 0, from[k], from[k], l[k], from[k + 1])
          BY <1>5, <3>1
        <4> QED BY <4>1, TakeJoins
      <3>4. p[k] = Take(e, from[k], l[k])
        BY <1>5, <3>1
      <3> QED BY <3>2, <3>3, <3>4
    <2> HIDE DEF F
    <2> QED BY <1>6, <2>1, <2>2 DEF Joins
  <1>8. F[7] = Take(e, 0, from[8])
    <2>1. 7 \in 1..7 /\ 7 + 1 = 8 /\ 8 \in 1..8
      OBVIOUS
    <2> QED BY <1>3, <2>1
  <1>9. DOMAIN F = 1..Len(p) /\ F = [k \in DOMAIN F |-> F[k]] /\ Len(p) > 0
    BY <1>6
  <1> HIDE DEF F
  <1>10. FlattenSeq(p) = Take(e, 0, from[8])
    <2>1. FlattenSeq(p) = F[Len(p)]
      BY <1>6, <1>7, <1>9, FlattenIs
    <2> QED BY <1>6, <1>8, <2>1
  <1>11. Take(e, 0, from[8]) \o Take(e, from[8], g) = Take(e, 0, n)
    <2>1. Adjacent(e, 0, from[8], from[8], g, n)
      <3>1. 8 \in 1..8
        OBVIOUS
      <3>2. from[8] \in Nat /\ n <= Len(e.tail) /\ from[8] = 0 + from[8] /\ 0 + n = n
        BY <1>1, <1>2, <3>1
      <3> HIDE DEF n
      <3> QED BY <1>1, <1>2, <3>2 DEF Adjacent
    <2> QED BY <2>1, TakeJoins
  <1>12. Take(e, 0, n) = e.tail
    BY <1>1, TakeAll
  <1>13. Take(e, from[8], g) = <<>> <=> g = 0
    <2> DEFINE at == from[8]
    <2>1. at \in Nat /\ at + g <= Len(e.tail)
      <3>1. 8 \in 1..8
        OBVIOUS
      <3> QED BY <1>1, <1>2, <3>1
    <2> HIDE DEF at, n
    <2>2. Take(e, at, g) = <<>> <=> g = 0
      BY <1>1, <1>2, <2>1, TakeIs
    <2> QED BY <2>2 DEF at
  <1>14. Start(e, 8) = from[8]
    BY <1>3
  <1> QED BY <1>5, <1>10, <1>11, <1>12, <1>13, <1>14 DEF g, l

(* A checked envelope is the one the host writes for what was meant by it.  *)
LEMMA EnvelopeIsExact ==
  ASSUME NEW e \in EnvelopeEncoding, NEW f, deploy(f, e)
  PROVE  EnvelopeOf(Deployment(e, DeployInput(e))) = e
  <1> DEFINE rest == [i \in 1..4 |-> Piece(e, 3 + i)]
             three == <<Piece(e, 1), Piece(e, 2), Piece(e, 3)>>
             p == three \o rest
             All == {Piece(e, i) : i \in 1..7}
             sig == Take(e, Start(e, 8), SignatureCells(e))
             others == e.flags \ {"owner_key", "signature"}
  <1>1. /\ e.magic = TRUE /\ e.reserved = 0 /\ OwnerKeyAgrees(e) /\ TailWhole(e)
    BY DEF deploy, EnvelopeEncoding
  <1>2. p \in [1..7 -> All] /\ \A i \in 1..7 : p[i] = Piece(e, i)
    <2>1. \A i \in 1..7 : Piece(e, i) \in All
      OBVIOUS
    <2>2. three \in Seq(All) /\ Len(three) = 3 /\ three[1] = Piece(e, 1) /\ three[2] = Piece(e, 2)
          /\ three[3] = Piece(e, 3)
      <3> HIDE DEF All
      <3> QED BY <2>1
    <2>3. rest \in Seq(All) /\ Len(rest) = 4 /\ \A i \in 1..4 : rest[i] = Piece(e, 3 + i)
      <3>1. \A i \in 1..4 : 3 + i \in 1..7
        OBVIOUS
      <3> HIDE DEF All
      <3>2. rest \in [1..4 -> All]
        BY <2>1, <3>1
      <3> QED BY <3>2
    <2> HIDE DEF All, three, rest
    <2>4. /\ p \in Seq(All) /\ Len(p) = 3 + 4
          /\ \A i \in 1..(3 + 4) : p[i] = IF i <= 3 THEN three[i] ELSE rest[i - 3]
      <3>1. /\ p \in Seq(All) /\ Len(p) = Len(three) + Len(rest)
            /\ \A i \in 1..(Len(three) + Len(rest)) :
                 p[i] = IF i <= Len(three) THEN three[i] ELSE rest[i - Len(three)]
        BY <2>2, <2>3, ConcatProperties
      <3> HIDE DEF p
      <3> QED BY <2>2, <2>3, <3>1
    <2> HIDE DEF p
    <2>5. p \in [1..7 -> All]
      <3>1. p \in [1..Len(p) -> All]
        BY <2>4, LenProperties
      <3>2. Len(p) = 7
        BY <2>4
      <3> QED BY <3>1, <3>2
    <2>6. ASSUME NEW i \in 1..7 PROVE p[i] = Piece(e, i)
      <3>1. CASE i <= 3
        <4>1. i = 1 \/ i = 2 \/ i = 3
          BY <3>1
        <4> QED BY <2>2, <2>4, <3>1, <4>1
      <3>2. CASE ~(i <= 3)
        <4>1. i - 3 \in 1..4 /\ 3 + (i - 3) = i
          BY <3>2
        <4> QED BY <2>3, <2>4, <3>2, <4>1
      <3> QED BY <3>1, <3>2
    <2> QED BY <2>5, <2>6
  <1> HIDE DEF p
  <1>3. /\ FlattenSeq(p) \o sig = e.tail
        /\ \A i \in 1..7 : Len(p[i]) = e.lens[i]
        /\ sig = <<>> <=> SignatureCells(e) = 0
    BY <1>1, <1>2, PiecesJoin
  <1> HIDE DEF sig
  <1>4. [i \in Pieces |-> Len(p[i])] = e.lens
    <2>1. e.lens \in [1..7 -> Nat]
      BY DEF EnvelopeEncoding, Pieces
    <2> QED BY <1>3, <2>1 DEF Pieces
  <1>5. others \cup (IF e.owner_key = Zero THEN {} ELSE {"owner_key"})
               \cup (IF sig = <<>> THEN {} ELSE {"signature"}) = e.flags
    <2>1. sig = <<>> <=> "signature" \notin e.flags
      BY <1>3 DEF SignatureCells
    <2>2. e.owner_key = Zero <=> "owner_key" \notin e.flags
      BY <1>1 DEF OwnerKeyAgrees
    <2> QED BY <2>1, <2>2
  <1>6. Deployment(e, DeployInput(e))
          = [owner_key |-> e.owner_key, abi_hash |-> e.abi_hash, package_id |-> e.package_id,
             owner_id |-> e.owner_id, others |-> others, pieces |-> p, signature |-> sig]
    BY DEF Deployment, DeployInput, UiName, Salt, InitData, p, sig
  <1>7. EnvelopeOf(Deployment(e, DeployInput(e)))
          = [magic |-> TRUE, reserved |-> 0, owner_key |-> e.owner_key, abi_hash |-> e.abi_hash,
             package_id |-> e.package_id, owner_id |-> e.owner_id, flags |-> e.flags,
             lens |-> e.lens, tail |-> e.tail]
    <2> DEFINE d == Deployment(e, DeployInput(e))
    <2>1. /\ d.owner_key = e.owner_key /\ d.abi_hash = e.abi_hash /\ d.package_id = e.package_id
          /\ d.owner_id = e.owner_id /\ d.others = others /\ d.pieces = p /\ d.signature = sig
      BY <1>6
    <2> HIDE DEF d, others
    <2>2. /\ FlattenSeq(d.pieces) \o d.signature = e.tail
          /\ [i \in Pieces |-> Len(d.pieces[i])] = e.lens
          /\ d.others \cup (IF d.owner_key = Zero THEN {} ELSE {"owner_key"})
                      \cup (IF d.signature = <<>> THEN {} ELSE {"signature"}) = e.flags
      BY <1>3, <1>4, <1>5, <2>1
    <2>3. EnvelopeOf(d)
            = [magic |-> TRUE, reserved |-> 0, owner_key |-> e.owner_key, abi_hash |-> e.abi_hash,
               package_id |-> e.package_id, owner_id |-> e.owner_id, flags |-> e.flags,
               lens |-> e.lens, tail |-> e.tail]
      BY <2>1, <2>2 DEF EnvelopeOf
    <2> QED BY <2>3 DEF d
  <1>8. e = [magic |-> e.magic, flags |-> e.flags, reserved |-> e.reserved,
             owner_key |-> e.owner_key, abi_hash |-> e.abi_hash, package_id |-> e.package_id,
             owner_id |-> e.owner_id, lens |-> e.lens, tail |-> e.tail]
    BY DEF EnvelopeEncoding
  <1> QED BY <1>1, <1>7, <1>8

----------------------------------------------------------------------------
(***************************************************************************)
(* Outputs: what is written has the size reserved for it.                  *)
(***************************************************************************)

(* The pieces q are n bytes together.                                      *)
Sized(q, n) == q \in Seq(Nat) /\ n \in Nat /\ Total(q) = n

(* Sizes of pieces written one after the other add up.                      *)
LEMMA SizedConcat ==
  ASSUME NEW s, NEW t, NEW a, NEW b, Sized(s, a), Sized(t, b)
  PROVE  Sized(s \o t, a + b)
  BY TotalConcat, ConcatProperties DEF Sized

(* The size of a few pieces.                                                *)
LEMMA SizedTuples ==
  /\ Sized(<<>>, 0)
  /\ \A a \in Nat : Sized(<<a>>, a)
  /\ \A a, b \in Nat : Sized(<<a, b>>, a + b)
  /\ \A a, b, c \in Nat : Sized(<<a, b, c>>, a + b + c)
  /\ \A a, b, c, d \in Nat : Sized(<<a, b, c, d>>, a + b + c + d)
  /\ \A a, b, c, d, e \in Nat : Sized(<<a, b, c, d, e>>, a + b + c + d + e)
  /\ \A a, b, c, d, e, f \in Nat : Sized(<<a, b, c, d, e, f>>, a + b + c + d + e + f)
  <1>1. Sized(<<>>, 0)
    BY TotalOne, EmptySeq DEF Sized
  <1>2. ASSUME NEW a \in Nat PROVE Sized(<<a>>, a)
    <2>1. <<a>> \in Seq(Nat)
      OBVIOUS
    <2> QED BY <2>1, TotalOne DEF Sized
  <1>3. ASSUME NEW a \in Nat, NEW b \in Nat PROVE Sized(<<a, b>>, a + b)
    <2>1. <<a, b>> = <<a>> \o <<b>>
      <3> DEFINE s == <<a>>
                 t == <<b>>
                 q == <<a, b>>
      <3>1. s \in Seq(Nat) /\ Len(s) = 1 /\ t \in Seq(Nat) /\ Len(t) = 1 /\ s[1] = a /\ t[1] = b
        OBVIOUS
      <3>2. q \in Seq(Nat) /\ Len(q) = 2 /\ q[1] = a /\ q[2] = b
        OBVIOUS
      <3> HIDE DEF s, t, q
      <3>3. /\ s \o t \in Seq(Nat) /\ Len(s \o t) = 2
            /\ \A i \in 1..2 : (s \o t)[i] = IF i <= 1 THEN s[i] ELSE t[i - 1]
        <4>1. /\ s \o t \in Seq(Nat) /\ Len(s \o t) = Len(s) + Len(t)
              /\ \A i \in 1..(Len(s) + Len(t)) :
                   (s \o t)[i] = IF i <= Len(s) THEN s[i] ELSE t[i - Len(s)]
          BY <3>1, ConcatProperties
        <4> QED BY <3>1, <4>1
      <3>4. (s \o t)[1] = a /\ (s \o t)[2] = b
        BY <3>1, <3>3
      <3>5. \A i \in 1..Len(q) : q[i] = (s \o t)[i]
        <4>1. \A i \in 1..Len(q) : i = 1 \/ i = 2
          BY <3>2
        <4> QED BY <3>2, <3>4, <4>1
      <3>6. q = s \o t
        BY <3>2, <3>3, <3>5, SeqEqual
      <3> QED BY <3>6 DEF s, t, q
    <2>2. Sized(<<a>>, a) /\ Sized(<<b>>, b)
      BY <1>2
    <2>3. Sized(<<a>> \o <<b>>, a + b)
      BY <2>2, SizedConcat
    <2> QED BY <2>1, <2>3
  <1>4. ASSUME NEW a \in Nat, NEW b \in Nat, NEW c \in Nat PROVE Sized(<<a, b, c>>, a + b + c)
    <2>1. <<a, b, c>> = <<a, b>> \o <<c>>
      OBVIOUS
    <2>2. Sized(<<a, b>>, a + b) /\ Sized(<<c>>, c)
      BY <1>2, <1>3
    <2>3. Sized(<<a, b>> \o <<c>>, a + b + c)
      BY <2>2, SizedConcat
    <2> QED BY <2>1, <2>3
  <1>5. ASSUME NEW a \in Nat, NEW b \in Nat, NEW c \in Nat, NEW d \in Nat
        PROVE  Sized(<<a, b, c, d>>, a + b + c + d)
    <2>1. <<a, b, c, d>> = <<a, b, c>> \o <<d>>
      OBVIOUS
    <2>2. Sized(<<a, b, c>>, a + b + c) /\ Sized(<<d>>, d)
      BY <1>2, <1>4
    <2>3. Sized(<<a, b, c>> \o <<d>>, a + b + c + d)
      BY <2>2, SizedConcat
    <2> QED BY <2>1, <2>3
  <1>6. ASSUME NEW a \in Nat, NEW b \in Nat, NEW c \in Nat, NEW d \in Nat, NEW e \in Nat
        PROVE  Sized(<<a, b, c, d, e>>, a + b + c + d + e)
    <2>1. <<a, b, c, d, e>> = <<a, b, c, d>> \o <<e>>
      OBVIOUS
    <2>2. Sized(<<a, b, c, d>>, a + b + c + d) /\ Sized(<<e>>, e)
      BY <1>2, <1>5
    <2>3. Sized(<<a, b, c, d>> \o <<e>>, a + b + c + d + e)
      BY <2>2, SizedConcat
    <2> QED BY <2>1, <2>3
  <1>7. ASSUME NEW a \in Nat, NEW b \in Nat, NEW c \in Nat, NEW d \in Nat, NEW e \in Nat, NEW f \in Nat
        PROVE  Sized(<<a, b, c, d, e, f>>, a + b + c + d + e + f)
    <2>1. <<a, b, c, d, e, f>> = <<a, b, c, d, e>> \o <<f>>
      OBVIOUS
    <2>2. Sized(<<a, b, c, d, e>>, a + b + c + d + e) /\ Sized(<<f>>, f)
      BY <1>2, <1>6
    <2>3. Sized(<<a, b, c, d, e>> \o <<f>>, a + b + c + d + e + f)
      BY <2>2, SizedConcat
    <2> QED BY <2>1, <2>3
  <1> QED BY <1>1, <1>2, <1>3, <1>4, <1>5, <1>6, <1>7

(* A length of four bytes and what follows it.                              *)
LEMMA PrefixedSize ==
  ASSUME NEW n \in Nat
  PROVE  Sized(Prefixed(n), 4 + n)
  BY SizedTuples DEF Prefixed

(* A part for each element, sized one by one.                              *)
PartsSized(n, parts, w) ==
    /\ n \in Nat
    /\ parts = [i \in 1..n |-> parts[i]] /\ w = [i \in 1..n |-> w[i]]
    /\ \A i \in 1..n : Sized(parts[i], w[i])

(* Parts written one after the other have the total of their sizes.         *)
LEMMA SizedFlatten ==
  ASSUME NEW n, NEW parts, NEW w, PartsSized(n, parts, w)
  PROVE  Sized(FlattenSeq(parts), Total(w))
  <1> DEFINE T == Seq(Nat)
  <1>1. n \in Nat /\ \A i \in 1..n : parts[i] \in T /\ w[i] \in Nat /\ w[i] = Total(parts[i])
    BY DEF PartsSized, Sized
  <1>2. parts \in [1..n -> T] /\ w \in [1..n -> Nat]
    <2> HIDE DEF T
    <2> QED BY <1>1 DEF PartsSized
  <1>3. parts \in Seq(T) /\ Len(parts) = n /\ w \in Seq(Nat) /\ Len(w) = n
    <2> HIDE DEF T
    <2> QED BY <1>1, <1>2, FunctionIsSeq
  <1>4. FlattenSeq(parts) \in Seq(Nat) /\ Total(FlattenSeq(parts)) = Total(w)
    BY <1>1, <1>3, TotalFlatten
  <1>5. Total(w) \in Nat
    BY <1>3, TotalType
  <1> QED BY <1>4, <1>5 DEF Sized

(* Parts of the same size.                                                 *)
LEMMA SizedEqual ==
  ASSUME NEW n \in Nat, NEW a \in Nat, NEW part, Sized(part, a)
  PROVE  Sized(FlattenSeq([i \in 1..n |-> part]), a * n)
  <1> DEFINE parts == [i \in 1..n |-> part]
             w == [i \in 1..n |-> a]
  <1>1. PartsSized(n, parts, w)
    BY DEF PartsSized
  <1>2. w \in [1..n -> Nat] /\ \A i \in 1..n : w[i] = a
    OBVIOUS
  <1> HIDE DEF parts, w
  <1>3. w \in Seq(Nat) /\ Len(w) = n
    BY <1>2, FunctionIsSeq
  <1>4. Total(w) = a * n
    BY <1>2, <1>3, TotalEqual
  <1>5. Sized(FlattenSeq(parts), Total(w))
    BY <1>1, SizedFlatten
  <1> QED BY <1>4, <1>5 DEF parts

----------------------------------------------------------------------------
(* The state update.                                                       *)
LEMMA UpdateSize ==
  ASSUME NEW u \in StateUpdates
  PROVE  /\ Sized(encode_state_update(u), state_update_len(u))
         /\ u.mode = "FullReplace" => u.len \in Nat /\ u.len <= state_update_len(u)
  <1>0. Sized(<<1, 3>>, 4) /\ Sized(<<2, 2>>, 4)
    <2>1. Sized(<<1, 3>>, 1 + 3) /\ Sized(<<2, 2>>, 2 + 2)
      BY SizedTuples
    <2> QED BY <2>1
  <1>1. CASE u.mode = "FullReplace"
    <2>1. u.len \in Nat
      BY <1>1 DEF StateUpdates
    <2> DEFINE l == u.len
    <2>2. encode_state_update(u) = <<1, 3>> \o Prefixed(l) /\ state_update_len(u) = 8 + l
      BY <1>1 DEF encode_state_update, state_update_len
    <2> HIDE DEF l
    <2>3. Sized(<<1, 3>> \o Prefixed(l), 4 + (4 + l))
      BY <1>0, <2>1, PrefixedSize, SizedConcat DEF l
    <2>4. 4 + (4 + l) = 8 + l /\ l <= 8 + l
      BY <2>1 DEF l
    <2> QED BY <2>1, <2>2, <2>3, <2>4 DEF l
  <1>2. CASE u.mode # "FullReplace"
    <2> DEFINE s == u.patches
               n == Len(s)
               parts == [i \in 1..n |-> <<4, 4, 4, s[i].new>>]
               w == [i \in 1..n |-> 12 + s[i].new]
               Place == [offset : Nat, old_len : Nat, new : Nat]
    <2>1. s \in Seq(Place)
      BY <1>2 DEF StateUpdates
    <2>2. n \in Nat /\ \A i \in 1..n : s[i].new \in Nat
      <3>1. n \in Nat /\ \A i \in 1..n : s[i] \in Place
        <4> HIDE DEF Place, s
        <4> QED BY <2>1, LenProperties, ElementOfSeq
      <3> QED BY <3>1
    <2>3. PartsSized(n, parts, w)
      <3>1. ASSUME NEW i \in 1..n PROVE Sized(parts[i], w[i])
        <4> DEFINE x == s[i].new
        <4>1. x \in Nat /\ parts[i] = <<4, 4, 4, x>> /\ w[i] = 12 + x
          BY <2>2
        <4> HIDE DEF x, parts, w
        <4>2. Sized(<<4, 4, 4, x>>, 4 + 4 + 4 + x)
          BY <4>1, SizedTuples
        <4>3. 4 + 4 + 4 + x = 12 + x
          BY <4>1
        <4> QED BY <4>1, <4>2, <4>3
      <3>2. parts = [i \in 1..n |-> parts[i]] /\ w = [i \in 1..n |-> w[i]]
        OBVIOUS
      <3> HIDE DEF parts, w, n
      <3> QED BY <2>2, <3>1, <3>2 DEF PartsSized
    <2>4. /\ encode_state_update(u) = <<1, 3>> \o (<<2, 2>> \o FlattenSeq(parts))
          /\ state_update_len(u) = 8 + Total(w)
      BY <1>2 DEF encode_state_update, state_update_len, Each, Indices
    <2> HIDE DEF parts, w
    <2>5. Sized(FlattenSeq(parts), Total(w))
      BY <2>3, SizedFlatten
    <2>6. Sized(<<1, 3>> \o (<<2, 2>> \o FlattenSeq(parts)), 4 + (4 + Total(w)))
      BY <1>0, <2>5, SizedConcat
    <2>7. 4 + (4 + Total(w)) = 8 + Total(w)
      BY <2>5 DEF Sized
    <2> QED BY <1>2, <2>4, <2>6, <2>7
  <1> QED BY <1>1, <1>2

----------------------------------------------------------------------------
(* Outbound messages.                                                      *)
OutboundPieces(x) ==
    <<4, 32, 32, 16, 2>> \o FlattenSeq([k \in 1..Len(x.extra) |-> <<4, 16>>])
    \o <<8>> \o Prefixed(x.body)

(* An outbound message has the size outbound_intents_len gives it.          *)
LEMMA OutboundPiecesSize ==
  ASSUME NEW x \in OutboundIntents
  PROVE  Sized(OutboundPieces(x), 98 + 20 * Len(x.extra) + x.body)
  <1> DEFINE n == Len(x.extra)
             b == x.body
             q == FlattenSeq([k \in 1..n |-> <<4, 16>>])
  <1>1. x.extra \in Seq(Nat) /\ b \in Nat
    BY DEF OutboundIntents
  <1>2. n \in Nat
    BY <1>1, LenProperties
  <1>3. Sized(<<4, 32, 32, 16, 2>>, 86) /\ Sized(<<8>>, 8) /\ Sized(<<4, 16>>, 20)
    <2>1. /\ Sized(<<4, 32, 32, 16, 2>>, 4 + 32 + 32 + 16 + 2)
          /\ Sized(<<8>>, 8) /\ Sized(<<4, 16>>, 4 + 16)
      BY SizedTuples
    <2> QED BY <2>1
  <1> HIDE DEF n, b
  <1>4. Sized(q, 20 * n)
    <2> DEFINE part == <<4, 16>>
    <2>1. Sized(part, 20)
      BY <1>3
    <2> HIDE DEF part
    <2>2. Sized(FlattenSeq([k \in 1..n |-> part]), 20 * n)
      BY <1>2, <2>1, SizedEqual
    <2> QED BY <2>2 DEF part
  <1> HIDE DEF q
  <1>5. Sized(Prefixed(b), 4 + b)
    BY <1>1, PrefixedSize
  <1>6. Sized(<<4, 32, 32, 16, 2>> \o q \o <<8>> \o Prefixed(b), 86 + 20 * n + 8 + (4 + b))
    <2>1. Sized(<<4, 32, 32, 16, 2>> \o q, 86 + 20 * n)
      BY <1>3, <1>4, SizedConcat
    <2>2. Sized(<<4, 32, 32, 16, 2>> \o q \o <<8>>, 86 + 20 * n + 8)
      BY <1>3, <2>1, SizedConcat
    <2> QED BY <1>5, <2>2, SizedConcat
  <1>7. 86 + 20 * n + 8 + (4 + b) = 98 + 20 * n + b
    <2> DEFINE m == 20 * n
    <2>1. m \in Nat
      BY <1>4 DEF Sized
    <2> HIDE DEF m
    <2>2. 86 + m + 8 + (4 + b) = 98 + m + b
      BY <1>1, <2>1
    <2> QED BY <2>2 DEF m
  <1>8. OutboundPieces(x) = <<4, 32, 32, 16, 2>> \o q \o <<8>> \o Prefixed(b)
    BY DEF OutboundPieces, q, n, b
  <1> QED BY <1>6, <1>7, <1>8 DEF n, b

(* So have all outbound messages together.                                  *)
LEMMA OutboundSize ==
  ASSUME NEW s \in Seq(OutboundIntents)
  PROVE  Sized(encode_outbound_intents(s), outbound_intents_len(s))
  <1> DEFINE n == Len(s)
             parts == [i \in 1..n |-> OutboundPieces(s[i])]
             w == [i \in 1..n |-> 98 + 20 * Len(s[i].extra) + s[i].body]
  <1>1. n \in Nat /\ \A i \in 1..n : s[i] \in OutboundIntents
    BY LenProperties, ElementOfSeq
  <1>2. PartsSized(n, parts, w)
    BY <1>1, OutboundPiecesSize DEF PartsSized
  <1>3. /\ encode_outbound_intents(s) = <<4>> \o FlattenSeq(parts)
        /\ outbound_intents_len(s) = 4 + Total(w)
    BY DEF encode_outbound_intents, outbound_intents_len, OutboundPieces, Each, Indices
  <1> HIDE DEF parts, w
  <1>4. Sized(FlattenSeq(parts), Total(w))
    BY <1>2, SizedFlatten
  <1>5. Sized(<<4>>, 4)
    BY SizedTuples
  <1>6. Sized(<<4>> \o FlattenSeq(parts), 4 + Total(w))
    BY <1>4, <1>5, SizedConcat
  <1> QED BY <1>3, <1>6

----------------------------------------------------------------------------
(* Events.                                                                 *)
EventPieces(x) ==
    <<4, 1, 8, 2, x.name, 2>> \o FlattenSeq([k \in 1..Len(x.topics) |-> <<2, x.topics[k]>>])
    \o Prefixed(FieldsLen(x.fields))

(* The encoding of event fields has a length.                               *)
LEMMA FieldsLenType ==
  ASSUME NEW l \in [count : Nat, reserved : Nat, trailing : Nat, fields : EventFields]
  PROVE  FieldsLen(l) \in Nat
  <1> DEFINE s == l.fields
             n == Len(s)
             w == [i \in 1..n |-> 5 + s[i].name + s[i].len]
             Field == [name : Nat, kind : Nat, len : Nat]
  <1>1. s \in Seq(Field) /\ l.trailing \in Nat
    BY DEF EventFields
  <1>2. n \in Nat /\ \A i \in 1..n : s[i] \in Field
    <2> HIDE DEF Field, s
    <2> QED BY <1>1, LenProperties, ElementOfSeq
  <1>3. w \in [1..n -> Nat]
    <2>1. \A i \in 1..n : 5 + s[i].name + s[i].len \in Nat
      BY <1>2
    <2> QED BY <2>1
  <1>4. FieldsLen(l) = 4 + Total(w) + l.trailing
    BY DEF FieldsLen, Each, Indices
  <1> HIDE DEF w, n
  <1>5. w \in Seq(Nat)
    BY <1>2, <1>3, FunctionIsSeq
  <1>6. Total(w) \in Nat
    BY <1>5, TotalType
  <1> QED BY <1>1, <1>4, <1>6

(* An event has the size event_len gives it.                                *)
LEMMA EventPiecesSize ==
  ASSUME NEW x \in EventIntents
  PROVE  Sized(EventPieces(x), event_len(x)) /\ FieldsLen(x.fields) \in Nat
  <1> DEFINE s == x.topics
             n == Len(s)
             m == x.name
             l == FieldsLen(x.fields)
             parts == [k \in 1..n |-> <<2, s[k]>>]
             w == [k \in 1..n |-> 2 + s[k]]
  <1>1. s \in Seq(Nat) /\ m \in Nat /\ l \in Nat
    BY FieldsLenType DEF EventIntents
  <1>2. n \in Nat /\ \A k \in 1..n : s[k] \in Nat
    <2> HIDE DEF s
    <2> QED BY <1>1, LenProperties, ElementOfSeq
  <1>3. PartsSized(n, parts, w)
    <2>1. \A k \in 1..n : Sized(<<2, s[k]>>, 2 + s[k])
      BY <1>2, SizedTuples
    <2> QED BY <1>2, <2>1 DEF PartsSized
  <1>4. /\ EventPieces(x) = <<4, 1, 8, 2, m, 2>> \o FlattenSeq(parts) \o Prefixed(l)
        /\ event_len(x) = 21 + m + Total(w) + l
    BY DEF EventPieces, event_len, Each, Indices
  <1> HIDE DEF parts, w, m, l
  <1>5. Sized(FlattenSeq(parts), Total(w))
    BY <1>3, SizedFlatten
  <1>6. Sized(<<4, 1, 8, 2, m, 2>>, 4 + 1 + 8 + 2 + m + 2)
    BY <1>1, SizedTuples
  <1>7. Sized(Prefixed(l), 4 + l)
    BY <1>1, PrefixedSize
  <1> DEFINE t == Total(w)
             h == 4 + 1 + 8 + 2 + m + 2
  <1>8. t \in Nat /\ h = 17 + m
    BY <1>1, <1>5 DEF Sized
  <1> HIDE DEF t, h
  <1>9. Sized(<<4, 1, 8, 2, m, 2>> \o FlattenSeq(parts) \o Prefixed(l), h + t + (4 + l))
    <2>1. Sized(<<4, 1, 8, 2, m, 2>> \o FlattenSeq(parts), h + t)
      BY <1>5, <1>6, SizedConcat DEF h, t
    <2> QED BY <1>7, <2>1, SizedConcat
  <1>10. h + t + (4 + l) = 21 + m + t + l
    BY <1>1, <1>8
  <1>11. Sized(EventPieces(x), event_len(x))
    BY <1>4, <1>9, <1>10 DEF t
  <1> QED BY <1>1, <1>11 DEF l

(* So have all events together.                                             *)
LEMMA EventsSize ==
  ASSUME NEW s \in Seq(EventIntents)
  PROVE  Sized(encode_event_intents(s), event_intents_len(s))
  <1> DEFINE n == Len(s)
             parts == [i \in 1..n |-> EventPieces(s[i])]
             w == [i \in 1..n |-> event_len(s[i])]
  <1>1. n \in Nat /\ \A i \in 1..n : s[i] \in EventIntents
    BY LenProperties, ElementOfSeq
  <1>2. PartsSized(n, parts, w)
    BY <1>1, EventPiecesSize DEF PartsSized
  <1>3. /\ encode_event_intents(s) = <<4>> \o FlattenSeq(parts)
        /\ event_intents_len(s) = 4 + Total(w)
    BY DEF encode_event_intents, event_intents_len, EventPieces, Each, Indices
  <1> HIDE DEF parts, w
  <1>4. Sized(FlattenSeq(parts), Total(w))
    BY <1>2, SizedFlatten
  <1>5. Sized(<<4>>, 4)
    BY SizedTuples
  <1>6. Sized(<<4>> \o FlattenSeq(parts), 4 + Total(w))
    BY <1>4, <1>5, SizedConcat
  <1> QED BY <1>3, <1>6

----------------------------------------------------------------------------
(* A message's answer has the size reserved for it, and its lengths are within it. *)
LEMMA MessageSize ==
  ASSUME NEW o \in MessageOutput
  PROVE  /\ Sized(write_message_output(o), message_output_len(o))
         /\ HasUpdate(o) /\ o.update.mode = "FullReplace" =>
              o.update.len \in Nat /\ o.update.len <= message_output_len(o)
         /\ o.result <= message_output_len(o) /\ Len(o.callbacks) <= message_output_len(o)
  <1> DEFINE u == IF HasUpdate(o) THEN encode_state_update(o.update) ELSE <<>>
             ul == IF HasUpdate(o) THEN state_update_len(o.update) ELSE 0
             r == o.result
             ob == encode_outbound_intents(o.outbound)
             obl == outbound_intents_len(o.outbound)
             n == Len(o.callbacks)
             cb == FlattenSeq([i \in 1..n |-> <<4, 8>>])
             cbl == 12 * n
             ev == encode_event_intents(o.events)
             evl == event_intents_len(o.events)
             up == IF o.upgrade THEN <<32, 32>> ELSE <<>>
             upl == IF o.upgrade THEN 64 ELSE 0
  <1>1. /\ HasUpdate(o) => o.update \in StateUpdates
        /\ r \in Nat /\ o.outbound \in Seq(OutboundIntents) /\ o.events \in Seq(EventIntents)
    BY DEF MessageOutput, HasUpdate
  <1>2. n \in Nat
    <2> DEFINE Callbacks == [outbound : Nat, handler : Nat]
    <2>1. o.callbacks \in Seq(Callbacks)
      BY DEF MessageOutput
    <2> HIDE DEF Callbacks
    <2> QED BY <2>1, LenProperties
  <1>3. /\ write_message_output(o)
             = <<4, 4, 1>> \o u \o Prefixed(r) \o ob \o <<4>> \o cb \o ev \o up
        /\ message_output_len(o) = 9 + ul + 4 + r + obl + 4 + cbl + evl + upl
    BY DEF write_message_output, message_output_len, Each, Indices
  <1>4. Sized(u, ul)
    BY <1>1, UpdateSize, SizedTuples
  <1>5. Sized(ob, obl) /\ Sized(ev, evl)
    BY <1>1, OutboundSize, EventsSize
  <1>6. Sized(cb, cbl)
    <2> DEFINE part == <<4, 8>>
    <2>1. Sized(<<4, 8>>, 4 + 8) /\ 4 + 8 = 12
      BY SizedTuples
    <2>2. Sized(part, 12)
      BY <2>1
    <2> HIDE DEF part, n
    <2>3. Sized(FlattenSeq([i \in 1..n |-> part]), 12 * n)
      BY <1>2, <2>2, SizedEqual
    <2> QED BY <2>3 DEF part
  <1>7. Sized(up, upl)
    <2>1. Sized(<<32, 32>>, 32 + 32) /\ Sized(<<>>, 0) /\ 32 + 32 = 64
      BY SizedTuples
    <2> QED BY <2>1
  <1>8. HasUpdate(o) /\ o.update.mode = "FullReplace" => o.update.len \in Nat /\ o.update.len <= ul
    BY <1>1, UpdateSize
  <1>9. n <= cbl
    BY <1>2
  <1> HIDE DEF u, ul, r, ob, obl, n, cb, cbl, ev, evl, up, upl
  <1>10. Sized(<<4, 4, 1>>, 9) /\ Sized(<<4>>, 4) /\ Sized(Prefixed(r), 4 + r)
    <2>1. Sized(<<4, 4, 1>>, 4 + 4 + 1) /\ Sized(<<4>>, 4)
      BY SizedTuples
    <2> QED BY <1>1, <2>1, PrefixedSize
  <1>11. Sized(<<4, 4, 1>> \o u \o Prefixed(r) \o ob \o <<4>> \o cb \o ev \o up,
               9 + ul + (4 + r) + obl + 4 + cbl + evl + upl)
    <2>1. Sized(<<4, 4, 1>> \o u, 9 + ul)
      BY <1>4, <1>10, SizedConcat
    <2>2. Sized(<<4, 4, 1>> \o u \o Prefixed(r), 9 + ul + (4 + r))
      BY <1>10, <2>1, SizedConcat
    <2>3. Sized(<<4, 4, 1>> \o u \o Prefixed(r) \o ob, 9 + ul + (4 + r) + obl)
      BY <1>5, <2>2, SizedConcat
    <2>4. Sized(<<4, 4, 1>> \o u \o Prefixed(r) \o ob \o <<4>>, 9 + ul + (4 + r) + obl + 4)
      BY <1>10, <2>3, SizedConcat
    <2>5. Sized(<<4, 4, 1>> \o u \o Prefixed(r) \o ob \o <<4>> \o cb,
                9 + ul + (4 + r) + obl + 4 + cbl)
      BY <1>6, <2>4, SizedConcat
    <2>6. Sized(<<4, 4, 1>> \o u \o Prefixed(r) \o ob \o <<4>> \o cb \o ev,
                9 + ul + (4 + r) + obl + 4 + cbl + evl)
      BY <1>5, <2>5, SizedConcat
    <2> QED BY <1>7, <2>6, SizedConcat
  <1>12. /\ ul \in Nat /\ r \in Nat /\ obl \in Nat /\ cbl \in Nat /\ evl \in Nat /\ upl \in Nat
         /\ n \in Nat
    BY <1>1, <1>2, <1>4, <1>5, <1>6, <1>7 DEF Sized
  <1>13. message_output_len(o) = 9 + ul + (4 + r) + obl + 4 + cbl + evl + upl
    BY <1>3, <1>12
  <1>14. Sized(write_message_output(o), message_output_len(o))
    BY <1>3, <1>11, <1>13
  <1> DEFINE whole == message_output_len(o)
  <1> HIDE DEF whole
  <1>15. whole = 9 + ul + (4 + r) + obl + 4 + cbl + evl + upl
    BY <1>13 DEF whole
  <1>16. ul <= whole /\ r <= whole /\ n <= whole /\ whole \in Nat
    BY <1>9, <1>12, <1>15
  <1>17. HasUpdate(o) /\ o.update.mode = "FullReplace" =>
           o.update.len \in Nat /\ o.update.len <= whole
    BY <1>8, <1>12, <1>16
  <1> QED BY <1>14, <1>16, <1>17 DEF whole, r, n

(* The same for a batch, whose statuses take four bytes each.               *)
LEMMA BatchSize ==
  ASSUME NEW o \in BatchOutput
  PROVE  /\ Sized(write_batch_output(o), batch_output_len(o))
         /\ o.update.mode = "FullReplace" =>
              o.update.len \in Nat /\ o.update.len <= batch_output_len(o)
         /\ Len(o.statuses) <= batch_output_len(o)
  <1> DEFINE u == encode_state_update(o.update)
             ul == state_update_len(o.update)
             n == Len(o.statuses)
             st == [i \in 1..n |-> 4]
             stl == 4 * n
             ob == encode_outbound_intents(o.outbound)
             obl == outbound_intents_len(o.outbound)
             ev == encode_event_intents(o.events)
             evl == event_intents_len(o.events)
  <1>1. /\ o.update \in StateUpdates /\ o.statuses \in Seq(Nat)
        /\ o.outbound \in Seq(OutboundIntents) /\ o.events \in Seq(EventIntents)
    BY DEF BatchOutput
  <1>2. n \in Nat
    BY <1>1, LenProperties
  <1>3. /\ write_batch_output(o) = <<4>> \o u \o <<4>> \o st \o ob \o ev
        /\ batch_output_len(o) = 4 + ul + 4 + stl + obl + evl
    BY DEF write_batch_output, batch_output_len, Each, Indices
  <1>4. Sized(u, ul) /\ (o.update.mode = "FullReplace" => o.update.len \in Nat /\ o.update.len <= ul)
    BY <1>1, UpdateSize
  <1>5. Sized(ob, obl) /\ Sized(ev, evl)
    BY <1>1, OutboundSize, EventsSize
  <1>6. Sized(st, stl)
    <2>1. st \in [1..n -> Nat] /\ \A i \in 1..n : st[i] = 4
      OBVIOUS
    <2> HIDE DEF st, n
    <2>2. st \in Seq(Nat) /\ Len(st) = n
      BY <1>2, <2>1, FunctionIsSeq
    <2>3. Total(st) = 4 * n
      BY <2>1, <2>2, TotalEqual
    <2>4. 4 * n \in Nat
      BY <1>2
    <2> QED BY <2>2, <2>3, <2>4 DEF Sized
  <1>7. n <= stl
    BY <1>2
  <1> HIDE DEF u, ul, n, st, stl, ob, obl, ev, evl
  <1>8. Sized(<<4>>, 4)
    BY SizedTuples
  <1>9. Sized(<<4>> \o u \o <<4>> \o st \o ob \o ev, 4 + ul + 4 + stl + obl + evl)
    <2>1. Sized(<<4>> \o u, 4 + ul)
      BY <1>4, <1>8, SizedConcat
    <2>2. Sized(<<4>> \o u \o <<4>>, 4 + ul + 4)
      BY <1>8, <2>1, SizedConcat
    <2>3. Sized(<<4>> \o u \o <<4>> \o st, 4 + ul + 4 + stl)
      BY <1>6, <2>2, SizedConcat
    <2>4. Sized(<<4>> \o u \o <<4>> \o st \o ob, 4 + ul + 4 + stl + obl)
      BY <1>5, <2>3, SizedConcat
    <2> QED BY <1>5, <2>4, SizedConcat
  <1>10. ul \in Nat /\ stl \in Nat /\ obl \in Nat /\ evl \in Nat /\ n \in Nat
    BY <1>2, <1>4, <1>5, <1>6 DEF Sized
  <1> DEFINE whole == batch_output_len(o)
  <1>11. whole = 4 + ul + 4 + stl + obl + evl
    BY <1>3
  <1>12. Sized(write_batch_output(o), whole)
    BY <1>3, <1>9, <1>11
  <1> HIDE DEF whole
  <1>13. ul <= whole /\ n <= whole /\ whole \in Nat
    BY <1>7, <1>10, <1>11
  <1>14. o.update.mode = "FullReplace" => o.update.len \in Nat /\ o.update.len <= whole
    BY <1>4, <1>10, <1>13
  <1> QED BY <1>12, <1>13, <1>14 DEF whole, n

----------------------------------------------------------------------------
(* Every length of an accepted answer fits the field it is written to.      *)
LEMMA IntentsFit ==
  ASSUME NEW o, validate_outbound_intents(o.outbound), validate_event_intents(o.events)
  PROVE  IntentLengthsFit(o)
  BY DEF validate_outbound_intents, validate_event_intents, IntentLengthsFit

(* An update within a size that fits has lengths that fit.                  *)
LEMMA UpdateFits ==
  ASSUME NEW u \in StateUpdates, validate_state_update(u), NEW n \in Nat, FitsU32(n),
         u.mode = "FullReplace" => u.len \in Nat /\ u.len <= n
  PROVE  StateLengthsFit(u)
  <1>1. CASE u.mode = "FullReplace"
    BY <1>1, WidthAssumption DEF StateLengthsFit, FitsU32
  <1>2. CASE u.mode # "FullReplace"
    <2>1. u.mode = "DataPatchList"
      BY <1>2 DEF StateUpdates
    <2> QED BY <1>2, <2>1 DEF StateLengthsFit, validate_state_update
  <1> QED BY <1>1, <1>2

(* Writing an accepted answer to a message succeeds and fills its size.     *)
LEMMA MessageWriterFits ==
  ASSUME NEW o \in MessageOutput, NEW mode, validate_message_shape(o, mode),
         FitsU32(message_output_len(o))
  PROVE  MessageWriterSucceeds(o) /\ Total(write_message_output(o)) = message_output_len(o)
  <1> DEFINE n == message_output_len(o)
  <1>1. /\ Sized(write_message_output(o), n)
        /\ HasUpdate(o) /\ o.update.mode = "FullReplace" => o.update.len \in Nat /\ o.update.len <= n
        /\ o.result <= n /\ Len(o.callbacks) <= n
    BY MessageSize
  <1>2. /\ validate_state_update(o.update) /\ validate_outbound_intents(o.outbound)
        /\ validate_event_intents(o.events)
    BY DEF validate_message_shape
  <1>3. n \in Nat /\ FitsU32(n)
    BY <1>1 DEF Sized
  <1>4. HasUpdate(o) => o.update \in StateUpdates
    BY DEF MessageOutput, HasUpdate
  <1> HIDE DEF n
  <1>5. HasUpdate(o) => StateLengthsFit(o.update)
    BY <1>1, <1>2, <1>3, <1>4, UpdateFits
  <1>6. o.result \in Nat /\ Len(o.callbacks) \in Nat
    <2> DEFINE Callbacks == [outbound : Nat, handler : Nat]
    <2>1. o.callbacks \in Seq(Callbacks) /\ o.result \in Nat
      BY DEF MessageOutput
    <2> HIDE DEF Callbacks
    <2> QED BY <2>1, LenProperties
  <1>7. FitsU32(o.result) /\ FitsU32(Len(o.callbacks))
    <2> DEFINE l == Len(o.callbacks)
               r == o.result
    <2>1. l \in Nat /\ r \in Nat /\ l <= n /\ r <= n
      BY <1>1, <1>6
    <2> HIDE DEF l, r
    <2>2. l <= MaxU32 /\ r <= MaxU32
      BY <1>3, <2>1, WidthAssumption DEF FitsU32
    <2> QED BY <2>2 DEF l, r, FitsU32
  <1>8. IntentLengthsFit(o)
    BY <1>2, IntentsFit
  <1> QED BY <1>1, <1>5, <1>7, <1>8 DEF MessageWriterSucceeds, Sized, n

(* The same for an accepted answer to a batch.                              *)
LEMMA BatchWriterFits ==
  ASSUME NEW o \in BatchOutput, NEW mode, validate_batch_shape(o, mode),
         FitsU32(batch_output_len(o))
  PROVE  BatchWriterSucceeds(o) /\ Total(write_batch_output(o)) = batch_output_len(o)
  <1> DEFINE n == batch_output_len(o)
             l == Len(o.statuses)
  <1>1. /\ Sized(write_batch_output(o), n)
        /\ o.update.mode = "FullReplace" => o.update.len \in Nat /\ o.update.len <= n
        /\ l <= n
    BY BatchSize
  <1>2. /\ validate_state_update(o.update) /\ validate_outbound_intents(o.outbound)
        /\ validate_event_intents(o.events)
    BY DEF validate_batch_shape
  <1>3. n \in Nat /\ FitsU32(n)
    BY <1>1 DEF Sized
  <1>4. o.update \in StateUpdates /\ o.statuses \in Seq(Nat)
    BY DEF BatchOutput
  <1>5. l \in Nat
    BY <1>4, LenProperties
  <1> HIDE DEF n, l
  <1>6. StateLengthsFit(o.update)
    BY <1>1, <1>2, <1>3, <1>4, UpdateFits
  <1>7. FitsU32(l)
    BY <1>1, <1>3, <1>5, WidthAssumption DEF FitsU32
  <1>8. IntentLengthsFit(o)
    BY <1>2, IntentsFit
  <1> QED BY <1>1, <1>6, <1>7, <1>8 DEF BatchWriterSucceeds, Sized, n, l

(* What the SDK encodes for a contract is a list the SDK accepts.           *)
LEMMA EncodedFieldsValid ==
  ASSUME NEW s \in Seq([name : Nat, kind : EventKinds, len : Nat]), CanEncodeFields(s)
  PROVE  /\ validate_event_field_list(EncodedFields(s))
         /\ EncodedFields(s) \in [count : Nat, reserved : Nat, trailing : Nat, fields : EventFields]
  <1> DEFINE Field == [name : Nat, kind : EventKinds, len : Nat]
             Encoded == [name : Nat, kind : Nat, len : Nat]
             n == Len(s)
             q == [i \in 1..n |-> [name |-> s[i].name, kind |-> s[i].kind,
                                   len |-> ValueLen(s[i].kind, s[i].len)]]
  <1>1. n \in Nat /\ \A i \in 1..n : s[i] \in Field
    <2> HIDE DEF Field
    <2> QED BY LenProperties, ElementOfSeq DEF Field
  <1>2. EncodedFields(s) = [count |-> n, reserved |-> 0, trailing |-> 0, fields |-> q]
    BY DEF EncodedFields, Each, Indices
  <1>3. ASSUME NEW i \in 1..n
        PROVE  /\ q[i] \in Encoded
               /\ \/ q[i].kind = 0 /\ q[i].len = 0
                  \/ q[i].kind = 1 /\ q[i].len = 1
                  \/ q[i].kind \in {2, 3} /\ q[i].len = 8
                  \/ q[i].kind \in {4, 5} /\ q[i].len = 16
                  \/ q[i].kind \in {6, 7}
                  \/ q[i].kind = 8 /\ q[i].len = 64
    <2> DEFINE k == s[i].kind
               l == s[i].len
    <2>1. k \in 0..8 /\ l \in Nat /\ s[i].name \in Nat
      BY <1>1 DEF EventKinds
    <2>2. q[i] = [name |-> s[i].name, kind |-> k, len |-> ValueLen(k, l)]
      OBVIOUS
    <2> HIDE DEF k, l, q
    <2>3. k = 0 \/ k = 1 \/ k = 2 \/ k = 3 \/ k = 4 \/ k = 5 \/ k = 6 \/ k = 7 \/ k = 8
      BY <2>1
    <2>4. /\ k = 0 => ValueLen(k, l) = 0
          /\ k = 1 => ValueLen(k, l) = 1
          /\ k = 2 \/ k = 3 => ValueLen(k, l) = 8
          /\ k = 4 \/ k = 5 => ValueLen(k, l) = 16
          /\ k = 6 \/ k = 7 => ValueLen(k, l) = l
          /\ k = 8 => ValueLen(k, l) = 64
      <3>1. k = 0 => ValueLen(k, l) = 0
        BY DEF ValueLen
      <3>2. k = 1 => ValueLen(k, l) = 1
        BY DEF ValueLen
      <3>3. k = 2 \/ k = 3 => ValueLen(k, l) = 8
        BY DEF ValueLen
      <3>4. k = 4 \/ k = 5 => ValueLen(k, l) = 16
        BY DEF ValueLen
      <3>5. k = 6 \/ k = 7 => ValueLen(k, l) = l
        BY DEF ValueLen
      <3>6. k = 8 => ValueLen(k, l) = 64
        BY DEF ValueLen
      <3> QED BY <3>1, <3>2, <3>3, <3>4, <3>5, <3>6
    <2>5. ValueLen(k, l) \in Nat
      BY <2>1, <2>3, <2>4
    <2> QED BY <2>1, <2>2, <2>3, <2>4, <2>5
  <1>4. q \in Seq(Encoded) /\ Len(q) = n
    <2> HIDE DEF Encoded
    <2>1. q \in [1..n -> Encoded]
      BY <1>3
    <2> HIDE DEF q, n
    <2> QED BY <1>1, <2>1, FunctionIsSeq
  <1>5. ASSUME NEW i \in 1..(n - 1) PROVE q[i].name < q[i + 1].name
    <2>1. i \in 1..n /\ i + 1 \in 1..n
      BY <1>1
    <2>2. s[i].name < s[i + 1].name
      BY DEF CanEncodeFields, NamesSorted
    <2> QED BY <2>1, <2>2
  <1> HIDE DEF q, n
  <1>6. validate_event_field_list(EncodedFields(s))
    BY <1>2, <1>3, <1>4, <1>5 DEF validate_event_field_list, Indices
  <1>7. EncodedFields(s) \in [count : Nat, reserved : Nat, trailing : Nat, fields : EventFields]
    BY <1>1, <1>2, <1>4 DEF EventFields
  <1> QED BY <1>6, <1>7

----------------------------------------------------------------------------
(***************************************************************************)
(* Applying an output.                                                     *)
(***************************************************************************)

(* The next patch starts where the one before it ends, or later; so does    *)
(* every later one.                                                        *)
LEMMA PatchesApart ==
  ASSUME NEW u \in StateUpdates, u.mode = "DataPatchList", validate_state_update(u),
         NEW i \in Indices(u.patches), NEW k \in Indices(u.patches), i < k
  PROVE  u.patches[k].offset >= PatchEnd(u.patches[i])
  <1> DEFINE p == u.patches
             n == Len(p)
             Place == [offset : Nat, old_len : Nat, new : Nat]
  <1>1. p \in Seq(Place)
    BY DEF StateUpdates
  <1>2. n \in Nat /\ \A x \in 1..n : p[x].offset \in Nat /\ p[x].old_len \in Nat
    <2>1. n \in Nat /\ \A x \in 1..n : p[x] \in Place
      <3> HIDE DEF Place, p
      <3> QED BY <1>1, ElementOfSeq
    <2> QED BY <2>1
  <1>3. \A x \in 1..n : x > 1 => p[x].offset >= p[x - 1].offset + p[x - 1].old_len
    BY DEF validate_state_update, Indices, PatchEnd
  <1>4. i \in 1..n /\ k \in 1..n
    BY DEF Indices
  <1> DEFINE T == {m \in Nat : i + m + 1 <= n => p[i + m + 1].offset >= p[i].offset + p[i].old_len}
  <1> HIDE DEF p, n
  <1>5. 0 \in T
    <2>1. i + 0 + 1 <= n => p[i + 1].offset >= p[i].offset + p[i].old_len
      <3> SUFFICES ASSUME i + 0 + 1 <= n PROVE p[i + 1].offset >= p[i].offset + p[i].old_len
        OBVIOUS
      <3>1. i + 1 \in 1..n /\ i + 1 > 1 /\ (i + 1) - 1 = i
        BY <1>2, <1>4
      <3> QED BY <1>3, <3>1
    <2>2. i + 0 + 1 = i + 1
      BY <1>4
    <2> QED BY <2>1, <2>2
  <1>6. ASSUME NEW m \in T PROVE m + 1 \in T
    <2>1. m \in Nat /\ (i + m + 1 <= n => p[i + m + 1].offset >= p[i].offset + p[i].old_len)
      OBVIOUS
    <2> SUFFICES ASSUME i + (m + 1) + 1 <= n
                 PROVE  p[i + (m + 1) + 1].offset >= p[i].offset + p[i].old_len
      BY <2>1
    <2> DEFINE a == i + m + 1
               b == i + (m + 1) + 1
    <2>2. a \in 1..n /\ b \in 1..n /\ b > 1 /\ b - 1 = a
      BY <1>2, <1>4, <2>1
    <2>3. p[b].offset >= p[a].offset + p[a].old_len
      BY <1>3, <2>2
    <2>4. p[a].offset >= p[i].offset + p[i].old_len
      BY <2>1, <2>2
    <2> HIDE DEF a, b
    <2>5. p[b].offset >= p[i].offset + p[i].old_len
      BY <1>2, <1>4, <2>2, <2>3, <2>4
    <2> QED BY <2>5 DEF b
  <1> HIDE DEF T
  <1>7. T = Nat
    <2>1. T \subseteq Nat
      BY DEF T
    <2> QED BY <1>5, <1>6, <2>1, CountingUp
  <1>8. k - i - 1 \in T /\ i + (k - i - 1) + 1 = k /\ k <= n
    BY <1>2, <1>4, <1>7
  <1>9. p[k].offset >= p[i].offset + p[i].old_len
    BY <1>8 DEF T
  <1> QED BY <1>9 DEF PatchEnd, p

(* The patches of an accepted output of either kind share no byte.          *)
LEMMA AcceptedAppliesUniquely ==
  ASSUME NEW o, NEW what, NEW mode,
         \/ what = "message" /\ o \in MessageOutput /\ validate_message_shape(o, mode)
         \/ what # "message" /\ o \in BatchOutput /\ validate_batch_shape(o, mode)
  PROVE  o.update.mode = "DataPatchList" =>
           \A i, k \in Indices(o.update.patches) :
             i < k => \A x \in 0..MaxU32 :
               ~( /\ x >= o.update.patches[i].offset
                  /\ x < o.update.patches[i].offset + o.update.patches[i].old_len
                  /\ x >= o.update.patches[k].offset
                  /\ x < o.update.patches[k].offset + o.update.patches[k].old_len )
  <1>1. ASSUME o.update.mode = "DataPatchList",
               NEW i \in Indices(o.update.patches), NEW k \in Indices(o.update.patches), i < k,
               NEW x \in 0..MaxU32, x < o.update.patches[i].offset + o.update.patches[i].old_len,
               x >= o.update.patches[k].offset
        PROVE  FALSE
    <2> DEFINE u == o.update
    <2>1. u \in StateUpdates /\ validate_state_update(u)
      BY <1>1 DEF MessageOutput, BatchOutput, None, validate_message_shape, validate_batch_shape
    <2>2. u.patches[k].offset >= PatchEnd(u.patches[i])
      <3> HIDE DEF u
      <3>1. i \in Indices(u.patches) /\ k \in Indices(u.patches) /\ u.mode = "DataPatchList"
        BY <1>1 DEF u
      <3> QED BY <1>1, <2>1, <3>1, PatchesApart
    <2>3. u.patches \in Seq([offset : Nat, old_len : Nat, new : Nat])
      BY <1>1, <2>1 DEF StateUpdates
    <2>4. /\ u.patches[i].offset \in Nat /\ u.patches[i].old_len \in Nat
          /\ u.patches[k].offset \in Nat
      <3>1. \A a \in Indices(u.patches) :
              u.patches[a] \in [offset : Nat, old_len : Nat, new : Nat]
        BY <2>3, ElementOfSeq DEF Indices
      <3>2. i \in Indices(u.patches) /\ k \in Indices(u.patches)
        BY <1>1
      <3> HIDE DEF u
      <3>3. /\ u.patches[i] \in [offset : Nat, old_len : Nat, new : Nat]
            /\ u.patches[k] \in [offset : Nat, old_len : Nat, new : Nat]
        BY <3>1, <3>2
      <3> QED BY <3>3
    <2>5. x \in Int
      BY WidthAssumption
    <2> QED BY <1>1, <2>2, <2>4, <2>5 DEF PatchEnd
  <1> QED BY <1>1

----------------------------------------------------------------------------
(***************************************************************************)
(* Calls.                                                                  *)
(***************************************************************************)

\* What arrived is made of what a host passes.
ArrivedTyped ==
    /\ arrived.what = "message" => arrived.frame \in MessageFrames
    /\ arrived.what = "batch" => arrived.frame \in BatchFrames
    /\ arrived.what = "envelope" =>
         arrived.frame \in DeployFrames /\ arrived.envelope \in Envelopes

\* Constructor fields come from an envelope that was checked as a whole.
ConstructorChecked ==
    input.what = "constructor" =>
      /\ input.body \in Envelopes
      /\ input.deploy = DeployInput(input.body)
      /\ \E f \in DeployFrames : deploy(f, input.body)

\* An event is the encoding of fields that can be encoded.
EventEncoded ==
    event # Nothing =>
      \E fields \in FieldLists : CanEncodeFields(fields) /\ event.list = EncodedFields(fields)

\* An answer is of the kind its input asks for.
OutputTyped ==
    output # Nothing =>
      IF output.what = "message" THEN output.value \in MessageOutput ELSE output.value \in BatchOutput

CallsInv == ArrivedTyped /\ ConstructorChecked /\ EventEncoded /\ OutputTyped

(* Putting an encoded event into an output leaves it an output.             *)
LEMMA ReturnedTyped ==
  ASSUME NEW o, EventEncoded
  PROVE  /\ o \in MessageOutput => Returned(o) \in MessageOutput
         /\ o \in BatchOutput => Returned(o) \in BatchOutput
  <1>1. CASE event = Nothing
    BY <1>1 DEF Returned
  <1>2. CASE event # Nothing
    <2> DEFINE List == [count : Nat, reserved : Nat, trailing : Nat, fields : EventFields]
               l == event.list
               n == Len(o.events)
               q == [i \in 1..n |-> [o.events[i] EXCEPT !.fields = l]]
    <2>1. l \in List
      BY <1>2, OutputsAssumption, EncodedFieldsValid DEF EventEncoded
    <2>2. ASSUME o.events \in Seq(EventIntents) PROVE q \in Seq(EventIntents)
      <3>1. n \in Nat /\ \A i \in 1..n : o.events[i] \in EventIntents
        BY <2>2, LenProperties, ElementOfSeq
      <3>2. \A i \in 1..n : [o.events[i] EXCEPT !.fields = l] \in EventIntents
        BY <2>1, <3>1 DEF EventIntents
      <3>3. q \in [1..n -> EventIntents]
        BY <3>2
      <3> HIDE DEF q, n
      <3> QED BY <3>1, <3>3, FunctionIsSeq
    <2>3. Returned(o) = [o EXCEPT !.events = q]
      BY <1>2 DEF Returned, Each, Indices
    <2> HIDE DEF q, l, List
    <2>4. ASSUME o \in MessageOutput PROVE [o EXCEPT !.events = q] \in MessageOutput
      <3>1. q \in Seq(EventIntents)
        BY <2>2, <2>4 DEF MessageOutput
      <3> QED BY <2>4, <3>1 DEF MessageOutput
    <2>5. ASSUME o \in BatchOutput PROVE [o EXCEPT !.events = q] \in BatchOutput
      <3>1. q \in Seq(EventIntents)
        BY <2>2, <2>5 DEF BatchOutput
      <3> QED BY <2>5, <3>1 DEF BatchOutput
    <2> QED BY <2>3, <2>4, <2>5
  <1> QED BY <1>1, <1>2

(* Whatever arrives, the decoders, the contract and its answer keep this.   *)
THEOREM CallsInvariance == Spec => []CallsInv
  <1>1. Init => CallsInv
    BY DEF Init, Nothing, CallsInv, ArrivedTyped, ConstructorChecked, EventEncoded, OutputTyped
  <1>2. CallsInv /\ [Next]_vars => CallsInv'
    <2> SUFFICES ASSUME CallsInv, [Next]_vars PROVE CallsInv'
      OBVIOUS
    <2> USE DEF CallsInv
    <2>1. ASSUME NEW f \in MessageFrames, ArriveMessage(f) PROVE CallsInv'
      BY <2>1 DEF ArriveMessage, ArrivedTyped, ConstructorChecked, EventEncoded, OutputTyped
    <2>2. ASSUME NEW b \in BatchFrames, ArriveBatch(b) PROVE CallsInv'
      BY <2>2 DEF ArriveBatch, ArrivedTyped, ConstructorChecked, EventEncoded, OutputTyped
    <2>3. ASSUME NEW f \in DeployFrames, NEW e \in Envelopes, ArriveEnvelope(f, e) PROVE CallsInv'
      BY <2>3 DEF ArriveEnvelope, ArrivedTyped, ConstructorChecked, EventEncoded, OutputTyped
    <2>4. ASSUME NEW in, NEW is_init, RunMessage(in, is_init) PROVE CallsInv'
      <3>1. arrived' = Nothing /\ input'.what = "message" /\ UNCHANGED <<event, output>>
        BY <2>4 DEF RunMessage
      <3> QED BY <3>1 DEF Nothing, ArrivedTyped, ConstructorChecked, EventEncoded, OutputTyped
    <2>5. ASSUME NEW mode, RunBatch(mode) PROVE CallsInv'
      <3>1. arrived' = Nothing /\ input'.what = "batch" /\ UNCHANGED <<event, output>>
        BY <2>5 DEF RunBatch
      <3> QED BY <3>1 DEF Nothing, ArrivedTyped, ConstructorChecked, EventEncoded, OutputTyped
    <2>6. ASSUME ReadDeploy PROVE CallsInv'
      <3>1. arrived' = Nothing /\ UNCHANGED <<event, output>>
        BY <2>6 DEF ReadDeploy
      <3>2. ArrivedTyped' /\ EventEncoded' /\ OutputTyped'
        BY <3>1 DEF Nothing, ArrivedTyped, EventEncoded, OutputTyped
      <3>3. /\ input'.body = arrived.envelope /\ input'.deploy = DeployInput(arrived.envelope)
            /\ deploy(arrived.frame, arrived.envelope)
            /\ arrived.frame \in DeployFrames /\ arrived.envelope \in Envelopes
        BY <2>6 DEF ReadDeploy, ArrivedTyped
      <3>4. ConstructorChecked'
        BY <3>3 DEF ConstructorChecked
      <3> QED BY <3>2, <3>4
    <2>7. ASSUME NEW fields \in FieldLists, EncodeEvent(fields) PROVE CallsInv'
      <3>1. ArrivedTyped' /\ ConstructorChecked' /\ OutputTyped'
        BY <2>7 DEF EncodeEvent, ArrivedTyped, ConstructorChecked, OutputTyped
      <3>2. CanEncodeFields(fields) /\ event'.list = EncodedFields(fields)
        BY <2>7 DEF EncodeEvent
      <3> QED BY <3>1, <3>2 DEF EventEncoded
    <2>8. ASSUME input.what = "message", NEW o \in Outputs, Answer(o) PROVE CallsInv'
      <3>1. ArrivedTyped' /\ ConstructorChecked' /\ EventEncoded'
        BY <2>8 DEF Answer, ArrivedTyped, ConstructorChecked, EventEncoded
      <3>2. output'.what = "message" /\ output'.value = Returned(o)
        BY <2>8 DEF Answer
      <3>3. Returned(o) \in MessageOutput
        BY OutputsAssumption, ReturnedTyped
      <3> QED BY <3>1, <3>2, <3>3 DEF OutputTyped
    <2>9. ASSUME input.what = "batch", NEW o \in BatchOutputs, Answer(o) PROVE CallsInv'
      <3>1. ArrivedTyped' /\ ConstructorChecked' /\ EventEncoded'
        BY <2>9 DEF Answer, ArrivedTyped, ConstructorChecked, EventEncoded
      <3>2. output'.what = "batch" /\ output'.value = Returned(o)
        BY <2>9 DEF Answer
      <3>3. Returned(o) \in BatchOutput
        BY OutputsAssumption, ReturnedTyped
      <3> QED BY <3>1, <3>2, <3>3 DEF OutputTyped
    <2>10. CASE UNCHANGED vars
      BY <2>10 DEF vars, ArrivedTyped, ConstructorChecked, EventEncoded, OutputTyped
    <2> QED BY <2>1, <2>2, <2>3, <2>4, <2>5, <2>6, <2>7, <2>8, <2>9, <2>10 DEF Next
  <1> QED BY <1>1, <1>2, PTL DEF Spec

(* Every message and every batch the SDK accepts has one encoding, whatever *)
(* its size: nothing between, behind or beside the pieces it reads, and     *)
(* currencies and event reads in the one ascending order.                  *)
THEOREM OneEncoding == Spec => []InputsAreCanonical
  <1>1. CallsInv => InputsAreCanonical
    <2> SUFFICES ASSUME CallsInv PROVE InputsAreCanonical
      OBVIOUS
    <2>1. ASSUME arrived.what = "message", decode_canonical_message(arrived.frame)
          PROVE  Encoding(Message(arrived.frame)) = arrived.frame
      <3>1. arrived.frame \in MessageEncoding
        BY <2>1, FramesAssumption DEF CallsInv, ArrivedTyped
      <3> QED BY <2>1, <3>1, MessageIsCanonical
    <2>2. ASSUME arrived.what = "batch", decode_batch_input(arrived.frame)
          PROVE  /\ \A i \in 1..arrived.frame.count : MayBatch(Item(arrived.frame, i))
                 /\ FlattenSeq([i \in 1..arrived.frame.count |-> Item(arrived.frame, i)])
                      = Slice(arrived.frame, 0, MessagesLen(arrived.frame))
      <3>1. arrived.frame \in BatchEncoding
        BY <2>2, FramesAssumption DEF CallsInv, ArrivedTyped
      <3> QED BY <2>2, <3>1, BatchIsCanonical
    <2> QED BY <2>1, <2>2 DEF InputsAreCanonical
  <1> QED BY <1>1, CallsInvariance, PTL

(* The fields a constructor reads are the ones its deployer wrote, whatever *)
(* the lengths of the seven pieces.                                        *)
THEOREM ViewExact == Spec => []DeployViewExact
  <1>1. CallsInv => DeployViewExact
    <2> SUFFICES ASSUME CallsInv, input.what = "constructor"
                 PROVE  EnvelopeOf(Deployment(input.body, input.deploy)) = input.body
      BY DEF DeployViewExact
    <2>1. /\ input.body \in EnvelopeEncoding /\ input.deploy = DeployInput(input.body)
          /\ \E f \in DeployFrames : deploy(f, input.body)
      BY FramesAssumption DEF CallsInv, ConstructorChecked
    <2>2. PICK f \in DeployFrames : deploy(f, input.body)
      BY <2>1
    <2> QED BY <2>1, <2>2, EnvelopeIsExact
  <1> QED BY <1>1, CallsInvariance, PTL

(* Event fields the SDK encoded are never refused, and an accepted answer   *)
(* of any size is written without an error into exactly the bytes reserved. *)
THEOREM WriterFills == Spec => []EncodersAgree
  <1>1. CallsInv => EncodersAgree
    <2> SUFFICES ASSUME CallsInv PROVE EncodersAgree
      OBVIOUS
    <2>1. ASSUME event # Nothing PROVE validate_event_field_list(event.list)
      <3>1. PICK fields \in FieldLists : CanEncodeFields(fields) /\ event.list = EncodedFields(fields)
        BY <2>1 DEF CallsInv, EventEncoded
      <3> QED BY <3>1, OutputsAssumption, EncodedFieldsValid
    <2>2. ASSUME Accepted, output.what = "message"
          PROVE  /\ MessageWriterSucceeds(output.value)
                 /\ Total(write_message_output(output.value)) = message_output_len(output.value)
      <3>1. /\ output.value \in MessageOutput
            /\ validate_message_shape(output.value, input.mode)
            /\ FitsU32(message_output_len(output.value))
        BY <2>2 DEF CallsInv, OutputTyped, Accepted, message_output_len_for
      <3> QED BY <3>1, MessageWriterFits
    <2>3. ASSUME Accepted, output.what # "message"
          PROVE  /\ BatchWriterSucceeds(output.value)
                 /\ Total(write_batch_output(output.value)) = batch_output_len(output.value)
      <3>1. /\ output.value \in BatchOutput
            /\ validate_batch_shape(output.value, input.mode)
            /\ FitsU32(batch_output_len(output.value))
        BY <2>3 DEF CallsInv, OutputTyped, Accepted, batch_output_len_for
      <3> QED BY <3>1, BatchWriterFits
    <2> QED BY <2>1, <2>2, <2>3 DEF EncodersAgree
  <1> QED BY <1>1, CallsInvariance, PTL

(* The patches of an accepted answer never touch a byte twice, however many *)
(* they are.                                                               *)
THEOREM AppliesOnce == Spec => []AppliesUniquely
  <1>1. CallsInv => AppliesUniquely
    <2> SUFFICES ASSUME CallsInv, Accepted PROVE AppliesUniquely
      BY DEF AppliesUniquely
    <2> DEFINE o == output.value
               what == output.what
    <2>1. \/ what = "message" /\ o \in MessageOutput /\ validate_message_shape(o, input.mode)
          \/ what # "message" /\ o \in BatchOutput /\ validate_batch_shape(o, input.mode)
      BY DEF CallsInv, OutputTyped, Accepted, message_output_len_for, batch_output_len_for
    <2> HIDE DEF o, what
    <2>2. o.update.mode = "DataPatchList" =>
            \A i, k \in Indices(o.update.patches) :
              i < k => \A x \in 0..MaxU32 :
                ~( /\ x >= o.update.patches[i].offset
                   /\ x < o.update.patches[i].offset + o.update.patches[i].old_len
                   /\ x >= o.update.patches[k].offset
                   /\ x < o.update.patches[k].offset + o.update.patches[k].old_len )
      BY <2>1, AcceptedAppliesUniquely
    <2> QED BY <2>2 DEF AppliesUniquely, o, what
  <1> QED BY <1>1, CallsInvariance, PTL
=============================================================================
