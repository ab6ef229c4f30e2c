-------------------------- MODULE RevenueHubProofs --------------------------
(***************************************************************************)
(* The revenue vault and its audit, for every number of members, their     *)
(* weights and shares, any deposits, governance parameters and integer     *)
(* widths, any batch limit and whatever reports are lost, late, repeated   *)
(* or batched.                                                             *)
(*                                                                         *)
(* The vault.  Shares: a member's entitlement is the floor of its share,   *)
(* and the floors leave less dust than there are members.  The books:      *)
(* every candidate state a handler builds from a valid state is valid      *)
(* again.  Claims: what is in flight for one member answers that member's  *)
(* attempt and no other.  Governance: a vote stands for the words of the   *)
(* proposal it was cast on.                                                *)
(*                                                                         *)
(* The audit.  Folds: what a left fold over a sequence and a sum over a    *)
(* finite set compute, one element at a time.  Batches: a batch leaves the *)
(* ledger that its messages leave one by one, so what holds after one      *)
(* report holds after a batch.  Records: a record is the sum of payments   *)
(* its member received, and payments not yet recorded always fit, because  *)
(* the receiver's own total and nonce bound them.  Bytes: the compact      *)
(* ledger's bytes are those of the regular ledger, region by region, after *)
(* every update in either mode and after the conversion from the regular   *)
(* layout.                                                                 *)
(***************************************************************************)
EXTENDS RevenueHub, FiniteSetTheorems, TLAPS

USE DEF ConfigValid

----------------------------------------------------------------------------
(***************************************************************************)
(* Shares.                                                                 *)
(***************************************************************************)

(* A quotient is the one number of whole divisors below the dividend.       *)
LEMMA QuotientUnique ==
  ASSUME NEW a \in Nat, NEW d \in Nat, d > 0, NEW q \in Int, q * d <= a, a < q * d + d
  PROVE  a \div d = q
  OBVIOUS

LEMMA QuotientBounds ==
  ASSUME NEW a \in Nat, NEW d \in Nat, d > 0
  PROVE  /\ a \div d \in Nat
         /\ (a \div d) * d <= a /\ a < (a \div d) * d + d
         /\ a % d \in Nat /\ a = (a \div d) * d + (a % d)
  <1>1. a \div d \in Nat /\ (a \div d) * d <= a /\ a < (a \div d) * d + d
    OBVIOUS
  <1>2. a = (a \div d) * d + (a % d) /\ a % d \in 0..(d-1)
    OBVIOUS
  <1> QED BY <1>1, <1>2

LEMMA ProductMonotone ==
  ASSUME NEW a \in Nat, NEW b \in Nat, NEW c \in Nat, a <= b PROVE a * c <= b * c
  OBVIOUS

LEMMA ProductNat == ASSUME NEW a \in Nat, NEW b \in Nat PROVE a * b \in Nat
  OBVIOUS

LEMMA QuotientMonotone ==
  ASSUME NEW a \in Nat, NEW b \in Nat, NEW d \in Nat, d > 0, a <= b
  PROVE  a \div d <= b \div d
  <1> DEFINE p == a \div d
             q == b \div d
  <1>1. /\ p \in Nat /\ q \in Nat
        /\ p * d <= a /\ b < q * d + d
    BY QuotientBounds
  <1>2. SUFFICES ASSUME q + 1 <= p PROVE FALSE
    BY <1>1
  <1>3. (q + 1) * d <= p * d
    BY <1>1, <1>2, ProductMonotone
  <1>4. (q + 1) * d = q * d + d /\ q * d \in Nat /\ p * d \in Nat
    BY <1>1
  <1> HIDE DEF p, q
  <1> QED BY <1>1, <1>3, <1>4

(* What entitlement() computes without the product is the floor of the product.*)
LEMMA SplitQuotient ==
  ASSUME NEW a \in Nat, NEW e \in Nat, NEW d \in Nat, d > 0
  PROVE  (a * e) \div d = (a \div d) * e + ((a % d) * e) \div d
  <1> DEFINE q == a \div d
             r == a % d
             w == (r * e) \div d
  <1>1. q \in Nat /\ r \in Nat /\ a = q * d + r
    BY QuotientBounds
  <1>2. r * e \in Nat /\ q * e \in Nat /\ a * e \in Nat
    BY <1>1, ProductNat
  <1>3. w \in Nat /\ w * d <= r * e /\ r * e < w * d + d
    BY <1>2, QuotientBounds
  <1> HIDE DEF q, r, w
  <1>4. a * e = (q * e) * d + r * e
    BY <1>1
  <1>5. (q * e + w) * d = (q * e) * d + w * d
    BY <1>1, <1>2, <1>3
  <1>6. (q * e) * d \in Nat /\ w * d \in Nat
    BY <1>2, <1>3, ProductNat
  <1>7. (q * e + w) * d <= a * e /\ a * e < (q * e + w) * d + d
    BY <1>2, <1>3, <1>4, <1>5, <1>6
  <1>8. (a * e) \div d = q * e + w
    BY <1>2, <1>3, <1>7, QuotientUnique
  <1> QED BY <1>8 DEF q, r, w

LEMMA EntitlementIsFloor ==
  ASSUME NEW total \in Nat, NEW weight \in Nat
  PROVE  entitlement(total, weight) = (total * weight) \div DENOMINATOR
  BY SplitQuotient, WidthAssumption DEF entitlement

LEMMA WeightType == \A i \in Members : Weights[i] \in Nat \ {0}
  BY ConfigAssumption, WidthAssumption

LEMMA EntitlementBounds ==
  ASSUME NEW total \in Nat, NEW i \in Members
  PROVE  LET e == entitlement(total, Weights[i]) IN
         /\ e \in Nat
         /\ e * DENOMINATOR <= total * Weights[i]
         /\ total * Weights[i] <= e * DENOMINATOR + (DENOMINATOR - 1)
  <1> DEFINE a == total * Weights[i]
             e == a \div DENOMINATOR
  <1>1. a \in Nat
    BY WeightType, ProductNat
  <1>2. e \in Nat /\ e * DENOMINATOR <= a /\ a < e * DENOMINATOR + DENOMINATOR
    <2> HIDE DEF a
    <2> QED BY <1>1, QuotientBounds, WidthAssumption
  <1>3. entitlement(total, Weights[i]) = e
    BY EntitlementIsFloor, WeightType
  <1> HIDE DEF a, e
  <1>4. e * DENOMINATOR \in Nat
    BY <1>2, WidthAssumption
  <1> QED BY <1>1, <1>2, <1>3, <1>4, WidthAssumption DEF a

(* A deposit never takes from what a member already may claim.              *)
LEMMA EntitlementMonotone ==
  ASSUME NEW total \in Nat, NEW next \in Nat, total <= next, NEW i \in Members
  PROVE  entitlement(total, Weights[i]) <= entitlement(next, Weights[i])
  <1> DEFINE w == Weights[i]
  <1>1. w \in Nat
    BY WeightType
  <1>2. total * w \in Nat /\ next * w \in Nat /\ total * w <= next * w
    BY <1>1, ProductNat, ProductMonotone
  <1> HIDE DEF w
  <1>3. (total * w) \div DENOMINATOR <= (next * w) \div DENOMINATOR
    BY <1>2, QuotientMonotone, WidthAssumption
  <1> QED BY <1>1, <1>3, EntitlementIsFloor DEF w

LEMMA CountRange == Count \in 1..16 /\ Members = 0..(Count - 1)
  BY ConfigAssumption DEF Members, MAX_MEMBERS

(* The code's sum over its fixed array is additive, monotone and exact on   *)
(* single members.                                                          *)
LEMMA SumInt == ASSUME NEW f \in [Members -> Int] PROVE SumMembers(f) \in Int
  <1> DEFINE a(i) == IF i < Count THEN f[i] ELSE 0
  <1>1. \A i \in 0..15 : a(i) \in Int
    BY CountRange
  <1>2. SumMembers(f) = a(0) + a(1) + a(2) + a(3) + a(4) + a(5) + a(6) + a(7)
          + a(8) + a(9) + a(10) + a(11) + a(12) + a(13) + a(14) + a(15)
    BY DEF SumMembers
  <1> HIDE DEF a
  <1> QED BY <1>1, <1>2

LEMMA SumMonotone ==
  ASSUME NEW f \in [Members -> Int], NEW g \in [Members -> Int],
         \A i \in Members : f[i] <= g[i]
  PROVE  SumMembers(f) <= SumMembers(g)
  <1> DEFINE a(i) == IF i < Count THEN f[i] ELSE 0
             b(i) == IF i < Count THEN g[i] ELSE 0
  <1>1. \A i \in 0..15 : a(i) \in Int /\ b(i) \in Int /\ a(i) <= b(i)
    BY CountRange
  <1>2. SumMembers(f) = a(0) + a(1) + a(2) + a(3) + a(4) + a(5) + a(6) + a(7)
          + a(8) + a(9) + a(10) + a(11) + a(12) + a(13) + a(14) + a(15)
    BY DEF SumMembers
  <1>3. SumMembers(g) = b(0) + b(1) + b(2) + b(3) + b(4) + b(5) + b(6) + b(7)
          + b(8) + b(9) + b(10) + b(11) + b(12) + b(13) + b(14) + b(15)
    BY DEF SumMembers
  <1> HIDE DEF a, b
  <1> QED BY <1>1, <1>2, <1>3

LEMMA SumAdds ==
  ASSUME NEW f \in [Members -> Int], NEW g \in [Members -> Int], NEW h \in [Members -> Int],
         \A i \in Members : h[i] = f[i] + g[i]
  PROVE  SumMembers(h) = SumMembers(f) + SumMembers(g)
  <1> DEFINE a(i) == IF i < Count THEN f[i] ELSE 0
             b(i) == IF i < Count THEN g[i] ELSE 0
             c(i) == IF i < Count THEN h[i] ELSE 0
  <1>1. \A i \in 0..15 : a(i) \in Int /\ b(i) \in Int /\ c(i) = a(i) + b(i)
    BY CountRange
  <1>2. SumMembers(f) = a(0) + a(1) + a(2) + a(3) + a(4) + a(5) + a(6) + a(7)
          + a(8) + a(9) + a(10) + a(11) + a(12) + a(13) + a(14) + a(15)
    BY DEF SumMembers
  <1>3. SumMembers(g) = b(0) + b(1) + b(2) + b(3) + b(4) + b(5) + b(6) + b(7)
          + b(8) + b(9) + b(10) + b(11) + b(12) + b(13) + b(14) + b(15)
    BY DEF SumMembers
  <1>4. SumMembers(h) = c(0) + c(1) + c(2) + c(3) + c(4) + c(5) + c(6) + c(7)
          + c(8) + c(9) + c(10) + c(11) + c(12) + c(13) + c(14) + c(15)
    BY DEF SumMembers
  <1> HIDE DEF a, b, c
  <1> QED BY <1>1, <1>2, <1>3, <1>4

LEMMA Distributes ==
  ASSUME NEW k \in Int, NEW a \in Int, NEW b \in Int, NEW c \in Int, NEW d \in Int
  PROVE  k * (a + b + c + d) = k * a + k * b + k * c + k * d
  OBVIOUS

LEMMA SumScales ==
  ASSUME NEW k \in Int, NEW f \in [Members -> Int], NEW g \in [Members -> Int],
         \A i \in Members : g[i] = k * f[i]
  PROVE  SumMembers(g) = k * SumMembers(f)
  <1> DEFINE a(i) == IF i < Count THEN f[i] ELSE 0
             b(i) == IF i < Count THEN g[i] ELSE 0
  <1>1. \A i \in 0..15 : a(i) \in Int /\ b(i) = k * a(i)
    BY CountRange
  <1>2. SumMembers(f) = a(0) + a(1) + a(2) + a(3) + a(4) + a(5) + a(6) + a(7)
          + a(8) + a(9) + a(10) + a(11) + a(12) + a(13) + a(14) + a(15)
    BY DEF SumMembers
  <1>3. SumMembers(g) = b(0) + b(1) + b(2) + b(3) + b(4) + b(5) + b(6) + b(7)
          + b(8) + b(9) + b(10) + b(11) + b(12) + b(13) + b(14) + b(15)
    BY DEF SumMembers
  <1> HIDE DEF a, b
  <1>4. \A i \in 0..15 : a(i) \in Int /\ b(i) \in Int
    BY <1>1
  <1> DEFINE x(i) == a(i) + a(i+1) + a(i+2) + a(i+3)
             y(i) == b(i) + b(i+1) + b(i+2) + b(i+3)
  <1>5. \A i \in {0, 4, 8, 12} : x(i) \in Int /\ y(i) = k * x(i)
    <2>1. ASSUME NEW i \in {0, 4, 8, 12} PROVE x(i) \in Int /\ y(i) = k * x(i)
      <3>1. /\ a(i) \in Int /\ a(i+1) \in Int /\ a(i+2) \in Int /\ a(i+3) \in Int
            /\ b(i) = k * a(i) /\ b(i+1) = k * a(i+1)
            /\ b(i+2) = k * a(i+2) /\ b(i+3) = k * a(i+3)
        BY <1>1
      <3> QED BY <3>1, Distributes
    <2> QED BY <2>1
  <1>6. /\ SumMembers(f) = x(0) + x(4) + x(8) + x(12)
        /\ SumMembers(g) = y(0) + y(4) + y(8) + y(12)
    <2>1. /\ x(0) = a(0) + a(1) + a(2) + a(3) /\ x(4) = a(4) + a(5) + a(6) + a(7)
          /\ x(8) = a(8) + a(9) + a(10) + a(11) /\ x(12) = a(12) + a(13) + a(14) + a(15)
      OBVIOUS
    <2>2. /\ y(0) = b(0) + b(1) + b(2) + b(3) /\ y(4) = b(4) + b(5) + b(6) + b(7)
          /\ y(8) = b(8) + b(9) + b(10) + b(11) /\ y(12) = b(12) + b(13) + b(14) + b(15)
      OBVIOUS
    <2>3. SumMembers(f) = x(0) + x(4) + x(8) + x(12)
      <3>1. \A i \in 0..15 : a(i) \in Int
        BY <1>4
      <3> HIDE DEF x, y
      <3> QED BY <1>2, <2>1, <3>1
    <2>4. SumMembers(g) = y(0) + y(4) + y(8) + y(12)
      <3>1. \A i \in 0..15 : b(i) \in Int
        BY <1>4
      <3> HIDE DEF x, y
      <3> QED BY <1>3, <2>2, <3>1
    <2> QED BY <2>3, <2>4
  <1> HIDE DEF x, y
  <1> QED BY <1>5, <1>6, Distributes

(* Two tables that differ in one member have sums that differ by as much.   *)
LEMMA SumUpdate ==
  ASSUME NEW f \in [Members -> Int], NEW g \in [Members -> Int], NEW i \in Members,
         \A j \in Members \ {i} : f[j] = g[j]
  PROVE  SumMembers(g) = SumMembers(f) + (g[i] - f[i])
  <1> DEFINE a(j) == IF j < Count THEN f[j] ELSE 0
             b(j) == IF j < Count THEN g[j] ELSE 0
             x == g[i] - f[i]
  <1>1. \A j \in 0..15 : a(j) \in Int /\ b(j) = a(j) + IF j = i THEN x ELSE 0
    BY CountRange
  <1>2. SumMembers(f) = a(0) + a(1) + a(2) + a(3) + a(4) + a(5) + a(6) + a(7)
          + a(8) + a(9) + a(10) + a(11) + a(12) + a(13) + a(14) + a(15)
    BY DEF SumMembers
  <1>3. SumMembers(g) = b(0) + b(1) + b(2) + b(3) + b(4) + b(5) + b(6) + b(7)
          + b(8) + b(9) + b(10) + b(11) + b(12) + b(13) + b(14) + b(15)
    BY DEF SumMembers
  <1>4. x \in Int /\ i \in 0..15
    BY CountRange
  <1> HIDE DEF a, b, x
  <1>5. SumMembers(g) = SumMembers(f) + x
    BY <1>1, <1>2, <1>3, <1>4
  <1> QED BY <1>5 DEF x

LEMMA SumOnes == SumMembers([i \in Members |-> 1]) = Count
  <1> DEFINE a(i) == IF i < Count THEN 1 ELSE 0
  <1> DEFINE f == [i \in Members |-> 1]
             b(i) == IF i < Count THEN f[i] ELSE 0
  <1>1. \A i \in 0..15 : b(i) = a(i)
    BY CountRange
  <1>2. SumMembers(f) = b(0) + b(1) + b(2) + b(3) + b(4) + b(5) + b(6) + b(7)
          + b(8) + b(9) + b(10) + b(11) + b(12) + b(13) + b(14) + b(15)
    BY DEF SumMembers
  <1> HIDE DEF b, f
  <1>3. SumMembers(f) = a(0) + a(1) + a(2) + a(3) + a(4) + a(5) + a(6) + a(7)
          + a(8) + a(9) + a(10) + a(11) + a(12) + a(13) + a(14) + a(15)
    <2> HIDE DEF a
    <2> QED BY <1>1, <1>2
  <1> QED BY <1>3, CountRange DEF f

LEMMA SumZero ==
  ASSUME NEW f, \A i \in Members : f[i] = 0 PROVE SumMembers(f) = 0
  <1> DEFINE a(i) == IF i < Count THEN f[i] ELSE 0
  <1>1. \A i \in 0..15 : a(i) = 0
    BY CountRange
  <1>2. SumMembers(f) = a(0) + a(1) + a(2) + a(3) + a(4) + a(5) + a(6) + a(7)
          + a(8) + a(9) + a(10) + a(11) + a(12) + a(13) + a(14) + a(15)
    BY DEF SumMembers
  <1> HIDE DEF a
  <1> QED BY <1>1, <1>2

(* The shares never exceed the revenue, and leave less than one unit per    *)
(* member undistributed.                                                    *)
LEMMA EntitlementsBound ==
  ASSUME NEW total \in Nat
  PROVE  LET all == SumMembers([i \in Members |-> entitlement(total, Weights[i])]) IN
         all \in Int /\ all <= total /\ total - all < Count
  <1> DEFINE e == [i \in Members |-> entitlement(total, Weights[i])]
             scaled == [i \in Members |-> DENOMINATOR * e[i]]
             whole == [i \in Members |-> total * Weights[i]]
             ones == [i \in Members |-> 1]
             slack == [i \in Members |-> (DENOMINATOR - 1) * ones[i]]
             top == [i \in Members |-> scaled[i] + slack[i]]
             all == SumMembers(e)
  <1>0. DENOMINATOR \in Nat \ {0} /\ Count \in Nat \ {0}
    BY WidthAssumption, ConfigAssumption
  <1>1. \A i \in Members : /\ e[i] \in Nat /\ Weights[i] \in Nat
                           /\ e[i] * DENOMINATOR <= total * Weights[i]
                           /\ total * Weights[i] <= e[i] * DENOMINATOR + (DENOMINATOR - 1)
    BY EntitlementBounds, WeightType
  <1>2. e \in [Members -> Int] /\ Weights \in [Members -> Int] /\ ones \in [Members -> Int]
    BY <1>1, ConfigAssumption, <1>0
  <1>3. /\ scaled \in [Members -> Int] /\ whole \in [Members -> Int]
        /\ slack \in [Members -> Int] /\ top \in [Members -> Int]
    BY <1>0, <1>1
  <1>4. /\ \A i \in Members : scaled[i] <= whole[i] /\ whole[i] <= top[i]
        /\ \A i \in Members : scaled[i] = DENOMINATOR * e[i]
        /\ \A i \in Members : whole[i] = total * Weights[i]
        /\ \A i \in Members : slack[i] = (DENOMINATOR - 1) * ones[i]
        /\ \A i \in Members : top[i] = scaled[i] + slack[i]
    BY <1>0, <1>1
  <1>5. SumMembers(ones) = Count
    BY SumOnes
  <1> HIDE DEF e, scaled, whole, ones, slack, top
  <1>6. SumMembers(scaled) <= SumMembers(whole) /\ SumMembers(whole) <= SumMembers(top)
    BY <1>3, <1>4, SumMonotone
  <1>7. SumMembers(scaled) = DENOMINATOR * all
    <2>1. DENOMINATOR \in Int
      BY <1>0
    <2> QED BY <2>1, <1>2, <1>3, <1>4, SumScales
  <1>8. SumMembers(whole) = total * DENOMINATOR
    <2>1. SumMembers(whole) = total * SumMembers(Weights)
      BY <1>2, <1>3, <1>4, SumScales
    <2> QED BY <2>1, ConfigAssumption
  <1>9. SumMembers(slack) = (DENOMINATOR - 1) * Count
    <2>1. DENOMINATOR - 1 \in Int
      BY <1>0
    <2>2. SumMembers(slack) = (DENOMINATOR - 1) * SumMembers(ones)
      BY <2>1, <1>2, <1>3, <1>4, SumScales
    <2> QED BY <1>5, <2>2
  <1>10. SumMembers(top) = SumMembers(scaled) + SumMembers(slack)
    BY <1>3, <1>4, SumAdds
  <1>11. all \in Int
    BY <1>2, SumInt
  <1> HIDE DEF all
  <1>12. all <= total
    <2>1. DENOMINATOR * all <= total * DENOMINATOR
      BY <1>6, <1>7, <1>8
    <2> QED BY <1>0, <1>11, <2>1
  <1>13. total - all < Count
    <2>1. total * DENOMINATOR <= DENOMINATOR * all + (DENOMINATOR - 1) * Count
      BY <1>6, <1>7, <1>8, <1>9, <1>10
    <2>2. DENOMINATOR * (total - all) < DENOMINATOR * Count
      BY <1>0, <1>11, <2>1
    <2> QED BY <1>0, <1>11, <2>2
  <1> QED BY <1>11, <1>12, <1>13 DEF all, e

----------------------------------------------------------------------------
(***************************************************************************)
(* The books.                                                              *)
(***************************************************************************)
Member0 == [claimable : Nat, paid : Nat, pending : Nat, nonce : Nat, after_lt : Nat,
            last_lt : Nat, last_hash : Nat]

Bodies == [nonce : 0..MaxU64, action : 0..SET_FUEL, value : Nat]

Proposals == [body : Bodies, votes : SUBSET Managers, created : Nat, ready : Nat, expires : Nat]

States == [received : 0..MaxU128, paid : Nat, claim_nonce : 0..MaxU64, proposal_nonce : 0..MaxU64,
           paused : BOOLEAN, proposal : Proposals, members : [Members -> Member0],
           fuel_limit : Nat]

LEMMA StateType ==
  ASSUME NEW s \in States
  PROVE  /\ s.received \in Nat /\ s.paid \in Nat /\ s.claim_nonce \in Nat
         /\ s.proposal_nonce \in Nat /\ s.fuel_limit \in Nat /\ s.paused \in BOOLEAN
         /\ s.proposal \in Proposals /\ s.members \in [Members -> Member0]
         /\ \A i \in Members :
              LET m == s.members[i] IN
              /\ m \in Member0 /\ m.claimable \in Nat /\ m.paid \in Nat /\ m.pending \in Nat
              /\ m.nonce \in Nat /\ m.after_lt \in Nat /\ m.last_lt \in Nat /\ m.last_hash \in Nat
              /\ Share(m) \in Nat
  BY WidthAssumption DEF States, Member0, Share

PaidOf(s) == [i \in Members |-> s.members[i].paid]
PendingOf(s) == [i \in Members |-> s.members[i].pending]
ClaimableOf(s) == [i \in Members |-> s.members[i].claimable]
SharesOf(s) == [i \in Members |-> Share(s.members[i])]

LEMMA TablesType ==
  ASSUME NEW s \in States
  PROVE  /\ PaidOf(s) \in [Members -> Int] /\ PendingOf(s) \in [Members -> Int]
         /\ ClaimableOf(s) \in [Members -> Int] /\ SharesOf(s) \in [Members -> Int]
  BY StateType DEF PaidOf, PendingOf, ClaimableOf, SharesOf

(* When every member's parts are its share, the last comparisons of         *)
(* validate can only fail on the total of what was paid.                    *)
LEMMA SumsHold ==
  ASSUME NEW s \in States, \A i \in Members : MemberValid(s, i),
         s.paid = SumMembers(PaidOf(s))
  PROVE  SumsValid(s)
  <1>1. SharesOf(s) = [i \in Members |-> entitlement(s.received, Weights[i])]
    BY DEF SharesOf, MemberValid
  <1>2. s.received \in Nat
    BY StateType
  <1> QED BY <1>1, <1>2, EntitlementsBound DEF SumsValid, SharesOf, PaidOf

(* What the vault holds is what its members may claim and the dust.         *)
LEMMA HeldIsClaimable ==
  ASSUME NEW s \in States, SumsValid(s)
  PROVE  /\ held(s) \in Nat
         /\ held(s) - SumMembers(ClaimableOf(s)) \in 0..(Count - 1)
  <1> DEFINE left == [i \in Members |-> s.members[i].claimable + s.members[i].pending]
             c == SumMembers(ClaimableOf(s))
             p == SumMembers(PaidOf(s))
             q == SumMembers(PendingOf(s))
             all == SumMembers(SharesOf(s))
  <1>1. left \in [Members -> Int] /\ \A i \in Members : /\ ClaimableOf(s)[i] \in Nat
                                                       /\ left[i] = ClaimableOf(s)[i] + PendingOf(s)[i]
                                                       /\ SharesOf(s)[i] = left[i] + PaidOf(s)[i]
    BY StateType DEF ClaimableOf, PendingOf, PaidOf, SharesOf, Share
  <1> HIDE DEF left
  <1>2. SumMembers(left) = c + q
    <2>1. /\ ClaimableOf(s) \in [Members -> Int] /\ PendingOf(s) \in [Members -> Int]
          /\ \A i \in Members : left[i] = ClaimableOf(s)[i] + PendingOf(s)[i]
      BY <1>1, TablesType
    <2> QED BY <1>1, <2>1, SumAdds
  <1>3. all = SumMembers(left) + p
    <2>1. /\ PaidOf(s) \in [Members -> Int] /\ SharesOf(s) \in [Members -> Int]
          /\ \A i \in Members : SharesOf(s)[i] = left[i] + PaidOf(s)[i]
      BY <1>1, TablesType
    <2> QED BY <1>1, <2>1, SumAdds
  <1>4. c \in Int /\ p \in Int /\ q \in Int /\ all \in Int
    BY TablesType, SumInt
  <1>5. s.paid = p /\ all <= s.received /\ s.received - all < Count
    BY DEF SumsValid, SharesOf, PaidOf
  <1>6. held(s) = s.received - s.paid - q
    BY DEF held, PendingSum, PendingOf
  <1>7. c >= 0
    <2> DEFINE zero == [i \in Members |-> 0]
    <2>1. zero \in [Members -> Int] /\ \A i \in Members : zero[i] <= ClaimableOf(s)[i]
      BY <1>1
    <2>2. SumMembers(zero) = 0
      BY SumZero
    <2> HIDE DEF zero
    <2> QED BY <2>1, <2>2, TablesType, SumMonotone
  <1>8. s.received \in Nat /\ Count \in Nat
    BY StateType, CountRange
  <1> HIDE DEF c, p, q, all
  <1>9. held(s) \in Nat /\ held(s) - c \in 0..(Count - 1)
    BY <1>2, <1>3, <1>4, <1>5, <1>6, <1>7, <1>8
  <1> QED BY <1>9 DEF c

LEMMA NothingEntitled ==
  ASSUME NEW i \in Members PROVE entitlement(0, Weights[i]) = 0
  <1> DEFINE e == entitlement(0, Weights[i])
  <1>1. e \in Nat /\ e * DENOMINATOR <= 0 * Weights[i] /\ Weights[i] \in Nat
    BY EntitlementBounds, WeightType
  <1> HIDE DEF e
  <1>2. e = 0
    BY <1>1, WidthAssumption
  <1> QED BY <1>2 DEF e

LEMMA NewStateValid ==
  NewState \in States /\ validate(NewState) /\ held(NewState) = 0
  <1>1. NewMember \in Member0
    BY DEF NewMember, Member0
  <1>2. NoProposal \in Proposals
    BY WidthAssumption DEF NoProposal, Proposals, Bodies, SET_FUEL
  <1>3. NewState \in States
    BY <1>1, <1>2, ConfigAssumption, WidthAssumption DEF NewState, States
  <1>4. \A i \in Members : NewState.members[i] = NewMember
    BY DEF NewState
  <1>5. \A i \in Members : MemberValid(NewState, i)
    BY <1>4, NothingEntitled DEF MemberValid, Share, NewMember, NewState
  <1>6. SumMembers(PaidOf(NewState)) = 0 /\ PendingSum(NewState) = 0
    BY <1>4, SumZero DEF PaidOf, PendingSum, NewMember
  <1>7. SumsValid(NewState)
    BY <1>3, <1>5, <1>6, SumsHold DEF NewState
  <1>8. ProposalValid(NewState)
    BY DEF ProposalValid, NewState, NoProposal
  <1>9. NewState.fuel_limit # 0
    BY ConfigAssumption DEF NewState
  <1>10. held(NewState) = 0
    BY <1>6 DEF held, NewState
  <1> QED BY <1>3, <1>5, <1>7, <1>8, <1>9, <1>10 DEF validate

(* A deposit raises what members may claim, and touches nothing else.       *)
RaisesClaims(r, s, amount) ==
    /\ r \in States /\ validate(r) /\ held(r) = held(s) + amount
    /\ r.received = s.received + amount /\ r.claim_nonce = s.claim_nonce
    /\ r.proposal = s.proposal /\ r.proposal_nonce = s.proposal_nonce
    /\ r.paused = s.paused /\ r.fuel_limit = s.fuel_limit
    /\ \A i \in Members : \E n \in Nat : r.members[i] = [s.members[i] EXCEPT !.claimable = n]

LEMMA DepositValid ==
  ASSUME NEW s \in States, validate(s), NEW amount \in Nat, s.received + amount <= MaxU128
  PROVE  RaisesClaims(WithDeposit(s, amount), s, amount)
  <1> DEFINE r == WithDeposit(s, amount)
             next == s.received + amount
             raise(i) == entitlement(next, Weights[i]) - entitlement(s.received, Weights[i])
  <1>1. /\ s.received \in Nat /\ next \in 0..MaxU128 /\ next \in Nat
        /\ s.members \in [Members -> Member0] /\ \A i \in Members : s.members[i] \in Member0
    BY StateType, WidthAssumption
  <1>2. \A i \in Members : /\ raise(i) \in Nat
                           /\ entitlement(next, Weights[i]) \in Nat
                           /\ entitlement(s.received, Weights[i]) \in Nat
    <2> HIDE DEF next
    <2>1. s.received <= next
      BY <1>1 DEF next
    <2> QED BY <1>1, <2>1, EntitlementBounds, EntitlementMonotone
  <1>3. \A i \in Members : s.members[i].claimable \in Nat
    BY <1>1 DEF Member0
  <1> DEFINE member(i) == [s.members[i] EXCEPT !.claimable = s.members[i].claimable + raise(i)]
  <1>4. r = [s EXCEPT !.received = next, !.members = [i \in Members |-> member(i)]]
    BY DEF WithDeposit
  <1>5. \A i \in Members : /\ s.members[i].claimable + raise(i) \in Nat
                           /\ member(i) \in Member0
                           /\ Share(member(i)) = Share(s.members[i]) + raise(i)
                           /\ member(i).paid = s.members[i].paid
                           /\ member(i).pending = s.members[i].pending
                           /\ member(i).nonce = s.members[i].nonce
                           /\ member(i).after_lt = s.members[i].after_lt
                           /\ member(i).last_lt = s.members[i].last_lt
                           /\ member(i).last_hash = s.members[i].last_hash
    <2> SUFFICES ASSUME NEW i \in Members
                 PROVE  /\ s.members[i].claimable + raise(i) \in Nat
                        /\ member(i) \in Member0
                        /\ Share(member(i)) = Share(s.members[i]) + raise(i)
                        /\ member(i).paid = s.members[i].paid
                        /\ member(i).pending = s.members[i].pending
                        /\ member(i).nonce = s.members[i].nonce
                        /\ member(i).after_lt = s.members[i].after_lt
                        /\ member(i).last_lt = s.members[i].last_lt
                        /\ member(i).last_hash = s.members[i].last_hash
      OBVIOUS
    <2> DEFINE m == s.members[i]
               x == raise(i)
    <2>1. m \in Member0 /\ x \in Nat
      BY <1>1, <1>2
    <2> HIDE DEF m, x
    <2>2. [m EXCEPT !.claimable = m.claimable + x] \in Member0
      BY <2>1 DEF Member0
    <2> QED BY <2>1, <2>2 DEF m, x, Member0, Share
  <1> HIDE DEF member, raise, next
  <1>6. /\ r \in States /\ r.received = next /\ r.paid = s.paid /\ r.claim_nonce = s.claim_nonce
        /\ r.proposal = s.proposal /\ r.proposal_nonce = s.proposal_nonce
        /\ r.paused = s.paused /\ r.fuel_limit = s.fuel_limit
        /\ \A i \in Members : r.members[i] = member(i)
    <2> HIDE DEF r
    <2> QED BY <1>1, <1>4, <1>5 DEF States
  <1> HIDE DEF r
  <1>7. \A i \in Members : MemberValid(r, i)
    <2> SUFFICES ASSUME NEW i \in Members PROVE MemberValid(r, i)
      OBVIOUS
    <2>1. MemberValid(s, i) /\ entitlement(next, Weights[i])
                                 = entitlement(s.received, Weights[i]) + raise(i)
      BY <1>2 DEF validate, raise
    <2>2. Share(member(i)) = entitlement(next, Weights[i])
      BY <1>2, <1>5, <2>1 DEF MemberValid
    <2> QED BY <1>5, <1>6, <2>1, <2>2 DEF MemberValid
  <1>8. PaidOf(r) = PaidOf(s) /\ PendingSum(r) = PendingSum(s)
    <2>1. \A i \in Members : /\ r.members[i].paid = s.members[i].paid
                             /\ r.members[i].pending = s.members[i].pending
      BY <1>5, <1>6
    <2> QED BY <2>1 DEF PaidOf, PendingSum
  <1>9. s.paid = SumMembers(PaidOf(s)) /\ ProposalValid(s) /\ s.fuel_limit # 0 /\ SumsValid(s)
    BY DEF validate, SumsValid, PaidOf
  <1>10. SumsValid(r)
    BY <1>6, <1>7, <1>8, <1>9, SumsHold
  <1>11. validate(r)
    BY <1>6, <1>7, <1>9, <1>10 DEF validate, ProposalValid
  <1>12. held(r) = held(s) + amount
    <2>1. PendingSum(s) \in Int
      BY TablesType, SumInt DEF PendingSum, PendingOf
    <2>2. s.paid \in Nat
      BY StateType
    <2> QED BY <1>1, <1>6, <1>8, <2>1, <2>2 DEF held, next
  <1>13. \A i \in Members : \E n \in Nat : r.members[i] = [s.members[i] EXCEPT !.claimable = n]
    BY <1>5, <1>6 DEF member
  <1> QED BY <1>6, <1>11, <1>12, <1>13 DEF RaisesClaims, r, next

(* A step of one member that keeps its share and moves what it was paid out *)
(* of what it awaits or may claim.                                          *)
MemberReplaced(r, s, i, m) ==
    /\ r \in States /\ r.received = s.received
    /\ r.proposal = s.proposal /\ r.proposal_nonce = s.proposal_nonce
    /\ r.paused = s.paused /\ r.fuel_limit = s.fuel_limit
    /\ r.members = [s.members EXCEPT ![i] = m]
    /\ r.paid = s.paid + (m.paid - s.members[i].paid)

LEMMA ReplacedValid ==
  ASSUME NEW s \in States, validate(s), NEW i \in Members, NEW m \in Member0, NEW r,
         MemberReplaced(r, s, i, m), r.claim_nonce >= s.claim_nonce,
         Share(m) = Share(s.members[i]), MemberValid(r, i)
  PROVE  /\ validate(r)
         /\ held(r) = held(s) - (m.paid - s.members[i].paid) - (m.pending - s.members[i].pending)
  <1>1. /\ r \in States /\ r.received = s.received /\ r.proposal = s.proposal
        /\ r.proposal_nonce = s.proposal_nonce /\ r.fuel_limit = s.fuel_limit
        /\ r.paid = s.paid + (m.paid - s.members[i].paid)
        /\ r.members[i] = m /\ \A j \in Members \ {i} : r.members[j] = s.members[j]
    BY StateType DEF MemberReplaced
  <1>2. \A j \in Members : MemberValid(r, j)
    <2> SUFFICES ASSUME NEW j \in Members, j # i PROVE MemberValid(r, j)
      OBVIOUS
    <2>1. MemberValid(s, j) /\ r.members[j] = s.members[j] /\ s.members[j].nonce \in Nat
      BY <1>1, StateType DEF validate
    <2>2. s.claim_nonce \in Nat /\ r.claim_nonce \in Nat
      BY <1>1, StateType
    <2> QED BY <1>1, <2>1, <2>2 DEF MemberValid
  <1>3. /\ m.paid \in Int /\ m.pending \in Int
        /\ s.members[i].paid \in Int /\ s.members[i].pending \in Int
    BY StateType DEF Member0
  <1>4. /\ PaidOf(r)[i] = m.paid /\ PaidOf(s)[i] = s.members[i].paid
        /\ PendingOf(r)[i] = m.pending /\ PendingOf(s)[i] = s.members[i].pending
        /\ \A j \in Members \ {i} : PaidOf(s)[j] = PaidOf(r)[j] /\ PendingOf(s)[j] = PendingOf(r)[j]
    BY <1>1 DEF PaidOf, PendingOf
  <1>5. /\ SumMembers(PaidOf(r)) = SumMembers(PaidOf(s)) + (m.paid - s.members[i].paid)
        /\ SumMembers(PendingOf(r)) = SumMembers(PendingOf(s)) + (m.pending - s.members[i].pending)
    BY <1>1, <1>4, TablesType, SumUpdate
  <1>6. s.paid = SumMembers(PaidOf(s)) /\ ProposalValid(s) /\ s.fuel_limit # 0 /\ SumsValid(s)
    BY DEF validate, SumsValid, PaidOf
  <1>7. SumsValid(r)
    BY <1>1, <1>2, <1>5, <1>6, SumsHold
  <1>8. validate(r)
    BY <1>1, <1>2, <1>6, <1>7 DEF validate, ProposalValid
  <1>9. SumMembers(PendingOf(s)) \in Int /\ s.received \in Nat /\ s.paid \in Nat
    BY TablesType, SumInt, StateType
  <1>10. /\ held(r) = r.received - r.paid - SumMembers(PendingOf(r))
         /\ held(s) = s.received - s.paid - SumMembers(PendingOf(s))
    BY DEF held, PendingSum, PendingOf
  <1> QED BY <1>1, <1>3, <1>5, <1>8, <1>9, <1>10

Attempt(s, i, t) ==
    LET m == s.members[i] IN
    [m EXCEPT !.pending = m.claimable, !.claimable = 0, !.nonce = s.claim_nonce + 1,
              !.after_lt = IF t > m.last_lt THEN t ELSE m.last_lt]

(* A claim opens an attempt for all that its member may claim.              *)
OpensClaim(r, s, i, t) ==
    /\ r \in States /\ validate(r)
    /\ held(r) = held(s) - s.members[i].claimable
    /\ MemberReplaced(r, s, i, Attempt(s, i, t))
    /\ r.claim_nonce = s.claim_nonce + 1

LEMMA ClaimValid ==
  ASSUME NEW s \in States, validate(s), NEW i \in Members, NEW t \in Nat,
         s.members[i].pending = 0, s.members[i].claimable # 0, s.claim_nonce + 1 <= MaxU64
  PROVE  OpensClaim(WithClaim(s, i, t), s, i, t)
  <1> DEFINE r == WithClaim(s, i, t)
             old == s.members[i]
             m == Attempt(s, i, t)
             nonce == s.claim_nonce + 1
             boundary == IF t > old.last_lt THEN t ELSE old.last_lt
  <1>1. /\ old \in Member0 /\ old.claimable \in Nat /\ old.paid \in Nat /\ old.pending = 0
        /\ s.claim_nonce \in Nat /\ nonce \in 0..MaxU64 /\ nonce \in Nat
        /\ s.members \in [Members -> Member0]
        /\ old.last_lt \in Nat /\ boundary \in Nat /\ boundary >= old.last_lt
    BY StateType, WidthAssumption
  <1>2. m = [old EXCEPT !.pending = old.claimable, !.claimable = 0, !.nonce = nonce,
                        !.after_lt = boundary]
    BY DEF Attempt
  <1>3. r = [s EXCEPT !.claim_nonce = nonce, !.members = [s.members EXCEPT ![i] = m]]
    BY DEF WithClaim, Attempt
  <1>4. MemberValid(s, i)
    BY DEF validate
  <1> HIDE DEF r, m, boundary, nonce
  <1>5. /\ m \in Member0 /\ m.pending = old.claimable /\ m.claimable = 0 /\ m.nonce = nonce
        /\ m.after_lt = boundary /\ m.paid = old.paid
        /\ m.last_lt = old.last_lt /\ m.last_hash = old.last_hash
    <2> HIDE DEF old
    <2> QED BY <1>1, <1>2 DEF Member0
  <1>6. r \in States /\ r.claim_nonce = nonce /\ r.received = s.received /\ r.paid = s.paid
        /\ r.proposal = s.proposal /\ r.proposal_nonce = s.proposal_nonce
        /\ r.paused = s.paused /\ r.fuel_limit = s.fuel_limit
        /\ r.members = [s.members EXCEPT ![i] = m]
    BY <1>1, <1>3, <1>5 DEF States
  <1>7. MemberReplaced(r, s, i, m)
    <2>1. r.paid = s.paid + (m.paid - s.members[i].paid)
      <3>1. s.paid \in Nat
        BY StateType
      <3> QED BY <1>1, <1>5, <1>6, <3>1
    <2> QED BY <1>6, <2>1 DEF MemberReplaced
  <1>8. Share(m) = Share(old)
    BY <1>1, <1>5 DEF Share
  <1>9. MemberValid(r, i)
    <2>1. r.members[i] = m /\ r.claim_nonce = nonce /\ r.received = s.received
      BY <1>1, <1>6
    <2>2. nonce \in 1..nonce
      BY <1>1 DEF nonce
    <2> QED BY <1>1, <1>4, <1>5, <1>8, <2>1, <2>2 DEF MemberValid
  <1>10. r.claim_nonce >= s.claim_nonce
    BY <1>1, <1>6 DEF nonce
  <1>11. /\ validate(r)
         /\ held(r) = held(s) - (m.paid - s.members[i].paid) - (m.pending - s.members[i].pending)
    BY <1>5, <1>7, <1>8, <1>9, <1>10, ReplacedValid
  <1>12. held(s) \in Nat
    BY HeldIsClaimable DEF validate
  <1>13. held(r) = held(s) - old.claimable
    BY <1>1, <1>5, <1>11, <1>12
  <1> QED BY <1>6, <1>7, <1>11, <1>13 DEF OpensClaim, r, m, nonce

Closed(m, c) == WithReceipt(IF c.ok THEN Settled(m) ELSE Restored(m), c)

(* A callback ends the attempt: the amount is paid or may be claimed again. *)
ClosesClaim(r, s, i, c) ==
    /\ r \in States /\ validate(r)
    /\ held(r) = held(s) + (IF c.ok THEN 0 ELSE s.members[i].pending)
    /\ MemberReplaced(r, s, i, Closed(s.members[i], c))
    /\ r.claim_nonce = s.claim_nonce

LEMMA ClosedMember ==
  ASSUME NEW m \in Member0, NEW c, c.ok \in BOOLEAN, c.lt \in Nat, c.hash \in Nat
  PROVE  LET n == Closed(m, c) IN
         /\ n \in Member0 /\ n.pending = 0 /\ n.nonce = 0 /\ n.after_lt = 0
         /\ n.last_lt = c.lt /\ n.last_hash = c.hash
         /\ n.paid = m.paid + (IF c.ok THEN m.pending ELSE 0)
         /\ n.claimable = m.claimable + (IF c.ok THEN 0 ELSE m.pending)
         /\ Share(n) = Share(m)
  <1> DEFINE u == IF c.ok THEN Settled(m) ELSE Restored(m)
             n == Closed(m, c)
             lt0 == c.lt
             hash0 == c.hash
             ok0 == c.ok
  <1>1. m.paid \in Nat /\ m.pending \in Nat /\ m.claimable \in Nat
    BY DEF Member0
  <1>2. /\ u \in Member0 /\ u.paid = m.paid + (IF ok0 THEN m.pending ELSE 0)
        /\ u.claimable = m.claimable + (IF ok0 THEN 0 ELSE m.pending)
    <2>1. CASE c.ok
      BY <1>1, <2>1 DEF Member0, Settled
    <2>2. CASE ~c.ok
      BY <1>1, <2>2 DEF Member0, Restored
    <2> QED BY <2>1, <2>2
  <1>3. n = [u EXCEPT !.pending = 0, !.nonce = 0, !.after_lt = 0, !.last_lt = lt0, !.last_hash = hash0]
    BY DEF Closed, WithReceipt
  <1>4. lt0 \in Nat /\ hash0 \in Nat /\ ok0 \in BOOLEAN
    OBVIOUS
  <1> HIDE DEF u, n, lt0, hash0, ok0
  <1>5. /\ n \in Member0 /\ n.pending = 0 /\ n.nonce = 0 /\ n.after_lt = 0
        /\ n.last_lt = lt0 /\ n.last_hash = hash0 /\ n.paid = u.paid /\ n.claimable = u.claimable
    BY <1>2, <1>3, <1>4 DEF Member0
  <1>6. Share(n) = Share(m)
    BY <1>1, <1>2, <1>4, <1>5 DEF Share
  <1> QED BY <1>2, <1>5, <1>6 DEF n, lt0, hash0, ok0

LEMMA CallbackValid ==
  ASSUME NEW s \in States, validate(s), NEW i \in Members, NEW c,
         c.ok \in BOOLEAN, c.lt \in Nat \ {0}, c.hash \in Nat \ {0}
  PROVE  ClosesClaim(AfterCallback(s, i, c), s, i, c)
  <1> DEFINE r == AfterCallback(s, i, c)
             old == s.members[i]
             m == Closed(old, c)
             gain == IF c.ok THEN old.pending ELSE 0
  <1>1. /\ old \in Member0 /\ old.claimable \in Nat /\ old.paid \in Nat /\ old.pending \in Nat
        /\ s.members \in [Members -> Member0] /\ s.paid \in Nat
        /\ gain \in Nat
    BY StateType
  <1>2. /\ m \in Member0 /\ m.pending = 0 /\ m.nonce = 0 /\ m.after_lt = 0
        /\ m.last_lt = c.lt /\ m.last_hash = c.hash /\ m.paid = old.paid + gain
        /\ Share(m) = Share(old)
    <2> HIDE DEF m
    <2> QED BY <1>1, ClosedMember DEF m
  <1>3. r = [s EXCEPT !.paid = s.paid + gain, !.members = [s.members EXCEPT ![i] = m]]
    BY DEF AfterCallback, Closed
  <1> HIDE DEF r, m, gain
  <1>4. /\ r \in States /\ r.claim_nonce = s.claim_nonce /\ r.received = s.received
        /\ r.paid = s.paid + gain
        /\ r.proposal = s.proposal /\ r.proposal_nonce = s.proposal_nonce
        /\ r.paused = s.paused /\ r.fuel_limit = s.fuel_limit
        /\ r.members = [s.members EXCEPT ![i] = m]
    <2>1. s.paid + gain \in Nat
      BY <1>1
    <2> QED BY <1>1, <1>2, <1>3, <2>1 DEF States
  <1>5. MemberReplaced(r, s, i, m)
    <2>1. r.paid = s.paid + (m.paid - s.members[i].paid)
      BY <1>1, <1>2, <1>4
    <2> QED BY <1>4, <2>1 DEF MemberReplaced
  <1>6. MemberValid(r, i)
    <2>1. r.members[i] = m /\ MemberValid(s, i)
      BY <1>1, <1>4 DEF validate
    <2> QED BY <1>2, <1>4, <2>1 DEF MemberValid
  <1>7. r.claim_nonce >= s.claim_nonce
    BY <1>4, StateType
  <1>8. /\ validate(r)
        /\ held(r) = held(s) - (m.paid - s.members[i].paid) - (m.pending - s.members[i].pending)
    BY <1>2, <1>5, <1>6, <1>7, ReplacedValid
  <1>9. held(s) \in Nat
    BY HeldIsClaimable DEF validate
  <1>10. held(r) = held(s) + (IF c.ok THEN 0 ELSE old.pending)
    BY <1>1, <1>2, <1>8, <1>9 DEF gain
  <1> QED BY <1>4, <1>5, <1>8, <1>10 DEF ClosesClaim, r, m

(* Governance leaves the books alone.                                       *)
SameBooks(r, s) ==
    /\ r \in States /\ validate(r) /\ held(r) = held(s)
    /\ r.received = s.received /\ r.paid = s.paid
    /\ r.claim_nonce = s.claim_nonce /\ r.members = s.members

LEMMA GovernanceValid ==
  ASSUME NEW s \in States, validate(s), NEW r \in States, ProposalValid(r), r.fuel_limit # 0,
         r.received = s.received, r.paid = s.paid, r.claim_nonce = s.claim_nonce,
         r.members = s.members
  PROVE  SameBooks(r, s)
  <1>1. \A i \in Members : MemberValid(r, i)
    BY DEF validate, MemberValid
  <1>2. SumsValid(r)
    BY DEF validate, SumsValid
  <1>3. held(r) = held(s)
    BY DEF held, PendingSum
  <1> QED BY <1>1, <1>2, <1>3 DEF SameBooks, validate

LEMMA ProposeValid ==
  ASSUME NEW s \in States, validate(s), NEW m \in Managers, NEW b \in Bodies, NEW t \in Nat,
         BodyValid(b), t + Delay + VoteWindow <= MaxU32
  PROVE  LET r == WithProposal(s, m, b, t) IN
         /\ SameBooks(r, s) /\ r.paused = s.paused /\ r.fuel_limit = s.fuel_limit
         /\ r.proposal.body = b /\ r.proposal.votes = {m} /\ r.proposal_nonce = b.nonce
         /\ r.proposal.created = t
  <1> DEFINE r == WithProposal(s, m, b, t)
             p == [body |-> b, votes |-> {m}, created |-> t,
                   ready |-> t + Delay, expires |-> t + Delay + VoteWindow]
             nonce == b.nonce
  <1>1. /\ Delay \in Nat /\ VoteWindow \in Nat
        /\ t + Delay \in Nat /\ t + Delay + VoteWindow \in Nat /\ t + Delay <= MaxU32
    BY ConfigAssumption, WidthAssumption
  <1>2. p \in Proposals
    BY <1>1 DEF Proposals
  <1>3. nonce \in 0..MaxU64 /\ nonce # 0
    BY DEF Bodies, BodyValid
  <1>4. r = [s EXCEPT !.proposal = p, !.proposal_nonce = nonce]
    BY DEF WithProposal
  <1>5. /\ p.body = b /\ p.votes = {m} /\ p.created = t /\ p.ready = p.created + Delay
        /\ p.expires = p.ready + VoteWindow /\ p.ready <= MaxU32 /\ p.expires <= MaxU32
    BY <1>1
  <1> HIDE DEF r, p, nonce
  <1>6. /\ r \in States /\ r.proposal = p /\ r.proposal_nonce = nonce /\ r.received = s.received
        /\ r.paid = s.paid /\ r.claim_nonce = s.claim_nonce /\ r.members = s.members
        /\ r.paused = s.paused /\ r.fuel_limit = s.fuel_limit
    BY <1>2, <1>3, <1>4 DEF States
  <1>7. ProposalValid(r)
    BY <1>3, <1>5, <1>6 DEF ProposalValid, nonce
  <1>8. r.fuel_limit # 0
    BY <1>6 DEF validate
  <1> QED BY <1>5, <1>6, <1>7, <1>8, GovernanceValid DEF r, nonce

LEMMA VoteValid ==
  ASSUME NEW s \in States, validate(s), NEW m \in Managers, s.proposal.body.nonce # 0
  PROVE  LET r == WithVote(s, m) IN
         /\ SameBooks(r, s) /\ r.paused = s.paused /\ r.fuel_limit = s.fuel_limit
         /\ r.proposal.body = s.proposal.body /\ r.proposal.votes = s.proposal.votes \cup {m}
         /\ r.proposal_nonce = s.proposal_nonce /\ r.proposal.created = s.proposal.created
  <1> DEFINE r == WithVote(s, m)
             votes == s.proposal.votes \cup {m}
             p == [s.proposal EXCEPT !.votes = votes]
  <1>1. s.proposal \in Proposals /\ votes \in SUBSET Managers /\ votes # {}
    BY StateType DEF Proposals
  <1>2. r = [s EXCEPT !.proposal = p]
    BY DEF WithVote
  <1> HIDE DEF votes
  <1>3. /\ p \in Proposals /\ p.votes = votes /\ p.body = s.proposal.body
        /\ p.created = s.proposal.created /\ p.ready = s.proposal.ready
        /\ p.expires = s.proposal.expires
    BY <1>1 DEF Proposals
  <1> HIDE DEF r, p
  <1>4. /\ r \in States /\ r.proposal = p /\ r.proposal_nonce = s.proposal_nonce
        /\ r.received = s.received /\ r.paid = s.paid /\ r.claim_nonce = s.claim_nonce
        /\ r.members = s.members /\ r.paused = s.paused /\ r.fuel_limit = s.fuel_limit
    BY <1>2, <1>3 DEF States
  <1>5. ProposalValid(r)
    BY <1>1, <1>3, <1>4 DEF validate, ProposalValid
  <1>6. r.fuel_limit # 0
    BY <1>4 DEF validate
  <1> QED BY <1>3, <1>4, <1>5, <1>6, GovernanceValid DEF r, votes

LEMMA ExecutionValid ==
  ASSUME NEW s \in States, validate(s), s.proposal.body.nonce # 0
  PROVE  LET r == WithExecution(s) IN
         /\ SameBooks(r, s) /\ r.proposal = NoProposal /\ r.proposal_nonce = s.proposal_nonce
  <1> DEFINE r == WithExecution(s)
             b == s.proposal.body
             paused == CASE b.action = PAUSE -> TRUE
                         [] b.action = RESUME -> FALSE
                         [] b.action = SET_FUEL -> s.paused
             fuel == IF b.action = SET_FUEL THEN b.value ELSE s.fuel_limit
  <1>1. b \in Bodies /\ BodyValid(b)
    BY StateType DEF Proposals, validate, ProposalValid
  <1>2. paused \in BOOLEAN
    <2>1. CASE b.action = PAUSE
      BY <2>1 DEF PAUSE, RESUME, SET_FUEL
    <2>2. CASE b.action = RESUME
      BY <2>2 DEF PAUSE, RESUME, SET_FUEL
    <2>3. CASE b.action = SET_FUEL
      BY <2>3, StateType DEF PAUSE, RESUME, SET_FUEL
    <2> QED BY <1>1, <2>1, <2>2, <2>3 DEF BodyValid
  <1>3. fuel \in Nat /\ fuel # 0
    BY <1>1, StateType DEF Bodies, BodyValid, validate, PAUSE, RESUME, SET_FUEL
  <1>4. NoProposal \in Proposals
    BY WidthAssumption DEF NoProposal, Proposals, Bodies, SET_FUEL
  <1>5. r = [s EXCEPT !.proposal = NoProposal, !.paused = paused, !.fuel_limit = fuel]
    BY DEF WithExecution
  <1> HIDE DEF r, paused, fuel, b
  <1>6. /\ r \in States /\ r.proposal = NoProposal /\ r.proposal_nonce = s.proposal_nonce
        /\ r.received = s.received /\ r.paid = s.paid /\ r.claim_nonce = s.claim_nonce
        /\ r.members = s.members /\ r.fuel_limit = fuel
    BY <1>2, <1>3, <1>4, <1>5 DEF States
  <1>7. ProposalValid(r)
    BY <1>6 DEF ProposalValid, NoProposal
  <1> QED BY <1>3, <1>6, <1>7, GovernanceValid DEF r

----------------------------------------------------------------------------
(***************************************************************************)
(* Claims and governance, and the inductive invariant.                     *)
(*                                                                         *)
(* The books alone are not inductive: that a callback settles its member's *)
(* own attempt, and settles it as the receiver did, follows from what is   *)
(* in flight (one message per member, one callback per nonce) and from the *)
(* logical times, which put every callback of an earlier attempt at or     *)
(* before the member's latest one.  That two managers support what takes   *)
(* effect follows from every vote of the proposal being in `support'.      *)
(***************************************************************************)
PaymentBodies == [index : Members, nonce : Nat, amount : Nat]

Messages == [to : Members, body : PaymentBodies, principal : Nat, reserve : Nat]

CallbackRecords == [source : Members, hash : Nat, ok : BOOLEAN, shell : Nat, lt : Nat,
                    principal : Nat, body : PaymentBodies]

Receivers == [bound : {NoAddress, Vault, Other}, reject : BOOLEAN, duplicate : BOOLEAN,
              last : Nat, received : Nat, count : Nat]

TypeOK ==
    /\ now \in Nat /\ block_lt \in Nat /\ lt \in Nat
    /\ deployed \in BOOLEAN
    /\ v \in States
    /\ bal \in Int /\ shell \in Nat
    /\ transit \in SUBSET Messages
    /\ callbacks \in SUBSET CallbackRecords
    /\ rcv \in [Members -> Receivers]

(* What is stored always decodes; before init there is nothing to decode.   *)
BooksInv == validate(v) /\ (~deployed => v = NewState)

(* A message carries its member's pending payment, is alone, and its        *)
(* attempt has no callback yet.                                            *)
TransitInv ==
    \A m \in transit :
      LET x == v.members[m.to] IN
      /\ x.pending # 0
      /\ m.body = payment_body(m.to, x.nonce, x.pending)
      /\ m.principal = x.pending
      /\ \A n \in transit : n.to = m.to => n = m
      /\ \A c \in callbacks : c.source = m.to => c.hash # x.nonce

(* What a callback of the pending attempt says is what the vault expects.   *)
Genuine(c) ==
    LET x == v.members[c.source] IN
    IF c.ok THEN c.principal = 0 /\ c.body = payment_body(c.source, x.nonce, x.pending)
            ELSE c.principal = x.pending /\ c.body = EmptyBody

(* A callback answers the pending attempt or is no later than the latest    *)
(* one its member's claims accepted.                                       *)
CallbackInv ==
    \A c \in callbacks :
      /\ c.hash \in 1..v.claim_nonce
      /\ c.lt \in 1..lt
      /\ \A n \in callbacks : n.source = c.source /\ n.hash = c.hash => n = c
      /\ Outstanding(c) => c.lt > v.members[c.source].after_lt /\ Genuine(c)
      /\ ~Outstanding(c) => c.lt <= v.members[c.source].last_lt

OrderInv ==
    /\ block_lt <= lt
    /\ \A i \in Members :
         LET x == v.members[i] IN
         /\ x.after_lt <= lt /\ x.last_lt <= lt
         /\ x.last_hash <= v.claim_nonce
         /\ x.pending # 0 => x.last_hash < x.nonce

(* The standing proposal's votes are its supporters, and it was made by now; *)
(* every nonce up to the vault's was used for one body and no other nonce    *)
(* was.                                                                      *)
SupportInv ==
    LET p == v.proposal IN
    /\ \A s \in support : s[2].nonce \in 1..v.proposal_nonce
    /\ IsFiniteSet(Proposed) /\ Cardinality(Proposed) = v.proposal_nonce
    /\ p.body.nonce # 0 =>
         /\ \A m \in Managers : m \in p.votes <=> <<m, p.body>> \in support
         /\ p.created <= now

IInv == TypeOK /\ BooksInv /\ TransitInv /\ CallbackInv /\ OrderInv /\ SupportInv /\ LedgerAgrees

(* Steps that leave every attempt alone.                                    *)
SameAttempt(i) ==
    /\ v'.members[i].pending = v.members[i].pending
    /\ v'.members[i].nonce = v.members[i].nonce
    /\ v'.members[i].after_lt = v.members[i].after_lt
    /\ v'.members[i].last_lt = v.members[i].last_lt
    /\ v'.members[i].last_hash = v.members[i].last_hash

SameClaims ==
    /\ UNCHANGED <<lt, transit, callbacks>>
    /\ block_lt' <= lt
    /\ v'.claim_nonce = v.claim_nonce
    /\ \A i \in Members : SameAttempt(i)

LEMMA ClaimsKept ==
  ASSUME IInv, SameClaims PROVE TransitInv' /\ CallbackInv' /\ OrderInv'
  <1>1. /\ \A m \in transit : m.to \in Members
        /\ \A c \in callbacks : c.source \in Members
    BY DEF IInv, TypeOK, Messages, CallbackRecords
  <1>2. TransitInv'
    BY <1>1 DEF IInv, TransitInv, SameClaims, SameAttempt
  <1>3. CallbackInv'
    <2>1. \A c \in callbacks : Outstanding(c)' = Outstanding(c) /\ Genuine(c)' = Genuine(c)
      BY <1>1 DEF Outstanding, Genuine, SameClaims, SameAttempt
    <2> QED BY <1>1, <2>1 DEF IInv, CallbackInv, SameClaims, SameAttempt
  <1>4. OrderInv'
    BY DEF IInv, OrderInv, SameClaims, SameAttempt
  <1> QED BY <1>2, <1>3, <1>4

(* Only the managers' steps touch proposals and support; time goes forward.  *)
LEMMA SupportKept ==
  ASSUME IInv, v'.proposal = v.proposal, v'.proposal_nonce = v.proposal_nonce,
         support' = support, now' \in {now, now + 1}
  PROVE  SupportInv'
  <1>1. Proposed' = Proposed
    BY DEF Proposed
  <1>2. v.proposal.created \in Nat /\ now \in Nat
    BY StateType DEF IInv, TypeOK, Proposals
  <1> QED BY <1>1, <1>2 DEF IInv, SupportInv

LEMMA SameLanded ==
  ASSUME IInv, SameClaims, NEW i \in Members PROVE Landed(i)' = Landed(i)
  BY DEF Landed, Outstanding, SameClaims, SameAttempt

(* In a valid state the ledger can only be wrong about the balance or about *)
(* what a receiver holds.                                                   *)
LEMMA SharesAgree ==
  ASSUME NEW s \in States, validate(s)
  PROVE  /\ \A i \in Members : Share(s.members[i]) = (s.received * Weights[i]) \div DENOMINATOR
         /\ held(s) - SumMembers([i \in Members |-> s.members[i].claimable]) \in 0..(Count - 1)
  <1>1. s.received \in Nat
    BY StateType
  <1>2. \A i \in Members : Share(s.members[i]) = (s.received * Weights[i]) \div DENOMINATOR
    BY <1>1, EntitlementIsFloor, WeightType DEF validate, MemberValid
  <1>3. held(s) - SumMembers(ClaimableOf(s)) \in 0..(Count - 1)
    BY HeldIsClaimable DEF validate
  <1> QED BY <1>2, <1>3 DEF ClaimableOf

LEMMA LedgerNext ==
  ASSUME v' \in States, validate(v'), bal' = held(v'),
         \A i \in Members : rcv'[i].received
             = v'.members[i].paid + IF Landed(i)' THEN v'.members[i].pending ELSE 0
  PROVE  LedgerAgrees'
  BY SharesAgree DEF LedgerAgrees

LEMMA LedgerKept ==
  ASSUME IInv, SameClaims, v' \in States, validate(v'), bal' = held(v'),
         \A i \in Members : /\ v'.members[i].paid = v.members[i].paid
                            /\ rcv'[i].received = rcv[i].received
  PROVE  LedgerAgrees'
  <1>1. \A i \in Members : rcv'[i].received
             = v'.members[i].paid + IF Landed(i)' THEN v'.members[i].pending ELSE 0
    BY SameLanded DEF IInv, LedgerAgrees, SameClaims, SameAttempt
  <1> QED BY <1>1, LedgerNext

LEMMA InitInvariant == Init => IInv
  <1> SUFFICES ASSUME Init PROVE IInv
    OBVIOUS
  <1>1. v \in States /\ validate(v) /\ held(v) = 0 /\ v = NewState
    BY NewStateValid DEF Init
  <1>2. v.claim_nonce = 0 /\ v.proposal = NoProposal /\ \A i \in Members : v.members[i] = NewMember
    BY <1>1 DEF NewState
  <1>3. TypeOK
    <2>1. NewReceiver \in Receivers
      BY DEF NewReceiver, Receivers
    <2>2. rcv \in [Members -> Receivers]
      BY <2>1 DEF Init
    <2>3. transit \in SUBSET Messages /\ callbacks \in SUBSET CallbackRecords
      BY DEF Init
    <2>4. now \in Nat /\ block_lt \in Nat /\ lt \in Nat /\ bal \in Int /\ shell \in Nat
      BY DEF Init
    <2>5. deployed \in BOOLEAN
      BY DEF Init
    <2> QED BY <1>1, <2>2, <2>3, <2>4, <2>5 DEF TypeOK
  <1>4. BooksInv /\ TransitInv /\ CallbackInv
    BY <1>1 DEF Init, BooksInv, TransitInv, CallbackInv
  <1>5. OrderInv
    BY <1>2 DEF Init, OrderInv, NewMember
  <1>6. SupportInv
    <2>1. support = {} /\ Proposed = {} /\ v.proposal_nonce = 0 /\ v.proposal.body.nonce = 0
      BY <1>1, <1>2 DEF Init, Proposed, NewState, NoProposal
    <2> QED BY <2>1, FS_EmptySet DEF SupportInv
  <1>7. LedgerAgrees
    <2>1. \A i \in Members : rcv[i].received = 0 /\ v.members[i].paid = 0 /\ ~Landed(i)
      BY <1>2 DEF Init, NewReceiver, NewMember, Landed
    <2>2. bal = held(v)
      BY <1>1 DEF Init
    <2> QED BY <1>1, <2>1, <2>2, SharesAgree DEF LedgerAgrees
  <1> QED BY <1>3, <1>4, <1>5, <1>6, <1>7 DEF IInv

(* Steps that the vault's state does not take part in.                      *)
LEMMA QuietStep ==
  ASSUME IInv, v' = v, bal' = bal, shell' \in Nat, now' \in {now, now + 1}, block_lt' \in 0..lt,
         deployed' \in BOOLEAN, deployed => deployed', UNCHANGED <<lt, transit, callbacks, support>>,
         rcv' \in [Members -> Receivers], \A i \in Members : rcv'[i].received = rcv[i].received
  PROVE  IInv'
  <1>1. /\ v \in States /\ validate(v) /\ lt \in Nat /\ block_lt' \in Nat /\ block_lt' <= lt
        /\ transit' \in SUBSET Messages /\ callbacks' \in SUBSET CallbackRecords
        /\ bal \in Int /\ bal = held(v) /\ deployed \in BOOLEAN /\ now' \in Nat
    BY DEF IInv, TypeOK, BooksInv, LedgerAgrees
  <1>2. SameClaims
    BY <1>1 DEF SameClaims, SameAttempt
  <1>3. LedgerAgrees'
    BY <1>1, <1>2, LedgerKept
  <1>4. TypeOK'
    BY <1>1 DEF TypeOK
  <1>5. BooksInv' /\ SupportInv'
    BY <1>1, SupportKept DEF IInv, BooksInv
  <1> QED BY <1>2, <1>3, <1>4, <1>5, ClaimsKept DEF IInv

LEMMA Quiet ==
  ASSUME IInv PROVE /\ shell \in Nat /\ now \in Nat /\ block_lt \in 0..lt /\ lt \in 0..lt
                    /\ deployed \in BOOLEAN /\ rcv \in [Members -> Receivers]
  <1>1. block_lt \in Nat /\ block_lt <= lt /\ lt \in Nat
    BY DEF IInv, TypeOK, OrderInv
  <1> QED BY <1>1 DEF IInv, TypeOK

LEMMA InitializeStep ==
  ASSUME IInv, NEW actor, Initialize(actor) PROVE IInv'
  <1>1. v = NewState /\ v' = NewState
    BY DEF Initialize, finish, IInv, BooksInv
  <1>2. deployed' \in BOOLEAN /\ UNCHANGED <<clock, bal, shell, transit, callbacks, rcv, support>>
    BY DEF Initialize
  <1> QED BY <1>1, <1>2, Quiet, QuietStep DEF Initialize, clock

LEMMA TopUpStep ==
  ASSUME IInv, NEW amount \in 1..MaxShell, TopUp(amount) PROVE IInv'
  <1>1. shell' \in Nat
    BY ActorAssumption, Quiet DEF TopUp
  <1> QED BY <1>1, Quiet, QuietStep DEF TopUp, finish, clock

LEMMA DepositStep ==
  ASSUME IInv, NEW amount \in Deposits, NEW donation \in 0..MaxShell, Deposit(amount, donation)
  PROVE  IInv'
  <1>1. v \in States /\ validate(v) /\ amount \in Nat /\ v.received + amount <= MaxU128
    BY ActorAssumption DEF IInv, TypeOK, BooksInv, Deposit, CanDeposit
  <1>2. RaisesClaims(v', v, amount)
    BY <1>1, DepositValid DEF Deposit, finish
  <1>3. /\ v' \in States /\ validate(v') /\ held(v') = held(v) + amount
        /\ v'.claim_nonce = v.claim_nonce /\ v'.proposal = v.proposal
        /\ v'.proposal_nonce = v.proposal_nonce
        /\ \A i \in Members : \E n \in Nat : v'.members[i] = [v.members[i] EXCEPT !.claimable = n]
    BY <1>2 DEF RaisesClaims
  <1>4. \A i \in Members : SameAttempt(i) /\ v'.members[i].paid = v.members[i].paid
    <2> SUFFICES ASSUME NEW i \in Members, NEW n \in Nat,
                        v'.members[i] = [v.members[i] EXCEPT !.claimable = n]
                 PROVE  SameAttempt(i) /\ v'.members[i].paid = v.members[i].paid
      BY <1>3
    <2>1. v.members[i] \in Member0
      BY <1>1, StateType
    <2> DEFINE m == v.members[i]
    <2> HIDE DEF m
    <2>2. v'.members[i] = [m EXCEPT !.claimable = n] /\ m \in Member0
      BY <2>1 DEF m
    <2> QED BY <2>2 DEF SameAttempt, Member0, m
  <1>5. /\ deployed /\ deployed' = deployed /\ bal' = bal + amount /\ shell' = shell + donation
        /\ UNCHANGED <<now, block_lt, lt, transit, callbacks, rcv, support>>
    BY DEF Deposit, CanDeposit, Decoded, clock
  <1>6. SameClaims
    BY <1>3, <1>4, <1>5, Quiet DEF SameClaims
  <1>7. LedgerAgrees'
    BY <1>3, <1>4, <1>5, <1>6, LedgerKept DEF IInv, LedgerAgrees
  <1>8. shell' \in Nat /\ bal' \in Int
    BY <1>1, <1>5, Quiet, ActorAssumption DEF IInv, TypeOK
  <1>9. TypeOK'
    BY <1>3, <1>5, <1>8 DEF IInv, TypeOK
  <1>10. BooksInv' /\ SupportInv'
    BY <1>3, <1>5, SupportKept DEF IInv, BooksInv
  <1> QED BY <1>6, <1>7, <1>9, <1>10, ClaimsKept DEF IInv

(* A step of the managers: what is written about the proposal is all that   *)
(* changes.                                                                 *)
LEMMA GovernanceStep ==
  ASSUME IInv, SameBooks(v', v), deployed, SupportInv',
         UNCHANGED <<now, block_lt, lt, deployed, bal, shell, transit, callbacks, rcv>>
  PROVE  IInv'
  <1>1. /\ v' \in States /\ validate(v') /\ held(v') = held(v)
        /\ v'.claim_nonce = v.claim_nonce /\ v'.members = v.members
    BY DEF SameBooks
  <1>2. SameClaims
    BY <1>1, Quiet DEF SameClaims, SameAttempt
  <1>3. LedgerAgrees'
    BY <1>1, <1>2, LedgerKept DEF IInv, LedgerAgrees
  <1>4. TypeOK' /\ BooksInv'
    BY <1>1 DEF IInv, TypeOK, BooksInv
  <1> QED BY <1>2, <1>3, <1>4, ClaimsKept DEF IInv

LEMMA BallotType ==
  ASSUME NEW nonce \in 1..MaxU64, NEW a \in Ballots
  PROVE  [nonce |-> nonce, action |-> a[1], value |-> a[2]] \in Bodies
  <1>1. a[1] \in 0..SET_FUEL /\ a[2] \in Nat
    BY ActorAssumption
  <1> QED BY <1>1, WidthAssumption DEF Bodies

LEMMA ProposeStep ==
  ASSUME IInv, NEW m, NEW b \in Bodies, Propose(m, b) PROVE IInv'
  <1>1. /\ m \in Managers /\ BodyValid(b) /\ now + Delay + VoteWindow <= MaxU32 /\ deployed
        /\ b.nonce = v.proposal_nonce + 1
        /\ v' = WithProposal(v, m, b, now) /\ support' = support \cup {<<m, b>>}
        /\ UNCHANGED <<now, block_lt, lt, deployed, bal, shell, transit, callbacks, rcv>>
    BY DEF Propose, CanPropose, Decoded, finish, clock
  <1>2. v \in States /\ validate(v) /\ now \in Nat /\ v.proposal_nonce \in Nat
    BY StateType DEF IInv, TypeOK, BooksInv
  <1>3. /\ SameBooks(v', v) /\ v'.proposal.body = b /\ v'.proposal.votes = {m}
        /\ v'.proposal_nonce = b.nonce /\ v'.proposal.created = now
    BY <1>1, <1>2, ProposeValid
  <1>4. SupportInv'
    <2>1. \A s \in support : s[2].nonce \in 1..v.proposal_nonce
      BY DEF IInv, SupportInv
    <2>2. b \notin Proposed
      BY <1>1, <1>2, <2>1 DEF Proposed
    <2>3. Proposed' = Proposed \cup {b}
      <3>1. <<m, b>>[2] = b /\ Proposed' = {s[2] : s \in support \cup {<<m, b>>}}
        BY <1>1 DEF Proposed
      <3> QED BY <3>1 DEF Proposed
    <2>4. IsFiniteSet(Proposed') /\ Cardinality(Proposed') = v.proposal_nonce + 1
      BY <2>2, <2>3, FS_AddElement DEF IInv, SupportInv
    <2>5. \A s \in support' : s[2].nonce \in 1..(v.proposal_nonce + 1)
      BY <1>1, <1>2, <2>1
    <2>6. \A n \in Managers : n \in {m} <=> <<n, b>> \in support'
      BY <1>1, <2>2 DEF Proposed
    <2> QED BY <1>1, <1>2, <1>3, <2>4, <2>5, <2>6 DEF SupportInv
  <1> QED BY <1>1, <1>3, <1>4, GovernanceStep

LEMMA VoteStep ==
  ASSUME IInv, NEW m, NEW b \in Bodies, Vote(m, b) PROVE IInv'
  <1>1. /\ m \in Managers /\ BodyValid(b) /\ v.proposal.body = b /\ deployed
        /\ v' = WithVote(v, m) /\ support' = support \cup {<<m, b>>}
        /\ UNCHANGED <<now, block_lt, lt, deployed, bal, shell, transit, callbacks, rcv>>
    BY DEF Vote, CanVote, Decoded, finish, clock
  <1>2. v \in States /\ validate(v) /\ v.proposal.body.nonce # 0
    BY <1>1 DEF IInv, TypeOK, BooksInv, BodyValid
  <1>3. /\ SameBooks(v', v) /\ v'.proposal.body = b /\ v'.proposal.votes = v.proposal.votes \cup {m}
        /\ v'.proposal_nonce = v.proposal_nonce /\ v'.proposal.created = v.proposal.created
    BY <1>1, <1>2, VoteValid
  <1>4. SupportInv'
    <2>1. /\ \A n \in Managers : n \in v.proposal.votes <=> <<n, b>> \in support
          /\ v.proposal.votes # {} /\ v.proposal.votes \in SUBSET Managers
      BY <1>1, <1>2, StateType DEF IInv, SupportInv, validate, ProposalValid, Proposals
    <2>2. b \in Proposed
      <3>1. PICK n \in v.proposal.votes : <<n, b>> \in support
        BY <2>1
      <3>2. <<n, b>>[2] = b
        OBVIOUS
      <3> QED BY <3>1, <3>2 DEF Proposed
    <2>3. Proposed' = Proposed
      <3>1. <<m, b>>[2] = b /\ Proposed' = {s[2] : s \in support \cup {<<m, b>>}}
        BY <1>1 DEF Proposed
      <3> QED BY <2>2, <3>1 DEF Proposed
    <2>4. \A s \in support' : s[2].nonce \in 1..v.proposal_nonce
      BY <1>1, <2>2 DEF Proposed, IInv, SupportInv
    <2>5. \A n \in Managers : n \in v'.proposal.votes <=> <<n, b>> \in support'
      BY <1>1, <1>3, <2>1
    <2> QED BY <1>1, <1>2, <1>3, <2>3, <2>4, <2>5 DEF IInv, SupportInv
  <1> QED BY <1>1, <1>3, <1>4, GovernanceStep

LEMMA ExecuteStep ==
  ASSUME IInv, NEW nonce, Execute(nonce) PROVE IInv'
  <1>1. /\ v.proposal.body.nonce # 0 /\ deployed /\ v' = WithExecution(v)
        /\ UNCHANGED <<now, block_lt, lt, deployed, bal, shell, transit, callbacks, rcv, support>>
    BY DEF Execute, CanExecute, Decoded, finish, clock
  <1>2. v \in States /\ validate(v)
    BY DEF IInv, TypeOK, BooksInv
  <1>3. SameBooks(v', v) /\ v'.proposal = NoProposal /\ v'.proposal_nonce = v.proposal_nonce
    BY <1>1, <1>2, ExecutionValid
  <1>4. SupportInv'
    <2>1. Proposed' = Proposed /\ v'.proposal.body.nonce = 0
      BY <1>1, <1>3 DEF Proposed, NoProposal
    <2> QED BY <1>1, <1>3, <2>1 DEF IInv, SupportInv
  <1> QED BY <1>1, <1>3, <1>4, GovernanceStep

(* What a claim does: it opens an attempt for all that one idle member may  *)
(* claim.                                                                   *)
ClaimEffect(i) ==
    LET amount == v.members[i].claimable IN
    /\ amount \in Nat \ {0} /\ v' \in States /\ validate(v') /\ held(v') = held(v) - amount
    /\ v'.claim_nonce = v.claim_nonce + 1 /\ v'.proposal = v.proposal
    /\ v'.received = v.received /\ v'.proposal_nonce = v.proposal_nonce
    /\ v.members[i].pending = 0
    /\ \A j \in Members \ {i} : v'.members[j] = v.members[j]
    /\ v'.members[i].pending = amount /\ v'.members[i].nonce = v.claim_nonce + 1
    /\ v'.members[i].after_lt <= lt
    /\ v'.members[i].paid = v.members[i].paid
    /\ v'.members[i].last_lt = v.members[i].last_lt
    /\ v'.members[i].last_hash = v.members[i].last_hash
    /\ ~Landed(i)' /\ ~Landed(i)
    /\ \A j \in Members \ {i} : Landed(j)' = Landed(j)

LEMMA ClaimOpens ==
  ASSUME IInv, NEW actor, NEW i \in Members, Claim(actor, i) PROVE ClaimEffect(i)
  <1> DEFINE old == v.members[i]
             boundary == IF block_lt > old.last_lt THEN block_lt ELSE old.last_lt
  <1>1. /\ old.pending = 0 /\ old.claimable # 0 /\ v.claim_nonce + 1 <= MaxU64
        /\ v' = WithClaim(v, i, block_lt) /\ UNCHANGED <<lt, callbacks>>
    BY DEF Claim, CanClaim, finish, clock
  <1>2. /\ v \in States /\ validate(v) /\ block_lt \in Nat /\ block_lt <= lt /\ lt \in Nat
        /\ old.last_lt <= lt
    BY DEF IInv, TypeOK, BooksInv, OrderInv
  <1>3. OpensClaim(v', v, i, block_lt)
    BY <1>1, <1>2, ClaimValid
  <1>4. /\ v' \in States /\ validate(v') /\ held(v') = held(v) - old.claimable
        /\ v'.claim_nonce = v.claim_nonce + 1 /\ v'.proposal = v.proposal
        /\ v'.received = v.received /\ v'.proposal_nonce = v.proposal_nonce
        /\ v'.members = [v.members EXCEPT ![i] = Attempt(v, i, block_lt)]
    BY <1>3 DEF OpensClaim, MemberReplaced
  <1>5. /\ v.members \in [Members -> Member0] /\ old \in Member0 /\ old.claimable \in Nat
        /\ old.last_lt \in Nat /\ v.claim_nonce \in Nat
    BY <1>2, StateType
  <1>6. v'.members[i] = Attempt(v, i, block_lt) /\ \A j \in Members \ {i} : v'.members[j] = v.members[j]
    BY <1>4, <1>5
  <1>7. Attempt(v, i, block_lt) = [old EXCEPT !.pending = old.claimable, !.claimable = 0,
                                              !.nonce = v.claim_nonce + 1, !.after_lt = boundary]
    BY DEF Attempt
  <1>8. boundary <= lt
    BY <1>2, <1>5
  <1> HIDE DEF boundary
  <1>9. /\ v'.members[i].pending = old.claimable /\ v'.members[i].nonce = v.claim_nonce + 1
        /\ v'.members[i].after_lt = boundary /\ v'.members[i].paid = old.paid
        /\ v'.members[i].last_lt = old.last_lt /\ v'.members[i].last_hash = old.last_hash
    <2> HIDE DEF old
    <2> QED BY <1>5, <1>6, <1>7 DEF Member0
  <1>10. ~Landed(i)' /\ ~Landed(i) /\ \A j \in Members \ {i} : Landed(j)' = Landed(j)
    <2>1. \A c \in callbacks : c.hash \in 1..v.claim_nonce /\ c.source \in Members
      BY DEF IInv, CallbackInv, TypeOK, CallbackRecords
    <2>2. ~Landed(i)'
      BY <1>1, <1>5, <1>9, <2>1 DEF Landed, Outstanding
    <2>3. ~Landed(i)
      BY <1>1 DEF Landed, Outstanding
    <2>4. \A j \in Members \ {i} : Landed(j)' = Landed(j)
      BY <1>1, <1>6 DEF Landed, Outstanding
    <2> QED BY <2>2, <2>3, <2>4
  <1> QED BY <1>1, <1>4, <1>5, <1>6, <1>8, <1>9, <1>10 DEF ClaimEffect

(* A claim opens a new attempt for one idle member: no callback there is    *)
(* later than the member's latest, and the nonce is new.                   *)
LEMMA ClaimStep ==
  ASSUME IInv, NEW actor, NEW i \in Members, Claim(actor, i) PROVE IInv'
  <1> DEFINE amount == v.members[i].claimable
             x == v'.members[i]
             m(reserve) == [to |-> i, body |-> payment_body(i, v'.claim_nonce, amount),
                            principal |-> amount, reserve |-> reserve]
  <1>1. /\ deployed /\ deployed' = deployed /\ shell >= v.fuel_limit /\ bal' = bal - amount
        /\ UNCHANGED <<now, block_lt, lt, callbacks, rcv, support>>
    BY DEF Claim, CanClaim, Decoded, clock
  <1>2. PICK reserve \in {0, v.fuel_limit} :
          shell' = shell - reserve /\ transit' = transit \cup {m(reserve)}
    BY DEF Claim
  <1>3. ClaimEffect(i)
    BY ClaimOpens
  <1>4. /\ amount \in Nat \ {0} /\ v' \in States /\ validate(v') /\ held(v') = held(v) - amount
        /\ v'.claim_nonce = v.claim_nonce + 1 /\ v'.proposal = v.proposal
        /\ v'.proposal_nonce = v.proposal_nonce
        /\ v.members[i].pending = 0
        /\ \A j \in Members \ {i} : v'.members[j] = v.members[j]
    BY <1>3 DEF ClaimEffect
  <1>5. /\ x.pending = amount /\ x.nonce = v.claim_nonce + 1 /\ x.after_lt <= lt
        /\ x.paid = v.members[i].paid
        /\ x.last_lt = v.members[i].last_lt /\ x.last_hash = v.members[i].last_hash
    BY <1>3 DEF ClaimEffect
  <1>6. ~Landed(i)' /\ ~Landed(i) /\ \A j \in Members \ {i} : Landed(j)' = Landed(j)
    BY <1>3 DEF ClaimEffect
  <1>7. /\ v \in States /\ v.claim_nonce \in Nat /\ v.claim_nonce + 1 \in Nat /\ v.fuel_limit \in Nat
        /\ shell \in Nat /\ bal \in Int
    BY StateType DEF IInv, TypeOK
  <1> HIDE DEF amount, x
  <1>8. TypeOK'
    <2>1. shell' \in Nat /\ reserve \in Nat /\ bal' \in Int
      BY <1>1, <1>2, <1>4, <1>7
    <2>2. m(reserve) \in Messages
      BY <1>4, <1>7, <2>1 DEF Messages, payment_body, PaymentBodies
    <2> HIDE DEF m
    <2> QED BY <1>1, <1>2, <1>4, <2>1, <2>2 DEF IInv, TypeOK
  <1>9. BooksInv' /\ SupportInv'
    BY <1>1, <1>4, SupportKept DEF IInv, BooksInv
  <1>10. TransitInv'
    <2>1. ASSUME NEW n \in transit PROVE n.to \in Members \ {i}
      BY <1>4 DEF IInv, TransitInv, TypeOK, Messages
    <2>2. ASSUME NEW n \in transit
          PROVE  LET y == v'.members[n.to] IN
                 /\ y.pending # 0
                 /\ n.body = payment_body(n.to, y.nonce, y.pending)
                 /\ n.principal = y.pending
                 /\ \A o \in transit' : o.to = n.to => o = n
                 /\ \A c \in callbacks' : c.source = n.to => c.hash # y.nonce
      BY <1>1, <1>2, <1>4, <2>1 DEF IInv, TransitInv
    <2>3. /\ x.pending # 0
          /\ m(reserve).body = payment_body(i, x.nonce, x.pending)
          /\ m(reserve).principal = x.pending
          /\ \A o \in transit' : o.to = i => o = m(reserve)
          /\ \A c \in callbacks' : c.hash # x.nonce
      <3>1. \A c \in callbacks : c.hash \in 1..v.claim_nonce
        BY DEF IInv, CallbackInv
      <3> QED BY <1>1, <1>2, <1>4, <1>5, <1>7, <2>1, <3>1
    <2>4. m(reserve).to = i
      OBVIOUS
    <2> HIDE DEF m
    <2> QED BY <1>2, <2>2, <2>3, <2>4 DEF TransitInv, x
  <1>11. CallbackInv'
    <2> SUFFICES ASSUME NEW c \in callbacks
                 PROVE  /\ c.hash \in 1..v'.claim_nonce
                        /\ Outstanding(c)' => c.lt > v'.members[c.source].after_lt /\ Genuine(c)'
                        /\ ~Outstanding(c)' => c.lt <= v'.members[c.source].last_lt
      BY <1>1 DEF IInv, CallbackInv
    <2>1. c.source \in Members /\ c.hash \in 1..v.claim_nonce
      BY DEF IInv, TypeOK, CallbackRecords, CallbackInv
    <2>2. CASE c.source # i
      BY <1>4, <1>7, <2>1, <2>2 DEF IInv, CallbackInv, Outstanding, Genuine
    <2>3. CASE c.source = i
      <3>1. ~Outstanding(c)' /\ ~Outstanding(c)
        BY <1>4, <1>5, <1>7, <2>1, <2>3 DEF Outstanding, x
      <3> QED BY <1>4, <1>5, <1>7, <2>1, <2>3, <3>1 DEF IInv, CallbackInv, x
    <2> QED BY <2>2, <2>3
  <1>12. OrderInv'
    <2>1. x.last_hash < x.nonce /\ x.last_hash <= v'.claim_nonce
      <3>1. v.members[i].last_hash \in Nat /\ v.members[i].last_hash <= v.claim_nonce
        BY <1>7, StateType DEF IInv, OrderInv
      <3> QED BY <1>4, <1>5, <1>7, <3>1
    <2>2. \A j \in Members : v.members[j].last_hash \in Nat
      BY <1>7, StateType
    <2>3. x.after_lt <= lt /\ x.last_lt <= lt
      BY <1>5 DEF IInv, OrderInv
    <2> QED BY <1>1, <1>4, <1>7, <2>1, <2>2, <2>3 DEF IInv, OrderInv, x
  <1>13. LedgerAgrees'
    <2>1. bal' = held(v')
      BY <1>1, <1>4 DEF IInv, LedgerAgrees
    <2>2. \A j \in Members : rcv'[j].received
             = v'.members[j].paid + IF Landed(j)' THEN v'.members[j].pending ELSE 0
      BY <1>1, <1>4, <1>5, <1>6 DEF IInv, LedgerAgrees, x
    <2> QED BY <1>4, <2>1, <2>2, LedgerNext
  <1> QED BY <1>8, <1>9, <1>10, <1>11, <1>12, <1>13 DEF IInv

(* What an accepted callback does: it is the one that answers its member's  *)
(* attempt, and it closes that attempt.                                    *)
CallbackEffect(c) ==
    LET i == c.source
        pending == v.members[c.source].pending
    IN /\ Outstanding(c) /\ Genuine(c) /\ pending \in Nat \ {0}
       /\ c.lt > v.members[i].last_lt
       /\ v' \in States /\ validate(v')
       /\ held(v') = held(v) + (IF c.ok THEN 0 ELSE pending)
       /\ v'.claim_nonce = v.claim_nonce /\ v'.proposal = v.proposal
       /\ v'.received = v.received /\ v'.proposal_nonce = v.proposal_nonce
       /\ \A j \in Members \ {i} : v'.members[j] = v.members[j]
       /\ v'.members[i].pending = 0 /\ v'.members[i].nonce = 0 /\ v'.members[i].after_lt = 0
       /\ v'.members[i].last_lt = c.lt /\ v'.members[i].last_hash = c.hash
       /\ v'.members[i].paid = v.members[i].paid + (IF c.ok THEN pending ELSE 0)
       /\ ~Landed(i)' /\ (Landed(i) <=> c.ok)
       /\ \A j \in Members \ {i} : Landed(j)' = Landed(j)

LEMMA CallbackCloses ==
  ASSUME IInv, NEW c \in callbacks, Callback(c) PROVE CallbackEffect(c)
  <1> DEFINE i == c.source
             old == v.members[c.source]
  <1>1. /\ old.pending # 0 /\ c.lt > old.last_lt /\ c.lt > old.after_lt
        /\ v' = AfterCallback(v, i, c) /\ callbacks' = callbacks
    BY DEF Callback, CanCallback, Fresh, finish
  <1>2. /\ c \in CallbackRecords /\ i \in Members /\ lt \in Nat
        /\ v \in States /\ validate(v) /\ c.lt \in 1..lt /\ c.hash \in 1..v.claim_nonce
        /\ c.ok \in BOOLEAN
    BY DEF IInv, TypeOK, BooksInv, CallbackInv, CallbackRecords
  <1>3. /\ v.members \in [Members -> Member0] /\ old \in Member0 /\ old.pending \in Nat
        /\ old.last_lt \in Nat /\ v.claim_nonce \in Nat
    BY <1>2, StateType
  (* A fresh callback is the pending attempt's: any other is not later.     *)
  <1>4. Outstanding(c) /\ Genuine(c)
    <2>1. ~Outstanding(c) => c.lt <= old.last_lt
      BY DEF IInv, CallbackInv
    <2>2. Outstanding(c)
      BY <1>1, <1>2, <1>3, <2>1
    <2> QED BY <2>2 DEF IInv, CallbackInv
  <1>5. c.lt \in Nat \ {0} /\ c.hash \in Nat \ {0} /\ c.lt \in Nat /\ c.hash \in Nat
    BY <1>2, <1>3
  <1>6. ClosesClaim(v', v, i, c)
    <2> HIDE DEF i
    <2> QED BY <1>1, <1>2, <1>5, CallbackValid
  <1>7. /\ v' \in States /\ validate(v')
        /\ held(v') = held(v) + (IF c.ok THEN 0 ELSE old.pending)
        /\ v'.claim_nonce = v.claim_nonce /\ v'.proposal = v.proposal /\ v'.received = v.received
        /\ v'.proposal_nonce = v.proposal_nonce
        /\ v'.members = [v.members EXCEPT ![i] = Closed(old, c)]
    BY <1>6 DEF ClosesClaim, MemberReplaced
  <1>8. v'.members[i] = Closed(old, c) /\ \A j \in Members \ {i} : v'.members[j] = v.members[j]
    BY <1>2, <1>3, <1>7
  <1>9. /\ v'.members[i].pending = 0 /\ v'.members[i].nonce = 0 /\ v'.members[i].after_lt = 0
        /\ v'.members[i].last_lt = c.lt /\ v'.members[i].last_hash = c.hash
        /\ v'.members[i].paid = old.paid + (IF c.ok THEN old.pending ELSE 0)
    <2> HIDE DEF old
    <2> QED BY <1>2, <1>3, <1>5, <1>8, ClosedMember
  <1>10. /\ ~Landed(i)' /\ (Landed(i) <=> c.ok)
         /\ \A j \in Members \ {i} : Landed(j)' = Landed(j)
    <2>1. \A n \in callbacks : n.source = i /\ Outstanding(n) => n = c
      BY <1>4 DEF IInv, CallbackInv, Outstanding
    <2>2. Landed(i) <=> c.ok
      BY <1>2, <1>4, <2>1 DEF Landed
    <2>3. ~Landed(i)'
      BY <1>9 DEF Landed, Outstanding
    <2>4. \A j \in Members \ {i} : Landed(j)' = Landed(j)
      BY <1>1, <1>8 DEF Landed, Outstanding
    <2> QED BY <2>2, <2>3, <2>4
  <1>11. old.pending \in Nat \ {0}
    BY <1>1, <1>3
  <1> QED BY <1>1, <1>4, <1>7, <1>8, <1>9, <1>10, <1>11 DEF CallbackEffect

LEMMA CallbackStep ==
  ASSUME IInv, NEW c \in callbacks, Callback(c) PROVE IInv'
  <1> DEFINE i == c.source
             pending == v.members[c.source].pending
             x == v'.members[c.source]
  <1>1. /\ bal' = bal + c.principal /\ shell' = shell + c.shell /\ deployed /\ deployed' = deployed
        /\ UNCHANGED <<now, block_lt, lt, transit, callbacks, rcv, support>>
    BY DEF Callback, CanCallback, Decoded, clock
  <1>2. /\ c \in CallbackRecords /\ i \in Members /\ lt \in Nat /\ v \in States
        /\ c.lt \in 1..lt /\ c.hash \in 1..v.claim_nonce /\ v.claim_nonce \in Nat
        /\ c.ok \in BOOLEAN /\ c.principal \in Nat /\ c.shell \in Nat
    BY StateType DEF IInv, TypeOK, CallbackInv, CallbackRecords
  <1>3. CallbackEffect(c)
    BY CallbackCloses
  <1>4. /\ Outstanding(c) /\ Genuine(c) /\ pending \in Nat \ {0}
        /\ c.lt > v.members[i].last_lt
        /\ v' \in States /\ validate(v')
        /\ held(v') = held(v) + (IF c.ok THEN 0 ELSE pending)
        /\ v'.claim_nonce = v.claim_nonce /\ v'.proposal = v.proposal
        /\ v'.proposal_nonce = v.proposal_nonce
        /\ \A j \in Members \ {i} : v'.members[j] = v.members[j]
    BY <1>3 DEF CallbackEffect
  <1>5. /\ x.pending = 0 /\ x.nonce = 0 /\ x.after_lt = 0 /\ x.last_lt = c.lt /\ x.last_hash = c.hash
        /\ x.paid = v.members[i].paid + (IF c.ok THEN pending ELSE 0)
    BY <1>3 DEF CallbackEffect
  <1>6. /\ ~Landed(i)' /\ (Landed(i) <=> c.ok) /\ \A j \in Members \ {i} : Landed(j)' = Landed(j)
    BY <1>3 DEF CallbackEffect
  <1>7. c.principal = (IF c.ok THEN 0 ELSE pending)
    BY <1>4 DEF Genuine
  <1> HIDE DEF pending, x, i
  <1>8. TypeOK'
    <2>1. bal' \in Int /\ shell' \in Nat
      BY <1>1, <1>2 DEF IInv, TypeOK
    <2> QED BY <1>1, <1>4, <2>1 DEF IInv, TypeOK
  <1>9. BooksInv' /\ SupportInv'
    BY <1>1, <1>4, SupportKept DEF IInv, BooksInv
  <1>10. TransitInv'
    <2>1. \A m \in transit : m.to \in Members /\ m.to # i
      BY <1>4 DEF IInv, TransitInv, TypeOK, Messages, Outstanding, i
    <2> QED BY <1>1, <1>4, <2>1 DEF IInv, TransitInv
  <1>11. CallbackInv'
    <2> SUFFICES ASSUME NEW n \in callbacks
                 PROVE  /\ n.hash \in 1..v'.claim_nonce
                        /\ Outstanding(n)' => n.lt > v'.members[n.source].after_lt /\ Genuine(n)'
                        /\ ~Outstanding(n)' => n.lt <= v'.members[n.source].last_lt
      BY <1>1 DEF IInv, CallbackInv
    <2>1. n.source \in Members /\ n.hash \in 1..v.claim_nonce /\ n.lt \in Nat
      BY DEF IInv, TypeOK, CallbackRecords, CallbackInv
    <2>2. CASE n.source # i
      BY <1>4, <2>1, <2>2 DEF IInv, CallbackInv, Outstanding, Genuine
    <2>3. CASE n.source = i
      <3>1. ~Outstanding(n)'
        BY <1>5, <2>3 DEF Outstanding, x, i
      <3>2. n.lt <= c.lt
        <4>1. CASE Outstanding(n)
          <5>1. n = c
            BY <1>4, <2>3, <4>1 DEF IInv, CallbackInv, Outstanding, i
          <5> QED BY <2>1, <5>1
        <4>2. CASE ~Outstanding(n)
          <5>1. n.lt <= v.members[i].last_lt /\ v.members[i].last_lt \in Nat
            BY <1>2, <2>3, <4>2, StateType DEF IInv, CallbackInv
          <5> QED BY <1>2, <1>4, <2>1, <5>1
        <4> QED BY <4>1, <4>2
      <3> QED BY <1>4, <1>5, <2>1, <2>3, <3>1, <3>2 DEF x, i
    <2> QED BY <2>2, <2>3
  <1>12. OrderInv'
    <2>1. \A j \in Members \ {i} :
            LET y == v'.members[j] IN
            /\ y.after_lt <= lt /\ y.last_lt <= lt /\ y.last_hash <= v.claim_nonce
            /\ y.pending # 0 => y.last_hash < y.nonce
      BY <1>4 DEF IInv, OrderInv
    <2>2. x.after_lt <= lt /\ x.last_lt <= lt /\ x.last_hash <= v.claim_nonce /\ x.pending = 0
      BY <1>2, <1>5
    <2>3. block_lt' <= lt'
      BY <1>1 DEF IInv, OrderInv
    <2> QED BY <1>1, <1>4, <2>1, <2>2, <2>3 DEF OrderInv, x, i
  <1>13. LedgerAgrees'
    <2>1. bal' = held(v')
      BY <1>1, <1>4, <1>7 DEF IInv, LedgerAgrees
    <2>2. ASSUME NEW j \in Members \ {i}
          PROVE  rcv'[j].received
             = v'.members[j].paid + IF Landed(j)' THEN v'.members[j].pending ELSE 0
      BY <1>1, <1>4, <1>6 DEF IInv, LedgerAgrees
    <2>3. rcv[i].received = v.members[i].paid + IF Landed(i) THEN pending ELSE 0
      BY <1>2 DEF IInv, LedgerAgrees, pending, i
    <2>4. x.paid = rcv'[i].received /\ v.members[i].paid \in Nat
      BY <1>1, <1>2, <1>5, <1>6, <2>3, StateType
    <2>5. rcv'[i].received = v'.members[i].paid + IF Landed(i)' THEN v'.members[i].pending ELSE 0
      <3>1. v'.members[i].paid \in Nat /\ v'.members[i].paid = rcv'[i].received
        BY <1>2, <1>4, <2>4, StateType DEF x, i
      <3> QED BY <1>6, <3>1
    <2> QED BY <1>4, <2>1, <2>2, <2>5, LedgerNext
  <1> QED BY <1>8, <1>9, <1>10, <1>11, <1>12, <1>13 DEF IInv

----------------------------------------------------------------------------
LEMMA BindStep ==
  ASSUME IInv, NEW i \in Members, NEW source \in Sources, Bind(i, source) PROVE IInv'
  <1>1. source \in {NoAddress, Vault, Other} /\ rcv \in [Members -> Receivers]
    BY ActorAssumption, Quiet
  <1>2. rcv' \in [Members -> Receivers]
    BY <1>1 DEF Bind, Receivers
  <1>3. \A j \in Members : rcv'[j].received = rcv[j].received
    BY <1>1 DEF Bind, Receivers
  <1> QED BY <1>2, <1>3, Quiet, QuietStep DEF Bind, vault, clock

LEMMA FlagStep ==
  ASSUME IInv, NEW i \in Members, NEW flag \in Flags, SetReject(i, flag) \/ SetDuplicate(i, flag)
  PROVE  IInv'
  <1>1. flag \in BOOLEAN /\ rcv \in [Members -> Receivers]
    BY ActorAssumption, Quiet
  <1>2. rcv' \in [Members -> Receivers]
    BY <1>1 DEF SetReject, SetDuplicate, Receivers
  <1>3. \A j \in Members : rcv'[j].received = rcv[j].received
    BY <1>1 DEF SetReject, SetDuplicate, Receivers
  <1> QED BY <1>2, <1>3, Quiet, QuietStep DEF SetReject, SetDuplicate, vault, clock

LEMMA NewBlockStep == ASSUME IInv, NewBlock PROVE IInv'
  <1>1. now' \in {now, now + 1}
    BY DEF NewBlock
  <1> QED BY <1>1, Quiet, QuietStep DEF NewBlock, vault

(* A delivery lands, or leaves the member's claim as it was.                *)
LEMMA DeliverEffect ==
  ASSUME IInv, NEW m \in transit, NEW ok \in BOOLEAN, NEW unused \in 0..m.reserve,
         v' = v, callbacks' = callbacks \cup {CallbackOf(m, ok, unused)}
  PROVE  /\ m.to \in Members /\ v.members[m.to].pending \in Nat \ {0}
         /\ m.body.amount = v.members[m.to].pending
         /\ ~Landed(m.to) /\ (Landed(m.to)' <=> ok)
         /\ \A i \in Members \ {m.to} : Landed(i)' = Landed(i)
  <1> DEFINE x == v.members[m.to]
  <1>0. PICK c : c = CallbackOf(m, ok, unused)
    OBVIOUS
  <1>1. m.to \in Members /\ x.pending \in Nat
    BY StateType DEF IInv, TypeOK, Messages
  <1>2. /\ x.pending # 0 /\ m.body = payment_body(m.to, x.nonce, x.pending)
        /\ \A n \in callbacks : n.source = m.to => n.hash # x.nonce
    BY DEF IInv, TransitInv
  <1>3. m.body.nonce = x.nonce /\ m.body.amount = x.pending
    BY <1>2 DEF payment_body
  <1>4. c.source = m.to /\ c.hash = x.nonce /\ c.ok = ok
    BY <1>0, <1>3 DEF CallbackOf
  <1>5. Outstanding(c)' /\ \A n \in callbacks : Outstanding(n)' = Outstanding(n)
    BY <1>2, <1>4 DEF Outstanding
  <1>6. ~Landed(m.to)
    BY <1>2 DEF Landed, Outstanding
  <1>7. Landed(m.to)' <=> ok
    BY <1>0, <1>4, <1>5, <1>6 DEF Landed
  <1>8. \A i \in Members \ {m.to} : Landed(i)' = Landed(i)
    BY <1>0, <1>4, <1>5 DEF Landed
  <1> QED BY <1>1, <1>2, <1>3, <1>6, <1>7, <1>8

(* A delivery answers the pending attempt of its member, once, with what    *)
(* the receiver did.                                                        *)
LEMMA DeliverStep ==
  ASSUME IInv, NEW m \in transit, NEW ok \in BOOLEAN, NEW unused \in 0..m.reserve,
         UNCHANGED <<now, block_lt, vault, support>>, lt' = lt + 1, transit' = transit \ {m},
         callbacks' = callbacks \cup {CallbackOf(m, ok, unused)},
         rcv' = IF ok THEN [rcv EXCEPT ![m.to] = WithReceived(@, m.body)] ELSE rcv
  PROVE  IInv'
  <1> DEFINE i == m.to
             x == v.members[m.to]
  <1>0. PICK c : c = CallbackOf(m, ok, unused)
    OBVIOUS
  <1>1. /\ m \in Messages /\ i \in Members /\ m.body \in PaymentBodies /\ m.reserve \in Nat
        /\ m.principal \in Nat /\ lt \in Nat /\ unused \in Nat /\ v \in States
    BY DEF IInv, TypeOK, Messages
  <1>2. /\ v' = v /\ bal' = bal /\ shell' = shell /\ deployed' = deployed /\ now' = now
        /\ block_lt' = block_lt /\ support' = support
        /\ x.pending \in Nat /\ x.nonce \in Nat /\ x.after_lt \in Nat /\ x.paid \in Nat
    BY <1>1, StateType DEF vault
  <1>3. /\ x.pending # 0 /\ m.principal = x.pending
        /\ m.body = payment_body(i, x.nonce, x.pending)
        /\ \A n \in transit : n.to = i => n = m
        /\ \A n \in callbacks : n.source = i => n.hash # x.nonce
    BY DEF IInv, TransitInv
  <1>4. m.body.nonce = x.nonce /\ m.body.amount = x.pending
    BY <1>3 DEF payment_body
  <1>5. x.nonce \in 1..v.claim_nonce
    BY <1>1, <1>3 DEF IInv, BooksInv, validate, MemberValid
  <1>6. /\ c.source = i /\ c.hash = x.nonce /\ c.lt = lt + 1 /\ c.ok = ok
        /\ c.shell = unused /\ c.principal = (IF ok THEN 0 ELSE x.pending)
        /\ c.body = (IF ok THEN payment_body(i, x.nonce, x.pending) ELSE EmptyBody)
    BY <1>0, <1>3, <1>4 DEF CallbackOf
  <1>7. EmptyBody \in PaymentBodies
    BY CountRange DEF EmptyBody, payment_body, PaymentBodies
  <1>8. c \in CallbackRecords
    BY <1>0, <1>1, <1>7 DEF CallbackOf, CallbackRecords, PaymentBodies
  <1>9. Outstanding(c)' /\ Genuine(c)'
    BY <1>2, <1>3, <1>6 DEF Outstanding, Genuine
  <1>10. \A n \in callbacks : Outstanding(n)' = Outstanding(n) /\ Genuine(n)' = Genuine(n)
    BY <1>2 DEF Outstanding, Genuine
  <1>11. x.after_lt <= lt
    BY <1>1 DEF IInv, OrderInv
  <1>12. TypeOK'
    <2>1. rcv' \in [Members -> Receivers]
      <3>1. /\ rcv \in [Members -> Receivers] /\ rcv[i] \in Receivers
            /\ m.body.nonce \in Nat /\ m.body.amount \in Nat
        BY <1>1 DEF IInv, TypeOK, PaymentBodies
      <3>2. WithReceived(rcv[i], m.body) \in Receivers
        <4> DEFINE r == rcv[i]
                   n == m.body.nonce
                   sum == r.received + m.body.amount
                   count == r.count + 1
        <4>1. r \in Receivers /\ n \in Nat /\ sum \in Nat /\ count \in Nat
          BY <3>1 DEF Receivers
        <4>2. WithReceived(rcv[i], m.body) = [r EXCEPT !.last = n, !.received = sum, !.count = count]
          BY DEF WithReceived
        <4> HIDE DEF r, n, sum, count
        <4> QED BY <4>1, <4>2 DEF Receivers
      <3> QED BY <3>1, <3>2
    <2>2. callbacks' \in SUBSET CallbackRecords /\ transit' \in SUBSET Messages
      BY <1>0, <1>8 DEF IInv, TypeOK
    <2> QED BY <1>1, <1>2, <2>1, <2>2 DEF IInv, TypeOK
  <1>13. BooksInv' /\ OrderInv' /\ SupportInv'
    <2>1. \A j \in Members : v.members[j].after_lt <= lt + 1 /\ v.members[j].last_lt <= lt + 1
      BY <1>1, StateType DEF IInv, OrderInv
    <2>2. block_lt <= lt + 1
      BY <1>1, Quiet
    <2> QED BY <1>2, <2>1, <2>2, SupportKept DEF IInv, BooksInv, OrderInv
  <1>14. TransitInv'
    <2>1. \A n \in transit' : n \in transit /\ n.to # i
      BY <1>3
    <2> QED BY <1>0, <1>2, <1>6, <2>1 DEF IInv, TransitInv
  <1>15. CallbackInv'
    <2>1. ASSUME NEW n \in callbacks
          PROVE  /\ n.hash \in 1..v.claim_nonce /\ n.lt \in 1..(lt + 1) /\ n # c
                 /\ Outstanding(n)' => n.lt > v.members[n.source].after_lt /\ Genuine(n)'
                 /\ ~Outstanding(n)' => n.lt <= v.members[n.source].last_lt
                 /\ \A o \in callbacks' : o.source = n.source /\ o.hash = n.hash => o = n
      BY <1>0, <1>1, <1>3, <1>6, <1>10 DEF IInv, CallbackInv
    <2>2. /\ c.hash \in 1..v.claim_nonce /\ c.lt \in 1..(lt + 1)
          /\ c.lt > v.members[c.source].after_lt
          /\ \A o \in callbacks' : o.source = c.source /\ o.hash = c.hash => o = c
      BY <1>0, <1>1, <1>2, <1>3, <1>5, <1>6, <1>11
    <2> QED BY <1>0, <1>2, <1>9, <2>1, <2>2 DEF CallbackInv
  <1>16. LedgerAgrees'
    <2>1. /\ ~Landed(i) /\ (Landed(i)' <=> ok) /\ \A j \in Members \ {i} : Landed(j)' = Landed(j)
      BY <1>2, DeliverEffect
    <2>2. rcv \in [Members -> Receivers] /\ rcv[i].received \in Nat
      BY <1>1 DEF IInv, TypeOK, Receivers
    <2>3. /\ rcv'[i].received = rcv[i].received + IF ok THEN x.pending ELSE 0
          /\ \A j \in Members \ {i} : rcv'[j] = rcv[j]
      <3>1. WithReceived(rcv[i], m.body).received = rcv[i].received + m.body.amount
        BY <1>1, <2>2 DEF WithReceived, Receivers
      <3> QED BY <1>1, <1>2, <1>4, <2>2, <3>1
    <2>4. \A j \in Members : rcv'[j].received
            = v'.members[j].paid + IF Landed(j)' THEN v'.members[j].pending ELSE 0
      BY <1>1, <1>2, <2>1, <2>3 DEF IInv, LedgerAgrees
    <2>5. v' \in States /\ validate(v') /\ bal' = held(v')
      BY <1>1, <1>2 DEF IInv, BooksInv, LedgerAgrees
    <2> QED BY <2>4, <2>5, LedgerNext
  <1> QED BY <1>12, <1>13, <1>14, <1>15, <1>16 DEF IInv

LEMMA NextInvariant == IInv /\ [Next]_vars => IInv'
  <1> SUFFICES ASSUME IInv, [Next]_vars PROVE IInv'
    OBVIOUS
  <1>1. CASE UNCHANGED vars
    BY <1>1, Quiet, QuietStep DEF vars, vault, clock
  <1>2. CASE Users
    <2>1. ASSUME NEW actor \in Actors, Initialize(actor) PROVE IInv'
      BY <2>1, InitializeStep
    <2>2. ASSUME NEW actor \in Actors, NEW i \in Members, Claim(actor, i) PROVE IInv'
      BY <2>2, ClaimStep
    <2>3. ASSUME NEW amount \in Deposits, NEW donation \in 0..MaxShell, Deposit(amount, donation)
          PROVE  IInv'
      BY <2>3, DepositStep
    <2>4. ASSUME NEW amount \in 1..MaxShell, TopUp(amount) PROVE IInv'
      BY <2>4, TopUpStep
    <2>5. ASSUME NEW i \in Members, NEW source \in Sources, Bind(i, source) PROVE IInv'
      BY <2>5, BindStep
    <2>6. ASSUME NEW i \in Members, NEW flag \in Flags,
                 SetReject(i, flag) \/ SetDuplicate(i, flag)
          PROVE  IInv'
      BY <2>6, FlagStep
    <2> QED BY <1>2, <2>1, <2>2, <2>3, <2>4, <2>5, <2>6 DEF Users
  <1>3. CASE Governance
    <2>1. ASSUME NEW m \in Actors, NEW nonce \in 1..MaxU64, NEW a \in Ballots,
                 LET b == [nonce |-> nonce, action |-> a[1], value |-> a[2]]
                 IN Propose(m, b) \/ Vote(m, b)
          PROVE  IInv'
      <3> DEFINE b == [nonce |-> nonce, action |-> a[1], value |-> a[2]]
      <3>1. b \in Bodies
        BY BallotType
      <3>2. Propose(m, b) \/ Vote(m, b)
        BY <2>1
      <3> HIDE DEF b
      <3> QED BY <3>1, <3>2, ProposeStep, VoteStep
    <2>2. ASSUME NEW nonce \in 1..MaxU64, Execute(nonce) PROVE IInv'
      BY <2>2, ExecuteStep
    <2> QED BY <1>3, <2>1, <2>2 DEF Governance
  <1>4. CASE Runtime
    <2>1. ASSUME NEW m \in transit, DeliverOk(m) PROVE IInv'
      <3>1. PICK unused \in 0..m.reserve : callbacks' = callbacks \cup {CallbackOf(m, TRUE, unused)}
        BY <2>1 DEF DeliverOk
      <3> QED BY <2>1, <3>1, DeliverStep DEF DeliverOk
    <2>2. ASSUME NEW m \in transit, DeliverFailed(m) PROVE IInv'
      <3>1. PICK unused \in 0..m.reserve : callbacks' = callbacks \cup {CallbackOf(m, FALSE, unused)}
        BY <2>2 DEF DeliverFailed
      <3> QED BY <2>2, <3>1, DeliverStep DEF DeliverFailed
    <2>3. ASSUME NEW c \in callbacks, Callback(c) PROVE IInv'
      BY <2>3, CallbackStep
    <2> QED BY <1>4, <2>1, <2>2, <2>3, NewBlockStep DEF Runtime
  <1> QED BY <1>1, <1>2, <1>3, <1>4 DEF Next

(* In every reachable state, whatever the weights, the number of members,   *)
(* the deposits and the ballots, the inductive invariant holds.             *)
THEOREM Invariance == Spec => []IInv
  <1> QED BY InitInvariant, NextInvariant, PTL DEF Spec

(* Every variable of vault, receivers and runtime keeps its type: no        *)
(* counter leaves its width and no amount goes below zero.                  *)
THEOREM TypeCorrect == Spec => []TypeOK
  <1>1. IInv => TypeOK
    BY DEF IInv
  <1> QED BY <1>1, Invariance, PTL

(* The vault's books agree with every receiver and with its own balance,    *)
(* and every member's parts are exactly the floor of its share, however     *)
(* deposits, claims, failed deliveries and late callbacks interleave.       *)
THEOREM BooksAgree == Spec => []LedgerAgrees
  <1>1. IInv => LedgerAgrees
    BY DEF IInv
  <1> QED BY <1>1, Invariance, PTL

(* The callback a member waits for is accepted whenever it arrives, paused  *)
(* or not, and leaves a valid state.                                        *)
THEOREM CallbackAccepted == Spec => []GenuineCallbackAccepted
  <1>1. IInv => GenuineCallbackAccepted
    <2> SUFFICES ASSUME IInv, NEW c \in callbacks, Outstanding(c)
                 PROVE  CanCallback(c) /\ validate(AfterCallback(v, c.source, c))
      BY DEF GenuineCallbackAccepted
    <2> DEFINE x == v.members[c.source]
    <2>1. /\ c \in CallbackRecords /\ c.source \in Members /\ c.ok \in BOOLEAN
          /\ lt \in Nat /\ v \in States /\ validate(v)
          /\ c.lt \in 1..lt /\ c.hash \in 1..v.claim_nonce
      BY DEF IInv, TypeOK, BooksInv, CallbackInv, CallbackRecords
    <2>2. /\ x.pending # 0 /\ c.hash = x.nonce /\ Genuine(c) /\ c.lt > x.after_lt
          /\ x.last_hash < x.nonce
      BY <2>1 DEF Outstanding, IInv, CallbackInv, OrderInv
    <2>3. x.after_lt >= x.last_lt /\ x.after_lt \in Nat /\ x.last_lt \in Nat /\ x.last_hash \in Nat
          /\ v.claim_nonce \in Nat
      BY <2>1, <2>2, StateType DEF validate, MemberValid
    <2>4. deployed
      BY <2>1, <2>2 DEF IInv, BooksInv, NewState, NewMember
    <2>5. Fresh(c)
      BY <2>1, <2>2, <2>3 DEF Fresh
    <2>6. CanCallback(c)
      BY <2>1, <2>2, <2>4, <2>5 DEF CanCallback, Decoded, Genuine
    <2>7. c.lt \in Nat \ {0} /\ c.hash \in Nat \ {0}
      BY <2>1, <2>3
    <2>8. ClosesClaim(AfterCallback(v, c.source, c), v, c.source, c)
      BY <2>1, <2>7, CallbackValid
    <2> QED BY <2>6, <2>8 DEF ClosesClaim
  <1> QED BY <1>1, Invariance, PTL

(* State::validate never refuses what a handler's own checks permit.        *)
THEOREM FinishSucceeds == Spec => []FinishNeverFails
  <1>1. IInv => FinishNeverFails
    <2> SUFFICES ASSUME IInv PROVE FinishNeverFails
      OBVIOUS
    <2>1. v \in States /\ validate(v) /\ now \in Nat /\ block_lt \in Nat
      BY DEF IInv, TypeOK, BooksInv
    <2>2. ASSUME NEW amount \in Deposits, CanDeposit(amount)
          PROVE  validate(WithDeposit(v, amount))
      BY <2>1, <2>2, ActorAssumption, DepositValid DEF CanDeposit, RaisesClaims
    <2>3. ASSUME NEW i \in Members, CanClaim(Keys[i], i) PROVE validate(WithClaim(v, i, block_lt))
      BY <2>1, <2>3, ClaimValid DEF CanClaim, OpensClaim
    <2>4. ASSUME NEW m \in Managers, NEW b \in Bodies, CanPropose(m, b, now)
          PROVE  validate(WithProposal(v, m, b, now))
      BY <2>1, <2>4, ProposeValid DEF CanPropose, SameBooks
    <2>5. ASSUME NEW m \in Managers, NEW b \in Bodies, CanVote(m, b) PROVE validate(WithVote(v, m))
      <3>1. v.proposal.body.nonce # 0
        BY <2>5 DEF CanVote, BodyValid
      <3> QED BY <2>1, <3>1, VoteValid DEF SameBooks
    <2>6. ASSUME CanExecute(v.proposal.body.nonce) PROVE validate(WithExecution(v))
      BY <2>1, <2>6, ExecutionValid DEF CanExecute, SameBooks
    <2>7. ASSUME NEW m \in Managers, NEW nonce \in 1..MaxU64, NEW a \in Ballots
          PROVE  LET b == [nonce |-> nonce, action |-> a[1], value |-> a[2]] IN
                 /\ CanPropose(m, b, now) => validate(WithProposal(v, m, b, now))
                 /\ CanVote(m, b) => validate(WithVote(v, m))
      BY BallotType, <2>4, <2>5
    <2> QED BY <2>1, <2>2, <2>3, <2>6, <2>7 DEF FinishNeverFails
  <1> QED BY <1>1, Invariance, PTL

(* Governance stays open: what two managers backed can be executed through  *)
(* the whole vote window, and within Delay + VoteWindow every manager may    *)
(* propose again, whatever became of the proposals before.                   *)
THEOREM StaysOpen == Spec => []GovernanceStaysOpen
  <1>1. ASSUME IInv PROVE SupportCounts
    <2> DEFINE p == v.proposal
    <2> SUFFICES ASSUME Cardinality(Supporters(p.body)) >= 2, p.created + Delay <= now,
                        now < p.created + Delay + VoteWindow
                 PROVE  CanExecute(p.body.nonce)
      BY DEF SupportCounts
    <2>1. v \in States /\ validate(v) /\ p \in Proposals
      BY <1>1, StateType DEF IInv, TypeOK, BooksInv
    <2>2. PICK m \in Managers : <<m, p.body>> \in support
      <3>1. Supporters(p.body) # {}
        BY FS_EmptySet
      <3> QED BY <3>1 DEF Supporters
    <2>3. p.body.nonce \in 1..v.proposal_nonce /\ v.proposal_nonce \in Nat
      BY <1>1, <2>1, <2>2, StateType DEF IInv, SupportInv
    <2>4. deployed
      BY <1>1, <2>3 DEF IInv, BooksInv, NewState
    <2>5. p.votes = Supporters(p.body)
      BY <1>1, <2>1, <2>3 DEF IInv, SupportInv, Supporters, Proposals
    <2>6. p.ready = p.created + Delay /\ p.expires = p.ready + VoteWindow
      BY <2>1, <2>3 DEF validate, ProposalValid
    <2> QED BY <2>1, <2>3, <2>4, <2>5, <2>6 DEF CanExecute, Decoded
  <1>2. ASSUME IInv PROVE GovernanceReopens
    <2> DEFINE made == Cardinality(Proposed)
               next == made + 1
               p == v.proposal
    <2> SUFFICES ASSUME deployed, made < MaxU64, now + 2 * (Delay + VoteWindow) <= MaxU32
                 PROVE  \A m \in Managers, a \in Ballots :
                          LET b == [nonce |-> next, action |-> a[1], value |-> a[2]]
                          IN BodyValid(b) =>
                               \E t \in now..(now + Delay + VoteWindow) : CanPropose(m, b, t)
      BY Zenon DEF GovernanceReopens
    <2> TAKE m \in Managers, a \in Ballots
    <2> DEFINE b == [nonce |-> next, action |-> a[1], value |-> a[2]]
               t == IF p.body.nonce # 0 /\ p.expires > now THEN p.expires ELSE now
    <2> SUFFICES ASSUME BodyValid(b)
                 PROVE  \E u \in now..(now + Delay + VoteWindow) : CanPropose(m, b, u)
      OBVIOUS
    <2>1. v \in States /\ validate(v) /\ now \in Nat /\ p \in Proposals /\ v.proposal_nonce \in Nat
      BY <1>2, StateType DEF IInv, TypeOK, BooksInv
    <2>2. /\ Delay \in Nat /\ VoteWindow \in Nat /\ MaxU32 \in Nat /\ MaxU64 \in Nat
          /\ p.created \in Nat /\ p.expires \in Nat
      BY <2>1, ConfigAssumption, WidthAssumption DEF ConfigValid, Proposals
    <2>3. next = v.proposal_nonce + 1 /\ b.nonce = next /\ next <= MaxU64
      BY <1>2, <2>1, <2>2 DEF IInv, SupportInv
    <2>4. p.body.nonce # 0 => p.expires = p.created + Delay + VoteWindow /\ p.created <= now
      BY <1>2, <2>1 DEF IInv, SupportInv, validate, ProposalValid
    <2>5. t \in now..(now + Delay + VoteWindow) /\ t + Delay + VoteWindow <= MaxU32
      BY <2>1, <2>2, <2>4
    <2>6. p.body.nonce = 0 \/ t >= p.expires
      BY <2>1, <2>2
    <2> HIDE DEF b, t, next
    <2>7. CanPropose(m, b, t)
      BY <2>1, <2>3, <2>5, <2>6 DEF CanPropose, Decoded, b
    <2> QED BY <2>5, <2>7
  <1> QED BY <1>1, <1>2, Invariance, PTL DEF GovernanceStaysOpen

(* Nothing but the execution of a proposal pauses, resumes or changes the   *)
(* reserve, and its votes were cast for its words by different managers.    *)
THEOREM ChangesAuthorized == Spec => ChangeAuthorized
  <1> DEFINE A == v'.paused # v.paused \/ v'.fuel_limit # v.fuel_limit =>
                    LET b == v.proposal.body IN
                    /\ Cardinality(Supporters(b)) >= 2
                    /\ v.proposal.created + Delay <= now
                    /\ now < v.proposal.created + Delay + VoteWindow
                    /\ v' = WithExecution(v)
                    /\ v'.proposal_nonce >= b.nonce /\ v'.proposal.body.nonce = 0
  <1>1. IInv /\ [Next]_vars => A
    <2> SUFFICES ASSUME IInv, [Next]_vars, v'.paused # v.paused \/ v'.fuel_limit # v.fuel_limit
                 PROVE  A
      OBVIOUS
    <2>0. v \in States /\ validate(v) /\ now \in Nat
      BY DEF IInv, TypeOK, BooksInv
    <2>1. ASSUME NEW nonce, Execute(nonce) PROVE A
      <3> DEFINE p == v.proposal
                 supporters == Supporters(p.body)
      <3>1. /\ p.body.nonce # 0 /\ Cardinality(p.votes) >= 2 /\ now >= p.ready /\ now < p.expires
            /\ v' = WithExecution(v)
        BY <2>1 DEF Execute, CanExecute, finish
      <3>2. p.votes \subseteq supporters
        BY <2>0, <3>1, StateType DEF IInv, SupportInv, Proposals, Supporters
      <3>3. IsFiniteSet(supporters)
        BY ActorAssumption, FS_Subset DEF PartiesValid, Supporters
      <3>4. Cardinality(p.votes) <= Cardinality(supporters) /\ Cardinality(supporters) \in Nat
            /\ Cardinality(p.votes) \in Nat
        BY <3>2, <3>3, FS_Subset, FS_CardinalityType
      <3>5. Cardinality(supporters) >= 2
        BY <3>1, <3>4
      <3>6. /\ p.ready = p.created + Delay /\ p.expires = p.ready + VoteWindow
            /\ p.body.nonce = v.proposal_nonce
        BY <2>0, <3>1 DEF validate, ProposalValid
      <3>7. v'.proposal = NoProposal /\ v'.proposal_nonce = v.proposal_nonce
        BY <2>0, <3>1, ExecutionValid
      <3>8. v'.proposal_nonce >= p.body.nonce /\ v'.proposal.body.nonce = 0
        BY <2>0, <3>6, <3>7, StateType DEF NoProposal
      <3>9. p.created + Delay <= now /\ now < p.created + Delay + VoteWindow
        BY <3>1, <3>6
      <3> QED BY <3>1, <3>5, <3>8, <3>9
    <2>2. ASSUME NEW m, NEW b \in Bodies, Propose(m, b) PROVE FALSE
      BY <2>0, <2>2, ProposeValid DEF Propose, CanPropose, finish
    <2>3. ASSUME NEW m, NEW b \in Bodies, Vote(m, b) PROVE FALSE
      <3>1. v.proposal.body.nonce # 0 /\ m \in Managers /\ v' = WithVote(v, m)
        BY <2>3 DEF Vote, CanVote, BodyValid, finish
      <3> QED BY <2>0, <3>1, VoteValid
    <2>4. ASSUME NEW amount \in Deposits, NEW donation, Deposit(amount, donation) PROVE FALSE
      BY <2>0, <2>4, ActorAssumption, DepositValid DEF Deposit, CanDeposit, finish, RaisesClaims
    <2>5. ASSUME NEW actor, NEW i \in Members, Claim(actor, i) PROVE FALSE
      <3>1. OpensClaim(v', v, i, block_lt)
        BY <2>0, <2>5, Quiet, ClaimValid DEF Claim, CanClaim, finish
      <3> QED BY <3>1 DEF OpensClaim, MemberReplaced
    <2>6. ASSUME NEW c \in callbacks, Callback(c) PROVE FALSE
      <3>1. c.source \in Members /\ c.ok \in BOOLEAN /\ c.lt \in Nat \ {0} /\ c.hash \in Nat \ {0}
        BY <2>0, StateType DEF IInv, TypeOK, CallbackInv, CallbackRecords
      <3>2. ClosesClaim(v', v, c.source, c)
        BY <2>0, <2>6, <3>1, CallbackValid DEF Callback, finish
      <3> QED BY <3>2 DEF ClosesClaim, MemberReplaced
    <2>7. CASE v' = v
      BY <2>7
    <2>8. CASE UNCHANGED vars
      BY <2>7, <2>8 DEF vars, vault
    <2>9. CASE Users
      <3>1. ASSUME NEW actor, Initialize(actor) PROVE v' = v
        BY <3>1 DEF Initialize, finish, IInv, BooksInv
      <3>2. ASSUME NEW amount, TopUp(amount) PROVE v' = v
        BY <3>2 DEF TopUp, finish
      <3>3. ASSUME NEW i, NEW source, Bind(i, source) PROVE v' = v
        BY <3>3 DEF Bind, vault
      <3>4. ASSUME NEW i, NEW flag, SetReject(i, flag) \/ SetDuplicate(i, flag) PROVE v' = v
        BY <3>4 DEF SetReject, SetDuplicate, vault
      <3> QED BY <2>4, <2>5, <2>7, <2>9, <3>1, <3>2, <3>3, <3>4 DEF Users
    <2>10. CASE Governance
      BY <2>1, <2>2, <2>3, <2>10, BallotType DEF Governance
    <2>11. CASE Runtime
      <3>1. ASSUME NEW m, DeliverOk(m) \/ DeliverFailed(m) PROVE v' = v
        BY <3>1 DEF DeliverOk, DeliverFailed, vault
      <3>2. ASSUME NewBlock PROVE v' = v
        BY <3>2 DEF NewBlock, vault
      <3> QED BY <2>6, <2>7, <2>11, <3>1, <3>2 DEF Runtime
    <2> QED BY <2>8, <2>9, <2>10, <2>11 DEF Next
  <1>2. A => [A]_vars
    OBVIOUS
  <1> QED BY <1>1, Invariance, PTL DEF Spec, ChangeAuthorized

----------------------------------------------------------------------------
(***************************************************************************)
(* Vault, receivers and runtime implement the promise: an offer stands     *)
(* from the claim until the receiver accepts it or the vault learns that   *)
(* it did not.                                                             *)
(***************************************************************************)
OfferedTo(i) == IF Landed(i) THEN 0 ELSE v.members[i].pending

(* What the promise does not see.                                           *)
Unseen ==
    /\ v'.received = v.received
    /\ \A i \in Members : OfferedTo(i)' = OfferedTo(i) /\ rcv'[i].received = rcv[i].received

LEMMA UnseenStutters == ASSUME Unseen PROVE UNCHANGED Promise!vars
  <1>1. /\ [i \in Members |-> IF Landed(i) THEN 0 ELSE v.members[i].pending]
             = [i \in Members |-> OfferedTo(i)]
        /\ [i \in Members |-> IF Landed(i) THEN 0 ELSE v.members[i].pending]'
             = [i \in Members |-> OfferedTo(i)']
    BY DEF OfferedTo
  <1>2. /\ [i \in Members |-> OfferedTo(i)'] = [i \in Members |-> OfferedTo(i)]
        /\ [i \in Members |-> rcv[i].received]' = [i \in Members |-> rcv[i].received]
    BY DEF Unseen
  <1> QED BY <1>1, <1>2 DEF Promise!vars, Unseen

LEMMA SameClaimsUnseen ==
  ASSUME IInv, SameClaims, v'.received = v.received,
         \A i \in Members : rcv'[i].received = rcv[i].received
  PROVE  UNCHANGED Promise!vars
  <1>1. \A i \in Members : OfferedTo(i)' = OfferedTo(i)
    BY SameLanded DEF OfferedTo, SameClaims, SameAttempt
  <1> QED BY <1>1, UnseenStutters DEF Unseen

LEMMA PromiseInit == Init => Promise!Init
  <1> SUFFICES ASSUME Init PROVE Promise!Init
    OBVIOUS
  <1>1. v.received = 0 /\ \A i \in Members : v.members[i].pending = 0 /\ rcv[i].received = 0
    BY DEF Init, NewState, NewMember, NewReceiver
  <1>2. \A i \in Members : ~Landed(i)
    BY DEF Init, Landed
  <1>3. [i \in Members |-> IF Landed(i) THEN 0 ELSE v.members[i].pending] = [i \in Members |-> 0]
    BY <1>1, <1>2
  <1>4. [i \in Members |-> rcv[i].received] = [i \in Members |-> 0]
    BY <1>1
  <1> QED BY <1>1, <1>3, <1>4 DEF Promise!Init

LEMMA DepositKept ==
  ASSUME IInv, NEW amount \in Deposits, NEW donation, Deposit(amount, donation)
  PROVE  Promise!Deposit
  <1>1. v \in States /\ validate(v) /\ amount \in Nat \ {0} /\ v.received + amount <= MaxU128
    BY ActorAssumption DEF IInv, TypeOK, BooksInv, Deposit, CanDeposit
  <1>2. RaisesClaims(v', v, amount)
    BY <1>1, DepositValid DEF Deposit, finish
  <1>3. v'.received > v.received
    BY <1>1, <1>2, StateType DEF RaisesClaims
  <1>4. \A i \in Members : v'.members[i].pending = v.members[i].pending
                           /\ v'.members[i].nonce = v.members[i].nonce
    <2> SUFFICES ASSUME NEW i \in Members, NEW n \in Nat,
                        v'.members[i] = [v.members[i] EXCEPT !.claimable = n]
                 PROVE  v'.members[i].pending = v.members[i].pending
                        /\ v'.members[i].nonce = v.members[i].nonce
      BY <1>2 DEF RaisesClaims
    <2> DEFINE m == v.members[i]
    <2>1. m \in Member0
      BY <1>1, StateType
    <2> HIDE DEF m
    <2>2. v'.members[i] = [m EXCEPT !.claimable = n]
      BY DEF m
    <2> QED BY <2>1, <2>2 DEF Member0, m
  <1>5. callbacks' = callbacks /\ rcv' = rcv
    BY DEF Deposit
  <1>6. \A i \in Members : Landed(i)' = Landed(i)
    BY <1>4, <1>5 DEF Landed, Outstanding
  <1>7. [i \in Members |-> IF Landed(i) THEN 0 ELSE v.members[i].pending]'
          = [i \in Members |-> IF Landed(i) THEN 0 ELSE v.members[i].pending]
    BY <1>4, <1>6
  <1> QED BY <1>3, <1>5, <1>7 DEF Promise!Deposit

(* A claim offers the member all that its share of the revenue still lacks. *)
LEMMA ClaimKept ==
  ASSUME IInv, NEW actor, NEW i \in Members, Claim(actor, i) PROVE Promise!Claim(i)
  <1> DEFINE x == v.members[i]
             entitled == Promise!Entitled(i)
             offered == [j \in Members |-> IF Landed(j) THEN 0 ELSE v.members[j].pending]
             credited == [j \in Members |-> rcv[j].received]
  <1>1. ClaimEffect(i) /\ rcv' = rcv
    BY ClaimOpens DEF Claim
  <1>2. /\ x.claimable \in Nat \ {0} /\ x.pending = 0 /\ v'.members[i].pending = x.claimable
        /\ v'.received = v.received
        /\ ~Landed(i)' /\ ~Landed(i)
        /\ \A j \in Members \ {i} : Landed(j)' = Landed(j) /\ v'.members[j] = v.members[j]
    BY <1>1 DEF ClaimEffect
  <1>3. /\ rcv[i].received = x.paid /\ x.paid \in Nat
        /\ x.paid + x.claimable + x.pending = (v.received * Weights[i]) \div DENOMINATOR
    <2>1. x.paid \in Nat
      BY StateType DEF IInv, TypeOK
    <2> QED BY <1>2, <2>1 DEF IInv, LedgerAgrees, Share
  <1>4. entitled = (v.received * Weights[i]) \div DENOMINATOR
    BY DEF Promise!Entitled
  <1>5. offered[i] = 0 /\ credited[i] = x.paid
    BY <1>2, <1>3
  <1> HIDE DEF x, entitled
  <1>6. entitled - credited[i] = x.claimable /\ credited[i] < entitled
    BY <1>2, <1>3, <1>4, <1>5 DEF x
  <1>7. offered' = [offered EXCEPT ![i] = entitled - credited[i]]
    <2>1. /\ OfferedTo(i)' = x.claimable /\ \A j \in Members \ {i} : OfferedTo(j)' = OfferedTo(j)
      BY <1>2 DEF OfferedTo, x
    <2>2. offered = [j \in Members |-> OfferedTo(j)] /\ offered' = [j \in Members |-> OfferedTo(j)']
      BY DEF OfferedTo
    <2> HIDE DEF offered, credited
    <2> QED BY <1>6, <2>1, <2>2
  <1> QED BY <1>1, <1>2, <1>5, <1>6, <1>7 DEF Promise!Claim, entitled

LEMMA DeliverOkKept ==
  ASSUME IInv, NEW m \in transit, DeliverOk(m) PROVE Promise!Credit(m.to)
  <1> DEFINE i == m.to
             x == v.members[m.to]
             offered == [j \in Members |-> IF Landed(j) THEN 0 ELSE v.members[j].pending]
             credited == [j \in Members |-> rcv[j].received]
  <1>1. PICK unused \in 0..m.reserve : callbacks' = callbacks \cup {CallbackOf(m, TRUE, unused)}
    BY DEF DeliverOk
  <1>2. v' = v /\ rcv' = [rcv EXCEPT ![i] = WithReceived(@, m.body)]
    BY DEF DeliverOk, vault
  <1>3. /\ i \in Members /\ x.pending \in Nat \ {0} /\ m.body.amount = x.pending
        /\ ~Landed(i) /\ Landed(i)' /\ \A j \in Members \ {i} : Landed(j)' = Landed(j)
    BY <1>1, <1>2, DeliverEffect
  <1>4. offered[i] = x.pending /\ offered[i] # 0
    BY <1>3
  <1>5. offered' = [offered EXCEPT ![i] = 0]
    BY <1>2, <1>3
  <1>6. credited' = [credited EXCEPT ![i] = @ + offered[i]]
    <2>1. rcv \in [Members -> Receivers]
      BY DEF IInv, TypeOK
    <2>2. /\ rcv'[i].received = rcv[i].received + x.pending
          /\ \A j \in Members \ {i} : rcv'[j] = rcv[j]
      <3>1. rcv'[i] = WithReceived(rcv[i], m.body)
        BY <1>2, <1>3, <2>1
      <3>2. WithReceived(rcv[i], m.body).received = rcv[i].received + m.body.amount
        BY <1>3, <2>1 DEF WithReceived, Receivers
      <3> QED BY <1>2, <1>3, <2>1, <3>1, <3>2
    <2>3. credited' = [j \in Members |-> rcv'[j].received]
      OBVIOUS
    <2> HIDE DEF offered
    <2> QED BY <1>3, <1>4, <2>2, <2>3
  <1> QED BY <1>2, <1>4, <1>5, <1>6 DEF Promise!Credit

LEMMA DeliverFailedKept ==
  ASSUME IInv, NEW m \in transit, DeliverFailed(m) PROVE UNCHANGED Promise!vars
  <1>1. PICK unused \in 0..m.reserve : callbacks' = callbacks \cup {CallbackOf(m, FALSE, unused)}
    BY DEF DeliverFailed
  <1>2. v' = v /\ rcv' = rcv
    BY DEF DeliverFailed, vault
  <1>3. ~Landed(m.to) /\ (Landed(m.to)' <=> FALSE)
        /\ \A i \in Members \ {m.to} : Landed(i)' = Landed(i)
    BY <1>1, <1>2, DeliverEffect
  <1>4. Unseen
    BY <1>2, <1>3 DEF Unseen, OfferedTo
  <1> QED BY <1>4, UnseenStutters

(* The callback of a landed payment changes nothing the promise sees; the   *)
(* callback of a failed one withdraws the offer.                            *)
LEMMA CallbackKept ==
  ASSUME IInv, NEW c \in callbacks, Callback(c)
  PROVE  Promise!Withdraw(c.source) \/ UNCHANGED Promise!vars
  <1> DEFINE i == c.source
             pending == v.members[c.source].pending
             offered == [j \in Members |-> IF Landed(j) THEN 0 ELSE v.members[j].pending]
  <1>1. CallbackEffect(c) /\ rcv' = rcv /\ i \in Members
    BY CallbackCloses DEF Callback, IInv, TypeOK, CallbackRecords
  <1>2. /\ pending \in Nat \ {0} /\ v'.received = v.received
        /\ v'.members[i].pending = 0 /\ ~Landed(i)' /\ (Landed(i) <=> c.ok)
        /\ \A j \in Members \ {i} : Landed(j)' = Landed(j) /\ v'.members[j] = v.members[j]
    BY <1>1 DEF CallbackEffect
  <1>3. OfferedTo(i)' = 0 /\ \A j \in Members \ {i} : OfferedTo(j)' = OfferedTo(j)
    BY <1>2 DEF OfferedTo
  <1>4. CASE c.ok
    <2>1. OfferedTo(i) = 0
      BY <1>2, <1>4 DEF OfferedTo
    <2>2. Unseen
      BY <1>1, <1>2, <1>3, <2>1 DEF Unseen
    <2> QED BY <2>2, UnseenStutters
  <1>5. CASE ~c.ok
    <2>1. offered[i] # 0
      BY <1>1, <1>2, <1>5
    <2>2. offered' = [offered EXCEPT ![i] = 0]
      <3>1. offered = [j \in Members |-> OfferedTo(j)] /\ offered' = [j \in Members |-> OfferedTo(j)']
        BY DEF OfferedTo
      <3> HIDE DEF offered, i
      <3> QED BY <1>1, <1>3, <3>1
    <2>3. Promise!Withdraw(i)
      BY <1>1, <1>2, <2>1, <2>2 DEF Promise!Withdraw
    <2> QED BY <2>3
  <1> QED BY <1>4, <1>5

LEMMA GovernanceStutters ==
  ASSUME IInv, SameBooks(v', v), UNCHANGED <<block_lt, lt, transit, callbacks, rcv>>
  PROVE  UNCHANGED Promise!vars
  <1>1. SameClaims /\ v'.received = v.received
    BY Quiet DEF SameBooks, SameClaims, SameAttempt
  <1> QED BY <1>1, SameClaimsUnseen

LEMMA VaultStutters ==
  ASSUME IInv, v' = v, callbacks' = callbacks, \A i \in Members : rcv'[i].received = rcv[i].received
  PROVE  UNCHANGED Promise!vars
  <1>1. \A i \in Members : OfferedTo(i)' = OfferedTo(i)
    BY DEF OfferedTo, Landed, Outstanding
  <1> QED BY <1>1, UnseenStutters DEF Unseen

LEMMA PromiseStep == IInv /\ [Next]_vars => [Promise!Next]_(Promise!vars)
  <1> SUFFICES ASSUME IInv, [Next]_vars PROVE [Promise!Next]_(Promise!vars)
    OBVIOUS
  <1>0. v \in States /\ validate(v) /\ now \in Nat
    BY DEF IInv, TypeOK, BooksInv
  <1>1. CASE UNCHANGED vars
    BY <1>1, VaultStutters DEF vars, vault
  <1>2. ASSUME NEW actor, Initialize(actor) PROVE UNCHANGED Promise!vars
    <2>1. v' = v
      BY <1>2 DEF Initialize, finish, IInv, BooksInv
    <2> QED BY <1>2, <2>1, VaultStutters DEF Initialize
  <1>3. ASSUME NEW amount, TopUp(amount) PROVE UNCHANGED Promise!vars
    BY <1>3, VaultStutters DEF TopUp, finish
  <1>4. ASSUME NEW amount \in Deposits, NEW donation, Deposit(amount, donation)
        PROVE  Promise!Next
    BY <1>4, DepositKept DEF Promise!Next
  <1>5. ASSUME NEW actor, NEW i \in Members, Claim(actor, i) PROVE Promise!Next
    BY <1>5, ClaimKept DEF Promise!Next
  <1>6. ASSUME NEW i \in Members, NEW source, Bind(i, source) PROVE UNCHANGED Promise!vars
    <2>1. \A j \in Members : rcv'[j].received = rcv[j].received
      BY <1>6 DEF Bind, IInv, TypeOK, Receivers
    <2> QED BY <1>6, <2>1, VaultStutters DEF Bind, vault
  <1>7. ASSUME NEW i \in Members, NEW flag, SetReject(i, flag) \/ SetDuplicate(i, flag)
        PROVE  UNCHANGED Promise!vars
    <2>1. \A j \in Members : rcv'[j].received = rcv[j].received
      BY <1>7 DEF SetReject, SetDuplicate, IInv, TypeOK, Receivers
    <2> QED BY <1>7, <2>1, VaultStutters DEF SetReject, SetDuplicate, vault
  <1>8. ASSUME NEW m, NEW b \in Bodies, Propose(m, b) PROVE UNCHANGED Promise!vars
    <2>1. SameBooks(v', v)
      BY <1>0, <1>8, ProposeValid DEF Propose, CanPropose, finish
    <2> QED BY <1>8, <2>1, GovernanceStutters DEF Propose, clock
  <1>9. ASSUME NEW m, NEW b \in Bodies, Vote(m, b) PROVE UNCHANGED Promise!vars
    <2>1. v.proposal.body.nonce # 0 /\ m \in Managers /\ v' = WithVote(v, m)
      BY <1>9 DEF Vote, CanVote, BodyValid, finish
    <2>2. SameBooks(v', v)
      BY <1>0, <2>1, VoteValid
    <2> QED BY <1>9, <2>2, GovernanceStutters DEF Vote, clock
  <1>10. ASSUME NEW nonce, Execute(nonce) PROVE UNCHANGED Promise!vars
    <2>1. SameBooks(v', v)
      BY <1>0, <1>10, ExecutionValid DEF Execute, CanExecute, finish
    <2> QED BY <1>10, <2>1, GovernanceStutters DEF Execute, clock
  <1>11. ASSUME NEW m \in transit, DeliverOk(m) PROVE Promise!Next
    <2>1. m.to \in Members
      BY DEF IInv, TypeOK, Messages
    <2> QED BY <1>11, <2>1, DeliverOkKept DEF Promise!Next
  <1>12. ASSUME NEW m \in transit, DeliverFailed(m) PROVE UNCHANGED Promise!vars
    BY <1>12, DeliverFailedKept
  <1>13. ASSUME NEW c \in callbacks, Callback(c) PROVE [Promise!Next]_(Promise!vars)
    <2>1. c.source \in Members
      BY DEF IInv, TypeOK, CallbackRecords
    <2> QED BY <1>13, <2>1, CallbackKept DEF Promise!Next
  <1>14. ASSUME NewBlock PROVE UNCHANGED Promise!vars
    BY <1>14, VaultStutters DEF NewBlock, vault
  <1>15. CASE Users
    BY <1>2, <1>3, <1>4, <1>5, <1>6, <1>7, <1>15 DEF Users
  <1>16. CASE Governance
    BY <1>8, <1>9, <1>10, <1>16, BallotType DEF Governance
  <1>17. CASE Runtime
    BY <1>11, <1>12, <1>13, <1>14, <1>17 DEF Runtime
  <1> QED BY <1>1, <1>15, <1>16, <1>17 DEF Next

(* Every step of vault, receivers and runtime is one atomic step of the     *)
(* promise, or changes nothing it can see: a claim offers a member all its  *)
(* share still lacks, and the offer is credited once and whole, or          *)
(* withdrawn.                                                               *)
THEOREM KeepsPromise == Spec => ImplementsPromise
  <1>1. IInv /\ [Next]_vars => [Promise!Next]_(Promise!vars)
    BY PromiseStep
  <1> QED BY <1>1, PromiseInit, Invariance, PTL DEF Spec, ImplementsPromise, Promise!Spec

----------------------------------------------------------------------------
(***************************************************************************)
(* Folds.                                                                  *)
(***************************************************************************)

(* A set of naturals with zero and the successor of each member is all.     *)
LEMMA CountingUp ==
  ASSUME NEW T, T \subseteq Nat, 0 \in T, \A n \in T : n + 1 \in T
  PROVE  T = Nat
  <1> SUFFICES ASSUME Nat \ T # {} PROVE FALSE
    OBVIOUS
  <1>1. PICK x \in Nat \ T : \A y \in Nat \ T : <<y, x>> \notin OpToRel(<, Nat)
    BY NatLessThanWellFounded, WFMin
  <1>2. x - 1 \in Nat /\ x - 1 < x
    OBVIOUS
  <1>3. x - 1 \in T
    BY <1>1, <1>2 DEF OpToRel
  <1>4. (x - 1) + 1 = x
    OBVIOUS
  <1> QED BY <1>1, <1>3, <1>4

(* What holds of every part of D whose smaller parts have it holds of all.  *)
LEMMA PartByPart ==
  ASSUME NEW D, IsFiniteSet(D), NEW T,
         \A s \in SUBSET D : (\A t \in SUBSET s : t # s => t \in T) => s \in T
  PROVE  \A s \in SUBSET D : s \in T
  <1> DEFINE N == {n \in Nat : \A s \in SUBSET D : Cardinality(s) <= n => s \in T}
  <1>1. \A s \in SUBSET D : IsFiniteSet(s) /\ Cardinality(s) \in Nat /\ Cardinality(s) <= Cardinality(D)
    BY FS_Subset, FS_CardinalityType
  <1>2. \A s \in SUBSET D : \A t \in SUBSET s : t # s => Cardinality(t) < Cardinality(s)
    <2> TAKE s \in SUBSET D
    <2> TAKE t \in SUBSET s
    <2>1. Cardinality(t) <= Cardinality(s) /\ (Cardinality(s) = Cardinality(t) => s = t)
      BY <1>1, FS_Subset
    <2>2. t \in SUBSET D
      OBVIOUS
    <2> QED BY <1>1, <2>1, <2>2
  <1>3. 0 \in N
    <2> SUFFICES ASSUME NEW s \in SUBSET D, Cardinality(s) <= 0 PROVE s \in T
      OBVIOUS
    <2>1. \A t \in SUBSET s : t # s => FALSE
      <3> SUFFICES ASSUME NEW t \in SUBSET s, t # s PROVE FALSE
        OBVIOUS
      <3>1. Cardinality(t) < Cardinality(s) /\ Cardinality(t) \in Nat /\ Cardinality(s) \in Nat
        BY <1>1, <1>2
      <3> QED BY <3>1
    <2> QED BY <2>1
  <1>4. ASSUME NEW n \in N PROVE n + 1 \in N
    <2>1. n \in Nat /\ \A s \in SUBSET D : Cardinality(s) <= n => s \in T
      OBVIOUS
    <2> SUFFICES ASSUME NEW s \in SUBSET D, Cardinality(s) <= n + 1 PROVE s \in T
      BY <2>1
    <2>2. \A t \in SUBSET s : t # s => t \in T
      <3> SUFFICES ASSUME NEW t \in SUBSET s, t # s PROVE t \in T
        OBVIOUS
      <3>1. /\ t \in SUBSET D /\ Cardinality(t) < Cardinality(s)
            /\ Cardinality(t) \in Nat /\ Cardinality(s) \in Nat
        BY <1>1, <1>2
      <3> QED BY <2>1, <3>1
    <2> QED BY <2>2
  <1> HIDE DEF N
  <1>5. N = Nat
    <2>1. N \subseteq Nat
      BY DEF N
    <2> QED BY <1>3, <1>4, <2>1, CountingUp
  <1>6. Cardinality(D) \in N
    BY <1>1, <1>5
  <1> QED BY <1>1, <1>6 DEF N

(* c chooses an element of every part of D that has one.                    *)
Chooses(c, D) == \A s \in SUBSET D : s # {} => c[s] \in s

(* f folds G over the parts of D, taking first the element c chooses.       *)
Folds(f, D, c, base, G) ==
    /\ f[{}] = base
    /\ \A s \in SUBSET D : s # {} => f[s] = G[<<c[s], f[s \ {c[s]}]>>]

LEMMA FoldExists ==
  ASSUME NEW D, IsFiniteSet(D), NEW c, Chooses(c, D),
         NEW R, NEW base \in R, NEW G \in [D \X R -> R]
  PROVE  \E f \in [SUBSET D -> R] : Folds(f, D, c, base, G)
  <1> DEFINE UpTo(f, n) == \A s \in SUBSET D : s # {} /\ Cardinality(s) <= n =>
                              f[s] = G[<<c[s], f[s \ {c[s]}]>>]
             N == {n \in Nat : \E f \in [SUBSET D -> R] : f[{}] = base /\ UpTo(f, n)}
  <1>1. \A s \in SUBSET D : /\ IsFiniteSet(s) /\ Cardinality(s) \in Nat
                            /\ Cardinality(s) <= Cardinality(D)
    BY FS_Subset, FS_CardinalityType
  <1>2. \A s \in SUBSET D : s # {} =>
          /\ c[s] \in D /\ s \ {c[s]} \in SUBSET D
          /\ Cardinality(s \ {c[s]}) = Cardinality(s) - 1
    BY <1>1, FS_RemoveElement DEF Chooses
  <1>3. 0 \in N
    <2> DEFINE f == [s \in SUBSET D |-> base]
    <2>1. f \in [SUBSET D -> R] /\ f[{}] = base
      OBVIOUS
    <2>2. ASSUME NEW s \in SUBSET D, s # {}, Cardinality(s) <= 0 PROVE FALSE
      <3>1. Cardinality(s \ {c[s]}) \in Nat /\ Cardinality(s \ {c[s]}) = Cardinality(s) - 1
        BY <1>1, <1>2, <2>2
      <3> QED BY <1>1, <2>2, <3>1
    <2> HIDE DEF f
    <2>3. UpTo(f, 0)
      BY <2>2
    <2> QED BY <2>1, <2>3
  <1>4. ASSUME NEW n \in N PROVE n + 1 \in N
    <2>1. PICK f \in [SUBSET D -> R] : f[{}] = base /\ UpTo(f, n)
      OBVIOUS
    <2> DEFINE g == [s \in SUBSET D |-> IF s = {} THEN base ELSE G[<<c[s], f[s \ {c[s]}]>>]]
    <2>2. g \in [SUBSET D -> R] /\ g[{}] = base
      <3>1. ASSUME NEW s \in SUBSET D, s # {} PROVE G[<<c[s], f[s \ {c[s]}]>>] \in R
        <4>1. c[s] \in D /\ f[s \ {c[s]}] \in R
          BY <1>2, <3>1
        <4>2. <<c[s], f[s \ {c[s]}]>> \in D \X R
          BY <4>1
        <4> QED BY <4>2
      <3> QED BY <3>1
    <2>3. ASSUME NEW s \in SUBSET D, s # {}, Cardinality(s) <= n + 1
          PROVE  g[s] = G[<<c[s], g[s \ {c[s]}]>>]
      <3> DEFINE r == s \ {c[s]}
      <3>1. n \in Nat /\ r \in SUBSET D /\ Cardinality(r) <= n
        BY <1>1, <1>2, <2>3
      <3>2. g[s] = G[<<c[s], f[r]>>]
        BY <2>3
      <3>3. g[r] = f[r]
        <4>1. CASE r = {}
          BY <4>1, <2>1, <2>2
        <4>2. CASE r # {}
          BY <4>2, <2>1, <3>1
        <4> QED BY <4>1, <4>2
      <3> QED BY <3>2, <3>3
    <2>4. n + 1 \in Nat
      OBVIOUS
    <2> HIDE DEF g
    <2>5. UpTo(g, n + 1)
      BY <2>3
    <2> QED BY <2>2, <2>4, <2>5
  <1> HIDE DEF N
  <1>5. N = Nat
    <2>1. N \subseteq Nat
      BY DEF N
    <2> QED BY <1>3, <1>4, <2>1, CountingUp
  <1>6. Cardinality(D) \in N
    BY <1>1, <1>5
  <1>7. PICK f \in [SUBSET D -> R] : f[{}] = base /\ UpTo(f, Cardinality(D))
    BY <1>6 DEF N
  <1> QED BY <1>1, <1>7 DEF Folds

(* g takes the same steps over the parts of E, as long as it stays in R.     *)
Follows(g, E, c, base, G, R) ==
    /\ g[{}] = base
    /\ \A s \in SUBSET E : s # {} /\ g[s \ {c[s]}] \in R =>
         g[s] = G[<<c[s], g[s \ {c[s]}]>>]

Agree(g, f, E) == \A s \in SUBSET E : g[s] = f[s]

FoldOver(f, D, c, base, G, R) ==
    /\ IsFiniteSet(D) /\ Chooses(c, D) /\ base \in R
    /\ f \in [SUBSET D -> R] /\ Folds(f, D, c, base, G)

(* Whatever chooses and steps alike over part of D has the fold's values.    *)
LEMMA FoldsAgree ==
  ASSUME NEW D, NEW c, NEW R, NEW base, NEW G, NEW f, FoldOver(f, D, c, base, G, R),
         NEW E, E \subseteq D, NEW g, Follows(g, E, c, base, G, R)
  PROVE  Agree(g, f, E)
  <1> USE DEF FoldOver
  <1> DEFINE T == {s \in SUBSET E : g[s] = f[s]}
  <1>0. IsFiniteSet(E)
    BY FS_Subset
  <1>1. ASSUME NEW s \in SUBSET E, \A t \in SUBSET s : t # s => t \in T PROVE s \in T
    <2>1. CASE s = {}
      BY <2>1 DEF Folds, Follows
    <2>2. CASE s # {}
      <3> DEFINE r == s \ {c[s]}
      <3>1. s \in SUBSET D /\ r \in SUBSET s /\ r # s /\ r \in SUBSET D
        BY <2>2 DEF Chooses
      <3>2. g[r] = f[r] /\ f[r] \in R
        BY <1>1, <3>1
      <3>3. g[s] = G[<<c[s], g[r]>>]
        BY <2>2, <3>2 DEF Follows
      <3>4. f[s] = G[<<c[s], f[r]>>]
        BY <2>2, <3>1 DEF Folds
      <3> QED BY <3>2, <3>3, <3>4
    <2> QED BY <2>1, <2>2
  <1> HIDE DEF T
  <1>2. \A s \in SUBSET E : s \in T
    BY <1>0, <1>1, PartByPart
  <1> QED BY <1>2 DEF T, Agree

(* A left fold takes the largest index of those left.                       *)
Largest(n) == [d \in SUBSET (1..n) |-> Max(d)]

LEMMA LargestChosen ==
  ASSUME NEW n \in Nat
  PROVE  /\ Chooses(Largest(n), 1..n) /\ \A k \in 1..n : Largest(n)[1..k] = k
         /\ \A d \in SUBSET (1..n) : d # {} => Max(d) \in d /\ \A y \in d : Max(d) >= y
  <1> DEFINE N == {m \in Nat : \A d \in SUBSET (1..m) : d # {} => \E x \in d : \A y \in d : x >= y}
  <1>1. 0 \in N
    <2>1. 1..0 = {}
      OBVIOUS
    <2>2. \A d \in SUBSET (1..0) : d = {}
      BY <2>1
    <2> QED BY <2>2
  <1>2. ASSUME NEW m \in N PROVE m + 1 \in N
    <2>1. m \in Nat /\ \A d \in SUBSET (1..m) : d # {} => \E x \in d : \A y \in d : x >= y
      OBVIOUS
    <2> SUFFICES ASSUME NEW d \in SUBSET (1..(m + 1)), d # {} PROVE \E x \in d : \A y \in d : x >= y
      BY <2>1
    <2>2. CASE m + 1 \in d
      BY <2>1, <2>2
    <2>3. CASE m + 1 \notin d
      <3>1. d \in SUBSET (1..m)
        BY <2>1, <2>3
      <3> QED BY <2>1, <3>1
    <2> QED BY <2>2, <2>3
  <1> HIDE DEF N
  <1>3. N = Nat
    <2>1. N \subseteq Nat
      BY DEF N
    <2> QED BY <1>1, <1>2, <2>1, CountingUp
  <1>4. \A d \in SUBSET (1..n) : d # {} => \E x \in d : \A y \in d : x >= y
    BY <1>3 DEF N
  <1>5. Chooses(Largest(n), 1..n)
    BY <1>4 DEF Chooses, Largest, Max
  <1>6. ASSUME NEW k \in 1..n PROVE Largest(n)[1..k] = k
    <2> DEFINE m == Max(1..k)
    <2>1. k \in 1..k /\ \A y \in 1..k : k >= y
      OBVIOUS
    <2>2. m \in 1..k /\ \A y \in 1..k : m >= y
      BY <2>1 DEF Max
    <2> HIDE DEF m
    <2>3. m = k
      BY <2>1, <2>2
    <2> QED BY <2>3 DEF m, Largest
  <1>7. \A d \in SUBSET (1..n) : d # {} => Max(d) \in d /\ \A y \in d : Max(d) >= y
    BY <1>4 DEF Max
  <1> QED BY <1>5, <1>6, <1>7

(* g folds H over the sequence q from the left, as long as it stays in R.   *)
LeftFolds(g, q, base, H, R) ==
    /\ g[{}] = base
    /\ \A d \in SUBSET DOMAIN q :
         d # {} /\ g[d \ {Max(d)}] \in R => g[d] = H[<<q[Max(d)], g[d \ {Max(d)}]>>]

(* P[k] is what the first k elements of q make of base.                     *)
Running(P, q, base, H, R) ==
    /\ P \in [0..Len(q) -> R]
    /\ P[0] = base
    /\ \A k \in 1..Len(q) : P[k] = H[<<q[k], P[k - 1]>>]

\* Some function does so everywhere, and whatever does ends with x.
Settles(q, base, H, M, R, x) ==
    /\ \E h \in [SUBSET DOMAIN q -> R] :
         /\ h[{}] = base
         /\ \A d \in SUBSET DOMAIN q : d # {} =>
              q[Max(d)] \in M /\ h[d] = H[<<q[Max(d)], h[d \ {Max(d)}]>>]
    /\ \A g : LeftFolds(g, q, base, H, R) => g[DOMAIN q] = x

LEMMA LeftFold ==
  ASSUME NEW M, NEW q \in Seq(M), NEW R, NEW base \in R, NEW H \in [M \X R -> R]
  PROVE  \E P :
           /\ Running(P, q, base, H, R)
           /\ \A k \in 0..Len(q) : Settles(SubSeq(q, 1, k), base, H, M, R, P[k])
  <1> DEFINE n == Len(q)
             D == 1..n
             c == Largest(n)
             G == [p \in D \X R |-> H[<<q[p[1]], p[2]>>]]
  <1>1. n \in Nat /\ DOMAIN q = D /\ IsFiniteSet(D)
    <2>1. n \in Nat /\ DOMAIN q = D
      OBVIOUS
    <2> QED BY <2>1, FS_Interval
  <1>2. Chooses(c, D) /\ (\A k \in 1..n : c[1..k] = k) /\ \A d \in SUBSET D : c[d] = Max(d)
    BY <1>1, LargestChosen DEF Largest
  <1>3. G \in [D \X R -> R] /\ \A x \in D, y \in R : G[<<x, y>>] = H[<<q[x], y>>]
    <2>1. \A x \in D : q[x] \in M
      BY <1>1
    <2>2. \A x \in D, y \in R : H[<<q[x], y>>] \in R
      BY <2>1
    <2> QED BY <2>2
  <1> HIDE DEF n, c, G
  <1>4. PICK f \in [SUBSET D -> R] : Folds(f, D, c, base, G)
    <2> HIDE DEF D
    <2> QED BY <1>1, <1>2, <1>3, FoldExists
  <1> DEFINE P == [k \in 0..n |-> f[1..k]]
  <1>5. \A k \in 0..n : 1..k \in SUBSET D
    BY <1>1
  <1>6. ASSUME NEW d \in SUBSET D, d # {}
        PROVE  f[d] = H[<<q[Max(d)], f[d \ {Max(d)}]>>] /\ Max(d) \in d
    <2>1. c[d] = Max(d) /\ Max(d) \in d /\ Max(d) \in D
      BY <1>2, <1>6 DEF Chooses
    <2>2. f[d] = G[<<Max(d), f[d \ {Max(d)}]>>]
      BY <1>4, <1>6, <2>1 DEF Folds
    <2>3. f[d \ {Max(d)}] \in R
      OBVIOUS
    <2> QED BY <1>3, <2>1, <2>2, <2>3
  <1>7. Running(P, q, base, H, R)
    <2>1. P \in [0..n -> R]
      BY <1>5
    <2>2. P[0] = base
      <3>1. 1..0 = {}
        OBVIOUS
      <3> QED BY <1>1, <1>4, <3>1 DEF Folds
    <2>3. ASSUME NEW k \in 1..n PROVE P[k] = H[<<q[k], P[k - 1]>>]
      <3>1. 1..k \in SUBSET D /\ 1..k # {} /\ (1..k) \ {k} = 1..(k - 1) /\ k - 1 \in 0..n /\ k \in 0..n
        <4>1. k \in Nat /\ k >= 1 /\ k <= n /\ n \in Nat
          BY <1>1
        <4>2. k \in 1..k /\ k - 1 \in 0..n /\ k \in 0..n
          BY <4>1
        <4>3. (1..k) \ {k} = 1..(k - 1)
          BY <4>1
        <4> QED BY <1>5, <4>2, <4>3
      <3>2. Max(1..k) = k
        BY <1>2, <3>1
      <3>3. f[1..k] = H[<<q[k], f[1..(k - 1)]>>]
        BY <1>6, <3>1, <3>2
      <3> QED BY <3>1, <3>3
    <2> HIDE DEF P
    <2> QED BY <2>1, <2>2, <2>3 DEF Running, n
  <1>8. ASSUME NEW k \in 0..n
        PROVE  Settles(SubSeq(q, 1, k), base, H, M, R, P[k])
    <2> DEFINE qk == SubSeq(q, 1, k)
    <2>1. DOMAIN qk = 1..k /\ \A x \in 1..k : qk[x] = q[x]
      <3>1. k \in Nat /\ k <= Len(q)
        BY <1>1 DEF n
      <3> QED BY <3>1
    <2>2. 1..k \in SUBSET D
      BY <1>5
    <2> HIDE DEF qk
    <2>3. \A d \in SUBSET (1..k) : d # {} =>
            /\ f[d] = H[<<qk[Max(d)], f[d \ {Max(d)}]>>] /\ Max(d) \in d
            /\ c[d] = Max(d) /\ qk[Max(d)] \in M
      <3> SUFFICES ASSUME NEW d \in SUBSET (1..k), d # {}
                   PROVE  /\ f[d] = H[<<qk[Max(d)], f[d \ {Max(d)}]>>] /\ Max(d) \in d
                          /\ c[d] = Max(d) /\ qk[Max(d)] \in M
        OBVIOUS
      <3>1. d \in SUBSET D
        BY <2>2
      <3>2. f[d] = H[<<q[Max(d)], f[d \ {Max(d)}]>>] /\ Max(d) \in d
        BY <1>6, <3>1
      <3>3. qk[Max(d)] = q[Max(d)] /\ q[Max(d)] \in M
        BY <1>1, <2>1, <3>1, <3>2
      <3> QED BY <1>2, <3>1, <3>2, <3>3
    <2>4. \E h \in [SUBSET (1..k) -> R] :
            h[{}] = base /\ \A d \in SUBSET (1..k) : d # {} =>
              qk[Max(d)] \in M /\ h[d] = H[<<qk[Max(d)], h[d \ {Max(d)}]>>]
      <3> DEFINE h == [d \in SUBSET (1..k) |-> f[d]]
      <3>1. h \in [SUBSET (1..k) -> R]
        BY <2>2
      <3>2. h[{}] = base
        BY <1>4 DEF Folds
      <3>3. \A d \in SUBSET (1..k) : d # {} =>
              qk[Max(d)] \in M /\ h[d] = H[<<qk[Max(d)], h[d \ {Max(d)}]>>]
        BY <2>3
      <3> HIDE DEF h
      <3> QED BY <3>1, <3>2, <3>3
    <2>5. ASSUME NEW g, LeftFolds(g, qk, base, H, R) PROVE g[1..k] = P[k]
      <3>1. g[{}] = base
        BY <2>5 DEF LeftFolds
      <3>2. ASSUME NEW d \in SUBSET (1..k), d # {}, g[d \ {c[d]}] \in R
            PROVE  g[d] = G[<<c[d], g[d \ {c[d]}]>>]
        <4>1. c[d] = Max(d) /\ Max(d) \in d /\ Max(d) \in D /\ qk[Max(d)] = q[Max(d)]
          BY <2>1, <2>2, <2>3, <3>2
        <4>2. g[d] = H[<<q[Max(d)], g[d \ {Max(d)}]>>]
          BY <2>1, <2>5, <3>2, <4>1 DEF LeftFolds
        <4> QED BY <1>3, <3>2, <4>1, <4>2
      <3>3. \A d \in SUBSET (1..k) : g[d] = f[d]
        <4> DEFINE E == 1..k
        <4>1. Follows(g, E, c, base, G, R)
          BY <3>1, <3>2 DEF Follows
        <4>2. FoldOver(f, D, c, base, G, R) /\ E \subseteq D
          BY <1>1, <1>2, <1>4, <2>2 DEF FoldOver
        <4> HIDE DEF D, E
        <4>3. Agree(g, f, E)
          BY <4>1, <4>2, FoldsAgree
        <4> QED BY <4>3 DEF E, Agree
      <3>4. k \in 0..n
        OBVIOUS
      <3> QED BY <3>3, <3>4
    <2>6. Settles(qk, base, H, M, R, P[k])
      BY <2>1, <2>4, <2>5 DEF Settles
    <2> QED BY <2>6 DEF qk
  <1> HIDE DEF P, D
  <1> QED BY <1>7, <1>8 DEF n

----------------------------------------------------------------------------
(***************************************************************************)
(* Batches.                                                                *)
(***************************************************************************)
Records == [Members -> [last_nonce : Nat, total : Nat, count : Nat]]

Ledgers == [sources : [Members -> Members \cup {NoAddress}], records : Records]

AuditReports == [source : Members, body : PaymentBodies]

(* What one report makes of staged records, and what a sequence of reports  *)
(* makes of a ledger one by one.                                           *)
StageOne(s, records, report) ==
    IF Audit!accepted(s, records, report) THEN Audit!Recorded(records, report.body) ELSE records

After(s, q) == FoldLeft(LAMBDA t, report : Audit!isolated(t, report), s, q)

\* H says of every report what it makes of staged records.
Stages(H, s, M, R) == \A report \in M, p \in R : H[<<report, p>>] = StageOne(s, p, report)

LEMMA StagedIs ==
  ASSUME NEW s, NEW q, NEW M, NEW R, NEW x, NEW H, Stages(H, s, M, R),
         NEW base, base = s.records, Settles(q, base, H, M, R, x)
  PROVE  Audit!Staged(s, q) = x
  <1> USE DEF Stages
  <1> DEFINE D == DOMAIN q
             Eq(h) == h = [d \in SUBSET D |-> IF d = {} THEN s.records
                             ELSE StageOne(s, h[d \ {Max(d)}], q[Max(d)])]
             g == CHOOSE h : Eq(h)
  <1>1. Audit!Staged(s, q) = g[D]
    BY DEF Audit!Staged, FoldLeft, Audit!FoldLeft, MapThenFoldSet, Audit!MapThenFoldSet,
           Max, Audit!Max, StageOne
  <1>2. PICK h \in [SUBSET D -> R] :
          /\ h[{}] = s.records
          /\ \A d \in SUBSET D : d # {} =>
               q[Max(d)] \in M /\ h[d] = H[<<q[Max(d)], h[d \ {Max(d)}]>>]
    BY DEF Settles
  <1>3. Eq(h)
    <2>1. ASSUME NEW d \in SUBSET D, d # {} PROVE h[d] = StageOne(s, h[d \ {Max(d)}], q[Max(d)])
      <3>1. h[d \ {Max(d)}] \in R
        OBVIOUS
      <3> QED BY <1>2, <2>1, <3>1
    <2>2. h = [d \in SUBSET D |-> h[d]]
      OBVIOUS
    <2> QED BY <1>2, <2>1, <2>2
  <1>4. Eq(g)
    <2> HIDE DEF Eq
    <2> QED BY <1>3
  <1> HIDE DEF g
  <1>5. LeftFolds(g, q, s.records, H, R)
    <2>1. g[{}] = s.records
      BY <1>4
    <2>2. ASSUME NEW d \in SUBSET D, d # {}, g[d \ {Max(d)}] \in R
          PROVE  g[d] = H[<<q[Max(d)], g[d \ {Max(d)}]>>]
      <3>1. g[d] = StageOne(s, g[d \ {Max(d)}], q[Max(d)])
        BY <1>4, <2>2
      <3>2. q[Max(d)] \in M
        BY <1>2, <2>2
      <3> QED BY <2>2, <3>1, <3>2
    <2> QED BY <2>1, <2>2 DEF LeftFolds
  <1>6. g[D] = x
    BY <1>5 DEF Settles
  <1> QED BY <1>1, <1>6

LEMMA AfterIs ==
  ASSUME NEW s, NEW q, NEW M, NEW R, NEW x, NEW H,
         \A report \in M, p \in R : H[<<report, p>>] = Audit!isolated(p, report),
         Settles(q, s, H, M, R, x)
  PROVE  After(s, q) = x
  <1> DEFINE D == DOMAIN q
             Eq(h) == h = [d \in SUBSET D |-> IF d = {} THEN s
                             ELSE Audit!isolated(h[d \ {Max(d)}], q[Max(d)])]
             g == CHOOSE h : Eq(h)
  <1>1. After(s, q) = g[D]
    BY DEF After, FoldLeft, MapThenFoldSet, Max
  <1>2. PICK h \in [SUBSET D -> R] :
          /\ h[{}] = s
          /\ \A d \in SUBSET D : d # {} =>
               q[Max(d)] \in M /\ h[d] = H[<<q[Max(d)], h[d \ {Max(d)}]>>]
    BY DEF Settles
  <1>3. Eq(h)
    <2>1. ASSUME NEW d \in SUBSET D, d # {} PROVE h[d] = Audit!isolated(h[d \ {Max(d)}], q[Max(d)])
      <3>1. h[d \ {Max(d)}] \in R
        OBVIOUS
      <3> QED BY <1>2, <2>1, <3>1
    <2>2. h = [d \in SUBSET D |-> h[d]]
      OBVIOUS
    <2> QED BY <1>2, <2>1, <2>2
  <1>4. Eq(g)
    <2> HIDE DEF Eq
    <2> QED BY <1>3
  <1> HIDE DEF g
  <1>5. LeftFolds(g, q, s, H, R)
    <2>1. g[{}] = s
      BY <1>4
    <2>2. ASSUME NEW d \in SUBSET D, d # {}, g[d \ {Max(d)}] \in R
          PROVE  g[d] = H[<<q[Max(d)], g[d \ {Max(d)}]>>]
      <3>1. g[d] = Audit!isolated(g[d \ {Max(d)}], q[Max(d)])
        BY <1>4, <2>2
      <3>2. q[Max(d)] \in M
        BY <1>2, <2>2
      <3> QED BY <2>2, <3>1, <3>2
    <2> QED BY <2>1, <2>2 DEF LeftFolds
  <1>6. g[D] = x
    BY <1>5 DEF Settles
  <1> QED BY <1>1, <1>6

(* A ledger as it decodes.                                                  *)
Lawful(s) == s \in Ledgers /\ Audit!validate(s)

LEMMA AuditIndices == Audit!Indices = Members
  BY DEF Audit!Indices, Members

LEMMA RecordedType ==
  ASSUME NEW records \in Records, NEW b \in PaymentBodies
  PROVE  /\ Audit!Recorded(records, b) \in Records
         /\ Audit!Recorded(records, b)[b.index] =
              [last_nonce |-> b.nonce, total |-> records[b.index].total + b.amount,
               count |-> records[b.index].count + 1]
         /\ \A j \in Members \ {b.index} : Audit!Recorded(records, b)[j] = records[j]
         /\ Audit!Recorded(records, b) # records
  <1> DEFINE i == b.index
             new == [last_nonce |-> b.nonce, total |-> records[i].total + b.amount,
                     count |-> records[i].count + 1]
  <1>1. i \in Members /\ b.nonce \in Nat /\ b.amount \in Nat
    BY DEF PaymentBodies
  <1>2. records[i].total \in Nat /\ records[i].count \in Nat
    BY <1>1 DEF Records
  <1>3. new \in [last_nonce : Nat, total : Nat, count : Nat] /\ new.count # records[i].count
    BY <1>1, <1>2
  <1>4. Audit!Recorded(records, b) = [records EXCEPT ![i] = new]
    BY <1>1 DEF Audit!Recorded, Records
  <1> HIDE DEF new, i
  <1>5. records \in [Members -> [last_nonce : Nat, total : Nat, count : Nat]]
    BY DEF Records
  <1>6. [records EXCEPT ![i] = new][i] = new
    BY <1>1, <1>5
  <1>7. [records EXCEPT ![i] = new] # records
    BY <1>3, <1>6
  <1>8. [records EXCEPT ![i] = new] \in Records
    BY <1>1, <1>3, <1>5 DEF Records
  <1> QED BY <1>1, <1>4, <1>5, <1>6, <1>7, <1>8 DEF new, i

(* One report alone: the record it makes, or nothing.                       *)
LEMMA IsolatedIs ==
  ASSUME NEW s, Lawful(s), NEW report \in AuditReports
  PROVE  /\ Lawful(Audit!isolated(s, report))
         /\ Audit!isolated(s, report).sources = s.sources
         /\ Audit!isolated(s, report).records = StageOne(s, s.records, report)
         /\ StageOne(s, s.records, report) \in Records
         /\ Audit!accepted(s, s.records, report) <=> Audit!isolated(s, report) # s
  <1> DEFINE b == report.body
             new == Audit!Recorded(s.records, b)
             t == [s EXCEPT !.records = new]
  <1>1. s.records \in Records /\ b \in PaymentBodies /\ s \in Ledgers /\ Audit!validate(s)
    BY DEF Lawful, Ledgers, AuditReports
  <1>2. Audit!isolated(s, report) = IF Audit!accepted(s, s.records, report) THEN t ELSE s
    BY <1>1 DEF Audit!isolated
  <1>3. CASE ~Audit!accepted(s, s.records, report)
    BY <1>1, <1>2, <1>3 DEF StageOne
  <1>4. CASE Audit!accepted(s, s.records, report)
    <2>1. /\ new \in Records /\ new # s.records /\ \A j \in Members \ {b.index} : new[j] = s.records[j]
          /\ new[b.index] = [last_nonce |-> b.nonce, total |-> s.records[b.index].total + b.amount,
                             count |-> s.records[b.index].count + 1]
      BY <1>1, RecordedType
    <2> HIDE DEF new
    <2>2. t \in Ledgers /\ t.sources = s.sources /\ t.records = new
      BY <1>1, <2>1 DEF Ledgers
    <2>3. b.nonce # 0 /\ b.amount # 0 /\ b.nonce \in Nat /\ b.amount \in Nat /\ b.index \in Members
      BY <1>1, <1>4 DEF Audit!accepted, PaymentBodies
    <2> HIDE DEF t
    <2>4. Audit!validate(t)
      <3>1. ASSUME NEW i \in Members, NEW j \in Members,
                   t.sources[i] = t.sources[j], t.sources[i] # NoAddress
            PROVE  i = j
        BY <1>1, <2>2, <3>1, AuditIndices DEF Audit!validate
      <3>2. ASSUME NEW i \in Members
            PROVE  IF t.records[i].count = 0 THEN t.records[i] = Audit!NewRecord
                   ELSE t.records[i].last_nonce # 0 /\ t.records[i].total # 0
        <4>1. CASE i # b.index
          BY <1>1, <2>1, <2>2, <4>1, AuditIndices DEF Audit!validate
        <4>2. CASE i = b.index
          <5>1. s.records[i].total \in Nat /\ s.records[i].count \in Nat
            BY <1>1 DEF Records
          <5>2. t.records[i].count # 0 /\ t.records[i].total # 0 /\ t.records[i].last_nonce # 0
            BY <2>1, <2>2, <2>3, <4>2, <5>1
          <5> QED BY <5>2
        <4> QED BY <4>1, <4>2
      <3> QED BY <3>1, <3>2, AuditIndices DEF Audit!validate
    <2>5. StageOne(s, s.records, report) = new
      BY <1>4 DEF StageOne, new
    <2>6. t # s
      BY <2>1, <2>2
    <2> QED BY <1>2, <1>4, <2>1, <2>2, <2>4, <2>5, <2>6 DEF Lawful
  <1> QED BY <1>3, <1>4

(* Whether a report is accepted depends on the ledger by its sources only.  *)
LEMMA SameSources ==
  ASSUME NEW s, NEW t, t.sources = s.sources, NEW records, NEW report
  PROVE  /\ Audit!accepted(t, records, report) <=> Audit!accepted(s, records, report)
         /\ StageOne(t, records, report) = StageOne(s, records, report)
  BY DEF Audit!accepted, StageOne

(* A batch within the limit: staged records patched at the end leave what   *)
(* its reports leave one by one, in any set of ledgers that one report does *)
(* not leave, and a status says whether its report changed anything.        *)
LEMMA BatchOneByOne ==
  ASSUME NEW R, NEW s \in R, NEW M \in SUBSET AuditReports,
         \A t \in R : Lawful(t) /\ t.sources = s.sources,
         \A t \in R, report \in M : Audit!isolated(t, report) \in R,
         NEW q \in Seq(M), Len(q) <= MAX_BATCH, MAX_BATCH \in Nat
  PROVE  LET got == Audit!process_batch(s, Audit!DataPatchList, q) IN
         /\ got.state \in R
         /\ got.state = After(s, SubSeq(q, 1, Len(q)))
         /\ \A k \in 1..Len(q) :
              got.statuses[k] <=> After(s, SubSeq(q, 1, k)) # After(s, SubSeq(q, 1, k - 1))
  <1> DEFINE n == Len(q)
             H == [p \in M \X Records |-> StageOne(s, p[2], p[1])]
             J == [p \in M \X R |-> Audit!isolated(p[2], p[1])]
             got == Audit!process_batch(s, Audit!DataPatchList, q)
  <1>1. n \in Nat /\ SubSeq(q, 1, n) = q /\ \A k \in 1..n : q[k] \in M
    OBVIOUS
  <1>2. H \in [M \X Records -> Records]
    <2>1. ASSUME NEW report \in M, NEW p \in Records PROVE StageOne(s, p, report) \in Records
      <3>1. report.body \in PaymentBodies
        BY DEF AuditReports
      <3> QED BY <3>1, RecordedType DEF StageOne
    <2> QED BY <2>1
  <1>3. \A report \in M, p \in Records : H[<<report, p>>] = StageOne(s, p, report)
    OBVIOUS
  <1>4. J \in [M \X R -> R]
    OBVIOUS
  <1>5. \A report \in M, t \in R : J[<<report, t>>] = Audit!isolated(t, report)
    OBVIOUS
  <1>6. s.records \in Records /\ Lawful(s) /\ s \in Ledgers
    BY DEF Lawful, Ledgers
  <1> HIDE DEF H, J
  <1>7. PICK P : /\ Running(P, q, s.records, H, Records)
                 /\ \A k \in 0..n : Settles(SubSeq(q, 1, k), s.records, H, M, Records, P[k])
    <2> QED BY <1>2, <1>6, LeftFold
  <1>8. PICK A : /\ Running(A, q, s, J, R)
                 /\ \A k \in 0..n : Settles(SubSeq(q, 1, k), s, J, M, R, A[k])
    <2> QED BY <1>4, LeftFold
  <1>9. ASSUME NEW k \in 0..n PROVE Audit!Staged(s, SubSeq(q, 1, k)) = P[k]
    <2> DEFINE qk == SubSeq(q, 1, k)
               records == s.records
               x == P[k]
    <2>1. Settles(qk, records, H, M, Records, x) /\ Stages(H, s, M, Records) /\ records = s.records
      BY <1>3, <1>7 DEF Stages
    <2> HIDE DEF qk, records, x
    <2>2. Audit!Staged(s, qk) = x
      BY <2>1, StagedIs
    <2> QED BY <2>2 DEF qk, x
  <1>10. \A k \in 0..n : After(s, SubSeq(q, 1, k)) = A[k]
    BY <1>5, <1>8, AfterIs
  <1>11. /\ P \in [0..n -> Records] /\ P[0] = s.records
         /\ \A k \in 1..n : P[k] = StageOne(s, P[k - 1], q[k])
    <2>1. /\ P \in [0..n -> Records] /\ P[0] = s.records
          /\ \A k \in 1..n : P[k] = H[<<q[k], P[k - 1]>>]
      BY <1>7 DEF Running
    <2>2. \A k \in 1..n : k - 1 \in 0..n
      BY <1>1
    <2> QED BY <1>1, <1>3, <2>1, <2>2
  <1>12. /\ A \in [0..n -> R] /\ A[0] = s
         /\ \A k \in 1..n : A[k] = Audit!isolated(A[k - 1], q[k])
    <2>1. /\ A \in [0..n -> R] /\ A[0] = s
          /\ \A k \in 1..n : A[k] = J[<<q[k], A[k - 1]>>]
      BY <1>8 DEF Running
    <2>2. \A k \in 1..n : k - 1 \in 0..n
      BY <1>1
    <2> QED BY <1>1, <1>5, <2>1, <2>2
  <1> DEFINE ok(k) == Audit!accepted(s, P[k - 1], q[k])
             Same(k) == /\ A[k].records = P[k]
                        /\ \A i \in Members :
                             (\A x \in 1..k : ~(ok(x) /\ q[x].body.index = i)) => P[k][i] = s.records[i]
             T == {k \in Nat : k <= n => Same(k)}
  <1>13. 0 \in T
    BY <1>11, <1>12
  <1>14. ASSUME NEW k \in T PROVE k + 1 \in T
    <2> SUFFICES ASSUME k + 1 <= n PROVE Same(k + 1)
      OBVIOUS
    <2>1. k \in Nat /\ k \in 0..n /\ k + 1 \in 1..n /\ k + 1 \in 0..n /\ (k + 1) - 1 = k
      BY <1>1
    <2>2. Same(k)
      BY <1>1, <2>1
    <2>3. P[k + 1] = StageOne(s, P[k], q[k + 1]) /\ A[k + 1] = Audit!isolated(A[k], q[k + 1])
      BY <1>11, <1>12, <2>1
    <2>4. A[k] \in R /\ q[k + 1] \in M /\ P[k] \in Records
      BY <1>1, <1>11, <1>12, <2>1
    <2>5. Lawful(A[k]) /\ A[k].sources = s.sources /\ q[k + 1] \in AuditReports
      BY <2>4
    <2>6. A[k + 1].records = StageOne(A[k], A[k].records, q[k + 1])
      BY <2>3, <2>5, IsolatedIs
    <2>7. A[k + 1].records = P[k + 1]
      BY <2>2, <2>3, <2>5, <2>6, SameSources
    <2>8. ASSUME NEW i \in Members, \A x \in 1..(k + 1) : ~(ok(x) /\ q[x].body.index = i)
          PROVE  P[k + 1][i] = s.records[i]
      <3>1. \A x \in 1..k : ~(ok(x) /\ q[x].body.index = i)
        BY <2>1, <2>8
      <3>2. P[k][i] = s.records[i]
        BY <2>2, <3>1
      <3>3. ~(ok(k + 1) /\ q[k + 1].body.index = i)
        BY <2>1, <2>8
      <3>4. ok(k + 1) <=> Audit!accepted(s, P[k], q[k + 1])
        BY <2>1
      <3>5. q[k + 1].body \in PaymentBodies
        BY <2>5 DEF AuditReports
      <3>6. P[k + 1][i] = P[k][i]
        <4>1. CASE ~Audit!accepted(s, P[k], q[k + 1])
          BY <2>3, <4>1 DEF StageOne
        <4>2. CASE Audit!accepted(s, P[k], q[k + 1])
          <5>1. P[k + 1] = Audit!Recorded(P[k], q[k + 1].body) /\ i # q[k + 1].body.index
            BY <2>3, <3>3, <3>4, <4>2 DEF StageOne
          <5>2. \A j \in Members \ {q[k + 1].body.index} : Audit!Recorded(P[k], q[k + 1].body)[j] = P[k][j]
            BY <2>4, <3>5, RecordedType
          <5> QED BY <5>1, <5>2
        <4> QED BY <4>1, <4>2
      <3> QED BY <3>2, <3>6
    <2> QED BY <2>7, <2>8
  <1> HIDE DEF T
  <1>15. T = Nat
    <2>1. T \subseteq Nat
      BY DEF T
    <2> QED BY <1>13, <1>14, <2>1, CountingUp
  <1>16. \A k \in 0..n : Same(k)
    BY <1>1, <1>15 DEF T
  <1>17. Audit!Runs(s, Audit!DataPatchList, q)
    BY <1>6 DEF Audit!Runs, Lawful
  <1>18. \A k \in 1..n : Audit!Succeeds(s, q, k) <=> ok(k)
    <2> TAKE k \in 1..n
    <2>1. k - 1 \in 0..n
      BY <1>1
    <2> QED BY <1>9, <2>1 DEF Audit!Succeeds
  <1>19. Audit!Staged(s, q) = P[n]
    <2>1. n \in 0..n
      BY <1>1
    <2> QED BY <1>1, <1>9, <2>1
  <1>20. \A k \in 1..n : got.statuses[k] <=> ok(k)
    <2> HIDE DEF ok
    <2> QED BY <1>17, <1>18 DEF Audit!process_batch
  <1>21. got.state = A[n]
    <2> DEFINE touched == {q[k].body.index : k \in {x \in 1..n : ok(x)}}
               patched == [i \in Members |-> IF i \in touched THEN P[n][i] ELSE s.records[i]]
    <2>1. \A i \in Members : patched[i] = P[n][i]
      <3> SUFFICES ASSUME NEW i \in Members, i \notin touched PROVE P[n][i] = s.records[i]
        OBVIOUS
      <3>1. \A x \in 1..n : ~(ok(x) /\ q[x].body.index = i)
        OBVIOUS
      <3>2. n \in 0..n
        BY <1>1
      <3> HIDE DEF touched
      <3>3. Same(n)
        BY <1>16, <3>2
      <3> QED BY <3>1, <3>3
    <2>2. P[n] \in Records /\ A[n] \in R /\ A[n].records = P[n]
      <3>1. n \in 0..n
        BY <1>1
      <3> QED BY <1>11, <1>12, <1>16, <3>1
    <2>3. patched = P[n]
      <3> HIDE DEF touched
      <3>1. P[n] = [i \in Members |-> P[n][i]]
        BY <2>2 DEF Records
      <3> QED BY <2>1, <3>1
    <2>4. got.state = [s EXCEPT !.records = patched]
      <3>1. touched = {q[k].body.index : k \in {x \in 1..n :
                 Audit!Runs(s, Audit!DataPatchList, q) /\ Audit!Succeeds(s, q, x)}}
        <4> HIDE DEF ok
        <4> QED BY <1>17, <1>18
      <3> HIDE DEF touched
      <3> QED BY <1>19, <3>1, AuditIndices DEF Audit!process_batch
    <2>5. A[n] \in Ledgers /\ A[n].sources = s.sources
      BY <2>2 DEF Lawful
    <2> HIDE DEF patched, got
    <2> QED BY <1>6, <2>2, <2>3, <2>4, <2>5 DEF Ledgers
  <1>22. \A k \in 1..n : ok(k) <=> A[k] # A[k - 1]
    <2> TAKE k \in 1..n
    <2>1. k - 1 \in 0..n /\ q[k] \in M
      BY <1>1
    <2>2. A[k - 1] \in R /\ A[k] = Audit!isolated(A[k - 1], q[k]) /\ A[k - 1].records = P[k - 1]
      BY <1>12, <1>16, <2>1
    <2>3. Lawful(A[k - 1]) /\ A[k - 1].sources = s.sources /\ q[k] \in AuditReports
      BY <2>1, <2>2
    <2>4. Audit!accepted(A[k - 1], P[k - 1], q[k]) <=> A[k] # A[k - 1]
      BY <2>2, <2>3, IsolatedIs
    <2> QED BY <2>3, <2>4, SameSources
  <1>23. n \in 0..n /\ \A k \in 1..n : k \in 0..n /\ k - 1 \in 0..n
    BY <1>1
  <1>24. got.state \in R
    BY <1>12, <1>21, <1>23
  <1> HIDE DEF got, ok
  <1>25. \A k \in 1..n : got.statuses[k] <=> After(s, SubSeq(q, 1, k)) # After(s, SubSeq(q, 1, k - 1))
    BY <1>10, <1>20, <1>22, <1>23
  <1>26. got.state = After(s, SubSeq(q, 1, n))
    BY <1>10, <1>21, <1>23
  <1> QED BY <1>24, <1>25, <1>26 DEF got, n

(* A batch over the limit, or asked for a full replacement, does nothing.   *)
LEMMA BatchRefused ==
  ASSUME NEW s, Lawful(s), NEW mode, NEW q \in Seq(AuditReports),
         ~Audit!Runs(s, mode, q)
  PROVE  /\ Audit!process_batch(s, mode, q).state = s
         /\ \A k \in 1..Len(q) : ~Audit!process_batch(s, mode, q).statuses[k]
  <1> DEFINE got == Audit!process_batch(s, mode, q)
             patched == [i \in Members |-> s.records[i]]
  <1>1. got.state = [s EXCEPT !.records = patched]
    BY AuditIndices DEF Audit!process_batch
  <1>2. patched = s.records
    BY DEF Lawful, Ledgers, Records
  <1>3. got.state = s
    BY <1>1, <1>2 DEF Lawful, Ledgers
  <1>4. \A k \in 1..Len(q) : ~got.statuses[k]
    BY DEF Audit!process_batch
  <1> QED BY <1>3, <1>4

----------------------------------------------------------------------------
(***************************************************************************)
(* Sums of payments.                                                       *)
(***************************************************************************)
SumAmounts(known) == MapThenSumSet(LAMBDA b : b.amount, known)

\* The element a fold over a set takes.
First(s) == CHOOSE x \in s : TRUE

\* f is a sum over the parts of D: any element may be taken off.
Sums(f, D) ==
    /\ f \in [SUBSET D -> Nat]
    /\ f[{}] = 0
    /\ \A s \in SUBSET D : \A x \in s : f[s] = x.amount + f[s \ {x}]

LEMMA SumIs ==
  ASSUME NEW D, IsFiniteSet(D), \A x \in D : x.amount \in Nat
  PROVE  \E f : Sums(f, D) /\ \A s \in SUBSET D : SumAmounts(s) = f[s]
  <1> DEFINE c == [s \in SUBSET D |-> First(s)]
             G == [p \in D \X Nat |-> p[1].amount + p[2]]
  <1>1. Chooses(c, D) /\ \A s \in SUBSET D : c[s] = First(s)
    BY DEF Chooses, First
  <1>2. G \in [D \X Nat -> Nat] /\ \A x \in D, y \in Nat : G[<<x, y>>] = x.amount + y
    OBVIOUS
  <1> HIDE DEF c, G
  <1>3. PICK f \in [SUBSET D -> Nat] : Folds(f, D, c, 0, G)
    <2>1. 0 \in Nat
      OBVIOUS
    <2> QED BY <1>1, <1>2, <2>1, FoldExists
  <1>4. \A s \in SUBSET D : s # {} =>
          c[s] \in s /\ c[s] \in D /\ f[s] = c[s].amount + f[s \ {c[s]}]
    <2> SUFFICES ASSUME NEW s \in SUBSET D, s # {}
                 PROVE  c[s] \in s /\ c[s] \in D /\ f[s] = c[s].amount + f[s \ {c[s]}]
      OBVIOUS
    <2>1. c[s] \in s /\ c[s] \in D
      BY <1>1 DEF Chooses
    <2>2. f[s] = G[<<c[s], f[s \ {c[s]}]>>] /\ f[s \ {c[s]}] \in Nat
      BY <1>3 DEF Folds
    <2> QED BY <1>2, <2>1, <2>2
  <1>5. Sums(f, D)
    <2> DEFINE T == {s \in SUBSET D : \A x \in s : f[s] = x.amount + f[s \ {x}]}
    <2>1. ASSUME NEW s \in SUBSET D, \A t \in SUBSET s : t # s => t \in T PROVE s \in T
      <3> SUFFICES ASSUME NEW x \in s PROVE f[s] = x.amount + f[s \ {x}]
        OBVIOUS
      <3> DEFINE y == c[s]
                 r == s \ {x, y}
      <3>1. y \in s /\ y \in D /\ f[s] = y.amount + f[s \ {y}]
        BY <1>4
      <3>2. CASE x = y
        BY <3>1, <3>2
      <3>3. CASE x # y
        <4>1. s \ {x} \in T /\ s \ {y} \in T
          BY <2>1, <3>1
        <4>2. x \in s \ {y} /\ y \in s \ {x} /\ (s \ {y}) \ {x} = r /\ (s \ {x}) \ {y} = r
          BY <3>1, <3>3
        <4>3. f[s \ {y}] = x.amount + f[r] /\ f[s \ {x}] = y.amount + f[r]
          BY <4>1, <4>2
        <4>4. x.amount \in Nat /\ y.amount \in Nat /\ f[r] \in Nat
          BY <3>1
        <4> QED BY <3>1, <4>3, <4>4
      <3> QED BY <3>2, <3>3
    <2> HIDE DEF T
    <2>2. \A s \in SUBSET D : s \in T
      BY <2>1, PartByPart
    <2>3. \A s \in SUBSET D : \A x \in s : f[s] = x.amount + f[s \ {x}]
      BY <2>2 DEF T
    <2> QED BY <1>3, <2>3 DEF Sums, Folds
  <1>6. ASSUME NEW E \in SUBSET D PROVE SumAmounts(E) = f[E]
    <2> DEFINE Eq(h) == h = [d \in SUBSET E |-> IF d = {} THEN 0
                               ELSE First(d).amount + h[d \ {First(d)}]]
               g == CHOOSE h : Eq(h)
    <2>1. SumAmounts(E) = g[E]
      BY DEF SumAmounts, MapThenSumSet, MapThenFoldSet, First
    <2>2. Eq([d \in SUBSET E |-> f[d]])
      <3> DEFINE h == [d \in SUBSET E |-> f[d]]
      <3>1. ASSUME NEW d \in SUBSET E PROVE h[d] = IF d = {} THEN 0 ELSE First(d).amount + h[d \ {First(d)}]
        <4>1. CASE d = {}
          BY <1>3, <4>1 DEF Folds
        <4>2. CASE d # {}
          <5>1. d \in SUBSET D
            OBVIOUS
          <5>2. f[d] = First(d).amount + f[d \ {First(d)}]
            BY <1>1, <1>4, <4>2, <5>1
          <5>3. h[d] = f[d] /\ h[d \ {First(d)}] = f[d \ {First(d)}]
            OBVIOUS
          <5> QED BY <4>2, <5>2, <5>3
        <4> QED BY <4>1, <4>2
      <3>2. h = [d \in SUBSET E |-> h[d]]
        OBVIOUS
      <3> HIDE DEF h
      <3>3. Eq(h)
        BY <3>1, <3>2
      <3> QED BY <3>3 DEF h
    <2>3. Eq(g)
      <3> HIDE DEF Eq
      <3> QED BY <2>2
    <2> HIDE DEF g
    <2>4. Follows(g, E, c, 0, G, Nat)
      <3>1. g[{}] = 0
        BY <2>3
      <3>2. ASSUME NEW d \in SUBSET E, d # {}, g[d \ {c[d]}] \in Nat
            PROVE  g[d] = G[<<c[d], g[d \ {c[d]}]>>]
        <4>1. d \in SUBSET D
          OBVIOUS
        <4>2. c[d] = First(d) /\ c[d] \in D
          BY <1>1, <1>4, <3>2, <4>1
        <4>3. g[d] = c[d].amount + g[d \ {c[d]}]
          BY <2>3, <3>2, <4>2
        <4> QED BY <1>2, <3>2, <4>2, <4>3
      <3> QED BY <3>1, <3>2 DEF Follows
    <2>5. FoldOver(f, D, c, 0, G, Nat) /\ E \subseteq D
      BY <1>1, <1>3 DEF FoldOver
    <2>6. Agree(g, f, E)
      BY <2>4, <2>5, FoldsAgree
    <2>7. g[E] = f[E]
      BY <2>6 DEF Agree
    <2> QED BY <2>1, <2>7
  <1> QED BY <1>5, <1>6

LEMMA SumOfNone == SumAmounts({}) = 0
  <1>1. PICK f : Sums(f, {}) /\ \A s \in SUBSET {} : SumAmounts(s) = f[s]
    BY SumIs, FS_EmptySet
  <1> QED BY <1>1 DEF Sums

LEMMA SumWith ==
  ASSUME NEW K, IsFiniteSet(K), NEW x, x \notin K,
         \A y \in K \cup {x} : y.amount \in Nat
  PROVE  SumAmounts(K) \in Nat /\ SumAmounts(K \cup {x}) = SumAmounts(K) + x.amount
  <1> DEFINE D == K \cup {x}
  <1>1. IsFiniteSet(D)
    BY FS_AddElement
  <1>2. x \in D /\ D \ {x} = K /\ K \in SUBSET D /\ D \in SUBSET D /\ \A y \in D : y.amount \in Nat
    OBVIOUS
  <1> HIDE DEF D
  <1>3. PICK f : Sums(f, D) /\ \A s \in SUBSET D : SumAmounts(s) = f[s]
    BY <1>1, <1>2, SumIs
  <1>4. f[K] \in Nat /\ f[D] = x.amount + f[K]
    BY <1>2, <1>3 DEF Sums
  <1>5. SumAmounts(D) = f[D] /\ SumAmounts(K) = f[K] /\ x.amount \in Nat
    BY <1>2, <1>3
  <1>6. SumAmounts(K) \in Nat /\ SumAmounts(D) = SumAmounts(K) + x.amount
    BY <1>4, <1>5
  <1> QED BY <1>6 DEF D

LEMMA SumWithin ==
  ASSUME NEW D, IsFiniteSet(D), \A x \in D : x.amount \in Nat, NEW K \in SUBSET D
  PROVE  SumAmounts(K) \in Nat /\ SumAmounts(D) \in Nat /\ SumAmounts(K) <= SumAmounts(D)
  <1>1. PICK f : Sums(f, D) /\ \A s \in SUBSET D : SumAmounts(s) = f[s]
    BY SumIs
  <1> DEFINE T == {s \in SUBSET D : K \subseteq s => f[K] <= f[s]}
  <1>2. ASSUME NEW s \in SUBSET D, \A t \in SUBSET s : t # s => t \in T PROVE s \in T
    <2> SUFFICES ASSUME K \subseteq s, K # s PROVE f[K] <= f[s]
      BY <1>1 DEF Sums
    <2>1. PICK x \in s : x \notin K
      OBVIOUS
    <2>2. s \ {x} \in T /\ K \subseteq s \ {x}
      BY <1>2, <2>1
    <2>3. f[K] <= f[s \ {x}]
      BY <2>2
    <2>4. f[s] = x.amount + f[s \ {x}]
      BY <1>1 DEF Sums
    <2>5. f[K] \in Nat /\ f[s \ {x}] \in Nat /\ x.amount \in Nat
      BY <1>1 DEF Sums
    <2> QED BY <2>3, <2>4, <2>5
  <1> HIDE DEF T
  <1>3. \A s \in SUBSET D : s \in T
    BY <1>2, PartByPart
  <1>4. f[K] <= f[D]
    <2>1. D \in T
      BY <1>3
    <2> QED BY <2>1 DEF T
  <1> QED BY <1>1, <1>4 DEF Sums

----------------------------------------------------------------------------
(***************************************************************************)
(* Receipts.                                                               *)
(***************************************************************************)
\* The reports name every payment a receiver took, once each by its nonce,
\* and add up to its total.
ReceiptsInv ==
    /\ \A r \in reports : r.body \in PaymentBodies
    /\ \A i \in Members :
         /\ rcv[i].last <= MaxU64
         /\ rcv[i].received = SumAmounts(Receipts(i))
         /\ \A b \in Receipts(i) : b.nonce \in 1..rcv[i].last /\ b.amount # 0
         /\ \A b, d \in Receipts(i) : b.nonce = d.nonce => b = d

LEMMA ReceiptsFinite ==
  ASSUME TypeOK, ReceiptsInv, NEW i \in Members, NEW K \in SUBSET Receipts(i)
  PROVE  /\ IsFiniteSet(K) /\ Cardinality(K) <= rcv[i].last
         /\ \A b \in K : b \in PaymentBodies /\ b.amount \in Nat /\ b.nonce \in 1..rcv[i].last
         /\ {b.nonce : b \in K} \in SUBSET (1..rcv[i].last)
  <1> DEFINE n == rcv[i].last
             f == [b \in K |-> b.nonce]
  <1>1. n \in Nat
    BY DEF TypeOK, Receivers
  <1>2. ASSUME NEW b \in K PROVE b \in PaymentBodies /\ b.nonce \in 1..n
    <2>1. PICK r \in reports : r.body = b
      BY DEF Receipts
    <2>2. b \in Receipts(i)
      OBVIOUS
    <2> QED BY <2>1, <2>2 DEF ReceiptsInv
  <1>3. \A b, d \in K : b.nonce = d.nonce => b = d
    BY DEF ReceiptsInv
  <1>4. f \in Injection(K, 1..n)
    BY <1>2, <1>3 DEF Injection, IsInjective
  <1> HIDE DEF f, n
  <1>5. IsFiniteSet(1..n) /\ Cardinality(1..n) = n
    <2>1. Cardinality(1..n) = (IF 1 > n THEN 0 ELSE n - 1 + 1) /\ IsFiniteSet(1..n)
      BY <1>1, FS_Interval
    <2> QED BY <1>1, <2>1
  <1>6. IsFiniteSet(K) /\ Cardinality(K) <= n
    BY <1>4, <1>5, FS_Injection
  <1>7. \A b \in K : b.amount \in Nat
    BY <1>2 DEF PaymentBodies
  <1> QED BY <1>2, <1>6, <1>7 DEF n

(* Entitled to a part of what was deposited, a receiver never has more.     *)
LEMMA ReceivedBound ==
  ASSUME IInv, NEW i \in Members PROVE rcv[i].received <= MaxU128
  <1> DEFINE m == v.members[i]
             e == entitlement(v.received, Weights[i])
  <1>1. v \in States /\ validate(v) /\ v.received \in Nat /\ v.received <= MaxU128
    BY WidthAssumption DEF IInv, TypeOK, BooksInv, States
  <1>2. m.paid \in Nat /\ m.claimable \in Nat /\ m.pending \in Nat
    BY <1>1, StateType
  <1>3. m.paid + m.claimable + m.pending = e
    BY <1>1 DEF validate, MemberValid, Share
  <1>4. rcv[i].received = m.paid + IF Landed(i) THEN m.pending ELSE 0
    BY DEF IInv, LedgerAgrees
  <1>5. e \in Nat /\ e * DENOMINATOR <= v.received * Weights[i]
    BY <1>1, EntitlementBounds
  <1>6. v.received * Weights[i] <= v.received * DENOMINATOR
    <2>1. Weights[i] \in Nat /\ Weights[i] <= DENOMINATOR /\ DENOMINATOR \in Nat
      BY ConfigAssumption, WidthAssumption DEF ConfigValid
    <2>2. Weights[i] * v.received <= DENOMINATOR * v.received
      BY <1>1, <2>1, ProductMonotone
    <2> QED BY <1>1, <2>1, <2>2
  <1>7. e <= v.received
    <2> DEFINE x == v.received
    <2>1. x \in Nat /\ e \in Nat /\ DENOMINATOR \in Nat \ {0} /\ e * DENOMINATOR <= x * DENOMINATOR
      <3>1. x * DENOMINATOR \in Nat /\ e * DENOMINATOR \in Nat /\ x * Weights[i] \in Nat
        BY <1>1, <1>5, WeightType, WidthAssumption, ProductNat
      <3> HIDE DEF e
      <3> QED BY <1>1, <1>5, <1>6, <3>1, WidthAssumption
    <2> HIDE DEF x, e
    <2>2. ASSUME e >= x + 1 PROVE FALSE
      <3>1. (x + 1) * DENOMINATOR <= e * DENOMINATOR
        BY <2>1, <2>2, ProductMonotone
      <3>2. (x + 1) * DENOMINATOR = x * DENOMINATOR + DENOMINATOR
        BY <2>1
      <3>3. x * DENOMINATOR \in Nat /\ e * DENOMINATOR \in Nat
        BY <2>1, ProductNat
      <3> QED BY <2>1, <3>1, <3>2, <3>3
    <2>3. e <= x
      BY <2>1, <2>2
    <2> QED BY <2>3 DEF x
  <1> HIDE DEF m, e
  <1>8. rcv[i].received <= e
    BY <1>2, <1>3, <1>4
  <1>9. rcv[i].received \in Nat
    BY DEF IInv, TypeOK, Receivers
  <1> QED BY <1>1, <1>5, <1>7, <1>8, <1>9, WidthAssumption

LEMMA ReceiptsInit == Init => ReceiptsInv
  <1> SUFFICES ASSUME Init PROVE ReceiptsInv
    OBVIOUS
  <1>1. reports = {} /\ \A i \in Members : rcv[i] = NewReceiver
    BY DEF Init
  <1>2. \A i \in Members : Receipts(i) = {}
    BY <1>1 DEF Receipts
  <1>3. \A i \in Members : rcv[i].last = 0 /\ rcv[i].received = 0
    BY <1>1 DEF NewReceiver
  <1> QED BY <1>1, <1>2, <1>3, SumOfNone, WidthAssumption DEF ReceiptsInv

(* A receiver that takes a payment reports it under a nonce above all the   *)
(* earlier ones.                                                            *)
LEMMA DeliveryReported ==
  ASSUME IInv, ReceiptsInv, NEW m \in transit, DeliverOk(m), NEW i, i = m.to, NEW b, b = m.body
  PROVE  ReceiptsInv' /\ \A j \in Members : Receipts(j) \subseteq Receipts(j)'
  <1> DEFINE x == v.members[i]
  <1>1. i \in Members /\ b \in PaymentBodies /\ b = payment_body(i, x.nonce, x.pending) /\ x.pending # 0
    BY DEF IInv, TypeOK, TransitInv, Messages
  <1>2. b.index = i /\ b.nonce = x.nonce /\ b.nonce \in Nat /\ b.amount \in Nat
    BY <1>1 DEF payment_body, PaymentBodies
  <1>3. b.nonce <= MaxU64
    <2>1. v \in States /\ validate(v)
      BY DEF IInv, TypeOK, BooksInv
    <2>2. x.nonce \in 1..v.claim_nonce
      BY <1>1, <2>1 DEF validate, MemberValid
    <2>3. v.claim_nonce \in 0..MaxU64
      BY <2>1 DEF States
    <2> HIDE DEF x
    <2> QED BY <1>2, <2>2, <2>3, WidthAssumption
  <1>4. b.amount # 0 /\ b.nonce # 0 /\ b.nonce > rcv[i].last
    BY DEF DeliverOk, Accepts
  <1>5. TypeOK /\ rcv \in [Members -> Receivers] /\ rcv[i].last \in Nat /\ rcv[i].received \in Nat
    BY <1>1 DEF IInv, TypeOK, Receivers
  <1>6. /\ rcv'[i].last = b.nonce /\ rcv'[i].received = rcv[i].received + b.amount
        /\ \A j \in Members \ {i} : rcv'[j] = rcv[j]
    <2>1. WithReceived(rcv[i], b).last = b.nonce
      BY <1>1, <1>5 DEF WithReceived, Receivers
    <2>2. WithReceived(rcv[i], b).received = rcv[i].received + b.amount
      BY <1>1, <1>5 DEF WithReceived, Receivers
    <2> QED BY <1>1, <1>5, <2>1, <2>2 DEF DeliverOk
  <1>7. reports' = reports \cup ReportsOf(rcv[i], b)
    BY DEF DeliverOk
  <1>8. (\A r \in ReportsOf(rcv[i], b) : r.body = b) /\ \E r \in ReportsOf(rcv[i], b) : TRUE
    <2>1. [body |-> b, copy |-> 1] \in ReportsOf(rcv[i], b)
      BY DEF ReportsOf
    <2> QED BY <2>1 DEF ReportsOf
  <1> HIDE DEF x
  <1>9. /\ Receipts(i)' = Receipts(i) \cup {b}
        /\ \A j \in Members \ {i} : Receipts(j)' = Receipts(j)
    BY <1>2, <1>7, <1>8 DEF Receipts
  <1>10. \A d \in Receipts(i) : d.nonce \in 1..rcv[i].last /\ d.amount # 0
    BY <1>1 DEF ReceiptsInv
  <1>11. b \notin Receipts(i) /\ \A d \in Receipts(i) : d.nonce # b.nonce /\ d.nonce \in 1..b.nonce
    BY <1>2, <1>4, <1>5, <1>10
  <1>12. SumAmounts(Receipts(i) \cup {b}) = SumAmounts(Receipts(i)) + b.amount
    <2> DEFINE K == Receipts(i)
    <2>1. IsFiniteSet(K) /\ \A d \in K : d.amount \in Nat
      BY <1>1, <1>5, ReceiptsFinite
    <2>2. b \notin K /\ \A d \in K \cup {b} : d.amount \in Nat
      BY <1>2, <1>11, <2>1
    <2> HIDE DEF K
    <2>3. SumAmounts(K \cup {b}) = SumAmounts(K) + b.amount
      BY <2>1, <2>2, SumWith
    <2> QED BY <2>3 DEF K
  <1>13. \A r \in reports' : r.body \in PaymentBodies
    BY <1>1, <1>7, <1>8 DEF ReceiptsInv
  <1>14. /\ rcv'[i].last <= MaxU64
         /\ rcv'[i].received = SumAmounts(Receipts(i)')
         /\ \A d \in Receipts(i)' : d.nonce \in 1..rcv'[i].last /\ d.amount # 0
         /\ \A d, e \in Receipts(i)' : d.nonce = e.nonce => d = e
    <2>1. rcv[i].received = SumAmounts(Receipts(i)) /\ \A d, e \in Receipts(i) : d.nonce = e.nonce => d = e
      BY <1>1 DEF ReceiptsInv
    <2>2. b.nonce \in 1..b.nonce
      BY <1>2, <1>4
    <2>3. rcv'[i].received = SumAmounts(Receipts(i)')
      BY <1>6, <1>9, <1>12, <2>1
    <2> QED BY <1>3, <1>4, <1>6, <1>9, <1>10, <1>11, <2>1, <2>2, <2>3
  <1>15. SumAmounts(Receipts(i))' = SumAmounts(Receipts(i)')
    OBVIOUS
  <1>16. \A j \in Members \ {i} : SumAmounts(Receipts(j))' = SumAmounts(Receipts(j))
    BY <1>9
  <1>17. \A j \in Members :
           /\ rcv'[j].last <= MaxU64
           /\ rcv'[j].received = SumAmounts(Receipts(j))'
           /\ \A d \in Receipts(j)' : d.nonce \in 1..rcv'[j].last /\ d.amount # 0
           /\ \A d, e \in Receipts(j)' : d.nonce = e.nonce => d = e
    <2> TAKE j \in Members
    <2>1. CASE j = i
      BY <1>14, <1>15, <2>1
    <2>2. CASE j # i
      BY <1>6, <1>9, <1>16, <2>2 DEF ReceiptsInv
    <2> QED BY <2>1, <2>2
  <1> QED BY <1>9, <1>13, <1>17 DEF ReceiptsInv

(* Every other step leaves the reports and what the receivers took alone.   *)
LEMMA ReceiptsKept ==
  ASSUME ReceiptsInv, reports' = reports,
         \A i \in Members : rcv'[i].last = rcv[i].last /\ rcv'[i].received = rcv[i].received
  PROVE  ReceiptsInv' /\ \A i \in Members : Receipts(i) \subseteq Receipts(i)'
  <1>1. \A i \in Members : Receipts(i)' = Receipts(i)
    BY DEF Receipts
  <1>2. \A i \in Members : SumAmounts(Receipts(i))' = SumAmounts(Receipts(i))
    BY <1>1
  <1> QED BY <1>1, <1>2 DEF ReceiptsInv

LEMMA ReceiptsStep ==
  ASSUME IInv, ReceiptsInv, [Next]_vars
  PROVE  ReceiptsInv' /\ \A i \in Members : Receipts(i) \subseteq Receipts(i)'
  <1>0. rcv \in [Members -> Receivers]
    BY DEF IInv, TypeOK
  <1>1. CASE UNCHANGED <<rcv, reports>>
    BY <1>1, ReceiptsKept
  <1>2. ASSUME NEW i \in Members, NEW source, Bind(i, source)
        PROVE  ReceiptsInv' /\ \A j \in Members : Receipts(j) \subseteq Receipts(j)'
    <2>1. \A j \in Members : rcv'[j].last = rcv[j].last /\ rcv'[j].received = rcv[j].received
      BY <1>0, <1>2 DEF Bind, Receivers
    <2> QED BY <1>2, <2>1, ReceiptsKept DEF Bind
  <1>3. ASSUME NEW i \in Members, NEW flag, SetReject(i, flag) \/ SetDuplicate(i, flag)
        PROVE  ReceiptsInv' /\ \A j \in Members : Receipts(j) \subseteq Receipts(j)'
    <2>1. \A j \in Members : rcv'[j].last = rcv[j].last /\ rcv'[j].received = rcv[j].received
      BY <1>0, <1>3 DEF SetReject, SetDuplicate, Receivers
    <2> QED BY <1>3, <2>1, ReceiptsKept DEF SetReject, SetDuplicate
  <1>4. ASSUME NEW m \in transit, DeliverOk(m)
        PROVE  ReceiptsInv' /\ \A j \in Members : Receipts(j) \subseteq Receipts(j)'
    <2>1. PICK i, b : i = m.to /\ b = m.body
      OBVIOUS
    <2> QED BY <1>4, <2>1, DeliveryReported
  <1>5. CASE Users
    BY <1>1, <1>2, <1>3, <1>5 DEF Users, Initialize, Claim, Deposit, TopUp
  <1>6. CASE Governance
    BY <1>1, <1>6 DEF Governance, Propose, Vote, Execute
  <1>7. CASE Runtime
    BY <1>1, <1>4, <1>7 DEF Runtime, DeliverFailed, Callback, NewBlock
  <1>8. CASE UNCHANGED vars
    BY <1>1, <1>8 DEF vars
  <1> QED BY <1>5, <1>6, <1>7, <1>8 DEF Next

----------------------------------------------------------------------------
(***************************************************************************)
(* Records.                                                                *)
(***************************************************************************)
\* A record is the sum of the payments in known, the latest last.
Explains(known, rec) ==
    /\ rec.count = Cardinality(known)
    /\ rec.total = SumAmounts(known)
    /\ rec.last_nonce = IF known = {} THEN 0 ELSE Max({b.nonce : b \in known})

Explained(s) == \A i \in Members : \E known \in SUBSET Receipts(i) : Explains(known, s.records[i])

LEMMA RecordsAre == RecordsExplained <=> Explained(ledger)
  BY DEF RecordsExplained, Explained, Explains, SumAmounts

\* A report that a receiver sent, as the ledger reads it.
Sent == {ReportOf(r) : r \in reports}

LEMMA SentAre ==
  ASSUME ReceiptsInv
  PROVE  /\ Sent \in SUBSET AuditReports
         /\ \A report \in Sent : /\ report.source = report.body.index
                                 /\ report.body \in Receipts(report.body.index)
  <1>1. \A r \in reports : r.body \in PaymentBodies /\ r.body.index \in Members
    BY DEF ReceiptsInv, PaymentBodies
  <1>2. \A r \in reports : r.body \in Receipts(r.body.index)
    BY DEF Receipts
  <1> QED BY <1>1, <1>2 DEF Sent, ReportOf, AuditReports

(* The largest nonce of some receipts is that of one of them.               *)
LEMMA LatestKnown ==
  ASSUME TypeOK, ReceiptsInv, NEW i \in Members, NEW K \in SUBSET Receipts(i), NEW rec, Explains(K, rec)
  PROVE  /\ rec.last_nonce \in 0..rcv[i].last
         /\ \A b \in K : rec.last_nonce >= b.nonce
  <1> DEFINE n == rcv[i].last
             nonces == {b.nonce : b \in K}
  <1>1. n \in Nat
    BY DEF TypeOK, Receivers
  <1>2. nonces \in SUBSET (1..n) /\ \A b \in K : b.nonce \in nonces
    BY ReceiptsFinite
  <1>3. CASE K = {}
    BY <1>1, <1>3 DEF Explains
  <1>4. CASE K # {}
    <2>1. nonces # {} /\ rec.last_nonce = Max(nonces)
      BY <1>4 DEF Explains
    <2> HIDE DEF n, nonces
    <2>2. Max(nonces) \in nonces /\ \A y \in nonces : Max(nonces) >= y
      BY <1>1, <1>2, <2>1, LargestChosen
    <2>3. Max(nonces) \in 1..n /\ \A b \in K : b.nonce \in 1..n
      BY <1>2, <2>2
    <2> QED BY <1>1, <1>2, <2>1, <2>2, <2>3 DEF n
  <1> QED BY <1>3, <1>4

(* A payment recorded after those already known explains the new record.    *)
LEMMA KnownGrows ==
  ASSUME TypeOK, ReceiptsInv, NEW i \in Members, NEW K \in SUBSET Receipts(i),
         NEW rec, Explains(K, rec), NEW b \in Receipts(i), b.nonce > rec.last_nonce
  PROVE  /\ b \notin K /\ K \cup {b} \in SUBSET Receipts(i)
         /\ Explains(K \cup {b}, [last_nonce |-> b.nonce, total |-> rec.total + b.amount,
                                  count |-> rec.count + 1])
  <1> DEFINE L == K \cup {b}
             n == rcv[i].last
  <1>1. n \in Nat
    BY DEF TypeOK, Receivers
  <1>2. L \in SUBSET Receipts(i)
    OBVIOUS
  <1>3. /\ \A d \in L : d.amount \in Nat /\ d.nonce \in 1..n
        /\ {d.nonce : d \in L} \in SUBSET (1..n)
    BY <1>2, ReceiptsFinite
  <1>4. rec.last_nonce \in 0..n /\ \A d \in K : rec.last_nonce >= d.nonce
    BY LatestKnown
  <1>5. b \notin K
    <2>1. b \in K => rec.last_nonce >= b.nonce
      BY <1>4
    <2>2. b.nonce \in Nat /\ rec.last_nonce \in Nat
      BY <1>1, <1>3, <1>4
    <2> QED BY <2>1, <2>2
  <1>6. IsFiniteSet(K) /\ Cardinality(L) = Cardinality(K) + 1
    BY <1>5, ReceiptsFinite, FS_AddElement
  <1>7. SumAmounts(L) = SumAmounts(K) + b.amount
    BY <1>3, <1>5, <1>6, SumWith
  <1>8. Max({d.nonce : d \in L}) = b.nonce
    <2> DEFINE nonces == {d.nonce : d \in L}
    <2>1. b.nonce \in nonces /\ \A y \in nonces : b.nonce >= y
      <3>1. \A d \in K : b.nonce >= d.nonce
        <4> TAKE d \in K
        <4>1. rec.last_nonce >= d.nonce /\ d.nonce \in Nat /\ b.nonce \in Nat /\ rec.last_nonce \in Nat
          BY <1>1, <1>3, <1>4
        <4> QED BY <4>1
      <3>2. b.nonce >= b.nonce
        BY <1>3
      <3> QED BY <3>1, <3>2
    <2>2. nonces \in SUBSET (1..n) /\ nonces # {}
      BY <1>3
    <2> HIDE DEF nonces, n
    <2>3. Max(nonces) \in nonces /\ Max(nonces) >= b.nonce
      BY <1>1, <2>1, <2>2, LargestChosen
    <2>4. b.nonce \in 1..n /\ Max(nonces) \in 1..n
      BY <2>1, <2>2, <2>3
    <2>5. b.nonce >= Max(nonces)
      BY <2>1, <2>3
    <2>6. Max(nonces) = b.nonce
      BY <1>1, <2>3, <2>4, <2>5
    <2> QED BY <2>6 DEF nonces
  <1>9. L # {} /\ rec.count = Cardinality(K) /\ rec.total = SumAmounts(K)
    BY DEF Explains
  <1> HIDE DEF L
  <1>10. Explains(L, [last_nonce |-> b.nonce, total |-> rec.total + b.amount, count |-> rec.count + 1])
    BY <1>6, <1>7, <1>8, <1>9 DEF Explains
  <1> QED BY <1>2, <1>5, <1>10 DEF L

(* A report recorded or refused leaves every record explained.              *)
LEMMA ReportExplained ==
  ASSUME TypeOK, ReceiptsInv, NEW s, Lawful(s), Explained(s), NEW report \in Sent
  PROVE  Explained(Audit!isolated(s, report))
  <1> DEFINE b == report.body
             i == b.index
             t == Audit!isolated(s, report)
  <1>1. /\ report \in AuditReports /\ b \in PaymentBodies /\ i \in Members /\ b \in Receipts(i)
    BY SentAre DEF AuditReports, PaymentBodies
  <1>2. t.records = StageOne(s, s.records, report)
    BY <1>1, IsolatedIs
  <1> HIDE DEF t
  <1>3. CASE ~Audit!accepted(s, s.records, report)
    <2>1. t.records = s.records
      BY <1>2, <1>3 DEF StageOne
    <2> QED BY <2>1 DEF Explained, t
  <1>4. CASE Audit!accepted(s, s.records, report)
    <2>1. t.records = Audit!Recorded(s.records, b) /\ b.nonce > s.records[i].last_nonce
      BY <1>2, <1>4 DEF StageOne, Audit!accepted
    <2>2. s.records \in Records
      BY DEF Lawful, Ledgers
    <2>3. /\ t.records[i] = [last_nonce |-> b.nonce, total |-> s.records[i].total + b.amount,
                             count |-> s.records[i].count + 1]
          /\ \A j \in Members \ {i} : t.records[j] = s.records[j]
      BY <1>1, <2>1, <2>2, RecordedType
    <2>4. PICK K \in SUBSET Receipts(i) : Explains(K, s.records[i])
      BY <1>1 DEF Explained
    <2> HIDE DEF i, b
    <2>5. K \cup {b} \in SUBSET Receipts(i) /\ Explains(K \cup {b}, t.records[i])
      BY <1>1, <2>1, <2>3, <2>4, KnownGrows
    <2>6. \A j \in Members : \E known \in SUBSET Receipts(j) : Explains(known, t.records[j])
      BY <2>3, <2>5 DEF Explained
    <2> QED BY <2>6 DEF Explained, t
  <1> QED BY <1>3, <1>4

----------------------------------------------------------------------------
(***************************************************************************)
(* The inductive invariant of the hub.                                     *)
(***************************************************************************)
HubInv == IInv /\ ReceiptsInv /\ Lawful(ledger) /\ Explained(ledger)

LEMMA NewLedgerLawful == Lawful(Audit!NewLedger) /\ Audit!NewLedger.records = [i \in Members |-> Audit!NewRecord]
  <1>1. Audit!NewRecord \in [last_nonce : Nat, total : Nat, count : Nat] /\ Audit!NewRecord.count = 0
    BY DEF Audit!NewRecord
  <1> QED BY <1>1, AuditIndices DEF Audit!NewLedger, Lawful, Ledgers, Records, Audit!validate

LEMMA HubInitInvariant == HubInit => HubInv
  <1> SUFFICES ASSUME HubInit PROVE HubInv
    OBVIOUS
  <1>1. IInv /\ ReceiptsInv /\ ledger = Audit!NewLedger
    BY InitInvariant, ReceiptsInit DEF HubInit
  <1>2. ASSUME NEW i \in Members PROVE \E known \in SUBSET Receipts(i) : Explains(known, ledger.records[i])
    <2>1. ledger.records[i] = Audit!NewRecord
      BY <1>1, NewLedgerLawful
    <2>2. Explains({}, ledger.records[i])
      BY <2>1, SumOfNone, FS_EmptySet DEF Explains, Audit!NewRecord
    <2> QED BY <2>2
  <1> QED BY <1>1, <1>2, NewLedgerLawful DEF HubInv, Explained

(* The owner's bindings leave a ledger that decodes, with the same records. *)
LEMMA BindLawful ==
  ASSUME NEW s, Lawful(s), NEW i \in Members, NEW source \in Members, Audit!CanBind(s, i, source)
  PROVE  Lawful(Audit!Bound(s, i, source)) /\ Audit!Bound(s, i, source).records = s.records
  <1> DEFINE t == Audit!Bound(s, i, source)
  <1>1. s \in Ledgers /\ Audit!validate(s) /\ \A j \in Members : s.sources[j] # source
    BY AuditIndices DEF Lawful, Audit!CanBind
  <1>2. t = [s EXCEPT !.sources = [s.sources EXCEPT ![i] = source]]
    BY <1>1 DEF Audit!Bound, Ledgers
  <1> HIDE DEF t
  <1>3. /\ t \in Ledgers /\ t.records = s.records /\ t.sources[i] = source
        /\ \A j \in Members \ {i} : t.sources[j] = s.sources[j]
    BY <1>1, <1>2 DEF Ledgers
  <1>4. Audit!validate(t)
    BY <1>1, <1>3, AuditIndices DEF Audit!validate
  <1> QED BY <1>3, <1>4 DEF Lawful, t

(* A batch holds reports the receivers sent.                                *)
LEMMA BatchesSent ==
  ASSUME NEW batch \in Batches
  PROVE  batch \in Seq(Sent) /\ DOMAIN batch = 1..Len(batch) /\ Len(batch) \in Nat
  <1>1. PICK n \in BatchSizes : batch \in {[k \in 1..n |-> ReportOf(rs[k])] : rs \in [1..n -> reports]}
    BY DEF Batches
  <1>2. PICK rs \in [1..n -> reports] : batch = [k \in 1..n |-> ReportOf(rs[k])]
    BY <1>1
  <1>3. n \in Nat
    BY HubAssumption
  <1>4. \A k \in 1..n : ReportOf(rs[k]) \in Sent
    BY DEF Sent
  <1>5. batch \in [1..n -> Sent]
    BY <1>2, <1>4
  <1> QED BY <1>3, <1>5

(* What the batch leaves of the ledger.                                     *)
LEMMA BatchLeaves ==
  ASSUME TypeOK, ReceiptsInv, NEW s, Lawful(s), Explained(s), NEW q \in Seq(Sent), Len(q) <= MAX_BATCH
  PROVE  LET got == Audit!process_batch(s, Audit!DataPatchList, q) IN
         /\ Lawful(got.state) /\ Explained(got.state)
         /\ got.state = After(s, SubSeq(q, 1, Len(q)))
         /\ \A k \in 1..Len(q) :
              got.statuses[k] <=> After(s, SubSeq(q, 1, k)) # After(s, SubSeq(q, 1, k - 1))
  <1> DEFINE R == {t \in Ledgers : Lawful(t) /\ t.sources = s.sources /\ Explained(t)}
  <1>1. s \in R /\ \A t \in R : Lawful(t) /\ t.sources = s.sources /\ Explained(t)
    BY DEF Lawful
  <1>2. Sent \in SUBSET AuditReports
    BY SentAre
  <1>3. ASSUME NEW t \in R, NEW report \in Sent PROVE Audit!isolated(t, report) \in R
    <2>1. Lawful(t) /\ t.sources = s.sources /\ Explained(t) /\ report \in AuditReports
      BY <1>1, <1>2
    <2>2. Lawful(Audit!isolated(t, report)) /\ Audit!isolated(t, report).sources = t.sources
      BY <2>1, IsolatedIs
    <2>3. Explained(Audit!isolated(t, report))
      BY <2>1, ReportExplained
    <2> QED BY <2>1, <2>2, <2>3 DEF Lawful
  <1>4. MAX_BATCH \in Nat
    BY HubAssumption
  <1> DEFINE got == Audit!process_batch(s, Audit!DataPatchList, q)
  <1>5. /\ got.state \in R
        /\ got.state = After(s, SubSeq(q, 1, Len(q)))
        /\ \A k \in 1..Len(q) :
             got.statuses[k] <=> After(s, SubSeq(q, 1, k)) # After(s, SubSeq(q, 1, k - 1))
    <2> HIDE DEF R, got
    <2> QED BY <1>1, <1>2, <1>3, <1>4, BatchOneByOne DEF got
  <1>6. Lawful(got.state) /\ Explained(got.state)
    BY <1>1, <1>5
  <1> HIDE DEF got
  <1> QED BY <1>5, <1>6 DEF got

LEMMA HubNextInvariant == HubInv /\ [HubNext]_hubVars => HubInv'
  <1> SUFFICES ASSUME HubInv, [HubNext]_hubVars PROVE HubInv'
    OBVIOUS
  <1>0. IInv /\ TypeOK /\ ReceiptsInv /\ Lawful(ledger) /\ Explained(ledger)
    BY DEF HubInv, IInv
  <1>1. ASSUME UNCHANGED vars, Lawful(ledger'), Explained(ledger') PROVE HubInv'
    <2>1. [Next]_vars
      BY <1>1
    <2>2. IInv' /\ ReceiptsInv'
      BY <1>0, <2>1, NextInvariant, ReceiptsStep
    <2>3. \A i \in Members : Receipts(i)' = Receipts(i)
      BY <1>1 DEF Receipts, vars
    <2>4. Explained(ledger)'
      BY <1>1, <2>3 DEF Explained
    <2>5. Lawful(ledger)'
      BY <1>1
    <2> QED BY <2>2, <2>4, <2>5 DEF HubInv
  <1>2. CASE [Next]_vars /\ ledger' = ledger
    <2>1. IInv' /\ ReceiptsInv' /\ \A i \in Members : Receipts(i) \subseteq Receipts(i)'
      BY <1>0, <1>2, NextInvariant, ReceiptsStep
    <2>2. \A i \in Members : \E known \in SUBSET Receipts(i)' : Explains(known, ledger.records[i])
      BY <1>0, <2>1 DEF Explained
    <2>3. Explained(ledger)'
      BY <1>2, <2>2 DEF Explained, Explains
    <2>4. Lawful(ledger)'
      BY <1>0, <1>2
    <2> QED BY <2>1, <2>3, <2>4 DEF HubInv
  <1>3. ASSUME NEW mode, NEW i \in Members, NEW source \in Members, AuditBind(i, source, mode)
        PROVE  HubInv'
    <2>1. Lawful(ledger') /\ ledger'.records = ledger.records
      BY <1>0, <1>3, BindLawful DEF AuditBind
    <2>2. Explained(ledger')
      BY <1>0, <2>1 DEF Explained
    <2> QED BY <1>1, <1>3, <2>1, <2>2 DEF AuditBind
  <1>4. ASSUME NEW mode, AuditStatus(mode) PROVE HubInv'
    BY <1>2, <1>4 DEF AuditStatus
  <1>5. ASSUME NEW mode, NEW r \in reports, AuditOne(r, mode) PROVE HubInv'
    <2>1. ReportOf(r) \in Sent /\ ReportOf(r) \in AuditReports
      BY <1>0, SentAre DEF Sent
    <2>2. ledger' = Audit!isolated(ledger, ReportOf(r))
      BY <1>5 DEF AuditOne
    <2>3. Lawful(ledger') /\ Explained(ledger')
      BY <1>0, <2>1, <2>2, IsolatedIs, ReportExplained
    <2> QED BY <1>1, <1>5, <2>3 DEF AuditOne
  <1>6. ASSUME NEW mode, NEW batch \in Batches, AuditBatch(batch, mode) PROVE HubInv'
    <2>1. batch \in Seq(Sent) /\ Sent \in SUBSET AuditReports
      BY <1>0, BatchesSent, SentAre
    <2>2. ledger' = Audit!process_batch(ledger, Audit!DataPatchList, batch).state
      BY <1>6 DEF AuditBatch
    <2>3. CASE Len(batch) <= MAX_BATCH
      <3>1. Lawful(ledger') /\ Explained(ledger')
        BY <1>0, <2>1, <2>2, <2>3, BatchLeaves
      <3> QED BY <1>1, <1>6, <3>1 DEF AuditBatch
    <2>4. CASE ~(Len(batch) <= MAX_BATCH)
      <3>1. ledger' = ledger
        <4>1. ~Audit!Runs(ledger, Audit!DataPatchList, batch) /\ batch \in Seq(AuditReports)
          BY <2>1, <2>4 DEF Audit!Runs
        <4> QED BY <1>0, <2>2, <4>1, BatchRefused
      <3> QED BY <1>2, <1>6, <3>1 DEF AuditBatch
    <2> QED BY <2>3, <2>4
  <1>7. ASSUME NEW batch \in Batches, AuditBatchRefused(batch) PROVE HubInv'
    <2>1. batch \in Seq(AuditReports)
      BY <1>0, BatchesSent, SentAre
    <2>2. ~Audit!Runs(ledger, Audit!FullReplace, batch)
      BY DEF Audit!Runs, Audit!FullReplace, Audit!DataPatchList
    <2>3. ledger' = ledger
      BY <1>0, <1>7, <2>1, <2>2, BatchRefused DEF AuditBatchRefused
    <2> QED BY <1>2, <1>7, <2>3 DEF AuditBatchRefused
  <1>8. CASE UNCHANGED hubVars
    BY <1>2, <1>8 DEF hubVars
  <1> QED BY <1>2, <1>3, <1>4, <1>5, <1>6, <1>7, <1>8 DEF HubNext

THEOREM HubInvariance == HubSpec => []HubInv
  <1> QED BY HubInitInvariant, HubNextInvariant, PTL DEF HubSpec

(* Nothing is recorded that was not received, nothing twice, and the report *)
(* of a bound member's latest payment is always recordable: neither the     *)
(* record's total nor its count can run out before the receiver's own.      *)
THEOREM RecordsFollow == HubSpec => []RecordsFollowReceipts
  <1> SUFFICES HubInv => RecordsFollowReceipts
    BY HubInvariance, PTL
  <1> SUFFICES ASSUME HubInv PROVE RecordsFollowReceipts
    OBVIOUS
  <1>0. IInv /\ TypeOK /\ ReceiptsInv /\ Lawful(ledger) /\ Explained(ledger)
    BY DEF HubInv, IInv
  <1>1. ASSUME NEW r \in reports, NEW i, i = r.body.index,
               ledger.sources[i] = i, r.body.nonce = rcv[i].last,
               ledger.records[i].last_nonce # r.body.nonce
        PROVE  Audit!isolated(ledger, ReportOf(r)).records[i].last_nonce = rcv[i].last
    <2> DEFINE report == ReportOf(r)
               b == r.body
               rec == ledger.records[i]
    <2>1. report \in AuditReports /\ report.source = i /\ report.body = b
      BY <1>0, <1>1, SentAre DEF Sent, ReportOf
    <2>2. b \in Receipts(i) /\ i \in Members /\ b \in PaymentBodies
      BY <1>0, <1>1, <2>1 DEF Receipts, ReceiptsInv, PaymentBodies
    <2>3. b.nonce \in 1..rcv[i].last /\ b.amount # 0 /\ rcv[i].last \in Nat /\ rcv[i].last <= MaxU64
      BY <1>0, <2>2 DEF ReceiptsInv, TypeOK, Receivers
    <2>4. PICK K \in SUBSET Receipts(i) : Explains(K, rec)
      BY <1>0, <2>2 DEF Explained
    <2> HIDE DEF rec, b
    <2>5. rec.last_nonce \in 0..rcv[i].last
      BY <1>0, <2>2, <2>4, LatestKnown
    <2>6. b.nonce > rec.last_nonce
      BY <1>1, <2>3, <2>5 DEF rec, b
    <2> DEFINE L == K \cup {b}
               new == [last_nonce |-> b.nonce, total |-> rec.total + b.amount, count |-> rec.count + 1]
    <2>7. L \in SUBSET Receipts(i) /\ Explains(L, new)
      BY <1>0, <2>2, <2>4, <2>6, KnownGrows
    <2> HIDE DEF L
    <2>8. rec.total + b.amount <= MaxU128
      <3>1. IsFiniteSet(Receipts(i)) /\ \A d \in Receipts(i) : d.amount \in Nat
        BY <1>0, <2>2, ReceiptsFinite
      <3>2. SumAmounts(L) <= SumAmounts(Receipts(i)) /\ SumAmounts(L) \in Nat /\ SumAmounts(Receipts(i)) \in Nat
        BY <2>7, <3>1, SumWithin
      <3>3. SumAmounts(Receipts(i)) <= MaxU128
        BY <1>0, <2>2, ReceivedBound DEF ReceiptsInv
      <3>4. SumAmounts(L) = rec.total + b.amount
        BY <2>7 DEF Explains
      <3> QED BY <3>2, <3>3, <3>4, WidthAssumption
    <2>9. rec.count + 1 <= MaxU64
      <3>1. Cardinality(L) <= rcv[i].last /\ IsFiniteSet(L)
        BY <1>0, <2>2, <2>7, ReceiptsFinite
      <3>2. Cardinality(L) = rec.count + 1
        BY <2>7 DEF Explains
      <3>3. Cardinality(L) \in Nat
        BY <3>1, FS_CardinalityType
      <3> QED BY <2>3, <3>1, <3>2, <3>3, WidthAssumption
    <2>10. b.index = i /\ b.nonce # 0
      BY <1>1, <2>3 DEF b
    <2>11. Audit!accepted(ledger, ledger.records, report)
      BY <1>1, <2>1, <2>2, <2>3, <2>6, <2>8, <2>9, <2>10, AuditIndices DEF Audit!accepted, rec
    <2>12. Audit!isolated(ledger, report).records = Audit!Recorded(ledger.records, b)
      BY <1>0, <2>1, <2>11, IsolatedIs DEF StageOne
    <2>13. Audit!Recorded(ledger.records, b)[i].last_nonce = b.nonce
      <3>1. ledger.records \in Records
        BY <1>0 DEF Lawful, Ledgers
      <3>2. Audit!Recorded(ledger.records, b)[b.index] =
              [last_nonce |-> b.nonce, total |-> ledger.records[b.index].total + b.amount,
               count |-> ledger.records[b.index].count + 1]
        BY <2>2, <3>1, RecordedType
      <3> QED BY <2>10, <3>2
    <2> QED BY <1>1, <2>12, <2>13 DEF b
  <1>2. LatestReportCounts
    BY <1>1 DEF LatestReportCounts
  <1> QED BY <1>0, <1>2, RecordsAre DEF RecordsFollowReceipts

(* The ledger a batch leaves, and the status of each of its messages, are   *)
(* those of the same messages delivered one by one, in every state the hub  *)
(* reaches; a batch over the limit changes nothing.                         *)
THEOREM BatchesLikeOneByOne == HubSpec => []BatchEqualsIsolated
  <1> SUFFICES HubInv => BatchEqualsIsolated
    BY HubInvariance, PTL
  <1> SUFFICES ASSUME HubInv, NEW batch \in Batches
               PROVE  LET after(k) == After(ledger, SubSeq(batch, 1, k))
                          got == Audit!process_batch(ledger, Audit!DataPatchList, batch)
                      IN /\ Len(batch) <= MAX_BATCH => got.state = after(Len(batch))
                         /\ Len(batch) <= MAX_BATCH =>
                              \A k \in DOMAIN batch : got.statuses[k] <=> after(k) # after(k - 1)
                         /\ Len(batch) > MAX_BATCH => /\ got.state = ledger
                                                      /\ \A k \in DOMAIN batch : ~got.statuses[k]
    BY DEF BatchEqualsIsolated, After
  <1>0. IInv /\ TypeOK /\ ReceiptsInv /\ Lawful(ledger) /\ Explained(ledger)
    BY DEF HubInv, IInv
  <1>1. /\ batch \in Seq(Sent) /\ DOMAIN batch = 1..Len(batch) /\ Len(batch) \in Nat
        /\ batch \in Seq(AuditReports)
    BY <1>0, BatchesSent, SentAre
  <1>2. CASE Len(batch) <= MAX_BATCH
    <2>1. ~(Len(batch) > MAX_BATCH)
      BY <1>1, <1>2, HubAssumption
    <2> QED BY <1>0, <1>1, <1>2, <2>1, BatchLeaves
  <1>3. CASE ~(Len(batch) <= MAX_BATCH)
    <2>1. ~Audit!Runs(ledger, Audit!DataPatchList, batch)
      BY <1>3 DEF Audit!Runs
    <2> QED BY <1>0, <1>1, <1>3, <2>1, BatchRefused
  <1> QED BY <1>2, <1>3

----------------------------------------------------------------------------
(***************************************************************************)
(* Bytes.                                                                  *)
(***************************************************************************)
\* Strings of bytes, as the compact ledger's module represents them.
ByteStrings ==
    {b \in [len : Nat, at : UNION {[D -> Nat] : D \in SUBSET Nat}] :
       \A o \in DOMAIN b.at : o < b.len /\ b.at[o] # 0}

(* What it is to be one of them.                                            *)
LEMMA StringsAre ==
  ASSUME NEW b \in ByteStrings
  PROVE  /\ b.len \in Nat /\ DOMAIN b.at \in SUBSET Nat
         /\ b.at = [o \in DOMAIN b.at |-> b.at[o]]
         /\ \A o \in DOMAIN b.at : b.at[o] \in Nat /\ b.at[o] # 0 /\ o < b.len
         /\ b = [len |-> b.len, at |-> b.at]
  <1>1. PICK D \in SUBSET Nat : b.at \in [D -> Nat]
    BY DEF ByteStrings
  <1> QED BY <1>1 DEF ByteStrings

(* A byte reads as its field if one starts there and as zero elsewhere,     *)
(* past the end included.                                                   *)
LEMMA ValueNat ==
  ASSUME NEW b \in ByteStrings, NEW o
  PROVE  /\ Compact!ValueAt(b, o) \in Nat
         /\ Compact!ValueAt(b, o) # 0 <=> o \in DOMAIN b.at
         /\ o \notin 0..(b.len - 1) => Compact!ValueAt(b, o) = 0
  <1>1. b.len \in Nat /\ \A x \in DOMAIN b.at : b.at[x] \in Nat /\ b.at[x] # 0 /\ x \in Nat /\ x < b.len
    BY StringsAre
  <1>2. CASE o \in DOMAIN b.at
    <2>1. Compact!ValueAt(b, o) = b.at[o]
      BY <1>2 DEF Compact!ValueAt
    <2>2. b.at[o] \in Nat /\ b.at[o] # 0 /\ o \in 0..(b.len - 1)
      BY <1>1, <1>2
    <2> QED BY <1>2, <2>1, <2>2
  <1>3. CASE o \notin DOMAIN b.at
    <2>1. Compact!ValueAt(b, o) = 0
      BY <1>3 DEF Compact!ValueAt
    <2> QED BY <1>3, <2>1
  <1> QED BY <1>2, <1>3

(* Fields at the offsets D of a string, and the string that says just that. *)
FieldsAt(len, D, fields) ==
    len \in Nat /\ D \in SUBSET Nat /\ fields \in [D -> Nat] /\ \A o \in D : o < len

Says(b, len, D, fields) ==
    /\ b \in ByteStrings /\ b.len = len
    /\ \A o : Compact!ValueAt(b, o) = IF o \in D THEN fields[o] ELSE 0

(* Zeros are left out.                                                      *)
LEMMA BytesRead ==
  ASSUME NEW len, NEW D, NEW fields, FieldsAt(len, D, fields)
  PROVE  Says(Compact!Bytes(len, fields), len, D, fields)
  <1>0. len \in Nat /\ D \in SUBSET Nat /\ fields \in [D -> Nat] /\ \A o \in D : o < len
    BY DEF FieldsAt
  <1> DEFINE E == {o \in DOMAIN fields : fields[o] # 0}
             at == [o \in E |-> fields[o]]
             b == Compact!Bytes(len, fields)
  <1>1. b = [len |-> len, at |-> at]
    BY DEF Compact!Bytes, Compact!NonZero, Restrict, Compact!Restrict
  <1>2. at \in [E -> Nat] /\ E \in SUBSET Nat /\ (\A o \in E : at[o] # 0 /\ o < len) /\ DOMAIN at = E
    BY <1>0
  <1>3. \A o : o \in E <=> o \in D /\ fields[o] # 0
    BY <1>0
  <1>4. \A o \in E : at[o] = fields[o]
    OBVIOUS
  <1> HIDE DEF at, E, b
  <1>5. b \in ByteStrings
    BY <1>0, <1>1, <1>2 DEF ByteStrings
  <1>6. \A o : Compact!ValueAt(b, o) = IF o \in D THEN fields[o] ELSE 0
    BY <1>1, <1>2, <1>3, <1>4 DEF Compact!ValueAt
  <1> QED BY <1>1, <1>5, <1>6 DEF b, Says

(* A slice reads as the bytes it was cut from.                              *)
LEMMA SliceReads ==
  ASSUME NEW b \in ByteStrings, NEW first \in Nat, NEW len \in Nat
  PROVE  /\ Compact!Slice(b, first, len) \in ByteStrings
         /\ Compact!Slice(b, first, len).len = len
         /\ \A k \in Nat : Compact!ValueAt(Compact!Slice(b, first, len), k)
                             = IF k < len THEN Compact!ValueAt(b, first + k) ELSE 0
  <1> DEFINE inside == {o \in DOMAIN b.at : first <= o /\ o < first + len}
             D == {o - first : o \in inside}
             fields == [k \in D |-> b.at[k + first]]
  <1>1. /\ DOMAIN b.at \in SUBSET Nat /\ \A o \in DOMAIN b.at : b.at[o] \in Nat
    BY StringsAre
  <1>2. D \in SUBSET Nat /\ (\A k \in D : k < len) /\ \A k \in Nat : k \in D <=> k < len /\ first + k \in DOMAIN b.at
    <2>1. ASSUME NEW o \in inside PROVE o - first \in Nat /\ o - first < len
      BY <1>1
    <2>2. ASSUME NEW k \in Nat PROVE k \in D <=> k < len /\ first + k \in DOMAIN b.at
      <3>1. ASSUME k \in D PROVE k < len /\ first + k \in DOMAIN b.at
        <4>1. PICK o \in inside : k = o - first
          BY <3>1
        <4>2. o \in Nat /\ first + k = o
          BY <1>1, <4>1
        <4> QED BY <2>1, <4>1, <4>2
      <3>2. ASSUME k < len, first + k \in DOMAIN b.at PROVE k \in D
        <4>1. first + k \in inside /\ (first + k) - first = k
          BY <3>2
        <4> QED BY <4>1
      <3> QED BY <3>1, <3>2
    <2> QED BY <2>1, <2>2
  <1>3. \A k \in D : k + first = first + k /\ k + first \in DOMAIN b.at
    BY <1>2
  <1>4. fields \in [D -> Nat] /\ \A k \in D : fields[k] = b.at[first + k]
    BY <1>1, <1>3
  <1>5. Compact!Slice(b, first, len) = Compact!Bytes(len, fields)
    BY DEF Compact!Slice
  <1> HIDE DEF fields, D
  <1>6. \A k \in Nat : (IF k \in D THEN fields[k] ELSE 0) = IF k < len THEN Compact!ValueAt(b, first + k) ELSE 0
    BY <1>2, <1>4 DEF Compact!ValueAt
  <1>7. /\ Compact!Bytes(len, fields) \in ByteStrings /\ Compact!Bytes(len, fields).len = len
        /\ \A k : Compact!ValueAt(Compact!Bytes(len, fields), k) = IF k \in D THEN fields[k] ELSE 0
    <2>1. FieldsAt(len, D, fields)
      BY <1>2, <1>4 DEF FieldsAt
    <2>2. Says(Compact!Bytes(len, fields), len, D, fields)
      BY <2>1, BytesRead
    <2> QED BY <2>2 DEF Says
  <1> QED BY <1>5, <1>6, <1>7

(* A copy reads as the piece inside and as the old bytes outside it.        *)
LEMMA CopiedReads ==
  ASSUME NEW b \in ByteStrings, NEW first \in Nat, NEW piece \in ByteStrings,
         first + piece.len <= b.len
  PROVE  /\ Compact!Copied(b, first, piece) \in ByteStrings
         /\ Compact!Copied(b, first, piece).len = b.len
         /\ \A o \in Nat : Compact!ValueAt(Compact!Copied(b, first, piece), o)
              = IF first <= o /\ o < first + piece.len THEN Compact!ValueAt(piece, o - first)
                ELSE Compact!ValueAt(b, o)
  <1> DEFINE outside == {o \in DOMAIN b.at : o < first \/ first + piece.len <= o}
             written == {first + k : k \in DOMAIN piece.at}
             D == outside \cup written
             fields == [o \in D |-> IF o \in written THEN piece.at[o - first] ELSE b.at[o]]
  <1>1. /\ DOMAIN b.at \in SUBSET Nat /\ \A o \in DOMAIN b.at : b.at[o] \in Nat /\ o < b.len
        /\ DOMAIN piece.at \in SUBSET Nat
        /\ \A k \in DOMAIN piece.at : piece.at[k] \in Nat /\ k < piece.len
        /\ b.len \in Nat /\ piece.len \in Nat
    BY StringsAre
  <1>2. \A o \in Nat : o \in written <=> first <= o /\ o - first \in DOMAIN piece.at
    <2> TAKE o \in Nat
    <2>1. ASSUME o \in written PROVE first <= o /\ o - first \in DOMAIN piece.at
      <3>1. PICK k \in DOMAIN piece.at : o = first + k
        BY <2>1
      <3>2. k \in Nat /\ o - first = k
        BY <1>1, <3>1
      <3> QED BY <3>1, <3>2
    <2>2. ASSUME first <= o, o - first \in DOMAIN piece.at PROVE o \in written
      <3>1. o = first + (o - first)
        OBVIOUS
      <3> QED BY <2>2, <3>1
    <2> QED BY <2>1, <2>2
  <1>3. written \in SUBSET Nat /\ \A o \in written : o < first + piece.len /\ o < b.len
    <2> SUFFICES ASSUME NEW k \in DOMAIN piece.at
                 PROVE  first + k \in Nat /\ first + k < first + piece.len /\ first + k < b.len
      OBVIOUS
    <2> QED BY <1>1
  <1>4. outside \in SUBSET Nat /\ \A o \in outside : o < b.len /\ o \in DOMAIN b.at
    BY <1>1
  <1>5. \A o : o \in outside <=> o \in DOMAIN b.at /\ (o < first \/ first + piece.len <= o)
    OBVIOUS
  <1> HIDE DEF outside, written
  <1>6. D \in SUBSET Nat /\ \A o \in D : o < b.len
    BY <1>3, <1>4
  <1>7. fields \in [D -> Nat]
    <2>1. ASSUME NEW o \in written PROVE piece.at[o - first] \in Nat
      BY <1>1, <1>2, <1>3
    <2>2. ASSUME NEW o \in outside PROVE b.at[o] \in Nat
      BY <1>1, <1>4
    <2> QED BY <2>1, <2>2
  <1>8. \A o \in D : fields[o] = IF o \in written THEN piece.at[o - first] ELSE b.at[o]
    OBVIOUS
  <1>9. Compact!Copied(b, first, piece) = Compact!Bytes(b.len, fields)
    BY DEF Compact!Copied, outside, written
  <1> HIDE DEF fields, D
  <1>10. \A o \in Nat : (IF o \in D THEN fields[o] ELSE 0)
              = IF first <= o /\ o < first + piece.len THEN Compact!ValueAt(piece, o - first)
                ELSE Compact!ValueAt(b, o)
    <2> TAKE o \in Nat
    <2>1. CASE o \in written
      <3>1. first <= o /\ o < first + piece.len /\ o - first \in DOMAIN piece.at /\ o \in D
        BY <1>2, <1>3, <2>1 DEF D
      <3> QED BY <1>8, <2>1, <3>1 DEF Compact!ValueAt
    <2>2. CASE o \in outside
      <3>1. o \in D /\ o \in DOMAIN b.at /\ ~(first <= o /\ o < first + piece.len) /\ o \notin written
        BY <1>1, <1>3, <1>5, <1>2, <2>2 DEF D
      <3> QED BY <1>8, <3>1 DEF Compact!ValueAt
    <2>3. CASE o \notin D
      <3>1. o \notin written /\ o \notin outside
        BY <2>3 DEF D
      <3>2. first <= o => o - first \notin DOMAIN piece.at
        BY <1>2, <3>1
      <3>3. ~(first <= o /\ o < first + piece.len) => o \notin DOMAIN b.at
        BY <1>1, <1>5, <3>1
      <3> QED BY <2>3, <3>2, <3>3 DEF Compact!ValueAt
    <2> QED BY <2>1, <2>2, <2>3 DEF D
  <1>11. /\ Compact!Bytes(b.len, fields) \in ByteStrings /\ Compact!Bytes(b.len, fields).len = b.len
         /\ \A o : Compact!ValueAt(Compact!Bytes(b.len, fields), o) = IF o \in D THEN fields[o] ELSE 0
    <2>1. FieldsAt(b.len, D, fields)
      BY <1>1, <1>6, <1>7 DEF FieldsAt
    <2>2. Says(Compact!Bytes(b.len, fields), b.len, D, fields)
      BY <2>1, BytesRead
    <2> QED BY <2>2 DEF Says
  <1> QED BY <1>9, <1>10, <1>11

(* Strings of the same length that read the same are the same.              *)
LEMMA SameBytes ==
  ASSUME NEW a \in ByteStrings, NEW b \in ByteStrings, a.len = b.len,
         \A o \in Nat : Compact!ValueAt(a, o) = Compact!ValueAt(b, o)
  PROVE  a = b
  <1>1. \A o \in Nat : o \in DOMAIN a.at <=> o \in DOMAIN b.at
    BY ValueNat
  <1>2. DOMAIN a.at = DOMAIN b.at
    BY <1>1, StringsAre
  <1>3. \A o \in DOMAIN a.at : a.at[o] = b.at[o]
    BY <1>2, StringsAre DEF Compact!ValueAt
  <1>4. a.at = b.at
    BY <1>2, <1>3, StringsAre
  <1> QED BY <1>4, StringsAre

(* Looking for a nonzero byte among the fields is looking among the bytes.  *)
LEMMA AnyReads ==
  ASSUME NEW b \in ByteStrings, NEW first, NEW last
  PROVE  Compact!AnyIn(b, first, last)
           <=> \E o \in Nat : first <= o /\ o < last /\ Compact!ValueAt(b, o) # 0
  BY StringsAre, ValueNat DEF Compact!AnyIn

----------------------------------------------------------------------------
(***************************************************************************)
(* The compact layout.                                                     *)
(***************************************************************************)
HeaderAt(o) ==
    IF o = 0 THEN 40 + 96 * Count
    ELSE IF o = 4 THEN Compact!MAGIC
    ELSE IF o = 8 THEN 1
    ELSE IF o = 40 THEN Count ELSE 0

FieldOf(r, k) ==
    IF k = 0 THEN r.last_nonce ELSE IF k = 8 THEN r.total ELSE IF k = 24 THEN r.count ELSE 0

SourceField(source, k) == IF k = 0 THEN AddressOf(source) ELSE 0

(* b holds the ledger s: every byte of it, by the region it lies in.        *)
HoldsHeader(b) ==
    /\ b \in ByteStrings /\ b.len = 44 + 96 * Count
    /\ \A o \in 0..43 : Compact!ValueAt(b, o) = HeaderAt(o)

HoldsSources(b, sources) ==
    \A i \in Members, k \in 0..63 :
      Compact!ValueAt(b, 44 + 64 * i + k) = SourceField(sources[i], k)

HoldsRecords(b, records) ==
    \A i \in Members, k \in 0..31 :
      Compact!ValueAt(b, 44 + 64 * Count + 32 * i + k) = FieldOf(records[i], k)

HoldsParts(b, sources, records) ==
    HoldsHeader(b) /\ HoldsSources(b, sources) /\ HoldsRecords(b, records)

Holds(b, s) == HoldsParts(b, s.sources, s.records)

(* The regions cover the string.                                            *)
LEMMA Regions ==
  ASSUME NEW o \in Nat
  PROVE  \/ o \in 0..43
         \/ \E i \in Members, k \in 0..63 : o = 44 + 64 * i + k
         \/ \E i \in Members, k \in 0..31 : o = 44 + 64 * Count + 32 * i + k
         \/ o >= 44 + 96 * Count
  <1>1. Count \in Nat /\ Members = 0..(Count - 1)
    BY CountRange DEF Members
  <1>2. CASE 44 <= o /\ o < 44 + 64 * Count
    <2> DEFINE i == (o - 44) \div 64
               k == (o - 44) % 64
    <2>1. o - 44 \in Nat
      BY <1>2
    <2>2. i \in Nat /\ k \in 0..63 /\ o - 44 = 64 * i + k
      BY <2>1
    <2> HIDE DEF i, k
    <2>3. i \in Members /\ o = 44 + 64 * i + k
      BY <1>1, <1>2, <2>2
    <2> QED BY <2>2, <2>3
  <1>3. CASE 44 + 64 * Count <= o /\ o < 44 + 96 * Count
    <2> DEFINE i == (o - (44 + 64 * Count)) \div 32
               k == (o - (44 + 64 * Count)) % 32
    <2>1. o - (44 + 64 * Count) \in Nat
      BY <1>1, <1>3
    <2>2. i \in Nat /\ k \in 0..31 /\ o - (44 + 64 * Count) = 32 * i + k
      BY <2>1
    <2> HIDE DEF i, k
    <2>3. i \in Members /\ o = 44 + 64 * Count + 32 * i + k
      BY <1>1, <1>3, <2>2
    <2> QED BY <2>2, <2>3
  <1> QED BY <1>1, <1>2, <1>3

(* Two strings that hold the same ledger are the same.                      *)
LEMMA HoldsOnce ==
  ASSUME NEW a, NEW b, NEW s, Holds(a, s), Holds(b, s)
  PROVE  a = b
  <1>1. /\ a \in ByteStrings /\ b \in ByteStrings /\ a.len = b.len /\ a.len = 44 + 96 * Count
        /\ Count \in Nat
    BY CountRange DEF Holds, HoldsParts, HoldsHeader
  <1>2. ASSUME NEW o \in Nat PROVE Compact!ValueAt(a, o) = Compact!ValueAt(b, o)
    <2>1. CASE o \in 0..43
      BY <2>1 DEF Holds, HoldsParts, HoldsHeader
    <2>2. CASE \E i \in Members, k \in 0..63 : o = 44 + 64 * i + k
      BY <2>2 DEF Holds, HoldsParts, HoldsSources
    <2>3. CASE \E i \in Members, k \in 0..31 : o = 44 + 64 * Count + 32 * i + k
      BY <2>3 DEF Holds, HoldsParts, HoldsRecords
    <2>4. CASE o >= 44 + 96 * Count
      <3>1. o \notin 0..(a.len - 1) /\ o \notin 0..(b.len - 1)
        BY <1>1, <2>4
      <3> QED BY <1>1, <3>1, ValueNat
    <2> QED BY <2>1, <2>2, <2>3, <2>4, Regions
  <1> QED BY <1>1, <1>2, SameBytes

(* An address as a number: zero for none, and no two the same.              *)
LEMMA AddressesDiffer ==
  ASSUME NEW a \in Members \cup {NoAddress}, NEW b \in Members \cup {NoAddress}
  PROVE  /\ AddressOf(a) \in Nat /\ (AddressOf(a) = 0 <=> a = NoAddress)
         /\ AddressOf(a) = AddressOf(b) <=> a = b
  BY CountRange DEF AddressOf

RecordSet == [last_nonce : Nat, total : Nat, count : Nat]

(* What validate() says of the regular ledger.                              *)
LEMMA LawfulIs ==
  ASSUME NEW s, Lawful(s)
  PROVE  /\ s.sources \in [Members -> Members \cup {NoAddress}]
         /\ s.records \in [Members -> RecordSet]
         /\ \A i, j \in Members : s.sources[i] = s.sources[j] /\ s.sources[i] # NoAddress => i = j
         /\ \A i \in Members :
              LET r == s.records[i] IN
              IF r.count = 0 THEN r = Audit!NewRecord ELSE r.last_nonce # 0 /\ r.total # 0
  BY AuditIndices DEF Lawful, Ledgers, Records, RecordSet, Audit!validate

(* Reading a record's bytes gives the record.                               *)
LEMMA RecordRead ==
  ASSUME NEW b, NEW records \in [Members -> RecordSet], HoldsHeader(b), HoldsRecords(b, records),
         NEW i \in Members
  PROVE  Compact!record(b, i) = records[i]
  <1> DEFINE first == 44 + 64 * Count + 32 * i
             piece == Compact!Slice(b, first, 32)
  <1>1. b \in ByteStrings /\ Compact!ValueAt(b, 40) = Count /\ i \in Nat /\ Count \in Nat
    BY CountRange DEF HoldsHeader, HeaderAt
  <1>2. Compact!record(b, i) = Compact!decode(piece)
    <2>1. 44 + 64 * Count + i * 32 = first
      BY <1>1
    <2> QED BY <1>1, <2>1 DEF Compact!record, Compact!record_base, Compact!count,
               Compact!HEADER_BYTES, Compact!ADDRESS_BYTES, Compact!RECORD_BYTES
  <1>3. ASSUME NEW k \in 0..31 PROVE Compact!ValueAt(piece, k) = FieldOf(records[i], k)
    <2>1. first \in Nat /\ 32 \in Nat /\ k \in Nat /\ k < 32
      BY <1>1
    <2>2. Compact!ValueAt(piece, k) = Compact!ValueAt(b, first + k)
      <3> HIDE DEF first
      <3> QED BY <1>1, <2>1, SliceReads
    <2> QED BY <2>2 DEF HoldsRecords
  <1> HIDE DEF piece
  <1>4. /\ Compact!ValueAt(piece, 0) = records[i].last_nonce
        /\ Compact!ValueAt(piece, 8) = records[i].total
        /\ Compact!ValueAt(piece, 24) = records[i].count
    BY <1>3 DEF FieldOf
  <1>5. records[i] \in RecordSet
    OBVIOUS
  <1> QED BY <1>2, <1>4, <1>5 DEF Compact!decode, RecordSet

(* Bytes that hold a ledger read back as its bindings and records.          *)
LEMMA HoldsReads ==
  ASSUME NEW b, NEW s, Lawful(s), Holds(b, s)
  PROVE  /\ Compact!count(b) = Count
         /\ \A i \in Members : /\ Compact!SourceAt(b, i) = AddressOf(s.sources[i])
                               /\ Compact!record(b, i) = s.records[i]
  <1>1. HoldsHeader(b) /\ HoldsSources(b, s.sources) /\ HoldsRecords(b, s.records)
    BY DEF Holds, HoldsParts
  <1>2. Compact!count(b) = Count
    BY <1>1 DEF HoldsHeader, HeaderAt, Compact!count
  <1>3. ASSUME NEW i \in Members PROVE Compact!SourceAt(b, i) = AddressOf(s.sources[i])
    <2>1. 44 + i * 64 = 44 + 64 * i + 0 /\ 0 \in 0..63
      BY CountRange
    <2> QED BY <1>1, <2>1 DEF Compact!SourceAt, HoldsSources, SourceField,
               Compact!HEADER_BYTES, Compact!ADDRESS_BYTES
  <1>4. ASSUME NEW i \in Members PROVE Compact!record(b, i) = s.records[i]
    BY <1>1, LawfulIs, RecordRead
  <1> QED BY <1>2, <1>3, <1>4

(* The compact validate() accepts the bytes of every ledger the regular one *)
(* accepts.                                                                 *)
LEMMA HoldsValid ==
  ASSUME NEW b, NEW s, Lawful(s), Holds(b, s)
  PROVE  Compact!validate(b)
  <1>1. /\ Compact!count(b) = Count /\ Count \in 1..16 /\ Members = 0..(Count - 1)
        /\ \A i \in Members : /\ Compact!SourceAt(b, i) = AddressOf(s.sources[i])
                              /\ Compact!record(b, i) = s.records[i]
    BY HoldsReads, CountRange
  <1>2. b \in ByteStrings /\ b.len = 44 + 96 * Count /\ \A o \in 0..43 : Compact!ValueAt(b, o) = HeaderAt(o)
    BY DEF Holds, HoldsParts, HoldsHeader
  <1>3. /\ b.len >= 44 /\ b.len = Compact!state_bytes(Compact!count(b))
        /\ Compact!ValueAt(b, 0) = b.len - 4
    <2>1. Compact!ValueAt(b, 0) = 40 + 96 * Count
      BY <1>2 DEF HeaderAt
    <2> QED BY <1>1, <1>2, <2>1 DEF Compact!state_bytes, Compact!HEADER_BYTES
  <1>4. Compact!ValueAt(b, 4) = Compact!MAGIC
    BY <1>2 DEF HeaderAt
  <1>5. ~Compact!AnyIn(b, 41, 44)
    <2>1. \A o \in Nat : 41 <= o /\ o < 44 => Compact!ValueAt(b, o) = 0
      BY <1>2 DEF HeaderAt
    <2> QED BY <1>2, <2>1, AnyReads
  <1>6. 8 \in DOMAIN b.at
    <2>1. Compact!ValueAt(b, 8) = 1
      BY <1>2 DEF HeaderAt
    <2> QED BY <1>2, <2>1, ValueNat
  <1>7. \A i, j \in Members :
          Compact!SourceAt(b, i) = Compact!SourceAt(b, j) /\ Compact!SourceAt(b, i) # 0 => i = j
    <2> TAKE i, j \in Members
    <2>1. /\ s.sources[i] \in Members \cup {NoAddress} /\ s.sources[j] \in Members \cup {NoAddress}
          /\ s.sources[i] = s.sources[j] /\ s.sources[i] # NoAddress => i = j
      BY LawfulIs
    <2>2. /\ AddressOf(s.sources[i]) = 0 <=> s.sources[i] = NoAddress
          /\ AddressOf(s.sources[i]) = AddressOf(s.sources[j]) <=> s.sources[i] = s.sources[j]
      BY <2>1, AddressesDiffer
    <2> QED BY <1>1, <2>1, <2>2
  <1>8. ASSUME NEW i \in Members
        PROVE  LET r == Compact!record(b, i) IN
               IF r.count = 0 THEN r = Compact!NewRecord ELSE r.last_nonce # 0 /\ r.total # 0
    <2>1. Compact!NewRecord = Audit!NewRecord
      BY DEF Compact!NewRecord, Audit!NewRecord
    <2> QED BY <1>1, <2>1, LawfulIs
  <1>9. Compact!count(b) \in 1..Compact!MAX_MEMBERS /\ 0..(Compact!count(b) - 1) = Members
    BY <1>1 DEF Compact!MAX_MEMBERS
  <1> QED BY <1>3, <1>4, <1>5, <1>6, <1>7, <1>8, <1>9 DEF Compact!validate, Compact!HEADER_BYTES

----------------------------------------------------------------------------
(***************************************************************************)
(* Updates of the compact bytes.                                           *)
(***************************************************************************)
(* The bytes of an encoded record.                                          *)
LEMMA EncodeReads ==
  ASSUME NEW r \in RecordSet
  PROVE  /\ Compact!encode(r) \in ByteStrings /\ Compact!encode(r).len = 32
         /\ \A k \in 0..31 : Compact!ValueAt(Compact!encode(r), k) = FieldOf(r, k)
  <1> DEFINE D == {0, 8, 24}
             fields == [o \in D |-> CASE o = 0 -> r.last_nonce [] o = 8 -> r.total
                                      [] o = 24 -> r.count]
  <1>1. r.last_nonce \in Nat /\ r.total \in Nat /\ r.count \in Nat
    BY DEF RecordSet
  <1>2. fields[0] = r.last_nonce /\ fields[8] = r.total /\ fields[24] = r.count
    OBVIOUS
  <1>3. fields = [o \in D |-> fields[o]]
    OBVIOUS
  <1>4. Compact!encode(r) = Compact!Bytes(32, fields)
    BY DEF Compact!encode, Compact!RECORD_BYTES
  <1> HIDE DEF fields
  <1>5. \A o \in D : fields[o] \in Nat
    BY <1>1, <1>2
  <1>6. fields \in [D -> Nat] /\ D \in SUBSET Nat /\ \A o \in D : o < 32
    BY <1>3, <1>5
  <1>7. FieldsAt(32, D, fields)
    <2> HIDE DEF D
    <2> QED BY <1>6 DEF FieldsAt
  <1>8. Says(Compact!encode(r), 32, D, fields)
    <2> HIDE DEF D
    <2> QED BY <1>4, <1>7, BytesRead
  <1>9. ASSUME NEW k \in 0..31 PROVE Compact!ValueAt(Compact!encode(r), k) = FieldOf(r, k)
    <2>1. Compact!ValueAt(Compact!encode(r), k) = IF k \in D THEN fields[k] ELSE 0
      BY <1>8 DEF Says
    <2> QED BY <1>2, <2>1 DEF FieldOf
  <1> QED BY <1>8, <1>9 DEF Says

(* A piece written at a place inside, and the bytes it leaves alone.        *)
Written(b, first, piece, c) ==
    /\ c \in ByteStrings /\ c.len = b.len
    /\ \A k \in 0..(piece.len - 1) : Compact!ValueAt(c, first + k) = Compact!ValueAt(piece, k)
    /\ \A o \in Nat : o < first \/ first + piece.len <= o =>
         Compact!ValueAt(c, o) = Compact!ValueAt(b, o)

(* copy_from_slice writes the piece and nothing else.                       *)
LEMMA CopiedIs ==
  ASSUME NEW b, b \in ByteStrings, NEW first, first \in Nat, NEW piece, piece \in ByteStrings,
         first + piece.len <= b.len
  PROVE  Written(b, first, piece, Compact!Copied(b, first, piece))
  <1> DEFINE c == Compact!Copied(b, first, piece)
  <1>1. /\ c \in ByteStrings /\ c.len = b.len
        /\ \A o \in Nat : Compact!ValueAt(c, o)
             = IF first <= o /\ o < first + piece.len THEN Compact!ValueAt(piece, o - first)
               ELSE Compact!ValueAt(b, o)
    BY CopiedReads
  <1>2. piece.len \in Nat
    BY StringsAre
  <1> HIDE DEF c
  <1>3. ASSUME NEW k \in 0..(piece.len - 1)
        PROVE  Compact!ValueAt(c, first + k) = Compact!ValueAt(piece, k)
    <2>1. first + k \in Nat /\ first <= first + k /\ first + k < first + piece.len /\ (first + k) - first = k
      BY <1>2
    <2> QED BY <1>1, <2>1
  <1>4. \A o \in Nat : o < first \/ first + piece.len <= o =>
          Compact!ValueAt(c, o) = Compact!ValueAt(b, o)
    BY <1>1, <1>2
  <1> QED BY <1>1, <1>3, <1>4 DEF Written, c

(* Writing one record.                                                      *)
LEMMA RecordWritten ==
  ASSUME NEW b, NEW sources, NEW records \in [Members -> RecordSet], HoldsParts(b, sources, records),
         NEW i \in Members, NEW r \in RecordSet,
         NEW c, c = Compact!Copied(b, 44 + 64 * Count + 32 * i, Compact!encode(r))
  PROVE  HoldsParts(c, sources, [records EXCEPT ![i] = r])
  <1> DEFINE piece == Compact!encode(r)
             first == 44 + 64 * Count + 32 * i
  <1>1. piece \in ByteStrings /\ piece.len = 32 /\ \A k \in 0..31 : Compact!ValueAt(piece, k) = FieldOf(r, k)
    BY EncodeReads
  <1>2. Count \in 1..16 /\ Members = 0..(Count - 1)
    BY CountRange
  <1>3. /\ b \in ByteStrings /\ b.len = 44 + 96 * Count
        /\ \A o \in 0..43 : Compact!ValueAt(b, o) = HeaderAt(o)
        /\ \A j \in Members, k \in 0..63 : Compact!ValueAt(b, 44 + 64 * j + k) = SourceField(sources[j], k)
        /\ \A j \in Members, k \in 0..31 :
             Compact!ValueAt(b, 44 + 64 * Count + 32 * j + k) = FieldOf(records[j], k)
    BY DEF Holds, HoldsParts, HoldsHeader, HoldsSources, HoldsRecords
  <1>4. first \in Nat /\ first + 32 <= b.len
    <2>1. b.len = 44 + 96 * Count
      BY <1>3
    <2>2. Count \in Nat /\ i \in Nat /\ i + 1 <= Count
      BY <1>2
    <2> QED BY <2>1, <2>2
  <1>5. Written(b, first, piece, c)
    <2> HIDE DEF first, piece
    <2>1. first + piece.len <= b.len
      BY <1>1, <1>4
    <2> QED BY <1>1, <1>3, <1>4, <2>1, CopiedIs DEF first, piece
  <1> HIDE DEF piece
  <1>6. /\ c \in ByteStrings /\ c.len = b.len
        /\ \A k \in 0..31 : Compact!ValueAt(c, first + k) = Compact!ValueAt(piece, k)
        /\ \A o \in Nat : o < first \/ first + 32 <= o => Compact!ValueAt(c, o) = Compact!ValueAt(b, o)
    BY <1>1, <1>5 DEF Written
  <1>7. HoldsHeader(c)
    <2>1. \A o \in 0..43 : o \in Nat /\ o < first
      BY <1>2
    <2> QED BY <1>3, <1>6, <2>1 DEF HoldsHeader
  <1>8. HoldsSources(c, sources)
    <2>1. ASSUME NEW j \in Members, NEW k \in 0..63
          PROVE  44 + 64 * j + k \in Nat /\ 44 + 64 * j + k < first
      BY <1>2
    <2> QED BY <1>3, <1>6, <2>1 DEF HoldsSources
  <1>9. HoldsRecords(c, [records EXCEPT ![i] = r])
    <2>1. records \in [Members -> RecordSet]
      OBVIOUS
    <2>2. ASSUME NEW j \in Members, NEW k \in 0..31
          PROVE  Compact!ValueAt(c, 44 + 64 * Count + 32 * j + k) = FieldOf([records EXCEPT ![i] = r][j], k)
      <3>1. CASE j = i
        BY <1>1, <1>6, <2>1, <3>1
      <3>2. CASE j # i
        <4> DEFINE o == 44 + 64 * Count + 32 * j + k
        <4>1. o \in Nat /\ (o < first \/ first + 32 <= o)
          BY <1>2, <3>2
        <4>2. Compact!ValueAt(c, o) = Compact!ValueAt(b, o)
          BY <1>6, <4>1
        <4>3. [records EXCEPT ![i] = r][j] = records[j]
          BY <2>1, <3>2
        <4> QED BY <1>3, <4>2, <4>3
      <3> QED BY <3>1, <3>2
    <2> QED BY <2>2 DEF HoldsRecords
  <1> QED BY <1>7, <1>8, <1>9 DEF HoldsParts

(* Writing one source.                                                      *)
LEMMA SourceWritten ==
  ASSUME NEW b, NEW s, Lawful(s), Holds(b, s), NEW i \in Members, NEW source \in Members,
         NEW c, c = Compact!Copied(b, 44 + 64 * i, Compact!Bytes(64, [o \in {0} |-> AddressOf(source)]))
  PROVE  HoldsParts(c, [s.sources EXCEPT ![i] = source], s.records)
  <1> DEFINE fields == [o \in {0} |-> AddressOf(source)]
             piece == Compact!Bytes(64, fields)
             first == 44 + 64 * i
  <1>1. piece \in ByteStrings /\ piece.len = 64
        /\ \A k \in 0..63 : Compact!ValueAt(piece, k) = SourceField(source, k)
    <2>1. AddressOf(source) \in Nat
      BY AddressesDiffer
    <2>2. FieldsAt(64, {0}, fields)
      BY <2>1 DEF FieldsAt
    <2>3. Says(piece, 64, {0}, fields)
      BY <2>2, BytesRead
    <2>4. \A k \in 0..63 : Compact!ValueAt(piece, k) = IF k \in {0} THEN fields[k] ELSE 0
      BY <2>3 DEF Says
    <2> HIDE DEF piece
    <2>5. \A k \in 0..63 : Compact!ValueAt(piece, k) = SourceField(source, k)
      BY <2>4 DEF SourceField
    <2> QED BY <2>3, <2>5 DEF Says
  <1>2. Count \in 1..16 /\ Members = 0..(Count - 1)
    BY CountRange
  <1>3. /\ b \in ByteStrings /\ b.len = 44 + 96 * Count
        /\ \A o \in 0..43 : Compact!ValueAt(b, o) = HeaderAt(o)
        /\ \A j \in Members, k \in 0..63 : Compact!ValueAt(b, 44 + 64 * j + k) = SourceField(s.sources[j], k)
        /\ \A j \in Members, k \in 0..31 :
             Compact!ValueAt(b, 44 + 64 * Count + 32 * j + k) = FieldOf(s.records[j], k)
    BY DEF Holds, HoldsParts, HoldsHeader, HoldsSources, HoldsRecords
  <1>4. first \in Nat /\ first + 64 <= b.len
    <2>1. b.len = 44 + 96 * Count
      BY <1>3
    <2>2. Count \in Nat /\ i \in Nat /\ i + 1 <= Count
      BY <1>2
    <2> QED BY <2>1, <2>2
  <1>5. Written(b, first, piece, c)
    <2>1. c = Compact!Copied(b, first, piece)
      OBVIOUS
    <2> HIDE DEF first, piece
    <2>2. first + piece.len <= b.len
      BY <1>1, <1>4
    <2> QED BY <1>1, <1>3, <1>4, <2>1, <2>2, CopiedIs
  <1> HIDE DEF piece
  <1>6. /\ c \in ByteStrings /\ c.len = b.len
        /\ \A k \in 0..63 : Compact!ValueAt(c, first + k) = Compact!ValueAt(piece, k)
        /\ \A o \in Nat : o < first \/ first + 64 <= o => Compact!ValueAt(c, o) = Compact!ValueAt(b, o)
    BY <1>1, <1>5 DEF Written
  <1>7. HoldsHeader(c)
    <2>1. \A o \in 0..43 : o \in Nat /\ o < first
      BY <1>2
    <2> QED BY <1>3, <1>6, <2>1 DEF HoldsHeader
  <1>8. HoldsRecords(c, s.records)
    <2>1. ASSUME NEW j \in Members, NEW k \in 0..31
          PROVE  44 + 64 * Count + 32 * j + k \in Nat /\ first + 64 <= 44 + 64 * Count + 32 * j + k
      BY <1>2
    <2> QED BY <1>3, <1>6, <2>1 DEF HoldsRecords
  <1>9. HoldsSources(c, [s.sources EXCEPT ![i] = source])
    <2>1. s.sources \in [Members -> Members \cup {NoAddress}]
      BY LawfulIs
    <2>2. ASSUME NEW j \in Members, NEW k \in 0..63
          PROVE  Compact!ValueAt(c, 44 + 64 * j + k) = SourceField([s.sources EXCEPT ![i] = source][j], k)
      <3>1. CASE j = i
        BY <1>1, <1>6, <2>1, <3>1
      <3>2. CASE j # i
        <4> DEFINE o == 44 + 64 * j + k
        <4>1. o \in Nat /\ (o < first \/ first + 64 <= o)
          BY <1>2, <3>2
        <4>2. Compact!ValueAt(c, o) = Compact!ValueAt(b, o)
          BY <1>6, <4>1
        <4>3. [s.sources EXCEPT ![i] = source][j] = s.sources[j]
          BY <2>1, <3>2
        <4> QED BY <1>3, <4>2, <4>3
      <3> QED BY <3>1, <3>2
    <2> QED BY <2>2 DEF HoldsSources
  <1> QED BY <1>7, <1>8, <1>9 DEF HoldsParts

----------------------------------------------------------------------------
(***************************************************************************)
(* The same judgements.                                                    *)
(***************************************************************************)
(* The compact handlers work on the regular ledger's records,               *)
LEMMA RecordsSame ==
  ASSUME NEW b, NEW s, Lawful(s), Holds(b, s)
  PROVE  Compact!Records(b) = s.records
  <1>1. /\ 0..(Compact!count(b) - 1) = Members
        /\ \A i \in Members : Compact!record(b, i) = s.records[i]
    BY HoldsReads, CountRange
  <1>2. s.records = [i \in Members |-> s.records[i]]
    BY LawfulIs
  <1> QED BY <1>1, <1>2 DEF Compact!Records

(* accept the same reports,                                                 *)
LEMMA AcceptedSame ==
  ASSUME NEW b, NEW s, Lawful(s), Holds(b, s), NEW report \in AuditReports, NEW records
  PROVE  /\ Compact!accepted(b, records, CompactReport(report)) <=> Audit!accepted(s, records, report)
         /\ CompactReport(report).body = report.body
  <1> DEFINE i == report.body.index
             seen == CompactReport(report)
  <1>1. i \in Members /\ report.source \in Members /\ seen.body = report.body
        /\ seen.source = AddressOf(report.source)
    BY DEF AuditReports, PaymentBodies, CompactReport
  <1>2. /\ i < Compact!count(b) /\ Compact!SourceAt(b, i) = AddressOf(s.sources[i])
        /\ i \in Audit!Indices
    <2>1. Compact!count(b) = Count /\ Compact!SourceAt(b, i) = AddressOf(s.sources[i])
      BY <1>1, HoldsReads
    <2> QED BY <1>1, <2>1, CountRange, AuditIndices
  <1>3. Compact!SourceAt(b, i) = seen.source <=> s.sources[i] = report.source
    <2>1. s.sources[i] \in Members \cup {NoAddress}
      BY <1>1, LawfulIs
    <2> QED BY <1>1, <1>2, <2>1, AddressesDiffer
  <1> HIDE DEF seen
  <1>4. Compact!accepted(b, records, seen) <=> Audit!accepted(s, records, report)
    BY <1>1, <1>2, <1>3 DEF Compact!accepted, Audit!accepted
  <1> QED BY <1>1, <1>4 DEF seen

(* and make the same records of them.                                       *)
LEMMA RecordedSame ==
  ASSUME NEW records, NEW body
  PROVE  Compact!Recorded(records, body) = Audit!Recorded(records, body)
  BY DEF Compact!Recorded, Audit!Recorded

(* The reports as the compact ledger meets them.                            *)
LEMMA CompactBatchIs ==
  ASSUME NEW q \in Seq(AuditReports)
  PROVE  /\ DOMAIN CompactBatch(q) = 1..Len(q) /\ Len(CompactBatch(q)) = Len(q)
         /\ \A k \in 1..Len(q) : CompactBatch(q)[k] = CompactReport(q[k])
         /\ \A k \in 0..Len(q) : /\ SubSeq(CompactBatch(q), 1, k) = CompactBatch(SubSeq(q, 1, k))
                                 /\ SubSeq(q, 1, k) \in Seq(AuditReports)
  <1> DEFINE n == Len(q)
             p == CompactBatch(q)
  <1>1. n \in Nat /\ DOMAIN q = 1..n /\ p = [k \in 1..n |-> CompactReport(q[k])]
    BY DEF CompactBatch
  <1>2. DOMAIN p = 1..n /\ \A k \in 1..n : p[k] = CompactReport(q[k])
    BY <1>1
  <1>3. p \in Seq({CompactReport(q[k]) : k \in 1..n}) /\ Len(p) = n
    BY <1>1
  <1> HIDE DEF p
  <1>4. ASSUME NEW k \in 0..n
        PROVE  SubSeq(p, 1, k) = CompactBatch(SubSeq(q, 1, k)) /\ SubSeq(q, 1, k) \in Seq(AuditReports)
    <2>1. /\ SubSeq(q, 1, k) \in Seq(AuditReports) /\ DOMAIN SubSeq(q, 1, k) = 1..k
          /\ \A x \in 1..k : SubSeq(q, 1, k)[x] = q[x]
      BY <1>1
    <2>2. SubSeq(p, 1, k) = [x \in 1..k |-> p[x]]
      BY <1>1, <1>3
    <2>3. CompactBatch(SubSeq(q, 1, k)) = [x \in 1..k |-> CompactReport(q[x])]
      BY <2>1 DEF CompactBatch
    <2>4. \A x \in 1..k : p[x] = CompactReport(q[x])
      BY <1>1, <1>2
    <2> QED BY <2>1, <2>2, <2>3, <2>4
  <1> QED BY <1>2, <1>3, <1>4 DEF p

(* What the compact ledger stages.                                          *)
LEMMA CompactStagedIs ==
  ASSUME NEW b, NEW s, Lawful(s), Holds(b, s), NEW q \in Seq(AuditReports), NEW x, NEW H,
         Stages(H, s, AuditReports, Records),
         Settles(q, s.records, H, AuditReports, Records, x)
  PROVE  Compact!Staged(b, CompactBatch(q)) = x
  <1> USE DEF Stages
  <1> DEFINE p == CompactBatch(q)
             D == DOMAIN p
             step(records, report) ==
               IF Compact!accepted(b, records, report) THEN Compact!Recorded(records, report.body)
               ELSE records
             Eq(h) == h = [d \in SUBSET D |-> IF d = {} THEN Compact!Records(b)
                             ELSE step(h[d \ {Max(d)}], p[Max(d)])]
             g == CHOOSE h : Eq(h)
  <1>1. Compact!Staged(b, p) = g[D]
    BY DEF Compact!Staged, FoldLeft, Compact!FoldLeft, MapThenFoldSet, Compact!MapThenFoldSet,
           Max, Compact!Max
  <1>2. D = DOMAIN q /\ Compact!Records(b) = s.records /\ \A k \in D : p[k] = CompactReport(q[k])
    BY CompactBatchIs, RecordsSame
  <1>3. ASSUME NEW records \in Records, NEW report \in AuditReports
        PROVE  step(records, CompactReport(report)) = H[<<report, records>>]
    <2>1. H[<<report, records>>] = StageOne(s, records, report)
      OBVIOUS
    <2> QED BY <2>1, AcceptedSame, RecordedSame DEF StageOne
  <1>4. PICK h \in [SUBSET D -> Records] :
          /\ h[{}] = s.records
          /\ \A d \in SUBSET D : d # {} =>
               q[Max(d)] \in AuditReports /\ h[d] = H[<<q[Max(d)], h[d \ {Max(d)}]>>]
    BY <1>2 DEF Settles
  <1>5. \A d \in SUBSET D : d # {} => Max(d) \in D
    <2>1. Len(q) \in Nat /\ D = 1..Len(q)
      BY <1>2
    <2> HIDE DEF D
    <2> QED BY <2>1, LargestChosen
  <1> HIDE DEF p, D, step
  <1>6. Eq(h)
    <2>1. ASSUME NEW d \in SUBSET D, d # {} PROVE h[d] = step(h[d \ {Max(d)}], p[Max(d)])
      <3>1. h[d \ {Max(d)}] \in Records /\ p[Max(d)] = CompactReport(q[Max(d)])
        BY <1>2, <1>5, <2>1
      <3> QED BY <1>3, <1>4, <2>1, <3>1
    <2>2. h = [d \in SUBSET D |-> h[d]]
      OBVIOUS
    <2> QED BY <1>2, <1>4, <2>1, <2>2
  <1>7. Eq(g)
    <2> HIDE DEF Eq
    <2> QED BY <1>6
  <1> HIDE DEF g
  <1>8. LeftFolds(g, q, s.records, H, Records)
    <2>1. g[{}] = s.records
      BY <1>2, <1>7
    <2>2. ASSUME NEW d \in SUBSET D, d # {}, g[d \ {Max(d)}] \in Records
          PROVE  g[d] = H[<<q[Max(d)], g[d \ {Max(d)}]>>]
      <3>1. g[d] = step(g[d \ {Max(d)}], p[Max(d)])
        BY <1>7, <2>2
      <3>2. q[Max(d)] \in AuditReports /\ p[Max(d)] = CompactReport(q[Max(d)])
        BY <1>2, <1>4, <1>5, <2>2
      <3> QED BY <1>3, <2>2, <3>1, <3>2
    <2> QED BY <1>2, <2>1, <2>2 DEF LeftFolds
  <1>9. g[D] = x
    BY <1>2, <1>8 DEF Settles
  <1> QED BY <1>1, <1>9 DEF p

(* Both ledgers stage the same records.                                     *)
LEMMA StagedSame ==
  ASSUME NEW b, NEW s, Lawful(s), Holds(b, s), NEW q \in Seq(AuditReports)
  PROVE  Compact!Staged(b, CompactBatch(q)) = Audit!Staged(s, q) /\ Audit!Staged(s, q) \in Records
  <1> DEFINE H == [p \in AuditReports \X Records |-> StageOne(s, p[2], p[1])]
             n == Len(q)
  <1>1. s.records \in Records
    BY LawfulIs DEF Records, RecordSet
  <1>2. H \in [AuditReports \X Records -> Records]
    <2>1. \A report \in AuditReports, records \in Records : StageOne(s, records, report) \in Records
      <3> TAKE report \in AuditReports, records \in Records
      <3>1. report.body \in PaymentBodies
        BY DEF AuditReports
      <3> QED BY <3>1, RecordedType DEF StageOne
    <2> QED BY <2>1
  <1>3. Stages(H, s, AuditReports, Records)
    BY DEF Stages
  <1> HIDE DEF H
  <1>4. PICK P : /\ Running(P, q, s.records, H, Records)
                 /\ \A k \in 0..n : Settles(SubSeq(q, 1, k), s.records, H, AuditReports, Records, P[k])
    BY <1>1, <1>2, LeftFold
  <1>5. n \in 0..n /\ SubSeq(q, 1, n) = q
    OBVIOUS
  <1>6. Settles(q, s.records, H, AuditReports, Records, P[n])
    BY <1>4, <1>5
  <1>7. P[n] \in Records
    BY <1>4, <1>5 DEF Running
  <1>8. Audit!Staged(s, q) = P[n]
    BY <1>3, <1>6, StagedIs
  <1>9. Compact!Staged(b, CompactBatch(q)) = P[n]
    BY <1>3, <1>6, CompactStagedIs
  <1> QED BY <1>7, <1>8, <1>9

----------------------------------------------------------------------------
(***************************************************************************)
(* Patches.                                                                *)
(***************************************************************************)
\* The patch of member i's record, and every such patch.
RecordPatch(i, r) ==
    [offset |-> 44 + 64 * Count + 32 * i, old_len |-> 32, new_bytes |-> Compact!encode(r)]

RecordPatches == {RecordPatch(i, r) : i \in Members, r \in RecordSet}

(* The patch of member i's record lies where the record is.                 *)
LEMMA PatchIs ==
  ASSUME NEW b, Compact!count(b) = Count, NEW i \in Members, NEW r
  PROVE  Compact!patch(b, i, r) = RecordPatch(i, r)
  <1>1. 44 + 64 * Count + i * 32 = 44 + 64 * Count + 32 * i
    BY CountRange
  <1> QED BY <1>1 DEF Compact!patch, RecordPatch, Compact!record_base, Compact!HEADER_BYTES,
             Compact!ADDRESS_BYTES, Compact!RECORD_BYTES

(* The bytes that the patches settle on are those that Patched gives.       *)
LEMMA PatchedIs ==
  ASSUME NEW b, NEW q, NEW M, NEW R, NEW x, NEW H,
         \A p \in M, c \in R : H[<<p, c>>] = Compact!Copied(c, p.offset, p.new_bytes),
         Settles(q, b, H, M, R, x)
  PROVE  Compact!Patched(b, q) = x
  <1> DEFINE D == DOMAIN q
             Eq(h) == h = [d \in SUBSET D |-> IF d = {} THEN b
                             ELSE Compact!Copied(h[d \ {Max(d)}], q[Max(d)].offset, q[Max(d)].new_bytes)]
             g == CHOOSE h : Eq(h)
  <1>1. Compact!Patched(b, q) = g[D]
    BY DEF Compact!Patched, FoldLeft, Compact!FoldLeft, MapThenFoldSet, Compact!MapThenFoldSet,
           Max, Compact!Max
  <1>2. PICK h \in [SUBSET D -> R] :
          /\ h[{}] = b
          /\ \A d \in SUBSET D : d # {} =>
               q[Max(d)] \in M /\ h[d] = H[<<q[Max(d)], h[d \ {Max(d)}]>>]
    BY DEF Settles
  <1>3. Eq(h)
    <2>1. ASSUME NEW d \in SUBSET D, d # {}
          PROVE  h[d] = Compact!Copied(h[d \ {Max(d)}], q[Max(d)].offset, q[Max(d)].new_bytes)
      <3>1. h[d \ {Max(d)}] \in R
        OBVIOUS
      <3> QED BY <1>2, <2>1, <3>1
    <2>2. h = [d \in SUBSET D |-> h[d]]
      OBVIOUS
    <2> QED BY <1>2, <2>1, <2>2
  <1>4. Eq(g)
    <2> HIDE DEF Eq
    <2> QED BY <1>3
  <1> HIDE DEF g
  <1>5. LeftFolds(g, q, b, H, R)
    <2>1. g[{}] = b
      BY <1>4
    <2>2. ASSUME NEW d \in SUBSET D, d # {}, g[d \ {Max(d)}] \in R
          PROVE  g[d] = H[<<q[Max(d)], g[d \ {Max(d)}]>>]
      <3>1. g[d] = Compact!Copied(g[d \ {Max(d)}], q[Max(d)].offset, q[Max(d)].new_bytes)
        BY <1>4, <2>2
      <3>2. q[Max(d)] \in M
        BY <1>2, <2>2
      <3> QED BY <2>2, <3>1, <3>2
    <2> QED BY <2>1, <2>2 DEF LeftFolds
  <1>6. g[D] = x
    BY <1>5 DEF Settles
  <1> QED BY <1>1, <1>6

\* The records after patching the members order names, in new.
Renewed(records, order, k, new) ==
    [i \in Members |-> IF \E x \in 1..k : order[x] = i THEN new[i] ELSE records[i]]

(* Patching the records of the members in order puts the new records there  *)
(* and touches nothing else.                                                *)
LEMMA PatchedRecords ==
  ASSUME NEW b, NEW s, Lawful(s), Holds(b, s), NEW n \in Nat, NEW order \in [1..n -> Members],
         NEW new \in [Members -> RecordSet],
         NEW patches, patches = [k \in 1..n |-> RecordPatch(order[k], new[order[k]])],
         NEW c, c = Compact!Patched(b, patches)
  PROVE  HoldsParts(c, s.sources, Renewed(s.records, order, n, new))
  <1> DEFINE R == {x \in ByteStrings :
                     \E records \in [Members -> RecordSet] : HoldsParts(x, s.sources, records)}
             M == RecordPatches
             H == [p \in M \X R |-> Compact!Copied(p[2], p[1].offset, p[1].new_bytes)]
             step(k, records) == [records EXCEPT ![order[k]] = new[order[k]]]
  <1>1. s.records \in [Members -> RecordSet]
    BY LawfulIs
  <1>2. b \in R
    BY <1>1 DEF Holds, HoldsParts, HoldsHeader
  <1>3. ASSUME NEW x \in R, NEW i \in Members, NEW r \in RecordSet, NEW y,
               y = Compact!Copied(x, 44 + 64 * Count + 32 * i, Compact!encode(r))
        PROVE  y \in R
    <2>1. PICK records \in [Members -> RecordSet] : HoldsParts(x, s.sources, records)
      OBVIOUS
    <2>2. HoldsParts(y, s.sources, [records EXCEPT ![i] = r])
      <3> HIDE DEF R
      <3> QED BY <1>3, <2>1, RecordWritten
    <2>3. [records EXCEPT ![i] = r] \in [Members -> RecordSet] /\ y \in ByteStrings
      BY <2>2 DEF HoldsParts, HoldsHeader
    <2> QED BY <2>2, <2>3
  <1>4. H \in [M \X R -> R]
    <2> HIDE DEF R
    <2>1. ASSUME NEW p \in M, NEW x \in R PROVE Compact!Copied(x, p.offset, p.new_bytes) \in R
      <3>1. PICK i \in Members, r \in RecordSet : p = RecordPatch(i, r)
        BY DEF RecordPatches
      <3> QED BY <1>3, <3>1 DEF RecordPatch
    <2> QED BY <2>1
  <1>5. \A p \in M, x \in R : H[<<p, x>>] = Compact!Copied(x, p.offset, p.new_bytes)
    OBVIOUS
  <1>6. \A k \in 1..n : order[k] \in Members /\ new[order[k]] \in RecordSet
    OBVIOUS
  <1>7. /\ patches \in Seq(M) /\ Len(patches) = n /\ SubSeq(patches, 1, n) = patches
        /\ \A k \in 1..n : patches[k] = RecordPatch(order[k], new[order[k]])
    <2>1. \A k \in 1..n : RecordPatch(order[k], new[order[k]]) \in M
      BY <1>6 DEF RecordPatches
    <2>2. patches \in [1..n -> M]
      BY <2>1
    <2> HIDE DEF M
    <2>3. patches \in Seq(M) /\ Len(patches) = n
      BY <2>2
    <2> QED BY <2>3
  <1> HIDE DEF R, M, H
  <1>8. PICK P : /\ Running(P, patches, b, H, R)
                 /\ \A k \in 0..n : Settles(SubSeq(patches, 1, k), b, H, M, R, P[k])
    BY <1>2, <1>4, <1>7, LeftFold
  <1>9. c = P[n]
    <2>1. n \in 0..n
      OBVIOUS
    <2>2. Settles(SubSeq(patches, 1, n), b, H, M, R, P[n])
      BY <1>8, <2>1
    <2>3. Settles(patches, b, H, M, R, P[n])
      BY <1>7, <2>2
    <2> QED BY <1>5, <2>3, PatchedIs
  <1>10. /\ \A k \in 0..n : P[k] \in R
         /\ P[0] = b
         /\ \A k \in 1..n : P[k] = Compact!Copied(P[k - 1], 44 + 64 * Count + 32 * order[k],
                                                  Compact!encode(new[order[k]]))
    <2>1. /\ \A k \in 0..n : P[k] \in R
          /\ P[0] = b
          /\ \A k \in 1..n : P[k] = H[<<patches[k], P[k - 1]>>]
      BY <1>7, <1>8 DEF Running
    <2>2. ASSUME NEW k \in 1..n
          PROVE  P[k] = Compact!Copied(P[k - 1], 44 + 64 * Count + 32 * order[k],
                                       Compact!encode(new[order[k]]))
      <3>1. P[k - 1] \in R /\ patches[k] \in M /\ patches[k] = RecordPatch(order[k], new[order[k]])
        BY <1>7, <2>1
      <3>2. P[k] = Compact!Copied(P[k - 1], patches[k].offset, patches[k].new_bytes)
        BY <1>5, <2>1, <3>1
      <3> QED BY <3>1, <3>2 DEF RecordPatch
    <2> QED BY <2>1, <2>2
  <1> DEFINE N == {k \in Nat : k <= n => HoldsParts(P[k], s.sources, Renewed(s.records, order, k, new))}
  <1>11. 0 \in N
    <2>1. Renewed(s.records, order, 0, new) = s.records
      BY <1>1 DEF Renewed
    <2> QED BY <1>10, <2>1 DEF Holds, HoldsParts
  <1>12. ASSUME NEW k \in N PROVE k + 1 \in N
    <2> DEFINE before == Renewed(s.records, order, k, new)
               after == Renewed(s.records, order, k + 1, new)
               i == order[k + 1]
    <2>1. SUFFICES ASSUME k + 1 <= n PROVE HoldsParts(P[k + 1], s.sources, after)
      OBVIOUS
    <2>2. k \in Nat /\ k \in 0..n /\ k + 1 \in 1..n /\ (k + 1) - 1 = k /\ i \in Members
      BY <2>1
    <2>3. HoldsParts(P[k], s.sources, before)
      BY <2>1, <2>2
    <2>4. before \in [Members -> RecordSet]
      BY <1>1 DEF Renewed
    <2>6. new[i] \in RecordSet
      BY <2>2
    <2>7. P[k + 1] = Compact!Copied(P[k], 44 + 64 * Count + 32 * i, Compact!encode(new[i]))
      BY <1>10, <2>2
    <2>8. after = [before EXCEPT ![i] = new[i]]
      <3>1. \A j \in Members : (\E x \in 1..(k + 1) : order[x] = j) <=> (j = i \/ \E x \in 1..k : order[x] = j)
        <4>1. 1..(k + 1) = (1..k) \cup {k + 1}
          BY <2>2
        <4> QED BY <4>1
      <3> QED BY <3>1, <2>2 DEF Renewed
    <2> HIDE DEF before, after, i
    <2>9. HoldsParts(P[k + 1], s.sources, [before EXCEPT ![i] = new[i]])
      BY <2>2, <2>3, <2>4, <2>6, <2>7, RecordWritten
    <2> QED BY <2>8, <2>9
  <1> HIDE DEF N
  <1>13. N = Nat
    <2>1. N \subseteq Nat
      BY DEF N
    <2> QED BY <1>11, <1>12, <2>1, CountingUp
  <1>14. HoldsParts(P[n], s.sources, Renewed(s.records, order, n, new))
    BY <1>13 DEF N
  <1> QED BY <1>9, <1>14

----------------------------------------------------------------------------
(***************************************************************************)
(* The touched members in order.                                           *)
(***************************************************************************)
\* An ascending enumeration of n members of T.
Ascends(order, T, n) ==
    order \in [1..n -> T] /\ \A x, y \in 1..n : x < y => order[x] < order[y]

(* Every set of members has an ascending enumeration, by its size.          *)
LEMMA SomeAscends ==
  ASSUME NEW T \in SUBSET Members
  PROVE  \E order : Ascends(order, T, Cardinality(T))
  <1> DEFINE N == {n \in Nat : \A S \in SUBSET (0..(n - 1)) : \E order : Ascends(order, S, Cardinality(S))}
  <1>1. 0 \in N
    <2> SUFFICES ASSUME NEW S \in SUBSET (0..(0 - 1)) PROVE \E order : Ascends(order, S, Cardinality(S))
      OBVIOUS
    <2>1. 0..(0 - 1) = {}
      OBVIOUS
    <2>2. S = {} /\ Cardinality(S) = 0
      BY <2>1, FS_EmptySet
    <2>3. 1..0 = {}
      OBVIOUS
    <2>4. Ascends(<<>>, S, Cardinality(S))
      BY <2>2, <2>3 DEF Ascends
    <2> QED BY <2>4
  <1>2. ASSUME NEW n \in N PROVE n + 1 \in N
    <2>1. n \in Nat /\ \A S \in SUBSET (0..(n - 1)) : \E order : Ascends(order, S, Cardinality(S))
      OBVIOUS
    <2> HIDE DEF N
    <2> SUFFICES ASSUME NEW S \in SUBSET (0..((n + 1) - 1)) PROVE \E order : Ascends(order, S, Cardinality(S))
      BY <2>1 DEF N
    <2>2. CASE n \notin S
      <3>1. S \in SUBSET (0..(n - 1))
        BY <2>1, <2>2
      <3> QED BY <2>1, <3>1
    <2>3. CASE n \in S
      <3> DEFINE S1 == S \ {n}
                 m == Cardinality(S1)
      <3>1. S1 \in SUBSET (0..(n - 1)) /\ S = S1 \cup {n} /\ n \notin S1
        BY <2>1, <2>3
      <3>2. IsFiniteSet(S1)
        <4>1. IsFiniteSet(0..(n - 1))
          BY <2>1, FS_Interval
        <4> HIDE DEF S1
        <4> QED BY <3>1, <4>1, FS_Subset
      <3> HIDE DEF S1
      <3>3. Cardinality(S) = m + 1 /\ m \in Nat
        BY <3>1, <3>2, FS_AddElement, FS_CardinalityType
      <3>4. PICK low : Ascends(low, S1, m)
        BY <2>1, <3>1
      <3> HIDE DEF m
      <3> DEFINE order == [x \in 1..(m + 1) |-> IF x = m + 1 THEN n ELSE low[x]]
      <3>5. /\ low \in [1..m -> S1] /\ \A x, y \in 1..m : x < y => low[x] < low[y]
            /\ \A x \in 1..m : low[x] \in S1 /\ low[x] < n /\ low[x] \in Nat
        <4>1. low \in [1..m -> S1] /\ \A x, y \in 1..m : x < y => low[x] < low[y]
          BY <3>4 DEF Ascends
        <4>2. \A z \in S1 : z < n /\ z \in Nat
          BY <2>1, <3>1
        <4> QED BY <4>1, <4>2
      <3>6. \A x \in 1..(m + 1) : x = m + 1 \/ x \in 1..m
        BY <3>3
      <3>7. order \in [1..(m + 1) -> S]
        BY <2>3, <3>1, <3>5, <3>6
      <3>8. \A x, y \in 1..(m + 1) : x < y => order[x] < order[y]
        <4> TAKE x, y \in 1..(m + 1)
        <4> HAVE x < y
        <4>1. x \in 1..m /\ x # m + 1
          BY <3>3
        <4>2. CASE y = m + 1
          BY <3>5, <4>1, <4>2
        <4>3. CASE y \in 1..m
          <5>1. y # m + 1
            BY <3>3, <4>3
          <5> QED BY <3>5, <4>1, <4>3, <5>1
        <4> QED BY <3>6, <4>2, <4>3
      <3> HIDE DEF order
      <3>9. Ascends(order, S, Cardinality(S))
        BY <3>3, <3>7, <3>8 DEF Ascends
      <3> QED BY <3>9
    <2> QED BY <2>2, <2>3
  <1> HIDE DEF N
  <1>3. N = Nat
    <2>1. N \subseteq Nat
      BY DEF N
    <2> QED BY <1>1, <1>2, <2>1, CountingUp
  <1>4. Count \in N /\ Members = 0..(Count - 1)
    BY <1>3, CountRange
  <1> QED BY <1>4 DEF N

(* The loop over the members meets each touched member once, in ascending   *)
(* order.                                                                   *)
LEMMA AscendingIs ==
  ASSUME NEW T \in SUBSET Members, NEW order, order = Compact!Ascending(T),
         NEW n, n = Cardinality(T)
  PROVE  /\ n \in Nat /\ order \in [1..n -> T] /\ order \in [1..n -> Members] /\ DOMAIN order = 1..n
         /\ \A x, y \in 1..n : x < y => order[x] < order[y]
         /\ \A i : i \in T <=> \E x \in 1..n : order[x] = i
  <1>1. IsFiniteSet(T) /\ n \in Nat
    <2>1. IsFiniteSet(Members)
      BY CountRange, FS_Interval
    <2>2. IsFiniteSet(T)
      BY <2>1, FS_Subset
    <2> QED BY <2>2, FS_CardinalityType
  <1>2. order = CHOOSE o \in [1..n -> T] : \A x, y \in 1..n : x < y => o[x] < o[y]
    BY DEF Compact!Ascending, Compact!Cardinality, Cardinality
  <1>3. Ascends(order, T, n)
    <2>1. \E o \in [1..n -> T] : \A x, y \in 1..n : x < y => o[x] < o[y]
      BY SomeAscends DEF Ascends
    <2> QED BY <1>2, <2>1 DEF Ascends
  <1>4. order \in [1..n -> T] /\ \A x, y \in 1..n : x < y => order[x] < order[y]
    BY <1>3 DEF Ascends
  <1>5. ASSUME NEW i \in T, ~\E x \in 1..n : order[x] = i PROVE FALSE
    <2>1. order \in [1..n -> T \ {i}]
      BY <1>4, <1>5
    <2>2. IsFiniteSet(T \ {i}) /\ Cardinality(T \ {i}) = n - 1
      BY <1>1, FS_RemoveElement
    <2>3. IsFiniteSet(1..n) /\ Cardinality(1..n) = n
      BY <1>1, FS_Interval
    <2>4. PICK x, y \in 1..n : x # y /\ order[x] = order[y]
      <3> DEFINE U == T \ {i}
                 V == 1..n
      <3>1. IsFiniteSet(V) /\ IsFiniteSet(U) /\ Cardinality(U) < Cardinality(V) /\ order \in [V -> U]
        BY <1>1, <2>1, <2>2, <2>3
      <3> HIDE DEF U, V
      <3>2. \E x, y \in V : x # y /\ order[x] = order[y]
        BY <3>1, FS_PigeonHole
      <3> QED BY <3>2 DEF V
    <2>5. x < y \/ y < x
      BY <1>1, <2>4
    <2>6. order[x] < order[y] \/ order[y] < order[x]
      BY <1>4, <2>4, <2>5
    <2>7. order[x] \in Nat
      <3>1. order[x] \in Members
        BY <1>4
      <3> QED BY <3>1, CountRange
    <2> QED BY <2>4, <2>6, <2>7
  <1> QED BY <1>1, <1>4, <1>5

----------------------------------------------------------------------------
(***************************************************************************)
(* What the runtime makes of the compact ledger's answers.                 *)
(***************************************************************************)
\* The change as a patch list or as the whole patched state: the same bytes.
(* An update whose patches fit does the same to the bytes in either mode.   *)
LEMMA AppliedIs ==
  ASSUME NEW b, NEW mode, NEW patches, Compact!Appliable(b, patches)
  PROVE  Compact!Apply(b, mode, Compact!replacement(b, mode, patches)) = Compact!Patched(b, patches)
  <1>1. CASE mode = Compact!DataPatchList
    BY <1>1 DEF Compact!Apply, Compact!replacement
  <1>2. CASE mode # Compact!DataPatchList
    <2>1. Compact!Appliable(b, <<>>)
      BY DEF Compact!Appliable
    <2> QED BY <1>2, <2>1 DEF Compact!Apply, Compact!replacement
  <1> QED BY <1>1, <1>2

(* Patches of records of ascending members.                                 *)
LEMMA RecordsAppliable ==
  ASSUME NEW b, HoldsHeader(b), NEW n \in Nat, NEW order \in [1..n -> Members],
         \A x, y \in 1..n : x < y => order[x] < order[y],
         NEW new, NEW patches, patches = [k \in 1..n |-> RecordPatch(order[k], new[order[k]])]
  PROVE  Compact!Appliable(b, patches)
  <1>1. b.len = 44 + 96 * Count /\ Count \in Nat /\ Members = 0..(Count - 1)
    BY CountRange DEF HoldsHeader
  <1>2. DOMAIN patches = 1..n /\ Len(patches) = n
    OBVIOUS
  <1>3. \A k \in 1..n : /\ patches[k].offset = 44 + 64 * Count + 32 * order[k]
                        /\ patches[k].old_len = 32
    BY DEF RecordPatch
  <1>4. ASSUME NEW k \in 1..n PROVE patches[k].offset + patches[k].old_len <= b.len
    <2>1. order[k] \in Nat /\ order[k] + 1 <= Count
      BY <1>1
    <2>2. 44 + 64 * Count + 32 * order[k] + 32 <= 44 + 96 * Count
      BY <1>1, <2>1
    <2> QED BY <1>1, <1>3, <2>2
  <1>5. ASSUME NEW k \in 2..n
        PROVE  patches[k - 1].offset + patches[k - 1].old_len <= patches[k].offset
    <2>1. k \in 1..n /\ k - 1 \in 1..n /\ k - 1 < k
      OBVIOUS
    <2>2. order[k - 1] < order[k] /\ order[k - 1] \in Nat /\ order[k] \in Nat
      BY <1>1, <2>1
    <2>3. 44 + 64 * Count + 32 * order[k - 1] + 32 <= 44 + 64 * Count + 32 * order[k]
      BY <1>1, <2>2
    <2> QED BY <1>3, <2>1, <2>3
  <1> QED BY <1>2, <1>4, <1>5 DEF Compact!Appliable

(* A batch gives its messages the statuses the regular ledger gives them,   *)
(* and leaves bytes that hold the ledger it leaves there.                   *)
LEMMA BatchHolds ==
  ASSUME NEW b, NEW s, Lawful(s), Holds(b, s), NEW q \in Seq(AuditReports), NEW mode,
         NEW got, got = Compact!process_batch(b, mode, CompactBatch(q)),
         NEW reg, reg = Audit!process_batch(s, Audit!DataPatchList, q)
  PROVE  got.statuses = reg.statuses /\ Holds(Compact!Apply(b, mode, got.update), reg.state)
  <1> DEFINE p == CompactBatch(q)
             n == Len(q)
             ok == [k \in DOMAIN p |-> Compact!Succeeds(b, p, k)]
             touched == {p[k].body.index : k \in {x \in DOMAIN p : ok[x]}}
             staged == Compact!Staged(b, p)
             order == Compact!Ascending(touched)
             m == Cardinality(touched)
             patches == [k \in DOMAIN order |-> Compact!patch(b, order[k], staged[order[k]])]
             okR == [k \in 1..n |-> Audit!Runs(s, Audit!DataPatchList, q) /\ Audit!Succeeds(s, q, k)]
             touchedR == {q[k].body.index : k \in {x \in 1..n : okR[x]}}
  <1>1. /\ n \in Nat /\ DOMAIN p = 1..n /\ Len(p) = n
        /\ \A k \in 1..n : /\ p[k] = CompactReport(q[k]) /\ q[k] \in AuditReports
                           /\ p[k].body = q[k].body /\ q[k].body.index \in Members
    <2>1. \A k \in 1..n : q[k] \in AuditReports
      OBVIOUS
    <2>2. \A k \in 1..n : q[k].body.index \in Members
      BY <2>1 DEF AuditReports, PaymentBodies
    <2>3. \A k \in 1..n : CompactReport(q[k]).body = q[k].body
      BY <2>1 DEF AuditReports, CompactReport
    <2>4. DOMAIN p = 1..n /\ Len(p) = n /\ \A k \in 1..n : p[k] = CompactReport(q[k])
      BY CompactBatchIs
    <2> HIDE DEF p
    <2> QED BY <2>1, <2>2, <2>3, <2>4
  <1>2. ASSUME NEW k \in 1..n
        PROVE  Compact!Succeeds(b, p, k) = (Audit!Runs(s, Audit!DataPatchList, q) /\ Audit!Succeeds(s, q, k))
    <2>1. k - 1 \in 0..n
      BY <1>1
    <2>2. SubSeq(p, 1, k - 1) = CompactBatch(SubSeq(q, 1, k - 1)) /\ SubSeq(q, 1, k - 1) \in Seq(AuditReports)
      BY <2>1, CompactBatchIs
    <2>3. Compact!Staged(b, SubSeq(p, 1, k - 1)) = Audit!Staged(s, SubSeq(q, 1, k - 1))
      BY <2>2, StagedSame
    <2>4. Compact!accepted(b, Compact!Staged(b, SubSeq(p, 1, k - 1)), p[k])
            <=> Audit!accepted(s, Audit!Staged(s, SubSeq(q, 1, k - 1)), q[k])
      BY <1>1, <2>3, AcceptedSame
    <2>5. Compact!validate(b) /\ Audit!validate(s)
      BY HoldsValid DEF Lawful
    <2>6. Len(p) = Len(q)
      BY <1>1
    <2> HIDE DEF p, n
    <2> QED BY <2>4, <2>5, <2>6 DEF Compact!Succeeds, Audit!Runs, Audit!Succeeds
  <1>3. staged = Audit!Staged(s, q) /\ staged \in [Members -> RecordSet]
    BY StagedSame DEF Records, RecordSet
  <1>4. touched = touchedR /\ touched \in SUBSET Members
    <2>1. \A k \in 1..n : ok[k] = okR[k] /\ k \in DOMAIN p
      BY <1>1, <1>2
    <2>2. DOMAIN p = 1..n
      BY <1>1
    <2> HIDE DEF p, ok, okR
    <2> QED BY <1>1, <2>1, <2>2
  <1>5. got = [statuses |-> ok, update |-> Compact!replacement(b, mode, patches)]
    BY DEF Compact!process_batch
  <1>6. reg = [statuses |-> okR,
               state |-> [s EXCEPT !.records = [i \in Members |-> IF i \in touchedR THEN Audit!Staged(s, q)[i]
                                                                 ELSE s.records[i]]]]
    BY AuditIndices DEF Audit!process_batch
  <1>7. got.statuses = reg.statuses
    <2>1. ok = okR
      <3>1. \A k \in 1..n : Compact!Succeeds(b, p, k) = (Audit!Runs(s, Audit!DataPatchList, q) /\ Audit!Succeeds(s, q, k))
        BY <1>2
      <3>2. DOMAIN p = 1..n
        BY <1>1
      <3> HIDE DEF p
      <3> QED BY <3>1, <3>2
    <2> HIDE DEF ok, okR, patches, touchedR
    <2> QED BY <1>5, <1>6, <2>1
  <1> HIDE DEF p, ok, okR, touched, touchedR, staged, order, m
  <1>8. /\ m \in Nat /\ order \in [1..m -> Members] /\ DOMAIN order = 1..m
        /\ \A x, y \in 1..m : x < y => order[x] < order[y]
        /\ \A i : i \in touched <=> \E x \in 1..m : order[x] = i
    BY <1>4, AscendingIs DEF order, m
  <1>9. patches = [k \in 1..m |-> RecordPatch(order[k], staged[order[k]])]
    <2>1. Compact!count(b) = Count
      BY HoldsReads
    <2>2. \A k \in 1..m : Compact!patch(b, order[k], staged[order[k]]) = RecordPatch(order[k], staged[order[k]])
      BY <1>8, <2>1, PatchIs
    <2> QED BY <1>8, <2>2
  <1> HIDE DEF patches
  <1>10. Compact!Appliable(b, patches)
    BY <1>8, <1>9, RecordsAppliable DEF Holds, HoldsParts
  <1>11. HoldsParts(Compact!Patched(b, patches), s.sources, Renewed(s.records, order, m, staged))
    BY <1>3, <1>8, <1>9, PatchedRecords
  <1>12. reg.state.sources = s.sources /\ reg.state.records = Renewed(s.records, order, m, staged)
    <2>1. Renewed(s.records, order, m, staged)
            = [i \in Members |-> IF i \in touchedR THEN Audit!Staged(s, q)[i] ELSE s.records[i]]
      BY <1>3, <1>4, <1>8 DEF Renewed
    <2>2. s \in [sources : [Members -> Members \cup {NoAddress}], records : Records]
      BY DEF Lawful, Ledgers
    <2> QED BY <1>6, <2>1, <2>2
  <1>13. Compact!Apply(b, mode, got.update) = Compact!Patched(b, patches)
    BY <1>5, <1>10, AppliedIs
  <1> QED BY <1>7, <1>11, <1>12, <1>13 DEF Holds

\* One patch.
(* One patch, and none.                                                     *)
LEMMA PatchedOnce ==
  ASSUME NEW b, NEW p, p.offset \in Nat, p.old_len \in Nat, p.offset + p.old_len <= b.len,
         NEW mode, NEW c, c = Compact!Copied(b, p.offset, p.new_bytes)
  PROVE  Compact!Apply(b, mode, Compact!replacement(b, mode, <<p>>)) = c
  <1> DEFINE q == <<p>>
  <1>1. Compact!Appliable(b, q)
    BY DEF Compact!Appliable
  <1>2. Compact!Patched(b, q) = c
    <2> DEFINE D == DOMAIN q
               Eq(h) == h = [d \in SUBSET D |-> IF d = {} THEN b
                               ELSE Compact!Copied(h[d \ {Max(d)}], q[Max(d)].offset, q[Max(d)].new_bytes)]
               g == CHOOSE h : Eq(h)
               h1 == [d \in SUBSET {1} |-> IF d = {} THEN b ELSE c]
    <2>1. Compact!Patched(b, q) = g[D]
      BY DEF Compact!Patched, FoldLeft, Compact!FoldLeft, MapThenFoldSet, Compact!MapThenFoldSet,
             Max, Compact!Max
    <2>2. D = {1} /\ q[1] = p /\ \A d \in SUBSET D : d = {} \/ d = {1}
      <3>1. D = {1} /\ q[1] = p
        OBVIOUS
      <3> HIDE DEF D
      <3> QED BY <3>1
    <2>3. Max({1}) = 1
      BY DEF Max
    <2> HIDE DEF D, q
    <2>4. Eq(h1)
      <3>1. \A d \in SUBSET D : d # {} => d = {1} /\ Max(d) = 1 /\ d \ {Max(d)} = {}
        <4> SUFFICES ASSUME NEW d \in SUBSET D, d # {}
                     PROVE  d = {1} /\ Max(d) = 1 /\ d \ {Max(d)} = {}
          OBVIOUS
        <4>1. d = {1}
          BY <2>2
        <4> QED BY <2>3, <4>1
      <3>2. h1[{}] = b /\ h1[{1}] = c /\ h1 = [d \in SUBSET D |-> h1[d]]
        BY <2>2
      <3>3. \A d \in SUBSET D : d # {} =>
              c = Compact!Copied(h1[d \ {Max(d)}], q[Max(d)].offset, q[Max(d)].new_bytes)
        BY <2>2, <3>1, <3>2
      <3> HIDE DEF h1
      <3>4. \A d \in SUBSET D : h1[d] = IF d = {} THEN b
              ELSE Compact!Copied(h1[d \ {Max(d)}], q[Max(d)].offset, q[Max(d)].new_bytes)
        <4> SUFFICES ASSUME NEW d \in SUBSET D
                     PROVE  h1[d] = IF d = {} THEN b
                              ELSE Compact!Copied(h1[d \ {Max(d)}], q[Max(d)].offset, q[Max(d)].new_bytes)
          OBVIOUS
        <4>1. CASE d = {}
          BY <3>2, <4>1
        <4>2. CASE d # {}
          BY <2>2, <3>1, <3>2, <3>3, <4>2
        <4> QED BY <4>1, <4>2
      <3> QED BY <3>2, <3>4
    <2>5. Eq(g)
      <3> HIDE DEF Eq, h1
      <3> QED BY <2>4
    <2> HIDE DEF g
    <2>6. g[{}] = b /\ g[{1}] = Compact!Copied(g[{1} \ {1}], p.offset, p.new_bytes)
      <3>1. {} \in SUBSET D /\ {1} \in SUBSET D /\ {1} # {}
        BY <2>2
      <3>2. g = [d \in SUBSET D |-> IF d = {} THEN b
                   ELSE Compact!Copied(g[d \ {Max(d)}], q[Max(d)].offset, q[Max(d)].new_bytes)]
        BY <2>5
      <3> HIDE DEF D, Eq, q
      <3>3. g[{}] = b
        BY <3>1, <3>2
      <3>4. g[{1}] = Compact!Copied(g[{1} \ {Max({1})}], q[Max({1})].offset, q[Max({1})].new_bytes)
        BY <3>1, <3>2
      <3> QED BY <2>2, <2>3, <3>3, <3>4
    <2>7. {1} \ {1} = {}
      OBVIOUS
    <2> QED BY <2>1, <2>2, <2>6, <2>7
  <1> HIDE DEF q
  <1> QED BY <1>1, <1>2, AppliedIs DEF q

(* Without a patch the bytes stay as they are, in either mode.              *)
LEMMA PatchedNever ==
  ASSUME NEW b, NEW mode
  PROVE  Compact!Apply(b, mode, Compact!replacement(b, mode, <<>>)) = b
  <1>1. Compact!Appliable(b, <<>>)
    BY DEF Compact!Appliable
  <1>2. Compact!Patched(b, <<>>) = b
    <2>1. DOMAIN <<>> = {}
      OBVIOUS
    <2> DEFINE Eq(h) == h = [d \in SUBSET DOMAIN <<>> |-> IF d = {} THEN b
                               ELSE Compact!Copied(h[d \ {Max(d)}], <<>>[Max(d)].offset, <<>>[Max(d)].new_bytes)]
               g == CHOOSE h : Eq(h)
               h1 == [d \in {{}} |-> b]
    <2>2. Compact!Patched(b, <<>>) = g[DOMAIN <<>>]
      BY DEF Compact!Patched, FoldLeft, Compact!FoldLeft, MapThenFoldSet, Compact!MapThenFoldSet,
             Max, Compact!Max
    <2>3. Eq(h1)
      BY <2>1
    <2>4. Eq(g)
      <3> HIDE DEF Eq, h1
      <3> QED BY <2>3
    <2> HIDE DEF g
    <2>5. g[{}] = b
      BY <2>1, <2>4
    <2> QED BY <2>1, <2>2, <2>5
  <1> QED BY <1>1, <1>2, AppliedIs

(* A report in isolation does the same to both ledgers.                     *)
LEMMA OneHolds ==
  ASSUME NEW b, NEW s, Lawful(s), Holds(b, s), NEW report \in AuditReports, NEW mode,
         NEW seen, seen = CompactReport(report)
  PROVE  Holds(IF Compact!Accepts(b, seen)
               THEN Compact!Apply(b, mode, Compact!isolated(b, mode, seen)) ELSE b,
               Audit!isolated(s, report))
  <1> DEFINE body == report.body
             i == body.index
             new == Audit!Recorded(s.records, body)
             t == [s EXCEPT !.records = new]
  <1>1. body \in PaymentBodies /\ i \in Members /\ seen.body = body
    BY AcceptedSame DEF AuditReports, PaymentBodies
  <1>2. Compact!Accepts(b, seen) <=> Audit!accepted(s, s.records, report)
    BY AcceptedSame, RecordsSame, HoldsValid DEF Compact!Accepts
  <1>3. Audit!isolated(s, report) = IF Audit!accepted(s, s.records, report) THEN t ELSE s
    BY DEF Lawful, Audit!isolated
  <1>4. CASE ~Audit!accepted(s, s.records, report)
    BY <1>2, <1>3, <1>4
  <1>5. CASE Audit!accepted(s, s.records, report)
    <2>1. s.records \in Records /\ s \in Ledgers
      BY DEF Lawful, Ledgers
    <2>2. new \in Records /\ \A j \in Members \ {i} : new[j] = s.records[j]
      <3>1. new \in Records
        BY <1>1, <2>1, RecordedType
      <3>2. \A j \in Members \ {i} : new[j] = s.records[j]
        BY <2>1 DEF Audit!Recorded, Records
      <3> QED BY <3>1, <3>2
    <2> DEFINE p == RecordPatch(i, new[i])
               c == Compact!Copied(b, 44 + 64 * Count + 32 * i, Compact!encode(new[i]))
    <2>3. Compact!isolated(b, mode, seen) = Compact!replacement(b, mode, <<p>>)
      <3>1. Compact!Recorded(Compact!Records(b), seen.body) = new
        BY <1>1, RecordsSame, RecordedSame
      <3>2. Compact!patch(b, i, new[i]) = p
        BY <1>1, HoldsReads, PatchIs
      <3> HIDE DEF new, p
      <3> QED BY <1>1, <3>1, <3>2 DEF Compact!isolated
    <2>4. /\ p.offset = 44 + 64 * Count + 32 * i /\ p.old_len = 32 /\ p.new_bytes = Compact!encode(new[i])
          /\ b.len = 44 + 96 * Count
      BY DEF RecordPatch, Holds, HoldsParts, HoldsHeader
    <2>5. p.offset \in Nat /\ p.old_len \in Nat /\ p.offset + p.old_len <= b.len
      <3>1. Count \in Nat /\ i \in Nat /\ i + 1 <= Count
        BY <1>1, CountRange
      <3> HIDE DEF p
      <3> QED BY <2>4, <3>1
    <2>6. Compact!Apply(b, mode, Compact!isolated(b, mode, seen)) = c
      <3>1. c = Compact!Copied(b, p.offset, p.new_bytes)
        BY <2>4
      <3> HIDE DEF p, c
      <3> QED BY <2>3, <2>5, <3>1, PatchedOnce
    <2>7. new[i] \in RecordSet /\ s.records \in [Members -> RecordSet]
      BY <1>1, <2>1, <2>2 DEF Records, RecordSet
    <2>8. HoldsParts(c, s.sources, [s.records EXCEPT ![i] = new[i]])
      <3> HIDE DEF new, i
      <3>1. HoldsParts(b, s.sources, s.records) /\ i \in Members
        BY <1>1 DEF Holds
      <3> QED BY <2>7, <3>1, RecordWritten
    <2>9. [s.records EXCEPT ![i] = new[i]] = new
      <3> HIDE DEF new, i
      <3> QED BY <2>1, <2>2, <2>7 DEF Records
    <2>10. t.sources = s.sources /\ t.records = new
      <3> HIDE DEF new
      <3> QED BY <2>1 DEF Ledgers
    <2>11. Holds(c, t)
      <3> HIDE DEF c, t, new, i
      <3> QED BY <2>8, <2>9, <2>10 DEF Holds
    <2> HIDE DEF c, t
    <2> QED BY <1>2, <1>3, <1>5, <2>6, <2>11
  <1> QED BY <1>4, <1>5

(* So does a binding the owner asks for,                                    *)
LEMMA BindHolds ==
  ASSUME NEW b, NEW s, Lawful(s), Holds(b, s), NEW i \in Members, NEW source \in Members, NEW mode,
         Audit!CanBind(s, i, source)
  PROVE  Holds(IF Compact!CanBind(b, i, AddressOf(source))
               THEN Compact!Apply(b, mode, Compact!audit_bind(b, mode, i, AddressOf(source))) ELSE b,
               Audit!Bound(s, i, source))
  <1> DEFINE p == [offset |-> 44 + 64 * i, old_len |-> 64,
                   new_bytes |-> Compact!Bytes(64, [o \in {0} |-> AddressOf(source)])]
             c == Compact!Copied(b, 44 + 64 * i, Compact!Bytes(64, [o \in {0} |-> AddressOf(source)]))
             t == Audit!Bound(s, i, source)
  <1>1. /\ source # NoAddress /\ s.sources[i] = NoAddress
        /\ \A j \in Members : s.sources[j] # source
    BY AuditIndices DEF Audit!CanBind
  <1>2. Compact!CanBind(b, i, AddressOf(source))
    <2>1. /\ Compact!validate(b) /\ Compact!count(b) = Count /\ Members = 0..(Count - 1) /\ i < Count
          /\ \A j \in Members : Compact!SourceAt(b, j) = AddressOf(s.sources[j])
      BY HoldsValid, HoldsReads, CountRange
    <2>2. AddressOf(source) # 0 /\ AddressOf(s.sources[i]) = 0
      BY <1>1, CountRange DEF AddressOf
    <2>3. ASSUME NEW j \in Members PROVE AddressOf(s.sources[j]) # AddressOf(source)
      <3>1. s.sources[j] \in Members \cup {NoAddress}
        BY LawfulIs
      <3> QED BY <1>1, <3>1, AddressesDiffer
    <2> QED BY <2>1, <2>2, <2>3 DEF Compact!CanBind
  <1>3. Compact!audit_bind(b, mode, i, AddressOf(source)) = Compact!replacement(b, mode, <<p>>)
    <2>1. 44 + i * 64 = 44 + 64 * i
      BY CountRange
    <2> QED BY <2>1 DEF Compact!audit_bind, Compact!HEADER_BYTES, Compact!ADDRESS_BYTES
  <1>4. /\ p.offset = 44 + 64 * i /\ p.old_len = 64
        /\ p.new_bytes = Compact!Bytes(64, [o \in {0} |-> AddressOf(source)])
        /\ b.len = 44 + 96 * Count
    BY DEF Holds, HoldsParts, HoldsHeader
  <1>5. p.offset \in Nat /\ p.old_len \in Nat /\ p.offset + p.old_len <= b.len
    <2>1. Count \in Nat /\ i \in Nat /\ i + 1 <= Count
      BY CountRange
    <2> HIDE DEF p
    <2> QED BY <1>4, <2>1
  <1>6. Compact!Apply(b, mode, Compact!audit_bind(b, mode, i, AddressOf(source))) = c
    <2>1. c = Compact!Copied(b, p.offset, p.new_bytes)
      BY <1>4
    <2> HIDE DEF p, c
    <2> QED BY <1>3, <1>5, <2>1, PatchedOnce
  <1>7. HoldsParts(c, [s.sources EXCEPT ![i] = source], s.records)
    BY SourceWritten
  <1>8. t.sources = [s.sources EXCEPT ![i] = source] /\ t.records = s.records
    BY DEF Lawful, Ledgers, Audit!Bound
  <1> HIDE DEF c, t
  <1>9. Holds(c, t)
    BY <1>7, <1>8 DEF Holds
  <1> QED BY <1>2, <1>6, <1>9 DEF t

(* AUDIT_STATUS changes nothing,                                            *)
LEMMA StatusHolds ==
  ASSUME NEW b, NEW mode
  PROVE  Compact!Apply(b, mode, Compact!audit_status(b, mode)) = b
  BY PatchedNever DEF Compact!audit_status

(* and a new compact ledger holds the new regular one.                      *)
LEMMA InitHolds == Holds(Compact!initialize, Audit!NewLedger)
  <1> DEFINE D == {0, 4, 8, 40}
             len == 44 + 96 * Count
             fields == [o \in D |-> CASE o = 0 -> len - 4 [] o = 4 -> Compact!MAGIC
                                      [] o = 8 -> 1 [] o = 40 -> Count]
             b == Compact!Bytes(len, fields)
  <1>1. Count \in 1..16 /\ Members = 0..(Count - 1)
    BY CountRange
  <1>2. b = Compact!initialize
    BY DEF Compact!initialize, Compact!state_bytes, Compact!HEADER_BYTES
  <1>3. /\ fields[0] = 40 + 96 * Count /\ fields[4] = Compact!MAGIC /\ fields[8] = 1
        /\ fields[40] = Count /\ fields = [o \in D |-> fields[o]]
    BY <1>1
  <1> HIDE DEF fields
  <1>4. \A o \in D : fields[o] \in Nat
    BY <1>1, <1>3 DEF Compact!MAGIC
  <1>5. FieldsAt(len, D, fields)
    <2>1. \A o \in D : o \in Nat /\ o < len
      BY <1>1
    <2>2. fields \in [D -> Nat]
      BY <1>3, <1>4
    <2>3. len \in Nat
      BY <1>1
    <2> HIDE DEF D, len
    <2> QED BY <2>1, <2>2, <2>3 DEF FieldsAt
  <1>6. Says(b, len, D, fields)
    <2> HIDE DEF D, len
    <2> QED BY <1>5, BytesRead
  <1>7. b \in ByteStrings /\ b.len = len /\ \A o : Compact!ValueAt(b, o) = IF o \in D THEN fields[o] ELSE 0
    BY <1>6 DEF Says
  <1> HIDE DEF b
  <1>8. HoldsHeader(b)
    BY <1>3, <1>7 DEF HoldsHeader, HeaderAt
  <1>9. \A i \in Members : Audit!NewLedger.sources[i] = NoAddress /\ Audit!NewLedger.records[i] = Audit!NewRecord
    BY AuditIndices DEF Audit!NewLedger
  <1>10. HoldsSources(b, Audit!NewLedger.sources)
    <2>1. ASSUME NEW i \in Members, NEW k \in 0..63
          PROVE  Compact!ValueAt(b, 44 + 64 * i + k) = SourceField(Audit!NewLedger.sources[i], k)
      <3>1. 44 + 64 * i + k \notin D
        BY <1>1
      <3>2. SourceField(NoAddress, k) = 0
        BY DEF SourceField, AddressOf
      <3> QED BY <1>7, <1>9, <3>1, <3>2
    <2> QED BY <2>1 DEF HoldsSources
  <1>11. HoldsRecords(b, Audit!NewLedger.records)
    <2>1. ASSUME NEW i \in Members, NEW k \in 0..31
          PROVE  Compact!ValueAt(b, 44 + 64 * Count + 32 * i + k) = FieldOf(Audit!NewLedger.records[i], k)
      <3>1. 44 + 64 * Count + 32 * i + k \notin D
        BY <1>1
      <3>2. FieldOf(Audit!NewRecord, k) = 0
        BY DEF FieldOf, Audit!NewRecord
      <3> QED BY <1>7, <1>9, <3>1, <3>2
    <2> QED BY <2>1 DEF HoldsRecords
  <1> QED BY <1>2, <1>8, <1>10, <1>11 DEF Holds, HoldsParts

----------------------------------------------------------------------------
(***************************************************************************)
(* The conversions.                                                        *)
(***************************************************************************)
\* c is b with a part of old moved to the place first.
Moved(b, first, old, from, len, c) ==
    /\ c \in ByteStrings /\ c.len = b.len
    /\ \A o \in Nat : Compact!ValueAt(c, o)
         = IF first <= o /\ o < first + len THEN Compact!ValueAt(old, from + (o - first))
           ELSE Compact!ValueAt(b, o)

(* Copying a slice of old to another place moves its bytes.                 *)
LEMMA MovedIs ==
  ASSUME NEW b \in ByteStrings, NEW old \in ByteStrings, NEW first \in Nat, NEW from \in Nat,
         NEW len \in Nat, first + len <= b.len
  PROVE  Moved(b, first, old, from, len, Compact!Copied(b, first, Compact!Slice(old, from, len)))
  <1> DEFINE piece == Compact!Slice(old, from, len)
             c == Compact!Copied(b, first, piece)
  <1>1. /\ piece \in ByteStrings /\ piece.len = len
        /\ \A k \in Nat : Compact!ValueAt(piece, k) = IF k < len THEN Compact!ValueAt(old, from + k) ELSE 0
    BY SliceReads
  <1> HIDE DEF piece
  <1>2. /\ c \in ByteStrings /\ c.len = b.len
        /\ \A o \in Nat : Compact!ValueAt(c, o)
             = IF first <= o /\ o < first + len THEN Compact!ValueAt(piece, o - first)
               ELSE Compact!ValueAt(b, o)
    BY <1>1, CopiedReads
  <1> HIDE DEF c
  <1>3. ASSUME NEW o \in Nat
        PROVE  Compact!ValueAt(c, o)
                 = IF first <= o /\ o < first + len THEN Compact!ValueAt(old, from + (o - first))
                   ELSE Compact!ValueAt(b, o)
    <2>1. CASE first <= o /\ o < first + len
      <3>1. o - first \in Nat /\ o - first < len
        BY <2>1
      <3> QED BY <1>1, <1>2, <2>1, <3>1
    <2>2. CASE ~(first <= o /\ o < first + len)
      BY <1>2, <2>2
    <2> QED BY <2>1, <2>2
  <1> QED BY <1>2, <1>3 DEF Moved, c, piece

\* A string of the regular layout's length that says it is for n members.
Regularly(old, n) ==
    /\ old \in ByteStrings /\ old.len = 65540
    /\ n \in 1..16 /\ Compact!ValueAt(old, 36) = n

(* Every byte compact_legacy() assembles.                                   *)
LEMMA CompactedReads ==
  ASSUME NEW old, NEW n, Regularly(old, n), NEW c, c = Compact!Compacted(old)
  PROVE  /\ c \in ByteStrings /\ c.len = 44 + 96 * n
         /\ \A o \in Nat : Compact!ValueAt(c, o)
              = IF 44 + 64 * n <= o /\ o < 44 + 96 * n
                THEN Compact!ValueAt(old, 2052 + (o - (44 + 64 * n)))
                ELSE IF 44 <= o /\ o < 44 + 64 * n THEN Compact!ValueAt(old, 68 + (o - 44))
                ELSE IF 8 <= o /\ o < 40 THEN Compact!ValueAt(old, 4 + (o - 8))
                ELSE IF o = 0 THEN 40 + 96 * n
                ELSE IF o = 4 THEN Compact!MAGIC ELSE IF o = 40 THEN n ELSE 0
  <1> DEFINE D == {0, 4, 40}
             len == 44 + 96 * n
             fields == [o \in D |-> CASE o = 0 -> len - 4 [] o = 4 -> Compact!MAGIC [] o = 40 -> n]
             fixed == Compact!Bytes(len, fields)
             header == Compact!Copied(fixed, 8, Compact!Slice(old, 4, 32))
             sourced == Compact!Copied(header, 44, Compact!Slice(old, 68, 64 * n))
  <1>1. old \in ByteStrings /\ n \in Nat /\ 1 <= n /\ n <= 16 /\ Compact!ValueAt(old, 36) = n
    BY DEF Regularly
  <1>2. c = Compact!Copied(sourced, 44 + 64 * n, Compact!Slice(old, 2052, 32 * n))
    BY <1>1 DEF Compact!Compacted, Compact!state_bytes, Compact!HEADER_BYTES, Compact!ADDRESS_BYTES,
           Compact!RECORD_BYTES, Compact!LEGACY_SOURCES, Compact!LEGACY_RECORDS
  <1>3. /\ fields[0] = 40 + 96 * n /\ fields[4] = Compact!MAGIC /\ fields[40] = n
        /\ fields = [o \in D |-> fields[o]]
    BY <1>1
  <1> HIDE DEF fields
  <1>4. Says(fixed, len, D, fields)
    <2>1. \A o \in D : o \in Nat /\ o < len /\ fields[o] \in Nat
      BY <1>1, <1>3 DEF Compact!MAGIC
    <2>2. fields \in [D -> Nat]
      BY <1>3, <2>1
    <2>3. len \in Nat
      BY <1>1
    <2> HIDE DEF D, len
    <2>4. FieldsAt(len, D, fields)
      BY <2>1, <2>2, <2>3 DEF FieldsAt
    <2> QED BY <2>4, BytesRead
  <1>5. fixed \in ByteStrings /\ fixed.len = len
        /\ \A o \in Nat : Compact!ValueAt(fixed, o)
             = IF o = 0 THEN 40 + 96 * n ELSE IF o = 4 THEN Compact!MAGIC ELSE IF o = 40 THEN n ELSE 0
    BY <1>3, <1>4 DEF Says
  <1> HIDE DEF fixed
  <1>6. Moved(fixed, 8, old, 4, 32, header)
    BY <1>1, <1>5, MovedIs
  <1> HIDE DEF header
  <1>7. Moved(header, 44, old, 68, 64 * n, sourced)
    <2>1. header \in ByteStrings /\ header.len = len
      BY <1>5, <1>6 DEF Moved
    <2>2. 64 * n \in Nat /\ 44 + 64 * n <= header.len
      BY <1>1, <2>1
    <2> QED BY <1>1, <2>1, <2>2, MovedIs
  <1> HIDE DEF sourced
  <1>8. Moved(sourced, 44 + 64 * n, old, 2052, 32 * n, c)
    <2>1. sourced \in ByteStrings /\ sourced.len = len
      BY <1>5, <1>6, <1>7 DEF Moved
    <2>2. 44 + 64 * n \in Nat /\ 32 * n \in Nat /\ (44 + 64 * n) + 32 * n <= sourced.len
      BY <1>1, <2>1
    <2> QED BY <1>1, <1>2, <2>1, <2>2, MovedIs
  <1>9. c \in ByteStrings /\ c.len = len
    BY <1>5, <1>6, <1>7, <1>8 DEF Moved
  <1>10. ASSUME NEW o \in Nat
         PROVE  Compact!ValueAt(c, o)
              = IF 44 + 64 * n <= o /\ o < 44 + 96 * n
                THEN Compact!ValueAt(old, 2052 + (o - (44 + 64 * n)))
                ELSE IF 44 <= o /\ o < 44 + 64 * n THEN Compact!ValueAt(old, 68 + (o - 44))
                ELSE IF 8 <= o /\ o < 40 THEN Compact!ValueAt(old, 4 + (o - 8))
                ELSE IF o = 0 THEN 40 + 96 * n
                ELSE IF o = 4 THEN Compact!MAGIC ELSE IF o = 40 THEN n ELSE 0
    <2>1. Compact!ValueAt(c, o) = IF 44 + 64 * n <= o /\ o < (44 + 64 * n) + 32 * n
                                  THEN Compact!ValueAt(old, 2052 + (o - (44 + 64 * n)))
                                  ELSE Compact!ValueAt(sourced, o)
      BY <1>8 DEF Moved
    <2>2. Compact!ValueAt(sourced, o) = IF 44 <= o /\ o < 44 + 64 * n
                                        THEN Compact!ValueAt(old, 68 + (o - 44))
                                        ELSE Compact!ValueAt(header, o)
      BY <1>7 DEF Moved
    <2>3. Compact!ValueAt(header, o) = IF 8 <= o /\ o < 8 + 32 THEN Compact!ValueAt(old, 4 + (o - 8))
                                       ELSE Compact!ValueAt(fixed, o)
      BY <1>6 DEF Moved
    <2> QED BY <1>1, <1>5, <2>1, <2>2, <2>3
  <1> QED BY <1>9, <1>10

(* Every byte of the expansion.                                             *)
LEMMA ExpandedReads ==
  ASSUME NEW b \in ByteStrings, NEW n \in 1..16, Compact!count(b) = n,
         NEW c, c = Compact!expand_legacy(b)
  PROVE  /\ c \in ByteStrings /\ c.len = 65540
         /\ \A o \in Nat : Compact!ValueAt(c, o)
              = IF 2052 <= o /\ o < 2052 + 32 * n
                THEN Compact!ValueAt(b, (44 + 64 * n) + (o - 2052))
                ELSE IF 68 <= o /\ o < 68 + 64 * n THEN Compact!ValueAt(b, 44 + (o - 68))
                ELSE IF 4 <= o /\ o < 36 THEN Compact!ValueAt(b, 8 + (o - 4))
                ELSE IF o = 0 THEN 65536 ELSE IF o = 36 THEN n ELSE 0
  <1> DEFINE D == {0, 36}
             fields == [o \in D |-> IF o = 0 THEN 65540 - 4 ELSE n]
             fixed == Compact!Bytes(65540, fields)
             header == Compact!Copied(fixed, 4, Compact!Slice(b, 8, 32))
             sourced == Compact!Copied(header, 68, Compact!Slice(b, 44, 64 * n))
  <1>1. n \in Nat /\ 1 <= n /\ n <= 16
    OBVIOUS
  <1>2. c = Compact!Copied(sourced, 2052, Compact!Slice(b, 44 + 64 * n, 32 * n))
    BY DEF Compact!expand_legacy, Compact!HEADER_BYTES, Compact!ADDRESS_BYTES, Compact!LEGACY_BYTES,
           Compact!RECORD_BYTES, Compact!LEGACY_SOURCES, Compact!LEGACY_RECORDS
  <1>3. fields[0] = 65536 /\ fields[36] = n /\ fields = [o \in D |-> fields[o]]
    BY <1>1
  <1> HIDE DEF fields
  <1>4. Says(fixed, 65540, D, fields)
    <2>1. \A o \in D : o \in Nat /\ o < 65540 /\ fields[o] \in Nat
      BY <1>1, <1>3
    <2>2. fields \in [D -> Nat]
      BY <1>3, <2>1
    <2> HIDE DEF D
    <2>3. FieldsAt(65540, D, fields)
      BY <2>1, <2>2 DEF FieldsAt
    <2> QED BY <2>3, BytesRead
  <1>5. fixed \in ByteStrings /\ fixed.len = 65540
        /\ \A o \in Nat : Compact!ValueAt(fixed, o)
             = IF o = 0 THEN 65536 ELSE IF o = 36 THEN n ELSE 0
    BY <1>3, <1>4 DEF Says
  <1> HIDE DEF fixed
  <1>6. Moved(fixed, 4, b, 8, 32, header)
    BY <1>1, <1>5, MovedIs
  <1> HIDE DEF header
  <1>7. Moved(header, 68, b, 44, 64 * n, sourced)
    <2>1. header \in ByteStrings /\ header.len = 65540
      BY <1>5, <1>6 DEF Moved
    <2>2. 64 * n \in Nat /\ 68 + 64 * n <= header.len
      BY <1>1, <2>1
    <2> QED BY <1>1, <2>1, <2>2, MovedIs
  <1> HIDE DEF sourced
  <1>8. Moved(sourced, 2052, b, 44 + 64 * n, 32 * n, c)
    <2>1. sourced \in ByteStrings /\ sourced.len = 65540
      BY <1>5, <1>6, <1>7 DEF Moved
    <2>2. 44 + 64 * n \in Nat /\ 32 * n \in Nat /\ 2052 + 32 * n <= sourced.len
      BY <1>1, <2>1
    <2> QED BY <1>1, <1>2, <2>1, <2>2, MovedIs
  <1>9. c \in ByteStrings /\ c.len = 65540
    BY <1>5, <1>6, <1>7, <1>8 DEF Moved
  <1>10. ASSUME NEW o \in Nat
         PROVE  Compact!ValueAt(c, o)
              = IF 2052 <= o /\ o < 2052 + 32 * n
                THEN Compact!ValueAt(b, (44 + 64 * n) + (o - 2052))
                ELSE IF 68 <= o /\ o < 68 + 64 * n THEN Compact!ValueAt(b, 44 + (o - 68))
                ELSE IF 4 <= o /\ o < 36 THEN Compact!ValueAt(b, 8 + (o - 4))
                ELSE IF o = 0 THEN 65536 ELSE IF o = 36 THEN n ELSE 0
    <2>1. Compact!ValueAt(c, o) = IF 2052 <= o /\ o < 2052 + 32 * n
                                  THEN Compact!ValueAt(b, (44 + 64 * n) + (o - 2052))
                                  ELSE Compact!ValueAt(sourced, o)
      BY <1>8 DEF Moved
    <2>2. Compact!ValueAt(sourced, o) = IF 68 <= o /\ o < 68 + 64 * n
                                        THEN Compact!ValueAt(b, 44 + (o - 68))
                                        ELSE Compact!ValueAt(header, o)
      BY <1>7 DEF Moved
    <2>3. Compact!ValueAt(header, o) = IF 4 <= o /\ o < 4 + 32 THEN Compact!ValueAt(b, 8 + (o - 4))
                                       ELSE Compact!ValueAt(fixed, o)
      BY <1>6 DEF Moved
    <2> QED BY <1>1, <1>5, <2>1, <2>2, <2>3
  <1> QED BY <1>9, <1>10

(* Past its last byte a string of bytes reads as zero.                      *)
LEMMA BeyondReads ==
  ASSUME NEW b \in ByteStrings, NEW o \in Nat, b.len <= o
  PROVE  Compact!ValueAt(b, o) = 0
  <1>1. \A p \in DOMAIN b.at : p < b.len
    BY StringsAre
  <1>2. b.len \in Nat /\ DOMAIN b.at \in SUBSET Nat
    BY StringsAre
  <1>3. o \notin DOMAIN b.at
    BY <1>1, <1>2
  <1> QED BY <1>3 DEF Compact!ValueAt

(* Whatever the conversion does not refuse comes back as it was; a field of *)
(* four bytes at 0 is what the bytes 1 to 3 belong to.                      *)
LEMMA ExpandUndoes ==
  ASSUME NEW old \in ByteStrings, Compact!Convertible(old),
         \A o \in 1..3 : Compact!ValueAt(old, o) = 0
  PROVE  Compact!expand_legacy(Compact!Compacted(old)) = old
  <1> DEFINE n == Compact!ValueAt(old, 36)
             c == Compact!Compacted(old)
             e == Compact!expand_legacy(c)
  <1>1. /\ old.len = 65540 /\ Compact!ValueAt(old, 0) = 65536 /\ n \in 1..16
        /\ ~Compact!AnyIn(old, 37, 68) /\ ~Compact!AnyIn(old, 68 + 64 * n, 2052)
        /\ ~Compact!AnyIn(old, 2052 + 32 * n, 65540)
    BY DEF Compact!Convertible, Compact!LEGACY_BYTES, Compact!LEGACY_SOURCES, Compact!LEGACY_RECORDS,
           Compact!ADDRESS_BYTES, Compact!RECORD_BYTES, Compact!MAX_MEMBERS
  <1>2. \A o \in Nat : (37 <= o /\ o < 68) \/ (68 + 64 * n <= o /\ o < 2052)
                         \/ (2052 + 32 * n <= o /\ o < 65540) => Compact!ValueAt(old, o) = 0
    BY <1>1, AnyReads
  <1>3. ASSUME NEW o \in Nat, 65540 <= o PROVE Compact!ValueAt(old, o) = 0
    <2>1. old.len <= o
      BY <1>1, <1>3
    <2> QED BY <2>1, BeyondReads
  <1>4. n \in Nat /\ 1 <= n /\ n <= 16
    BY <1>1
  <1>5. Regularly(old, n)
    BY <1>1 DEF Regularly
  <1> HIDE DEF n
  <1>6. /\ c \in ByteStrings
        /\ \A o \in Nat : Compact!ValueAt(c, o)
              = IF 44 + 64 * n <= o /\ o < 44 + 96 * n
                THEN Compact!ValueAt(old, 2052 + (o - (44 + 64 * n)))
                ELSE IF 44 <= o /\ o < 44 + 64 * n THEN Compact!ValueAt(old, 68 + (o - 44))
                ELSE IF 8 <= o /\ o < 40 THEN Compact!ValueAt(old, 4 + (o - 8))
                ELSE IF o = 0 THEN 40 + 96 * n
                ELSE IF o = 4 THEN Compact!MAGIC ELSE IF o = 40 THEN n ELSE 0
    <2> HIDE DEF c
    <2> QED BY <1>5, CompactedReads DEF c
  <1> HIDE DEF c
  <1>7. Compact!count(c) = n
    BY <1>4, <1>6 DEF Compact!count
  <1>8. /\ e \in ByteStrings /\ e.len = 65540
        /\ \A o \in Nat : Compact!ValueAt(e, o)
              = IF 2052 <= o /\ o < 2052 + 32 * n
                THEN Compact!ValueAt(c, (44 + 64 * n) + (o - 2052))
                ELSE IF 68 <= o /\ o < 68 + 64 * n THEN Compact!ValueAt(c, 44 + (o - 68))
                ELSE IF 4 <= o /\ o < 36 THEN Compact!ValueAt(c, 8 + (o - 4))
                ELSE IF o = 0 THEN 65536 ELSE IF o = 36 THEN n ELSE 0
    <2> HIDE DEF e
    <2> QED BY <1>1, <1>6, <1>7, ExpandedReads DEF e
  <1> HIDE DEF e
  <1>9. ASSUME NEW o \in Nat PROVE Compact!ValueAt(e, o) = Compact!ValueAt(old, o)
    <2>1. CASE 2052 <= o /\ o < 2052 + 32 * n
      <3> DEFINE p == (44 + 64 * n) + (o - 2052)
      <3>1. p \in Nat /\ 44 + 64 * n <= p /\ p < 44 + 96 * n /\ 2052 + (p - (44 + 64 * n)) = o
        BY <1>4, <2>1
      <3>2. Compact!ValueAt(e, o) = Compact!ValueAt(c, p)
        BY <1>8, <2>1
      <3> HIDE DEF p
      <3>3. Compact!ValueAt(c, p) = Compact!ValueAt(old, o)
        BY <1>6, <3>1
      <3> QED BY <3>2, <3>3
    <2>2. CASE 68 <= o /\ o < 68 + 64 * n
      <3> DEFINE p == 44 + (o - 68)
      <3>1. p \in Nat /\ 44 <= p /\ p < 44 + 64 * n /\ 68 + (p - 44) = o
        BY <1>4, <2>2
      <3>2. Compact!ValueAt(e, o) = Compact!ValueAt(c, p)
        BY <1>4, <1>8, <2>2
      <3> HIDE DEF p
      <3>3. Compact!ValueAt(c, p) = Compact!ValueAt(old, o)
        BY <1>4, <1>6, <3>1
      <3> QED BY <3>2, <3>3
    <2>3. CASE 4 <= o /\ o < 36
      <3> DEFINE p == 8 + (o - 4)
      <3>1. p \in Nat /\ 8 <= p /\ p < 40 /\ 4 + (p - 8) = o
        BY <2>3
      <3>2. Compact!ValueAt(e, o) = Compact!ValueAt(c, p)
        BY <1>8, <2>3
      <3> HIDE DEF p
      <3>3. Compact!ValueAt(c, p) = Compact!ValueAt(old, o)
        BY <1>4, <1>6, <3>1
      <3> QED BY <3>2, <3>3
    <2>4. CASE o = 0 \/ o = 36
      BY <1>1, <1>4, <1>8, <2>4 DEF n
    <2>5. CASE o \in 1..3
      BY <1>4, <1>8, <2>5
    <2>6. CASE \/ 37 <= o /\ o < 68
               \/ 68 + 64 * n <= o /\ o < 2052
               \/ 2052 + 32 * n <= o
      <3>1. Compact!ValueAt(old, o) = 0
        BY <1>2, <1>3, <2>6
      <3>2. Compact!ValueAt(e, o) = 0
        BY <1>4, <1>8, <2>6
      <3> QED BY <3>1, <3>2
    <2> QED BY <1>4, <2>1, <2>2, <2>3, <2>4, <2>5, <2>6
  <1> QED BY <1>1, <1>8, <1>9, SameBytes DEF e, c

\* The k-th byte of member i's source and of its record in the regular layout.
RegularSource(b, i, k) == Compact!ValueAt(b, 68 + 64 * i + k)
RegularRecord(b, i, k) == Compact!ValueAt(b, 2052 + 32 * i + k)

\* The regular ledger's bytes, region by region.
RegularReads(b, s) ==
    /\ b \in ByteStrings /\ b.len = 65540
    /\ \A o \in 0..67 : Compact!ValueAt(b, o) = IF o = 0 THEN 65536 ELSE IF o = 4 THEN 1
                                                 ELSE IF o = 36 THEN Count ELSE 0
    /\ \A i \in Members, k \in 0..63 : RegularSource(b, i, k) = SourceField(s.sources[i], k)
    /\ \A i \in Members, k \in 0..31 : RegularRecord(b, i, k) = FieldOf(s.records[i], k)
    /\ \A o \in Nat : (68 + 64 * Count <= o /\ o < 2052) \/ 2052 + 32 * Count <= o =>
         Compact!ValueAt(b, o) = 0

(* Where the regular layout has a field,                                    *)
LEMMA OffsetsAre ==
  \A o : o \in RegularOffsets <=>
    \/ o \in {0, 4, 36}
    \/ \E i \in Members : o = 68 + 64 * i
    \/ \E i \in Members, k \in {0, 8, 24} : o = 2052 + 32 * i + k
  BY DEF RegularOffsets, Compact!LEGACY_SOURCES, Compact!LEGACY_RECORDS

(* which of the bytes of a source,                                          *)
LEMMA SourcePlace ==
  ASSUME NEW i \in Members, NEW k \in 0..63
  PROVE  68 + 64 * i + k \in RegularOffsets <=> k = 0
  <1>1. Count \in Nat /\ Count <= 16 /\ Members = 0..(Count - 1)
    BY CountRange
  <1> QED BY <1>1, OffsetsAre

(* of a record,                                                             *)
LEMMA RecordPlace ==
  ASSUME NEW i \in Members, NEW k, k \in 0..31, NEW o, o = 2052 + 32 * i + k
  PROVE  IF k \in {0, 8, 24} THEN o \in RegularOffsets ELSE o \notin RegularOffsets
  <1>1. Count \in Nat /\ Count <= 16 /\ Members = 0..(Count - 1)
    BY CountRange
  <1> QED BY <1>1, OffsetsAre

(* of the header and of the unused parts they are,                          *)
LEMMA RegularPlaces ==
  /\ \A o \in 0..67 : o \in RegularOffsets <=> o \in {0, 4, 36}
  /\ \A o \in Nat : (68 + 64 * Count <= o /\ o < 2052) \/ 2052 + 32 * Count <= o => o \notin RegularOffsets
  /\ RegularOffsets \in SUBSET Nat /\ \A o \in RegularOffsets : o < 65540
  <1>1. Count \in Nat /\ Count <= 16 /\ Members = 0..(Count - 1)
    BY CountRange
  <1>2. \A o \in 0..67 : o \in RegularOffsets <=> o \in {0, 4, 36}
    BY <1>1, OffsetsAre
  <1>3. \A o \in Nat : (68 + 64 * Count <= o /\ o < 2052) \/ 2052 + 32 * Count <= o => o \notin RegularOffsets
    BY <1>1, OffsetsAre
  <1>4. \A o \in RegularOffsets : o \in Nat /\ o < 65540
    BY <1>1, OffsetsAre
  <1> QED BY <1>2, <1>3, <1>4

(* and what the fields hold.                                                *)
LEMMA RegularValues ==
  ASSUME NEW s
  PROVE  /\ RegularValue(s, 0) = 65536 /\ RegularValue(s, 4) = 1 /\ RegularValue(s, 36) = Count
         /\ \A i \in Members : /\ RegularValue(s, 68 + 64 * i) = AddressOf(s.sources[i])
                               /\ RegularValue(s, 2052 + 32 * i) = s.records[i].last_nonce
                               /\ RegularValue(s, 2052 + 32 * i + 8) = s.records[i].total
                               /\ RegularValue(s, 2052 + 32 * i + 24) = s.records[i].count
  <1>1. RegularValue(s, 0) = 65536 /\ RegularValue(s, 4) = 1 /\ RegularValue(s, 36) = Count
    BY DEF RegularValue, Compact!LEGACY_BYTES, Compact!LEGACY_SOURCES, Compact!LEGACY_RECORDS
  <1>2. ASSUME NEW i \in Members
        PROVE  /\ RegularValue(s, 68 + 64 * i) = AddressOf(s.sources[i])
               /\ RegularValue(s, 2052 + 32 * i) = s.records[i].last_nonce
               /\ RegularValue(s, 2052 + 32 * i + 8) = s.records[i].total
               /\ RegularValue(s, 2052 + 32 * i + 24) = s.records[i].count
    <2>1. i \in Nat /\ i <= 15
      BY CountRange
    <2>2. RegularValue(s, 68 + 64 * i) = AddressOf(s.sources[i])
      <3> DEFINE o == 68 + 64 * i
      <3>1. o \in 68..2051 /\ (o - 68) \div 64 = i /\ o # 0 /\ o # 4 /\ o # 36 /\ ~(o >= 2052)
        BY <2>1
      <3> HIDE DEF o
      <3>2. RegularValue(s, o) = AddressOf(s.sources[i])
        BY <3>1 DEF RegularValue, Compact!LEGACY_BYTES, Compact!LEGACY_SOURCES, Compact!LEGACY_RECORDS
      <3> QED BY <3>2 DEF o
    <2>3. RegularValue(s, 2052 + 32 * i) = s.records[i].last_nonce
      <3> DEFINE o == 2052 + 32 * i
      <3>1. /\ o \in Nat /\ o >= 2052 /\ o # 0 /\ o # 4 /\ o # 36 /\ o \notin 68..2051
            /\ (o - 2052) \div 32 = i /\ (o - 2052) % 32 = 0
        BY <2>1
      <3> HIDE DEF o
      <3>2. RegularValue(s, o) = s.records[i].last_nonce
        BY <3>1 DEF RegularValue, Compact!LEGACY_BYTES, Compact!LEGACY_SOURCES, Compact!LEGACY_RECORDS
      <3> QED BY <3>2 DEF o
    <2>4. RegularValue(s, 2052 + 32 * i + 8) = s.records[i].total
      <3> DEFINE o == 2052 + 32 * i + 8
      <3>1. /\ o \in Nat /\ o >= 2052 /\ o # 0 /\ o # 4 /\ o # 36 /\ o \notin 68..2051
            /\ (o - 2052) \div 32 = i /\ (o - 2052) % 32 = 8
        BY <2>1
      <3> HIDE DEF o
      <3>2. RegularValue(s, o) = s.records[i].total
        BY <3>1 DEF RegularValue, Compact!LEGACY_BYTES, Compact!LEGACY_SOURCES, Compact!LEGACY_RECORDS
      <3> QED BY <3>2 DEF o
    <2>5. RegularValue(s, 2052 + 32 * i + 24) = s.records[i].count
      <3> DEFINE o == 2052 + 32 * i + 24
      <3>1. /\ o \in Nat /\ o >= 2052 /\ o # 0 /\ o # 4 /\ o # 36 /\ o \notin 68..2051
            /\ (o - 2052) \div 32 = i /\ (o - 2052) % 32 = 24
        BY <2>1
      <3> HIDE DEF o
      <3>2. RegularValue(s, o) = s.records[i].count
        BY <3>1 DEF RegularValue, Compact!LEGACY_BYTES, Compact!LEGACY_SOURCES, Compact!LEGACY_RECORDS
      <3> QED BY <3>2 DEF o
    <2> QED BY <2>2, <2>3, <2>4, <2>5
  <1> QED BY <1>1, <1>2

(* The regular ledger's bytes read as its bindings and records.             *)
LEMMA RegularIs ==
  ASSUME NEW s, Lawful(s), NEW b, b = Regular(s)
  PROVE  RegularReads(b, s)
  <1> DEFINE D == RegularOffsets
             fields == [o \in D |-> RegularValue(s, o)]
  <1>1. Count \in 1..16 /\ Members = 0..(Count - 1)
    BY CountRange
  <1>2. b = Compact!Bytes(65540, fields)
    BY DEF Regular, Compact!LEGACY_BYTES
  <1>3. \A o \in D : fields[o] = RegularValue(s, o)
    OBVIOUS
  <1>4. fields = [o \in D |-> fields[o]]
    OBVIOUS
  <1> HIDE DEF fields, D
  <1>5. ASSUME NEW i \in Members
        PROVE  /\ AddressOf(s.sources[i]) \in Nat /\ s.records[i].last_nonce \in Nat
               /\ s.records[i].total \in Nat /\ s.records[i].count \in Nat
    <2>1. s.sources[i] \in Members \cup {NoAddress} /\ s.records[i] \in RecordSet
      BY LawfulIs
    <2> QED BY <2>1, AddressesDiffer DEF RecordSet
  <1>6. ASSUME NEW o \in D PROVE fields[o] \in Nat
    <2>1. fields[o] = RegularValue(s, o)
      BY <1>3
    <2>2. CASE o \in {0, 4, 36}
      BY <1>1, <2>1, <2>2, RegularValues
    <2>3. CASE \E i \in Members : o = 68 + 64 * i
      BY <1>5, <2>1, <2>3, RegularValues
    <2>4. CASE \E i \in Members, k \in {0, 8, 24} : o = 2052 + 32 * i + k
      <3>1. PICK i \in Members, k \in {0, 8, 24} : o = 2052 + 32 * i + k
        BY <2>4
      <3>2. 2052 + 32 * i + 0 = 2052 + 32 * i
        BY <1>1
      <3> QED BY <1>5, <2>1, <3>1, <3>2, RegularValues
    <2> QED BY <2>2, <2>3, <2>4, OffsetsAre DEF D
  <1>7. Says(b, 65540, D, fields)
    <2>1. D \in SUBSET Nat /\ \A o \in D : o < 65540
      BY RegularPlaces DEF D
    <2>2. fields \in [D -> Nat]
      BY <1>4, <1>6
    <2>3. FieldsAt(65540, D, fields)
      BY <2>1, <2>2 DEF FieldsAt
    <2> QED BY <1>2, <2>3, BytesRead
  <1>8. /\ b \in ByteStrings /\ b.len = 65540
        /\ \A o : o \in D => Compact!ValueAt(b, o) = RegularValue(s, o)
        /\ \A o : o \notin D => Compact!ValueAt(b, o) = 0
    BY <1>3, <1>7 DEF Says
  <1>9. ASSUME NEW o \in 0..67
        PROVE  Compact!ValueAt(b, o) = IF o = 0 THEN 65536 ELSE IF o = 4 THEN 1
                                       ELSE IF o = 36 THEN Count ELSE 0
    <2>1. o \in D <=> o \in {0, 4, 36}
      BY RegularPlaces DEF D
    <2> QED BY <1>8, <2>1, RegularValues
  <1>10. ASSUME NEW i \in Members, NEW k \in 0..63
         PROVE  RegularSource(b, i, k) = SourceField(s.sources[i], k)
    <2>1. 68 + 64 * i + k \in D <=> k = 0
      <3>1. 68 + 64 * i + k \in RegularOffsets <=> k = 0
        BY SourcePlace
      <3> QED BY <3>1 DEF D
    <2>2. CASE k = 0
      <3>1. 68 + 64 * i + k = 68 + 64 * i
        BY <1>1, <2>2
      <3>2. RegularValue(s, 68 + 64 * i) = AddressOf(s.sources[i])
        BY RegularValues
      <3> QED BY <1>8, <2>1, <2>2, <3>1, <3>2 DEF SourceField, RegularSource
    <2>3. CASE k # 0
      BY <1>8, <2>1, <2>3 DEF SourceField, RegularSource
    <2> QED BY <2>2, <2>3
  <1>11. ASSUME NEW i \in Members, NEW k \in 0..31
         PROVE  RegularRecord(b, i, k) = FieldOf(s.records[i], k)
    <2>1. 2052 + 32 * i + k \in D <=> k \in {0, 8, 24}
      <3> DEFINE o == 2052 + 32 * i + k
      <3>2. o = 2052 + 32 * i + k
        OBVIOUS
      <3> HIDE DEF o
      <3>3. o \in RegularOffsets <=> k \in {0, 8, 24}
        BY <3>2, RecordPlace
      <3>1. 2052 + 32 * i + k \in RegularOffsets <=> k \in {0, 8, 24}
        BY <3>2, <3>3
      <3> QED BY <3>1 DEF D
    <2>2. /\ RegularValue(s, 2052 + 32 * i) = s.records[i].last_nonce
          /\ RegularValue(s, 2052 + 32 * i + 8) = s.records[i].total
          /\ RegularValue(s, 2052 + 32 * i + 24) = s.records[i].count
      BY RegularValues
    <2>3. CASE k = 0
      <3>1. 2052 + 32 * i + k = 2052 + 32 * i
        BY <1>1, <2>3
      <3> QED BY <1>8, <2>1, <2>2, <2>3, <3>1 DEF FieldOf, RegularRecord
    <2>4. CASE k = 8
      BY <1>8, <2>1, <2>2, <2>4 DEF FieldOf, RegularRecord
    <2>5. CASE k = 24
      BY <1>8, <2>1, <2>2, <2>5 DEF FieldOf, RegularRecord
    <2>6. CASE k \notin {0, 8, 24}
      BY <1>8, <2>1, <2>6 DEF FieldOf, RegularRecord
    <2> QED BY <2>3, <2>4, <2>5, <2>6
  <1>12. \A o \in Nat : (68 + 64 * Count <= o /\ o < 2052) \/ 2052 + 32 * Count <= o =>
           Compact!ValueAt(b, o) = 0
    BY <1>8, RegularPlaces DEF D
  <1> QED BY <1>8, <1>9, <1>10, <1>11, <1>12 DEF RegularReads

(* The regular ledger's bytes convert to the compact ledger's.              *)
LEMMA OwnConverts ==
  ASSUME NEW s, Lawful(s), NEW own, RegularReads(own, s)
  PROVE  /\ Regularly(own, Count) /\ Compact!Convertible(own)
         /\ \A o \in 1..3 : Compact!ValueAt(own, o) = 0
  <1>1. /\ own \in ByteStrings /\ own.len = 65540 /\ Count \in 1..16
        /\ \A o \in 0..67 : Compact!ValueAt(own, o) = IF o = 0 THEN 65536 ELSE IF o = 4 THEN 1
                                                        ELSE IF o = 36 THEN Count ELSE 0
        /\ \A o \in Nat : (68 + 64 * Count <= o /\ o < 2052) \/ 2052 + 32 * Count <= o =>
             Compact!ValueAt(own, o) = 0
    BY CountRange DEF RegularReads
  <1>2. Compact!ValueAt(own, 0) = 65536 /\ Compact!ValueAt(own, 36) = Count
    BY <1>1
  <1>3. ~Compact!AnyIn(own, 37, 68)
    <2>1. \A o \in Nat : 37 <= o /\ o < 68 => Compact!ValueAt(own, o) = 0
      BY <1>1
    <2> QED BY <1>1, <2>1, AnyReads
  <1>4. ~Compact!AnyIn(own, 68 + 64 * Count, 2052)
    BY <1>1, AnyReads
  <1>5. ~Compact!AnyIn(own, 2052 + 32 * Count, 65540)
    BY <1>1, AnyReads
  <1>6. \A o \in 1..3 : Compact!ValueAt(own, o) = 0
    BY <1>1
  <1> QED BY <1>1, <1>2, <1>3, <1>4, <1>5, <1>6
      DEF Regularly, Compact!Convertible, Compact!LEGACY_BYTES, Compact!LEGACY_SOURCES,
          Compact!LEGACY_RECORDS, Compact!ADDRESS_BYTES, Compact!RECORD_BYTES, Compact!MAX_MEMBERS

(* What the conversion makes of a ledger's bytes holds the ledger.          *)
LEMMA CompactedHolds ==
  ASSUME NEW s, Lawful(s), NEW own, RegularReads(own, s), NEW c, c = Compact!Compacted(own)
  PROVE  Holds(c, s)
  <1>1. /\ c \in ByteStrings /\ c.len = 44 + 96 * Count
        /\ \A o \in Nat : Compact!ValueAt(c, o)
              = IF 44 + 64 * Count <= o /\ o < 44 + 96 * Count
                THEN Compact!ValueAt(own, 2052 + (o - (44 + 64 * Count)))
                ELSE IF 44 <= o /\ o < 44 + 64 * Count THEN Compact!ValueAt(own, 68 + (o - 44))
                ELSE IF 8 <= o /\ o < 40 THEN Compact!ValueAt(own, 4 + (o - 8))
                ELSE IF o = 0 THEN 40 + 96 * Count
                ELSE IF o = 4 THEN Compact!MAGIC ELSE IF o = 40 THEN Count ELSE 0
    BY OwnConverts, CompactedReads
  <1>2. Count \in Nat /\ 1 <= Count /\ Members = 0..(Count - 1)
    BY CountRange
  <1>3. ASSUME NEW o \in 0..43 PROVE Compact!ValueAt(c, o) = HeaderAt(o)
    <2>1. CASE 8 <= o /\ o < 40
      <3> DEFINE p == 4 + (o - 8)
      <3>1. p \in 0..67 /\ p # 0 /\ p # 36 /\ (p = 4 <=> o = 8)
        BY <2>1
      <3>2. Compact!ValueAt(c, o) = Compact!ValueAt(own, p)
        BY <1>1, <1>2, <2>1
      <3> HIDE DEF p
      <3>3. Compact!ValueAt(own, p) = IF p = 4 THEN 1 ELSE 0
        BY <3>1 DEF RegularReads
      <3> QED BY <2>1, <3>1, <3>2, <3>3 DEF HeaderAt
    <2>2. CASE ~(8 <= o /\ o < 40)
      BY <1>1, <1>2, <2>2 DEF HeaderAt
    <2> QED BY <2>1, <2>2
  <1>4. ASSUME NEW i \in Members, NEW k \in 0..63
        PROVE  Compact!ValueAt(c, 44 + 64 * i + k) = SourceField(s.sources[i], k)
    <2> DEFINE o == 44 + 64 * i + k
    <2> DEFINE p == 68 + 64 * i + k
    <2>1. o \in Nat /\ 44 <= o /\ o < 44 + 64 * Count /\ 68 + (o - 44) = p
      BY <1>2
    <2>2. RegularSource(own, i, k) = Compact!ValueAt(own, p)
      BY DEF RegularSource
    <2> HIDE DEF o, p
    <2>3. ~(44 + 64 * Count <= o)
      BY <1>2, <2>1
    <2>4. Compact!ValueAt(c, o) = Compact!ValueAt(own, p)
      BY <1>1, <2>1, <2>3
    <2>5. RegularSource(own, i, k) = SourceField(s.sources[i], k)
      BY DEF RegularReads
    <2> QED BY <2>2, <2>4, <2>5 DEF o
  <1>5. ASSUME NEW i \in Members, NEW k \in 0..31
        PROVE  Compact!ValueAt(c, 44 + 64 * Count + 32 * i + k) = FieldOf(s.records[i], k)
    <2> DEFINE o == 44 + 64 * Count + 32 * i + k
    <2> DEFINE p == 2052 + 32 * i + k
    <2>1. /\ o \in Nat /\ 44 + 64 * Count <= o /\ o < 44 + 96 * Count
          /\ 2052 + (o - (44 + 64 * Count)) = p
      BY <1>2
    <2>2. RegularRecord(own, i, k) = Compact!ValueAt(own, p)
      BY DEF RegularRecord
    <2> HIDE DEF o, p
    <2>3. Compact!ValueAt(c, o) = Compact!ValueAt(own, p)
      BY <1>1, <2>1
    <2>4. RegularRecord(own, i, k) = FieldOf(s.records[i], k)
      BY DEF RegularReads
    <2> QED BY <2>2, <2>3, <2>4 DEF o
  <1> QED BY <1>1, <1>3, <1>4, <1>5 DEF Holds, HoldsParts, HoldsHeader, HoldsSources, HoldsRecords

(* One byte of a regular string changed.                                    *)
DamagedAt(own, o) == Compact!Copied(own, o, Compact!Bytes(1, [k \in {0} |-> 7]))

(* A damaged string differs in one byte only.                               *)
LEMMA DamagedReads ==
  ASSUME NEW own \in ByteStrings, own.len = 65540, NEW o \in Nat, o < 65540,
         NEW old, old = DamagedAt(own, o)
  PROVE  /\ old \in ByteStrings
         /\ \A p \in Nat : p # o => Compact!ValueAt(old, p) = Compact!ValueAt(own, p)
  <1> DEFINE D == {0}
             fields == [k \in D |-> 7]
             piece == Compact!Bytes(1, fields)
  <1>1. Says(piece, 1, D, fields)
    <2>1. FieldsAt(1, D, fields)
      BY DEF FieldsAt
    <2> HIDE DEF D, fields
    <2> QED BY <2>1, BytesRead
  <1>2. piece \in ByteStrings /\ piece.len = 1
    BY <1>1 DEF Says
  <1>3. old = Compact!Copied(own, o, piece)
    BY DEF DamagedAt
  <1> HIDE DEF piece
  <1>4. o + piece.len <= own.len
    BY <1>2
  <1>5. /\ old \in ByteStrings
        /\ \A p \in Nat : Compact!ValueAt(old, p)
             = IF o <= p /\ p < o + piece.len THEN Compact!ValueAt(piece, p - o)
               ELSE Compact!ValueAt(own, p)
    BY <1>2, <1>3, <1>4, CopiedReads
  <1> QED BY <1>2, <1>5

(* The ledger's own bytes convert to the compact ledger's, and whatever     *)
(* converts at all comes back as it was.                                    *)
LEMMA ConversionsUndo ==
  ASSUME NEW s, Lawful(s), NEW own, own = Regular(s)
  PROVE  /\ \A c : Holds(c, s) => Compact!CanCompact(own) /\ Compact!Compacted(own) = c
         /\ \A old \in {own} \cup Damaged(own) :
              Compact!CanCompact(old) => Compact!expand_legacy(Compact!Compacted(old)) = old
  <1> DEFINE c == Compact!Compacted(own)
  <1>1. RegularReads(own, s)
    BY RegularIs
  <1>2. own \in ByteStrings /\ own.len = 65540
    BY <1>1 DEF RegularReads
  <1>3. Compact!Convertible(own) /\ \A o \in 1..3 : Compact!ValueAt(own, o) = 0
    BY <1>1, OwnConverts
  <1>4. Holds(c, s)
    BY <1>1, CompactedHolds
  <1>5. Compact!validate(c)
    <2> HIDE DEF c
    <2> QED BY <1>4, HoldsValid
  <1>6. Compact!CanCompact(own)
    BY <1>3, <1>5 DEF Compact!CanCompact
  <1>7. \A d : Holds(d, s) => c = d
    <2> HIDE DEF c
    <2> QED BY <1>4, HoldsOnce
  <1>8. Compact!expand_legacy(Compact!Compacted(own)) = own
    BY <1>2, <1>3, ExpandUndoes
  <1>9. ASSUME NEW old \in Damaged(own), Compact!CanCompact(old)
        PROVE  Compact!expand_legacy(Compact!Compacted(old)) = old
    <2> DEFINE places == {0, 4, 36, 37, 67, 68, 68 + 64 * Count, 2051, 2052, 2052 + 32 * Count, 65539}
    <2>1. PICK o \in places : old = DamagedAt(own, o)
      BY DEF Damaged, DamagedAt
    <2>2. o \in Nat /\ o < 65540 /\ o \notin 1..3
      BY CountRange
    <2> HIDE DEF places
    <2>3. old \in ByteStrings /\ \A p \in Nat : p # o => Compact!ValueAt(old, p) = Compact!ValueAt(own, p)
      BY <1>2, <2>1, <2>2, DamagedReads
    <2>4. \A p \in 1..3 : Compact!ValueAt(old, p) = 0
      BY <1>3, <2>2, <2>3
    <2>5. Compact!Convertible(old)
      BY <1>9 DEF Compact!CanCompact
    <2> QED BY <2>3, <2>4, <2>5, ExpandUndoes
  <1> QED BY <1>6, <1>7, <1>8, <1>9

----------------------------------------------------------------------------
(* The compact ledger's bytes always hold the regular ledger.               *)
CompactInv == HubInv /\ Holds(compact, ledger)

(* It holds at first,                                                       *)
LEMMA CompactInitInvariant == HubInit => CompactInv
  <1> SUFFICES ASSUME HubInit PROVE CompactInv
    OBVIOUS
  <1>1. HubInv
    BY HubInitInvariant
  <1>2. Holds(compact, ledger)
    BY InitHolds DEF HubInit
  <1> QED BY <1>1, <1>2 DEF CompactInv

(* and no step of the hub ends it.                                          *)
LEMMA CompactNextInvariant == CompactInv /\ [HubNext]_hubVars => CompactInv'
  <1> SUFFICES ASSUME CompactInv, [HubNext]_hubVars PROVE CompactInv'
    OBVIOUS
  <1>0. /\ HubInv /\ Lawful(ledger) /\ Holds(compact, ledger)
        /\ IInv /\ TypeOK /\ ReceiptsInv
    BY DEF CompactInv, HubInv, IInv
  <1>1. HubInv'
    BY <1>0, HubNextInvariant
  <1>2. ASSUME Holds(compact', ledger') PROVE CompactInv'
    <2>1. Holds(compact, ledger)'
      BY <1>2
    <2> QED BY <1>1, <2>1 DEF CompactInv
  <1>3. CASE UNCHANGED <<ledger, compact>>
    BY <1>0, <1>2, <1>3
  <1>4. ASSUME NEW mode, NEW i \in Members, NEW source \in Members, AuditBind(i, source, mode)
        PROVE  CompactInv'
    <2>1. Holds(compact', ledger')
      BY <1>0, <1>4, BindHolds DEF AuditBind
    <2> QED BY <1>2, <2>1
  <1>5. ASSUME NEW mode, AuditStatus(mode) PROVE CompactInv'
    BY <1>3, <1>5, StatusHolds DEF AuditStatus
  <1>6. ASSUME NEW mode, NEW r \in reports, AuditOne(r, mode) PROVE CompactInv'
    <2> DEFINE report == ReportOf(r)
               seen == CompactReport(report)
    <2>1. report \in AuditReports
      BY <1>0, SentAre DEF Sent
    <2>2. /\ ledger' = Audit!isolated(ledger, report)
          /\ compact' = IF Compact!Accepts(compact, seen)
                        THEN Compact!Apply(compact, mode, Compact!isolated(compact, mode, seen))
                        ELSE compact
      BY <1>6 DEF AuditOne
    <2> HIDE DEF report
    <2>3. Holds(compact', ledger')
      BY <1>0, <2>1, <2>2, OneHolds
    <2> QED BY <1>2, <2>3
  <1>7. ASSUME NEW mode, NEW batch \in Batches, AuditBatch(batch, mode) PROVE CompactInv'
    <2>1. batch \in Seq(AuditReports)
      BY <1>0, BatchesSent, SentAre
    <2> DEFINE got == Compact!process_batch(compact, mode, CompactBatch(batch))
               reg == Audit!process_batch(ledger, Audit!DataPatchList, batch)
    <2>2. ledger' = reg.state /\ compact' = Compact!Apply(compact, mode, got.update)
      BY <1>7 DEF AuditBatch
    <2>3. Holds(Compact!Apply(compact, mode, got.update), reg.state)
      BY <1>0, <2>1, BatchHolds
    <2> HIDE DEF got, reg
    <2> QED BY <1>2, <2>2, <2>3
  <1>8. ASSUME NEW batch \in Batches, AuditBatchRefused(batch) PROVE CompactInv'
    <2>1. batch \in Seq(AuditReports)
      BY <1>0, BatchesSent, SentAre
    <2>2. ~Audit!Runs(ledger, Audit!FullReplace, batch)
      BY DEF Audit!Runs, Audit!FullReplace, Audit!DataPatchList
    <2>3. ledger' = ledger /\ compact' = compact
      BY <1>0, <1>8, <2>1, <2>2, BatchRefused DEF AuditBatchRefused
    <2> QED BY <1>3, <2>3
  <1>9. CASE UNCHANGED hubVars
    BY <1>3, <1>9 DEF hubVars
  <1> QED BY <1>3, <1>4, <1>5, <1>6, <1>7, <1>8, <1>9 DEF HubNext

(* The compact bytes hold the regular ledger in every state of the hub.     *)
THEOREM CompactInvariance == HubSpec => []CompactInv
  <1> QED BY CompactInitInvariant, CompactNextInvariant, PTL DEF HubSpec

(* The compact ledger is valid in every state the hub reaches, holds the    *)
(* bindings and records of the regular one whichever modes its updates      *)
(* took, and gives the next batch the same statuses.                        *)
THEOREM CompactFollows == HubSpec => []CompactAgrees
  <1> SUFFICES CompactInv => CompactAgrees
    BY CompactInvariance, PTL
  <1> SUFFICES ASSUME CompactInv PROVE CompactAgrees
    OBVIOUS
  <1>0. Lawful(ledger) /\ Holds(compact, ledger) /\ ReceiptsInv
    BY DEF CompactInv, HubInv
  <1>1. Compact!validate(compact)
    BY <1>0, HoldsValid
  <1>2. /\ Compact!count(compact) = Count
        /\ \A i \in Members : /\ Compact!SourceAt(compact, i) = AddressOf(ledger.sources[i])
                              /\ Compact!record(compact, i) = ledger.records[i]
    BY <1>0, HoldsReads
  <1>3. ASSUME NEW batch \in Batches, NEW mode
        PROVE  Compact!process_batch(compact, mode, CompactBatch(batch)).statuses
                 = Audit!process_batch(ledger, Audit!DataPatchList, batch).statuses
    <2>1. batch \in Seq(AuditReports)
      BY <1>0, BatchesSent, SentAre
    <2> QED BY <1>0, <2>1, BatchHolds
  <1> QED BY <1>1, <1>2, <1>3 DEF CompactAgrees

(* Converting the regular layout to the compact one and back loses nothing: *)
(* the ledger's own bytes convert to the compact ledger's, and bytes        *)
(* damaged at a border of a region are refused or come back unchanged.      *)
THEOREM NothingLost == HubSpec => []ConversionLossless
  <1> SUFFICES CompactInv => ConversionLossless
    BY CompactInvariance, PTL
  <1> SUFFICES ASSUME CompactInv PROVE ConversionLossless
    OBVIOUS
  <1>1. Lawful(ledger) /\ Holds(compact, ledger)
    BY DEF CompactInv, HubInv
  <1> DEFINE own == Regular(ledger)
  <1> HIDE DEF own
  <1>2. /\ Compact!CanCompact(own) /\ Compact!Compacted(own) = compact
        /\ \A old \in {own} \cup Damaged(own) :
             Compact!CanCompact(old) => Compact!expand_legacy(Compact!Compacted(old)) = old
    BY <1>1, ConversionsUndo DEF own
  <1> QED BY <1>2 DEF ConversionLossless, own

============================================================================
