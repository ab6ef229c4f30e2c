------------------------ MODULE FungibleTokenProofs ------------------------
(***************************************************************************)
(* The slot list of the fungible token implements TokenBalances, for every *)
(* number of slots, supply and set of keys.                                *)
(*                                                                         *)
(* The mapping reads a key's balance from the first slot that bears it.  A *)
(* step of the contract changes the balance of two keys only because no key*)
(* ever has two slots, and it is permitted only while the stored balances  *)
(* add up to the supply: the two parts of the inductive invariant.         *)
(***************************************************************************)
EXTENDS FungibleToken, FiniteSetTheorems, TLAPS

Ledgers == [supply : Nat, holders : Seq(Slots)]

OneSlotPerKey(h) == \A i, j \in DOMAIN h : h[i].key = h[j].key => i = j

IInv ==
    /\ ledger = Blank \/ ledger \in Ledgers
    /\ OneSlotPerKey(holders)
    /\ Len(holders) <= HOLDER_SLOTS
    /\ ledger # Blank => ledger.supply = INITIAL_SUPPLY /\ Total(ledger.holders) = INITIAL_SUPPLY

----------------------------------------------------------------------------
(***************************************************************************)
(* What find() returns.                                                    *)
(***************************************************************************)
\* A key that has a slot is found there.
LEMMA SlotFound ==
  ASSUME NEW h \in Seq(Slots), OneSlotPerKey(h), NEW i \in DOMAIN h
  PROVE  /\ IsHolder(h, h[i].key)
         /\ SlotOf(h, h[i].key) = i
         /\ BalanceOf(h, h[i].key) = h[i].balance
<1> DEFINE k == h[i].key
<1>1. SlotsOf(h, k) = {i}
  BY DEF SlotsOf, OneSlotPerKey
<1>2. IsHolder(h, k)
  BY <1>1 DEF IsHolder
<1>3. SlotOf(h, k) = i
  <2>1. \A j \in SlotsOf(h, k) : i <= j
    BY <1>1
  <2> QED
    BY <1>1, <2>1 DEF SlotOf
<1> QED
  BY <1>2, <1>3 DEF BalanceOf

\* The slot of a holder bears its key.
LEMMA HolderHasSlot ==
  ASSUME NEW h \in Seq(Slots), OneSlotPerKey(h), NEW k, IsHolder(h, k)
  PROVE  /\ SlotOf(h, k) \in DOMAIN h
         /\ h[SlotOf(h, k)].key = k
         /\ BalanceOf(h, k) = h[SlotOf(h, k)].balance
         /\ BalanceOf(h, k) \in 0..MaxU64
<1>1. PICK i \in DOMAIN h : h[i].key = k
  BY DEF IsHolder, SlotsOf
<1>2. SlotOf(h, k) = i /\ BalanceOf(h, k) = h[i].balance
  BY <1>1, SlotFound
<1>3. h[i] \in Slots
  OBVIOUS
<1> QED
  BY <1>1, <1>2, <1>3 DEF Slots

\* A key that no slot bears has balance zero.
LEMMA OthersHaveNone ==
  ASSUME NEW h, NEW k, ~IsHolder(h, k)
  PROVE  BalanceOf(h, k) = 0
BY DEF BalanceOf

\* Lists that bear the same key at the same places have the same holders.
LEMMA SameKeys ==
  ASSUME NEW h \in Seq(Slots), NEW g \in Seq(Slots), OneSlotPerKey(h),
         DOMAIN g = DOMAIN h, \A i \in DOMAIN h : g[i].key = h[i].key
  PROVE  /\ OneSlotPerKey(g)
         /\ \A k : IsHolder(g, k) <=> IsHolder(h, k)
BY DEF OneSlotPerKey, IsHolder, SlotsOf

----------------------------------------------------------------------------
(***************************************************************************)
(* What the two halves of a transfer do to a list of slots.                *)
(***************************************************************************)
\* g is the list h with balance b for key, in a slot it had or in a new one.
Written(g, h, key, b) ==
    /\ g \in Seq(Slots)
    /\ OneSlotPerKey(g)
    /\ Len(g) = IF IsHolder(h, key) THEN Len(h) ELSE Len(h) + 1
    /\ \A k : IsHolder(g, k) <=> IsHolder(h, k) \/ k = key
    /\ \A k : BalanceOf(g, k) = IF k = key THEN b ELSE BalanceOf(h, k)

\* Replacing one element of a sequence keeps its length.
LEMMA Replaced ==
  ASSUME NEW h \in Seq(Slots), NEW s \in DOMAIN h, NEW new \in Slots
  PROVE  LET g == [h EXCEPT ![s] = new] IN
         /\ g \in Seq(Slots) /\ Len(g) = Len(h) /\ DOMAIN g = DOMAIN h
         /\ g[s] = new
         /\ \A i \in DOMAIN h : i # s => g[i] = h[i]
OBVIOUS

\* One slot is written: its key's balance changes and no other.
LEMMA WriteSlot ==
  ASSUME NEW h \in Seq(Slots), OneSlotPerKey(h), NEW key, IsHolder(h, key),
         NEW b \in 0..MaxU64
  PROVE  Written([h EXCEPT ![SlotOf(h, key)].balance = b], h, key, b)
<1> DEFINE s == SlotOf(h, key)
           new == [h[s] EXCEPT !.balance = b]
           g == [h EXCEPT ![s] = new]
<1>1. s \in DOMAIN h /\ h[s].key = key
  BY HolderHasSlot
<1> HIDE DEF s
<1>2. h[s] \in Slots
  BY <1>1
<1>3. new \in Slots /\ new.key = h[s].key /\ new.balance = b
  BY <1>2 DEF Slots
<1>4. [h EXCEPT ![s].balance = b] = g
  OBVIOUS
<1> HIDE DEF new
<1>5. g \in Seq(Slots) /\ Len(g) = Len(h) /\ DOMAIN g = DOMAIN h
  BY <1>1, <1>3, Replaced
<1>6. g[s].key = key /\ g[s].balance = b
  BY <1>1, <1>3, Replaced
<1>7. \A i \in DOMAIN h : i # s => g[i] = h[i]
  BY <1>1, <1>3, Replaced
<1> HIDE DEF g
<1>8. \A i \in DOMAIN h : g[i].key = h[i].key
  BY <1>1, <1>6, <1>7
<1>9. OneSlotPerKey(g) /\ \A k : IsHolder(g, k) <=> IsHolder(h, k)
  BY <1>5, <1>8, SameKeys
<1>10. ASSUME NEW k
       PROVE  BalanceOf(g, k) = IF k = key THEN b ELSE BalanceOf(h, k)
  <2>1. CASE k = key
    BY <2>1, <1>1, <1>5, <1>6, <1>9, SlotFound
  <2>2. CASE k # key /\ IsHolder(h, k)
    <3>1. PICK i \in DOMAIN h : h[i].key = k
      BY <2>2 DEF IsHolder, SlotsOf
    <3>2. i # s
      BY <3>1, <2>2, <1>1
    <3>3. g[i] = h[i]
      BY <3>2, <1>7
    <3>4. BalanceOf(h, k) = h[i].balance
      BY <3>1, SlotFound
    <3>5. BalanceOf(g, k) = g[i].balance
      BY <3>1, <3>3, <1>5, <1>9, SlotFound
    <3> QED
      BY <3>3, <3>4, <3>5, <2>2
  <2>3. CASE k # key /\ ~IsHolder(h, k)
    BY <2>3, <1>9, OthersHaveNone
  <2> QED
    BY <2>1, <2>2, <2>3
<1>11. Written(g, h, key, b)
  BY <1>5, <1>9, <1>10 DEF Written
<1> QED
  BY <1>4, <1>11 DEF s

\* A slot is appended for a key that had none.
LEMMA NewSlot ==
  ASSUME NEW h \in Seq(Slots), OneSlotPerKey(h), NEW key \in Keys, ~IsHolder(h, key),
         NEW b \in 0..MaxU64
  PROVE  Written(Append(h, [key |-> key, balance |-> b]), h, key, b)
<1> DEFINE new == [key |-> key, balance |-> b]
           g == Append(h, new)
<1>1. new \in Slots
  BY DEF Slots
<1>2. g \in Seq(Slots) /\ Len(g) = Len(h) + 1
  BY <1>1
<1>3. Len(h) + 1 \in DOMAIN g /\ g[Len(h) + 1] = new
  BY <1>1
<1>4. \A i \in DOMAIN h : i \in DOMAIN g /\ g[i] = h[i]
  BY <1>1
<1>5. \A i \in DOMAIN g : i \in DOMAIN h \/ i = Len(h) + 1
  BY <1>1
<1> HIDE DEF g
<1>6. \A i \in DOMAIN h : h[i].key # key
  BY DEF IsHolder, SlotsOf
<1>7. new.key = key /\ new.balance = b
  OBVIOUS
<1> HIDE DEF new
<1>8. OneSlotPerKey(g)
  BY <1>3, <1>4, <1>5, <1>6, <1>7 DEF OneSlotPerKey
<1>9. \A k : IsHolder(g, k) <=> IsHolder(h, k) \/ k = key
  BY <1>3, <1>4, <1>5, <1>7 DEF IsHolder, SlotsOf
<1>10. ASSUME NEW k
       PROVE  BalanceOf(g, k) = IF k = key THEN b ELSE BalanceOf(h, k)
  <2>1. CASE k = key
    BY <2>1, <1>2, <1>3, <1>7, <1>8, SlotFound
  <2>2. CASE k # key /\ IsHolder(h, k)
    <3>1. PICK i \in DOMAIN h : h[i].key = k
      BY <2>2 DEF IsHolder, SlotsOf
    <3>2. i \in DOMAIN g /\ g[i] = h[i]
      BY <1>4
    <3>3. BalanceOf(h, k) = h[i].balance
      BY <3>1, SlotFound
    <3>4. BalanceOf(g, k) = g[i].balance
      BY <3>1, <3>2, <1>2, <1>8, SlotFound
    <3> QED
      BY <3>2, <3>3, <3>4, <2>2
  <2>3. CASE k # key /\ ~IsHolder(h, k)
    BY <2>3, <1>9, OthersHaveNone
  <2> QED
    BY <2>1, <2>2, <2>3
<1>11. Written(g, h, key, b)
  BY <1>2, <1>8, <1>9, <1>10 DEF Written
<1> QED
  BY <1>11 DEF g, new

----------------------------------------------------------------------------
(***************************************************************************)
(* The total that decode() compares with the supply.                       *)
(***************************************************************************)
\* A set of naturals that holds zero and the successor of each member is all of them.
LEMMA CountingUp ==
  ASSUME NEW T, T \subseteq Nat, 0 \in T, \A n \in T : n + 1 \in T
  PROVE  T = Nat
<1> SUFFICES ASSUME Nat \ T # {} PROVE FALSE
  OBVIOUS
<1>1. PICK x \in Nat \ T : \A y \in Nat \ T : <<y, x>> \notin OpToRel(<, Nat)
  BY NatLessThanWellFounded, WFMin
<1>2. x - 1 \in Nat /\ x - 1 < x
  OBVIOUS
<1>3. x - 1 \in T
  BY <1>1, <1>2 DEF OpToRel
<1>4. (x - 1) + 1 = x
  OBVIOUS
<1> QED
  BY <1>1, <1>3, <1>4

\* The element a sum takes first.
Next1(s) == CHOOSE x \in s : TRUE

\* f gives every part of D the sum of b over it.
IsSum(f, b, D) ==
    /\ f \in [SUBSET D -> Nat]
    /\ f[{}] = 0
    /\ \A s \in SUBSET D : s # {} => f[s] = b[Next1(s)] + f[s \ {Next1(s)}]

Balances(h) == [i \in DOMAIN h |-> h[i].balance]

LEMMA Smaller ==
  ASSUME NEW D, IsFiniteSet(D), NEW s \in SUBSET D, s # {}
  PROVE  /\ Next1(s) \in s
         /\ s \ {Next1(s)} \in SUBSET D
         /\ \A x \in s : /\ Cardinality(s) \in Nat
                         /\ Cardinality(s \ {x}) = Cardinality(s) - 1
<1>1. IsFiniteSet(s)
  BY FS_Subset
<1> QED
  BY <1>1, FS_RemoveElement, FS_CardinalityType DEF Next1

LEMMA SumExists ==
  ASSUME NEW D, IsFiniteSet(D), NEW b \in [D -> Nat]
  PROVE  \E f : IsSum(f, b, D)
<1> DEFINE UpTo(f, n) == \A s \in SUBSET D : s # {} /\ Cardinality(s) <= n =>
                            f[s] = b[Next1(s)] + f[s \ {Next1(s)}]
           T == {n \in Nat : \E f \in [SUBSET D -> Nat] : f[{}] = 0 /\ UpTo(f, n)}
<1>1. 0 \in T
  <2>1. UpTo([s \in SUBSET D |-> 0], 0)
    <3> SUFFICES ASSUME NEW s \in SUBSET D, s # {}, Cardinality(s) <= 0 PROVE FALSE
      OBVIOUS
    <3>1. Cardinality(s \ {Next1(s)}) \in Nat
      BY FS_Subset, FS_CardinalityType
    <3> QED
      BY <3>1, Smaller
  <2> DEFINE f == [s \in SUBSET D |-> 0]
  <2>2. f \in [SUBSET D -> Nat] /\ f[{}] = 0
    OBVIOUS
  <2> HIDE DEF f
  <2> QED
    BY <2>1, <2>2 DEF f
<1>2. ASSUME NEW n \in T PROVE n + 1 \in T
  <2>1. PICK f \in [SUBSET D -> Nat] : f[{}] = 0 /\ UpTo(f, n)
    BY <1>2
  <2> DEFINE g == [s \in SUBSET D |-> IF s = {} THEN 0 ELSE b[Next1(s)] + f[s \ {Next1(s)}]]
  <2>2. ASSUME NEW s \in SUBSET D, s # {}
        PROVE  b[Next1(s)] + f[s \ {Next1(s)}] \in Nat
    <3>1. Next1(s) \in D /\ s \ {Next1(s)} \in SUBSET D
      BY <2>2, Smaller
    <3>2. b[Next1(s)] \in Nat /\ f[s \ {Next1(s)}] \in Nat
      BY <3>1
    <3> QED
      BY <3>2
  <2>3. g \in [SUBSET D -> Nat] /\ g[{}] = 0
    BY <2>2
  <2>4. ASSUME NEW s \in SUBSET D, s # {}, Cardinality(s) <= n + 1
        PROVE  g[s] = b[Next1(s)] + g[s \ {Next1(s)}]
    <3> DEFINE r == s \ {Next1(s)}
    <3>1. r \in SUBSET D /\ Cardinality(r) <= n
      BY <2>4, Smaller
    <3>2. g[s] = b[Next1(s)] + f[r]
      BY <2>4
    <3>3. g[r] = f[r]
      <4>1. CASE r = {}
        BY <4>1, <2>1, <2>3
      <4>2. CASE r # {}
        BY <4>2, <2>1, <3>1
      <4> QED
        BY <4>1, <4>2
    <3> QED
      BY <3>2, <3>3
  <2> HIDE DEF g
  <2>5. UpTo(g, n + 1)
    BY <2>4
  <2> QED
    BY <2>3, <2>5
<1> HIDE DEF T
<1>3. T = Nat
  <2>1. T \subseteq Nat
    BY DEF T
  <2> QED
    BY <1>1, <1>2, <2>1, CountingUp
<1>4. Cardinality(D) \in T
  BY <1>3, FS_CardinalityType
<1>5. PICK f \in [SUBSET D -> Nat] : f[{}] = 0 /\ UpTo(f, Cardinality(D))
  BY <1>4 DEF T
<1>6. \A s \in SUBSET D : Cardinality(s) <= Cardinality(D)
  BY FS_Subset
<1> QED
  BY <1>5, <1>6 DEF IsSum

\* Any element may be taken first.
TakesAny(f, b, D) == \A s \in SUBSET D : \A x \in s : f[s] = b[x] + f[s \ {x}]

LEMMA AnyOrder ==
  ASSUME NEW D, IsFiniteSet(D), NEW b \in [D -> Nat], NEW f, IsSum(f, b, D)
  PROVE  TakesAny(f, b, D)
<1> DEFINE Holds(s) == \A x \in s : f[s] = b[x] + f[s \ {x}]
           T == {n \in Nat : \A s \in SUBSET D : Cardinality(s) <= n => Holds(s)}
<1>1. 0 \in T
  <2> SUFFICES ASSUME NEW s \in SUBSET D, Cardinality(s) <= 0, NEW x \in s PROVE FALSE
    OBVIOUS
  <2>1. Cardinality(s \ {x}) \in Nat
    BY FS_Subset, FS_CardinalityType
  <2> QED
    BY <2>1, Smaller
<1>2. ASSUME NEW n \in T PROVE n + 1 \in T
  <2> SUFFICES ASSUME NEW s \in SUBSET D, Cardinality(s) <= n + 1, NEW x \in s
               PROVE  f[s] = b[x] + f[s \ {x}]
    OBVIOUS
  <2> DEFINE p == Next1(s)
             r == s \ {p, x}
  <2>1. p \in s /\ f[s] = b[p] + f[s \ {p}]
    BY Smaller DEF IsSum
  <2>2. CASE p = x
    BY <2>1, <2>2
  <2>3. CASE p # x
    <3>1. Cardinality(s \ {p}) <= n /\ Cardinality(s \ {x}) <= n
      BY <2>1, Smaller
    <3>2. Holds(s \ {p}) /\ Holds(s \ {x})
      BY <3>1, <1>2
    <3>3. (s \ {p}) \ {x} = r /\ (s \ {x}) \ {p} = r
      OBVIOUS
    <3>4. f[s \ {p}] = b[x] + f[r] /\ f[s \ {x}] = b[p] + f[r]
      BY <2>1, <2>3, <3>2, <3>3
    <3>5. b[p] \in Nat /\ b[x] \in Nat /\ f[r] \in Nat
      BY <2>1 DEF IsSum
    <3> QED
      BY <2>1, <3>4, <3>5
  <2> QED
    BY <2>2, <2>3
<1> HIDE DEF T
<1>3. T = Nat
  <2>1. T \subseteq Nat
    BY DEF T
  <2> QED
    BY <1>1, <1>2, <2>1, CountingUp
<1>4. Cardinality(D) \in T
  BY <1>3, FS_CardinalityType
<1> QED
  BY <1>4, FS_Subset DEF T, TakesAny

\* A sum over s depends on b's values there and on nothing else.
LEMMA SameSum ==
  ASSUME NEW D, IsFiniteSet(D), NEW b \in [D -> Nat], NEW f, IsSum(f, b, D),
         NEW E, NEW c, NEW g, IsSum(g, c, E)
  PROVE  \A s \in SUBSET D : s \in SUBSET E /\ (\A x \in s : b[x] = c[x]) => f[s] = g[s]
<1> DEFINE Holds(s) == s \in SUBSET E /\ (\A x \in s : b[x] = c[x]) => f[s] = g[s]
           T == {n \in Nat : \A s \in SUBSET D : Cardinality(s) <= n => Holds(s)}
<1>1. ASSUME NEW s \in SUBSET D, s # {}, Holds(s \ {Next1(s)}) PROVE Holds(s)
  <2> SUFFICES ASSUME s \in SUBSET E, \A x \in s : b[x] = c[x]
               PROVE  f[s] = g[s]
    OBVIOUS
  <2>1. f[s \ {Next1(s)}] = g[s \ {Next1(s)}]
    BY <1>1
  <2>2. b[Next1(s)] = c[Next1(s)]
    BY <1>1, Smaller
  <2> QED
    BY <1>1, <2>1, <2>2 DEF IsSum
<1>2. Holds({})
  BY DEF IsSum
<1>3. 0 \in T
  <2> SUFFICES ASSUME NEW s \in SUBSET D, Cardinality(s) <= 0 PROVE s = {}
    BY <1>2
  <2> SUFFICES ASSUME NEW x \in s PROVE FALSE
    OBVIOUS
  <2>1. Cardinality(s \ {x}) \in Nat
    BY FS_Subset, FS_CardinalityType
  <2> QED
    BY <2>1, Smaller
<1>4. ASSUME NEW n \in T PROVE n + 1 \in T
  <2> SUFFICES ASSUME NEW s \in SUBSET D, Cardinality(s) <= n + 1 PROVE Holds(s)
    OBVIOUS
  <2>0. CASE s = {}
    BY <1>2, <2>0
  <2> SUFFICES ASSUME s # {} PROVE Holds(s)
    BY <2>0
  <2>1. s \ {Next1(s)} \in SUBSET D /\ Cardinality(s \ {Next1(s)}) <= n
    BY Smaller
  <2>2. Holds(s \ {Next1(s)})
    BY <1>4, <2>1
  <2> QED
    BY <1>1, <2>2
<1> HIDE DEF T
<1>5. T = Nat
  <2>1. T \subseteq Nat
    BY DEF T
  <2> QED
    BY <1>3, <1>4, <2>1, CountingUp
<1>6. Cardinality(D) \in T
  BY <1>5, FS_CardinalityType
<1> QED
  BY <1>6, FS_Subset DEF T

Sums(h) ==
    CHOOSE sums : sums = [s \in SUBSET DOMAIN h |->
                            IF s = {} THEN 0
                            ELSE h[Next1(s)].balance + sums[s \ {Next1(s)}]]

LEMMA TotalIsSum ==
  ASSUME NEW h \in Seq(Slots)
  PROVE  /\ Balances(h) \in [DOMAIN h -> Nat]
         /\ IsFiniteSet(DOMAIN h)
         /\ IsSum(Sums(h), Balances(h), DOMAIN h)
         /\ Total(h) = Sums(h)[DOMAIN h]
<1>1. Balances(h) \in [DOMAIN h -> Nat]
  <2>1. \A i \in DOMAIN h : h[i] \in Slots
    OBVIOUS
  <2>2. \A i \in DOMAIN h : h[i].balance \in Nat
    BY <2>1, TokenAssumption DEF Slots
  <2> QED
    BY <2>2 DEF Balances
<1>2. IsFiniteSet(DOMAIN h)
  <2>1. DOMAIN h = 1..Len(h) /\ Len(h) \in Nat
    OBVIOUS
  <2> QED
    BY <2>1, FS_Interval
<1>3. PICK f : IsSum(f, Balances(h), DOMAIN h)
  BY <1>1, <1>2, SumExists
<1>4. f = [s \in SUBSET DOMAIN h |-> IF s = {} THEN 0
                                    ELSE h[Next1(s)].balance + f[s \ {Next1(s)}]]
  <2> DEFINE g == [s \in SUBSET DOMAIN h |-> IF s = {} THEN 0
                                    ELSE h[Next1(s)].balance + f[s \ {Next1(s)}]]
  <2>1. ASSUME NEW s \in SUBSET DOMAIN h PROVE f[s] = g[s]
    <3>1. CASE s = {}
      BY <1>3, <3>1 DEF IsSum
    <3>2. CASE s # {}
      <4>1. Next1(s) \in DOMAIN h
        BY <1>2, <3>2, Smaller
      <4> QED
        BY <1>3, <3>2, <4>1 DEF IsSum, Balances
    <3> QED
      BY <3>1, <3>2
  <2>2. f \in [SUBSET DOMAIN h -> Nat]
    BY <1>3 DEF IsSum
  <2> QED
    BY <2>1, <2>2
<1>5. Sums(h) = [s \in SUBSET DOMAIN h |-> IF s = {} THEN 0
                                    ELSE h[Next1(s)].balance + Sums(h)[s \ {Next1(s)}]]
  BY <1>4 DEF Sums
<1> DEFINE S == Sums(h)
<1>6. IsSum(S, Balances(h), DOMAIN h)
  <2>1. ASSUME NEW s \in SUBSET DOMAIN h
        PROVE  S[s] = IF s = {} THEN 0 ELSE h[Next1(s)].balance + S[s \ {Next1(s)}]
    BY <1>5
  <2>2. S = [s \in SUBSET DOMAIN h |-> S[s]]
    BY <1>5
  <2> HIDE DEF S
  <2>3. ASSUME NEW s \in SUBSET DOMAIN h, s # {}
        PROVE  S[s] = Balances(h)[Next1(s)] + S[s \ {Next1(s)}]
    <3>1. Next1(s) \in DOMAIN h
      BY <1>2, <2>3, Smaller
    <3> QED
      BY <2>1, <2>3, <3>1 DEF Balances
  <2>4. S = f
    <3> DEFINE Holds(s) == S[s] = f[s]
               T == {n \in Nat : \A s \in SUBSET DOMAIN h : Cardinality(s) <= n => S[s] = f[s]}
    <3>1. S[{}] = f[{}]
      BY <1>3, <2>1 DEF IsSum
    <3>2. 0 \in T
      <4> SUFFICES ASSUME NEW s \in SUBSET DOMAIN h, Cardinality(s) <= 0 PROVE s = {}
        BY <3>1
      <4>1. IsFiniteSet(s)
        BY <1>2, FS_Subset
      <4>2. Cardinality(s) = 0
        BY <4>1, FS_CardinalityType
      <4> QED
        BY <4>1, <4>2, FS_EmptySet
    <3>3. ASSUME NEW n \in T PROVE n + 1 \in T
      <4> SUFFICES ASSUME NEW s \in SUBSET DOMAIN h, Cardinality(s) <= n + 1, s # {}
                   PROVE  S[s] = f[s]
        <5>1. n + 1 \in Nat
          OBVIOUS
        <5> QED
          BY <3>1, <5>1
      <4>1. s \ {Next1(s)} \in SUBSET DOMAIN h /\ Cardinality(s \ {Next1(s)}) <= n
        BY <1>2, Smaller
      <4>2. S[s \ {Next1(s)}] = f[s \ {Next1(s)}]
        BY <3>3, <4>1
      <4> QED
        BY <1>3, <2>3, <4>2 DEF IsSum
    <3> HIDE DEF T
    <3>4. T = Nat
      <4>1. T \subseteq Nat
        BY DEF T
      <4> QED
        BY <3>2, <3>3, <4>1, CountingUp
    <3>5. Cardinality(DOMAIN h) \in T
      BY <1>2, <3>4, FS_CardinalityType
    <3>6. \A s \in SUBSET DOMAIN h : S[s] = f[s]
      BY <1>2, <3>5, FS_Subset DEF T
    <3>7. f = [s \in SUBSET DOMAIN h |-> f[s]]
      BY <1>4
    <3> QED
      BY <2>2, <3>6, <3>7
  <2> QED
    BY <1>3, <2>4
<1>7. Total(h) = Sums(h)[DOMAIN h]
  BY DEF Total, MapThenSumSet, MapThenFoldSet, Sums, Next1
<1> QED
  BY <1>1, <1>2, <1>6, <1>7

\* One slot changes: the total changes by as much.
LEMMA TotalOfWrite ==
  ASSUME NEW h \in Seq(Slots), NEW i \in DOMAIN h, NEW b \in 0..MaxU64
  PROVE  /\ [h EXCEPT ![i].balance = b] \in Seq(Slots)
         /\ Total(h) \in Nat /\ h[i].balance \in Nat
         /\ h[i].balance <= Total(h)
         /\ Total([h EXCEPT ![i].balance = b]) = Total(h) - h[i].balance + b
<1> DEFINE new == [h[i] EXCEPT !.balance = b]
           g == [h EXCEPT ![i] = new]
           D == DOMAIN h
           rest == D \ {i}
<1>1. [h EXCEPT ![i].balance = b] = g
  OBVIOUS
<1>2. new \in Slots /\ new.balance = b /\ h[i].balance \in Nat
  <2>1. h[i] \in Slots
    OBVIOUS
  <2> QED
    BY <2>1, TokenAssumption DEF Slots
<1> HIDE DEF new
<1>3. /\ g \in Seq(Slots) /\ DOMAIN g = D /\ g[i] = new
      /\ \A j \in D : j # i => g[j] = h[j]
  BY <1>2, Replaced
<1> HIDE DEF g
<1>4. /\ Balances(h) \in [D -> Nat] /\ IsFiniteSet(D)
      /\ IsSum(Sums(h), Balances(h), D) /\ Total(h) = Sums(h)[D]
  BY TotalIsSum
<1>5. /\ Balances(g) \in [D -> Nat]
      /\ IsSum(Sums(g), Balances(g), D) /\ Total(g) = Sums(g)[D]
  BY <1>3, TotalIsSum
<1>0. D \in SUBSET D /\ i \in D /\ rest \in SUBSET D
  OBVIOUS
<1>6. Total(h) = Balances(h)[i] + Sums(h)[rest] /\ Total(g) = Balances(g)[i] + Sums(g)[rest]
  <2> HIDE DEF D
  <2>1. Sums(h)[D] = Balances(h)[i] + Sums(h)[D \ {i}]
    <3>1. TakesAny(Sums(h), Balances(h), D)
      BY <1>4, AnyOrder
    <3> QED
      BY <1>0, <3>1 DEF TakesAny
  <2>2. Sums(g)[D] = Balances(g)[i] + Sums(g)[D \ {i}]
    <3>1. TakesAny(Sums(g), Balances(g), D)
      BY <1>4, <1>5, AnyOrder
    <3> QED
      BY <1>0, <3>1 DEF TakesAny
  <2> QED
    BY <1>4, <1>5, <2>1, <2>2
<1>7. Balances(h)[i] = h[i].balance /\ Balances(g)[i] = b
  BY <1>2, <1>3 DEF Balances
<1>8. Sums(h)[rest] = Sums(g)[rest]
  <2>1. \A x \in rest : Balances(h)[x] = Balances(g)[x]
    BY <1>3 DEF Balances
  <2> HIDE DEF D, rest
  <2> QED
    BY <1>0, <1>4, <1>5, <2>1, SameSum
<1>9. Sums(h)[rest] \in Nat
  BY <1>0, <1>4 DEF IsSum
<1>10. b \in Nat
  BY TokenAssumption
<1> DEFINE left == Sums(h)[rest]
           was == h[i].balance
<1>11. Total(h) = was + left /\ Total(g) = b + left /\ was \in Nat /\ left \in Nat
  BY <1>2, <1>6, <1>7, <1>8, <1>9
<1> HIDE DEF left, was, D, rest
<1>12. Total(h) \in Nat /\ was <= Total(h) /\ Total(g) = Total(h) - was + b
  BY <1>10, <1>11
<1> QED
  BY <1>1, <1>2, <1>3, <1>12 DEF was

\* A slot is appended: the total grows by its balance.
LEMMA TotalOfAppend ==
  ASSUME NEW h \in Seq(Slots), NEW new \in Slots
  PROVE  Total(Append(h, new)) = Total(h) + new.balance
<1> DEFINE g == Append(h, new)
           n == Len(h) + 1
           D == DOMAIN h
<1>1. /\ g \in Seq(Slots) /\ DOMAIN g = D \cup {n} /\ n \notin D /\ g[n] = new
      /\ \A j \in D : g[j] = h[j]
  OBVIOUS
<1> HIDE DEF g
<1>2. /\ Balances(h) \in [D -> Nat] /\ IsFiniteSet(D)
      /\ IsSum(Sums(h), Balances(h), D) /\ Total(h) = Sums(h)[D]
  BY TotalIsSum
<1>3. /\ Balances(g) \in [DOMAIN g -> Nat] /\ IsFiniteSet(DOMAIN g)
      /\ IsSum(Sums(g), Balances(g), DOMAIN g) /\ Total(g) = Sums(g)[DOMAIN g]
  BY <1>1, TotalIsSum
<1>4. n \in DOMAIN g /\ DOMAIN g \ {n} = D
  BY <1>1
<1>5. Total(g) = Balances(g)[n] + Sums(g)[D]
  <2> HIDE DEF n, D
  <2>1. DOMAIN g \in SUBSET DOMAIN g
    OBVIOUS
  <2>2. Sums(g)[DOMAIN g] = Balances(g)[n] + Sums(g)[DOMAIN g \ {n}]
    <3>1. TakesAny(Sums(g), Balances(g), DOMAIN g)
      BY <1>3, AnyOrder
    <3> QED
      BY <1>4, <2>1, <3>1 DEF TakesAny
  <2> QED
    BY <1>3, <1>4, <2>2
<1>6. Balances(g)[n] = new.balance
  BY <1>1 DEF Balances
<1>7. Sums(h)[D] = Sums(g)[D]
  <2>1. \A x \in D : Balances(h)[x] = Balances(g)[x]
    BY <1>1 DEF Balances
  <2>2. D \in SUBSET DOMAIN g
    BY <1>1
  <2> QED
    BY <1>2, <1>3, <2>1, <2>2, SameSum
<1>8. Total(h) \in Nat /\ new.balance \in Nat
  <2>1. D \in SUBSET D
    OBVIOUS
  <2>2. Total(h) \in Nat
    BY <1>2, <2>1 DEF IsSum
  <2> QED
    BY <2>2, TokenAssumption DEF Slots
<1> QED
  BY <1>2, <1>5, <1>6, <1>7, <1>8 DEF g

\* The list of a fresh account holds the whole supply.
LEMMA FirstTotal ==
  ASSUME NEW deployer \in Keys
  PROVE  Total(<<[key |-> deployer, balance |-> INITIAL_SUPPLY]>>) = INITIAL_SUPPLY
<1> DEFINE new == [key |-> deployer, balance |-> INITIAL_SUPPLY]
<1>1. new \in Slots /\ new.balance = INITIAL_SUPPLY
  BY TokenAssumption DEF Slots
<1> HIDE DEF new
<1>2. <<>> \in Seq(Slots) /\ Append(<<>>, new) = <<new>> /\ DOMAIN <<>> = {}
  OBVIOUS
<1>3. Total(<<>>) = 0
  BY <1>2, TotalIsSum DEF IsSum
<1>4. Total(Append(<<>>, new)) = Total(<<>>) + new.balance
  BY <1>1, <1>2, TotalOfAppend
<1> QED
  BY <1>1, <1>2, <1>3, <1>4, TokenAssumption DEF new

----------------------------------------------------------------------------
(***************************************************************************)
(* A transfer as a whole: first the debit, then the credit on its result.  *)
(***************************************************************************)
Pays(h, from, to, amount) ==
    LET g == Credited(Debited(h, from, amount), to, amount) IN
    /\ g \in Seq(Slots)
    /\ OneSlotPerKey(g)
    /\ Len(g) <= HOLDER_SLOTS
    /\ \A k : IsHolder(g, k) <=> IsHolder(h, k) \/ k = to
    /\ \A k : BalanceOf(g, k) =
                (IF k = from THEN BalanceOf(h, k) - amount ELSE BalanceOf(h, k))
                + (IF k = to THEN amount ELSE 0)

\* What a permitted transfer does to the balances, a transfer to oneself included.
LEMMA TransferPays ==
  ASSUME NEW l \in Ledgers, OneSlotPerKey(l.holders), Len(l.holders) <= HOLDER_SLOTS,
         NEW from \in Keys, NEW to \in Keys, NEW amount \in Amounts,
         CanTransfer(l, from, to, amount)
  PROVE  Pays(l.holders, from, to, amount)
<1> DEFINE h == l.holders
           d == Debited(h, from, amount)
           g == Credited(d, to, amount)
<1>1. /\ h \in Seq(Slots) /\ IsHolder(h, from) /\ amount \in Nat
      /\ amount <= BalanceOf(h, from) /\ BalanceOf(h, from) \in 0..MaxU64
      /\ amount <= MaxU64 /\ MaxU64 \in Nat /\ HOLDER_SLOTS \in Nat
      /\ BalanceOf(h, from) = h[SlotOf(h, from)].balance
  BY HolderHasSlot, TokenAssumption DEF CanTransfer, Ledgers, Amounts
<1>2. OneSlotPerKey(h) /\ Len(h) <= HOLDER_SLOTS
  OBVIOUS
<1>3. IF IsHolder(d, to) THEN d[SlotOf(d, to)].balance + amount <= MaxU64
      ELSE Len(d) < HOLDER_SLOTS
  BY DEF CanTransfer
<1> DEFINE rest == h[SlotOf(h, from)].balance - amount
<1>4. rest \in 0..MaxU64 /\ rest = BalanceOf(h, from) - amount
  BY <1>1
<1>5. d = [h EXCEPT ![SlotOf(h, from)].balance = rest]
  BY DEF Debited
<1> HIDE DEF h, d, rest
<1>6. Written(d, h, from, rest)
  BY <1>1, <1>2, <1>4, <1>5, WriteSlot
<1>10. /\ d \in Seq(Slots) /\ Len(d) = Len(h) /\ OneSlotPerKey(d)
       /\ \A k : IsHolder(d, k) <=> IsHolder(h, k)
       /\ \A k : BalanceOf(d, k) = IF k = from THEN rest ELSE BalanceOf(h, k)
  BY <1>1, <1>6 DEF Written
<1>11. \A k : BalanceOf(d, k) = IF k = from THEN BalanceOf(h, k) - amount ELSE BalanceOf(h, k)
  BY <1>4, <1>10
<1>12. \A k : BalanceOf(d, k) \in Int
  BY <1>10, HolderHasSlot, OthersHaveNone, TokenAssumption
<1>7. Written(g, d, to, BalanceOf(d, to) + amount)
  <2>1. CASE IsHolder(d, to)
    <3> DEFINE b == d[SlotOf(d, to)].balance + amount
    <3>1. g = [d EXCEPT ![SlotOf(d, to)].balance = b]
      BY <2>1 DEF Credited
    <3>2. /\ BalanceOf(d, to) = d[SlotOf(d, to)].balance
          /\ BalanceOf(d, to) \in 0..MaxU64
      BY <2>1, <1>10, HolderHasSlot
    <3>3. b \in 0..MaxU64 /\ b = BalanceOf(d, to) + amount
      BY <3>2, <2>1, <1>1, <1>3
    <3> HIDE DEF b, g
    <3>4. Written(g, d, to, b)
      BY <3>1, <3>3, <2>1, <1>10, WriteSlot
    <3> QED
      BY <3>3, <3>4
  <2>2. CASE ~IsHolder(d, to)
    <3>1. g = Append(d, [key |-> to, balance |-> amount])
      BY <2>2 DEF Credited
    <3>2. amount \in 0..MaxU64
      BY <1>1
    <3> HIDE DEF g
    <3>3. Written(g, d, to, amount)
      BY <3>1, <3>2, <2>2, <1>10, NewSlot
    <3>4. BalanceOf(d, to) + amount = amount
      BY <2>2, <1>1, OthersHaveNone
    <3> QED
      BY <3>3, <3>4
  <2> QED
    BY <2>1, <2>2
<1> HIDE DEF g
<1>13. Len(g) <= HOLDER_SLOTS
  BY <1>1, <1>2, <1>3, <1>7, <1>10 DEF Written
<1>8. \A k : IsHolder(g, k) <=> IsHolder(h, k) \/ k = to
  BY <1>10, <1>7 DEF Written
<1>9. \A k : BalanceOf(g, k) =
               (IF k = from THEN BalanceOf(h, k) - amount ELSE BalanceOf(h, k))
               + (IF k = to THEN amount ELSE 0)
  <2> TAKE k
  <2>1. BalanceOf(g, k) = BalanceOf(d, k) + (IF k = to THEN amount ELSE 0)
    BY <1>1, <1>12, <1>7 DEF Written
  <2> QED
    BY <2>1, <1>11
<1> QED
  BY <1>7, <1>8, <1>9, <1>13 DEF Pays, Written, g, d, h

\* The debited list.
Withdraws(d, h, amount) ==
    /\ d \in Seq(Slots) /\ Len(d) = Len(h) /\ OneSlotPerKey(d)
    /\ \A k : IsHolder(d, k) <=> IsHolder(h, k)
    /\ Total(h) \in Nat /\ Total(d) = Total(h) - amount

LEMMA DebitWithdraws ==
  ASSUME NEW h \in Seq(Slots), OneSlotPerKey(h), NEW from, IsHolder(h, from),
         NEW amount \in Amounts, amount <= BalanceOf(h, from)
  PROVE  Withdraws(Debited(h, from, amount), h, amount)
<1> DEFINE s == SlotOf(h, from)
           rest == h[s].balance - amount
           d == Debited(h, from, amount)
<1>1. /\ s \in DOMAIN h /\ BalanceOf(h, from) = h[s].balance
      /\ BalanceOf(h, from) \in 0..MaxU64
  BY HolderHasSlot
<1>2. rest \in 0..MaxU64 /\ amount \in Nat /\ rest = h[s].balance - amount
  BY <1>1, TokenAssumption DEF Amounts
<1>3. d = [h EXCEPT ![s].balance = rest]
  BY DEF Debited
<1>4. Written([h EXCEPT ![s].balance = rest], h, from, rest)
  <2> HIDE DEF rest
  <2> QED
    BY <1>2, WriteSlot
<1>5. /\ Total(h) \in Nat /\ h[s].balance \in Nat
      /\ Total([h EXCEPT ![s].balance = rest]) = Total(h) - h[s].balance + rest
  <2> HIDE DEF rest, s
  <2> QED
    BY <1>1, <1>2, TotalOfWrite
<1> HIDE DEF s, rest, d
<1>6. Total(d) = Total(h) - amount
  BY <1>2, <1>3, <1>5
<1>7. Withdraws(d, h, amount)
  BY <1>3, <1>4, <1>5, <1>6 DEF Written, Withdraws
<1> QED
  BY <1>7 DEF d

\* A transfer moves units between slots and makes or loses none.
LEMMA TransferKeepsTotal ==
  ASSUME NEW h \in Seq(Slots), OneSlotPerKey(h), NEW from, IsHolder(h, from),
         NEW to \in Keys, NEW amount \in Amounts, amount <= BalanceOf(h, from),
         LET d == Debited(h, from, amount) IN
         IsHolder(d, to) => d[SlotOf(d, to)].balance + amount <= MaxU64
  PROVE  Total(Credited(Debited(h, from, amount), to, amount)) = Total(h)
<1> DEFINE d == Debited(h, from, amount)
           s == SlotOf(d, to)
           b == d[s].balance + amount
<1>1. Withdraws(d, h, amount)
  BY DebitWithdraws
<1>2. amount \in Nat /\ amount \in 0..MaxU64
  BY TokenAssumption DEF Amounts
<1>3. IsHolder(d, to) => d[s].balance + amount <= MaxU64
  OBVIOUS
<1> HIDE DEF d
<1>4. d \in Seq(Slots) /\ OneSlotPerKey(d) /\ Total(h) \in Nat /\ Total(d) = Total(h) - amount
  BY <1>1 DEF Withdraws
<1>5. CASE IsHolder(d, to)
  <2>1. s \in DOMAIN d /\ d[s].balance \in 0..MaxU64
    BY <1>4, <1>5, HolderHasSlot
  <2>2. b \in 0..MaxU64 /\ b = d[s].balance + amount
    BY <1>2, <1>3, <1>5, <2>1
  <2>3. Credited(d, to, amount) = [d EXCEPT ![s].balance = b]
    BY <1>5 DEF Credited
  <2> HIDE DEF b, s
  <2>4. Total([d EXCEPT ![s].balance = b]) = Total(d) - d[s].balance + b
    BY <1>4, <2>1, <2>2, TotalOfWrite
  <2>5. d[s].balance \in Nat
    BY <2>1, TokenAssumption
  <2> QED
    BY <1>2, <1>4, <2>2, <2>3, <2>4, <2>5 DEF d
<1>6. CASE ~IsHolder(d, to)
  <2> DEFINE new == [key |-> to, balance |-> amount]
  <2>1. new \in Slots /\ new.balance = amount
    BY <1>2 DEF Slots
  <2>2. Credited(d, to, amount) = Append(d, new)
    BY <1>6 DEF Credited
  <2> HIDE DEF new
  <2>3. Total(Append(d, new)) = Total(d) + amount
    BY <1>4, <2>1, TotalOfAppend
  <2> QED
    BY <1>2, <1>4, <2>2, <2>3 DEF d
<1> QED
  BY <1>5, <1>6

----------------------------------------------------------------------------
(***************************************************************************)
(* The invariant, and the refinement it carries.                           *)
(***************************************************************************)
\* The list of a fresh account.
LEMMA FirstSlot ==
  ASSUME NEW deployer \in Keys
  PROVE  LET g == <<[key |-> deployer, balance |-> INITIAL_SUPPLY]>> IN
         /\ g \in Seq(Slots) /\ Len(g) = 1 /\ OneSlotPerKey(g)
         /\ \A k : IsHolder(g, k) <=> k = deployer
         /\ \A k : BalanceOf(g, k) = IF k = deployer THEN INITIAL_SUPPLY ELSE 0
<1>1. <<>> \in Seq(Slots) /\ Len(<<>>) = 0 /\ OneSlotPerKey(<<>>) /\ \A k : ~IsHolder(<<>>, k)
  BY DEF OneSlotPerKey, IsHolder, SlotsOf
<1>2. INITIAL_SUPPLY \in 0..MaxU64
  BY TokenAssumption
<1>3. Append(<<>>, [key |-> deployer, balance |-> INITIAL_SUPPLY])
        = <<[key |-> deployer, balance |-> INITIAL_SUPPLY]>>
  OBVIOUS
<1> DEFINE g == Append(<<>>, [key |-> deployer, balance |-> INITIAL_SUPPLY])
<1> HIDE DEF g
<1>4. Written(g, <<>>, deployer, INITIAL_SUPPLY)
  BY <1>1, <1>2, NewSlot DEF g
<1> QED
  BY <1>1, <1>3, <1>4, OthersHaveNone DEF g, Written

\* The list after any step of the contract.
LEMMA InvariantKept ==
  IInv /\ [Next]_ledger => IInv'
<1> SUFFICES ASSUME IInv, [Next]_ledger
             PROVE  IInv'
  OBVIOUS
<1>1. CASE UNCHANGED ledger
  BY <1>1 DEF IInv, holders, OneSlotPerKey
<1>2. ASSUME NEW deployer \in Keys, Initialize(deployer)
      PROVE  IInv'
  <2> DEFINE g == <<[key |-> deployer, balance |-> INITIAL_SUPPLY]>>
  <2>1. g \in Seq(Slots) /\ Len(g) = 1 /\ OneSlotPerKey(g)
    BY FirstSlot
  <2>2. ledger' = [supply |-> INITIAL_SUPPLY, holders |-> g]
    BY <1>2 DEF Initialize
  <2>6. Total(g) = INITIAL_SUPPLY
    BY FirstTotal
  <2> HIDE DEF g
  <2>3. ledger' \in Ledgers /\ ledger' # Blank
    BY <2>1, <2>2, TokenAssumption DEF Ledgers, Slots
  <2>4. holders' = g
    BY <2>2, <2>3 DEF holders
  <2>5. Len(g) <= HOLDER_SLOTS
    BY <2>1, TokenAssumption
  <2>7. ledger'.supply = INITIAL_SUPPLY /\ Total(ledger'.holders) = INITIAL_SUPPLY
    BY <2>2, <2>6
  <2>8. OneSlotPerKey(holders') /\ Len(holders') <= HOLDER_SLOTS
    BY <2>1, <2>4, <2>5
  <2> QED
    BY <2>3, <2>7, <2>8 DEF IInv
<1>3. ASSUME NEW from \in Keys, NEW to \in Keys, NEW amount \in Amounts,
             Transfer(from, to, amount)
      PROVE  IInv'
  <2>1. CanTransfer(ledger, from, to, amount) /\ ledger # Blank
    BY <1>3 DEF Transfer, CanTransfer, Decodes
  <2>2. ledger \in Ledgers /\ holders = ledger.holders
    BY <2>1 DEF IInv, holders
  <2>3. Pays(ledger.holders, from, to, amount)
    BY <2>1, <2>2, TransferPays DEF IInv
  <2> DEFINE g == Credited(Debited(ledger.holders, from, amount), to, amount)
  <2>4. g \in Seq(Slots) /\ OneSlotPerKey(g) /\ Len(g) <= HOLDER_SLOTS
    BY <2>3 DEF Pays
  <2>9. Total(g) = INITIAL_SUPPLY /\ ledger.supply = INITIAL_SUPPLY
    <3>1. ledger.holders \in Seq(Slots) /\ OneSlotPerKey(ledger.holders)
      BY <2>2 DEF Ledgers, IInv
    <3>2. /\ IsHolder(ledger.holders, from) /\ amount <= BalanceOf(ledger.holders, from)
          /\ LET d == Debited(ledger.holders, from, amount) IN
             IsHolder(d, to) => d[SlotOf(d, to)].balance + amount <= MaxU64
      BY <2>1 DEF CanTransfer
    <3>3. Total(g) = Total(ledger.holders)
      BY <3>1, <3>2, TransferKeepsTotal
    <3> QED
      BY <2>1, <3>3 DEF IInv
  <2>5. ledger' = [ledger EXCEPT !.holders = g]
    BY <1>3 DEF Transfer, Transferred
  <2> HIDE DEF g
  <2>6. ledger' \in Ledgers /\ ledger'.holders = g /\ ledger'.supply = ledger.supply
    BY <2>2, <2>4, <2>5 DEF Ledgers
  <2>7. ledger' # Blank
    BY <2>6, TokenAssumption DEF Ledgers, Slots
  <2>8. holders' = g
    BY <2>6, <2>7 DEF holders
  <2>10. ledger'.supply = INITIAL_SUPPLY /\ Total(ledger'.holders) = INITIAL_SUPPLY
    BY <2>6, <2>9
  <2>11. OneSlotPerKey(holders') /\ Len(holders') <= HOLDER_SLOTS
    BY <2>4, <2>8
  <2> QED
    BY <2>6, <2>10, <2>11 DEF IInv
<1> QED
  BY <1>1, <1>2, <1>3 DEF Next

\* A key's place is its slot.
LEMMA HoldersHavePlaces ==
  ASSUME NEW h \in Seq(Slots), OneSlotPerKey(h), Len(h) <= HOLDER_SLOTS
  PROVE  Promise!HavePlaces(KnownKeys(h))
<1> DEFINE place == [k \in KnownKeys(h) |-> SlotOf(h, k)]
<1>1. \A k \in KnownKeys(h) : SlotOf(h, k) \in DOMAIN h /\ h[SlotOf(h, k)].key = k
  BY HolderHasSlot DEF KnownKeys
<1>2. DOMAIN h \subseteq 1..HOLDER_SLOTS
  BY TokenAssumption
<1>3. place \in [KnownKeys(h) -> 1..HOLDER_SLOTS]
  BY <1>1, <1>2
<1>4. \A j, k \in KnownKeys(h) : place[j] = place[k] => j = k
  BY <1>1
<1> HIDE DEF place
<1> QED
  BY <1>3, <1>4 DEF Promise!HavePlaces

\* Every step of the contract is a step of the balances.
LEMMA StepsImplement ==
  IInv /\ IInv' /\ [Next]_ledger => [Promise!Next]_<<[k \in Keys |-> BalanceOf(holders, k)], KnownKeys(holders)>>
<1> DEFINE balance == [k \in Keys |-> BalanceOf(holders, k)]
           known == KnownKeys(holders)
<1> SUFFICES ASSUME IInv, IInv', [Next]_ledger
             PROVE  [Promise!Next]_<<balance, known>>
  OBVIOUS
<1>1. CASE UNCHANGED ledger
  <2>1. holders' = holders
    BY <1>1 DEF holders
  <2> QED
    BY <2>1 DEF BalanceOf, KnownKeys, IsHolder, SlotsOf, SlotOf
<1>2. ASSUME NEW deployer \in Keys, Initialize(deployer)
      PROVE  Promise!Next
  <2> DEFINE g == <<[key |-> deployer, balance |-> INITIAL_SUPPLY]>>
  <2>1. /\ \A k : IsHolder(g, k) <=> k = deployer
        /\ \A k : BalanceOf(g, k) = IF k = deployer THEN INITIAL_SUPPLY ELSE 0
        /\ g \in Seq(Slots)
    BY FirstSlot
  <2>2. holders = <<>>
    BY <1>2 DEF Initialize, holders
  <2>3. \A k : ~IsHolder(holders, k) /\ BalanceOf(holders, k) = 0
    BY <2>2, OthersHaveNone DEF IsHolder, SlotsOf
  <2>4. ledger' = [supply |-> INITIAL_SUPPLY, holders |-> g]
    BY <1>2 DEF Initialize
  <2> HIDE DEF g
  <2>5. ledger' \in Ledgers
    BY <2>1, <2>4, TokenAssumption DEF Ledgers
  <2>6. holders' = g
    BY <2>4, <2>5, TokenAssumption DEF holders, Ledgers, Slots
  <2>7. known = {} /\ known' = {deployer}
    BY <2>1, <2>3, <2>6 DEF KnownKeys
  <2>8. balance' = [balance EXCEPT ![deployer] = INITIAL_SUPPLY]
    BY <2>1, <2>3, <2>6
  <2> QED
    BY <2>7, <2>8 DEF Promise!Next, Promise!Minted
<1>3. ASSUME NEW from \in Keys, NEW to \in Keys, NEW amount \in Amounts,
             Transfer(from, to, amount)
      PROVE  Promise!Next
  <2>1. CanTransfer(ledger, from, to, amount) /\ ledger # Blank
    BY <1>3 DEF Transfer, CanTransfer, Decodes
  <2>2. ledger \in Ledgers /\ holders = ledger.holders
    BY <2>1 DEF IInv, holders
  <2>3. Pays(holders, from, to, amount)
    BY <2>1, <2>2, TransferPays DEF IInv
  <2> DEFINE g == Credited(Debited(holders, from, amount), to, amount)
  <2>4. /\ g \in Seq(Slots)
        /\ \A k : IsHolder(g, k) <=> IsHolder(holders, k) \/ k = to
        /\ \A k : BalanceOf(g, k) =
                    (IF k = from THEN BalanceOf(holders, k) - amount ELSE BalanceOf(holders, k))
                    + (IF k = to THEN amount ELSE 0)
    BY <2>3 DEF Pays
  <2>5. ledger' = [ledger EXCEPT !.holders = g]
    BY <1>3, <2>2 DEF Transfer, Transferred
  <2> HIDE DEF g
  <2>6. ledger' \in Ledgers /\ ledger'.holders = g
    BY <2>2, <2>4, <2>5 DEF Ledgers
  <2>7. holders' = g
    BY <2>6, TokenAssumption DEF holders, Ledgers, Slots
  <2>8. from \in known /\ amount <= balance[from]
    BY <2>1, <2>2 DEF CanTransfer, KnownKeys
  <2>9. known' = known \cup {to}
    BY <2>4, <2>7 DEF KnownKeys
  <2>10. Promise!HavePlaces(known')
    <3>1. g \in Seq(Slots) /\ OneSlotPerKey(g) /\ Len(g) <= HOLDER_SLOTS
      BY <2>3 DEF Pays, g
    <3>2. Promise!HavePlaces(KnownKeys(g))
      BY <3>1, HoldersHavePlaces
    <3> QED
      BY <3>2, <2>7 DEF KnownKeys
  <2>11. balance' = [k \in Keys |->
                       (IF k = from THEN balance[k] - amount ELSE balance[k])
                       + (IF k = to THEN amount ELSE 0)]
    BY <2>4, <2>7
  <2>13. Promise!Moved(from, to, amount)
    BY <2>8, <2>9, <2>10, <2>11 DEF Promise!Moved
  <2> QED
    BY <2>13 DEF Promise!Next
<1> QED
  BY <1>1, <1>2, <1>3 DEF Next

\* The stored balances of every reachable ledger add up to the supply, and no
\* key has two slots.
THEOREM Invariance == Spec => []IInv
<1>1. Init => IInv
  BY TokenAssumption DEF Init, IInv, holders, OneSlotPerKey
<1> QED
  BY <1>1, InvariantKept, PTL DEF Spec

\* Every key that has a slot has one of its own.
LEMMA KeysCountSlots ==
  ASSUME NEW h \in Seq(Slots), OneSlotPerKey(h)
  PROVE  Cardinality(KnownKeys(h)) = Len(h)
<1> DEFINE keyAt == [i \in DOMAIN h |-> h[i].key]
           K == KnownKeys(h)
<1>1. \A i \in DOMAIN h : h[i].key \in K
  <2>1. \A i \in DOMAIN h : h[i] \in Slots
    OBVIOUS
  <2>2. \A i \in DOMAIN h : h[i].key \in Keys
    BY <2>1 DEF Slots
  <2> QED
    BY <2>2, SlotFound DEF KnownKeys
<1>2. \A k \in K : \E i \in DOMAIN h : h[i].key = k
  BY HolderHasSlot DEF KnownKeys
<1> HIDE DEF K
<1>3. keyAt \in [DOMAIN h -> K]
  BY <1>1
<1>4. \A i, j \in DOMAIN h : keyAt[i] = keyAt[j] => i = j
  BY DEF OneSlotPerKey
<1>5. \A k \in K : \E i \in DOMAIN h : keyAt[i] = k
  BY <1>2
<1> HIDE DEF keyAt
<1>6. keyAt \in Bijection(DOMAIN h, K)
  BY <1>3, <1>4, <1>5 DEF Bijection, Injection, Surjection, IsInjective
<1>7. ExistsBijection(DOMAIN h, K)
  BY <1>6 DEF ExistsBijection
<1>8. DOMAIN h = 1..Len(h) /\ Len(h) \in Nat
  OBVIOUS
<1>9. IsFiniteSet(DOMAIN h) /\ Cardinality(DOMAIN h) = Len(h)
  BY <1>8, FS_Interval
<1>10. Cardinality(K) = Cardinality(DOMAIN h)
  BY <1>7, <1>9, FS_Bijection
<1> QED
  BY <1>9, <1>10 DEF K

\* What a key may do depends on its balance and on free places alone: the total
\* that every call recomputes never stands in the way, and no sum overflows.
THEOREM PayableAnyTime == Spec => []PayableByBalance
<1>1. IInv => PayableByBalance
  <2> SUFFICES ASSUME IInv, ledger # Blank,
                      NEW from \in Keys, NEW to \in Keys, NEW amount \in Amounts
               PROVE  CanTransfer(ledger, from, to, amount) <=>
                        /\ amount <= BalanceOf(holders, from)
                        /\ IsHolder(holders, to) \/ Cardinality(KnownKeys(holders)) < HOLDER_SLOTS
    BY DEF PayableByBalance
  <2> DEFINE h == ledger.holders
             d == Debited(h, from, amount)
  <2>1. /\ holders = h /\ h \in Seq(Slots) /\ OneSlotPerKey(h) /\ Len(h) <= HOLDER_SLOTS
        /\ Total(h) = INITIAL_SUPPLY /\ ledger.supply = INITIAL_SUPPLY
    BY DEF IInv, holders, Ledgers
  <2>2. Decodes(ledger)
    BY <2>1, TokenAssumption DEF Decodes
  <2>3. Cardinality(KnownKeys(h)) = Len(h)
    BY <2>1, KeysCountSlots
  <2>4. amount \in Nat /\ amount > 0
    BY TokenAssumption DEF Amounts
  <2>5. ASSUME IsHolder(h, from), amount <= BalanceOf(h, from)
        PROVE  /\ IsHolder(d, to) <=> IsHolder(h, to)
               /\ Len(d) = Len(h)
               /\ IsHolder(d, to) => d[SlotOf(d, to)].balance + amount <= MaxU64
    <3>1. Withdraws(d, h, amount)
      BY <2>1, <2>5, DebitWithdraws
    <3> HIDE DEF d
    <3>2. d \in Seq(Slots) /\ OneSlotPerKey(d) /\ Total(d) = Total(h) - amount
      BY <3>1 DEF Withdraws
    <3>3. ASSUME IsHolder(d, to) PROVE d[SlotOf(d, to)].balance + amount <= MaxU64
      <4>1. SlotOf(d, to) \in DOMAIN d /\ d[SlotOf(d, to)].balance = BalanceOf(d, to)
            /\ BalanceOf(d, to) \in 0..MaxU64
        BY <3>2, <3>3, HolderHasSlot
      <4> DEFINE s == SlotOf(d, to)
      <4> HIDE DEF s
      <4>2. d[s].balance \in Nat /\ d[s].balance <= Total(d)
        BY <3>2, <4>1, TotalOfWrite DEF s
      <4>3. d[s].balance + amount <= INITIAL_SUPPLY
        BY <2>1, <2>4, <3>2, <4>2, TokenAssumption
      <4> QED
        BY <2>4, <4>2, <4>3, TokenAssumption DEF s
    <3> QED
      BY <3>1, <3>3 DEF Withdraws
  <2>6. ASSUME CanTransfer(ledger, from, to, amount)
        PROVE  /\ amount <= BalanceOf(h, from)
               /\ IsHolder(h, to) \/ Len(h) < HOLDER_SLOTS
    BY <2>5, <2>6 DEF CanTransfer
  <2>7. ASSUME amount <= BalanceOf(h, from), IsHolder(h, to) \/ Len(h) < HOLDER_SLOTS
        PROVE  CanTransfer(ledger, from, to, amount)
    <3>1. IsHolder(h, from)
      BY <2>4, <2>7, OthersHaveNone
    <3> QED
      BY <2>2, <2>5, <2>7, <3>1 DEF CanTransfer
  <2> QED
    BY <2>1, <2>3, <2>6, <2>7
<1> QED
  BY <1>1, Invariance, PTL

\* For every number of slots and supply the slot list behaves as one balance per
\* key, moved by the reported transfers and by nothing else.
THEOREM TransfersImplementBalances == Spec => ImplementsBalances
<1>2. Spec => []IInv
  BY Invariance
<1>3. Init => Promise!Init
  BY OthersHaveNone DEF Init, holders, Promise!Init, KnownKeys, IsHolder, SlotsOf
<1> QED
  BY <1>2, <1>3, StepsImplement, PTL DEF Spec, ImplementsBalances, Promise!Spec
=============================================================================
