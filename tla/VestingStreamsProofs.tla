------------------------- MODULE VestingStreamsProofs -------------------------
(***************************************************************************)
(* Safety of the vesting vault for every table of schedules, nonce width,  *)
(* fuel reserve, and set of block times.                                   *)
(*                                                                         *)
(* The argument has three parts.  The calendar: what a stream releases is  *)
(* a whole number between zero and its total that never decreases with     *)
(* time.  The books: every candidate state a handler builds from a valid   *)
(* state is valid again, because what the lanes of a stream spend never    *)
(* exceeds its total.  The lanes: what is in flight on one lane answers    *)
(* that lane's attempt and no other, so a callback settles what it should. *)
(***************************************************************************)
EXTENDS VestingStreams, TLAPS

USE DEF ConfigValid

----------------------------------------------------------------------------
(***************************************************************************)
(* The calendar.                                                           *)
(***************************************************************************)

(* A quotient is the one number of whole divisors below the dividend.       *)
LEMMA QuotientUnique ==
  ASSUME NEW a \in Nat, NEW d \in Nat, d > 0, NEW q \in Int, q * d <= a, a < q * d + d
  PROVE  a \div d = q
  OBVIOUS

LEMMA QuotientBounds ==
  ASSUME NEW a \in Nat, NEW d \in Nat, d > 0
  PROVE  /\ a \div d \in Nat
         /\ (a \div d) * d <= a /\ a < (a \div d) * d + d
         /\ a % d \in Nat /\ a = (a \div d) * d + (a % d)
  <1>1. a \div d \in Nat /\ (a \div d) * d <= a /\ a < (a \div d) * d + d
    OBVIOUS
  <1>2. a = (a \div d) * d + (a % d) /\ a % d \in 0..(d-1)
    OBVIOUS
  <1> QED BY <1>1, <1>2

LEMMA ProductMonotone ==
  ASSUME NEW a \in Nat, NEW b \in Nat, NEW c \in Nat, a <= b PROVE a * c <= b * c
  OBVIOUS

LEMMA ProductNat == ASSUME NEW a \in Nat, NEW b \in Nat PROVE a * b \in Nat
  OBVIOUS

LEMMA QuotientMonotone ==
  ASSUME NEW a \in Nat, NEW b \in Nat, NEW d \in Nat, d > 0, a <= b
  PROVE  a \div d <= b \div d
  <1> DEFINE p == a \div d
             q == b \div d
  <1>1. /\ p \in Nat /\ q \in Nat
        /\ p * d <= a /\ b < q * d + d
    BY QuotientBounds
  <1>2. SUFFICES ASSUME q + 1 <= p PROVE FALSE
    BY <1>1
  <1>3. (q + 1) * d <= p * d
    BY <1>1, <1>2, ProductMonotone
  <1>4. (q + 1) * d = q * d + d /\ q * d \in Nat /\ p * d \in Nat
    BY <1>1
  <1> HIDE DEF p, q
  <1> QED BY <1>1, <1>3, <1>4

(* What vested() computes without the product is the floor of the product.  *)
LEMMA SplitQuotient ==
  ASSUME NEW a \in Nat, NEW e \in Nat, NEW d \in Nat, d > 0
  PROVE  (a * e) \div d = (a \div d) * e + ((a % d) * e) \div d
  <1> DEFINE q == a \div d
             r == a % d
             w == (r * e) \div d
  <1>1. q \in Nat /\ r \in Nat /\ a = q * d + r
    BY QuotientBounds
  <1>2. r * e \in Nat /\ q * e \in Nat /\ a * e \in Nat
    BY <1>1, ProductNat
  <1>3. w \in Nat /\ w * d <= r * e /\ r * e < w * d + d
    BY <1>2, QuotientBounds
  <1> HIDE DEF q, r, w
  <1>4. a * e = (q * e) * d + r * e
    BY <1>1
  <1>5. (q * e + w) * d = (q * e) * d + w * d
    BY <1>1, <1>2, <1>3
  <1>6. (q * e) * d \in Nat /\ w * d \in Nat
    BY <1>2, <1>3, ProductNat
  <1>7. (q * e + w) * d <= a * e /\ a * e < (q * e + w) * d + d
    BY <1>2, <1>3, <1>4, <1>5, <1>6
  <1>8. (a * e) \div d = q * e + w
    BY <1>2, <1>3, <1>7, QuotientUnique
  <1> QED BY <1>8 DEF q, r, w

LEMMA ElapsedBounds ==
  ASSUME NEW c \in Schedules, NEW t \in Nat, c.start <= t
  PROVE  Elapsed(c, t) \in Nat /\ Elapsed(c, t) <= t - c.start
  <1>1. t - c.start \in Nat /\ c.step \in Nat
    BY DEF Schedules
  <1>2. CASE c.step = 0
    BY <1>1, <1>2 DEF Elapsed
  <1>3. CASE c.step # 0
    <2>1. ((t - c.start) \div c.step) * c.step <= t - c.start
      BY <1>1, <1>3, QuotientBounds
    <2>2. (t - c.start) \div c.step \in Nat
      BY <1>1, <1>3, QuotientBounds
    <2>3. QED BY <1>1, <1>3, <2>1, <2>2, ProductNat DEF Elapsed
  <1> QED BY <1>2, <1>3

LEMMA ElapsedMonotone ==
  ASSUME NEW c \in Schedules, NEW t \in Nat, NEW u \in Nat, c.start <= t, t <= u
  PROVE  Elapsed(c, t) <= Elapsed(c, u)
  <1>1. /\ t - c.start \in Nat /\ u - c.start \in Nat /\ c.step \in Nat
        /\ t - c.start <= u - c.start
    BY DEF Schedules
  <1>2. CASE c.step = 0
    BY <1>1, <1>2 DEF Elapsed
  <1>3. CASE c.step # 0
    <2>1. (t - c.start) \div c.step <= (u - c.start) \div c.step
      BY <1>1, <1>3, QuotientMonotone
    <2>2. (t - c.start) \div c.step \in Nat /\ (u - c.start) \div c.step \in Nat
      BY <1>1, <1>3, QuotientBounds
    <2>3. QED BY <1>1, <1>3, <2>1, <2>2, ProductMonotone DEF Elapsed
  <1> QED BY <1>2, <1>3

(* Between the cliff and the end, vested() is the share of the total that   *)
(* the elapsed time is of the duration, rounded down.                      *)
LEMMA VestedIsFloor ==
  ASSUME NEW c \in Schedules, ScheduleValid(c), NEW t \in Nat,
         c.cliff <= t, c.start < t, t < c.end
  PROVE  vested(c, t) = (c.total * Elapsed(c, t)) \div (c.end - c.start)
  <1> DEFINE d == c.end - c.start
             e == Elapsed(c, t)
  <1>1. /\ d \in Nat /\ d > 0 /\ c.total \in Nat
        /\ c.cliff \in Nat /\ c.start \in Nat /\ c.end \in Nat
    BY DEF Schedules, ScheduleValid
  <1>2. e \in Nat
    BY <1>1, ElapsedBounds
  <1>3. vested(c, t) = (c.total \div d) * e + ((c.total % d) * e) \div d
    BY <1>1 DEF vested
  <1> HIDE DEF d, e
  <1>4. (c.total * e) \div d = (c.total \div d) * e + ((c.total % d) * e) \div d
    BY <1>1, <1>2, SplitQuotient
  <1> QED BY <1>3, <1>4 DEF d, e

LEMMA VestedBounds ==
  ASSUME NEW c \in Schedules, ScheduleValid(c), NEW t \in Nat
  PROVE  vested(c, t) \in Nat /\ vested(c, t) <= c.total
  <1> DEFINE d == c.end - c.start
             e == Elapsed(c, t)
  <1>1. /\ d \in Nat /\ d > 0 /\ c.total \in Nat
        /\ c.cliff \in Nat /\ c.start \in Nat /\ c.end \in Nat
    BY DEF Schedules, ScheduleValid
  <1>2. CASE t < c.cliff \/ t <= c.start \/ t >= c.end
    BY <1>1, <1>2 DEF vested
  <1>3. CASE c.cliff <= t /\ c.start < t /\ t < c.end
    <2>1. e \in Nat /\ e <= d
      BY <1>1, <1>3, ElapsedBounds
    <2>2. vested(c, t) = (c.total * e) \div d
      BY <1>3, VestedIsFloor
    <2> HIDE DEF d, e
    <2>3. c.total * e \in Nat /\ c.total * e <= c.total * d
      BY <1>1, <2>1
    <2>4. /\ (c.total * e) \div d \in Nat
          /\ (c.total * e) \div d <= (c.total * d) \div d
      BY <1>1, <2>3, QuotientBounds, QuotientMonotone
    <2>5. (c.total * d) \div d = c.total
      BY <1>1, QuotientUnique, ProductNat
    <2> QED BY <2>2, <2>4, <2>5
  <1> QED BY <1>1, <1>2, <1>3

(* What has been released is never taken back by the passing of time.       *)
LEMMA VestedMonotone ==
  ASSUME NEW c \in Schedules, ScheduleValid(c), NEW t \in Nat, NEW u \in Nat, t <= u
  PROVE  vested(c, t) <= vested(c, u)
  <1> DEFINE d == c.end - c.start
  <1>1. /\ d \in Nat /\ d > 0 /\ c.total \in Nat
        /\ c.cliff \in Nat /\ c.start \in Nat /\ c.end \in Nat
    BY DEF Schedules, ScheduleValid
  <1>2. /\ vested(c, t) \in Nat /\ vested(c, t) <= c.total
        /\ vested(c, u) \in Nat /\ vested(c, u) <= c.total
    BY VestedBounds
  <1>3. CASE t < c.cliff \/ t <= c.start
    BY <1>2, <1>3 DEF vested
  <1>4. CASE ~(u < c.cliff) /\ ~(u <= c.start) /\ u >= c.end
    BY <1>2, <1>4 DEF vested
  <1>5. CASE c.cliff <= t /\ c.start < t /\ u < c.end
    <2>1. /\ Elapsed(c, t) \in Nat /\ Elapsed(c, u) \in Nat
          /\ Elapsed(c, t) <= Elapsed(c, u)
      BY <1>1, <1>5, ElapsedBounds, ElapsedMonotone
    <2>2. /\ c.total * Elapsed(c, t) \in Nat /\ c.total * Elapsed(c, u) \in Nat
          /\ c.total * Elapsed(c, t) <= c.total * Elapsed(c, u)
      BY <1>1, <2>1
    <2>3. /\ vested(c, t) = (c.total * Elapsed(c, t)) \div d
          /\ vested(c, u) = (c.total * Elapsed(c, u)) \div d
      BY <1>1, <1>5, VestedIsFloor
    <2> HIDE DEF d
    <2> QED BY <1>1, <2>2, <2>3, QuotientMonotone
  <1> QED BY <1>1, <1>3, <1>4, <1>5

LEMMA NothingVestedYet ==
  ASSUME NEW c \in Schedules, NEW t \in Nat, t <= c.start PROVE vested(c, t) = 0
  BY DEF Schedules, vested

----------------------------------------------------------------------------
(***************************************************************************)
(* The books.                                                              *)
(***************************************************************************)
Lane0 == [pending : Nat, nonce : Nat, after_lt : Nat, last_lt : Nat, last_hash : Nat]

ProgressTable ==
    [cancelled : BOOLEAN, cutoff : Nat, cap : Nat, paid : [Lanes -> Nat], lanes : [Lanes -> Lane0]]

States == [funded : BOOLEAN, last_time : Nat, nonce : 0..MaxU64,
           progress : [Streams -> ProgressTable]]

(* The code's sum over its fixed array is additive, monotone and exact on   *)
(* single streams.                                                          *)
LEMMA SumInt == ASSUME NEW f \in [Streams -> Int] PROVE SumStreams(f) \in Int
  <1> DEFINE a(i) == IF i < Count THEN f[i] ELSE 0
  <1>1. \A i \in 0..7 : a(i) \in Int
    BY ConfigAssumption DEF Streams
  <1>2. SumStreams(f) = a(0) + a(1) + a(2) + a(3) + a(4) + a(5) + a(6) + a(7)
    BY DEF SumStreams
  <1> HIDE DEF a
  <1> QED BY <1>1, <1>2

LEMMA SumMonotone ==
  ASSUME NEW f \in [Streams -> Int], NEW g \in [Streams -> Int],
         \A i \in Streams : f[i] <= g[i]
  PROVE  SumStreams(f) <= SumStreams(g)
  <1> DEFINE a(i) == IF i < Count THEN f[i] ELSE 0
             b(i) == IF i < Count THEN g[i] ELSE 0
  <1>1. \A i \in 0..7 : a(i) \in Int /\ b(i) \in Int /\ a(i) <= b(i)
    BY ConfigAssumption DEF Streams
  <1>2. SumStreams(f) = a(0) + a(1) + a(2) + a(3) + a(4) + a(5) + a(6) + a(7)
    BY DEF SumStreams
  <1>3. SumStreams(g) = b(0) + b(1) + b(2) + b(3) + b(4) + b(5) + b(6) + b(7)
    BY DEF SumStreams
  <1> HIDE DEF a, b
  <1> QED BY <1>1, <1>2, <1>3

(* Two tables that differ in one stream have sums that differ by as much.   *)
LEMMA SumUpdate ==
  ASSUME NEW f \in [Streams -> Int], NEW g \in [Streams -> Int], NEW i \in Streams,
         \A j \in Streams \ {i} : f[j] = g[j]
  PROVE  SumStreams(g) = SumStreams(f) + (g[i] - f[i])
  <1> DEFINE a(j) == IF j < Count THEN f[j] ELSE 0
             b(j) == IF j < Count THEN g[j] ELSE 0
             x == g[i] - f[i]
  <1>1. \A j \in 0..7 : a(j) \in Int /\ b(j) = a(j) + IF j = i THEN x ELSE 0
    BY ConfigAssumption DEF Streams
  <1>2. SumStreams(f) = a(0) + a(1) + a(2) + a(3) + a(4) + a(5) + a(6) + a(7)
    BY DEF SumStreams
  <1>3. SumStreams(g) = b(0) + b(1) + b(2) + b(3) + b(4) + b(5) + b(6) + b(7)
    BY DEF SumStreams
  <1>4. x \in Int /\ i \in 0..7
    BY ConfigAssumption DEF Streams, MAX_STREAMS
  <1> HIDE DEF a, b, x
  <1>5. SumStreams(g) = SumStreams(f) + x
    BY <1>1, <1>2, <1>3, <1>4
  <1> QED BY <1>5 DEF x

LEMMA SumZero ==
  ASSUME NEW f, \A i \in Streams : f[i] = 0 PROVE SumStreams(f) = 0
  BY ConfigAssumption DEF SumStreams, Streams

LEMMA CapBounds ==
  ASSUME NEW s \in States, NEW i \in Streams, CancellationValid(s, i)
  PROVE  cap(s, i) \in Nat /\ cap(s, i) <= Cfg[i].total
  <1>1. Cfg[i] \in Schedules /\ ScheduleValid(Cfg[i])
    BY ConfigAssumption
  <1>2. s.progress[i].cutoff \in Nat /\ s.last_time \in Nat
    BY DEF States, ProgressTable
  <1> QED BY <1>1, <1>2, VestedBounds DEF cap, CancellationValid

(* The two lanes of a stream never spend more than its total between them.  *)
LEMMA SpentBound ==
  ASSUME NEW s \in States, NEW i \in Streams, s.funded,
         CancellationValid(s, i), DueValid(s, i)
  PROVE  Spent(s, i) \in Nat /\ Spent(s, i) <= Cfg[i].total
  <1> DEFINE p == s.progress[i]
  <1>1. /\ p.paid[CLAIM] \in Nat /\ p.paid[REFUND] \in Nat
        /\ p.lanes[CLAIM].pending \in Nat /\ p.lanes[REFUND].pending \in Nat
        /\ p.cancelled \in BOOLEAN
    BY DEF States, ProgressTable, Lane0, Lanes, CLAIM, REFUND
  <1>2. cap(s, i) \in Nat /\ cap(s, i) <= Cfg[i].total /\ Cfg[i].total \in Nat
    BY CapBounds, ConfigAssumption DEF Schedules
  <1>3. cap(s, i) - p.paid[CLAIM] - p.lanes[CLAIM].pending >= 0
    BY DEF DueValid, due, Limit
  <1>4. CASE p.cancelled
    <2>1. (Cfg[i].total - cap(s, i)) - p.paid[REFUND] - p.lanes[REFUND].pending >= 0
      BY <1>4 DEF DueValid, due, Limit, CLAIM, REFUND
    <2> HIDE DEF p
    <2> QED BY <1>1, <1>2, <1>3, <2>1 DEF Spent, p
  <1>5. CASE ~p.cancelled
    <2>1. p.paid[REFUND] = 0 /\ p.lanes[REFUND].pending = 0
      BY <1>5 DEF CancellationValid, NewLane
    <2> HIDE DEF p
    <2> QED BY <1>1, <1>2, <1>3, <2>1 DEF Spent, p
  <1> QED BY <1>1, <1>4, <1>5

LEMMA SpentType ==
  ASSUME NEW s \in States
  PROVE  [i \in Streams |-> Spent(s, i)] \in [Streams -> Int]
  BY DEF States, ProgressTable, Lane0, Lanes, CLAIM, REFUND, Spent

(* A change on one lane changes what its stream spends by as much.          *)
LEMMA SpentUpdate ==
  ASSUME NEW s \in States, NEW r \in States, NEW i \in Streams, NEW k \in Lanes,
         \A l \in Lanes \ {k} :
           /\ r.progress[i].paid[l] = s.progress[i].paid[l]
           /\ r.progress[i].lanes[l].pending = s.progress[i].lanes[l].pending
  PROVE  /\ Spent(s, i) \in Int
         /\ Spent(r, i) = Spent(s, i)
              + (r.progress[i].paid[k] + r.progress[i].lanes[k].pending)
              - (s.progress[i].paid[k] + s.progress[i].lanes[k].pending)
  <1> DEFINE paid(x, l) == x.progress[i].paid[l]
             pending(x, l) == x.progress[i].lanes[l].pending
  <1>1. \A x \in States, l \in Lanes : paid(x, l) \in Nat /\ pending(x, l) \in Nat
    BY DEF States, ProgressTable, Lane0
  <1>2. \A l \in Lanes \ {k} : paid(r, l) = paid(s, l) /\ pending(r, l) = pending(s, l)
    OBVIOUS
  <1>3. \A x \in States : Spent(x, i) = paid(x, 0) + paid(x, 1) + pending(x, 0) + pending(x, 1)
    BY DEF Spent, CLAIM, REFUND
  <1>4. Lanes = {0, 1}
    BY DEF Lanes, CLAIM, REFUND
  <1> HIDE DEF paid, pending
  <1>5. /\ Spent(s, i) \in Int
        /\ Spent(r, i) = Spent(s, i) + (paid(r, k) + pending(r, k)) - (paid(s, k) + pending(s, k))
    <2>1. CASE k = 0
      BY <1>1, <1>2, <1>3, <1>4, <2>1
    <2>2. CASE k = 1
      BY <1>1, <1>2, <1>3, <1>4, <2>2
    <2> QED BY <1>4, <2>1, <2>2
  <1> QED BY <1>5 DEF paid, pending

(* So the last check of validate can never be the one that fails.           *)
LEMMA HeldNonNegative ==
  ASSUME NEW s \in States, \A i \in Streams : CancellationValid(s, i) /\ DueValid(s, i)
  PROVE  held(s) \in Nat
  <1> DEFINE f == [i \in Streams |-> Spent(s, i)]
             g == [i \in Streams |-> Cfg[i].total]
  <1>1. f \in [Streams -> Int] /\ g \in [Streams -> Int]
    BY SpentType, ConfigAssumption DEF Schedules
  <1>2. SumStreams(f) \in Int /\ SumStreams(g) \in Int
    BY <1>1, SumInt
  <1>3. CASE s.funded
    <2>1. \A i \in Streams : f[i] <= g[i]
      BY <1>3, SpentBound
    <2>2. SumStreams(f) <= SumStreams(g)
      BY <1>1, <2>1, SumMonotone
    <2>3. held(s) = SumStreams(g) - SumStreams(f)
      BY <1>3 DEF held, Total
    <2> HIDE DEF f, g
    <2> QED BY <1>2, <2>2, <2>3
  <1>4. CASE ~s.funded
    BY <1>4 DEF held
  <1> QED BY <1>3, <1>4

LEMMA HeldUpdate ==
  ASSUME NEW s \in States, NEW r \in States, s.funded, r.funded, NEW i \in Streams,
         \A j \in Streams \ {i} : r.progress[j] = s.progress[j]
  PROVE  held(r) = held(s) - (Spent(r, i) - Spent(s, i))
  <1> DEFINE f == [j \in Streams |-> Spent(s, j)]
             g == [j \in Streams |-> Spent(r, j)]
  <1>1. f \in [Streams -> Int] /\ g \in [Streams -> Int]
    BY SpentType
  <1>2. \A j \in Streams \ {i} : f[j] = g[j]
    BY DEF Spent
  <1>3. SumStreams(g) = SumStreams(f) + (g[i] - f[i])
    BY <1>1, <1>2, SumUpdate
  <1>4. f[i] = Spent(s, i) /\ g[i] = Spent(r, i) /\ f[i] \in Int /\ g[i] \in Int
    BY <1>1
  <1>5. held(s) = Total - SumStreams(f) /\ held(r) = Total - SumStreams(g)
    BY DEF held
  <1>6. Total \in Int /\ SumStreams(f) \in Int
    BY <1>1, SumInt, ConfigAssumption DEF Total, Schedules
  <1> HIDE DEF f, g
  <1> QED BY <1>3, <1>4, <1>5, <1>6

LEMMA HeldSame ==
  ASSUME NEW s, NEW r, r.funded = s.funded, r.progress = s.progress
  PROVE  held(r) = held(s)
  BY DEF held, Spent

(* Moving the clock forward releases more and takes nothing back.           *)
LEMMA ObservedValid ==
  ASSUME NEW s \in States, validate(s), NEW t \in Nat
  PROVE  /\ Observed(s, t) \in States /\ validate(Observed(s, t))
         /\ held(Observed(s, t)) = held(s)
         /\ Observed(s, t).last_time >= s.last_time
         /\ \A i \in Streams : cap(Observed(s, t), i) >= cap(s, i)
  <1> DEFINE r == Observed(s, t)
  <1>1. r \in States /\ r.last_time \in Nat /\ s.last_time \in Nat /\ r.last_time >= s.last_time
    BY DEF States, Observed
  <1>2. r.funded = s.funded /\ r.nonce = s.nonce /\ r.progress = s.progress
    BY DEF States, Observed
  <1> HIDE DEF r
  <1>3. \A i \in Streams : CancellationValid(r, i)
    <2>1. \A i \in Streams : CancellationValid(s, i) /\ s.progress[i].cutoff \in Nat
      BY DEF validate, States, ProgressTable
    <2> QED BY <1>1, <1>2, <2>1 DEF CancellationValid
  <1>4. \A i \in Streams : cap(r, i) \in Nat /\ cap(s, i) \in Nat /\ cap(r, i) >= cap(s, i)
    <2> TAKE i \in Streams
    <2>1. cap(r, i) \in Nat /\ cap(s, i) \in Nat
      BY <1>1, <1>3, CapBounds DEF validate
    <2>2. Cfg[i] \in Schedules /\ ScheduleValid(Cfg[i])
      BY ConfigAssumption
    <2>3. vested(Cfg[i], r.last_time) >= vested(Cfg[i], s.last_time)
      BY <1>1, <2>2, VestedMonotone, VestedBounds
    <2> QED BY <1>2, <2>1, <2>3 DEF cap
  <1>5. \A i \in Streams : DueValid(r, i)
    <2> TAKE i \in Streams
    <2>1. /\ s.progress[i].paid[CLAIM] \in Nat /\ s.progress[i].paid[REFUND] \in Nat
          /\ s.progress[i].lanes[CLAIM].pending \in Nat
          /\ s.progress[i].lanes[REFUND].pending \in Nat
      BY DEF States, ProgressTable, Lane0, Lanes, CLAIM, REFUND
    <2>2. DueValid(s, i)
      BY DEF validate
    <2>3. s.funded => due(r, i, CLAIM) >= 0
      BY <1>2, <1>4, <2>1, <2>2 DEF DueValid, due, Limit
    <2>4. s.progress[i].cancelled => cap(r, i) = cap(s, i)
      BY <1>2 DEF cap
    <2>5. s.funded /\ s.progress[i].cancelled => due(r, i, REFUND) >= 0
      BY <1>2, <2>2, <2>4 DEF DueValid, due, Limit
    <2> QED BY <1>2, <2>3, <2>5 DEF DueValid
  <1>6. held(r) \in Nat
    BY <1>1, <1>3, <1>5, HeldNonNegative
  <1>7. \A i \in Streams, k \in Lanes : LaneValid(r, r.progress[i].lanes[k])
    BY <1>2 DEF validate, LaneValid
  <1>8. validate(r)
    BY <1>2, <1>3, <1>5, <1>6, <1>7 DEF validate
  <1>9. held(r) = held(s)
    BY <1>2, HeldSame
  <1> QED BY <1>1, <1>4, <1>8, <1>9 DEF r

LEMMA NewStateValid ==
  ASSUME NEW t \in Nat
  PROVE  NewState(t) \in States /\ validate(NewState(t)) /\ held(NewState(t)) = 0
  <1>1. NewState(t) \in States
    BY WidthAssumption DEF NewState, NewProgress, NewLane, States, ProgressTable, Lane0
  <1>2. \A i \in Streams : NewState(t).progress[i] = NewProgress
    BY DEF NewState
  <1>3. ~NewState(t).funded /\ NewState(t).nonce = 0
    BY DEF NewState
  <1>4. \A i \in Streams : CancellationValid(NewState(t), i) /\ DueValid(NewState(t), i)
    BY <1>2, <1>3 DEF CancellationValid, DueValid, NewProgress, Lanes, CLAIM, REFUND
  <1>5. \A i \in Streams, k \in Lanes : LaneValid(NewState(t), NewState(t).progress[i].lanes[k])
    BY <1>2 DEF LaneValid, NewProgress, NewLane
  <1>6. held(NewState(t)) = 0
    BY <1>3 DEF held
  <1>7. NewState(t).progress = [i \in Streams |-> NewProgress]
    BY DEF NewState
  <1> QED BY <1>1, <1>3, <1>4, <1>5, <1>6, <1>7 DEF validate

LEMMA FundingValid ==
  ASSUME NEW s \in States, validate(s), ~s.funded
  PROVE  /\ WithFunding(s) \in States /\ validate(WithFunding(s))
         /\ held(WithFunding(s)) = Total
  <1> DEFINE r == WithFunding(s)
  <1>1. r \in States /\ r.funded
    BY DEF States, WithFunding
  <1>2. r.last_time = s.last_time /\ r.nonce = s.nonce /\ r.progress = s.progress
    BY DEF States, WithFunding
  <1> HIDE DEF r
  <1>3. \A i \in Streams : s.progress[i] = NewProgress
    BY DEF validate
  <1>4. \A i \in Streams : CancellationValid(r, i)
    BY <1>2 DEF validate, CancellationValid
  <1>5. \A i \in Streams : DueValid(r, i)
    <2> TAKE i \in Streams
    <2>1. cap(r, i) \in Nat
      BY <1>1, <1>4, CapBounds
    <2>2. /\ r.progress[i].paid[CLAIM] = 0 /\ r.progress[i].lanes[CLAIM].pending = 0
          /\ ~r.progress[i].cancelled
      BY <1>2, <1>3 DEF NewProgress, NewLane, Lanes, CLAIM, REFUND
    <2> QED BY <2>1, <2>2 DEF DueValid, due, Limit
  <1>6. \A i \in Streams, k \in Lanes : LaneValid(r, r.progress[i].lanes[k])
    BY <1>2 DEF validate, LaneValid
  <1>7. validate(r)
    BY <1>1, <1>4, <1>5, <1>6, HeldNonNegative DEF validate
  <1>8. held(r) = Total
    <2>1. \A i \in Streams : Spent(r, i) = 0
      BY <1>2, <1>3 DEF Spent, NewProgress, NewLane, Lanes, CLAIM, REFUND
    <2>2. SumStreams([i \in Streams |-> Spent(r, i)]) = 0
      BY <2>1, SumZero
    <2>3. Total \in Int
      BY SumInt, ConfigAssumption DEF Total, Schedules
    <2> QED BY <1>1, <2>2, <2>3 DEF held
  <1> QED BY <1>1, <1>7, <1>8 DEF r

(* A cancellation freezes what the beneficiary has earned and opens the     *)
(* refund lane for the rest.                                               *)
LEMMA CancelValid ==
  ASSUME NEW s \in States, validate(s), NEW i \in Streams, s.funded, Cfg[i].revocable,
         ~s.progress[i].cancelled, s.last_time < Cfg[i].end
  PROVE  /\ WithCancel(s, i) \in States /\ validate(WithCancel(s, i))
         /\ held(WithCancel(s, i)) = held(s)
         /\ WithCancel(s, i).last_time = s.last_time
         /\ WithCancel(s, i).nonce = s.nonce
         /\ WithCancel(s, i).funded
         /\ \A j \in Streams :
              /\ cap(WithCancel(s, i), j) = cap(s, j)
              /\ WithCancel(s, i).progress[j].lanes = s.progress[j].lanes
              /\ WithCancel(s, i).progress[j].paid = s.progress[j].paid
              /\ WithCancel(s, i).progress[j].cancelled = (j = i \/ s.progress[j].cancelled)
              /\ WithCancel(s, i).progress[j].cutoff
                   = IF j = i THEN s.last_time ELSE s.progress[j].cutoff
  <1> DEFINE r == WithCancel(s, i)
             earned == vested(Cfg[i], s.last_time)
  <1>1. earned \in Nat /\ earned <= Cfg[i].total /\ Cfg[i].total \in Nat
    BY VestedBounds, ConfigAssumption DEF States, Schedules
  <1>2. /\ r \in States /\ r.funded = s.funded /\ r.nonce = s.nonce /\ r.last_time = s.last_time
        /\ \A j \in Streams \ {i} : r.progress[j] = s.progress[j]
        /\ r.progress[i].cancelled /\ r.progress[i].cutoff = s.last_time
        /\ r.progress[i].cap = earned
        /\ r.progress[i].paid = s.progress[i].paid /\ r.progress[i].lanes = s.progress[i].lanes
    <2> DEFINE p == s.progress[i]
               q == [p EXCEPT !.cancelled = TRUE, !.cutoff = s.last_time, !.cap = earned]
    <2>1. p \in ProgressTable /\ s.last_time \in Nat
      BY DEF States
    <2>2. /\ q \in ProgressTable /\ q.cancelled /\ q.cutoff = s.last_time /\ q.cap = earned
          /\ q.paid = p.paid /\ q.lanes = p.lanes
      BY <1>1, <2>1 DEF ProgressTable
    <2>3. r = [s EXCEPT !.progress = [s.progress EXCEPT ![i] = q]]
      BY DEF WithCancel, States
    <2> HIDE DEF q, p, r
    <2>4. /\ r \in States /\ r.funded = s.funded /\ r.nonce = s.nonce /\ r.last_time = s.last_time
          /\ r.progress[i] = q /\ \A j \in Streams \ {i} : r.progress[j] = s.progress[j]
      BY <2>2, <2>3 DEF States
    <2> QED BY <2>2, <2>4 DEF p
  <1>3. s.last_time \in Nat
    BY DEF States
  <1>4. cap(s, i) = earned /\ cap(r, i) = earned
    BY <1>2 DEF cap
  <1> HIDE DEF r, earned
  <1>5. \A j \in Streams : CancellationValid(r, j)
    <2>1. ASSUME NEW j \in Streams \ {i} PROVE CancellationValid(r, j)
      BY <1>2, <2>1 DEF validate, CancellationValid
    <2>2. CancellationValid(r, i)
      BY <1>2, <1>3 DEF CancellationValid, earned
    <2> QED BY <2>1, <2>2
  <1>6. \A j \in Streams : DueValid(r, j)
    <2>1. ASSUME NEW j \in Streams \ {i} PROVE DueValid(r, j)
      BY <1>2, <2>1 DEF validate, DueValid, due, Limit, cap
    <2>2. due(r, i, CLAIM) >= 0
      BY <1>2, <1>4 DEF validate, DueValid, due, Limit
    <2>3. due(r, i, REFUND) >= 0
      <3>1. s.progress[i].paid[REFUND] = 0 /\ s.progress[i].lanes[REFUND].pending = 0
        BY DEF validate, CancellationValid, NewLane
      <3> QED BY <1>1, <1>2, <1>4, <3>1 DEF due, Limit, CLAIM, REFUND
    <2> QED BY <2>1, <2>2, <2>3 DEF DueValid
  <1>7. \A j \in Streams : r.progress[j].lanes = s.progress[j].lanes
    BY <1>2
  <1>8. \A j \in Streams, k \in Lanes : LaneValid(r, r.progress[j].lanes[k])
    <2>1. \A j \in Streams, k \in Lanes : LaneValid(s, s.progress[j].lanes[k])
      BY DEF validate
    <2> QED BY <1>2, <1>7, <2>1 DEF LaneValid
  <1>9. validate(r)
    BY <1>2, <1>5, <1>6, <1>8, HeldNonNegative DEF validate
  <1>10. held(r) = held(s)
    <2>1. Spent(r, i) = Spent(s, i) /\ Spent(s, i) \in Int
      BY <1>2 DEF Spent, States, ProgressTable, Lane0, Lanes, CLAIM, REFUND
    <2>2. held(s) \in Int
      BY HeldNonNegative DEF validate
    <2> QED BY <1>2, <2>1, <2>2, HeldUpdate
  <1>11. \A j \in Streams : cap(r, j) = cap(s, j)
    BY <1>2, <1>4 DEF cap
  <1>12. s.progress[i].cancelled \in BOOLEAN /\ \A j \in Streams : s.progress[j].cancelled \in BOOLEAN
    BY DEF States, ProgressTable
  <1> QED BY <1>2, <1>9, <1>10, <1>11, <1>12 DEF r

(* Two states that differ in one lane of one stream.                        *)
LaneReplaced(r, s, i, k, lane) ==
    /\ \A j \in Streams \ {i} : r.progress[j] = s.progress[j]
    /\ r.progress[i].cancelled = s.progress[i].cancelled
    /\ r.progress[i].cutoff = s.progress[i].cutoff
    /\ r.progress[i].cap = s.progress[i].cap
    /\ r.progress[i].lanes = [s.progress[i].lanes EXCEPT ![k] = lane]

Attempt(s, i, k, block_lt) ==
    LET lane == s.progress[i].lanes[k] IN
    [lane EXCEPT !.pending = due(s, i, k), !.nonce = s.nonce + 1,
                 !.after_lt = IF block_lt > lane.last_lt THEN block_lt ELSE lane.last_lt]

(* A dispatch makes all that is due pending, which leaves nothing due.      *)
LEMMA DispatchValid ==
  ASSUME NEW s \in States, validate(s), NEW i \in Streams, NEW k \in Lanes,
         NEW block_lt \in Nat, s.funded, s.progress[i].lanes[k].pending = 0,
         k = REFUND => s.progress[i].cancelled, due(s, i, k) # 0, s.nonce + 1 <= MaxU64
  PROVE  LET r == WithDispatch(s, i, k, block_lt) IN
         /\ due(s, i, k) \in Nat \ {0}
         /\ r \in States /\ validate(r)
         /\ held(r) = held(s) - due(s, i, k)
         /\ r.last_time = s.last_time /\ r.funded /\ r.nonce = s.nonce + 1
         /\ LaneReplaced(r, s, i, k, Attempt(s, i, k, block_lt))
         /\ r.progress[i].paid = s.progress[i].paid
         /\ \A j \in Streams : cap(r, j) = cap(s, j)
  <1> DEFINE r == WithDispatch(s, i, k, block_lt)
             p == s.progress[i]
             lane == Attempt(s, i, k, block_lt)
  <1>1. /\ p \in ProgressTable /\ s.nonce \in Nat /\ s.last_time \in Nat
        /\ p.lanes[k] \in Lane0 /\ p.paid[k] \in Nat /\ s.nonce + 1 \in 0..MaxU64
        /\ p.cancelled \in BOOLEAN
    BY WidthAssumption DEF States, ProgressTable
  <1>2. due(s, i, k) \in Nat \ {0}
    <2>1. cap(s, i) \in Nat /\ Cfg[i].total \in Nat
      BY CapBounds, ConfigAssumption DEF validate, Schedules
    <2>2. due(s, i, k) \in Int
      BY <1>1, <2>1 DEF due, Limit, Lane0
    <2>3. due(s, i, k) >= 0
      BY DEF validate, DueValid, Lanes
    <2> QED BY <2>2, <2>3
  <1>3. lane \in Lane0
    <2> DEFINE l == p.lanes[k]
               boundary == IF block_lt > l.last_lt THEN block_lt ELSE l.last_lt
    <2>1. l \in Lane0 /\ boundary \in Nat /\ s.nonce + 1 \in Nat /\ due(s, i, k) \in Nat
      BY <1>1, <1>2 DEF Lane0
    <2>2. lane = [l EXCEPT !.pending = due(s, i, k), !.nonce = s.nonce + 1,
                           !.after_lt = boundary]
      BY DEF Attempt
    <2> HIDE DEF l, boundary, lane
    <2> QED BY <2>1, <2>2 DEF Lane0
  <1>4. /\ r \in States /\ r.funded = s.funded /\ r.nonce = s.nonce + 1
        /\ r.last_time = s.last_time /\ r.progress[i].paid = p.paid
        /\ LaneReplaced(r, s, i, k, lane)
    <2> DEFINE q == [p EXCEPT !.lanes[k] = lane]
    <2>1. /\ q \in ProgressTable /\ q.lanes = [p.lanes EXCEPT ![k] = lane]
          /\ q.cancelled = p.cancelled /\ q.cutoff = p.cutoff /\ q.cap = p.cap /\ q.paid = p.paid
      BY <1>1, <1>3 DEF ProgressTable
    <2>2. r = [s EXCEPT !.nonce = s.nonce + 1, !.progress = [s.progress EXCEPT ![i] = q]]
      BY DEF WithDispatch, Attempt
    <2> HIDE DEF q, lane, p, r
    <2>4. /\ r \in States /\ r.funded = s.funded /\ r.nonce = s.nonce + 1
          /\ r.last_time = s.last_time
          /\ r.progress[i] = q /\ \A j \in Streams \ {i} : r.progress[j] = s.progress[j]
      BY <1>1, <2>1, <2>2 DEF States
    <2> QED BY <2>1, <2>4 DEF p, LaneReplaced
  <1>5. \A j \in Streams : cap(r, j) = cap(s, j)
    BY <1>4 DEF cap, LaneReplaced
  <1> HIDE DEF r
  <1>6. \A j \in Streams : CancellationValid(r, j)
    <2>1. ASSUME NEW j \in Streams \ {i} PROVE CancellationValid(r, j)
      BY <1>4, <2>1 DEF validate, CancellationValid, LaneReplaced
    <2>2. CancellationValid(r, i)
      <3>1. /\ CancellationValid(s, i) /\ r.last_time = s.last_time /\ r.progress[i].paid = p.paid
            /\ r.progress[i].cancelled = p.cancelled /\ r.progress[i].cutoff = p.cutoff
            /\ r.progress[i].cap = p.cap
        BY <1>4 DEF validate, LaneReplaced
      <3>2. ~p.cancelled => r.progress[i].lanes[REFUND] = p.lanes[REFUND]
        BY <1>1, <1>4 DEF LaneReplaced, ProgressTable, Lanes, CLAIM, REFUND
      <3> QED BY <3>1, <3>2 DEF CancellationValid
    <2> QED BY <2>1, <2>2
  <1>7. /\ r.progress[i].lanes[k] = lane
        /\ \A l \in Lanes \ {k} : r.progress[i].lanes[l] = p.lanes[l]
    BY <1>1, <1>4 DEF LaneReplaced, ProgressTable
  <1>8. due(r, i, k) = 0 /\ \A l \in Lanes \ {k} : due(r, i, l) = due(s, i, l)
    <2>1. \A l \in Lanes : Limit(r, i, l) = Limit(s, i, l)
      BY <1>5 DEF Limit
    <2>2. Limit(s, i, k) - p.paid[k] - p.lanes[k].pending = due(s, i, k) /\ p.lanes[k].pending = 0
      BY DEF due
    <2>3. Limit(s, i, k) \in Int
      BY CapBounds, ConfigAssumption DEF Limit, validate, Schedules
    <2>4. due(r, i, k) = Limit(s, i, k) - p.paid[k] - due(s, i, k)
      BY <1>4, <1>7, <2>1 DEF due, Attempt
    <2>5. due(r, i, k) = 0
      BY <1>1, <1>2, <2>2, <2>3, <2>4
    <2>6. \A l \in Lanes \ {k} : due(r, i, l) = due(s, i, l)
      BY <1>4, <1>7, <2>1 DEF due
    <2> QED BY <2>5, <2>6
  <1>9. \A j \in Streams : DueValid(r, j)
    <2>1. ASSUME NEW j \in Streams \ {i} PROVE DueValid(r, j)
      BY <1>4, <1>5, <2>1 DEF validate, DueValid, due, Limit, LaneReplaced
    <2>2. DueValid(r, i)
      BY <1>4, <1>8 DEF validate, DueValid, LaneReplaced, Lanes
    <2> QED BY <2>1, <2>2
  <1>10. \A j \in Streams, l \in Lanes : LaneValid(r, r.progress[j].lanes[l])
    <2>1. LaneValid(r, lane)
      BY <1>1, <1>2, <1>4 DEF validate, LaneValid, Attempt, Lane0
    <2>2. \A j \in Streams, l \in Lanes :
            /\ LaneValid(r, s.progress[j].lanes[l])
            /\ r.progress[j].lanes[l] \in {s.progress[j].lanes[l], lane}
      <3>1. \A j \in Streams, l \in Lanes :
              s.progress[j].lanes[l].nonce \in Nat /\ LaneValid(s, s.progress[j].lanes[l])
        BY DEF validate, States, ProgressTable, Lane0
      <3>2. \A j \in Streams, l \in Lanes : LaneValid(r, s.progress[j].lanes[l])
        BY <1>1, <1>4, <3>1 DEF LaneValid
      <3> QED BY <1>4, <1>7, <3>2 DEF LaneReplaced
    <2> QED BY <2>1, <2>2
  <1>11. validate(r)
    BY <1>4, <1>6, <1>9, <1>10, HeldNonNegative DEF validate
  <1>12. held(r) = held(s) - due(s, i, k)
    <2>1. Spent(r, i) = Spent(s, i) + due(s, i, k) /\ Spent(s, i) \in Int
      <3>1. /\ lane.pending = due(s, i, k) /\ p.lanes[k].pending = 0
            /\ r.progress[i].lanes[k].pending = due(s, i, k)
        BY <1>7, <1>1 DEF Attempt, Lane0
      <3>2. /\ r.progress[i].paid[k] = p.paid[k]
            /\ \A l \in Lanes \ {k} : /\ r.progress[i].paid[l] = p.paid[l]
                                     /\ r.progress[i].lanes[l].pending = p.lanes[l].pending
        BY <1>4, <1>7
      <3>3. /\ Spent(s, i) \in Int
            /\ Spent(r, i) = Spent(s, i) + (p.paid[k] + due(s, i, k)) - (p.paid[k] + 0)
        BY <1>4, <3>1, <3>2, SpentUpdate
      <3> HIDE DEF p
      <3> QED BY <1>1, <1>2, <3>3
    <2>2. held(s) \in Int
      BY HeldNonNegative DEF validate
    <2>3. held(r) = held(s) - (Spent(r, i) - Spent(s, i))
      BY <1>4, HeldUpdate DEF LaneReplaced
    <2> QED BY <1>2, <2>1, <2>2, <2>3
  <1> QED BY <1>2, <1>4, <1>5, <1>11, <1>12 DEF r

Closed(c) == [NewLane EXCEPT !.last_lt = c.lt, !.last_hash = c.hash]

(* A callback ends the attempt.  What it could not deliver is due again.    *)
ClosesAttempt(r, s, i, k, c) ==
    LET pending == s.progress[i].lanes[k].pending IN
    /\ r \in States /\ validate(r)
    /\ held(r) = held(s) + (IF c.ok THEN 0 ELSE pending)
    /\ r.last_time = s.last_time /\ r.funded = s.funded /\ r.nonce = s.nonce
    /\ LaneReplaced(r, s, i, k, Closed(c))
    /\ r.progress[i].paid = [s.progress[i].paid EXCEPT ![k] = @ + IF c.ok THEN pending ELSE 0]
    /\ \A j \in Streams : cap(r, j) = cap(s, j)

LEMMA CallbackValid ==
  ASSUME NEW s \in States, validate(s), NEW i \in Streams, NEW k \in Lanes, NEW c,
         c.ok \in BOOLEAN, c.lt \in Nat \ {0}, c.hash \in Nat \ {0},
         s.progress[i].lanes[k].pending # 0
  PROVE  ClosesAttempt(AfterCallback(s, i, k, c), s, i, k, c)
  <1> DEFINE r == AfterCallback(s, i, k, c)
             p == s.progress[i]
             lane == Closed(c)
             gain == IF c.ok THEN p.lanes[k].pending ELSE 0
             paid == [p.paid EXCEPT ![k] = @ + gain]
  <1>1. /\ p \in ProgressTable /\ s.nonce \in Nat /\ s.last_time \in Nat
        /\ p.lanes[k] \in Lane0 /\ p.paid[k] \in Nat /\ p.cancelled \in BOOLEAN
        /\ p.lanes \in [Lanes -> Lane0] /\ p.paid \in [Lanes -> Nat]
        /\ p.lanes[k].pending \in Nat
    BY WidthAssumption DEF States, ProgressTable, Lane0
  <1>2. gain \in Nat /\ p.paid[k] + gain \in Nat /\ paid \in [Lanes -> Nat]
    BY <1>1
  <1>3. /\ lane \in Lane0 /\ lane.pending = 0 /\ lane.nonce = 0 /\ lane.after_lt = 0
        /\ lane.last_lt = c.lt /\ lane.last_hash = c.hash
    BY DEF Closed, NewLane, Lane0
  <1>4. s.funded
    <2>1. ~s.funded => p = NewProgress
      BY DEF validate
    <2> QED BY <2>1 DEF NewProgress, NewLane
  <1>5. /\ r \in States /\ r.funded = s.funded /\ r.nonce = s.nonce
        /\ r.last_time = s.last_time /\ r.progress[i].paid = paid
        /\ LaneReplaced(r, s, i, k, lane)
    <2> DEFINE q == [[p EXCEPT !.paid = paid] EXCEPT !.lanes = [p.lanes EXCEPT ![k] = lane]]
    <2>1. /\ q \in ProgressTable /\ q.lanes = [p.lanes EXCEPT ![k] = lane]
          /\ q.cancelled = p.cancelled /\ q.cutoff = p.cutoff /\ q.cap = p.cap /\ q.paid = paid
      BY <1>1, <1>2, <1>3 DEF ProgressTable
    <2>2. r = [s EXCEPT !.progress = [s.progress EXCEPT ![i] = q]]
      <3>1. CASE c.ok
        <4> DEFINE t == [s EXCEPT !.progress[i].paid[k] = @ + p.lanes[k].pending]
        <4>1. t = [s EXCEPT !.progress = [s.progress EXCEPT ![i] = [p EXCEPT !.paid = paid]]]
          BY <3>1
        <4>2. r = [t EXCEPT !.progress[i].lanes[k] = lane]
          BY <3>1 DEF AfterCallback, Settled, Closed
        <4>3. t.progress = [s.progress EXCEPT ![i] = [p EXCEPT !.paid = paid]]
          BY <4>1 DEF States
        <4>4. t.progress[i] = [p EXCEPT !.paid = paid] /\ t.progress[i].lanes = p.lanes
          BY <1>1, <4>3 DEF States, ProgressTable
        <4> HIDE DEF lane, paid, t, p
        <4>5. r = [t EXCEPT !.progress = [t.progress EXCEPT ![i] = q]]
          BY <4>2, <4>4
        <4>6. [t.progress EXCEPT ![i] = q] = [s.progress EXCEPT ![i] = q]
          BY <4>3 DEF States
        <4> QED BY <4>1, <4>5, <4>6 DEF States
      <3>2. CASE ~c.ok
        <4>1. [p EXCEPT !.paid = paid] = p
          BY <1>1, <3>2 DEF ProgressTable
        <4>2. r = [s EXCEPT !.progress[i].lanes[k] = lane]
          BY <3>2 DEF AfterCallback, Closed
        <4> HIDE DEF lane, paid
        <4> QED BY <4>1, <4>2
      <3> QED BY <3>1, <3>2
    <2> HIDE DEF q, lane, p, r, paid
    <2>3. /\ r \in States /\ r.funded = s.funded /\ r.nonce = s.nonce
          /\ r.last_time = s.last_time
          /\ r.progress[i] = q /\ \A j \in Streams \ {i} : r.progress[j] = s.progress[j]
      BY <1>1, <2>1, <2>2 DEF States
    <2> QED BY <2>1, <2>3 DEF p, LaneReplaced
  <1>6. \A j \in Streams : cap(r, j) = cap(s, j)
    BY <1>5 DEF cap, LaneReplaced
  <1> HIDE DEF r, gain
  <1>7. /\ r.progress[i].lanes[k] = lane
        /\ \A l \in Lanes \ {k} : r.progress[i].lanes[l] = p.lanes[l]
        /\ r.progress[i].paid[k] = p.paid[k] + gain
        /\ \A l \in Lanes \ {k} : r.progress[i].paid[l] = p.paid[l]
    BY <1>1, <1>5 DEF LaneReplaced
  <1>8. k = REFUND => p.cancelled
    <2>1. ~p.cancelled => p.lanes[REFUND] = NewLane
      BY DEF validate, CancellationValid
    <2> QED BY <2>1 DEF NewLane
  <1>9. \A j \in Streams : CancellationValid(r, j)
    <2>1. ASSUME NEW j \in Streams \ {i} PROVE CancellationValid(r, j)
      BY <1>5, <2>1 DEF validate, CancellationValid, LaneReplaced
    <2>2. CancellationValid(r, i)
      <3>1. /\ CancellationValid(s, i) /\ r.last_time = s.last_time
            /\ r.progress[i].cancelled = p.cancelled /\ r.progress[i].cutoff = p.cutoff
            /\ r.progress[i].cap = p.cap
        BY <1>5 DEF validate, LaneReplaced
      <3>2. ~p.cancelled => /\ r.progress[i].lanes[REFUND] = p.lanes[REFUND]
                            /\ r.progress[i].paid[REFUND] = p.paid[REFUND]
        BY <1>7, <1>8 DEF Lanes, CLAIM, REFUND
      <3> QED BY <3>1, <3>2 DEF CancellationValid
    <2> QED BY <2>1, <2>2
  <1>10. due(r, i, k) >= due(s, i, k) /\ \A l \in Lanes \ {k} : due(r, i, l) = due(s, i, l)
    <2>1. \A l \in Lanes : Limit(r, i, l) = Limit(s, i, l)
      BY <1>5, <1>6 DEF Limit
    <2>2. Limit(s, i, k) \in Int
      BY CapBounds, ConfigAssumption DEF Limit, validate, Schedules
    <2>3. /\ due(s, i, k) = Limit(s, i, k) - p.paid[k] - p.lanes[k].pending
          /\ due(r, i, k) = Limit(s, i, k) - (p.paid[k] + gain) - 0
      BY <1>3, <1>7, <2>1 DEF due
    <2>4. due(r, i, k) >= due(s, i, k)
      <3>1. gain \in Nat /\ gain <= p.lanes[k].pending
        BY <1>1 DEF gain
      <3> HIDE DEF p
      <3> QED BY <1>1, <2>2, <2>3, <3>1
    <2>5. \A l \in Lanes \ {k} : due(r, i, l) = due(s, i, l)
      BY <1>7, <2>1 DEF due
    <2> QED BY <2>4, <2>5
  <1>11. \A j \in Streams : DueValid(r, j)
    <2>1. ASSUME NEW j \in Streams \ {i} PROVE DueValid(r, j)
      BY <1>5, <1>6, <2>1 DEF validate, DueValid, due, Limit, LaneReplaced
    <2>2. DueValid(r, i)
      <3>1. /\ DueValid(s, i) /\ s.funded /\ r.funded
            /\ r.progress[i].cancelled = p.cancelled
        BY <1>4, <1>5 DEF validate, LaneReplaced
      <3>2. \A l \in Lanes : due(s, i, l) \in Int /\ due(r, i, l) \in Int
        <4>1. \A l \in Lanes : Limit(r, i, l) \in Int /\ Limit(s, i, l) \in Int
          BY <1>5, <1>6, CapBounds, ConfigAssumption DEF Limit, validate, Schedules
        <4>2. \A x \in States, l \in Lanes :
                x.progress[i].paid[l] \in Nat /\ x.progress[i].lanes[l].pending \in Nat
          BY DEF States, ProgressTable, Lane0
        <4> QED BY <1>5, <4>1, <4>2 DEF due
      <3>3. \A l \in Lanes : due(r, i, l) >= due(s, i, l)
        BY <1>10, <3>2
      <3> QED BY <3>1, <3>2, <3>3 DEF DueValid, Lanes
    <2> QED BY <2>1, <2>2
  <1>12. \A j \in Streams, l \in Lanes : LaneValid(r, r.progress[j].lanes[l])
    <2>1. LaneValid(r, lane)
      BY <1>3 DEF LaneValid
    <2>2. \A j \in Streams, l \in Lanes : LaneValid(r, s.progress[j].lanes[l])
      BY <1>5 DEF validate, LaneValid
    <2>3. \A j \in Streams, l \in Lanes :
            r.progress[j].lanes[l] \in {s.progress[j].lanes[l], lane}
      BY <1>5, <1>7 DEF LaneReplaced
    <2> QED BY <2>1, <2>2, <2>3
  <1>13. validate(r)
    BY <1>4, <1>5, <1>9, <1>11, <1>12, HeldNonNegative DEF validate
  <1>14. held(r) = held(s) + (IF c.ok THEN 0 ELSE p.lanes[k].pending)
    <2>1. /\ Spent(r, i) = Spent(s, i) + gain - p.lanes[k].pending
          /\ Spent(s, i) \in Int
      <3>1. /\ r.progress[i].paid[k] = p.paid[k] + gain /\ r.progress[i].lanes[k].pending = 0
            /\ \A l \in Lanes \ {k} : /\ r.progress[i].paid[l] = p.paid[l]
                                     /\ r.progress[i].lanes[l].pending = p.lanes[l].pending
        BY <1>3, <1>7
      <3>2. /\ Spent(s, i) \in Int
            /\ Spent(r, i) = Spent(s, i) + ((p.paid[k] + gain) + 0)
                                - (p.paid[k] + p.lanes[k].pending)
        <4>1. /\ Spent(s, i) \in Int
              /\ Spent(r, i) = Spent(s, i)
                   + (r.progress[i].paid[k] + r.progress[i].lanes[k].pending)
                   - (p.paid[k] + p.lanes[k].pending)
          <5>1. r \in States
            BY <1>5
          <5>2. \A l \in Lanes \ {k} :
                  /\ r.progress[i].paid[l] = s.progress[i].paid[l]
                  /\ r.progress[i].lanes[l].pending = s.progress[i].lanes[l].pending
            BY <3>1
          <5> QED BY <5>1, <5>2, SpentUpdate
        <4> HIDE DEF p
        <4> QED BY <3>1, <4>1
      <3> HIDE DEF p
      <3> QED BY <1>1, <1>2, <3>2
    <2>2. held(s) \in Int
      BY HeldNonNegative DEF validate
    <2>3. held(r) = held(s) - (Spent(r, i) - Spent(s, i))
      BY <1>4, <1>5, HeldUpdate DEF LaneReplaced
    <2> QED BY <1>1, <1>2, <2>1, <2>2, <2>3 DEF gain
  <1> QED BY <1>5, <1>6, <1>13, <1>14 DEF ClosesAttempt, r, gain

----------------------------------------------------------------------------
(***************************************************************************)
(* The lanes, and the inductive invariant.                                 *)
(*                                                                         *)
(* The books alone are not inductive: that a callback settles its lane's   *)
(* own attempt, and settles it as the receiver did, follows from what is   *)
(* in flight (one message per lane, one callback per nonce) and from the   *)
(* logical times, which put every callback of an earlier attempt at or     *)
(* before the lane's latest one.                                           *)
(***************************************************************************)
Bodies == [index : Streams, kind : Lanes, nonce : Nat, amount : Nat]

Messages == [to : Destinations, body : Bodies, principal : Nat, reserve : Nat]

CallbackRecords == [source : Destinations, hash : Nat, ok : BOOLEAN, shell : Nat, lt : Nat,
                    principal : Nat, body : Bodies]

Receivers == [bound : {NoAddress, Vault, Other}, reject : BOOLEAN, last : Nat, received : Nat]

TypeOK ==
    /\ lt \in Nat
    /\ deployed \in BOOLEAN
    /\ v \in States
    /\ bal \in Int /\ shell \in Nat
    /\ transit \in SUBSET Messages
    /\ callbacks \in SUBSET CallbackRecords
    /\ rcv \in [Destinations -> Receivers]

(* What is stored always decodes; before init there is nothing to decode.   *)
BooksInv == validate(v) /\ (~deployed => v = NewState(0))

(* A message on a lane carries that lane's pending payment, is alone there, *)
(* and its attempt has no callback yet.                                    *)
TransitInv ==
    \A m \in transit :
      /\ Lane(m.to).pending # 0
      /\ m.body = payment_body(m.to[1], m.to[2], Lane(m.to).nonce, Lane(m.to).pending)
      /\ m.principal = Lane(m.to).pending
      /\ \A n \in transit : n.to = m.to => n = m
      /\ \A c \in callbacks : c.source = m.to => c.hash # Lane(m.to).nonce

(* What a callback of the pending attempt says is what the vault expects.   *)
Genuine(c) ==
    IF c.ok THEN /\ c.principal = 0
                 /\ c.body = payment_body(c.source[1], c.source[2],
                                          Lane(c.source).nonce, Lane(c.source).pending)
            ELSE c.principal = Lane(c.source).pending /\ c.body = EmptyBody

(* A callback answers the pending attempt or is no later than the latest    *)
(* one its lane accepted.                                                  *)
CallbackInv ==
    \A c \in callbacks :
      /\ c.hash \in 1..v.nonce
      /\ c.lt \in 1..lt
      /\ \A n \in callbacks : n.source = c.source /\ n.hash = c.hash => n = c
      /\ Outstanding(c) => c.lt > Lane(c.source).after_lt /\ Genuine(c)
      /\ ~Outstanding(c) => c.lt <= Lane(c.source).last_lt

OrderInv ==
    \A d \in Destinations :
      /\ Lane(d).after_lt <= lt /\ Lane(d).last_lt <= lt
      /\ Lane(d).last_hash <= v.nonce
      /\ Lane(d).pending # 0 => Lane(d).last_hash < Lane(d).nonce

IInv == TypeOK /\ BooksInv /\ TransitInv /\ CallbackInv /\ OrderInv /\ LedgerAgrees

LEMMA LaneType ==
  ASSUME TypeOK, NEW d \in Destinations
  PROVE  /\ d[1] \in Streams /\ d[2] \in Lanes /\ d = <<d[1], d[2]>>
         /\ Lane(d) \in Lane0
  BY DEF TypeOK, States, ProgressTable, Destinations, Lane

(* Steps that leave the lanes alone.                                        *)
SameLanes ==
    /\ UNCHANGED <<lt, transit, callbacks>>
    /\ v'.nonce = v.nonce
    /\ \A d \in Destinations : Lane(d)' = Lane(d)

LEMMA LanesKept ==
  ASSUME IInv, SameLanes PROVE TransitInv' /\ CallbackInv' /\ OrderInv'
  <1>1. /\ \A m \in transit : m.to \in Destinations
        /\ \A c \in callbacks : c.source \in Destinations
    BY DEF IInv, TypeOK, Messages, CallbackRecords
  <1>2. TransitInv'
    BY <1>1 DEF IInv, TransitInv, SameLanes
  <1>3. CallbackInv'
    <2>1. \A c \in callbacks : Outstanding(c)' = Outstanding(c) /\ Genuine(c)' = Genuine(c)
      BY <1>1 DEF Outstanding, Genuine, SameLanes
    <2> QED BY <1>1, <2>1 DEF IInv, CallbackInv, SameLanes
  <1>4. OrderInv'
    BY DEF IInv, OrderInv, SameLanes
  <1> QED BY <1>2, <1>3, <1>4

LEMMA LedgerKept ==
  ASSUME IInv, SameLanes, bal' = held(v'),
         \A d \in Destinations : /\ v'.progress[d[1]].paid = v.progress[d[1]].paid
                                 /\ rcv'[d].received = rcv[d].received
  PROVE  LedgerAgrees'
  <1>1. \A c \in callbacks : c.source \in Destinations
    BY DEF IInv, TypeOK, CallbackRecords
  <1>2. \A d \in Destinations : Landed(d)' = Landed(d)
    BY <1>1 DEF Landed, Outstanding, SameLanes
  <1> QED BY <1>2 DEF IInv, LedgerAgrees, SameLanes

LEMMA SameProgressSameLanes ==
  ASSUME UNCHANGED <<lt, transit, callbacks>>, v'.nonce = v.nonce, v'.progress = v.progress
  PROVE  SameLanes
  BY DEF SameLanes, Lane

(* Every message the vault accepts first moves its clock.                   *)
LEMMA Clock ==
  ASSUME IInv, NEW t \in Times
  PROVE  LET s == Observed(v, t) IN
         /\ s \in States /\ validate(s) /\ held(s) = held(v)
         /\ s.progress = v.progress /\ s.nonce = v.nonce /\ s.funded = v.funded
         /\ s.last_time >= v.last_time
         /\ \A i \in Streams : cap(s, i) >= cap(v, i)
  <1>1. v \in States /\ validate(v) /\ t \in Nat
    BY ActorAssumption DEF IInv, TypeOK, BooksInv
  <1>2. /\ Observed(v, t).progress = v.progress /\ Observed(v, t).nonce = v.nonce
        /\ Observed(v, t).funded = v.funded
    BY <1>1 DEF Observed, States
  <1> QED BY <1>1, <1>2, ObservedValid

LEMMA InitInvariant == Init => IInv
  <1> SUFFICES ASSUME Init PROVE IInv
    OBVIOUS
  <1>1. v \in States /\ validate(v) /\ held(v) = 0 /\ v = NewState(0)
    BY NewStateValid DEF Init
  <1>2. \A d \in Destinations : Lane(d) = NewLane /\ v.progress[d[1]].paid[d[2]] = 0
    BY <1>1 DEF Destinations, Lane, NewState, NewProgress
  <1>3. v.nonce = 0
    BY <1>1 DEF NewState
  <1>4. TypeOK
    <2>1. NewReceiver \in Receivers
      BY DEF NewReceiver, Receivers
    <2>2. rcv \in [Destinations -> Receivers]
      BY <2>1 DEF Init
    <2>3. transit \in SUBSET Messages /\ callbacks \in SUBSET CallbackRecords
      BY DEF Init
    <2>4. lt \in Nat /\ bal \in Int /\ shell \in Nat
      BY DEF Init
    <2>5. deployed \in BOOLEAN
      BY DEF Init
    <2> QED BY <1>1, <2>2, <2>3, <2>4, <2>5 DEF TypeOK
  <1>5. BooksInv /\ TransitInv /\ CallbackInv
    BY <1>1 DEF Init, BooksInv, TransitInv, CallbackInv
  <1>6. OrderInv
    BY <1>2, <1>3 DEF Init, OrderInv, NewLane
  <1>7. LedgerAgrees
    BY <1>1, <1>2 DEF Init, LedgerAgrees, Landed, NewReceiver
  <1> QED BY <1>4, <1>5, <1>6, <1>7 DEF IInv

(* Before init nothing has been sent, so every lane is new.                 *)
LEMMA InitializeStep ==
  ASSUME IInv, NEW actor, NEW t \in Times, Initialize(actor, t)
  PROVE  IInv'
  <1>1. t \in Nat /\ v = NewState(0) /\ v' = NewState(t)
    BY ActorAssumption DEF Initialize, finish, IInv, BooksInv
  <1>2. v' \in States /\ validate(v') /\ held(v') = 0 /\ held(v) = 0
    BY <1>1, NewStateValid
  <1>3. v'.nonce = v.nonce /\ v'.progress = v.progress
    BY <1>1 DEF NewState
  <1>4. SameLanes
    BY <1>3, SameProgressSameLanes DEF Initialize
  <1>5. LedgerAgrees'
    BY <1>2, <1>3, <1>4, LedgerKept DEF Initialize, IInv, LedgerAgrees
  <1>6. TypeOK' /\ BooksInv'
    BY <1>2 DEF Initialize, IInv, TypeOK, BooksInv
  <1> QED BY <1>4, <1>5, <1>6, LanesKept DEF IInv

LEMMA QuietStep ==
  ASSUME IInv, NEW t \in Times, deployed, deployed' = deployed, v' = Observed(v, t),
         bal' = bal, shell' \in Nat, UNCHANGED <<lt, transit, callbacks, rcv>>
  PROVE  IInv'
  <1>1. /\ v' \in States /\ validate(v') /\ held(v') = held(v)
        /\ v'.nonce = v.nonce /\ v'.progress = v.progress
    BY Clock
  <1>2. SameLanes
    BY <1>1, SameProgressSameLanes
  <1>3. LedgerAgrees'
    BY <1>1, <1>2, LedgerKept DEF IInv, LedgerAgrees
  <1>4. TypeOK' /\ BooksInv'
    BY <1>1 DEF IInv, TypeOK, BooksInv
  <1> QED BY <1>2, <1>3, <1>4, LanesKept DEF IInv

LEMMA StatusStep ==
  ASSUME IInv, NEW t \in Times, Status(t) PROVE IInv'
  BY QuietStep DEF Status, Decoded, finish, IInv, TypeOK

LEMMA TopUpStep ==
  ASSUME IInv, NEW t \in Times, NEW amount \in 1..MaxShell, TopUp(amount, t) PROVE IInv'
  <1>1. shell' \in Nat
    BY ActorAssumption DEF TopUp, IInv, TypeOK
  <1> QED BY <1>1, QuietStep DEF TopUp, Decoded, finish

LEMMA FundStep ==
  ASSUME IInv, NEW actor, NEW t \in Times, Fund(actor, t) PROVE IInv'
  <1> DEFINE s == Observed(v, t)
  <1>1. /\ s \in States /\ validate(s) /\ held(s) = held(v)
        /\ s.progress = v.progress /\ s.nonce = v.nonce /\ s.funded = v.funded
    BY Clock
  <1>2. ~s.funded /\ v' = WithFunding(s) /\ bal' = bal + Total /\ deployed
    BY DEF Fund, CanFund, Decoded, finish
  <1>3. v' \in States /\ validate(v') /\ held(v') = Total
    BY <1>1, <1>2, FundingValid
  <1>4. v'.nonce = v.nonce /\ v'.progress = v.progress
    BY <1>1, <1>2 DEF WithFunding, States
  <1> HIDE DEF s
  <1>5. SameLanes
    BY <1>4, SameProgressSameLanes DEF Fund
  <1>6. bal = 0 /\ Total \in Int
    BY <1>1, <1>2, SumInt, ConfigAssumption DEF IInv, LedgerAgrees, held, Total, Schedules
  <1>7. bal' = held(v')
    BY <1>2, <1>3, <1>6
  <1>8. LedgerAgrees'
    BY <1>4, <1>5, <1>7, LedgerKept DEF Fund
  <1>9. TypeOK' /\ BooksInv'
    BY <1>2, <1>3, <1>6 DEF Fund, IInv, TypeOK, BooksInv
  <1> QED BY <1>5, <1>8, <1>9, LanesKept DEF IInv

LEMMA CancelStep ==
  ASSUME IInv, NEW actor, NEW i \in Streams, NEW t \in Times, Cancel(actor, i, t) PROVE IInv'
  <1> DEFINE s == Observed(v, t)
  <1>1. /\ s \in States /\ validate(s) /\ held(s) = held(v)
        /\ s.progress = v.progress /\ s.nonce = v.nonce /\ s.funded = v.funded
    BY Clock
  <1>2. CanCancel(s, actor, i) /\ v' = WithCancel(s, i) /\ bal' = bal /\ deployed
    BY DEF Cancel, Decoded, finish
  <1> HIDE DEF s
  <1>3. /\ v' \in States /\ validate(v') /\ held(v') = held(s) /\ v'.nonce = v.nonce
        /\ \A j \in Streams : /\ v'.progress[j].lanes = v.progress[j].lanes
                              /\ v'.progress[j].paid = v.progress[j].paid
    BY <1>1, <1>2, CancelValid DEF CanCancel
  <1>4. SameLanes
    BY <1>3 DEF SameLanes, Lane, Destinations, Cancel
  <1>5. LedgerAgrees'
    BY <1>1, <1>2, <1>3, <1>4, LedgerKept DEF Cancel, IInv, LedgerAgrees, Destinations
  <1>6. TypeOK' /\ BooksInv'
    BY <1>2, <1>3 DEF Cancel, IInv, TypeOK, BooksInv
  <1> QED BY <1>4, <1>5, <1>6, LanesKept DEF IInv

(* The latest accepted callback was created by the runtime.                 *)
LEMMA LastNotFuture ==
  ASSUME IInv, NEW d \in Destinations PROVE Lane(d).last_lt <= lt
  BY DEF IInv, OrderInv

(* What a dispatch does: it opens an attempt for all that is due on one idle*)
(* lane.                                                                   *)
OpensAttempt(s, i, k, block_lt) ==
    LET x == <<i, k>>
        amount == due(s, i, k)
    IN /\ amount \in Nat \ {0} /\ v' \in States /\ validate(v')
       /\ held(v') = held(s) - amount
       /\ v'.last_time = s.last_time /\ v'.funded /\ v'.nonce = s.nonce + 1
       /\ LaneReplaced(v', s, i, k, Attempt(s, i, k, block_lt))
       /\ v'.progress[i].paid = s.progress[i].paid
       /\ Lane(x).pending = 0
       /\ \A d \in Destinations \ {x} : Lane(d)' = Lane(d)
       /\ Lane(x)'.pending = amount /\ Lane(x)'.nonce = v.nonce + 1
       /\ Lane(x)'.after_lt <= lt
       /\ Lane(x)'.last_lt = Lane(x).last_lt /\ Lane(x)'.last_hash = Lane(x).last_hash
       /\ ~Landed(x)' /\ ~Landed(x)
       /\ \A d \in Destinations \ {x} : Landed(d)' = Landed(d)

LEMMA DispatchEffect ==
  ASSUME IInv, NEW actor, NEW i \in Streams, NEW k \in Lanes, NEW t \in Times,
         NEW block_lt \in 0..lt, Dispatch(actor, i, k, t, block_lt)
  PROVE  OpensAttempt(Observed(v, t), i, k, block_lt)
  <1> DEFINE s == Observed(v, t)
             amount == due(s, i, k)
             x == <<i, k>>
  <1>1. /\ s \in States /\ validate(s) /\ held(s) = held(v)
        /\ s.progress = v.progress /\ s.nonce = v.nonce /\ s.funded = v.funded
    BY Clock
  <1>2. /\ CanDispatch(s, actor, i, k) /\ v' = WithDispatch(s, i, k, block_lt)
        /\ bal' = bal - amount /\ deployed /\ deployed' = deployed
        /\ UNCHANGED <<lt, callbacks, rcv>>
    BY DEF Dispatch, Decoded, finish
  <1>4. /\ block_lt \in Nat /\ lt \in Nat /\ x \in Destinations /\ x[1] = i /\ x[2] = k
        /\ v \in States /\ v.nonce \in Nat /\ v.nonce + 1 \in Nat
    BY WidthAssumption DEF IInv, TypeOK, Destinations, States
  <1>5. /\ amount \in Nat \ {0} /\ v' \in States /\ validate(v')
        /\ held(v') = held(s) - amount /\ v'.nonce = s.nonce + 1
        /\ v'.last_time = s.last_time /\ v'.funded
        /\ LaneReplaced(v', s, i, k, Attempt(s, i, k, block_lt))
        /\ v'.progress[i].paid = s.progress[i].paid
    BY <1>1, <1>2, <1>4, DispatchValid DEF CanDispatch
  <1>6. Lane(x).pending = 0
    BY <1>1, <1>2 DEF CanDispatch, Lane
  <1>7. \A d \in Destinations \ {x} : Lane(d)' = Lane(d)
    <2>1. \A d \in Destinations : d = <<d[1], d[2]>> /\ d[1] \in Streams /\ d[2] \in Lanes
      BY DEF Destinations
    <2>2. v.progress[i].lanes \in [Lanes -> Lane0]
      BY <1>4 DEF States, ProgressTable
    <2> QED BY <1>1, <1>5, <2>1, <2>2 DEF LaneReplaced, Lane
  <1>8. /\ Lane(x)'.pending = amount /\ Lane(x)'.nonce = v.nonce + 1
        /\ Lane(x)'.after_lt <= lt /\ Lane(x)'.after_lt >= Lane(x).last_lt
        /\ Lane(x)'.last_lt = Lane(x).last_lt /\ Lane(x)'.last_hash = Lane(x).last_hash
        /\ Lane(x)'.after_lt >= block_lt
    <2>1. v.progress[i].lanes \in [Lanes -> Lane0] /\ Lane(x) \in Lane0
      BY <1>4, LaneType DEF States, ProgressTable, IInv
    <2>2. v'.progress[i].lanes[k] = Attempt(s, i, k, block_lt)
      BY <1>1, <1>5, <2>1 DEF LaneReplaced
    <2>3. Lane(x)' = v'.progress[i].lanes[k] /\ Lane(x) = s.progress[i].lanes[k]
      BY <1>1 DEF Lane
    <2> DEFINE l == Lane(x)
               boundary == IF block_lt > l.last_lt THEN block_lt ELSE l.last_lt
    <2>4. Lane(x)' = [l EXCEPT !.pending = amount, !.nonce = s.nonce + 1, !.after_lt = boundary]
      BY <2>2, <2>3 DEF Attempt
    <2>5. boundary <= lt /\ boundary >= l.last_lt /\ boundary >= block_lt /\ l.last_lt \in Nat
      BY <1>4, <1>6, <2>1, LastNotFuture DEF Lane0
    <2> HIDE DEF boundary, l, s, amount
    <2> QED BY <1>1, <2>1, <2>4, <2>5 DEF Lane0, l
  <1> HIDE DEF s, amount, x
  <1>9. ~Landed(x)' /\ ~Landed(x) /\ \A d \in Destinations \ {x} : Landed(d)' = Landed(d)
    <2>1. \A c \in callbacks : c.hash \in 1..v.nonce
      BY DEF IInv, CallbackInv
    <2>2. ~Landed(x)'
      BY <1>2, <1>4, <1>8, <2>1 DEF Landed, Outstanding
    <2>3. ~Landed(x)
      BY <1>6 DEF Landed, Outstanding
    <2>4. \A d \in Destinations \ {x} : Landed(d)' = Landed(d)
      BY <1>2, <1>7 DEF Landed, Outstanding
    <2> QED BY <2>2, <2>3, <2>4
  <1> QED BY <1>5, <1>6, <1>7, <1>8, <1>9 DEF OpensAttempt, s, amount, x

(* A dispatch opens a new attempt on one idle lane: no callback there is    *)
(* later than the lane's latest, and the nonce is new.                     *)
LEMMA DispatchStep ==
  ASSUME IInv, NEW actor, NEW i \in Streams, NEW k \in Lanes, NEW t \in Times,
         NEW block_lt \in 0..lt, Dispatch(actor, i, k, t, block_lt)
  PROVE  IInv'
  <1> DEFINE s == Observed(v, t)
             amount == due(s, i, k)
             x == <<i, k>>
             m(reserve) == [to |-> x, body |-> payment_body(i, k, s.nonce + 1, amount),
                            principal |-> amount, reserve |-> reserve]
  <1>1. /\ s \in States /\ validate(s) /\ held(s) = held(v)
        /\ s.progress = v.progress /\ s.nonce = v.nonce /\ s.funded = v.funded
    BY Clock
  <1>2. /\ CanDispatch(s, actor, i, k) /\ v' = WithDispatch(s, i, k, block_lt)
        /\ bal' = bal - amount /\ deployed /\ deployed' = deployed
        /\ UNCHANGED <<lt, callbacks, rcv>>
    BY DEF Dispatch, Decoded, finish
  <1>3. PICK reserve \in {0, Fuel} :
          shell' = shell - reserve /\ transit' = transit \cup {m(reserve)}
    BY DEF Dispatch
  <1>4. /\ block_lt \in Nat /\ lt \in Nat /\ x \in Destinations /\ x[1] = i /\ x[2] = k
        /\ v \in States /\ v.nonce \in Nat /\ v.nonce + 1 \in Nat
    BY WidthAssumption DEF IInv, TypeOK, Destinations, States
  <1> HIDE DEF s
  <1>5. OpensAttempt(s, i, k, block_lt)
    BY DispatchEffect DEF s
  <1>6. /\ amount \in Nat \ {0} /\ v' \in States /\ validate(v')
        /\ held(v') = held(s) - amount /\ v'.nonce = s.nonce + 1
        /\ v'.progress[i].paid = s.progress[i].paid /\ Lane(x).pending = 0
        /\ \A j \in Streams \ {i} : v'.progress[j] = s.progress[j]
    BY <1>5 DEF OpensAttempt, LaneReplaced
  <1>7. \A d \in Destinations \ {x} : Lane(d)' = Lane(d)
    BY <1>5 DEF OpensAttempt
  <1>8. /\ Lane(x)'.pending = amount /\ Lane(x)'.nonce = v.nonce + 1
        /\ Lane(x)'.after_lt <= lt
        /\ Lane(x)'.last_lt = Lane(x).last_lt /\ Lane(x)'.last_hash = Lane(x).last_hash
    BY <1>5 DEF OpensAttempt
  <1>9. ~Landed(x)' /\ ~Landed(x) /\ \A d \in Destinations \ {x} : Landed(d)' = Landed(d)
    BY <1>5 DEF OpensAttempt
  <1> HIDE DEF amount, x
  <1>10. TypeOK'
    <2>1. shell' \in Nat /\ reserve \in Nat
      BY <1>2, <1>3, ConfigAssumption DEF CanDispatch, IInv, TypeOK
    <2>2. m(reserve) \in Messages
      BY <1>1, <1>4, <1>6, <2>1 DEF Messages, payment_body, Bodies
    <2>3. bal' \in Int
      BY <1>2, <1>6 DEF IInv, TypeOK
    <2> HIDE DEF m
    <2> QED BY <1>2, <1>3, <1>6, <2>1, <2>2, <2>3 DEF IInv, TypeOK
  <1>11. BooksInv'
    BY <1>2, <1>6 DEF BooksInv
  <1>12. TransitInv'
    <2>1. ASSUME NEW n \in transit
          PROVE  n.to \in Destinations \ {x}
      BY <1>6 DEF IInv, TransitInv, TypeOK, Messages
    <2>2. ASSUME NEW n \in transit
          PROVE  /\ Lane(n.to)'.pending # 0
                 /\ n.body = payment_body(n.to[1], n.to[2], Lane(n.to)'.nonce, Lane(n.to)'.pending)
                 /\ n.principal = Lane(n.to)'.pending
                 /\ \A o \in transit' : o.to = n.to => o = n
                 /\ \A c \in callbacks' : c.source = n.to => c.hash # Lane(n.to)'.nonce
      BY <1>2, <1>3, <1>7, <2>1 DEF IInv, TransitInv
    <2>3. /\ Lane(x)'.pending # 0
          /\ m(reserve).body = payment_body(x[1], x[2], Lane(x)'.nonce, Lane(x)'.pending)
          /\ m(reserve).principal = Lane(x)'.pending
          /\ \A o \in transit' : o.to = x => o = m(reserve)
          /\ \A c \in callbacks' : c.hash # Lane(x)'.nonce
      <3>1. \A c \in callbacks : c.hash \in 1..v.nonce
        BY DEF IInv, CallbackInv
      <3> QED BY <1>1, <1>2, <1>3, <1>4, <1>6, <1>8, <2>1, <3>1
    <2>4. m(reserve).to = x
      OBVIOUS
    <2> HIDE DEF m
    <2> QED BY <1>3, <2>2, <2>3, <2>4 DEF TransitInv
  <1>13. CallbackInv'
    <2> SUFFICES ASSUME NEW c \in callbacks
                 PROVE  /\ c.hash \in 1..v'.nonce
                        /\ Outstanding(c)' => c.lt > Lane(c.source)'.after_lt /\ Genuine(c)'
                        /\ ~Outstanding(c)' => c.lt <= Lane(c.source)'.last_lt
      BY <1>2 DEF IInv, CallbackInv
    <2>1. c.source \in Destinations /\ c.hash \in 1..v.nonce
      BY DEF IInv, TypeOK, CallbackRecords, CallbackInv
    <2>2. CASE c.source # x
      BY <1>1, <1>4, <1>6, <1>7, <2>1, <2>2 DEF IInv, CallbackInv, Outstanding, Genuine
    <2>3. CASE c.source = x
      <3>1. ~Outstanding(c)' /\ ~Outstanding(c)
        BY <1>4, <1>6, <1>8, <2>1, <2>3 DEF Outstanding
      <3> QED BY <1>1, <1>4, <1>6, <1>8, <2>1, <2>3, <3>1 DEF IInv, CallbackInv
    <2> QED BY <2>2, <2>3
  <1>14. OrderInv'
    <2>1. Lane(x)'.last_hash < Lane(x)'.nonce /\ Lane(x)'.last_hash <= v'.nonce
      <3>1. Lane(x).last_hash \in Nat /\ Lane(x).last_hash <= v.nonce
        BY <1>4, LaneType DEF IInv, OrderInv, Lane0
      <3> QED BY <1>1, <1>4, <1>6, <1>8, <3>1
    <2>2. \A d \in Destinations : Lane(d).last_hash \in Nat
      BY LaneType DEF IInv, Lane0
    <2> QED BY <1>1, <1>2, <1>4, <1>6, <1>7, <1>8, <2>1, <2>2 DEF IInv, OrderInv
  <1>15. LedgerAgrees'
    <2>1. \A d \in Destinations : v'.progress[d[1]].paid = v.progress[d[1]].paid
      BY <1>1, <1>6 DEF Destinations
    <2>2. bal' = held(v')
      BY <1>1, <1>2, <1>6 DEF IInv, LedgerAgrees
    <2> QED BY <1>2, <1>4, <1>7, <1>9, <2>1, <2>2 DEF IInv, LedgerAgrees
  <1> QED BY <1>10, <1>11, <1>12, <1>13, <1>14, <1>15 DEF IInv

(* What an accepted callback does: it is the one that answers its lane's    *)
(* attempt, and it closes that attempt.                                    *)
AcceptedEffect(c, s) ==
    LET x == c.source
        i == c.source[1]
        k == c.source[2]
        pending == Lane(c.source).pending
    IN /\ Outstanding(c) /\ Genuine(c)
       /\ s.progress[i].lanes[k] = Lane(x) /\ pending \in Nat \ {0}
       /\ c.lt > Lane(x).last_lt
       /\ v' \in States /\ validate(v')
       /\ held(v') = held(s) + (IF c.ok THEN 0 ELSE pending)
       /\ v'.last_time = s.last_time /\ v'.funded = s.funded /\ v'.nonce = s.nonce
       /\ LaneReplaced(v', s, i, k, Closed(c))
       /\ v'.progress[i].paid[k] = s.progress[i].paid[k] + (IF c.ok THEN pending ELSE 0)
       /\ \A l \in Lanes \ {k} : v'.progress[i].paid[l] = s.progress[i].paid[l]
       /\ \A j \in Streams \ {i} : v'.progress[j].paid = s.progress[j].paid
       /\ \A j \in Streams : cap(v', j) = cap(s, j)

LEMMA CallbackEffect ==
  ASSUME IInv, NEW c \in callbacks, NEW t \in Times, Callback(c, t)
  PROVE  AcceptedEffect(c, Observed(v, t))
  <1> DEFINE s == Observed(v, t)
             x == c.source
             i == c.source[1]
             k == c.source[2]
             pending == s.progress[i].lanes[k].pending
  <1>1. /\ s \in States /\ validate(s) /\ held(s) = held(v)
        /\ s.progress = v.progress /\ s.nonce = v.nonce /\ s.funded = v.funded
    BY Clock
  <1>2. /\ CanCallback(s, c) /\ v' = AfterCallback(s, i, k, c)
        /\ bal' = bal + c.principal /\ shell' = shell + c.shell
        /\ deployed /\ deployed' = deployed /\ UNCHANGED <<lt, transit, callbacks, rcv>>
    BY DEF Callback, Decoded, finish
  <1>3. /\ c \in CallbackRecords /\ x \in Destinations /\ lt \in Nat /\ v.nonce \in Nat
        /\ v \in States /\ c.lt \in 1..lt /\ c.hash \in 1..v.nonce
        /\ c.ok \in BOOLEAN /\ c.principal \in Nat /\ c.shell \in Nat
    BY DEF IInv, TypeOK, CallbackInv, CallbackRecords, States
  <1>4. i \in Streams /\ k \in Lanes /\ x = <<i, k>> /\ Lane(x) \in Lane0
    BY <1>3, LaneType DEF IInv
  <1>5. /\ s.progress[i].lanes[k] = Lane(x) /\ pending = Lane(x).pending
        /\ pending \in Nat \ {0} /\ c.lt > Lane(x).last_lt
    BY <1>1, <1>2, <1>4 DEF CanCallback, Fresh, Lane, Lane0
  (* A fresh callback is the pending attempt's: any other is not later.     *)
  <1>6. Outstanding(c) /\ Genuine(c)
    BY <1>3, <1>4, <1>5 DEF IInv, CallbackInv, Lane0
  <1>7. /\ v' \in States /\ validate(v')
        /\ held(v') = held(s) + (IF c.ok THEN 0 ELSE pending)
        /\ v'.last_time = s.last_time /\ v'.funded = s.funded /\ v'.nonce = s.nonce
        /\ LaneReplaced(v', s, i, k, Closed(c))
        /\ v'.progress[i].paid = [s.progress[i].paid EXCEPT ![k] =
                                    @ + IF c.ok THEN pending ELSE 0]
        /\ \A j \in Streams : cap(v', j) = cap(s, j)
    <2>1. c.lt \in Nat \ {0} /\ c.hash \in Nat \ {0}
      BY <1>3
    <2>2. c.ok \in BOOLEAN /\ s.progress[i].lanes[k].pending # 0 /\ i \in Streams /\ k \in Lanes
      BY <1>3, <1>4, <1>5
    <2>3. s \in States /\ validate(s) /\ v' = AfterCallback(s, i, k, c)
      BY <1>1, <1>2
    <2>4. ClosesAttempt(v', s, i, k, c)
      <3> HIDE DEF s, i, k
      <3> QED BY <2>1, <2>2, <2>3, CallbackValid
    <2> HIDE DEF s, i, k
    <2> QED BY <2>4 DEF ClosesAttempt
  <1>8. s.progress[i].paid \in [Lanes -> Nat]
    BY <1>1, <1>3, <1>4 DEF States, ProgressTable
  <1>9. /\ v'.progress[i].paid[k] = s.progress[i].paid[k] + (IF c.ok THEN pending ELSE 0)
        /\ \A l \in Lanes \ {k} : v'.progress[i].paid[l] = s.progress[i].paid[l]
        /\ \A j \in Streams \ {i} : v'.progress[j].paid = s.progress[j].paid
    BY <1>4, <1>7, <1>8 DEF LaneReplaced
  <1>10. pending = Lane(c.source).pending
    BY <1>5
  <1> HIDE DEF s, pending, i, k
  <1>11. /\ held(v') = held(s) + (IF c.ok THEN 0 ELSE Lane(c.source).pending)
         /\ v'.progress[i].paid[k]
              = s.progress[i].paid[k] + (IF c.ok THEN Lane(c.source).pending ELSE 0)
    BY <1>7, <1>9, <1>10
  <1>12. s.progress[i].lanes[k] = Lane(c.source) /\ Lane(c.source).pending \in Nat \ {0}
    BY <1>5
  <1>13. /\ v' \in States /\ validate(v')
         /\ v'.last_time = s.last_time /\ v'.funded = s.funded /\ v'.nonce = s.nonce
         /\ LaneReplaced(v', s, i, k, Closed(c)) /\ \A j \in Streams : cap(v', j) = cap(s, j)
         /\ c.lt > Lane(c.source).last_lt
    BY <1>5, <1>7
  <1>14. /\ \A l \in Lanes \ {k} : v'.progress[i].paid[l] = s.progress[i].paid[l]
         /\ \A j \in Streams \ {i} : v'.progress[j].paid = s.progress[j].paid
    BY <1>9
  <1> QED BY <1>6, <1>11, <1>12, <1>13, <1>14 DEF AcceptedEffect, s, i, k

LEMMA CallbackStep ==
  ASSUME IInv, NEW c \in callbacks, NEW t \in Times, Callback(c, t) PROVE IInv'
  <1> DEFINE s == Observed(v, t)
             x == c.source
             i == c.source[1]
             k == c.source[2]
             pending == Lane(x).pending
             gain == IF c.ok THEN pending ELSE 0
  <1>1. /\ s \in States /\ validate(s) /\ held(s) = held(v)
        /\ s.progress = v.progress /\ s.nonce = v.nonce /\ s.funded = v.funded
    BY Clock
  <1>2. /\ CanCallback(s, c) /\ v' = AfterCallback(s, i, k, c)
        /\ bal' = bal + c.principal /\ shell' = shell + c.shell
        /\ deployed /\ deployed' = deployed /\ UNCHANGED <<lt, transit, callbacks, rcv>>
    BY DEF Callback, Decoded, finish
  <1>3. /\ c \in CallbackRecords /\ x \in Destinations /\ lt \in Nat /\ v.nonce \in Nat
        /\ v \in States /\ c.lt \in 1..lt /\ c.hash \in 1..v.nonce
        /\ c.ok \in BOOLEAN /\ c.principal \in Nat /\ c.shell \in Nat
    BY DEF IInv, TypeOK, CallbackInv, CallbackRecords, States
  <1>4. i \in Streams /\ k \in Lanes /\ x = <<i, k>> /\ Lane(x) \in Lane0
    BY <1>3, LaneType DEF IInv
  <1>5. AcceptedEffect(c, s)
    BY CallbackEffect
  <1>6. Outstanding(c) /\ Genuine(c) /\ pending \in Nat \ {0} /\ c.lt > Lane(x).last_lt
    BY <1>5 DEF AcceptedEffect
  <1>7. c.principal = (IF c.ok THEN 0 ELSE pending)
    BY <1>6 DEF Genuine
  <1>8. /\ v' \in States /\ validate(v')
        /\ held(v') = held(s) + (IF c.ok THEN 0 ELSE pending) /\ v'.nonce = s.nonce
        /\ LaneReplaced(v', s, i, k, Closed(c))
        /\ v'.progress[i].paid[k] = s.progress[i].paid[k] + gain
        /\ \A l \in Lanes \ {k} : v'.progress[i].paid[l] = s.progress[i].paid[l]
        /\ \A j \in Streams \ {i} : v'.progress[j].paid = s.progress[j].paid
    BY <1>5 DEF AcceptedEffect
  <1>9. \A d \in Destinations \ {x} :
          Lane(d)' = Lane(d) /\ v'.progress[d[1]].paid[d[2]] = v.progress[d[1]].paid[d[2]]
    <2>1. \A d \in Destinations : d = <<d[1], d[2]>> /\ d[1] \in Streams /\ d[2] \in Lanes
      BY DEF Destinations
    <2>2. v.progress[i].lanes \in [Lanes -> Lane0] /\ v.progress[i].paid \in [Lanes -> Nat]
      BY <1>3, <1>4 DEF States, ProgressTable
    <2>3. /\ v'.progress[i].lanes = [v.progress[i].lanes EXCEPT ![k] = Closed(c)]
          /\ \A j \in Streams \ {i} : v'.progress[j] = v.progress[j]
          /\ \A l \in Lanes \ {k} : v'.progress[i].paid[l] = v.progress[i].paid[l]
      BY <1>1, <1>8 DEF LaneReplaced
    <2>4. ASSUME NEW d \in Destinations \ {x}
          PROVE  v'.progress[d[1]].lanes[d[2]] = v.progress[d[1]].lanes[d[2]]
      <3>1. CASE d[1] = i
        <4>1. d[2] \in Lanes \ {k}
          BY <1>4, <2>1, <3>1
        <4> HIDE DEF x, i, k
        <4> QED BY <2>2, <2>3, <3>1, <4>1
      <3>2. CASE d[1] # i
        BY <2>1, <2>3, <3>2
      <3> QED BY <3>1, <3>2
    <2>5. ASSUME NEW d \in Destinations \ {x}
          PROVE  v'.progress[d[1]].paid[d[2]] = v.progress[d[1]].paid[d[2]]
      <3>1. CASE d[1] = i
        <4>1. d[2] \in Lanes \ {k}
          BY <1>4, <2>1, <3>1
        <4> HIDE DEF x, i, k
        <4> QED BY <2>3, <3>1, <4>1
      <3>2. CASE d[1] # i
        BY <2>1, <2>3, <3>2
      <3> QED BY <3>1, <3>2
    <2> QED BY <2>4, <2>5 DEF Lane
  <1>10. /\ Lane(x)' = Closed(c)
         /\ v'.progress[i].paid[k] = v.progress[i].paid[k] + gain
         /\ v'.progress[i].paid[k] \in Nat
    <2>1. gain \in Nat
      BY <1>6
    <2>2. v.progress[i].lanes \in [Lanes -> Lane0] /\ v.progress[i].paid \in [Lanes -> Nat]
      BY <1>3, <1>4 DEF States, ProgressTable
    <2>3. v'.progress[i].paid[k] = v.progress[i].paid[k] + gain
      BY <1>1, <1>4, <1>8, <2>2
    <2>4. Lane(x)' = Closed(c)
      BY <1>1, <1>4, <1>8, <2>2 DEF LaneReplaced, Lane
    <2> QED BY <1>4, <2>1, <2>2, <2>3, <2>4
  <1>11. /\ Lane(x)'.pending = 0 /\ Lane(x)'.nonce = 0 /\ Lane(x)'.after_lt = 0
         /\ Lane(x)'.last_lt = c.lt /\ Lane(x)'.last_hash = c.hash
    BY <1>10 DEF Closed, NewLane
  <1> HIDE DEF s, x, i, k, pending, gain
  <1>12. TypeOK'
    <2>1. bal' \in Int /\ shell' \in Nat
      BY <1>2, <1>3 DEF IInv, TypeOK
    <2> QED BY <1>2, <1>8, <2>1 DEF IInv, TypeOK
  <1>13. BooksInv'
    BY <1>2, <1>8 DEF BooksInv
  <1>14. TransitInv'
    <2>1. \A m \in transit : m.to \in Destinations /\ m.to # x
      BY <1>6 DEF IInv, TransitInv, TypeOK, Messages, Outstanding, x
    <2> QED BY <1>2, <1>9, <2>1 DEF IInv, TransitInv
  <1>15. CallbackInv'
    <2> SUFFICES ASSUME NEW n \in callbacks
                 PROVE  /\ n.hash \in 1..v'.nonce
                        /\ Outstanding(n)' => n.lt > Lane(n.source)'.after_lt /\ Genuine(n)'
                        /\ ~Outstanding(n)' => n.lt <= Lane(n.source)'.last_lt
      BY <1>2 DEF IInv, CallbackInv
    <2>1. n.source \in Destinations /\ n.hash \in 1..v.nonce /\ n.lt \in Nat
      BY DEF IInv, TypeOK, CallbackRecords, CallbackInv
    <2>2. CASE n.source # x
      BY <1>1, <1>8, <1>9, <2>1, <2>2 DEF IInv, CallbackInv, Outstanding, Genuine
    <2>3. CASE n.source = x
      <3>1. ~Outstanding(n)'
        BY <1>11, <2>3 DEF Outstanding
      <3>2. CASE Outstanding(n)
        <4>1. n = c
          BY <1>6, <2>3, <3>2 DEF IInv, CallbackInv, Outstanding, x
        <4> QED BY <1>1, <1>3, <1>8, <1>11, <2>1, <2>3, <3>1, <4>1
      <3>3. CASE ~Outstanding(n)
        <4>1. n.lt <= Lane(x).last_lt /\ Lane(x).last_lt \in Nat
          BY <1>4, <2>3, <3>3 DEF IInv, CallbackInv, Lane0
        <4> QED BY <1>1, <1>3, <1>6, <1>8, <1>11, <2>1, <2>3, <3>1, <4>1
      <3> QED BY <3>2, <3>3
    <2> QED BY <2>2, <2>3
  <1>16. OrderInv'
    <2>1. \A d \in Destinations \ {x} :
            /\ Lane(d)'.after_lt <= lt /\ Lane(d)'.last_lt <= lt
            /\ Lane(d)'.last_hash <= v.nonce
            /\ Lane(d)'.pending # 0 => Lane(d)'.last_hash < Lane(d)'.nonce
      BY <1>9 DEF IInv, OrderInv
    <2>2. /\ Lane(x)'.after_lt <= lt /\ Lane(x)'.last_lt <= lt
          /\ Lane(x)'.last_hash <= v.nonce /\ Lane(x)'.pending = 0
      BY <1>3, <1>11
    <2> QED BY <1>1, <1>2, <1>8, <2>1, <2>2 DEF OrderInv
  <1>17. LedgerAgrees'
    <2>1. bal' = held(v')
      BY <1>1, <1>2, <1>7, <1>8 DEF IInv, LedgerAgrees
    <2>2. \A d \in Destinations \ {x} : Landed(d)' = Landed(d)
      BY <1>2, <1>9 DEF Landed, Outstanding
    <2>3. ~Landed(x)'
      BY <1>11 DEF Landed, Outstanding
    <2>4. Landed(x) <=> c.ok
      BY <1>6 DEF Landed, Outstanding, x, IInv, CallbackInv
    <2>5. rcv[x].received = v.progress[i].paid[k] + IF Landed(x) THEN pending ELSE 0
      BY <1>3, <1>4 DEF IInv, LedgerAgrees, pending, i, k, x
    <2>6. rcv'[x].received = v'.progress[i].paid[k]
      BY <1>2, <1>10, <2>4, <2>5 DEF gain
    <2>7. x[1] = i /\ x[2] = k
      BY <1>4
    <2>8. \A d \in Destinations \ {x} :
            rcv'[d].received = v'.progress[d[1]].paid[d[2]]
                                 + IF Landed(d)' THEN Lane(d)'.pending ELSE 0
      BY <1>2, <1>9, <2>2 DEF IInv, LedgerAgrees
    <2>9. rcv'[x].received = v'.progress[x[1]].paid[x[2]]
                               + IF Landed(x)' THEN Lane(x)'.pending ELSE 0
      BY <1>10, <2>3, <2>6, <2>7
    <2> QED BY <2>1, <2>8, <2>9 DEF LedgerAgrees
  <1> QED BY <1>12, <1>13, <1>14, <1>15, <1>16, <1>17 DEF IInv

----------------------------------------------------------------------------
LEMMA ReceiverKept ==
  ASSUME IInv, UNCHANGED <<lt, vault, transit, callbacks>>,
         rcv' \in [Destinations -> Receivers],
         \A d \in Destinations : rcv'[d].received = rcv[d].received
  PROVE  IInv'
  <1>1. SameLanes
    BY SameProgressSameLanes DEF vault
  <1>2. bal' = held(v') /\ BooksInv' /\ TypeOK'
    BY DEF IInv, LedgerAgrees, BooksInv, TypeOK, vault
  <1>3. LedgerAgrees'
    BY <1>1, <1>2, LedgerKept DEF vault
  <1> QED BY <1>1, <1>2, <1>3, LanesKept DEF IInv

LEMMA BindStep ==
  ASSUME IInv, NEW d \in Destinations, NEW source \in Sources, Bind(d, source) PROVE IInv'
  <1>1. source \in {NoAddress, Vault, Other} /\ rcv \in [Destinations -> Receivers]
    BY ActorAssumption DEF IInv, TypeOK
  <1>2. rcv' \in [Destinations -> Receivers]
    BY <1>1 DEF Bind, Receivers
  <1>3. \A e \in Destinations : rcv'[e].received = rcv[e].received
    BY <1>1 DEF Bind, Receivers
  <1> QED BY <1>2, <1>3, ReceiverKept DEF Bind

LEMMA SetRejectStep ==
  ASSUME IInv, NEW d \in Destinations, NEW flag \in Flags, SetReject(d, flag) PROVE IInv'
  <1>1. flag \in BOOLEAN /\ rcv \in [Destinations -> Receivers]
    BY ActorAssumption DEF IInv, TypeOK
  <1>2. rcv' \in [Destinations -> Receivers]
    BY <1>1 DEF SetReject, Receivers
  <1>3. \A e \in Destinations : rcv'[e].received = rcv[e].received
    BY <1>1 DEF SetReject, Receivers
  <1> QED BY <1>2, <1>3, ReceiverKept DEF SetReject

(* A delivery answers the pending attempt of its lane, once, with what the  *)
(* receiver did.                                                           *)
LEMMA DeliverStep ==
  ASSUME IInv, NEW m \in transit, NEW ok \in BOOLEAN, NEW unused \in 0..m.reserve,
         UNCHANGED vault, lt' = lt + 1, transit' = transit \ {m},
         callbacks' = callbacks \cup {CallbackOf(m, ok, unused)},
         rcv' = IF ok THEN [rcv EXCEPT ![m.to] = WithReceived(@, m.body)] ELSE rcv
  PROVE  IInv'
  <1> DEFINE x == m.to
  <1>0. PICK c : c = CallbackOf(m, ok, unused)
    OBVIOUS
  <1>1. /\ m \in Messages /\ x \in Destinations /\ m.body \in Bodies /\ m.reserve \in Nat
        /\ m.principal \in Nat /\ lt \in Nat /\ unused \in Nat
    BY DEF IInv, TypeOK, Messages
  <1>2. /\ x[1] \in Streams /\ x[2] \in Lanes /\ x = <<x[1], x[2]>> /\ Lane(x) \in Lane0
        /\ v' = v /\ bal' = bal /\ \A d : Lane(d)' = Lane(d)
    BY <1>1, LaneType DEF IInv, vault, Lane
  <1>3. /\ Lane(x).pending # 0 /\ m.principal = Lane(x).pending
        /\ m.body = payment_body(x[1], x[2], Lane(x).nonce, Lane(x).pending)
        /\ \A n \in transit : n.to = x => n = m
        /\ \A n \in callbacks : n.source = x => n.hash # Lane(x).nonce
    BY DEF IInv, TransitInv
  <1>4. m.body.nonce = Lane(x).nonce /\ m.body.amount = Lane(x).pending
    BY <1>3 DEF payment_body
  <1>5. Lane(x).nonce \in 1..v.nonce
    BY <1>2, <1>3 DEF IInv, BooksInv, validate, LaneValid, Lane
  <1>6. /\ c.source = x /\ c.hash = Lane(x).nonce /\ c.lt = lt + 1 /\ c.ok = ok
        /\ c.shell = unused /\ c.principal = (IF ok THEN 0 ELSE Lane(x).pending)
        /\ c.body = (IF ok THEN payment_body(x[1], x[2], Lane(x).nonce, Lane(x).pending)
                     ELSE EmptyBody)
    BY <1>0, <1>3, <1>4 DEF CallbackOf
  <1>7. EmptyBody \in Bodies
    BY ConfigAssumption DEF EmptyBody, payment_body, Bodies, Streams, Lanes, CLAIM, REFUND
  <1>8. c \in CallbackRecords
    BY <1>0, <1>1, <1>7 DEF CallbackOf, CallbackRecords, Bodies
  <1>9. Outstanding(c)' /\ Genuine(c)' /\ c.ok = ok /\ c.source = x
    BY <1>2, <1>3, <1>6 DEF Outstanding, Genuine
  <1>10. \A n \in callbacks : Outstanding(n)' = Outstanding(n) /\ Genuine(n)' = Genuine(n)
    BY <1>2 DEF Outstanding, Genuine
  <1>11. Lane(x).after_lt <= lt /\ Lane(x).after_lt \in Nat
    BY <1>1, <1>2 DEF IInv, OrderInv, Lane0
  <1>12. TypeOK'
    <2>1. rcv' \in [Destinations -> Receivers]
      <3>1. /\ rcv \in [Destinations -> Receivers] /\ rcv[x] \in Receivers
            /\ m.body.nonce \in Nat /\ m.body.amount \in Nat
        BY <1>1 DEF IInv, TypeOK, Bodies
      <3>2. WithReceived(rcv[x], m.body) \in Receivers
        <4> DEFINE r == rcv[x]
                   n == m.body.nonce
                   sum == r.received + m.body.amount
        <4>1. r \in Receivers /\ n \in Nat /\ sum \in Nat
          BY <3>1 DEF Receivers
        <4>2. WithReceived(rcv[x], m.body) = [r EXCEPT !.last = n, !.received = sum]
          BY DEF WithReceived
        <4> HIDE DEF r, n, sum
        <4> QED BY <4>1, <4>2 DEF Receivers
      <3> QED BY <3>1, <3>2
    <2>2. callbacks' \in SUBSET CallbackRecords /\ transit' \in SUBSET Messages
      BY <1>0, <1>8 DEF IInv, TypeOK
    <2> QED BY <1>1, <2>1, <2>2 DEF IInv, TypeOK, vault
  <1>13. BooksInv' /\ OrderInv'
    <2>1. \A d \in Destinations : /\ Lane(d).after_lt <= lt + 1 /\ Lane(d).last_lt <= lt + 1
      BY <1>1, LaneType DEF IInv, OrderInv, Lane0
    <2> QED BY <1>2, <2>1 DEF IInv, BooksInv, OrderInv, vault
  <1>14. TransitInv'
    <2>1. \A n \in transit' : n \in transit /\ n.to # x
      BY <1>3
    <2> QED BY <1>0, <1>2, <1>6, <2>1 DEF IInv, TransitInv
  <1>15. CallbackInv'
    <2>1. ASSUME NEW n \in callbacks
          PROVE  /\ n.hash \in 1..v.nonce /\ n.lt \in 1..(lt + 1) /\ n # c
                 /\ Outstanding(n)' => n.lt > Lane(n.source).after_lt /\ Genuine(n)'
                 /\ ~Outstanding(n)' => n.lt <= Lane(n.source).last_lt
                 /\ \A o \in callbacks' : o.source = n.source /\ o.hash = n.hash => o = n
      BY <1>0, <1>1, <1>3, <1>6, <1>10 DEF IInv, CallbackInv
    <2>2. /\ c.hash \in 1..v.nonce /\ c.lt \in 1..(lt + 1)
          /\ c.lt > Lane(c.source).after_lt
          /\ \A o \in callbacks' : o.source = c.source /\ o.hash = c.hash => o = c
      BY <1>0, <1>1, <1>3, <1>5, <1>6, <1>11
    <2> QED BY <1>0, <1>2, <1>9, <2>1, <2>2 DEF CallbackInv, vault
  <1>16. LedgerAgrees'
    <2>1. ~Landed(x) /\ (Landed(x)' <=> ok)
      <3>1. ~Landed(x)
        BY <1>3 DEF Landed, Outstanding
      <3> QED BY <1>0, <1>9, <1>10, <3>1 DEF Landed
    <2>2. \A d \in Destinations \ {x} : Landed(d)' = Landed(d)
      BY <1>0, <1>9, <1>10 DEF Landed
    <2>3. rcv[x].received \in Nat
      BY <1>1 DEF IInv, TypeOK, Receivers
    <2>4. /\ rcv'[x].received = rcv[x].received + IF ok THEN Lane(x).pending ELSE 0
          /\ \A d \in Destinations \ {x} : rcv'[d].received = rcv[d].received
      BY <1>1, <1>2, <1>4, <2>3 DEF IInv, TypeOK, Receivers, WithReceived, Lane0
    <2>5. v.progress[x[1]].paid[x[2]] \in Nat
      BY <1>2 DEF IInv, TypeOK, States, ProgressTable
    <2>6. rcv[x].received = v.progress[x[1]].paid[x[2]]
      BY <1>1, <2>1, <2>5 DEF IInv, LedgerAgrees
    <2> QED BY <1>2, <2>1, <2>2, <2>4, <2>6 DEF IInv, LedgerAgrees
  <1> QED BY <1>12, <1>13, <1>14, <1>15, <1>16 DEF IInv

LEMMA NextInvariant == IInv /\ [Next]_vars => IInv'
  <1> SUFFICES ASSUME IInv, [Next]_vars PROVE IInv'
    OBVIOUS
  <1>1. CASE UNCHANGED vars
    <2>1. SameLanes /\ bal' = held(v')
      BY <1>1, SameProgressSameLanes DEF vars, vault, IInv, LedgerAgrees
    <2>2. LedgerAgrees' /\ TypeOK' /\ BooksInv'
      BY <1>1, <2>1, LedgerKept DEF vars, vault, IInv, TypeOK, BooksInv
    <2> QED BY <2>1, <2>2, LanesKept DEF IInv
  <1>2. CASE Users
    <2>1. ASSUME NEW t \in Times, Status(t) PROVE IInv'
      BY <2>1, StatusStep
    <2>2. ASSUME NEW t \in Times, NEW amount \in 1..MaxShell, TopUp(amount, t) PROVE IInv'
      BY <2>2, TopUpStep
    <2>3. ASSUME NEW t \in Times, NEW actor \in Actors, Initialize(actor, t) PROVE IInv'
      BY <2>3, InitializeStep
    <2>4. ASSUME NEW t \in Times, NEW actor \in Actors, Fund(actor, t) PROVE IInv'
      BY <2>4, FundStep
    <2>5. ASSUME NEW t \in Times, NEW actor \in Actors, NEW i \in Streams, Cancel(actor, i, t)
          PROVE  IInv'
      BY <2>5, CancelStep
    <2>6. ASSUME NEW t \in Times, NEW actor \in Actors, NEW i \in Streams, NEW k \in Lanes,
                 NEW block_lt \in 0..lt, Dispatch(actor, i, k, t, block_lt)
          PROVE  IInv'
      BY <2>6, DispatchStep
    <2>7. ASSUME NEW d \in Bindable, NEW source \in Sources, Bind(d, source) PROVE IInv'
      BY <2>7, BindStep, ActorAssumption
    <2>8. ASSUME NEW d \in Destinations, NEW flag \in Flags, SetReject(d, flag) PROVE IInv'
      BY <2>8, SetRejectStep
    <2> QED BY <1>2, <2>1, <2>2, <2>3, <2>4, <2>5, <2>6, <2>7, <2>8 DEF Users
  <1>3. CASE Runtime
    <2>1. ASSUME NEW m \in transit, DeliverOk(m) PROVE IInv'
      <3>1. PICK unused \in 0..m.reserve : callbacks' = callbacks \cup {CallbackOf(m, TRUE, unused)}
        BY <2>1 DEF DeliverOk
      <3> QED BY <2>1, <3>1, DeliverStep DEF DeliverOk
    <2>2. ASSUME NEW m \in transit, DeliverFailed(m) PROVE IInv'
      <3>1. PICK unused \in 0..m.reserve : callbacks' = callbacks \cup {CallbackOf(m, FALSE, unused)}
        BY <2>2 DEF DeliverFailed
      <3> QED BY <2>2, <3>1, DeliverStep DEF DeliverFailed
    <2>3. ASSUME NEW c \in callbacks, NEW t \in Times, Callback(c, t) PROVE IInv'
      BY <2>3, CallbackStep
    <2> QED BY <1>3, <2>1, <2>2, <2>3 DEF Runtime
  <1> QED BY <1>1, <1>2, <1>3 DEF Next

(* In every reachable state, whatever the schedules, the number of streams  *)
(* and the block times, the inductive invariant holds.                     *)
THEOREM Invariance == Spec => []IInv
  <1> QED BY InitInvariant, NextInvariant, PTL DEF Spec

(* Every variable of vault, receivers and runtime keeps its type: no nonce  *)
(* leaves its width and no amount goes below zero.                         *)
THEOREM TypeCorrect == Spec => []TypeOK
  <1>1. IInv => TypeOK
    BY DEF IInv
  <1> QED BY <1>1, Invariance, PTL

(* The vault's books agree with the receivers and with its own balance on   *)
(* every lane of every stream, however cancellations, failed deliveries and *)
(* late callbacks interleave.                                               *)
THEOREM BooksAgree == Spec => []LedgerAgrees
  <1>1. IInv => LedgerAgrees
    BY DEF IInv
  <1> QED BY <1>1, Invariance, PTL

(* State::validate never refuses what a handler's own checks permit.        *)
THEOREM FinishSucceeds == Spec => []FinishNeverFails
  <1>1. IInv => FinishNeverFails
    <2> SUFFICES ASSUME IInv, NEW t \in Times
                 PROVE  LET s == Observed(v, t) IN
                        /\ validate(s)
                        /\ CanFund(s, Owner) => validate(WithFunding(s))
                        /\ \A i \in Streams :
                             /\ CanCancel(s, Owner, i) => validate(WithCancel(s, i))
                             /\ \A k \in Lanes, block_lt \in 0..lt :
                                  CanDispatch(s, Claimant(i, k), i, k)
                                    => validate(WithDispatch(s, i, k, block_lt))
      BY DEF FinishNeverFails
    <2> DEFINE s == Observed(v, t)
    <2>1. s \in States /\ validate(s)
      BY Clock
    <2> HIDE DEF s
    <2>2. CanFund(s, Owner) => validate(WithFunding(s))
      BY <2>1, FundingValid DEF CanFund
    <2>3. ASSUME NEW i \in Streams, CanCancel(s, Owner, i) PROVE validate(WithCancel(s, i))
      BY <2>1, <2>3, CancelValid DEF CanCancel
    <2>4. ASSUME NEW i \in Streams, NEW k \in Lanes, NEW block_lt \in 0..lt,
                 CanDispatch(s, Claimant(i, k), i, k)
          PROVE  validate(WithDispatch(s, i, k, block_lt))
      <3>1. block_lt \in Nat
        BY DEF IInv, TypeOK
      <3> QED BY <2>1, <2>4, <3>1, DispatchValid DEF CanDispatch
    <2> QED BY <2>1, <2>2, <2>3, <2>4 DEF s
  <1> QED BY <1>1, Invariance, PTL

(* Whatever the other lanes are doing, an idle lane with something due can  *)
(* be paid: the balance always covers all that the vault still holds.       *)
THEOREM NoLaneStranded == Spec => []NothingStranded
  <1>1. IInv => NothingStranded
    <2> SUFFICES ASSUME IInv, deployed, v.funded, shell >= Fuel, v.nonce < MaxU64,
                        NEW i \in Streams, NEW k \in Lanes,
                        v.progress[i].lanes[k].pending = 0,
                        k = REFUND => v.progress[i].cancelled, due(v, i, k) > 0
                 PROVE  CanDispatch(v, Claimant(i, k), i, k)
      BY DEF NothingStranded
    <2>1. bal >= held(v)
      BY DEF IInv, LedgerAgrees, TypeOK
    <2>2. v.nonce + 1 <= MaxU64
      BY WidthAssumption DEF IInv, TypeOK, States
    <2>3. due(v, i, k) # 0
      OBVIOUS
    <2> QED BY <2>1, <2>2, <2>3 DEF CanDispatch
  <1> QED BY <1>1, Invariance, PTL

(* The callback of a pending attempt is acceptable whenever it arrives: at  *)
(* every block time the vault's checks pass and the state it would store    *)
(* validates, so a cancellation or a late delivery never locks a lane.      *)
OutstandingAccepted ==
    \A c \in callbacks, t \in Times :
      LET s == Observed(v, t) IN
      Outstanding(c) => CanCallback(s, c) /\ validate(AfterCallback(s, c.source[1], c.source[2], c))

THEOREM CallbackAccepted == Spec => []OutstandingAccepted
  <1>1. IInv => OutstandingAccepted
    <2> SUFFICES ASSUME IInv, NEW c \in callbacks, NEW t \in Times, Outstanding(c)
                 PROVE  LET s == Observed(v, t) IN
                        /\ CanCallback(s, c)
                        /\ validate(AfterCallback(s, c.source[1], c.source[2], c))
      BY DEF OutstandingAccepted
    <2> DEFINE s == Observed(v, t)
               i == c.source[1]
               k == c.source[2]
    <2>1. s \in States /\ validate(s) /\ s.progress = v.progress
      BY Clock
    <2>2. /\ c.source \in Destinations /\ c.ok \in BOOLEAN /\ lt \in Nat /\ v.nonce \in Nat
          /\ c.hash \in 1..v.nonce /\ c.lt \in 1..lt /\ Genuine(c)
          /\ c.lt > Lane(c.source).after_lt
      BY DEF IInv, TypeOK, CallbackRecords, CallbackInv, States
    <2>3. /\ i \in Streams /\ k \in Lanes /\ Lane(c.source) \in Lane0
          /\ s.progress[i].lanes[k] = Lane(c.source)
      BY <2>1, <2>2, LaneType DEF IInv, Lane
    <2>4. Lane(c.source).pending # 0 /\ c.hash = Lane(c.source).nonce
      BY DEF Outstanding
    <2>5. /\ Lane(c.source).last_hash < c.hash
          /\ Lane(c.source).after_lt >= Lane(c.source).last_lt
      <3>1. LaneValid(v, Lane(c.source))
        BY <2>3 DEF IInv, BooksInv, validate, Lane
      <3> QED BY <2>2, <2>4, <3>1 DEF LaneValid, IInv, OrderInv
    <2>6. Fresh(Lane(c.source), c)
      BY <2>2, <2>3, <2>5 DEF Fresh, Lane0
    <2> HIDE DEF s
    <2>7. CanCallback(s, c)
      BY <2>2, <2>3, <2>4, <2>6 DEF CanCallback, Genuine
    <2>8. validate(AfterCallback(s, i, k, c))
      <3>1. c.lt \in Nat \ {0} /\ c.hash \in Nat \ {0} /\ s.progress[i].lanes[k].pending # 0
        BY <2>2, <2>3, <2>4
      <3>2. c.ok \in BOOLEAN /\ i \in Streams /\ k \in Lanes /\ s \in States /\ validate(s)
        BY <2>1, <2>2, <2>3
      <3> HIDE DEF i, k
      <3>3. PICK r : r = AfterCallback(s, i, k, c)
        OBVIOUS
      <3>4. ClosesAttempt(r, s, i, k, c)
        BY <3>1, <3>2, <3>3, CallbackValid
      <3> QED BY <3>3, <3>4 DEF ClosesAttempt
    <2> QED BY <2>7, <2>8 DEF s
  <1> QED BY <1>1, Invariance, PTL

----------------------------------------------------------------------------
(***************************************************************************)
(* Steps seen from the calendar and from the promise.                      *)
(***************************************************************************)
Rights ==
    v'.last_time >= v.last_time /\
    \A i \in Streams :
      /\ cap(v, i)' >= cap(v, i)
      /\ v.progress[i].cancelled => v'.progress[i].cancelled /\ cap(v, i)' = cap(v, i)

(* After the clock has moved, no handler touches what a stream has earned.  *)
LEMMA ClockedRights ==
  ASSUME IInv, NEW t \in Times, v'.last_time = Observed(v, t).last_time,
         \A i \in Streams : /\ cap(v', i) = cap(Observed(v, t), i)
                            /\ v.progress[i].cancelled => v'.progress[i].cancelled
  PROVE  Rights
  <1> DEFINE s == Observed(v, t)
  <1>1. /\ s.last_time >= v.last_time /\ s.progress = v.progress
        /\ \A i \in Streams : cap(s, i) >= cap(v, i)
    BY Clock
  <1>2. \A i \in Streams : v.progress[i].cancelled => cap(s, i) = cap(v, i)
    BY <1>1 DEF cap
  <1> HIDE DEF s
  <1>3. \A i \in Streams : cap(v, i)' = cap(v', i)
    BY DEF cap
  <1>4. v'.last_time = s.last_time /\ \A i \in Streams : cap(v', i) = cap(s, i)
    BY DEF s
  <1> QED BY <1>1, <1>2, <1>3, <1>4 DEF Rights

LEMMA KeptRights == ASSUME IInv, v' = v PROVE Rights
  <1>1. v.last_time \in Nat /\ \A i \in Streams : cap(v, i) \in Nat
    BY CapBounds DEF IInv, TypeOK, BooksInv, validate, States
  <1> QED BY <1>1 DEF Rights, cap

LEMMA RightsStep == IInv /\ [Next]_vars => Rights
  <1> SUFFICES ASSUME IInv, [Next]_vars PROVE Rights
    OBVIOUS
  <1>1. CASE v' = v
    BY <1>1, KeptRights
  <1>2. ASSUME NEW t \in Times, v' = Observed(v, t) PROVE Rights
    <2>1. Observed(v, t).progress = v.progress
      BY Clock
    <2> QED BY <1>2, <2>1, ClockedRights
  <1>3. ASSUME NEW t \in Times, NEW actor \in Actors, Initialize(actor, t) PROVE Rights
    <2>1. t \in Nat /\ v = NewState(0) /\ v' = NewState(t)
      BY <1>3, ActorAssumption DEF Initialize, finish, IInv, BooksInv
    <2>2. v.last_time = 0 /\ v'.last_time = t
      BY <2>1 DEF NewState
    <2>3. \A i \in Streams : ~v.progress[i].cancelled /\ ~v'.progress[i].cancelled
      BY <2>1 DEF NewState, NewProgress
    <2>4. \A i \in Streams : cap(v, i) = 0
      <3>1. \A i \in Streams : Cfg[i] \in Schedules /\ 0 <= Cfg[i].start
        BY ConfigAssumption DEF Schedules
      <3> QED BY <2>2, <2>3, <3>1, NothingVestedYet DEF cap
    <2>5. \A i \in Streams : cap(v', i) \in Nat
      BY <2>1, NewStateValid, CapBounds DEF validate
    <2>6. \A i \in Streams : cap(v, i)' = cap(v', i)
      BY DEF cap
    <2> QED BY <2>1, <2>2, <2>3, <2>4, <2>5, <2>6 DEF Rights
  <1>4. ASSUME NEW t \in Times, NEW actor \in Actors, Fund(actor, t) PROVE Rights
    <2> DEFINE s == Observed(v, t)
    <2>1. s \in States /\ s.progress = v.progress
      BY Clock
    <2>2. v' = WithFunding(s)
      BY <1>4 DEF Fund, finish
    <2>3. v'.last_time = s.last_time /\ v'.progress = s.progress
      BY <2>1, <2>2 DEF WithFunding, States
    <2> QED BY <2>1, <2>3, ClockedRights DEF cap
  <1>5. ASSUME NEW t \in Times, NEW actor \in Actors, NEW i \in Streams, Cancel(actor, i, t)
        PROVE  Rights
    <2> DEFINE s == Observed(v, t)
    <2>1. /\ s \in States /\ validate(s) /\ s.progress = v.progress /\ s.funded
          /\ CanCancel(s, actor, i) /\ v' = WithCancel(s, i)
      BY <1>5, Clock DEF Cancel, finish, CanCancel
    <2> HIDE DEF s
    <2>2. /\ v'.last_time = s.last_time
          /\ \A j \in Streams : /\ cap(v', j) = cap(s, j)
                                /\ v'.progress[j].cancelled = (j = i \/ s.progress[j].cancelled)
      BY <2>1, CancelValid DEF CanCancel
    <2> QED BY <2>1, <2>2, ClockedRights DEF s
  <1>6. ASSUME NEW t \in Times, NEW actor \in Actors, NEW i \in Streams, NEW k \in Lanes,
               NEW block_lt \in 0..lt, Dispatch(actor, i, k, t, block_lt)
        PROVE  Rights
    <2> DEFINE s == Observed(v, t)
    <2>1. /\ s \in States /\ validate(s) /\ s.progress = v.progress
          /\ CanDispatch(s, actor, i, k) /\ v' = WithDispatch(s, i, k, block_lt)
          /\ block_lt \in Nat
      BY <1>6, Clock DEF Dispatch, finish, IInv, TypeOK
    <2> HIDE DEF s
    <2>2. /\ v'.last_time = s.last_time
          /\ LaneReplaced(v', s, i, k, Attempt(s, i, k, block_lt))
          /\ \A j \in Streams : cap(v', j) = cap(s, j)
      BY <2>1, DispatchValid DEF CanDispatch
    <2>3. \A j \in Streams : v'.progress[j].cancelled = s.progress[j].cancelled
      BY <2>2 DEF LaneReplaced
    <2> QED BY <2>1, <2>2, <2>3, ClockedRights DEF s
  <1>7. ASSUME NEW c \in callbacks, NEW t \in Times, Callback(c, t) PROVE Rights
    <2> DEFINE s == Observed(v, t)
    <2>1. AcceptedEffect(c, s)
      BY <1>7, CallbackEffect
    <2>2. s.progress = v.progress
      BY Clock
    <2> HIDE DEF s
    <2>3. \A j \in Streams : v'.progress[j].cancelled = s.progress[j].cancelled
      BY <2>1 DEF AcceptedEffect, LaneReplaced
    <2> QED BY <2>1, <2>2, <2>3, ClockedRights DEF s, AcceptedEffect
  <1>8. CASE Users
    <2>1. ASSUME NEW d, NEW source, Bind(d, source) PROVE v' = v
      BY <2>1 DEF Bind, vault
    <2>2. ASSUME NEW d, NEW flag, SetReject(d, flag) PROVE v' = v
      BY <2>2 DEF SetReject, vault
    <2>3. ASSUME NEW t \in Times, Status(t) PROVE v' = Observed(v, t)
      BY <2>3 DEF Status, finish
    <2>4. ASSUME NEW t \in Times, NEW amount, TopUp(amount, t) PROVE v' = Observed(v, t)
      BY <2>4 DEF TopUp, finish
    <2> QED BY <1>1, <1>2, <1>3, <1>4, <1>5, <1>6, <1>8, <2>1, <2>2, <2>3, <2>4 DEF Users
  <1>9. CASE Runtime
    <2>1. ASSUME NEW m, DeliverOk(m) \/ DeliverFailed(m) PROVE v' = v
      BY <2>1 DEF DeliverOk, DeliverFailed, vault
    <2> QED BY <1>1, <1>7, <1>9, <2>1 DEF Runtime
  <1>10. CASE UNCHANGED vars
    BY <1>1, <1>10 DEF vars, vault
  <1> QED BY <1>8, <1>9, <1>10 DEF Next

(* What a beneficiary has earned never shrinks, and is fixed once the stream*)
(* is cancelled, at whatever block times the messages arrive.               *)
THEOREM RightsKept == Spec => EarnedRights
  <1> QED BY RightsStep, Invariance, PTL DEF Spec, EarnedRights, Rights

----------------------------------------------------------------------------
(***************************************************************************)
(* The composed vault, receivers and runtime implement VestingPromise.     *)
(***************************************************************************)

(* The calendar of the promise, written with one product and a whole number *)
(* of steps, is what the code computes without the product.                 *)
LEMMA EarnedIsVested ==
  ASSUME NEW i \in Streams, NEW t \in Nat
  PROVE  Promise!Earned(i, t) = vested(Cfg[i], t)
  <1> DEFINE c == Cfg[i]
             Whole(n) == n * c.step <= t - c.start /\ (n + 1) * c.step > t - c.start
             whole == CHOOSE n \in 0..t : Whole(n)
             elapsed == IF c.step = 0 THEN t - c.start ELSE whole * c.step
  <1>1. /\ c \in Schedules /\ ScheduleValid(c) /\ c.start \in Nat /\ c.step \in Nat
        /\ c.cliff \in Nat /\ c.end \in Nat /\ c.total \in Nat
    BY ConfigAssumption DEF Schedules
  <1>2. Promise!Earned(i, t) = IF t < c.cliff \/ t <= c.start THEN 0
                               ELSE IF t >= c.end THEN c.total
                               ELSE (c.total * elapsed) \div (c.end - c.start)
    BY DEF Promise!Earned
  <1>3. CASE t < c.cliff \/ t <= c.start \/ t >= c.end
    BY <1>2, <1>3 DEF vested
  <1>4. CASE ~(t < c.cliff \/ t <= c.start \/ t >= c.end)
    <2>1. c.start < t /\ t < c.end /\ c.cliff <= t /\ t - c.start \in Nat
      BY <1>1, <1>4
    <2>2. elapsed = Elapsed(c, t)
      <3>1. CASE c.step = 0
        BY <3>1 DEF Elapsed
      <3>2. CASE c.step # 0
        <4> DEFINE d == c.step
                   a == t - c.start
                   q == a \div d
        <4>1. d \in Nat /\ d > 0 /\ a \in Nat /\ a <= t
          BY <1>1, <2>1, <3>2
        <4>2. q \in Nat /\ q * d <= a /\ a < q * d + d
          BY <4>1, QuotientBounds
        <4>3. q <= q * d /\ (q + 1) * d = q * d + d
          <5> HIDE DEF q, d
          <5>1. q * 1 <= q * d
            BY <4>1, <4>2
          <5> QED BY <4>1, <4>2, <5>1
        <4>4. q \in 0..t /\ Whole(q)
          <5>1. q * d \in Nat
            BY <4>1, <4>2, ProductNat
          <5> HIDE DEF q
          <5> QED BY <4>1, <4>2, <4>3, <5>1
        <4>5. whole \in 0..t /\ Whole(whole)
          <5> HIDE DEF Whole, q
          <5> QED BY <4>4
        <4>6. \A n \in 0..t : Whole(n) => n = q
          <5> SUFFICES ASSUME NEW n \in 0..t, Whole(n) PROVE n = q
            OBVIOUS
          <5>1. n \in Nat /\ n \in Int /\ n * d <= a /\ a < (n + 1) * d /\ (n + 1) * d = n * d + d
            BY <1>1
          <5>2. a < n * d + d
            BY <5>1
          <5> HIDE DEF a, d
          <5> QED BY <4>1, <5>1, <5>2, QuotientUnique
        <4>7. whole = q
          <5> HIDE DEF Whole, whole, q
          <5> QED BY <4>5, <4>6
        <4> HIDE DEF whole
        <4> QED BY <3>2, <4>7 DEF Elapsed
      <3> QED BY <3>1, <3>2
    <2>3. Promise!Earned(i, t) = (c.total * elapsed) \div (c.end - c.start)
      BY <1>2, <1>4
    <2>4. vested(c, t) = (c.total * Elapsed(c, t)) \div (c.end - c.start)
      BY <1>1, <2>1, VestedIsFloor
    <2> HIDE DEF elapsed
    <2> QED BY <2>2, <2>3, <2>4
  <1> QED BY <1>3, <1>4

OfferedOn(d) == IF Landed(d) THEN 0 ELSE Lane(d).pending

(* What the promise sees of the state, its clock apart, is unchanged.       *)
Unseen ==
    /\ v'.funded = v.funded
    /\ \A i \in Streams : /\ v'.progress[i].cancelled = v.progress[i].cancelled
                          /\ v'.progress[i].cutoff = v.progress[i].cutoff
    /\ \A d \in Destinations : OfferedOn(d)' = OfferedOn(d) /\ rcv'[d].received = rcv[d].received

LEMMA UnseenBooks == ASSUME Unseen PROVE UNCHANGED Promise!books
  BY DEF Unseen, Promise!books, OfferedOn

LEMMA ShareNames == Promise!Shares = Destinations
  BY DEF Promise!Shares, Promise!BeneficiaryShare, Promise!OwnerShare, Destinations, Lanes,
         CLAIM, REFUND

LEMMA ClockTicks ==
  ASSUME v \in States, v' \in States, v'.last_time >= v.last_time PROVE Promise!Tick
  BY DEF Promise!Tick, States

LEMMA PromiseInit == Init => Promise!Init
  <1> SUFFICES ASSUME Init PROVE Promise!Init
    OBVIOUS
  <1>1. v = NewState(0) /\ rcv = [d \in Destinations |-> NewReceiver] /\ callbacks = {}
    BY DEF Init
  <1>2. /\ v.last_time \in Nat /\ v.funded = FALSE
        /\ \A i \in Streams : v.progress[i] = NewProgress
    BY <1>1 DEF NewState
  <1>3. \A i \in Streams : v.progress[i].cancelled = FALSE /\ v.progress[i].cutoff = 0
    BY <1>2 DEF NewProgress
  <1>4. \A d \in Destinations : Lane(d) = NewLane /\ ~Landed(d)
    BY <1>1, <1>2 DEF Lane, Destinations, NewProgress, Landed
  <1>5. \A d \in Destinations : (IF Landed(d) THEN 0 ELSE Lane(d).pending) = 0
    BY <1>4 DEF NewLane
  <1>6. \A d \in Destinations : rcv[d].received = 0
    BY <1>1 DEF NewReceiver
  <1> QED BY <1>2, <1>3, <1>5, <1>6, ShareNames DEF Promise!Init

LEMMA ObserveStep ==
  ASSUME v \in States, v' \in States, v'.last_time >= v.last_time, Unseen
  PROVE  Promise!Next
  <1> QED BY ClockTicks, UnseenBooks DEF Promise!Next, Promise!Observe

LEMMA UnseenStutters ==
  ASSUME Unseen, v'.last_time = v.last_time PROVE UNCHANGED Promise!vars
  BY UnseenBooks DEF Promise!vars

LEMMA SameLanesSameOffers ==
  ASSUME IInv, SameLanes PROVE \A d \in Destinations : OfferedOn(d)' = OfferedOn(d)
  <1>1. \A c \in callbacks : c.source \in Destinations
    BY DEF IInv, TypeOK, CallbackRecords
  <1>2. \A d \in Destinations : Landed(d)' = Landed(d)
    BY <1>1 DEF Landed, Outstanding, SameLanes
  <1> QED BY <1>2 DEF OfferedOn, SameLanes

LEMMA ClockForward == ASSUME IInv, [Next]_vars PROVE v'.last_time >= v.last_time
  BY RightsStep DEF Rights

LEMMA StatesBefore == IInv => v \in States
  BY DEF IInv, TypeOK

LEMMA FundKept ==
  ASSUME IInv, IInv', NEW actor, NEW t \in Times, Fund(actor, t), v'.last_time >= v.last_time
  PROVE  Promise!Fund
  <1> DEFINE s == Observed(v, t)
  <1>1. s \in States /\ s.progress = v.progress /\ s.funded = v.funded /\ s.nonce = v.nonce
    BY Clock
  <1>2. ~s.funded /\ BeforeFirstStart(s.last_time) /\ v' = WithFunding(s) /\ rcv' = rcv
    BY DEF Fund, CanFund, finish
  <1>3. /\ v'.funded = TRUE /\ v'.last_time = s.last_time /\ v'.progress = s.progress
        /\ v'.nonce = s.nonce
    BY <1>1, <1>2 DEF WithFunding, States
  <1> HIDE DEF s
  <1>4. SameLanes
    BY <1>1, <1>3, SameProgressSameLanes DEF Fund
  <1>5. \A d \in Destinations : OfferedOn(d)' = OfferedOn(d)
    BY <1>4, SameLanesSameOffers
  <1>6. Promise!Tick
    BY ClockTicks DEF IInv, TypeOK
  <1>7. ~v.funded /\ \A i \in Streams : v'.last_time < Cfg[i].start
    BY <1>1, <1>2, <1>3 DEF BeforeFirstStart
  <1>8. [d \in Destinations |-> IF Landed(d) THEN 0 ELSE Lane(d).pending]'
          = [d \in Destinations |-> IF Landed(d) THEN 0 ELSE Lane(d).pending]
    BY <1>5 DEF OfferedOn
  <1> QED BY <1>1, <1>2, <1>3, <1>6, <1>7, <1>8 DEF Promise!Fund

LEMMA CancelKept ==
  ASSUME IInv, IInv', NEW actor, NEW i \in Streams, NEW t \in Times, Cancel(actor, i, t),
         v'.last_time >= v.last_time
  PROVE  Promise!Cancel(i)
  <1> DEFINE s == Observed(v, t)
  <1>1. /\ s \in States /\ validate(s)
        /\ s.progress = v.progress /\ s.funded = v.funded /\ s.nonce = v.nonce
    BY Clock
  <1>2. /\ CanCancel(s, actor, i) /\ v' = WithCancel(s, i)
        /\ UNCHANGED <<lt, transit, callbacks, rcv>>
    BY DEF Cancel, finish
  <1> HIDE DEF s
  <1>3. /\ v'.last_time = s.last_time /\ v'.nonce = s.nonce /\ v'.funded
        /\ \A j \in Streams : /\ v'.progress[j].lanes = s.progress[j].lanes
                              /\ v'.progress[j].cancelled = (j = i \/ s.progress[j].cancelled)
                              /\ v'.progress[j].cutoff
                                   = IF j = i THEN s.last_time ELSE s.progress[j].cutoff
    BY <1>1, <1>2, CancelValid DEF CanCancel
  <1>4. SameLanes
    BY <1>1, <1>2, <1>3 DEF SameLanes, Lane, Destinations
  <1>5. [d \in Destinations |-> IF Landed(d) THEN 0 ELSE Lane(d).pending]'
          = [d \in Destinations |-> IF Landed(d) THEN 0 ELSE Lane(d).pending]
    BY <1>4, SameLanesSameOffers DEF OfferedOn
  <1>6. Promise!Tick
    BY ClockTicks DEF IInv, TypeOK
  <1>7. /\ v.funded = TRUE /\ v'.funded = TRUE /\ ~v.progress[i].cancelled /\ Cfg[i].revocable
        /\ v'.last_time < Cfg[i].end
    BY <1>1, <1>2, <1>3 DEF CanCancel, States, IInv, TypeOK
  <1>8. \A j \in Streams : v.progress[j].cancelled \in BOOLEAN
    BY DEF IInv, TypeOK, States, ProgressTable
  <1>9. [j \in Streams |-> v'.progress[j].cancelled]
          = [[j \in Streams |-> v.progress[j].cancelled] EXCEPT ![i] = TRUE]
    BY <1>1, <1>3, <1>8
  <1>10. [j \in Streams |-> v'.progress[j].cutoff]
           = [[j \in Streams |-> v.progress[j].cutoff] EXCEPT ![i] = v'.last_time]
    BY <1>1, <1>3
  <1> QED BY <1>2, <1>5, <1>6, <1>7, <1>9, <1>10 DEF Promise!Cancel

(* A share's worth to the promise is the vault's limit on its lane.         *)
LEMMA WorthIsLimit ==
  ASSUME IInv, NEW s \in States, validate(s), s.progress = v.progress,
         NEW i \in Streams, NEW k \in Lanes, k = REFUND => s.progress[i].cancelled
  PROVE  Promise!Worth(i, k, s.last_time) = Limit(s, i, k)
  <1> DEFINE p == v.progress[i]
             at == IF p.cancelled THEN p.cutoff ELSE s.last_time
  <1>1. at \in Nat /\ p.cancelled \in BOOLEAN
    BY DEF IInv, TypeOK, States, ProgressTable
  <1>2. cap(s, i) = vested(Cfg[i], at)
    BY DEF validate, CancellationValid, cap
  <1>3. Promise!Earned(i, at) = cap(s, i)
    BY <1>1, <1>2, EarnedIsVested
  <1>4. Promise!Worth(i, k, s.last_time)
          = IF k = 0 THEN Promise!Earned(i, at)
            ELSE IF p.cancelled THEN Cfg[i].total - Promise!Earned(i, at) ELSE 0
    BY DEF Promise!Worth, Promise!BeneficiaryShare
  <1> HIDE DEF at
  <1> QED BY <1>1, <1>3, <1>4 DEF Limit, Lanes, CLAIM, REFUND

LEMMA DispatchKept ==
  ASSUME IInv, IInv', NEW actor, NEW i \in Streams, NEW k \in Lanes, NEW t \in Times,
         NEW block_lt \in 0..lt, Dispatch(actor, i, k, t, block_lt), v'.last_time >= v.last_time
  PROVE  Promise!Offer(i, k)
  <1> DEFINE s == Observed(v, t)
             x == <<i, k>>
             amount == due(s, i, k)
  <1>1. /\ s \in States /\ validate(s) /\ s.progress = v.progress /\ s.funded = v.funded
    BY Clock
  <1>2. CanDispatch(s, actor, i, k) /\ UNCHANGED <<callbacks, rcv>>
    BY DEF Dispatch
  <1>3. OpensAttempt(s, i, k, block_lt)
    BY DispatchEffect
  <1> HIDE DEF s
  <1>4. /\ amount \in Nat \ {0} /\ v'.last_time = s.last_time /\ v'.funded
        /\ \A j \in Streams : /\ v'.progress[j].cancelled = s.progress[j].cancelled
                              /\ v'.progress[j].cutoff = s.progress[j].cutoff
        /\ Lane(x).pending = 0 /\ ~Landed(x) /\ ~Landed(x)' /\ Lane(x)'.pending = amount
        /\ \A d \in Destinations \ {x} : Lane(d)' = Lane(d) /\ Landed(d)' = Landed(d)
    BY <1>3 DEF OpensAttempt, LaneReplaced
  <1>5. x \in Destinations /\ x[1] = i /\ x[2] = k
    BY DEF Destinations
  <1>6. k = REFUND => s.progress[i].cancelled
    BY <1>2 DEF CanDispatch
  <1>7. Promise!Worth(i, k, v'.last_time) = Limit(s, i, k)
    BY <1>1, <1>4, <1>6, WorthIsLimit
  <1>8. Limit(s, i, k) \in Int
    BY <1>1, CapBounds, ConfigAssumption DEF Limit, validate, Schedules
  <1>9. /\ rcv[x].received = v.progress[i].paid[k] /\ v.progress[i].paid[k] \in Nat
    BY <1>4, <1>5 DEF IInv, LedgerAgrees, TypeOK, States, ProgressTable
  <1>10. amount = Limit(s, i, k) - rcv[x].received
    <2>1. s.progress[i].lanes[k].pending = 0 /\ s.progress[i].paid[k] = v.progress[i].paid[k]
      BY <1>1, <1>4 DEF Lane
    <2> QED BY <1>8, <1>9, <2>1 DEF due
  <1>11. rcv[x].received < Promise!Worth(i, k, v'.last_time)
    BY <1>4, <1>7, <1>8, <1>9, <1>10
  <1>12. Promise!Tick
    BY ClockTicks DEF IInv, TypeOK
  <1>13. v.funded = TRUE /\ v'.funded = TRUE
    BY <1>1, <1>2, <1>4 DEF CanDispatch, IInv, TypeOK, States
  <1> DEFINE offered == [d \in Destinations |-> IF Landed(d) THEN 0 ELSE Lane(d).pending]
             credited == [d \in Destinations |-> rcv[d].received]
  <1>14. offered' = [offered EXCEPT ![x] = Promise!Worth(i, k, v'.last_time) - credited[x]]
    <2>1. credited[x] = rcv[x].received
      BY <1>5
    <2>2. OfferedOn(x)' = amount /\ \A d \in Destinations \ {x} : OfferedOn(d)' = OfferedOn(d)
      BY <1>4 DEF OfferedOn
    <2>3. offered' = [d \in Destinations |-> OfferedOn(d)']
      BY DEF OfferedOn
    <2>4. offered = [d \in Destinations |-> OfferedOn(d)]
      BY DEF OfferedOn
    <2> HIDE DEF offered, credited, amount, x
    <2>5. Promise!Worth(i, k, v'.last_time) - credited[x] = amount
      BY <1>7, <1>10, <2>1
    <2> QED BY <1>5, <2>2, <2>3, <2>4, <2>5
  <1>15. offered[x] = 0 /\ credited[x] = rcv[x].received
    BY <1>4, <1>5
  <1>16. /\ [j \in Streams |-> v'.progress[j].cancelled] = [j \in Streams |-> v.progress[j].cancelled]
         /\ [j \in Streams |-> v'.progress[j].cutoff] = [j \in Streams |-> v.progress[j].cutoff]
    BY <1>1, <1>4
  <1> QED BY <1>2, <1>11, <1>12, <1>13, <1>14, <1>15, <1>16 DEF Promise!Offer

(* An accepted delivery lands; a refused one leaves the offer standing.     *)
LEMMA DeliverEffect ==
  ASSUME IInv, NEW m \in transit, NEW ok \in BOOLEAN, NEW unused \in 0..m.reserve,
         UNCHANGED vault, callbacks' = callbacks \cup {CallbackOf(m, ok, unused)}
  PROVE  /\ m.to \in Destinations /\ Lane(m.to).pending \in Nat \ {0}
         /\ m.body.amount = Lane(m.to).pending
         /\ ~Landed(m.to) /\ (Landed(m.to)' <=> ok)
         /\ \A d \in Destinations : Lane(d)' = Lane(d)
         /\ \A d \in Destinations \ {m.to} : Landed(d)' = Landed(d)
  <1> DEFINE x == m.to
  <1>0. PICK c : c = CallbackOf(m, ok, unused)
    OBVIOUS
  <1>1. /\ x \in Destinations /\ Lane(x) \in Lane0 /\ \A d : Lane(d)' = Lane(d)
    BY LaneType DEF IInv, TypeOK, Messages, vault, Lane
  <1>2. /\ Lane(x).pending # 0
        /\ m.body = payment_body(x[1], x[2], Lane(x).nonce, Lane(x).pending)
        /\ \A n \in callbacks : n.source = x => n.hash # Lane(x).nonce
    BY DEF IInv, TransitInv
  <1>3. m.body.nonce = Lane(x).nonce /\ m.body.amount = Lane(x).pending
    BY <1>2 DEF payment_body
  <1>4. c.source = x /\ c.hash = Lane(x).nonce /\ c.ok = ok
    BY <1>0, <1>3 DEF CallbackOf
  <1>5. Outstanding(c)' /\ \A n \in callbacks : Outstanding(n)' = Outstanding(n)
    BY <1>1, <1>2, <1>4 DEF Outstanding
  <1>6. ~Landed(x)
    BY <1>2 DEF Landed, Outstanding
  <1>7. Landed(x)' <=> ok
    BY <1>0, <1>4, <1>5, <1>6 DEF Landed
  <1>8. \A d \in Destinations \ {x} : Landed(d)' = Landed(d)
    BY <1>0, <1>4, <1>5 DEF Landed
  <1> QED BY <1>1, <1>2, <1>3, <1>6, <1>7, <1>8 DEF Lane0

LEMMA DeliverOkKept ==
  ASSUME IInv, NEW m \in transit, DeliverOk(m) PROVE Promise!Credit(m.to)
  <1> DEFINE x == m.to
  <1>1. PICK unused \in 0..m.reserve : callbacks' = callbacks \cup {CallbackOf(m, TRUE, unused)}
    BY DEF DeliverOk
  <1>2. UNCHANGED vault /\ v' = v /\ rcv' = [rcv EXCEPT ![x] = WithReceived(@, m.body)]
    BY DEF DeliverOk, vault
  <1>3. /\ x \in Destinations /\ Lane(x).pending \in Nat \ {0} /\ ~Landed(x) /\ Landed(x)'
        /\ m.body.amount = Lane(x).pending
        /\ \A d \in Destinations : Lane(d)' = Lane(d)
        /\ \A d \in Destinations \ {x} : Landed(d)' = Landed(d)
    BY <1>1, <1>2, DeliverEffect
  <1> DEFINE offered == [d \in Destinations |-> IF Landed(d) THEN 0 ELSE Lane(d).pending]
             credited == [d \in Destinations |-> rcv[d].received]
  <1>4. offered[x] = Lane(x).pending /\ offered[x] # 0
    BY <1>3
  <1>5. offered' = [offered EXCEPT ![x] = 0]
    BY <1>3
  <1>6. credited' = [credited EXCEPT ![x] = @ + offered[x]]
    <2>1. rcv \in [Destinations -> Receivers]
      BY DEF IInv, TypeOK
    <2>2. /\ rcv'[x].received = rcv[x].received + Lane(x).pending
          /\ \A d \in Destinations \ {x} : rcv'[d] = rcv[d]
      <3>1. rcv'[x] = WithReceived(rcv[x], m.body)
        BY <1>2, <1>3, <2>1
      <3>2. WithReceived(rcv[x], m.body).received = rcv[x].received + m.body.amount
        BY <1>3, <2>1 DEF WithReceived, Receivers
      <3> QED BY <1>2, <1>3, <2>1, <3>1, <3>2
    <2>3. credited' = [d \in Destinations |-> rcv'[d].received]
      OBVIOUS
    <2> HIDE DEF offered
    <2> QED BY <1>3, <1>4, <2>2, <2>3
  <1> QED BY <1>2, <1>4, <1>5, <1>6 DEF Promise!Credit

LEMMA DeliverFailedKept ==
  ASSUME IInv, NEW m \in transit, DeliverFailed(m) PROVE UNCHANGED Promise!vars
  <1>1. PICK unused \in 0..m.reserve : callbacks' = callbacks \cup {CallbackOf(m, FALSE, unused)}
    BY DEF DeliverFailed
  <1>2. UNCHANGED vault /\ v' = v /\ rcv' = rcv
    BY DEF DeliverFailed, vault
  <1>3. /\ ~Landed(m.to) /\ (Landed(m.to)' <=> FALSE)
        /\ \A d \in Destinations : Lane(d)' = Lane(d)
        /\ \A d \in Destinations \ {m.to} : Landed(d)' = Landed(d)
    BY <1>1, <1>2, DeliverEffect
  <1>4. \A d \in Destinations : OfferedOn(d)' = OfferedOn(d)
    BY <1>3 DEF OfferedOn
  <1>5. Unseen
    BY <1>2, <1>4 DEF Unseen
  <1> QED BY <1>2, <1>5, UnseenStutters

(* The callback of a landed payment changes nothing the promise sees but    *)
(* the time; the callback of a failed one withdraws the offer.              *)
LEMMA CallbackKept ==
  ASSUME IInv, IInv', NEW c \in callbacks, NEW t \in Times, Callback(c, t),
         v'.last_time >= v.last_time
  PROVE  Promise!Next
  <1> DEFINE s == Observed(v, t)
             x == c.source
             i == c.source[1]
             k == c.source[2]
  <1>1. /\ s.progress = v.progress /\ s.funded = v.funded
        /\ rcv' = rcv /\ callbacks' = callbacks
    BY Clock DEF Callback
  <1>2. AcceptedEffect(c, s)
    BY CallbackEffect
  <1>3. x \in Destinations /\ i \in Streams /\ k \in Lanes /\ x = <<i, k>>
    BY LaneType DEF IInv, TypeOK, CallbackRecords
  <1> HIDE DEF s
  <1>4. /\ Outstanding(c) /\ Lane(x).pending \in Nat \ {0}
        /\ LaneReplaced(v', s, i, k, Closed(c)) /\ v'.funded = s.funded
    BY <1>2 DEF AcceptedEffect
  <1>5. \A j \in Streams : /\ v'.progress[j].cancelled = v.progress[j].cancelled
                           /\ v'.progress[j].cutoff = v.progress[j].cutoff
    BY <1>1, <1>4 DEF LaneReplaced
  <1>6. v.progress[i].lanes \in [Lanes -> Lane0]
    BY <1>3 DEF IInv, TypeOK, States, ProgressTable
  <1>7. /\ Lane(x)' = Closed(c)
        /\ \A d \in Destinations \ {x} : Lane(d)' = Lane(d)
    <2>1. \A d \in Destinations : d = <<d[1], d[2]>> /\ d[1] \in Streams /\ d[2] \in Lanes
      BY DEF Destinations
    <2>2. /\ v'.progress[i].lanes = [v.progress[i].lanes EXCEPT ![k] = Closed(c)]
          /\ \A j \in Streams \ {i} : v'.progress[j] = v.progress[j]
      BY <1>1, <1>4 DEF LaneReplaced
    <2> QED BY <1>3, <1>6, <2>1, <2>2 DEF Lane
  <1>8. Lane(x)'.pending = 0
    BY <1>7 DEF Closed, NewLane
  <1>9. /\ ~Landed(x)' /\ (Landed(x) <=> c.ok)
        /\ \A d \in Destinations \ {x} : Landed(d)' = Landed(d)
    <2>1. \A n \in callbacks : n.source = x /\ Outstanding(n) => n = c
      BY <1>4 DEF IInv, CallbackInv, Outstanding
    <2>2. Landed(x) <=> c.ok
      BY <1>4, <2>1 DEF Landed
    <2>3. ~Landed(x)'
      BY <1>8 DEF Landed, Outstanding
    <2>4. \A d \in Destinations \ {x} : Landed(d)' = Landed(d)
      BY <1>1, <1>7 DEF Landed, Outstanding
    <2> QED BY <2>2, <2>3, <2>4
  <1> DEFINE offered == [d \in Destinations |-> IF Landed(d) THEN 0 ELSE Lane(d).pending]
  <1>10. OfferedOn(x)' = 0 /\ \A d \in Destinations \ {x} : OfferedOn(d)' = OfferedOn(d)
    BY <1>7, <1>8, <1>9 DEF OfferedOn
  <1>11. CASE c.ok
    <2>1. OfferedOn(x) = 0
      BY <1>9, <1>11 DEF OfferedOn
    <2>2. Unseen
      BY <1>1, <1>4, <1>5, <1>10, <2>1 DEF Unseen
    <2> QED BY <2>2, ObserveStep DEF IInv, TypeOK
  <1>12. CASE ~c.ok
    <2>1. offered[x] = Lane(x).pending /\ offered[x] # 0
      BY <1>3, <1>4, <1>9, <1>12
    <2>2. offered' = [offered EXCEPT ![x] = 0]
      <3>1. offered = [d \in Destinations |-> OfferedOn(d)]
        BY DEF OfferedOn
      <3>2. offered' = [d \in Destinations |-> OfferedOn(d)']
        BY DEF OfferedOn
      <3> HIDE DEF offered, x
      <3> QED BY <1>3, <1>10, <3>1, <3>2
    <2>3. /\ [j \in Streams |-> v'.progress[j].cancelled]
               = [j \in Streams |-> v.progress[j].cancelled]
          /\ [j \in Streams |-> v'.progress[j].cutoff] = [j \in Streams |-> v.progress[j].cutoff]
      BY <1>5
    <2>4. Promise!Tick
      BY ClockTicks DEF IInv, TypeOK
    <2>5. Promise!Withdraw(x)
      BY <1>1, <1>4, <2>1, <2>2, <2>3, <2>4 DEF Promise!Withdraw
    <2> QED BY <1>3, <2>5, ShareNames DEF Promise!Next
  <1> QED BY <1>11, <1>12

LEMMA QuietKept ==
  ASSUME IInv, IInv', v'.progress = v.progress, v'.nonce = v.nonce, v'.funded = v.funded,
         v'.last_time >= v.last_time, UNCHANGED <<lt, transit, callbacks, rcv>>
  PROVE  Promise!Next
  <1>1. SameLanes
    BY SameProgressSameLanes
  <1>2. Unseen
    BY <1>1, SameLanesSameOffers DEF Unseen
  <1> QED BY <1>2, ObserveStep DEF IInv, TypeOK

LEMMA ReceiverStutters ==
  ASSUME IInv, UNCHANGED <<lt, vault, transit, callbacks>>,
         \A d \in Destinations : rcv'[d].received = rcv[d].received
  PROVE  UNCHANGED Promise!vars
  <1>1. SameLanes /\ v' = v
    BY SameProgressSameLanes DEF vault
  <1>2. Unseen
    BY <1>1, SameLanesSameOffers DEF Unseen
  <1> QED BY <1>1, <1>2, UnseenStutters

LEMMA PromiseStep == IInv /\ IInv' /\ [Next]_vars => [Promise!Next]_(Promise!vars)
  <1> SUFFICES ASSUME IInv, IInv', [Next]_vars PROVE [Promise!Next]_(Promise!vars)
    OBVIOUS
  <1>0. v'.last_time >= v.last_time
    BY ClockForward
  <1>1. CASE UNCHANGED vars
    BY <1>1, ReceiverStutters DEF vars
  <1>2. ASSUME NEW t \in Times, Status(t) PROVE Promise!Next
    BY <1>0, <1>2, QuietKept, Clock DEF Status, finish
  <1>3. ASSUME NEW t \in Times, NEW amount, TopUp(amount, t) PROVE Promise!Next
    BY <1>0, <1>3, QuietKept, Clock DEF TopUp, finish
  <1>4. ASSUME NEW t \in Times, NEW actor, Initialize(actor, t) PROVE Promise!Next
    <2>1. v = NewState(0) /\ v' = NewState(t) /\ UNCHANGED <<lt, transit, callbacks, rcv>>
      BY <1>4 DEF Initialize, finish, IInv, BooksInv
    <2>2. v'.progress = v.progress /\ v'.nonce = v.nonce /\ v'.funded = v.funded
      BY <2>1 DEF NewState
    <2> QED BY <1>0, <2>1, <2>2, QuietKept
  <1>5. ASSUME NEW t \in Times, NEW actor, Fund(actor, t) PROVE Promise!Next
    BY <1>0, <1>5, FundKept DEF Promise!Next
  <1>6. ASSUME NEW t \in Times, NEW actor, NEW i \in Streams, Cancel(actor, i, t)
        PROVE  Promise!Next
    BY <1>0, <1>6, CancelKept DEF Promise!Next
  <1>7. ASSUME NEW t \in Times, NEW actor, NEW i \in Streams, NEW k \in Lanes,
               NEW block_lt \in 0..lt, Dispatch(actor, i, k, t, block_lt)
        PROVE  Promise!Next
    <2>1. Promise!Offer(i, k) /\ k \in {0, 1}
      BY <1>0, <1>7, DispatchKept DEF Lanes, CLAIM, REFUND
    <2> QED BY <2>1 DEF Promise!Next, Promise!BeneficiaryShare, Promise!OwnerShare
  <1>8. ASSUME NEW d \in Destinations, NEW source, Bind(d, source) PROVE UNCHANGED Promise!vars
    <2>1. \A e \in Destinations : rcv'[e].received = rcv[e].received
      BY <1>8 DEF Bind, IInv, TypeOK, Receivers
    <2> QED BY <1>8, <2>1, ReceiverStutters DEF Bind
  <1>9. ASSUME NEW d \in Destinations, NEW flag, SetReject(d, flag) PROVE UNCHANGED Promise!vars
    <2>1. \A e \in Destinations : rcv'[e].received = rcv[e].received
      BY <1>9 DEF SetReject, IInv, TypeOK, Receivers
    <2> QED BY <1>9, <2>1, ReceiverStutters DEF SetReject
  <1>10. ASSUME NEW m \in transit, DeliverOk(m) PROVE Promise!Next
    <2>1. m.to \in Destinations
      BY DEF IInv, TypeOK, Messages
    <2> QED BY <1>10, <2>1, DeliverOkKept, ShareNames DEF Promise!Next
  <1>11. ASSUME NEW m \in transit, DeliverFailed(m) PROVE UNCHANGED Promise!vars
    BY <1>11, DeliverFailedKept
  <1>12. ASSUME NEW c \in callbacks, NEW t \in Times, Callback(c, t) PROVE Promise!Next
    BY <1>0, <1>12, CallbackKept
  <1>13. CASE Users
    <2>1. Bindable \subseteq Destinations
      BY ActorAssumption
    <2> QED BY <1>2, <1>3, <1>4, <1>5, <1>6, <1>7, <1>8, <1>9, <1>13, <2>1 DEF Users
  <1>14. CASE Runtime
    BY <1>10, <1>11, <1>12, <1>14 DEF Runtime
  <1> QED BY <1>1, <1>13, <1>14 DEF Next

(* Every step of vault, receivers and runtime is one atomic step of the     *)
(* promise, or changes nothing it can see: an offer of what the calendar    *)
(* has released, at the time the vault has seen, is credited once and whole *)
(* or withdrawn.                                                           *)
THEOREM KeepsPromise == Spec => ImplementsPromise
  <1>1. IInv /\ IInv' /\ [Next]_vars => [Promise!Next]_(Promise!vars)
    BY PromiseStep
  <1> QED BY <1>1, PromiseInit, Invariance, PTL DEF Spec, ImplementsPromise, Promise!Spec
=============================================================================
