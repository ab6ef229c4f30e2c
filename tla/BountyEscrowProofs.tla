------------------------- MODULE BountyEscrowProofs -------------------------
(***************************************************************************)
(* Safety of the bounty escrow for every milestone table, attempt cap,     *)
(* deadline, reserve and set of delivery hashes.                           *)
(*                                                                         *)
(* The books alone are not inductive: that a callback settles the pending  *)
(* attempt follows only from what is in flight (at most one transfer, one  *)
(* callback per hash) and from the order of the receipts.  The outcomes of *)
(* the milestones and the refinement of EscrowPromise follow from the same *)
(* invariant.                                                              *)
(***************************************************************************)
EXTENDS BountyEscrow, TLAPS

USE DEF ConfigValid, PartiesValid

----------------------------------------------------------------------------
(***************************************************************************)
(* The books: every candidate state a handler builds from a valid state    *)
(* under its explicit checks is valid again.                               *)
(***************************************************************************)
(* The code's sum over its fixed array is additive, monotone and exact on   *)
(* single milestones.                                                       *)
LEMMA WorthType == ASSUME NEW S PROVE Worth(S) \in Nat
  BY ConfigAssumption DEF Worth, SumSlots, Slots

LEMMA WorthEmpty == Worth({}) = 0
  BY ConfigAssumption DEF Worth, SumSlots, Slots

LEMMA WorthSingle ==
  ASSUME NEW i \in Slots PROVE Worth({i}) = Amounts[i]
  BY ConfigAssumption DEF Worth, SumSlots, Slots

LEMMA WorthUnion ==
  ASSUME NEW A, NEW B, A \cap B = {}
  PROVE  Worth(A \cup B) = Worth(A) + Worth(B)
  <1>1. \A i \in Slots : (i \in A \cup B <=> i \in A \/ i \in B) /\ ~(i \in A /\ i \in B)
    OBVIOUS
  <1> DEFINE a(i) == IF i \in A THEN Amounts[i] ELSE 0
             b(i) == IF i \in B THEN Amounts[i] ELSE 0
             c(i) == IF i \in A \cup B THEN Amounts[i] ELSE 0
  <1>2. \A i \in Slots : a(i) \in Nat /\ b(i) \in Nat /\ c(i) = a(i) + b(i)
    BY <1>1, ConfigAssumption
  <1>3. Worth(A) = a(0) + a(1) + a(2) + a(3) + a(4) + a(5) + a(6) + a(7)
    BY DEF Worth, SumSlots, Slots
  <1>4. Worth(B) = b(0) + b(1) + b(2) + b(3) + b(4) + b(5) + b(6) + b(7)
    BY DEF Worth, SumSlots, Slots
  <1>5. Worth(A \cup B) = c(0) + c(1) + c(2) + c(3) + c(4) + c(5) + c(6) + c(7)
    BY DEF Worth, SumSlots, Slots
  <1> HIDE DEF a, b, c
  <1>6. QED BY <1>2, <1>3, <1>4, <1>5 DEF Slots

LEMMA WorthZero ==
  ASSUME NEW S \in SUBSET Milestones, Worth(S) = 0
  PROVE  S = {}
  <1>1. SUFFICES ASSUME NEW i \in S PROVE FALSE
    OBVIOUS
  <1>2. i \in Slots /\ Amounts[i] > 0
    BY ConfigAssumption DEF Milestones, Slots
  <1>3. Worth(S) = Worth({i}) + Worth(S \ {i})
    <2>1. S = {i} \cup (S \ {i}) /\ {i} \cap (S \ {i}) = {}
      OBVIOUS
    <2>2. QED BY <2>1, WorthUnion
  <1>4. QED BY <1>2, <1>3, WorthSingle, WorthType, ConfigAssumption

(* Every milestone is in exactly one phase, so the books partition the      *)
(* total.                                                                   *)
LEMMA WorthOfPhases ==
  ASSUME NEW s \in EscrowStates
  PROVE  Total = refundable(s) + Worth(InPhase(s, {APPROVED}))
                 + Worth(InPhase(s, {PAID})) + Worth(InPhase(s, {REFUNDED}))
  <1> DEFINE O == InPhase(s, {OPEN, SUBMITTED})
             A == InPhase(s, {APPROVED})
             P == InPhase(s, {PAID})
             R == InPhase(s, {REFUNDED})
  <1>1. \A i \in Milestones : s.phases[i] \in {OPEN, SUBMITTED, APPROVED, PAID, REFUNDED}
    BY DEF EscrowStates, Milestones, Phases, OPEN, SUBMITTED, APPROVED, PAID, REFUNDED
  <1>2. Milestones = ((O \cup A) \cup P) \cup R
    BY <1>1 DEF InPhase
  <1>3. /\ O \cap A = {}
        /\ (O \cup A) \cap P = {}
        /\ ((O \cup A) \cup P) \cap R = {}
    BY DEF InPhase, OPEN, SUBMITTED, APPROVED, PAID, REFUNDED
  <1>4. Worth(Milestones) = Worth(O) + Worth(A) + Worth(P) + Worth(R)
    <2> HIDE DEF O, A, P, R
    <2>1. Worth(Milestones) = Worth((O \cup A) \cup P) + Worth(R)
      BY <1>2, <1>3, WorthUnion
    <2>2. Worth((O \cup A) \cup P) = Worth(O \cup A) + Worth(P)
      BY <1>3, WorthUnion
    <2>3. Worth(O \cup A) = Worth(O) + Worth(A)
      BY <1>3, WorthUnion
    <2>4. QED BY <2>1, <2>2, <2>3, WorthType
  <1>5. Worth(Milestones) = Total
    BY ConfigAssumption DEF Worth, Total, SumSlots, Milestones, Slots
  <1>6. QED BY <1>4, <1>5 DEF refundable

----------------------------------------------------------------------------
(* The empty escrow that init stores is valid.                             *)
LEMMA NewStateValid == NewState \in EscrowStates /\ validate(NewState)
  <1>1. NewState \in EscrowStates
    BY DEF NewState, EscrowStates, NoPending, Pendings, Slots, Phases, OPEN, REFUNDED, IDLE
  <1>2. InPhase(NewState, {PAID}) = {} /\ InPhase(NewState, {REFUNDED}) = {}
    BY DEF InPhase, NewState, Milestones, OPEN, PAID, REFUNDED
  <1>3. BooksValid(NewState)
    <2>1. NewState.paid = 0 /\ NewState.refunded = 0 /\ NewState.funded = 0
      BY DEF NewState
    <2>2. QED BY <2>1, <1>2, WorthEmpty DEF BooksValid
  <1>4. ReceiptsValid(NewState)
    BY BoundAssumption DEF ReceiptsValid, NewState, NoPending, IDLE
  <1>5. FundingValid(NewState)
    BY DEF FundingValid, NewState
  <1>6. \A i \in Slots : MilestoneValid(NewState, i)
    BY DEF MilestoneValid, NewState, OPEN, SUBMITTED, APPROVED, PAID
  <1>7. PendingValid(NewState)
    BY DEF PendingValid, NewState, NoPending, IDLE, PAYMENT, REFUND
  <1>8. QED BY <1>1, <1>3, <1>4, <1>5, <1>6, <1>7 DEF validate

(* Funding an unfunded escrow keeps it valid.                              *)
LEMMA FundingValidates ==
  ASSUME NEW s \in EscrowStates, validate(s), s.pending.kind = IDLE, s.funded = 0
  PROVE  WithFunding(s) \in EscrowStates /\ validate(WithFunding(s))
  <1>1. Total \in Nat
    BY ConfigAssumption DEF Total, SumSlots, Slots
  <1>2. WithFunding(s) \in EscrowStates
    BY <1>1 DEF WithFunding, EscrowStates
  <1>3. /\ InPhase(WithFunding(s), {PAID}) = InPhase(s, {PAID})
        /\ InPhase(WithFunding(s), {REFUNDED}) = InPhase(s, {REFUNDED})
    BY DEF InPhase, WithFunding, EscrowStates
  <1>4. BooksValid(WithFunding(s))
    BY <1>1, <1>3 DEF validate, BooksValid, WithFunding, EscrowStates
  <1>5. ReceiptsValid(WithFunding(s))
    BY DEF validate, ReceiptsValid, WithFunding, EscrowStates
  <1>6. FundingValid(WithFunding(s))
    BY DEF validate, FundingValid, WithFunding, EscrowStates
  <1>7. \A i \in Slots : MilestoneValid(WithFunding(s), i)
    BY DEF validate, MilestoneValid, WithFunding, EscrowStates
  <1>8. PendingValid(WithFunding(s))
    BY DEF validate, PendingValid, WithFunding, EscrowStates, IDLE, PAYMENT, REFUND
  <1>9. QED BY <1>2, <1>4, <1>5, <1>6, <1>7, <1>8 DEF validate

(* An idle, funded escrow stays valid when a milestone moves between the   *)
(* phases that are neither paid nor refunded.                              *)
LEMMA RephasingValidates ==
  ASSUME NEW s \in EscrowStates, validate(s), s.pending.kind = IDLE, s.funded # 0,
         NEW i \in Milestones, NEW q \in {SUBMITTED, APPROVED}, NEW h \in Hashes,
         s.phases[i] \in {OPEN, SUBMITTED},
         NEW t, t = [s EXCEPT !.phases[i] = q, !.hashes[i] = h]
  PROVE  t \in EscrowStates /\ validate(t)
  <1>0. i \in Slots /\ i < Count
    BY DEF Milestones
  <1>1. t \in EscrowStates
    <2>1. q \in Phases
      BY DEF Phases, SUBMITTED, APPROVED, REFUNDED, OPEN
    <2>2. [s.phases EXCEPT ![i] = q] \in [Slots -> Phases]
      BY <1>0, <2>1 DEF EscrowStates
    <2>3. [s.hashes EXCEPT ![i] = h] \in [Slots -> Hashes \cup {NoHash}]
      BY <1>0 DEF EscrowStates
    <2>4. QED BY <2>2, <2>3 DEF EscrowStates
  <1>2. InPhase(t, {PAID}) = InPhase(s, {PAID}) /\ InPhase(t, {REFUNDED}) = InPhase(s, {REFUNDED})
    BY <1>0 DEF InPhase, Milestones, EscrowStates, OPEN, SUBMITTED, APPROVED, PAID, REFUNDED
  <1>3. BooksValid(t)
    BY <1>2 DEF validate, BooksValid, EscrowStates
  <1>4. ReceiptsValid(t)
    BY DEF validate, ReceiptsValid, EscrowStates
  <1>5. FundingValid(t)
    BY DEF validate, FundingValid, EscrowStates
  <1>6. \A j \in Slots : MilestoneValid(t, j)
    <2>1. TAKE j \in Slots
    <2>2. MilestoneValid(s, j)
      BY DEF validate
    <2>3. CASE j = i
      <3>1. t.phases[j] = q /\ t.hashes[j] = h /\ h # NoHash
        BY <2>3, <1>0, HashAssumption DEF EscrowStates
      <3>2. ~(j >= Count)
        BY <2>3, <1>0, ConfigAssumption DEF Slots
      <3>3. QED BY <3>1, <3>2 DEF MilestoneValid, OPEN, SUBMITTED, APPROVED
    <2>4. CASE j # i
      BY <2>2, <2>4, <1>0 DEF MilestoneValid, EscrowStates
    <2>5. QED BY <2>3, <2>4
  <1>7. PendingValid(t)
    BY DEF validate, PendingValid, EscrowStates, IDLE, PAYMENT, REFUND
  <1>8. QED BY <1>1, <1>3, <1>4, <1>5, <1>6, <1>7 DEF validate

(* SUBMIT keeps the state valid.                                           *)
LEMMA SubmissionValidates ==
  ASSUME NEW s \in EscrowStates, validate(s), s.pending.kind = IDLE, s.funded # 0,
         NEW i \in Milestones, s.phases[i] \in {OPEN, SUBMITTED}, NEW h \in Hashes
  PROVE  WithSubmission(s, i, h) \in EscrowStates /\ validate(WithSubmission(s, i, h))
  BY RephasingValidates DEF WithSubmission

(* APPROVE keeps the state valid.                                          *)
LEMMA ApprovalValidates ==
  ASSUME NEW s \in EscrowStates, validate(s), s.pending.kind = IDLE, s.funded # 0,
         NEW i \in Milestones, s.phases[i] = SUBMITTED
  PROVE  WithApproval(s, i) \in EscrowStates /\ validate(WithApproval(s, i))
  <1>1. i \in Slots /\ s.hashes[i] \in Hashes
    BY DEF Milestones, validate, MilestoneValid, EscrowStates, SUBMITTED
  <1>2. WithApproval(s, i) = [s EXCEPT !.phases[i] = APPROVED, !.hashes[i] = s.hashes[i]]
    BY <1>1 DEF WithApproval, EscrowStates
  <1>3. QED BY <1>1, <1>2, RephasingValidates

(* dispatch keeps the state valid for an approved milestone and for the     *)
(* whole unapproved remainder.                                             *)
LEMMA DispatchValidates ==
  ASSUME NEW s \in EscrowStates, validate(s), s.pending.kind = IDLE, s.funded # 0,
         s.attempts < MaxAttempts,
         NEW kind, NEW index, NEW amount,
         \/ /\ kind = PAYMENT /\ index \in Milestones
            /\ s.phases[index] = APPROVED /\ amount = Amounts[index]
         \/ kind = REFUND /\ index = AllIndex /\ amount = refundable(s) /\ amount # 0
  PROVE  /\ WithDispatch(s, kind, index, amount) \in EscrowStates
         /\ validate(WithDispatch(s, kind, index, amount))
  <1> DEFINE t == WithDispatch(s, kind, index, amount)
  <1>1. /\ amount \in Nat
        /\ kind \in {PAYMENT, REFUND} /\ index \in Slots \cup {AllIndex}
    BY WorthType, ConfigAssumption DEF refundable, Milestones, PAYMENT, REFUND
  <1>2. t \in EscrowStates
    <2>1. s.attempts + 1 \in Nat
      BY DEF EscrowStates
    <2>2. [kind |-> kind, index |-> index, amount |-> amount, attempt |-> s.attempts + 1]
            \in Pendings
      BY <1>1, <2>1 DEF Pendings
    <2>3. QED BY <2>1, <2>2 DEF WithDispatch, EscrowStates
  <1>3. \A P : InPhase(t, P) = InPhase(s, P)
    BY DEF InPhase, WithDispatch, EscrowStates
  <1>4. BooksValid(t)
    BY <1>3 DEF validate, BooksValid, WithDispatch, EscrowStates
  <1>5. ReceiptsValid(t)
    BY <1>1, BoundAssumption
    DEF validate, ReceiptsValid, WithDispatch, EscrowStates, IDLE, PAYMENT, REFUND
  <1>6. FundingValid(t)
    BY DEF validate, FundingValid, WithDispatch, EscrowStates
  <1>7. \A j \in Slots : MilestoneValid(t, j)
    BY DEF validate, MilestoneValid, WithDispatch, EscrowStates
  <1>8. PendingValid(t)
    BY <1>1, <1>3
    DEF PendingValid, WithDispatch, EscrowStates, refundable, Milestones, IDLE, PAYMENT, REFUND
  <1>9. QED BY <1>2, <1>4, <1>5, <1>6, <1>7, <1>8 DEF validate

(* A payment's success callback keeps the state valid.                     *)
LEMMA PaymentValidates ==
  ASSUME NEW s \in EscrowStates, validate(s), s.pending.kind = PAYMENT
  PROVE  /\ Settled(s) \in EscrowStates
         /\ BooksValid(Settled(s)) /\ FundingValid(Settled(s))
         /\ \A j \in Slots : MilestoneValid(Settled(s), j)
  <1> DEFINE t == Settled(s)
             i == s.pending.index
  <1>1. /\ i \in Milestones /\ i \in Slots /\ s.phases[i] = APPROVED
        /\ s.pending.amount = Amounts[i] /\ s.funded # 0
    <2>1. /\ i < Count /\ s.phases[i] = APPROVED
          /\ s.pending.amount = Amounts[i] /\ s.funded # 0
      BY DEF validate, PendingValid, IDLE, PAYMENT
    <2>2. i \in Slots
      <3>1. s.pending.index \in Slots \cup {AllIndex}
        BY DEF EscrowStates, Pendings
      <3>2. s.pending.index # AllIndex
        BY <2>1, ConfigAssumption DEF AllIndex
      <3>3. QED BY <3>1, <3>2
    <2>3. QED BY <2>1, <2>2 DEF Milestones
  <1>2. t = [s EXCEPT !.phases[i] = PAID, !.paid = @ + s.pending.amount]
    BY DEF Settled
  <1>3. Amounts[i] \in Nat
    BY <1>1, ConfigAssumption
  <1>4. t \in EscrowStates
    <2>1. [s.phases EXCEPT ![i] = PAID] \in [Slots -> Phases]
      BY <1>1 DEF EscrowStates, Phases, PAID, OPEN, REFUNDED
    <2>2. s.paid + s.pending.amount \in Nat
      BY <1>1, <1>3 DEF EscrowStates
    <2>3. QED BY <1>2, <2>1, <2>2 DEF EscrowStates
  <1>5. /\ t.paid = s.paid + Amounts[i] /\ t.refunded = s.refunded /\ t.funded = s.funded
        /\ t.hashes = s.hashes /\ t.attempts = s.attempts
        /\ t.phases = [s.phases EXCEPT ![i] = PAID]
    BY <1>1, <1>2 DEF EscrowStates
  <1>6. InPhase(t, {PAID}) = InPhase(s, {PAID}) \cup {i} /\ InPhase(s, {PAID}) \cap {i} = {}
    BY <1>1, <1>5 DEF InPhase, Milestones, EscrowStates, APPROVED, PAID
  <1>7. InPhase(t, {REFUNDED}) = InPhase(s, {REFUNDED})
    BY <1>1, <1>5 DEF InPhase, Milestones, EscrowStates, APPROVED, PAID, REFUNDED
  <1>8. BooksValid(t)
    <2>1. t.paid = Worth(InPhase(t, {PAID}))
      <3>1. Worth(InPhase(s, {PAID}) \cup {i}) = Worth(InPhase(s, {PAID})) + Worth({i})
        BY <1>6, WorthUnion
      <3>2. s.paid = Worth(InPhase(s, {PAID}))
        BY DEF validate, BooksValid
      <3>3. QED BY <1>1, <1>5, <1>6, <3>1, <3>2, WorthSingle
    <2>2. t.refunded = Worth(InPhase(t, {REFUNDED}))
      BY <1>5, <1>7 DEF validate, BooksValid
    <2>3. t.funded = Total
      BY <1>1, <1>5 DEF validate, FundingValid
    <2>4. t.paid + t.refunded <= t.funded
      <3>1. /\ Total = Worth(InPhase(t, {OPEN, SUBMITTED})) + Worth(InPhase(t, {APPROVED}))
                       + Worth(InPhase(t, {PAID})) + Worth(InPhase(t, {REFUNDED}))
            /\ Worth(InPhase(t, {OPEN, SUBMITTED})) \in Nat /\ Worth(InPhase(t, {APPROVED})) \in Nat
            /\ Worth(InPhase(t, {PAID})) \in Nat /\ Worth(InPhase(t, {REFUNDED})) \in Nat
        BY <1>4, WorthOfPhases, WorthType DEF refundable
      <3>2. QED BY <2>1, <2>2, <2>3, <3>1
    <2>5. QED BY <2>1, <2>2, <2>4 DEF BooksValid
  <1>9. FundingValid(t)
    BY <1>1, <1>5 DEF validate, FundingValid
  <1>10. \A j \in Slots : MilestoneValid(t, j)
    <2>1. TAKE j \in Slots
    <2>2. MilestoneValid(s, j) /\ MilestoneValid(s, i)
      BY <1>1 DEF validate
    <2>3. CASE j = i
      <3>1. t.phases[j] = PAID /\ t.hashes[j] = s.hashes[i] /\ ~(j >= Count)
        <4>1. t.phases[j] = PAID /\ t.hashes[j] = s.hashes[i]
          BY <2>3, <1>1, <1>5 DEF EscrowStates
        <4>2. ~(j >= Count)
          BY <2>3, <1>1, ConfigAssumption DEF Milestones, Slots
        <4>3. QED BY <4>1, <4>2
      <3>2. QED BY <3>1, <2>2, <1>1 DEF MilestoneValid, OPEN, SUBMITTED, APPROVED, PAID
    <2>4. CASE j # i
      BY <2>2, <2>4, <1>5 DEF MilestoneValid, EscrowStates
    <2>5. QED BY <2>3, <2>4
  <1>11. QED BY <1>4, <1>8, <1>9, <1>10

(* A refund's success callback keeps the state valid.                      *)
LEMMA RefundValidates ==
  ASSUME NEW s \in EscrowStates, validate(s), s.pending.kind = REFUND
  PROVE  /\ Settled(s) \in EscrowStates
         /\ BooksValid(Settled(s)) /\ FundingValid(Settled(s))
         /\ \A j \in Slots : MilestoneValid(Settled(s), j)
  <1> DEFINE t == Settled(s)
             O == InPhase(s, {OPEN, SUBMITTED})
  <1>1. s.pending.amount = Worth(O) /\ s.funded # 0 /\ s.pending.amount # 0
    BY DEF validate, PendingValid, refundable, IDLE, PAYMENT, REFUND
  <1>2. t = [s EXCEPT !.phases = [i \in Slots |-> IF i \in O THEN REFUNDED ELSE s.phases[i]],
                      !.refunded = @ + s.pending.amount]
    BY DEF Settled, PAYMENT, REFUND
  <1>3. Worth(O) \in Nat
    BY WorthType
  <1>4. t \in EscrowStates
    <2>1. [i \in Slots |-> IF i \in O THEN REFUNDED ELSE s.phases[i]] \in [Slots -> Phases]
      BY DEF EscrowStates, Phases, OPEN, REFUNDED
    <2>2. s.refunded + s.pending.amount \in Nat
      BY <1>1, <1>3 DEF EscrowStates
    <2>3. QED BY <1>2, <2>1, <2>2 DEF EscrowStates
  <1>5. /\ t.paid = s.paid /\ t.refunded = s.refunded + Worth(O) /\ t.funded = s.funded
        /\ t.hashes = s.hashes /\ t.attempts = s.attempts
        /\ t.phases = [i \in Slots |-> IF i \in O THEN REFUNDED ELSE s.phases[i]]
    BY <1>1, <1>2 DEF EscrowStates
  <1>a. /\ O \subseteq Milestones /\ Milestones \subseteq Slots
        /\ \A i \in Milestones : i \in O <=> s.phases[i] \in {OPEN, SUBMITTED}
        /\ \A i \in Milestones : t.phases[i] = IF i \in O THEN REFUNDED ELSE s.phases[i]
    BY <1>5 DEF InPhase, Milestones
  <1> HIDE DEF O, t
  <1>6. /\ InPhase(t, {REFUNDED}) = InPhase(s, {REFUNDED}) \cup O
        /\ InPhase(s, {REFUNDED}) \cap O = {}
    BY <1>a DEF InPhase, OPEN, SUBMITTED, REFUNDED
  <1>7. InPhase(t, {PAID}) = InPhase(s, {PAID})
    BY <1>a DEF InPhase, OPEN, SUBMITTED, PAID, REFUNDED
  <1>8. BooksValid(t)
    <2>1. t.paid = Worth(InPhase(t, {PAID}))
      BY <1>5, <1>7 DEF validate, BooksValid
    <2>2. t.refunded = Worth(InPhase(t, {REFUNDED}))
      <3>1. Worth(InPhase(s, {REFUNDED}) \cup O) = Worth(InPhase(s, {REFUNDED})) + Worth(O)
        BY <1>6, WorthUnion
      <3>2. s.refunded = Worth(InPhase(s, {REFUNDED}))
        BY DEF validate, BooksValid
      <3>3. QED BY <1>5, <1>6, <3>1, <3>2
    <2>3. t.funded = Total
      BY <1>1, <1>5 DEF validate, FundingValid
    <2>4. t.paid + t.refunded <= t.funded
      <3>1. /\ Total = Worth(InPhase(t, {OPEN, SUBMITTED})) + Worth(InPhase(t, {APPROVED}))
                       + Worth(InPhase(t, {PAID})) + Worth(InPhase(t, {REFUNDED}))
            /\ Worth(InPhase(t, {OPEN, SUBMITTED})) \in Nat /\ Worth(InPhase(t, {APPROVED})) \in Nat
            /\ Worth(InPhase(t, {PAID})) \in Nat /\ Worth(InPhase(t, {REFUNDED})) \in Nat
        BY <1>4, WorthOfPhases, WorthType DEF refundable
      <3>2. QED BY <2>1, <2>2, <2>3, <3>1
    <2>5. QED BY <2>1, <2>2, <2>4 DEF BooksValid
  <1>9. FundingValid(t)
    BY <1>1, <1>5 DEF validate, FundingValid
  <1>10. \A j \in Slots : MilestoneValid(t, j)
    <2>1. TAKE j \in Slots
    <2>2. MilestoneValid(s, j)
      BY DEF validate
    <2>3. CASE j \in O
      <3>1. t.phases[j] = REFUNDED /\ ~(j >= Count)
        BY <2>3, <1>a, ConfigAssumption DEF Milestones, Slots
      <3>2. QED BY <3>1 DEF MilestoneValid, OPEN, SUBMITTED, APPROVED, PAID, REFUNDED
    <2>4. CASE j \notin O
      BY <2>2, <2>4, <1>5 DEF MilestoneValid
    <2>5. QED BY <2>3, <2>4
  <1>11. QED BY <1>4, <1>8, <1>9, <1>10 DEF t

(* Both branches of callback keep the state valid, provided the receipt is *)
(* new: finish() cannot refuse what the checks of callback let through.     *)
LEMMA CallbackValidates ==
  ASSUME NEW s \in EscrowStates, validate(s), s.pending.kind # IDLE,
         NEW success \in BOOLEAN, NEW hash \in Nat, hash # 0,
         \A k \in 1..Len(s.receipts) : s.receipts[k] # hash
  PROVE  /\ AfterCallback(s, success, hash) \in EscrowStates
         /\ validate(AfterCallback(s, success, hash))
  <1> DEFINE u == IF success THEN Settled(s) ELSE s
             t == WithReceipt(u, hash)
  <1>1. s.pending.kind \in {PAYMENT, REFUND}
    BY DEF EscrowStates, Pendings
  <1>2. /\ u \in EscrowStates /\ BooksValid(u) /\ FundingValid(u)
        /\ \A j \in Slots : MilestoneValid(u, j)
    <2>1. CASE success /\ s.pending.kind = PAYMENT
      BY <2>1, PaymentValidates
    <2>2. CASE success /\ s.pending.kind = REFUND
      BY <2>2, RefundValidates
    <2>3. CASE ~success
      BY <2>3 DEF validate
    <2>4. QED BY <1>1, <2>1, <2>2, <2>3
  <1>3. u.receipts = s.receipts /\ u.attempts = s.attempts
    BY DEF Settled, EscrowStates
  <1> HIDE DEF u
  <1>4. NoPending \in Pendings /\ NoPending.kind = IDLE
    BY DEF NoPending, Pendings, Slots
  <1>5. /\ t \in EscrowStates
        /\ t.pending = NoPending /\ t.receipts = Append(s.receipts, hash)
        /\ t.attempts = s.attempts /\ t.funded = u.funded /\ t.paid = u.paid
        /\ t.refunded = u.refunded /\ t.phases = u.phases /\ t.hashes = u.hashes
    <2>1. Append(s.receipts, hash) \in Seq(Nat)
      BY DEF EscrowStates
    <2>2. t = [u EXCEPT !.receipts = Append(s.receipts, hash), !.pending = NoPending]
      BY <1>3 DEF WithReceipt
    <2>3. QED BY <1>2, <1>3, <1>4, <2>1, <2>2 DEF EscrowStates
  <1> HIDE DEF t
  <1>6. \A P : InPhase(t, P) = InPhase(u, P)
    BY <1>5 DEF InPhase
  <1>7. BooksValid(t)
    BY <1>2, <1>5, <1>6 DEF BooksValid
  <1>8. FundingValid(t)
    BY <1>2, <1>3, <1>5 DEF FundingValid
  <1>9. \A j \in Slots : MilestoneValid(t, j)
    BY <1>2, <1>5 DEF MilestoneValid
  <1>10. ReceiptsValid(t)
    <2>1. s.receipts \in Seq(Nat) /\ Len(s.receipts) + 1 = s.attempts /\ s.attempts <= MaxAttempts
      BY DEF validate, ReceiptsValid, EscrowStates
    <2>2. Len(t.receipts) = Len(s.receipts) + 1 /\ Len(s.receipts) \in Nat
      BY <1>5, <2>1
    <2>3. \A k \in 1..Len(t.receipts) :
            t.receipts[k] = IF k = Len(s.receipts) + 1 THEN hash ELSE s.receipts[k]
      BY <1>5, <2>1
    <2>4. /\ \A k \in 1..Len(s.receipts) : s.receipts[k] # 0
          /\ \A k, l \in 1..Len(s.receipts) : s.receipts[k] = s.receipts[l] => k = l
      BY DEF validate, ReceiptsValid
    <2>5. QED BY <1>4, <1>5, <2>1, <2>2, <2>3, <2>4 DEF ReceiptsValid
  <1>11. PendingValid(t)
    BY <1>5 DEF PendingValid, NoPending, IDLE, PAYMENT, REFUND
  <1>12. t = AfterCallback(s, success, hash)
    BY DEF AfterCallback, t, u
  <1>13. QED BY <1>5, <1>7, <1>8, <1>9, <1>10, <1>11, <1>12 DEF validate

----------------------------------------------------------------------------
(***************************************************************************)
(* What is in flight, and the inductive invariant.                         *)
(***************************************************************************)
(* The k-th receipt is the k-th attempt's.                                 *)
ReceiptsInOrder == \A k \in 1..Len(esc.receipts) : esc.receipts[k] = k

(* At most one message is in transit, it carries the pending transfer, and  *)
(* the pending attempt has no callback yet.                                *)
TransitInv ==
    \A m \in transit :
      /\ esc.pending.kind # IDLE
      /\ m.body = esc.pending
      /\ m.to = RecipientOf(esc.pending)
      /\ m.principal = esc.pending.amount
      /\ \A n \in transit : n = m
      /\ \A c \in callbacks : c.hash # esc.pending.attempt

Genuine(c) ==
    /\ c.source = RecipientOf(esc.pending)
    /\ IF c.ok THEN c.principal = 0 /\ c.body = payment_body(esc.pending)
               ELSE c.principal = esc.pending.amount /\ c.body = EmptyBody

(* One callback per attempt made; the one that answers the pending attempt *)
(* says what the receiver did.                                             *)
CallbackInv ==
    \A c \in callbacks :
      /\ c.hash \in 1..esc.attempts
      /\ esc.pending.kind # IDLE /\ c.hash = esc.attempts => Genuine(c)
      /\ \A d \in callbacks : d.hash = c.hash => d = c

IInv ==
    /\ TypeOK
    /\ validate(esc)
    /\ deployed \/ esc = NewState
    /\ ReceiptsInOrder
    /\ TransitInv
    /\ CallbackInv
    /\ LedgerAgrees

----------------------------------------------------------------------------
LEMMA InitInv == Init => IInv
  <1> SUFFICES ASSUME Init PROVE IInv
    OBVIOUS
  <1>1. NewState \in EscrowStates /\ validate(NewState)
    BY NewStateValid
  <1>2. rcv \in [Recipients -> Receivers] /\ \A r \in Recipients : rcv[r].received = 0
    BY DEF Init, NewReceiver, Receivers, Recipients
  <1>3. TypeOK
    BY <1>1, <1>2 DEF Init, TypeOK
  <1>4. LedgerAgrees
    BY <1>2 DEF Init, LedgerAgrees, LandedAt, Landed, NewState, NoPending, Recipients
  <1>5. ReceiptsInOrder /\ TransitInv /\ CallbackInv
    BY DEF Init, NewState, ReceiptsInOrder, TransitInv, CallbackInv
  <1>6. QED BY <1>1, <1>3, <1>4, <1>5 DEF IInv, Init

(* What the steps outside the escrow's business and the runtime leave       *)
(* alone is all the invariant speaks about.                                *)
LEMMA QuietStep ==
  ASSUME IInv, TypeOK', esc' = esc, bal' = bal, deployed => deployed',
         transit' = transit, callbacks' = callbacks,
         \A r \in Recipients : rcv'[r].received = rcv[r].received
  PROVE  IInv'
  <1>1. LedgerAgrees'
    BY DEF IInv, LedgerAgrees, LandedAt, Landed, Recipients
  <1>2. ReceiptsInOrder' /\ TransitInv' /\ CallbackInv'
    BY DEF IInv, ReceiptsInOrder, TransitInv, CallbackInv, Genuine
  <1>3. QED BY <1>1, <1>2 DEF IInv

(* While no transfer is pending nothing is in transit and nothing landed.   *)
LEMMA IdleFacts ==
  ASSUME IInv, esc.pending.kind = IDLE
  PROVE  /\ transit = {} /\ ~Landed /\ esc.pending.amount = 0 /\ esc.pending = NoPending
         /\ \A r \in Recipients : LandedAt(r) = 0
  <1>1. transit = {}
    BY DEF IInv, TransitInv
  <1>2. esc.pending = NoPending
    BY DEF IInv, validate, PendingValid
  <1>3. QED BY <1>1, <1>2 DEF Landed, LandedAt, NoPending

(* Funding, submission and approval: an idle escrow changes its phases,     *)
(* hashes and deposit only.                                                *)
LEMMA BusinessStep ==
  ASSUME IInv, TypeOK', esc.pending.kind = IDLE, deployed', validate(esc)',
         esc'.pending = esc.pending, esc'.attempts = esc.attempts,
         esc'.receipts = esc.receipts, esc'.paid = esc.paid, esc'.refunded = esc.refunded,
         bal' + esc.funded = bal + esc'.funded,
         transit' = transit, callbacks' = callbacks, rcv' = rcv
  PROVE  IInv'
  <1>1. TypeOK
    BY DEF IInv
  <1>2. /\ esc.funded \in Nat /\ esc'.funded \in Nat /\ esc.paid \in Nat
        /\ esc.refunded \in Nat /\ bal \in Nat /\ bal' \in Nat
    BY <1>1 DEF TypeOK, EscrowStates
  <1>3. LedgerAgrees'
    <2>1. /\ esc.pending.amount = 0 /\ LandedAt(PayTo) = 0 /\ LandedAt(RefundTo) = 0
      BY IdleFacts DEF Recipients
    <2>2. ~Landed'
      BY DEF Landed
    <2>3. LandedAt(PayTo)' = 0 /\ LandedAt(RefundTo)' = 0
      BY <2>2 DEF LandedAt
    <2>4. LedgerAgrees
      BY DEF IInv
    <2>5. QED BY <1>2, <2>1, <2>3, <2>4 DEF LedgerAgrees
  <1>4. ReceiptsInOrder' /\ TransitInv' /\ CallbackInv'
    BY DEF IInv, ReceiptsInOrder, TransitInv, CallbackInv, Genuine
  <1>5. QED BY <1>3, <1>4 DEF IInv

(* A dispatched transfer is the only thing in transit, under a number no   *)
(* callback bears.                                                         *)
LEMMA DispatchStep ==
  ASSUME IInv, Idle, esc.funded # 0,
         NEW kind, NEW index, NEW amount,
         \/ /\ kind = PAYMENT /\ index \in Milestones
            /\ esc.phases[index] = APPROVED /\ amount = Amounts[index]
         \/ kind = REFUND /\ index = AllIndex /\ amount = refundable(esc) /\ amount # 0,
         dispatch(kind, index, amount)
  PROVE  IInv'
  <1>1. /\ TypeOK /\ esc \in EscrowStates /\ validate(esc) /\ esc.pending.kind = IDLE
        /\ transit = {} /\ ~Landed /\ esc.pending.amount = 0 /\ esc.pending = NoPending
        /\ LandedAt(PayTo) = 0 /\ LandedAt(RefundTo) = 0 /\ esc.attempts < MaxAttempts
    BY IdleFacts DEF IInv, TypeOK, Idle, Recipients, dispatch, CanDispatch
  <1>2. esc' = WithDispatch(esc, kind, index, amount)
    BY DEF dispatch, finish
  <1>3. esc' \in EscrowStates /\ validate(esc')
    BY <1>1, <1>2, DispatchValidates
  <1>4. /\ esc'.attempts = esc.attempts + 1 /\ esc'.receipts = esc.receipts
        /\ esc'.pending = [kind |-> kind, index |-> index, amount |-> amount,
                           attempt |-> esc.attempts + 1]
        /\ esc'.paid = esc.paid /\ esc'.refunded = esc.refunded /\ esc'.funded = esc.funded
    BY <1>1, <1>2 DEF WithDispatch, EscrowStates
  <1>5. /\ esc.funded \in Nat /\ esc.paid \in Nat /\ esc.refunded \in Nat
        /\ esc.attempts \in Nat /\ amount \in Nat /\ kind \in {PAYMENT, REFUND}
        /\ esc'.pending \in Pendings
    BY <1>1, <1>3, WorthType, ConfigAssumption
    DEF EscrowStates, refundable, Milestones, PAYMENT, REFUND
  <1>6. bal' = bal - amount /\ bal = esc.funded - esc.paid - esc.refunded /\ bal' \in Nat
    <2>1. bal \in Nat /\ bal + esc.pending.amount + esc.paid + esc.refunded = esc.funded
      BY <1>1 DEF IInv, LedgerAgrees, TypeOK
    <2>2. amount + esc.paid + esc.refunded <= esc.funded
      <3>1. /\ esc.funded = Total
            /\ esc.paid = Worth(InPhase(esc, {PAID}))
            /\ esc.refunded = Worth(InPhase(esc, {REFUNDED}))
        BY <1>1 DEF validate, FundingValid, BooksValid
      <3>2. /\ Total = refundable(esc) + Worth(InPhase(esc, {APPROVED}))
                       + Worth(InPhase(esc, {PAID})) + Worth(InPhase(esc, {REFUNDED}))
            /\ refundable(esc) \in Nat /\ Worth(InPhase(esc, {APPROVED})) \in Nat
            /\ Worth(InPhase(esc, {PAID})) \in Nat /\ Worth(InPhase(esc, {REFUNDED})) \in Nat
        BY <1>1, WorthOfPhases, WorthType DEF refundable
      <3>3. amount <= Worth(InPhase(esc, {APPROVED})) \/ amount = refundable(esc)
        <4>1. CASE kind = PAYMENT
          <5>1. index \in InPhase(esc, {APPROVED}) /\ index \in Slots /\ amount = Amounts[index]
            BY <4>1 DEF InPhase, Milestones, PAYMENT, REFUND
          <5>2. Worth(InPhase(esc, {APPROVED})) =
                  Worth({index}) + Worth(InPhase(esc, {APPROVED}) \ {index})
            <6>1. /\ InPhase(esc, {APPROVED}) = {index} \cup (InPhase(esc, {APPROVED}) \ {index})
                  /\ {index} \cap (InPhase(esc, {APPROVED}) \ {index}) = {}
              BY <5>1
            <6>2. QED BY <6>1, WorthUnion
          <5>3. QED BY <5>1, <5>2, <3>2, WorthSingle, WorthType, <1>5
        <4>2. CASE kind = REFUND
          BY <4>2 DEF PAYMENT, REFUND
        <4>3. QED BY <1>5, <4>1, <4>2
      <3>4. QED BY <3>1, <3>2, <3>3, <1>5
    <2>3. bal' = bal - amount
      BY DEF dispatch
    <2>4. QED BY <1>1, <1>5, <2>1, <2>2, <2>3
  <1>7. PICK reserve \in {0, FuelReserve} :
          /\ transit' = {[to |-> RecipientOf(esc'.pending), body |-> esc'.pending,
                          principal |-> amount, reserve |-> reserve]}
          /\ shell' = shell - reserve
    BY <1>1 DEF dispatch, payment_body
  <1>8. TypeOK'
    <2>1. shell' \in Nat
      BY <1>1, <1>7, ActorAssumption DEF dispatch, CanDispatch, TypeOK
    <2>2. transit' \subseteq Messages
      BY <1>5, <1>7, ActorAssumption DEF Messages, RecipientOf, Recipients
    <2>3. QED BY <1>1, <1>3, <1>6, <2>1, <2>2 DEF TypeOK, dispatch
  <1>9. callbacks' = callbacks /\ rcv' = rcv /\ deployed' = deployed
    BY DEF dispatch
  <1>10. CallbackInv' /\ \A c \in callbacks' : c.hash # esc'.pending.attempt
    <2>1. \A c \in callbacks : c.hash \in 1..esc.attempts
      BY DEF IInv, CallbackInv
    <2>2. \A c \in callbacks : c.hash \in 1..esc'.attempts /\ c.hash # esc'.attempts
      BY <2>1, <1>4, <1>5
    <2>3. esc'.pending.attempt = esc'.attempts
      BY <1>4
    <2>4. \A c \in callbacks : \A d \in callbacks : d.hash = c.hash => d = c
      BY DEF IInv, CallbackInv
    <2>5. QED BY <1>9, <2>2, <2>3, <2>4 DEF CallbackInv
  <1>11. TransitInv'
    BY <1>4, <1>5, <1>7, <1>10 DEF TransitInv, IDLE, PAYMENT, REFUND
  <1>12. LedgerAgrees'
    <2>1. ~Landed'
      BY <1>9, <1>10 DEF Landed
    <2>2. LandedAt(PayTo)' = 0 /\ LandedAt(RefundTo)' = 0
      BY <2>1 DEF LandedAt
    <2>3. LedgerAgrees
      BY DEF IInv
    <2>4. bal \in Nat
      BY <1>1 DEF TypeOK
    <2>5. QED BY <1>1, <1>4, <1>5, <1>6, <1>9, <2>2, <2>3, <2>4 DEF LedgerAgrees
  <1>13. ReceiptsInOrder'
    BY <1>4 DEF IInv, ReceiptsInOrder
  <1>14. QED BY <1>3, <1>8, <1>9, <1>10, <1>11, <1>12, <1>13 DEF IInv, Idle, Decoded

(* The only callback that is not yet receipted answers the pending attempt; *)
(* the escrow accepts it and the result validates.                         *)
LEMMA FreshCallback ==
  ASSUME IInv, NEW c \in callbacks, Fresh(c)
  PROVE  /\ esc.pending.kind # IDLE
         /\ c.hash = esc.attempts /\ c.hash = esc.pending.attempt
         /\ Len(esc.receipts) + 1 = esc.attempts
         /\ Genuine(c)
         /\ AfterCallback(esc, c.ok, c.hash) \in EscrowStates
         /\ validate(AfterCallback(esc, c.ok, c.hash))
  <1>1. /\ esc \in EscrowStates /\ c \in CallbackRecords /\ validate(esc)
        /\ Len(esc.receipts) \in Nat /\ esc.attempts \in Nat
    BY DEF IInv, TypeOK, EscrowStates
  <1>2. c.hash \in 1..esc.attempts /\ \A k \in 1..Len(esc.receipts) : c.hash # k
    BY DEF IInv, CallbackInv, ReceiptsInOrder, Fresh
  <1>3. Len(esc.receipts) + (IF esc.pending.kind = IDLE THEN 0 ELSE 1) = esc.attempts
    BY <1>1 DEF validate, ReceiptsValid
  <1>4. /\ esc.pending.kind # IDLE /\ Len(esc.receipts) + 1 = esc.attempts
        /\ c.hash = esc.attempts
    <2>1. CASE esc.pending.kind = IDLE
      <3>1. Len(esc.receipts) = esc.attempts
        BY <1>1, <1>3, <2>1
      <3>2. QED BY <1>1, <1>2, <3>1
    <2>2. CASE esc.pending.kind # IDLE
      <3>1. Len(esc.receipts) + 1 = esc.attempts
        BY <1>3, <2>2
      <3>2. QED BY <1>1, <1>2, <2>2, <3>1
    <2>3. QED BY <2>1, <2>2
  <1>5. c.hash = esc.pending.attempt
    BY <1>1, <1>4 DEF validate, PendingValid
  <1>6. Genuine(c)
    BY <1>4 DEF IInv, CallbackInv
  <1>7. c.hash \in Nat /\ c.hash # 0 /\ c.ok \in BOOLEAN
    BY <1>1 DEF CallbackRecords, Fresh
  <1>8. QED BY <1>1, <1>4, <1>5, <1>6, <1>7, CallbackValidates DEF Fresh

(* Accepting a callback moves a landed amount into the books, or a returned *)
(* one back onto the balance.                                              *)
LEMMA CallbackStep ==
  ASSUME IInv, NEW c \in callbacks, Callback(c)
  PROVE  IInv'
  <1>1. Fresh(c) /\ deployed
    BY DEF Callback, CanCallback, Decoded
  <1>2. /\ esc.pending.kind # IDLE /\ c.hash = esc.attempts /\ c.hash = esc.pending.attempt
        /\ Len(esc.receipts) + 1 = esc.attempts /\ Genuine(c)
        /\ esc' = AfterCallback(esc, c.ok, c.hash) /\ esc' \in EscrowStates /\ validate(esc')
    BY <1>1, FreshCallback DEF Callback, finish
  <1>3. /\ bal' = bal + c.principal /\ shell' = shell + c.shell /\ transit' = transit
        /\ callbacks' = callbacks /\ rcv' = rcv /\ deployed' = deployed
    BY DEF Callback
  <1>4. /\ TypeOK /\ esc \in EscrowStates /\ c \in CallbackRecords /\ bal \in Nat
        /\ esc.pending \in Pendings /\ esc.pending.amount \in Nat
        /\ esc.pending.kind \in {PAYMENT, REFUND}
        /\ esc.paid \in Nat /\ esc.refunded \in Nat /\ esc.funded \in Nat /\ c.ok \in BOOLEAN
    BY <1>2 DEF IInv, TypeOK, EscrowStates, CallbackRecords, Pendings
  <1>5. /\ esc'.pending = NoPending /\ esc'.receipts = Append(esc.receipts, c.hash)
        /\ esc'.attempts = esc.attempts /\ esc'.funded = esc.funded
        /\ esc'.paid = esc.paid + (IF c.ok /\ esc.pending.kind = PAYMENT
                                  THEN esc.pending.amount ELSE 0)
        /\ esc'.refunded = esc.refunded + (IF c.ok /\ esc.pending.kind = REFUND
                                          THEN esc.pending.amount ELSE 0)
    <2> DEFINE u == IF c.ok THEN Settled(esc) ELSE esc
    <2>1. /\ u.receipts = esc.receipts /\ u.attempts = esc.attempts /\ u.funded = esc.funded
          /\ u.paid = esc.paid + (IF c.ok /\ esc.pending.kind = PAYMENT
                                  THEN esc.pending.amount ELSE 0)
          /\ u.refunded = esc.refunded + (IF c.ok /\ esc.pending.kind = REFUND
                                          THEN esc.pending.amount ELSE 0)
      <3>1. CASE c.ok /\ esc.pending.kind = PAYMENT
        BY <1>4, <3>1 DEF Settled, EscrowStates, PAYMENT, REFUND
      <3>2. CASE c.ok /\ esc.pending.kind = REFUND
        BY <1>4, <3>2 DEF Settled, EscrowStates, PAYMENT, REFUND
      <3>3. CASE ~c.ok
        BY <1>4, <3>3
      <3>4. QED BY <1>4, <3>1, <3>2, <3>3
    <2>2. u \in EscrowStates
      <3>1. validate(esc)
        BY DEF IInv
      <3>2. QED BY <1>4, <3>1, PaymentValidates, RefundValidates
    <2>3. esc' = [u EXCEPT !.receipts = Append(u.receipts, c.hash), !.pending = NoPending]
      BY <1>2 DEF AfterCallback, WithReceipt
    <2> HIDE DEF u
    <2>4. QED BY <2>1, <2>2, <2>3 DEF EscrowStates
  <1>6. TypeOK'
    <2>1. bal' \in Nat
      BY <1>3, <1>4 DEF CallbackRecords
    <2>2. shell' \in Nat
      BY <1>3, <1>4 DEF CallbackRecords, TypeOK
    <2>3. QED BY <1>2, <1>3, <1>4, <2>1, <2>2 DEF TypeOK, Callback
  <1>7. transit = {}
    BY <1>2 DEF IInv, TransitInv
  <1>8. ReceiptsInOrder'
    <2>1. esc.receipts \in Seq(Nat) /\ Len(esc.receipts) \in Nat /\ ReceiptsInOrder
      BY <1>4 DEF EscrowStates, IInv
    <2>2. \A k \in 1..Len(esc'.receipts) : esc'.receipts[k] = k
      BY <1>2, <1>5, <2>1 DEF ReceiptsInOrder
    <2>3. QED BY <2>2 DEF ReceiptsInOrder
  <1>9. TransitInv' /\ CallbackInv'
    BY <1>3, <1>5, <1>7 DEF TransitInv, CallbackInv, NoPending, IInv
  <1>10. LedgerAgrees'
    <2>1. LandedAt(PayTo)' = 0 /\ LandedAt(RefundTo)' = 0
      BY <1>5 DEF LandedAt, Landed, NoPending
    <2>2. Landed <=> c.ok
      BY <1>2, <1>4 DEF Landed, IInv, CallbackInv
    <2>3. LedgerAgrees
      BY DEF IInv
    <2>4. esc'.pending.amount = 0
      BY <1>5 DEF NoPending
    <2>5. CASE c.ok
      <3>1. c.principal = 0
        BY <1>2, <2>5 DEF Genuine
      <3>2. CASE esc.pending.kind = PAYMENT
        <4>1. LandedAt(PayTo) = esc.pending.amount /\ LandedAt(RefundTo) = 0
          BY <2>2, <2>5, <3>2, ActorAssumption DEF LandedAt, RecipientOf
        <4>2. QED BY <1>3, <1>4, <1>5, <2>1, <2>3, <2>4, <2>5, <3>1, <3>2, <4>1
                  DEF LedgerAgrees, PAYMENT, REFUND
      <3>3. CASE esc.pending.kind = REFUND
        <4>1. LandedAt(RefundTo) = esc.pending.amount /\ LandedAt(PayTo) = 0
          BY <2>2, <2>5, <3>3, ActorAssumption DEF LandedAt, RecipientOf, PAYMENT, REFUND
        <4>2. QED BY <1>3, <1>4, <1>5, <2>1, <2>3, <2>4, <2>5, <3>1, <3>3, <4>1
                  DEF LedgerAgrees, PAYMENT, REFUND
      <3>4. QED BY <1>4, <3>2, <3>3
    <2>6. CASE ~c.ok
      <3>1. c.principal = esc.pending.amount
        BY <1>2, <2>6 DEF Genuine
      <3>2. LandedAt(PayTo) = 0 /\ LandedAt(RefundTo) = 0
        BY <2>2, <2>6 DEF LandedAt
      <3>3. QED BY <1>3, <1>4, <1>5, <2>1, <2>3, <2>4, <2>6, <3>1, <3>2 DEF LedgerAgrees
    <2>7. QED BY <1>4, <2>5, <2>6
  <1>11. QED BY <1>1, <1>2, <1>3, <1>6, <1>8, <1>9, <1>10 DEF IInv

(* Delivery turns the message in transit into the pending attempt's only    *)
(* callback, and credits the receiver exactly when that callback succeeds.  *)
LEMMA DeliveryStep ==
  ASSUME IInv, NEW m \in transit, DeliverOk(m) \/ DeliverFailed(m)
  PROVE  IInv'
  <1>1. /\ TypeOK /\ m \in Messages /\ esc \in EscrowStates /\ esc.pending \in Pendings
        /\ esc.pending.kind # IDLE /\ m.body = esc.pending /\ m.to = RecipientOf(esc.pending)
        /\ m.principal = esc.pending.amount /\ transit = {m}
        /\ \A c \in callbacks : c.hash # esc.pending.attempt
        /\ esc.pending.attempt = esc.attempts /\ esc.pending.amount \in Nat
        /\ esc.attempts \in Nat
    BY DEF IInv, TypeOK, TransitInv, EscrowStates, Pendings, validate, PendingValid
  <1>2. transit' = {}
    BY <1>1 DEF DeliverOk, DeliverFailed
  <1>3. PICK d : /\ callbacks' = callbacks \cup {d}
                 /\ d \in CallbackRecords /\ d.hash = esc.attempts /\ Genuine(d)
                 /\ d.ok <=> DeliverOk(m)
    <2>0. /\ MsgHash(m) = esc.attempts /\ m.to \in Recipients /\ m.body \in Pendings
          /\ m.principal \in Nat /\ m.reserve \in Nat /\ EmptyBody \in Pendings
      BY <1>1 DEF MsgHash, Messages, EmptyBody, NoPending, Pendings, Slots
    <2>1. CASE DeliverOk(m)
      <3>1. PICK unused \in 0..m.reserve :
              callbacks' = callbacks \cup
                {[source |-> m.to, hash |-> MsgHash(m), ok |-> TRUE, principal |-> 0,
                  body |-> m.body, shell |-> unused]}
        BY <2>1 DEF DeliverOk
      <3> DEFINE e == [source |-> m.to, hash |-> MsgHash(m), ok |-> TRUE, principal |-> 0,
                       body |-> m.body, shell |-> unused]
      <3>2. unused \in Nat
        BY <2>0
      <3>3. e \in CallbackRecords
        BY <1>1, <2>0, <3>2 DEF CallbackRecords
      <3>4. e.hash = esc.attempts /\ e.ok /\ Genuine(e)
        BY <1>1, <2>0 DEF Genuine, payment_body
      <3>5. QED BY <2>1, <3>1, <3>3, <3>4
    <2>2. CASE ~DeliverOk(m)
      <3>1. PICK unused \in 0..m.reserve :
              callbacks' = callbacks \cup
                {[source |-> m.to, hash |-> MsgHash(m), ok |-> FALSE, principal |-> m.principal,
                  body |-> EmptyBody, shell |-> unused]}
        BY <2>2 DEF DeliverFailed
      <3> DEFINE e == [source |-> m.to, hash |-> MsgHash(m), ok |-> FALSE,
                       principal |-> m.principal, body |-> EmptyBody, shell |-> unused]
      <3>2. unused \in Nat
        BY <2>0
      <3>3. e \in CallbackRecords
        BY <1>1, <2>0, <3>2 DEF CallbackRecords
      <3>4. e.hash = esc.attempts /\ ~e.ok /\ Genuine(e)
        BY <1>1, <2>0 DEF Genuine
      <3>5. QED BY <2>2, <3>1, <3>3, <3>4
    <2>3. QED BY <2>1, <2>2
  <1>4. esc' = esc /\ bal' = bal /\ deployed' = deployed /\ shell' = shell /\ now' = now /\ signed' = signed
    BY DEF DeliverOk, DeliverFailed, escrowVars
  <1>5. Landed' <=> d.ok
    BY <1>1, <1>3, <1>4 DEF Landed
  <1>6. ~Landed
    BY <1>1 DEF Landed
  <1>7. /\ rcv' \in [Recipients -> Receivers]
        /\ rcv'[PayTo].received = rcv[PayTo].received + LandedAt(PayTo)'
        /\ rcv'[RefundTo].received = rcv[RefundTo].received + LandedAt(RefundTo)'
    <2>0. rcv \in [Recipients -> Receivers] /\ m.to \in Recipients
      BY <1>1 DEF TypeOK, Messages
    <2>1. CASE DeliverOk(m)
      <3>1. rcv' = [rcv EXCEPT ![m.to] = WithReceived(rcv[m.to], m)]
        BY <2>1 DEF DeliverOk
      <3>2. /\ WithReceived(rcv[m.to], m) \in Receivers
            /\ WithReceived(rcv[m.to], m).received = rcv[m.to].received + esc.pending.amount
        <4>1. /\ rcv[m.to] \in Receivers /\ m.body.attempt \in Nat /\ m.body.amount \in Nat
              /\ rcv[m.to].received + m.body.amount \in Nat /\ rcv[m.to].count + 1 \in Nat
          BY <1>1, <2>0 DEF Pendings, Receivers
        <4>2. QED BY <1>1, <4>1 DEF WithReceived, Receivers
      <3>3. \A r \in Recipients : LandedAt(r)' = IF r = m.to THEN esc.pending.amount ELSE 0
        BY <1>1, <1>3, <1>4, <1>5, <2>1 DEF LandedAt
      <3>4. \A r \in Recipients : rcv[r].received \in Nat
        BY <2>0 DEF Receivers
      <3>5. PayTo \in Recipients /\ RefundTo \in Recipients
        BY DEF Recipients
      <3>6. QED BY <2>0, <3>1, <3>2, <3>3, <3>4, <3>5
    <2>2. CASE ~DeliverOk(m)
      <3>1. rcv' = rcv /\ ~Landed'
        BY <1>3, <1>5, <2>2 DEF DeliverFailed
      <3>2. LandedAt(PayTo)' = 0 /\ LandedAt(RefundTo)' = 0
        BY <3>1 DEF LandedAt
      <3>3. rcv[PayTo].received \in Nat /\ rcv[RefundTo].received \in Nat
        BY <2>0 DEF Receivers, Recipients
      <3>4. QED BY <2>0, <3>1, <3>2, <3>3
    <2>3. QED BY <2>1, <2>2
  <1>8. TypeOK'
    BY <1>1, <1>2, <1>3, <1>4, <1>7 DEF TypeOK
  <1>9. LedgerAgrees'
    <2>1. LedgerAgrees /\ LandedAt(PayTo) = 0 /\ LandedAt(RefundTo) = 0
      BY <1>6 DEF IInv, LandedAt
    <2>2. esc.paid \in Nat /\ esc.refunded \in Nat
      BY <1>1 DEF EscrowStates
    <2>3. QED BY <1>4, <1>7, <2>1, <2>2 DEF LedgerAgrees
  <1>10. ReceiptsInOrder' /\ TransitInv'
    BY <1>2, <1>4 DEF IInv, ReceiptsInOrder, TransitInv
  <1>11. CallbackInv'
    <2>1. esc.attempts \in 1..esc.attempts
      <3>1. esc.attempts # 0
        BY <1>1 DEF IInv, validate, ReceiptsValid, EscrowStates
      <3>2. QED BY <1>1, <3>1
    <2>2. \A c \in callbacks : c.hash # d.hash
      BY <1>1, <1>3
    <2>3. Genuine(d)'
      BY <1>3, <1>4 DEF Genuine
    <2>4. QED BY <1>1, <1>3, <1>4, <2>1, <2>2, <2>3 DEF IInv, CallbackInv, Genuine
  <1>12. QED BY <1>4, <1>8, <1>9, <1>10, <1>11 DEF IInv

----------------------------------------------------------------------------
(* Every step of the composed system preserves the invariant.              *)
LEMMA NextInv == IInv /\ [Next]_vars => IInv'
  <1> SUFFICES ASSUME IInv, [Next]_vars PROVE IInv'
    OBVIOUS
  <1>0. /\ TypeOK /\ validate(esc) /\ esc \in EscrowStates
        /\ rcv \in [Recipients -> Receivers]
        /\ now \in Nat /\ shell \in Nat /\ bal \in Nat /\ Total \in Nat
    BY ConfigAssumption DEF IInv, TypeOK, Total, SumSlots, Slots
  <1>1. ASSUME NEW signer \in Signers, Initialize(signer) PROVE IInv'
    <2>1. esc' = esc /\ deployed'
      BY <1>1 DEF Initialize, CanInitialize, finish, IInv
    <2>2. TypeOK'
      BY <1>0, <1>1, <2>1 DEF TypeOK, Initialize
    <2>3. QED BY <1>1, <2>1, <2>2, QuietStep DEF Initialize
  <1>2. ASSUME NEW signer \in Signers, Fund(signer) PROVE IInv'
    <2>1. /\ esc.pending.kind = IDLE /\ esc.funded = 0 /\ deployed
          /\ esc' = WithFunding(esc) /\ bal' = bal + Total
      BY <1>2 DEF Fund, CanFund, Idle, Decoded, finish
    <2>2. esc' \in EscrowStates /\ validate(esc')
      BY <1>0, <2>1, FundingValidates
    <2>3. /\ esc'.pending = esc.pending /\ esc'.attempts = esc.attempts /\ esc'.funded = Total
          /\ esc'.receipts = esc.receipts /\ esc'.paid = esc.paid /\ esc'.refunded = esc.refunded
      BY <1>0, <2>1 DEF WithFunding, EscrowStates
    <2>4. TypeOK'
      BY <1>0, <1>2, <2>1, <2>2 DEF TypeOK, Fund
    <2>5. bal' + esc.funded = bal + esc'.funded
      BY <1>0, <2>1, <2>3
    <2>6. QED BY <1>2, <2>1, <2>2, <2>3, <2>4, <2>5, BusinessStep DEF Fund
  <1>3. ASSUME NEW signer \in Signers, NEW i \in Slots, NEW h \in Hashes,
               Submit(signer, i, h)
        PROVE  IInv'
    <2>1. /\ esc.pending.kind = IDLE /\ esc.funded # 0 /\ deployed /\ i \in Milestones
          /\ esc.phases[i] \in {OPEN, SUBMITTED} /\ esc' = WithSubmission(esc, i, h)
      BY <1>3 DEF Submit, CanSubmit, Idle, Decoded, finish, Milestones
    <2>2. esc' \in EscrowStates /\ validate(esc')
      BY <1>0, <2>1, SubmissionValidates
    <2>3. /\ esc'.pending = esc.pending /\ esc'.attempts = esc.attempts
          /\ esc'.funded = esc.funded /\ esc'.receipts = esc.receipts
          /\ esc'.paid = esc.paid /\ esc'.refunded = esc.refunded
      BY <1>0, <2>1 DEF WithSubmission, EscrowStates
    <2>4. TypeOK'
      BY <1>0, <1>3, <2>2 DEF TypeOK, Submit
    <2>5. QED BY <1>3, <2>1, <2>2, <2>3, <2>4, BusinessStep DEF Submit
  <1>4. ASSUME NEW signer \in Signers, NEW i \in Slots, NEW h \in Hashes,
               Approve(signer, i, h)
        PROVE  IInv'
    <2>1. /\ esc.pending.kind = IDLE /\ esc.funded # 0 /\ deployed /\ i \in Milestones
          /\ esc.phases[i] = SUBMITTED /\ esc' = WithApproval(esc, i)
      BY <1>4 DEF Approve, CanApprove, Idle, Decoded, finish, Milestones
    <2>2. esc' \in EscrowStates /\ validate(esc')
      BY <1>0, <2>1, ApprovalValidates
    <2>3. /\ esc'.pending = esc.pending /\ esc'.attempts = esc.attempts
          /\ esc'.funded = esc.funded /\ esc'.receipts = esc.receipts
          /\ esc'.paid = esc.paid /\ esc'.refunded = esc.refunded
      BY <1>0, <2>1 DEF WithApproval, EscrowStates
    <2>4. TypeOK'
      BY <1>0, <1>4, <2>2 DEF TypeOK, Approve
    <2>5. QED BY <1>4, <2>1, <2>2, <2>3, <2>4, BusinessStep DEF Approve
  <1>5. ASSUME NEW signer \in Signers, NEW i \in Slots, Pay(signer, i) PROVE IInv'
    BY <1>5, DispatchStep DEF Pay, CanPay, Milestones
  <1>6. ASSUME NEW signer \in Signers, Refund(signer) PROVE IInv'
    BY <1>6, DispatchStep DEF Refund, CanRefund
  <1>7. ASSUME NEW m \in transit, DeliverOk(m) \/ DeliverFailed(m) PROVE IInv'
    BY <1>7, DeliveryStep
  <1>8. ASSUME NEW c \in callbacks, Callback(c) PROVE IInv'
    BY <1>8, CallbackStep
  <1>9. ASSUME Tick PROVE IInv'
    <2>1. TypeOK'
      BY <1>0, <1>9 DEF TypeOK, Tick, escrowVars
    <2>2. QED BY <1>9, <2>1, QuietStep DEF Tick, escrowVars
  <1>10. ASSUME NEW amount \in 1..MaxShell, TopUp(amount) PROVE IInv'
    <2>1. shell' \in Nat
      BY <1>0, <1>10, ActorAssumption DEF TopUp
    <2>2. TypeOK'
      BY <1>0, <1>10, <2>1 DEF TypeOK, TopUp, finish
    <2>3. QED BY <1>10, <2>2, QuietStep DEF TopUp, finish
  <1>11. ASSUME NEW i \in Milestones, SignApproval(i) PROVE IInv'
    <2>1. esc.hashes[i] \in Hashes
      <3>1. i \in Slots /\ esc.phases[i] = SUBMITTED
        BY <1>11 DEF SignApproval, Milestones
      <3>2. QED BY <1>0, <3>1 DEF validate, MilestoneValid, EscrowStates
    <2>2. TypeOK'
      BY <1>0, <1>11, <2>1 DEF TypeOK, SignApproval, escrowVars
    <2>3. QED BY <1>11, <2>2, QuietStep DEF SignApproval, escrowVars
  <1>12. ASSUME NEW r \in Recipients, NEW source \in Sources, Bind(r, source) PROVE IInv'
    <2>1. rcv' = [rcv EXCEPT ![r] = [rcv[r] EXCEPT !.bound = source]]
      BY <1>12 DEF Bind
    <2>2. rcv[r] \in Receivers /\ source \in {NoAddress, Escrow, Other}
      BY <1>0, ActorAssumption
    <2>3. [rcv[r] EXCEPT !.bound = source] \in Receivers
      BY <2>2 DEF Receivers
    <2>4. rcv' \in [Recipients -> Receivers]
      BY <1>0, <2>1, <2>3
    <2>5. TypeOK'
      BY <1>0, <1>12, <2>4 DEF TypeOK, Bind, escrowVars
    <2>6. \A q \in Recipients : rcv'[q].received = rcv[q].received
      BY <1>0, <2>1, <2>2 DEF Receivers
    <2>7. QED BY <1>12, <2>5, <2>6, QuietStep DEF Bind, escrowVars
  <1>13. ASSUME NEW r \in Recipients, NEW flag \in RejectFlags, SetReject(r, flag) PROVE IInv'
    <2>1. rcv' = [rcv EXCEPT ![r] = [rcv[r] EXCEPT !.reject = flag]]
      BY <1>13 DEF SetReject
    <2>2. rcv[r] \in Receivers /\ flag \in BOOLEAN
      BY <1>0, ActorAssumption
    <2>3. [rcv[r] EXCEPT !.reject = flag] \in Receivers
      BY <2>2 DEF Receivers
    <2>4. rcv' \in [Recipients -> Receivers]
      BY <1>0, <2>1, <2>3
    <2>5. TypeOK'
      BY <1>0, <1>13, <2>4 DEF TypeOK, SetReject, escrowVars
    <2>6. \A q \in Recipients : rcv'[q].received = rcv[q].received
      BY <1>0, <2>1, <2>2 DEF Receivers
    <2>7. QED BY <1>13, <2>5, <2>6, QuietStep DEF SetReject, escrowVars
  <1>14. CASE UNCHANGED vars
    <2>1. TypeOK'
      BY <1>0, <1>14 DEF TypeOK, vars
    <2>2. QED BY <1>14, <2>1, QuietStep DEF vars
  <1>15. QED BY <1>1, <1>2, <1>3, <1>4, <1>5, <1>6, <1>7, <1>8, <1>9, <1>10, <1>11, <1>12, <1>13,
                <1>14 DEF Next, OwnerOrWorker, Runtime

(* The inductive invariant holds in every reachable state.                 *)
THEOREM Invariance == Spec => []IInv
  BY InitInv, NextInv, PTL DEF Spec

(* The state of escrow, receivers and messages keeps its types: balances    *)
(* and SHELL never go below zero.                                          *)
THEOREM TypeCorrect == Spec => []TypeOK
  <1>1. IInv => TypeOK
    BY DEF IInv
  <1>2. QED BY <1>1, Invariance, PTL

(* The escrow's books, its balance and the receivers' totals always agree,  *)
(* up to the one transfer whose receipt is outstanding.                    *)
THEOREM BooksAgree == Spec => []LedgerAgrees
  <1>1. IInv => LedgerAgrees
    BY DEF IInv
  <1>2. QED BY <1>1, Invariance, PTL

(* No receipt the escrow still waits for is ever refused, neither by the    *)
(* checks of callback nor by the validation in finish: the lock on an       *)
(* unresolved transfer opens as soon as the runtime presents the receipt.   *)
THEOREM CallbacksAccepted == Spec => []GenuineCallbackAccepted
  <1>1. IInv => GenuineCallbackAccepted
    <2> SUFFICES ASSUME IInv, NEW c \in callbacks, Fresh(c)
                 PROVE  CanCallback(c) /\ validate(AfterCallback(esc, c.ok, c.hash))
      BY DEF GenuineCallbackAccepted
    <2>1. /\ esc.pending.kind # IDLE /\ Genuine(c)
          /\ validate(AfterCallback(esc, c.ok, c.hash))
      BY FreshCallback
    <2>2. deployed
      BY <2>1 DEF IInv, NewState, NoPending
    <2>3. QED BY <2>1, <2>2 DEF CanCallback, Decoded, Genuine, IInv
  <1>2. QED BY <1>1, Invariance, PTL

(* The validation in finish() never refuses a candidate that the explicit   *)
(* checks of a handler let through.                                        *)
THEOREM FinishSucceeds == Spec => []FinishNeverFails
  <1>1. IInv => FinishNeverFails
    <2> SUFFICES ASSUME IInv PROVE FinishNeverFails
      OBVIOUS
    <2>0. esc \in EscrowStates /\ validate(esc)
      BY DEF IInv, TypeOK
    <2>1. validate(NewState)
      BY NewStateValid
    <2>2. ASSUME NEW signer \in Signers, CanFund(signer) PROVE validate(WithFunding(esc))
      BY <2>0, <2>2, FundingValidates DEF CanFund, Idle
    <2>3. ASSUME NEW signer \in Signers, CanRefund(signer), CanDispatch
          PROVE  validate(WithDispatch(esc, REFUND, AllIndex, refundable(esc)))
      BY <2>0, <2>3, DispatchValidates DEF CanRefund, Idle, CanDispatch
    <2>4. ASSUME NEW signer \in Signers, NEW i \in Slots, CanPay(signer, i), CanDispatch
          PROVE  validate(WithDispatch(esc, PAYMENT, i, Amounts[i]))
      BY <2>0, <2>4, DispatchValidates DEF CanPay, Idle, CanDispatch, Milestones
    <2>5. ASSUME NEW signer \in Signers, NEW i \in Slots, NEW h \in Hashes,
                 CanSubmit(signer, i, h)
          PROVE  validate(WithSubmission(esc, i, h))
      BY <2>0, <2>5, SubmissionValidates DEF CanSubmit, Idle, Milestones
    <2>6. ASSUME NEW signer \in Signers, NEW i \in Slots, NEW h \in Hashes,
                 CanApprove(signer, i, h)
          PROVE  validate(WithApproval(esc, i))
      BY <2>0, <2>6, ApprovalValidates DEF CanApprove, Idle, Milestones
    <2>7. QED BY <2>0, <2>1, <2>2, <2>3, <2>4, <2>5, <2>6 DEF FinishNeverFails
  <1>2. QED BY <1>1, Invariance, PTL

----------------------------------------------------------------------------
(***************************************************************************)
(* What the invariant implies about the milestones: the ways a step can    *)
(* change a phase, and from them that outcomes are final, that what is paid*)
(* was signed for, and that an expired escrow can always be emptied.       *)
(***************************************************************************)
SamePhases == esc'.phases = esc.phases /\ esc'.hashes = esc.hashes

Delivers(i, h) ==
    /\ esc.phases[i] \in {OPEN, SUBMITTED}
    /\ esc'.phases = [esc.phases EXCEPT ![i] = SUBMITTED]
    /\ esc'.hashes = [esc.hashes EXCEPT ![i] = h]

Approves(i) ==
    /\ esc.phases[i] = SUBMITTED /\ <<i, esc.hashes[i]>> \in signed
    /\ esc'.phases = [esc.phases EXCEPT ![i] = APPROVED]
    /\ esc'.hashes = esc.hashes

PaysOut(i) ==
    /\ esc.phases[i] = APPROVED
    /\ esc'.phases = [esc.phases EXCEPT ![i] = PAID]
    /\ esc'.hashes = esc.hashes

PaysBack ==
    /\ esc'.phases = [i \in Slots |-> IF i \in InPhase(esc, {OPEN, SUBMITTED})
                                      THEN REFUNDED ELSE esc.phases[i]]
    /\ esc'.hashes = esc.hashes

----------------------------------------------------------------------------
(* A receipt changes the phases the pending transfer stands for, or none.   *)
LEMMA ReceiptPhases ==
  ASSUME IInv, NEW c \in callbacks, Callback(c)
  PROVE  \/ ~c.ok /\ SamePhases
         \/ c.ok /\ esc.pending.kind = PAYMENT /\ esc.pending.index \in Milestones
            /\ PaysOut(esc.pending.index)
         \/ c.ok /\ esc.pending.kind = REFUND /\ PaysBack
  <1>1. /\ esc.pending.kind # IDLE /\ esc' = AfterCallback(esc, c.ok, c.hash)
        /\ esc \in EscrowStates /\ validate(esc) /\ c.ok \in BOOLEAN
    BY FreshCallback DEF Callback, CanCallback, finish, IInv, TypeOK, CallbackRecords
  <1>2. esc.pending.kind \in {PAYMENT, REFUND} /\ esc.pending.index \in Slots \cup {AllIndex}
    BY <1>1 DEF EscrowStates, Pendings
  <1>3. CASE ~c.ok
    BY <1>1, <1>3 DEF AfterCallback, WithReceipt, EscrowStates, SamePhases
  <1>4. CASE c.ok /\ esc.pending.kind = PAYMENT
    <2>1. esc.pending.index < Count /\ esc.phases[esc.pending.index] = APPROVED
      BY <1>1, <1>4 DEF validate, PendingValid
    <2>2. esc.pending.index # AllIndex
      BY <2>1, ConfigAssumption DEF ConfigValid, AllIndex
    <2>3. esc.pending.index \in Milestones
      BY <1>2, <2>1, <2>2 DEF Milestones
    <2>4. QED BY <1>1, <1>4, <2>1, <2>3
          DEF AfterCallback, WithReceipt, Settled, EscrowStates, PaysOut
  <1>5. CASE c.ok /\ esc.pending.kind = REFUND
    BY <1>1, <1>5 DEF AfterCallback, WithReceipt, Settled, EscrowStates, PaysBack, PAYMENT, REFUND
  <1>6. QED BY <1>1, <1>2, <1>3, <1>4, <1>5

(* A dispatch changes no phase.                                             *)
LEMMA DispatchPhases ==
  ASSUME IInv, NEW kind, NEW index, NEW amount, dispatch(kind, index, amount)
  PROVE  SamePhases
  BY DEF IInv, TypeOK, dispatch, finish, WithDispatch, EscrowStates, SamePhases

(* Every way a step changes the phases.                                     *)
LEMMA PhaseChanges ==
  ASSUME IInv, [Next]_vars
  PROVE  /\ signed \subseteq signed'
         /\ \/ SamePhases
            \/ \E i \in Milestones, h \in Hashes : Delivers(i, h)
            \/ \E i \in Milestones : Approves(i)
            \/ \E i \in Milestones : PaysOut(i)
            \/ PaysBack
  <1>0. esc \in EscrowStates
    BY DEF IInv, TypeOK
  <1>1. ASSUME NEW signer \in Signers, Initialize(signer)
        PROVE  SamePhases /\ signed' = signed
    BY <1>1 DEF Initialize, CanInitialize, finish, IInv, SamePhases
  <1>2. ASSUME NEW signer \in Signers, Fund(signer) PROVE SamePhases /\ signed' = signed
    BY <1>0, <1>2 DEF Fund, finish, WithFunding, EscrowStates, SamePhases
  <1>3. ASSUME NEW signer \in Signers, NEW i \in Slots, NEW h \in Hashes, Submit(signer, i, h)
        PROVE  i \in Milestones /\ Delivers(i, h) /\ signed' = signed
    BY <1>0, <1>3 DEF Submit, CanSubmit, finish, WithSubmission, EscrowStates, Milestones, Delivers
  <1>4. ASSUME NEW signer \in Signers, NEW i \in Slots, NEW h \in Hashes, Approve(signer, i, h)
        PROVE  i \in Milestones /\ Approves(i) /\ signed' = signed
    BY <1>0, <1>4 DEF Approve, CanApprove, finish, WithApproval, EscrowStates, Milestones, Approves
  <1>5. ASSUME NEW signer \in Signers, NEW i \in Slots, Pay(signer, i)
        PROVE  SamePhases /\ signed' = signed
    BY <1>5, DispatchPhases DEF Pay, dispatch
  <1>6. ASSUME NEW signer \in Signers, Refund(signer) PROVE SamePhases /\ signed' = signed
    BY <1>6, DispatchPhases DEF Refund, dispatch
  <1>7. ASSUME NEW m \in transit, DeliverOk(m) \/ DeliverFailed(m)
        PROVE  SamePhases /\ signed' = signed
    BY <1>7 DEF DeliverOk, DeliverFailed, escrowVars, SamePhases
  <1>8. ASSUME NEW c \in callbacks, Callback(c)
        PROVE  /\ SamePhases \/ PaysBack \/ \E i \in Milestones : PaysOut(i)
               /\ signed' = signed
    BY <1>8, ReceiptPhases DEF Callback
  <1>9. ASSUME Tick PROVE SamePhases /\ signed' = signed
    BY <1>9 DEF Tick, escrowVars, SamePhases
  <1>10. ASSUME NEW amount \in 1..MaxShell, TopUp(amount) PROVE SamePhases /\ signed' = signed
    BY <1>10 DEF TopUp, finish, SamePhases
  <1>11. ASSUME NEW i \in Milestones, SignApproval(i) PROVE SamePhases /\ signed \subseteq signed'
    BY <1>11 DEF SignApproval, escrowVars, SamePhases
  <1>12. ASSUME NEW r \in Recipients, NEW source \in Sources, Bind(r, source)
         PROVE  SamePhases /\ signed' = signed
    BY <1>12 DEF Bind, escrowVars, SamePhases
  <1>13. ASSUME NEW r \in Recipients, NEW flag \in RejectFlags, SetReject(r, flag)
         PROVE  SamePhases /\ signed' = signed
    BY <1>13 DEF SetReject, escrowVars, SamePhases
  <1>14. CASE UNCHANGED vars
    BY <1>14 DEF vars, SamePhases
  <1>15. QED BY <1>1, <1>2, <1>3, <1>4, <1>5, <1>6, <1>7, <1>8, <1>9, <1>10, <1>11, <1>12, <1>13,
                <1>14 DEF Next, OwnerOrWorker, Runtime

----------------------------------------------------------------------------
(* Approved work is never refunded nor its delivery replaced, and a payment *)
(* or refund is final, whatever the parties and the runtime do.            *)
THEOREM OutcomesFinal == Spec => OutcomeIsFinal
  <1> DEFINE Final == \A i \in Slots :
         /\ esc.phases[i] = APPROVED => esc'.phases[i] \in {APPROVED, PAID}
         /\ esc.phases[i] \in {PAID, REFUNDED} => esc'.phases[i] = esc.phases[i]
         /\ esc.phases[i] \in {APPROVED, PAID, REFUNDED} => esc'.hashes[i] = esc.hashes[i]
  <1>1. IInv /\ [Next]_vars => [Final]_vars
    <2> SUFFICES ASSUME IInv, [Next]_vars PROVE Final
      OBVIOUS
    <2>1. /\ esc.phases \in [Slots -> Phases] /\ esc.hashes \in [Slots -> Hashes \cup {NoHash}]
          /\ Milestones \subseteq Slots
      BY DEF IInv, TypeOK, EscrowStates, Milestones
    <2>2. CASE SamePhases
      BY <2>2 DEF SamePhases
    <2>3. ASSUME NEW k \in Milestones, NEW h \in Hashes, Delivers(k, h) PROVE Final
      BY <2>1, <2>3 DEF Delivers, OPEN, SUBMITTED, APPROVED, PAID, REFUNDED
    <2>4. ASSUME NEW k \in Milestones, Approves(k) PROVE Final
      BY <2>1, <2>4 DEF Approves, OPEN, SUBMITTED, APPROVED, PAID, REFUNDED
    <2>5. ASSUME NEW k \in Milestones, PaysOut(k) PROVE Final
      BY <2>1, <2>5 DEF PaysOut, OPEN, SUBMITTED, APPROVED, PAID, REFUNDED
    <2>6. CASE PaysBack
      BY <2>1, <2>6 DEF PaysBack, InPhase, OPEN, SUBMITTED, APPROVED, PAID, REFUNDED
    <2>7. QED BY <2>2, <2>3, <2>4, <2>5, <2>6, PhaseChanges
  <1>2. QED BY <1>1, Invariance, PTL DEF Spec, OutcomeIsFinal

(* The delivery that is approved and paid is one the owner has signed: no   *)
(* later revision slips in under an earlier approval.                      *)
THEOREM OnlySignedIsPaid == Spec => []PaidAsSigned
  <1>1. Init => PaidAsSigned
    BY DEF Init, NewState, PaidAsSigned, OPEN, APPROVED, PAID
  <1>2. IInv /\ PaidAsSigned /\ [Next]_vars => PaidAsSigned'
    <2> SUFFICES ASSUME IInv, PaidAsSigned, [Next]_vars, NEW i \in Slots,
                        esc'.phases[i] \in {APPROVED, PAID}
                 PROVE  <<i, esc'.hashes[i]>> \in signed'
      BY DEF PaidAsSigned
    <2>1. /\ esc.phases \in [Slots -> Phases] /\ esc.hashes \in [Slots -> Hashes \cup {NoHash}]
          /\ Milestones \subseteq Slots /\ signed \subseteq signed'
      BY PhaseChanges DEF IInv, TypeOK, EscrowStates, Milestones
    <2>2. CASE SamePhases
      BY <2>1, <2>2 DEF SamePhases, PaidAsSigned
    <2>3. ASSUME NEW k \in Milestones, NEW h \in Hashes, Delivers(k, h)
          PROVE  <<i, esc'.hashes[i]>> \in signed'
      BY <2>1, <2>3 DEF Delivers, PaidAsSigned, SUBMITTED, APPROVED, PAID
    <2>4. ASSUME NEW k \in Milestones, Approves(k)
          PROVE  <<i, esc'.hashes[i]>> \in signed'
      BY <2>1, <2>4 DEF Approves, PaidAsSigned
    <2>5. ASSUME NEW k \in Milestones, PaysOut(k)
          PROVE  <<i, esc'.hashes[i]>> \in signed'
      BY <2>1, <2>5 DEF PaysOut, PaidAsSigned
    <2>6. CASE PaysBack
      BY <2>1, <2>6 DEF PaysBack, PaidAsSigned, APPROVED, PAID, REFUNDED
    <2>7. QED BY <2>2, <2>3, <2>4, <2>5, <2>6, PhaseChanges
  <1>3. QED BY <1>1, <1>2, Invariance, PTL DEF Spec

(* An idle, expired escrow that holds principal lets its owner pay or       *)
(* refund some of it: no milestone table strands any.                      *)
THEOREM PrincipalNotStranded == Spec => []NothingStranded
  <1>1. IInv => NothingStranded
    <2> SUFFICES ASSUME IInv, Idle, bal > 0, now >= Deadline, esc.attempts < MaxAttempts,
                        shell >= FuelReserve
                 PROVE  CanDispatch /\ (CanRefund(Owner) \/ \E i \in Slots : CanPay(Owner, i))
      BY DEF NothingStranded
    <2>1. /\ esc \in EscrowStates /\ validate(esc) /\ bal \in Nat /\ esc.pending.amount = 0
          /\ bal + esc.pending.amount + esc.paid + esc.refunded = esc.funded
          /\ esc.paid \in Nat /\ esc.refunded \in Nat /\ esc.funded \in Nat
      BY IdleFacts DEF IInv, TypeOK, LedgerAgrees, EscrowStates, Idle
    <2>2. CanDispatch
      BY <2>1 DEF CanDispatch
    <2>3. /\ esc.funded = Total /\ esc.funded # 0
          /\ esc.paid = Worth(InPhase(esc, {PAID}))
          /\ esc.refunded = Worth(InPhase(esc, {REFUNDED}))
      BY <2>1 DEF validate, FundingValid, BooksValid
    <2>4. refundable(esc) + Worth(InPhase(esc, {APPROVED})) # 0
          /\ refundable(esc) \in Nat /\ Worth(InPhase(esc, {APPROVED})) \in Nat
      <3>1. /\ Total = refundable(esc) + Worth(InPhase(esc, {APPROVED}))
                        + Worth(InPhase(esc, {PAID})) + Worth(InPhase(esc, {REFUNDED}))
            /\ refundable(esc) \in Nat /\ Worth(InPhase(esc, {APPROVED})) \in Nat
        BY <2>1, WorthOfPhases, WorthType DEF refundable
      <3>2. bal + esc.paid + esc.refunded = esc.funded
        BY <2>1
      <3>3. QED BY <2>1, <2>3, <3>1, <3>2
    <2>5. CASE refundable(esc) # 0
      BY <2>2, <2>3, <2>5 DEF CanRefund
    <2>6. CASE refundable(esc) = 0
      <3>1. InPhase(esc, {APPROVED}) # {}
        <4>1. Worth(InPhase(esc, {APPROVED})) # 0
          BY <2>4, <2>6
        <4>2. QED BY <4>1, WorthEmpty
      <3>2. PICK i \in Slots : i < Count /\ esc.phases[i] = APPROVED
        BY <3>1 DEF InPhase, Milestones
      <3>3. QED BY <2>2, <2>3, <3>2 DEF CanPay
    <2>7. QED BY <2>5, <2>6
  <1>2. QED BY <1>1, Invariance, PTL

----------------------------------------------------------------------------
(***************************************************************************)
(* The composed escrow, receivers and runtime implement EscrowPromise.     *)
(* A transfer takes effect at the delivery that the receiver accepts: the  *)
(* invariant says that until then no callback reports it, and that the     *)
(* callback, when the escrow sees it, tells exactly what happened.         *)
(***************************************************************************)
(* How the promise sees a phase when no landed transfer is outstanding.     *)
PhaseOutcome(f) ==
    IF f = PAID THEN "paid"
    ELSE IF f = APPROVED THEN "approved"
    ELSE IF f = REFUNDED THEN "refunded" ELSE "open"

Outcomes == [i \in Milestones |-> Outcome(i)]
Credits  == [r \in Recipients |-> rcv[r].received]

(* What the promise sees of the state is unchanged.                        *)
Unseen ==
    /\ (esc'.funded # 0) = (esc.funded # 0)
    /\ (now' >= Deadline) = (now >= Deadline)
    /\ Outcomes' = Outcomes
    /\ Credits' = Credits

LEMMA UnseenStutters == Unseen => UNCHANGED Promise!vars
  BY DEF Unseen, Outcomes, Credits, Promise!vars

LEMMA NothingLanded ==
  ASSUME ~Landed PROVE Outcomes = [i \in Milestones |-> PhaseOutcome(esc.phases[i])]
  BY DEF Outcomes, Outcome, PhaseOutcome

LEMMA NothingLandedNext ==
  ASSUME ~Landed' PROVE Outcomes' = [i \in Milestones |-> PhaseOutcome(esc'.phases[i])]
  BY DEF Outcomes, Outcome, PhaseOutcome

LEMMA IdleNotLanded == esc.pending.kind = IDLE => ~Landed
  BY DEF Landed

LEMMA IdleNotLandedNext == esc'.pending.kind = IDLE => ~Landed'
  BY DEF Landed

(* A step that leaves the escrow, the callbacks and the credits alone is    *)
(* seen only when it lets the deadline pass.                               *)
LEMMA OutsideStep ==
  ASSUME IInv, esc' = esc, callbacks' = callbacks,
         \A r \in Recipients : rcv'[r].received = rcv[r].received,
         now' \in {now, now + 1}
  PROVE  [Promise!Next]_(Promise!vars)
  <1>1. Outcomes' = Outcomes /\ Credits' = Credits /\ (esc'.funded # 0) = (esc.funded # 0)
    BY DEF Outcomes, Outcome, Landed, Credits
  <1>2. now \in Nat /\ Deadline \in Nat
    BY ActorAssumption DEF IInv, TypeOK, PartiesValid
  <1>3. CASE (now' >= Deadline) = (now >= Deadline)
    BY <1>1, <1>3, UnseenStutters DEF Unseen
  <1>4. CASE (now' >= Deadline) # (now >= Deadline)
    <2>1. (now' >= Deadline) = TRUE
      BY <1>2, <1>4
    <2>2. Promise!Expire
      BY <1>1, <2>1 DEF Promise!Expire, Outcomes, Credits
    <2>3. QED BY <2>2 DEF Promise!Next
  <1>5. QED BY <1>3, <1>4

(* A step of the escrow or of the runtime that lands nothing and changes no *)
(* outcome is not seen.                                                    *)
LEMMA HiddenStep ==
  ASSUME ~Landed, ~Landed', now' = now, rcv' = rcv, (esc'.funded # 0) = (esc.funded # 0),
         \A i \in Milestones : PhaseOutcome(esc'.phases[i]) = PhaseOutcome(esc.phases[i])
  PROVE  [Promise!Next]_(Promise!vars)
  <1>1. Outcomes' = Outcomes
    BY NothingLanded, NothingLandedNext
  <1>2. Unseen
    BY <1>1 DEF Unseen, Credits
  <1>3. QED BY <1>2, UnseenStutters

----------------------------------------------------------------------------
(* A pending refund was dispatched at or after the deadline.               *)
Timely == esc.pending.kind = REFUND => now >= Deadline

LEMMA TimelyInductive ==
  ASSUME IInv, Timely, [Next]_vars
  PROVE  Timely'
  <1>0. /\ esc \in EscrowStates /\ now \in Nat /\ Deadline \in Nat
    BY ActorAssumption DEF IInv, TypeOK, PartiesValid
  <1>1. ASSUME NEW signer \in Signers, Initialize(signer) PROVE Timely'
    BY <1>1 DEF Initialize, finish, Timely, NewState, NoPending, IDLE, REFUND
  <1>2. ASSUME NEW signer \in Signers, Fund(signer) PROVE Timely'
    BY <1>0, <1>2 DEF Fund, finish, WithFunding, EscrowStates, Timely
  <1>3. ASSUME NEW signer \in Signers, NEW i \in Slots, NEW h \in Hashes,
               Submit(signer, i, h) \/ Approve(signer, i, h)
        PROVE  Timely'
    BY <1>0, <1>3 DEF Submit, Approve, finish, WithSubmission, WithApproval, EscrowStates, Timely
  <1>4. ASSUME NEW signer \in Signers, NEW i \in Slots, Pay(signer, i) PROVE Timely'
    BY <1>0, <1>4 DEF Pay, dispatch, finish, WithDispatch, EscrowStates, Timely, PAYMENT, REFUND
  <1>5. ASSUME NEW signer \in Signers, Refund(signer) PROVE Timely'
    BY <1>5 DEF Refund, CanRefund, dispatch, Timely
  <1>6. ASSUME NEW m \in transit, DeliverOk(m) \/ DeliverFailed(m) PROVE Timely'
    BY <1>6 DEF DeliverOk, DeliverFailed, escrowVars, Timely
  <1>7. ASSUME NEW c \in callbacks, Callback(c) PROVE Timely'
    BY <1>0, <1>7 DEF Callback, finish, AfterCallback, WithReceipt, Settled, EscrowStates, Timely,
                      NoPending, IDLE, REFUND
  <1>8. ASSUME Tick PROVE Timely'
    BY <1>0, <1>8 DEF Tick, escrowVars, Timely
  <1>9. ASSUME esc' = esc, now' = now PROVE Timely'
    BY <1>9 DEF Timely
  <1>10. QED BY <1>1, <1>2, <1>3, <1>4, <1>5, <1>6, <1>7, <1>8, <1>9
         DEF Next, OwnerOrWorker, Runtime, TopUp, finish, SignApproval, Bind, SetReject,
             escrowVars, vars

----------------------------------------------------------------------------
(* The deposit is the promise's Fund.                                      *)
LEMMA FundStep ==
  ASSUME IInv, NEW signer \in Signers, Fund(signer)
  PROVE  [Promise!Next]_(Promise!vars)
  <1>1. /\ esc \in EscrowStates /\ esc.pending.kind = IDLE /\ esc.funded = 0 /\ ~(now >= Deadline)
        /\ esc' = WithFunding(esc) /\ now' = now /\ rcv' = rcv
    BY ActorAssumption DEF Fund, CanFund, Idle, finish, IInv, TypeOK, PartiesValid
  <1>2. /\ esc'.funded = Total /\ esc'.phases = esc.phases /\ esc'.pending.kind = IDLE
    BY <1>1 DEF WithFunding, EscrowStates
  <1>3. Total # 0
    <2>1. \A k \in Slots : Amounts[k] \in Nat
      BY ConfigAssumption DEF ConfigValid
    <2>2. 0 \in Slots /\ 0 < Count
      BY ConfigAssumption DEF ConfigValid, Slots
    <2>3. Amounts[0] > 0
      BY <2>2, ConfigAssumption DEF ConfigValid
    <2>4. QED BY <2>1, <2>3 DEF Total, SumSlots, Slots
  <1>4. Outcomes' = Outcomes
    BY <1>1, <1>2, IdleNotLanded, IdleNotLandedNext, NothingLanded, NothingLandedNext
  <1>5. Promise!Fund
    BY <1>1, <1>2, <1>3, <1>4 DEF Promise!Fund, Outcomes
  <1>6. QED BY <1>5 DEF Promise!Next

(* An approval is the promise's Approve.                                   *)
LEMMA ApproveStep ==
  ASSUME IInv, NEW signer \in Signers, NEW i \in Slots, NEW h \in Hashes, Approve(signer, i, h)
  PROVE  [Promise!Next]_(Promise!vars)
  <1>1. /\ esc \in EscrowStates /\ esc.pending.kind = IDLE /\ esc.funded # 0 /\ ~(now >= Deadline)
        /\ i \in Milestones /\ esc.phases[i] = SUBMITTED
        /\ esc' = WithApproval(esc, i) /\ now' = now /\ rcv' = rcv
    BY ActorAssumption
    DEF Approve, CanApprove, Idle, finish, IInv, TypeOK, PartiesValid, Milestones
  <1>2. /\ esc'.funded = esc.funded /\ esc'.phases = [esc.phases EXCEPT ![i] = APPROVED]
        /\ esc'.pending.kind = IDLE
    BY <1>1 DEF WithApproval, EscrowStates
  <1>3. /\ Outcomes = [j \in Milestones |-> PhaseOutcome(esc.phases[j])]
        /\ Outcomes' = [j \in Milestones |-> PhaseOutcome(esc'.phases[j])]
    BY <1>1, <1>2, IdleNotLanded, IdleNotLandedNext, NothingLanded, NothingLandedNext
  <1>4. PhaseOutcome(SUBMITTED) = "open" /\ PhaseOutcome(APPROVED) = "approved"
    BY DEF PhaseOutcome, SUBMITTED, APPROVED, PAID, REFUNDED
  <1>5. \A j \in Milestones : esc'.phases[j] = IF j = i THEN APPROVED ELSE esc.phases[j]
    BY <1>1, <1>2 DEF EscrowStates, Milestones
  <1>6. Outcomes' = [Outcomes EXCEPT ![i] = "approved"] /\ Outcomes[i] = "open"
    BY <1>1, <1>3, <1>4, <1>5
  <1>7. Promise!Approve(i)
    BY <1>1, <1>2, <1>6 DEF Promise!Approve, Outcomes
  <1>8. QED BY <1>1, <1>7 DEF Promise!Next

(* A delivery replaces an unapproved one: nothing the promise sees.        *)
LEMMA SubmitStep ==
  ASSUME IInv, NEW signer \in Signers, NEW i \in Slots, NEW h \in Hashes, Submit(signer, i, h)
  PROVE  [Promise!Next]_(Promise!vars)
  <1>1. /\ esc \in EscrowStates /\ esc.pending.kind = IDLE /\ esc.phases[i] \in {OPEN, SUBMITTED}
        /\ esc' = WithSubmission(esc, i, h) /\ now' = now /\ rcv' = rcv
    BY DEF Submit, CanSubmit, Idle, finish, IInv, TypeOK
  <1>2. /\ esc'.funded = esc.funded /\ esc'.phases = [esc.phases EXCEPT ![i] = SUBMITTED]
        /\ esc'.pending.kind = IDLE
    BY <1>1 DEF WithSubmission, EscrowStates
  <1>3. PhaseOutcome(SUBMITTED) = PhaseOutcome(OPEN)
    BY DEF PhaseOutcome, OPEN, SUBMITTED, APPROVED, PAID, REFUNDED
  <1>4. \A j \in Milestones : PhaseOutcome(esc'.phases[j]) = PhaseOutcome(esc.phases[j])
    BY <1>1, <1>2, <1>3 DEF EscrowStates, Milestones
  <1>5. QED BY <1>1, <1>2, <1>4, IdleNotLanded, IdleNotLandedNext, HiddenStep

(* A dispatch is not seen: no callback bears the new attempt's number.      *)
LEMMA DispatchHidden ==
  ASSUME IInv, Idle, NEW kind, NEW index, NEW amount, dispatch(kind, index, amount)
  PROVE  [Promise!Next]_(Promise!vars)
  <1>1. /\ esc \in EscrowStates /\ esc.pending.kind = IDLE /\ now' = now /\ rcv' = rcv
        /\ callbacks' = callbacks /\ esc' = WithDispatch(esc, kind, index, amount)
    BY DEF dispatch, finish, Idle, IInv, TypeOK
  <1>2. /\ esc'.funded = esc.funded /\ esc'.phases = esc.phases
        /\ esc'.pending.attempt = esc.attempts + 1 /\ esc.attempts \in Nat
    BY <1>1 DEF WithDispatch, EscrowStates
  <1>3. \A c \in callbacks : c.hash # esc.attempts + 1
    BY <1>2 DEF IInv, CallbackInv
  <1>4. ~Landed'
    BY <1>1, <1>2, <1>3 DEF Landed
  <1>5. QED BY <1>1, <1>2, <1>4, IdleNotLanded, HiddenStep

----------------------------------------------------------------------------
(* The transfer in transit is the pending one, and nothing landed yet.     *)
LEMMA TransitFacts ==
  ASSUME IInv, NEW m \in transit
  PROVE  /\ m.body = esc.pending /\ m.to = RecipientOf(esc.pending)
         /\ MsgHash(m) = esc.pending.attempt
         /\ esc \in EscrowStates /\ esc.pending \in Pendings /\ esc.pending.kind # IDLE
         /\ esc.funded # 0 /\ ~Landed
         /\ Outcomes = [i \in Milestones |-> PhaseOutcome(esc.phases[i])]
         /\ \A c \in callbacks : c.hash # esc.pending.attempt
  <1>1. /\ m.body = esc.pending /\ m.to = RecipientOf(esc.pending) /\ esc.pending.kind # IDLE
        /\ \A c \in callbacks : c.hash # esc.pending.attempt
    BY DEF IInv, TransitInv
  <1>2. esc \in EscrowStates /\ esc.pending \in Pendings /\ validate(esc)
    BY DEF IInv, TypeOK, EscrowStates
  <1>3. esc.funded # 0
    BY <1>1, <1>2 DEF validate, PendingValid
  <1>4. ~Landed
    BY <1>1 DEF Landed
  <1>5. QED BY <1>1, <1>2, <1>3, <1>4, NothingLanded DEF MsgHash

(* A failed delivery returns the principal: the promise sees nothing.      *)
LEMMA FailedStep ==
  ASSUME IInv, NEW m \in transit, DeliverFailed(m)
  PROVE  [Promise!Next]_(Promise!vars)
  <1>1. esc' = esc /\ now' = now /\ rcv' = rcv
    BY DEF DeliverFailed, escrowVars
  <1>2. \A c \in callbacks' : c \in callbacks \/ ~c.ok
    BY DEF DeliverFailed
  <1>3. ~Landed'
    BY <1>1, <1>2, TransitFacts DEF Landed
  <1>4. QED BY <1>1, <1>3, TransitFacts, HiddenStep

(* What an accepted delivery changes: the recipient's credit, and the       *)
(* outcome of the milestones the pending transfer stands for.              *)
LEMMA AcceptedDelivery ==
  ASSUME IInv, NEW m \in transit, DeliverOk(m)
  PROVE  /\ esc' = esc /\ now' = now /\ Landed'
         /\ Credits' = [Credits EXCEPT ![RecipientOf(esc.pending)] = @ + esc.pending.amount]
  <1>1. esc' = esc /\ now' = now
    BY DEF DeliverOk, escrowVars
  <1>2. \E c \in callbacks' : c.hash = MsgHash(m) /\ c.ok
    <2>1. PICK unused \in 0..m.reserve :
            callbacks' = callbacks \cup
              {[source |-> m.to, hash |-> MsgHash(m), ok |-> TRUE, principal |-> 0,
                body |-> m.body, shell |-> unused]}
      BY DEF DeliverOk
    <2> DEFINE e == [source |-> m.to, hash |-> MsgHash(m), ok |-> TRUE, principal |-> 0,
                     body |-> m.body, shell |-> unused]
    <2>2. e \in callbacks' /\ e.hash = MsgHash(m) /\ e.ok
      BY <2>1
    <2>3. QED BY <2>2
  <1>3. Landed'
    BY <1>1, <1>2, TransitFacts DEF Landed
  <1>4. rcv' = [rcv EXCEPT ![m.to] = WithReceived(rcv[m.to], m)]
    BY DEF DeliverOk
  <1>5. rcv \in [Recipients -> Receivers] /\ m.to \in Recipients
    BY TransitFacts DEF IInv, TypeOK, RecipientOf, Recipients
  <1>6. WithReceived(rcv[m.to], m).received = rcv[m.to].received + esc.pending.amount
    BY <1>5, TransitFacts DEF WithReceived, Receivers
  <1>7. \A r \in Recipients :
          rcv'[r].received = IF r = m.to THEN rcv[r].received + esc.pending.amount
                                         ELSE rcv[r].received
    BY <1>4, <1>5, <1>6
  <1>8. QED BY <1>1, <1>3, <1>5, <1>7, TransitFacts DEF Credits

(* An accepted payment is the promise's Pay.                               *)
LEMMA PaymentLands ==
  ASSUME IInv, NEW m \in transit, DeliverOk(m), esc.pending.kind = PAYMENT
  PROVE  [Promise!Next]_(Promise!vars)
  <1>0. PICK k : k = esc.pending.index
    OBVIOUS
  <1>1. k < Count /\ esc.phases[k] = APPROVED /\ esc.pending.amount = Amounts[k]
    BY <1>0 DEF IInv, validate, PendingValid
  <1>2. k \in Slots \cup {AllIndex} /\ k # AllIndex
    <2>1. k \in Slots \cup {AllIndex}
      BY <1>0, TransitFacts DEF Pendings
    <2>2. k # AllIndex
      BY <1>1, ConfigAssumption DEF ConfigValid, AllIndex
    <2>3. QED BY <2>1, <2>2
  <1>3. k \in Milestones /\ k \in Slots
    BY <1>1, <1>2 DEF Milestones
  <1>4. Worth({k}) = esc.pending.amount
    BY <1>1, <1>3, WorthSingle
  <1>5. Outcomes' = [i \in Milestones |-> IF i = k THEN "paid" ELSE PhaseOutcome(esc.phases[i])]
    BY <1>0, <1>1, AcceptedDelivery DEF Outcomes, Outcome, PhaseOutcome, PAYMENT, REFUND
  <1>6. Outcomes[k] = "approved"
    BY <1>1, <1>3, TransitFacts DEF PhaseOutcome, APPROVED, PAID
  <1>7. Outcomes' = [Outcomes EXCEPT ![k] = "paid"]
    BY <1>5, TransitFacts
  <1>8. Credits' = [Credits EXCEPT ![PayTo] = @ + Worth({k})]
    BY <1>4, AcceptedDelivery DEF RecipientOf
  <1>9. Promise!Pay(k)
    BY <1>6, <1>7, <1>8, AcceptedDelivery DEF Promise!Pay, Outcomes, Credits
  <1>10. QED BY <1>3, <1>9 DEF Promise!Next

(* An accepted refund is the promise's Refund: of every milestone without   *)
(* an approval, after the deadline.                                        *)
LEMMA RefundLands ==
  ASSUME IInv, Timely, NEW m \in transit, DeliverOk(m), esc.pending.kind = REFUND
  PROVE  [Promise!Next]_(Promise!vars)
  <1> DEFINE O == InPhase(esc, {OPEN, SUBMITTED})
  <1>1. esc.pending.amount # 0 /\ esc.pending.amount = Worth(O) /\ now >= Deadline
    BY DEF IInv, validate, PendingValid, refundable, Timely
  <1>2. O # {}
    BY <1>1, WorthEmpty
  <1>3. \A i \in Milestones : esc.phases[i] \in Phases
    BY TransitFacts DEF EscrowStates, Milestones
  <1>4. \A i \in Milestones : i \in O <=> Outcomes[i] = "open"
    BY <1>3, TransitFacts DEF InPhase, PhaseOutcome, Phases, OPEN, SUBMITTED, APPROVED, PAID, REFUNDED
  <1>5. Promise!Unapproved = O
    BY <1>4 DEF Promise!Unapproved, Outcomes, InPhase
  <1>6. Outcomes' = [i \in Milestones |-> IF i \in O THEN "refunded" ELSE Outcomes[i]]
    <2>1. Outcomes' = [i \in Milestones |->
                         IF esc.phases[i] = PAID THEN "paid"
                         ELSE IF esc.phases[i] = APPROVED THEN "approved" ELSE "refunded"]
      BY AcceptedDelivery DEF Outcomes, Outcome, PAYMENT, REFUND
    <2>2. \A i \in Milestones :
            (IF esc.phases[i] = PAID THEN "paid"
             ELSE IF esc.phases[i] = APPROVED THEN "approved" ELSE "refunded")
            = (IF i \in O THEN "refunded" ELSE PhaseOutcome(esc.phases[i]))
      BY <1>3 DEF InPhase, PhaseOutcome, Phases, OPEN, SUBMITTED, APPROVED, PAID, REFUNDED
    <2>3. \A i \in Milestones : Outcomes[i] = PhaseOutcome(esc.phases[i])
      BY TransitFacts
    <2>4. QED BY <2>1, <2>2, <2>3
  <1>7. Credits' = [Credits EXCEPT ![RefundTo] = @ + Worth(O)]
    BY <1>1, AcceptedDelivery DEF RecipientOf, PAYMENT, REFUND
  <1>8. Promise!Refund
    BY <1>1, <1>2, <1>5, <1>6, <1>7, AcceptedDelivery, TransitFacts
    DEF Promise!Refund, Outcomes, Credits
  <1>9. QED BY <1>8 DEF Promise!Next

----------------------------------------------------------------------------
(* The receipt tells the escrow what has already happened: an outcome that  *)
(* landed moves from the pending record into the phases.                   *)
LEMMA ReceiptStep ==
  ASSUME IInv, NEW c \in callbacks, Callback(c)
  PROVE  [Promise!Next]_(Promise!vars)
  <1>1. /\ esc.pending.kind # IDLE /\ c.hash = esc.pending.attempt /\ c.hash = esc.attempts
        /\ esc' = AfterCallback(esc, c.ok, c.hash) /\ now' = now /\ rcv' = rcv
        /\ esc \in EscrowStates /\ esc.pending \in Pendings
    BY FreshCallback DEF Callback, CanCallback, finish, IInv, TypeOK, EscrowStates
  <1>2. esc'.funded = esc.funded /\ esc'.pending = NoPending
    BY <1>1 DEF AfterCallback, WithReceipt, Settled, EscrowStates
  <1>3. Landed <=> c.ok
    BY <1>1 DEF Landed, IInv, CallbackInv
  <1>4. ~Landed'
    BY <1>2, IdleNotLandedNext DEF NoPending
  <1>5. \A i \in Milestones : i \in Slots /\ esc.phases[i] \in Phases
    BY <1>1 DEF EscrowStates, Milestones
  <1>6. Outcomes' = [i \in Milestones |-> PhaseOutcome(esc'.phases[i])]
    BY <1>4, NothingLandedNext
  <1>7. Outcomes' = Outcomes
    <2>1. CASE ~c.ok
      <3>1. ~Landed /\ esc'.phases = esc.phases
        BY <1>1, <1>3, <2>1 DEF AfterCallback, WithReceipt, EscrowStates
      <3>2. QED BY <1>6, <3>1, NothingLanded
    <2>2. CASE c.ok /\ esc.pending.kind = PAYMENT
      <3>1. esc.pending.index \in Milestones /\ PaysOut(esc.pending.index)
        BY <2>2, ReceiptPhases DEF PAYMENT, REFUND
      <3>2. \A i \in Milestones :
              esc'.phases[i] = IF i = esc.pending.index THEN PAID ELSE esc.phases[i]
        BY <1>1, <1>5, <3>1 DEF PaysOut, EscrowStates
      <3>3. ASSUME NEW i \in Milestones PROVE PhaseOutcome(esc'.phases[i]) = Outcome(i)
        BY <1>3, <2>2, <3>2 DEF PhaseOutcome, Outcome, PAYMENT, REFUND
      <3>4. QED BY <1>6, <3>3 DEF Outcomes
    <2>3. CASE c.ok /\ esc.pending.kind = REFUND
      <3>1. PaysBack
        BY <2>3, ReceiptPhases DEF PAYMENT, REFUND
      <3>2. \A i \in Milestones :
              esc'.phases[i] = IF esc.phases[i] \in {OPEN, SUBMITTED} THEN REFUNDED
                                                                   ELSE esc.phases[i]
        BY <1>5, <3>1 DEF PaysBack, InPhase
      <3>3. ASSUME NEW i \in Milestones PROVE PhaseOutcome(esc'.phases[i]) = Outcome(i)
        <4>1. esc.phases[i] \in {OPEN, SUBMITTED, APPROVED, PAID, REFUNDED}
          BY <1>5 DEF Phases, OPEN, SUBMITTED, APPROVED, PAID, REFUNDED
        <4>2. QED BY <1>3, <2>3, <3>2, <4>1
              DEF PhaseOutcome, Outcome, PAYMENT, REFUND, OPEN, SUBMITTED, APPROVED, PAID, REFUNDED
      <3>4. QED BY <1>6, <3>3 DEF Outcomes
    <2>4. QED BY <1>1, <2>1, <2>2, <2>3 DEF Pendings
  <1>8. Unseen
    BY <1>1, <1>2, <1>7 DEF Unseen, Credits
  <1>9. QED BY <1>8, UnseenStutters

----------------------------------------------------------------------------
LEMMA PromiseInit == Init => Promise!Init
  <1> SUFFICES ASSUME Init PROVE Promise!Init
    OBVIOUS
  <1>1. Outcomes = [i \in Milestones |-> "open"]
    <2>1. ~Landed
      BY DEF Init, Landed
    <2>2. \A i \in Milestones : PhaseOutcome(esc.phases[i]) = "open"
      BY DEF Init, NewState, Milestones, PhaseOutcome, OPEN, APPROVED, PAID, REFUNDED
    <2>3. QED BY <2>1, <2>2, NothingLanded
  <1>2. Credits = [r \in {PayTo, RefundTo} |-> 0]
    BY DEF Init, NewReceiver, Credits, Recipients
  <1>3. esc.funded = 0 /\ ~(now >= Deadline)
    BY ActorAssumption DEF Init, NewState, PartiesValid
  <1>4. QED BY <1>1, <1>2, <1>3 DEF Promise!Init, Outcomes, Credits

(* Every step of escrow, receivers and runtime is one step of the promise   *)
(* or changes nothing it can see.                                          *)
LEMMA PromiseStep ==
  ASSUME IInv, Timely, [Next]_vars
  PROVE  [Promise!Next]_(Promise!vars)
  <1>1. ASSUME NEW signer \in Signers, Initialize(signer)
        PROVE  esc' = esc /\ now' = now /\ callbacks' = callbacks /\ rcv' = rcv
    BY <1>1 DEF Initialize, CanInitialize, finish, IInv
  <1>2. ASSUME NEW signer \in Signers, NEW i \in Slots, Pay(signer, i)
        PROVE  [Promise!Next]_(Promise!vars)
    BY <1>2, DispatchHidden DEF Pay, CanPay
  <1>3. ASSUME NEW signer \in Signers, Refund(signer) PROVE [Promise!Next]_(Promise!vars)
    BY <1>3, DispatchHidden DEF Refund, CanRefund
  <1>4. ASSUME NEW m \in transit, DeliverOk(m) PROVE [Promise!Next]_(Promise!vars)
    <2>1. esc.pending.kind \in {PAYMENT, REFUND}
      BY TransitFacts DEF Pendings
    <2>2. QED BY <1>4, <2>1, PaymentLands, RefundLands
  <1>5. ASSUME NEW r \in Recipients, NEW source \in Sources, Bind(r, source)
        PROVE  /\ esc' = esc /\ now' = now /\ callbacks' = callbacks
               /\ \A q \in Recipients : rcv'[q].received = rcv[q].received
    BY <1>5 DEF Bind, escrowVars, IInv, TypeOK, Receivers
  <1>6. ASSUME NEW r \in Recipients, NEW flag \in RejectFlags, SetReject(r, flag)
        PROVE  /\ esc' = esc /\ now' = now /\ callbacks' = callbacks
               /\ \A q \in Recipients : rcv'[q].received = rcv[q].received
    BY <1>6 DEF SetReject, escrowVars, IInv, TypeOK, Receivers
  <1>7. ASSUME \/ Tick \/ UNCHANGED vars
               \/ \E amount \in 1..MaxShell : TopUp(amount)
               \/ \E i \in Milestones : SignApproval(i)
        PROVE  /\ esc' = esc /\ callbacks' = callbacks /\ rcv' = rcv
               /\ now' \in {now, now + 1}
    BY <1>7 DEF Tick, TopUp, finish, SignApproval, escrowVars, vars
  <1>8. QED BY <1>1, <1>2, <1>3, <1>4, <1>5, <1>6, <1>7, FundStep, SubmitStep, ApproveStep,
               FailedStep, ReceiptStep, OutsideStep
        DEF Next, OwnerOrWorker, Runtime

(* The escrow keeps its promise for every milestone table, deadline and     *)
(* attempt limit, however messages and callbacks are delayed: one outcome   *)
(* per milestone, each credited exactly once.                              *)
THEOREM KeepsPromise == Spec => ImplementsPromise
  <1>1. Init => Timely
    BY DEF Init, NewState, NoPending, Timely, IDLE, REFUND
  <1>2. IInv /\ Timely /\ [Next]_vars => Timely'
    BY TimelyInductive
  <1>3. IInv /\ Timely /\ [Next]_vars => [Promise!Next]_(Promise!vars)
    BY PromiseStep
  <1>4. QED BY <1>1, <1>2, <1>3, PromiseInit, Invariance, PTL
        DEF Spec, ImplementsPromise, Promise!Spec
============================================================================
