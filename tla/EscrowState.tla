---------------------------- MODULE EscrowState ----------------------------
(***************************************************************************)
(* The contract state of the bounty escrow and the state changes its       *)
(* handlers compute, as operators on a state record: what State::validate  *)
(* accepts, and the candidate state each handler passes to finish().       *)
(* BountyEscrow.tla says who may call what and when; this module says what *)
(* the books look like afterwards.                                         *)
(*                                                                         *)
(* Abstracted: byte layouts and the milestone and delivery hashes' bytes   *)
(* (members of Hashes).  Amounts are naturals: every sum the code forms    *)
(* with checked_add is bounded by config.total, which Config::decode       *)
(* computed in the same width, so no checked addition can fail.            *)
(***************************************************************************)
EXTENDS Naturals, Sequences

CONSTANTS
    Count,        \* config.count: milestones in use
    Amounts,      \* config.amounts: Slots -> amount, zero beyond Count
    Hashes,       \* nonzero delivery hashes
    NoHash,       \* the all-zero hash
    MaxAttempts   \* MAX_ATTEMPTS (64 in the code)

Slots == 0..7          \* MAX_MILESTONES = 8 slots, fixed by the state layout

Milestones == {i \in Slots : i < Count}

\* Sum of the eight slots of f (the code's try_fold over a fixed array).
SumSlots(f) == f[0] + f[1] + f[2] + f[3] + f[4] + f[5] + f[6] + f[7]

Total == SumSlots(Amounts)

\* Principal the milestones of S stand for.
Worth(S) == SumSlots([i \in Slots |-> IF i \in S THEN Amounts[i] ELSE 0])

\* What Config::decode enforces about the milestone table.
ConfigValid ==
    /\ Count \in 1..8
    /\ Amounts \in [Slots -> Nat]
    /\ \A i \in Slots : (i < Count) <=> (Amounts[i] > 0)

ASSUME ConfigAssumption == ConfigValid

ASSUME BoundAssumption == MaxAttempts \in Nat \ {0}

ASSUME HashAssumption == NoHash \notin Hashes

OPEN      == 0
SUBMITTED == 1
APPROVED  == 2
PAID      == 3
REFUNDED  == 4
Phases    == OPEN..REFUNDED

IDLE     == 0          \* Pending.kind
PAYMENT  == 1
REFUND   == 2
AllIndex == 255        \* Pending.index of a refund

NoPending == [kind |-> IDLE, index |-> 0, amount |-> 0, attempt |-> 0]

Pendings == [kind : {IDLE, PAYMENT, REFUND}, index : Slots \cup {AllIndex},
             amount : Nat, attempt : Nat]

EscrowStates ==
    [funded : Nat, paid : Nat, refunded : Nat, attempts : Nat,
     pending : Pendings, phases : [Slots -> Phases],
     hashes : [Slots -> Hashes \cup {NoHash}], receipts : Seq(Nat)]

\* State::new
NewState ==
    [funded |-> 0, paid |-> 0, refunded |-> 0, attempts |-> 0,
     pending |-> NoPending, phases |-> [i \in Slots |-> OPEN],
     hashes |-> [i \in Slots |-> NoHash], receipts |-> << >>]

InPhase(s, P) == {i \in Milestones : s.phases[i] \in P}

refundable(s) == Worth(InPhase(s, {OPEN, SUBMITTED}))

----------------------------------------------------------------------------
(***************************************************************************)
(* State::validate, run by every decode and by finish() on every candidate *)
(* state.                                                                  *)
(***************************************************************************)
ReceiptsValid(s) ==
    /\ s.attempts <= MaxAttempts
    /\ Len(s.receipts) + (IF s.pending.kind = IDLE THEN 0 ELSE 1) = s.attempts
    /\ \A i \in 1..Len(s.receipts) : s.receipts[i] # 0
    /\ \A i, j \in 1..Len(s.receipts) : s.receipts[i] = s.receipts[j] => i = j

FundingValid(s) ==
    /\ s.funded \in {0, Total}
    /\ s.funded = 0 => s.attempts = 0 /\ s.phases = [i \in Slots |-> OPEN]

MilestoneValid(s, i) ==
    /\ i >= Count => s.phases[i] = OPEN
    /\ s.phases[i] = OPEN => s.hashes[i] = NoHash
    /\ s.phases[i] \in {SUBMITTED, APPROVED, PAID} => s.hashes[i] # NoHash

BooksValid(s) ==
    /\ s.paid = Worth(InPhase(s, {PAID}))
    /\ s.refunded = Worth(InPhase(s, {REFUNDED}))
    /\ s.paid + s.refunded <= s.funded

PendingValid(s) ==
    LET p == s.pending IN
    /\ p.kind = IDLE => p = NoPending
    /\ p.kind = PAYMENT => /\ p.index < Count
                           /\ s.phases[p.index] = APPROVED
                           /\ p.amount = Amounts[p.index]
    /\ p.kind = REFUND => /\ p.index = AllIndex
                          /\ p.amount # 0
                          /\ p.amount = refundable(s)
    /\ p.kind # IDLE => p.attempt = s.attempts /\ s.funded # 0

validate(s) ==
    /\ ReceiptsValid(s)
    /\ FundingValid(s)
    /\ \A i \in Slots : MilestoneValid(s, i)
    /\ BooksValid(s)
    /\ PendingValid(s)

----------------------------------------------------------------------------
(***************************************************************************)
(* The candidate states the handlers build.                                *)
(***************************************************************************)
WithFunding(s) == [s EXCEPT !.funded = Total]

WithSubmission(s, i, h) ==
    [s EXCEPT !.phases[i] = SUBMITTED, !.hashes[i] = h]

WithApproval(s, i) == [s EXCEPT !.phases[i] = APPROVED]

\* dispatch: one more attempt, and its transfer pending.
WithDispatch(s, kind, index, amount) ==
    [s EXCEPT !.attempts = @ + 1,
              !.pending = [kind |-> kind, index |-> index, amount |-> amount,
                           attempt |-> s.attempts + 1]]

\* Mutant of Settled: a settled refund forgets the submitted milestones.
Settled_OpenOnly(s) ==
    IF s.pending.kind = PAYMENT
    THEN [s EXCEPT !.phases[s.pending.index] = PAID, !.paid = @ + s.pending.amount]
    ELSE [s EXCEPT !.phases = [i \in Slots |-> IF i \in InPhase(s, {OPEN})
                                               THEN REFUNDED ELSE s.phases[i]],
                   !.refunded = @ + s.pending.amount]

\* The success branch of callback: the pending transfer becomes final.
Settled(s) ==
    IF s.pending.kind = PAYMENT
    THEN [s EXCEPT !.phases[s.pending.index] = PAID,
                   !.paid = @ + s.pending.amount]
    ELSE [s EXCEPT !.phases = [i \in Slots |-> IF i \in InPhase(s, {OPEN, SUBMITTED})
                                               THEN REFUNDED ELSE s.phases[i]],
                   !.refunded = @ + s.pending.amount]

\* Both branches record the causal hash and release the pending lock.
WithReceipt(s, hash) ==
    [s EXCEPT !.receipts = Append(@, hash), !.pending = NoPending]

\* Mutant of AfterCallback: the status code is ignored.
AfterCallback_AnyStatus(s, success, hash) == WithReceipt(Settled(s), hash)

AfterCallback(s, success, hash) ==
    WithReceipt(IF success THEN Settled(s) ELSE s, hash)
============================================================================
