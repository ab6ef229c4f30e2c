---------------------------- MODULE RevenueState ----------------------------
(***************************************************************************)
(* The revenue vault's state (examples/revenue-hub/core): the share every  *)
(* member is entitled to, what State::validate accepts and the candidate   *)
(* state each handler of the vault computes.                               *)
(*                                                                         *)
(* MaxU128, MaxU64 and MaxU32 are the widths of the code's integers: an    *)
(* addition it checks fails above them.  Scaled down they also bound the   *)
(* model.  A payment's message hash is named by its claim nonce, which no  *)
(* other payment shares; zero is the all-zero hash.                        *)
(***************************************************************************)
EXTENDS Integers

CONSTANTS
    DENOMINATOR,       \* 10_000
    Count,             \* config.count, at most MAX_MEMBERS
    Weights,           \* config.members[i].weight
    Managers,          \* config.signers
    Delay, VoteWindow, \* config.delay, config.vote_window
    InitialFuel,       \* config.initial_fuel
    MaxU128, MaxU64, MaxU32

MAX_MEMBERS == 16

Members == 0..(Count - 1)

\* Sum over the members; the code folds over its sixteen slots.
SumMembers(f) ==
    LET at(i) == IF i < Count THEN f[i] ELSE 0 IN
    at(0) + at(1) + at(2) + at(3) + at(4) + at(5) + at(6) + at(7)
      + at(8) + at(9) + at(10) + at(11) + at(12) + at(13) + at(14) + at(15)

\* Config::validate
ConfigValid ==
    /\ Count \in 1..MAX_MEMBERS
    /\ Weights \in [Members -> 1..DENOMINATOR]
    /\ SumMembers(Weights) = DENOMINATOR
    /\ Delay \in Nat \ {0} /\ VoteWindow \in Nat \ {0} /\ InitialFuel \in Nat \ {0}

ASSUME ConfigAssumption == ConfigValid

ASSUME WidthAssumption ==
    /\ DENOMINATOR \in Nat \ {0}
    /\ MaxU128 \in Nat /\ MaxU64 \in Nat /\ MaxU32 \in Nat

\* floor(total * weight / DENOMINATOR) without the product total * weight.
entitlement(total, weight) ==
    (total \div DENOMINATOR) * weight
      + (((total % DENOMINATOR) * weight) \div DENOMINATOR)

----------------------------------------------------------------------------
PAUSE    == 1
RESUME   == 2
SET_FUEL == 3

\* Proposal::decode_body
BodyValid(b) ==
    /\ b.nonce # 0
    /\ \/ b.action \in {PAUSE, RESUME} /\ b.value = 0
       \/ b.action = SET_FUEL /\ b.value # 0

NoProposal == [body |-> [nonce |-> 0, action |-> 0, value |-> 0], votes |-> {},
               created |-> 0, ready |-> 0, expires |-> 0]

NewMember == [claimable |-> 0, paid |-> 0, pending |-> 0, nonce |-> 0,
              after_lt |-> 0, last_lt |-> 0, last_hash |-> 0]

\* State::new
NewState ==
    [received |-> 0, paid |-> 0, claim_nonce |-> 0, proposal_nonce |-> 0,
     paused |-> FALSE, proposal |-> NoProposal,
     members |-> [i \in Members |-> NewMember], fuel_limit |-> InitialFuel]

PendingSum(s) == SumMembers([i \in Members |-> s.members[i].pending])

held(s) == s.received - s.paid - PendingSum(s)

----------------------------------------------------------------------------
(***************************************************************************)
(* State::validate                                                         *)
(***************************************************************************)
Share(m) == m.paid + m.claimable + m.pending

MemberValid(s, i) ==
    LET m == s.members[i] IN
    /\ Share(m) = entitlement(s.received, Weights[i])
    /\ m.pending = 0 => m.nonce = 0 /\ m.after_lt = 0
    /\ m.pending # 0 => /\ m.nonce \in 1..s.claim_nonce
                        /\ m.after_lt >= m.last_lt
    /\ (m.last_lt = 0) <=> (m.last_hash = 0)

SumsValid(s) ==
    LET all == SumMembers([i \in Members |-> Share(s.members[i])]) IN
    /\ s.paid = SumMembers([i \in Members |-> s.members[i].paid])
    /\ all <= s.received
    /\ s.received - all < Count

ProposalValid(s) ==
    LET p == s.proposal IN
    IF p.body.nonce = 0 THEN p = NoProposal
    ELSE /\ p.body.nonce = s.proposal_nonce
         /\ p.votes # {}
         /\ BodyValid(p.body)
         /\ p.ready = p.created + Delay /\ p.ready <= MaxU32
         /\ p.expires = p.ready + VoteWindow /\ p.expires <= MaxU32

validate(s) ==
    /\ s.fuel_limit # 0
    /\ \A i \in Members : MemberValid(s, i)
    /\ SumsValid(s)
    /\ ProposalValid(s)

----------------------------------------------------------------------------
(***************************************************************************)
(* The candidate states the handlers build.                                *)
(***************************************************************************)
WithDeposit(s, amount) ==
    LET next == s.received + amount IN
    [s EXCEPT !.received = next,
              !.members = [i \in Members |->
                 [s.members[i] EXCEPT !.claimable =
                    @ + (entitlement(next, Weights[i]) - entitlement(s.received, Weights[i]))]]]

\* Mutant of WithClaim: the attempt's boundary ignores the latest callback.
WithClaim_BlockLt(s, i, block_lt) ==
    LET m == s.members[i] IN
    [s EXCEPT !.claim_nonce = @ + 1,
              !.members[i] = [m EXCEPT !.pending = m.claimable, !.claimable = 0,
                                       !.nonce = s.claim_nonce + 1, !.after_lt = block_lt]]

\* The claimable balance becomes pending under the next claim nonce.
WithClaim(s, i, block_lt) ==
    LET m == s.members[i]
        nonce == s.claim_nonce + 1
    IN [s EXCEPT !.claim_nonce = nonce,
                 !.members[i] = [m EXCEPT !.pending = m.claimable, !.claimable = 0,
                                          !.nonce = nonce,
                                          !.after_lt = IF block_lt > m.last_lt THEN block_lt
                                                       ELSE m.last_lt]]

\* The branch of callback(): success settles, failure restores.
Settled(m) == [m EXCEPT !.paid = @ + m.pending]

Restored(m) == [m EXCEPT !.claimable = @ + m.pending]

\* Both branches end the attempt and remember its callback.
WithReceipt(m, c) ==
    [m EXCEPT !.pending = 0, !.nonce = 0, !.after_lt = 0, !.last_lt = c.lt, !.last_hash = c.hash]

\* Mutant of AfterCallback: a failed payment is booked as paid.
AfterCallback_AlwaysPaid(s, i, c) ==
    [s EXCEPT !.paid = @ + s.members[i].pending,
              !.members[i] = WithReceipt(Settled(s.members[i]), c)]

AfterCallback(s, i, c) ==
    LET m == s.members[i] IN
    [s EXCEPT !.paid = @ + IF c.ok THEN m.pending ELSE 0,
              !.members[i] = WithReceipt(IF c.ok THEN Settled(m) ELSE Restored(m), c)]

\* Mutant of WithProposal: the votes of the proposal it replaces are kept.
WithProposal_KeepVotes(s, m, b, now) ==
    [s EXCEPT !.proposal = [body |-> b, votes |-> @.votes \cup {m}, created |-> now,
                            ready |-> now + Delay, expires |-> now + Delay + VoteWindow],
              !.proposal_nonce = b.nonce]

WithProposal(s, m, b, now) ==
    [s EXCEPT !.proposal = [body |-> b, votes |-> {m}, created |-> now,
                            ready |-> now + Delay, expires |-> now + Delay + VoteWindow],
              !.proposal_nonce = b.nonce]

\* Mutant of WithVote: a vote replaces the votes before it.
WithVote_OnlyLatest(s, m) == [s EXCEPT !.proposal.votes = {m}]

WithVote(s, m) == [s EXCEPT !.proposal.votes = @ \cup {m}]

\* The proposal takes effect and is cleared.
WithExecution(s) ==
    LET b == s.proposal.body IN
    [s EXCEPT !.proposal = NoProposal,
              !.paused = CASE b.action = PAUSE -> TRUE
                           [] b.action = RESUME -> FALSE
                           [] b.action = SET_FUEL -> @,
              !.fuel_limit = IF b.action = SET_FUEL THEN b.value ELSE @]
============================================================================
