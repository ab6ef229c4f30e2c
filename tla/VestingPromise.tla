---------------------------- MODULE VestingPromise ----------------------------
(***************************************************************************)
(* What a vesting vault promises, with no messages, nonces or logical      *)
(* times.  A stream's beneficiary is offered what the calendar has         *)
(* released, at the latest time anybody has shown the vault; a             *)
(* cancellation splits the stream there once and for all between the       *)
(* beneficiary and the owner.  An offer is credited once and whole, or     *)
(* withdrawn.                                                              *)
(***************************************************************************)
EXTENDS Integers

CONSTANTS Streams, Schedule(_)

VARIABLES
    clock,       \* the latest time the vault has seen
    funded,
    cancelled,   \* stream -> TRUE once cancelled
    cutoff,      \* stream -> time of its cancellation
    offered,     \* <<stream, lane>> -> amount on offer, 0 if none
    credited     \* <<stream, lane>> -> what its receiver holds

BeneficiaryShare == 0
OwnerShare == 1
Shares == Streams \X {BeneficiaryShare, OwnerShare}

books == <<funded, cancelled, cutoff, offered, credited>>
vars == <<clock, books>>

\* The calendar in the words of the specification.
Earned(i, t) ==
    LET c == Schedule(i)
        whole == CHOOSE n \in 0..t : /\ n * c.step <= t - c.start
                                     /\ (n + 1) * c.step > t - c.start
        elapsed == IF c.step = 0 THEN t - c.start ELSE whole * c.step
    IN IF t < c.cliff \/ t <= c.start THEN 0
       ELSE IF t >= c.end THEN c.total
       ELSE (c.total * elapsed) \div (c.end - c.start)

\* What a share is worth at time t.
Worth(i, k, t) ==
    LET earned == Earned(i, IF cancelled[i] THEN cutoff[i] ELSE t) IN
    IF k = BeneficiaryShare THEN earned
    ELSE IF cancelled[i] THEN Schedule(i).total - earned ELSE 0

Init ==
    /\ clock \in Nat
    /\ funded = FALSE
    /\ cancelled = [i \in Streams |-> FALSE]
    /\ cutoff = [i \in Streams |-> 0]
    /\ offered = [x \in Shares |-> 0]
    /\ credited = [x \in Shares |-> 0]

\* Time is seen to pass, possibly with what follows.
Tick == clock' \in Nat /\ clock' >= clock

Observe == Tick /\ UNCHANGED books

Fund ==
    /\ Tick
    /\ ~funded /\ \A i \in Streams : clock' < Schedule(i).start
    /\ funded' = TRUE
    /\ UNCHANGED <<cancelled, cutoff, offered, credited>>

Cancel(i) ==
    /\ Tick
    /\ funded /\ ~cancelled[i]
    /\ Schedule(i).revocable /\ clock' < Schedule(i).end
    /\ cancelled' = [cancelled EXCEPT ![i] = TRUE]
    /\ cutoff' = [cutoff EXCEPT ![i] = clock']
    /\ UNCHANGED <<funded, offered, credited>>

Offer(i, k) ==
    /\ Tick
    /\ funded /\ offered[<<i, k>>] = 0
    /\ credited[<<i, k>>] < Worth(i, k, clock')
    /\ offered' = [offered EXCEPT ![<<i, k>>] = Worth(i, k, clock') - credited[<<i, k>>]]
    /\ UNCHANGED <<funded, cancelled, cutoff, credited>>

Credit(x) ==
    /\ offered[x] # 0
    /\ credited' = [credited EXCEPT ![x] = @ + offered[x]]
    /\ offered' = [offered EXCEPT ![x] = 0]
    /\ UNCHANGED <<clock, funded, cancelled, cutoff>>

Withdraw(x) ==
    /\ Tick
    /\ offered[x] # 0
    /\ offered' = [offered EXCEPT ![x] = 0]
    /\ UNCHANGED <<funded, cancelled, cutoff, credited>>

Next ==
    \/ Observe \/ Fund
    \/ \E i \in Streams : Cancel(i) \/ Offer(i, BeneficiaryShare) \/ Offer(i, OwnerShare)
    \/ \E x \in Shares : Credit(x) \/ Withdraw(x)

Spec == Init /\ [][Next]_vars
=============================================================================
