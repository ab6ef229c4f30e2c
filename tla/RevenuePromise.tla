--------------------------- MODULE RevenuePromise ---------------------------
(***************************************************************************)
(* What the revenue hub promises its members, with no messages, nonces or  *)
(* logical times: whatever the deposits and their order, a claim offers a  *)
(* member everything its share of all revenue so far still lacks, and the  *)
(* offer is either credited once, whole, or withdrawn.                     *)
(***************************************************************************)
EXTENDS Integers

CONSTANTS Members, Weight(_), Denominator

VARIABLES
    received,   \* all revenue deposited
    offered,    \* member -> amount of its open claim, 0 if none
    credited    \* member -> what its receiver holds

vars == <<received, offered, credited>>

\* The share in the words of the specification: floor(R * w / 10000).
Entitled(i) == (received * Weight(i)) \div Denominator

Init ==
    /\ received = 0
    /\ offered = [i \in Members |-> 0]
    /\ credited = [i \in Members |-> 0]

Deposit ==
    /\ received' > received
    /\ UNCHANGED <<offered, credited>>

Claim(i) ==
    /\ offered[i] = 0
    /\ credited[i] < Entitled(i)
    /\ offered' = [offered EXCEPT ![i] = Entitled(i) - credited[i]]
    /\ UNCHANGED <<received, credited>>

Credit(i) ==
    /\ offered[i] # 0
    /\ credited' = [credited EXCEPT ![i] = @ + offered[i]]
    /\ offered' = [offered EXCEPT ![i] = 0]
    /\ UNCHANGED received

Withdraw(i) ==
    /\ offered[i] # 0
    /\ offered' = [offered EXCEPT ![i] = 0]
    /\ UNCHANGED <<received, credited>>

Next == Deposit \/ \E i \in Members : Claim(i) \/ Credit(i) \/ Withdraw(i)

Spec == Init /\ [][Next]_vars
============================================================================
