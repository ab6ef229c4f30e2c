--------------------------- MODULE EscrowPromise ---------------------------
(***************************************************************************)
(* What the bounty escrow promises its two parties, with no messages, no   *)
(* receipts and no pending lock: a milestone has one outcome, payment and  *)
(* refund are single atomic steps that credit the recipient exactly once,  *)
(* approval is possible only before expiry and protects the worker for     *)
(* ever, and only unapproved milestones go back to the client.             *)
(***************************************************************************)
EXTENDS Naturals

CONSTANTS Milestones, Worth(_), PayTo, RefundTo

VARIABLES
    funded,    \* has the principal been deposited
    expired,   \* has the deadline passed
    outcome,   \* Milestones -> Outcomes
    credit     \* principal each recipient has received

vars == <<funded, expired, outcome, credit>>

Outcomes == {"open", "approved", "paid", "refunded"}

Unapproved == {i \in Milestones : outcome[i] = "open"}

Init ==
    /\ funded = FALSE
    /\ expired = FALSE
    /\ outcome = [i \in Milestones |-> "open"]
    /\ credit = [r \in {PayTo, RefundTo} |-> 0]

Expire ==
    /\ expired' = TRUE
    /\ UNCHANGED <<funded, outcome, credit>>

Fund ==
    /\ ~expired /\ ~funded
    /\ funded' = TRUE
    /\ UNCHANGED <<expired, outcome, credit>>

Approve(i) ==
    /\ funded /\ ~expired
    /\ outcome[i] = "open"
    /\ outcome' = [outcome EXCEPT ![i] = "approved"]
    /\ UNCHANGED <<funded, expired, credit>>

Pay(i) ==
    /\ outcome[i] = "approved"
    /\ outcome' = [outcome EXCEPT ![i] = "paid"]
    /\ credit' = [credit EXCEPT ![PayTo] = @ + Worth({i})]
    /\ UNCHANGED <<funded, expired>>

Refund ==
    /\ funded /\ expired
    /\ Unapproved # {}
    /\ outcome' = [i \in Milestones |->
                     IF i \in Unapproved THEN "refunded" ELSE outcome[i]]
    /\ credit' = [credit EXCEPT ![RefundTo] = @ + Worth(Unapproved)]
    /\ UNCHANGED <<funded, expired>>

Next ==
    \/ Expire
    \/ Fund
    \/ \E i \in Milestones : Approve(i) \/ Pay(i)
    \/ Refund

Spec == Init /\ [][Next]_vars
============================================================================
