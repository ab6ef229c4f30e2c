---------------------------- MODULE BountyEscrow ----------------------------
(***************************************************************************)
(* examples/bounty-escrow: the escrow contract, its two receivers (one     *)
(* deployment for payments, one for refunds) and the part of the AVM       *)
(* runtime between them.  The parties' external messages arrive in any     *)
(* order; a dispatched transfer is an internal message with a callback     *)
(* request, which the runtime answers with one callback some time later.   *)
(*                                                                         *)
(* A handler that returns an error commits nothing, so only the accepting  *)
(* executions are actions.  STATUS and rejected messages are stutters.     *)
(* The runtime never removes a callback from `callbacks': a callback may   *)
(* be presented again, and it is the contract's receipt list that refuses  *)
(* it.                                                                     *)
(***************************************************************************)
EXTENDS EscrowState

CONSTANTS
    Deadline,                  \* config.deadline, in logical block time
    FuelReserve,               \* config.fuel_reserve, in SHELL
    Owner, Worker, Stranger,   \* external signers
    Escrow, PayTo, RefundTo,   \* account addresses
    Other, NoAddress,          \* another account; the all-zero address
    Sources, RejectFlags,      \* arguments of BIND and REJECT to explore
    MaxTime, MaxShell          \* bounds of the model

Signers == {Owner, Worker, Stranger}
Recipients == {PayTo, RefundTo}

\* Config::decode and initialize() on the parties and addresses.
PartiesValid ==
    /\ Owner # Worker
    /\ PayTo # RefundTo
    /\ Escrow \notin Recipients
    /\ NoAddress \notin Recipients
    /\ Deadline \in Nat \ {0}
    /\ FuelReserve \in Nat \ {0}

ASSUME ActorAssumption ==
    /\ PartiesValid
    /\ Other \notin Recipients \cup {Escrow}
    /\ NoAddress \notin {Escrow, Other}
    /\ Sources \subseteq {Escrow, Other} /\ RejectFlags \subseteq BOOLEAN
    /\ MaxTime \in Nat /\ MaxShell \in Nat

VARIABLES
    now,        \* block_time of the next transaction
    deployed,   \* FALSE until init: the account's state is empty
    esc,        \* the escrow's State
    bal,        \* principal (ECC 0) on the escrow account
    shell,      \* SHELL (ECC 2) on the escrow account
    signed,     \* approvals the owner has signed: <<milestone, hash>>
    transit,    \* RECEIVE messages not yet delivered
    callbacks,  \* callbacks the runtime has generated
    rcv         \* Recipients -> the receiver contract's state

escrowVars == <<deployed, esc, bal, shell>>
vars == <<now, deployed, esc, bal, shell, signed, transit, callbacks, rcv>>

RecipientOf(p) == IF p.kind = PAYMENT THEN PayTo ELSE RefundTo

\* payment_body is injective on the pending record, which it names here.
payment_body(p) == p
EmptyBody == NoPending

\* A message hash covers the body, whose attempt no other body of the
\* escrow shares, so the attempt stands for the hash; zero stands for none.
MsgHash(m) == m.body.attempt

----------------------------------------------------------------------------
(***************************************************************************)
(* Escrow handlers.  CanX is the conjunction of the handler's explicit     *)
(* checks in the state it decoded, which Idle says of it; finish() then    *)
(* validates the candidate.                                                *)
(***************************************************************************)
Decoded == deployed /\ validate(esc)

finish(s) == validate(s) /\ esc' = s

CanInitialize(signer) ==
    /\ ~deployed
    /\ signer = Owner
    /\ Deadline > now

Initialize(signer) ==
    /\ CanInitialize(signer)
    /\ finish(NewState)
    /\ deployed' = TRUE
    /\ UNCHANGED <<now, bal, shell, signed, transit, callbacks, rcv>>

\* TOPUP is accepted from anyone, even while a transfer is pending.
TopUp(amount) ==
    /\ Decoded
    /\ amount > 0
    /\ shell + amount <= MaxShell
    /\ shell' = shell + amount
    /\ finish(esc)
    /\ UNCHANGED <<now, deployed, bal, signed, transit, callbacks, rcv>>

Idle == Decoded /\ esc.pending.kind = IDLE

\* Mutant of CanFund: a second deposit is accepted.
CanFund_Again(signer) == Idle /\ signer = Owner /\ now < Deadline

CanFund(signer) ==
    /\ signer = Owner
    /\ now < Deadline
    /\ esc.funded = 0
    /\ Idle

\* The value of the message is on the account before the handler runs.
Fund(signer) ==
    /\ CanFund(signer)
    /\ bal + Total >= Total
    /\ finish(WithFunding(esc))
    /\ bal' = bal + Total
    /\ UNCHANGED <<now, deployed, shell, signed, transit, callbacks, rcv>>

\* Mutant of CanSubmit: approved work may still be revised.
CanSubmit_Approved(signer, i, h) ==
    /\ Idle /\ esc.funded # 0 /\ signer = Worker /\ now < Deadline /\ i < Count /\ h # NoHash
    /\ esc.phases[i] \in {OPEN, SUBMITTED, APPROVED}

CanSubmit(signer, i, h) ==
    /\ esc.funded # 0
    /\ signer = Worker
    /\ now < Deadline
    /\ i < Count
    /\ h # NoHash
    /\ esc.phases[i] \in {OPEN, SUBMITTED}
    /\ Idle

Submit(signer, i, h) ==
    /\ CanSubmit(signer, i, h)
    /\ finish(WithSubmission(esc, i, h))
    /\ UNCHANGED <<now, deployed, bal, shell, signed, transit, callbacks, rcv>>

\* Mutant of CanApprove: the signed hash is not compared with the current one.
CanApprove_AnyHash(signer, i, h) ==
    /\ Idle /\ esc.funded # 0 /\ signer = Owner /\ now < Deadline /\ i < Count
    /\ esc.phases[i] = SUBMITTED

CanApprove(signer, i, h) ==
    /\ esc.funded # 0
    /\ signer = Owner
    /\ now < Deadline
    /\ i < Count
    /\ esc.phases[i] = SUBMITTED
    /\ esc.hashes[i] = h
    /\ Idle

\* The approval the owner signed earlier may meet a later revision.
Approve(signer, i, h) ==
    /\ <<i, h>> \in signed
    /\ CanApprove(signer, i, h)
    /\ finish(WithApproval(esc, i))
    /\ UNCHANGED <<now, deployed, bal, shell, signed, transit, callbacks, rcv>>

\* Mutant of CanDispatch: the fuel reserve is not required.
CanDispatch_NoFuel ==
    esc.attempts < MaxAttempts /\ bal >= esc.funded - esc.paid - esc.refunded

CanDispatch ==
    /\ esc.attempts < MaxAttempts
    /\ bal >= esc.funded - esc.paid - esc.refunded
    /\ shell >= FuelReserve

\* Outbound intent and callback intent: the runtime debits the principal and,
\* unless the route is local-free, the fuel reserve.
dispatch(kind, index, amount) ==
    /\ CanDispatch
    /\ finish(WithDispatch(esc, kind, index, amount))
    /\ \E reserve \in {0, FuelReserve} :
         /\ transit' = transit \cup
              {[to |-> RecipientOf(esc'.pending), body |-> payment_body(esc'.pending),
                principal |-> amount, reserve |-> reserve]}
         /\ shell' = shell - reserve
    /\ bal' = bal - amount
    /\ UNCHANGED <<now, deployed, signed, callbacks, rcv>>

\* Mutant of CanPay: submitted work is payable before it is approved.
CanPay_Submitted(signer, i) ==
    /\ Idle /\ esc.funded # 0 /\ signer \in {Owner, Worker} /\ i < Count
    /\ esc.phases[i] \in {SUBMITTED, APPROVED}

CanPay(signer, i) ==
    /\ esc.funded # 0
    /\ signer \in {Owner, Worker}
    /\ i < Count
    /\ esc.phases[i] = APPROVED
    /\ Idle

Pay(signer, i) ==
    /\ CanPay(signer, i)
    /\ dispatch(PAYMENT, i, Amounts[i])

\* Mutants of CanRefund: one tick early, one tick late.
CanRefund_Early(signer) ==
    Idle /\ esc.funded # 0 /\ signer = Owner /\ now + 1 >= Deadline /\ refundable(esc) # 0

CanRefund_Late(signer) ==
    Idle /\ esc.funded # 0 /\ signer = Owner /\ now > Deadline /\ refundable(esc) # 0

CanRefund(signer) ==
    /\ esc.funded # 0
    /\ signer = Owner
    /\ now >= Deadline
    /\ refundable(esc) # 0
    /\ Idle

Refund(signer) ==
    /\ CanRefund(signer)
    /\ dispatch(REFUND, AllIndex, refundable(esc))

Fresh(c) ==
    /\ c.hash # 0
    /\ \A k \in 1..Len(esc.receipts) : esc.receipts[k] # c.hash

\* Mutant of CanCallback: returned SHELL is treated as an unexpected currency.
CanCallback_NoShell(c) ==
    LET p == esc.pending IN
    /\ Decoded /\ p.kind # IDLE /\ c.source = RecipientOf(p) /\ Fresh(c) /\ c.shell = 0
    /\ IF c.ok THEN c.principal = 0 /\ c.body = payment_body(p)
               ELSE c.principal = p.amount /\ c.body = EmptyBody

CanCallback(c) ==
    LET p == esc.pending IN
    /\ Decoded
    /\ p.kind # IDLE
    /\ c.source = RecipientOf(p)
    /\ Fresh(c)
    /\ IF c.ok THEN c.principal = 0 /\ c.body = payment_body(p)
               ELSE c.principal = p.amount /\ c.body = EmptyBody

Callback(c) ==
    /\ CanCallback(c)
    /\ finish(AfterCallback(esc, c.ok, c.hash))
    /\ bal' = bal + c.principal
    /\ shell' = shell + c.shell
    /\ UNCHANGED <<now, deployed, signed, transit, callbacks, rcv>>

----------------------------------------------------------------------------
(***************************************************************************)
(* The receiver contract, deployed once at PayTo and once at RefundTo.     *)
(***************************************************************************)
NewReceiver == [bound |-> NoAddress, reject |-> FALSE, last |-> 0, received |-> 0, count |-> 0]

\* BIND and REJECT come from the receiver's own owner.
Bind(r, source) ==
    /\ rcv[r].bound = NoAddress
    /\ source \notin {NoAddress, r}
    /\ rcv' = [rcv EXCEPT ![r].bound = source]
    /\ UNCHANGED <<now, escrowVars, signed, transit, callbacks>>

SetReject(r, flag) ==
    /\ rcv' = [rcv EXCEPT ![r].reject = flag]
    /\ UNCHANGED <<now, escrowVars, signed, transit, callbacks>>

\* RECEIVE, for a message from Escrow with a callback request.
Accepts(m) ==
    LET r == rcv[m.to] IN
    /\ r.bound = Escrow
    /\ ~r.reject
    /\ \/ m.body.kind = PAYMENT /\ m.body.index \in Slots
       \/ m.body.kind = REFUND /\ m.body.index = AllIndex
    /\ m.body.attempt > r.last
    /\ m.body.amount # 0
    /\ m.principal = m.body.amount

WithReceived(r, m) ==
    [r EXCEPT !.last = m.body.attempt, !.received = @ + m.body.amount, !.count = @ + 1]

----------------------------------------------------------------------------
(***************************************************************************)
(* The runtime.  A delivered message whose handler succeeds yields a       *)
(* success callback that echoes the receiver's result body; one that fails *)
(* (in the handler, or for lack of fuel) changes nothing at the receiver   *)
(* and returns the exact principal with an empty body.  Unused reserve     *)
(* returns in either case.                                                 *)
(***************************************************************************)
DeliverOk(m) ==
    /\ Accepts(m)
    /\ rcv' = [rcv EXCEPT ![m.to] = WithReceived(@, m)]
    /\ transit' = transit \ {m}
    /\ \E unused \in 0..m.reserve :
         callbacks' = callbacks \cup
           {[source |-> m.to, hash |-> MsgHash(m), ok |-> TRUE, principal |-> 0,
             body |-> m.body, shell |-> unused]}
    /\ UNCHANGED <<now, escrowVars, signed>>

DeliverFailed(m) ==
    /\ transit' = transit \ {m}
    /\ \E unused \in 0..m.reserve :
         callbacks' = callbacks \cup
           {[source |-> m.to, hash |-> MsgHash(m), ok |-> FALSE, principal |-> m.principal,
             body |-> EmptyBody, shell |-> unused]}
    /\ UNCHANGED <<now, escrowVars, signed, rcv>>

Tick ==
    /\ now < MaxTime
    /\ now' = now + 1
    /\ UNCHANGED <<escrowVars, signed, transit, callbacks, rcv>>

\* The owner reads the current delivery and signs its approval off chain.
SignApproval(i) ==
    /\ deployed
    /\ esc.phases[i] = SUBMITTED
    /\ signed' = signed \cup {<<i, esc.hashes[i]>>}
    /\ UNCHANGED <<now, escrowVars, transit, callbacks, rcv>>

----------------------------------------------------------------------------
Init ==
    /\ now = 0
    /\ deployed = FALSE
    /\ esc = NewState
    /\ bal = 0
    /\ shell = 0
    /\ signed = {}
    /\ transit = {}
    /\ callbacks = {}
    /\ rcv = [r \in Recipients |-> NewReceiver]

OwnerOrWorker ==
    \E signer \in Signers :
      \/ Initialize(signer)
      \/ Fund(signer)
      \/ Refund(signer)
      \/ \E i \in Slots : Pay(signer, i)
      \/ \E i \in Slots, h \in Hashes : Submit(signer, i, h) \/ Approve(signer, i, h)

Runtime ==
    \/ \E m \in transit : DeliverOk(m) \/ DeliverFailed(m)
    \/ \E c \in callbacks : Callback(c)

Next ==
    \/ OwnerOrWorker
    \/ Runtime
    \/ Tick
    \/ \E amount \in 1..MaxShell : TopUp(amount)
    \/ \E i \in Milestones : SignApproval(i)
    \/ \E r \in Recipients, source \in Sources : Bind(r, source)
    \/ \E r \in Recipients, flag \in RejectFlags : SetReject(r, flag)

Spec == Init /\ [][Next]_vars

(***************************************************************************)
(* The runtime delivers every message and every callback it has accepted;  *)
(* nothing obliges the parties to act.                                     *)
(***************************************************************************)
Fairness ==
    /\ WF_vars(\E m \in transit : DeliverOk(m) \/ DeliverFailed(m))
    /\ WF_vars(\E c \in callbacks : Callback(c))

FairSpec == Spec /\ Fairness

----------------------------------------------------------------------------
(***************************************************************************)
(* Correctness.                                                            *)
(***************************************************************************)
Messages == [to : Recipients, body : Pendings, principal : Nat, reserve : Nat]

CallbackRecords == [source : Recipients, hash : Nat, ok : BOOLEAN, principal : Nat,
                    body : Pendings, shell : Nat]

Receivers == [bound : {NoAddress, Escrow, Other}, reject : BOOLEAN, last : Nat,
              received : Nat, count : Nat]

\* The types of the composed system's state.
TypeOK ==
    /\ now \in Nat
    /\ deployed \in BOOLEAN
    /\ esc \in EscrowStates
    /\ bal \in Nat
    /\ shell \in Nat
    /\ signed \subseteq Milestones \X Hashes
    /\ transit \subseteq Messages
    /\ callbacks \subseteq CallbackRecords
    /\ rcv \in [Recipients -> Receivers]

\* The success callback of the pending attempt is on its way: the recipient
\* has the money and the escrow does not know yet.
Landed ==
    /\ esc.pending.kind # IDLE
    /\ \E c \in callbacks : c.hash = esc.pending.attempt /\ c.ok

LandedAt(r) == IF Landed /\ RecipientOf(esc.pending) = r THEN esc.pending.amount ELSE 0

\* The escrow's books agree with what the recipients hold, up to the one
\* transfer whose receipt is outstanding, and the retained balance covers
\* every milestone that is neither paid, refunded nor in flight.
LedgerAgrees ==
    /\ rcv[PayTo].received = esc.paid + LandedAt(PayTo)
    /\ rcv[RefundTo].received = esc.refunded + LandedAt(RefundTo)
    /\ bal + esc.pending.amount + esc.paid + esc.refunded = esc.funded

\* A callback the escrow has not accepted yet answers the pending attempt and
\* is accepted: the contract never refuses the receipt that would unlock it.
GenuineCallbackAccepted ==
    \A c \in callbacks :
      Fresh(c) => CanCallback(c) /\ validate(AfterCallback(esc, c.ok, c.hash))

\* Whenever a handler's own checks pass, the candidate state validates: the
\* ERR_STATE exit of finish() is unreachable, so it never masks a permitted
\* operation.
FinishNeverFails ==
    /\ deployed => validate(esc)
    /\ \A signer \in Signers :
         /\ CanInitialize(signer) => validate(NewState)
         /\ CanFund(signer) => validate(WithFunding(esc))
         /\ CanRefund(signer) /\ CanDispatch =>
              validate(WithDispatch(esc, REFUND, AllIndex, refundable(esc)))
         /\ \A i \in Slots :
              CanPay(signer, i) /\ CanDispatch =>
                validate(WithDispatch(esc, PAYMENT, i, Amounts[i]))
         /\ \A i \in Slots, h \in Hashes :
              /\ CanSubmit(signer, i, h) => validate(WithSubmission(esc, i, h))
              /\ CanApprove(signer, i, h) => validate(WithApproval(esc, i))

\* The delivery that gets paid is one the owner signed for: a worker's later
\* revision is never approved by an approval of an earlier one.
PaidAsSigned ==
    \A i \in Slots : esc.phases[i] \in {APPROVED, PAID} => <<i, esc.hashes[i]>> \in signed

\* Approval protects the worker and final outcomes are final: approved work is
\* never refunded nor its delivery replaced, paid and refunded never change.
OutcomeIsFinal ==
    [][\A i \in Slots :
         /\ esc.phases[i] = APPROVED => esc'.phases[i] \in {APPROVED, PAID}
         /\ esc.phases[i] \in {PAID, REFUNDED} => esc'.phases[i] = esc.phases[i]
         /\ esc.phases[i] \in {APPROVED, PAID, REFUNDED} => esc'.hashes[i] = esc.hashes[i]]_vars

\* Principal is never stranded while attempts and fuel remain: an idle, expired
\* escrow that holds principal lets its owner pay or refund some of it.
NothingStranded ==
    Idle /\ bal > 0 /\ now >= Deadline /\ esc.attempts < MaxAttempts /\ shell >= FuelReserve
      => /\ CanDispatch
         /\ CanRefund(Owner) \/ \E i \in Slots : CanPay(Owner, i)

\* A pending transfer is settled, one way or the other, once the runtime has
\* delivered it and its callback, so the lock on business operations opens.
PendingSettles == []<>(esc.pending.kind = IDLE)

(***************************************************************************)
(* The escrow implements its promise.  A transfer takes effect when the    *)
(* receiver accepts it, not when the escrow learns of it.                  *)
(***************************************************************************)
Outcome(i) ==
    LET p == esc.pending IN
    IF esc.phases[i] = PAID \/ (Landed /\ p.kind = PAYMENT /\ p.index = i) THEN "paid"
    ELSE IF esc.phases[i] = APPROVED THEN "approved"
    ELSE IF esc.phases[i] = REFUNDED \/ (Landed /\ p.kind = REFUND) THEN "refunded"
    ELSE "open"

Promise == INSTANCE EscrowPromise WITH
    funded  <- esc.funded # 0,
    expired <- now >= Deadline,
    outcome <- [i \in Milestones |-> Outcome(i)],
    credit  <- [r \in Recipients |-> rcv[r].received]

\* Every step of escrow, receivers and runtime is one atomic step of the
\* promise or changes nothing it can see.
ImplementsPromise == Promise!Spec
============================================================================
