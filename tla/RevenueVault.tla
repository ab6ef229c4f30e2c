---------------------------- MODULE RevenueVault ----------------------------
(***************************************************************************)
(* examples/revenue-hub: the vault, one payout receiver per member, and    *)
(* the part of the AVM runtime between them.  Several claims may be in     *)
(* flight at once, one per member, while deposits and governance go on.    *)
(*                                                                         *)
(* A handler that returns an error commits nothing, so only the accepting  *)
(* executions are actions; STATUS changes nothing.  A callback stays in    *)
(* `callbacks' and may be presented again: it is the vault that refuses    *)
(* it.  `reports' holds the audit messages the receivers have emitted.     *)
(***************************************************************************)
EXTENDS RevenueState, FiniteSets

CONSTANTS
    Keys,                  \* config.members[i].key
    Vault, Other, NoAddress,
    Deposits,              \* amounts deposited in one message
    Ballots,               \* <<action, value>> pairs the managers consider
    Sources,               \* arguments of BIND to explore
    Flags,                 \* arguments of REJECT and DUPLICATE_AUDIT to explore
    MaxShell               \* bound on the SHELL held by the vault

Actors == Managers \cup {Keys[i] : i \in Members}

\* Config::validate and initialize() on the parties and addresses.
PartiesValid ==
    /\ \A i, j \in Members : Keys[i] = Keys[j] => i = j
    /\ IsFiniteSet(Managers) /\ Cardinality(Managers) = 3

ASSUME ActorAssumption ==
    /\ PartiesValid
    /\ NoAddress \notin {Vault, Other} /\ Vault # Other
    /\ Deposits \subseteq Nat /\ Sources \subseteq {Vault, Other} /\ Flags \subseteq BOOLEAN
    /\ Ballots \subseteq (0..SET_FUEL) \X Nat
    /\ MaxShell \in Nat

VARIABLES
    now, block_lt,  \* block_time and block_lt of the next transaction
    lt,             \* logical time of the latest message the runtime created
    deployed,       \* FALSE until init
    v,              \* the vault's State
    bal, shell,     \* principal (ECC 0) and SHELL (ECC 2) on the vault account
    transit,        \* RECEIVE messages not yet delivered
    callbacks,      \* callbacks the runtime has generated
    rcv,            \* member -> its receiver's state
    reports,        \* AUDIT_RECORD messages the receivers have sent
    support         \* <<manager, body>> accepted by PROPOSE or VOTE so far

clock == <<now, block_lt, lt>>
vault == <<deployed, v, bal, shell>>
vars == <<clock, vault, transit, callbacks, rcv, reports, support>>

\* payment_body is injective on what it encodes, which names it here.
payment_body(i, nonce, amount) == [index |-> i, nonce |-> nonce, amount |-> amount]
EmptyBody == payment_body(0, 0, 0)

----------------------------------------------------------------------------
(***************************************************************************)
(* Vault handlers: CanX is the conjunction of the handler's checks.        *)
(***************************************************************************)
Decoded == deployed /\ validate(v)

finish(s) == validate(s) /\ v' = s

Initialize(actor) ==
    /\ ~deployed
    /\ actor \in Managers
    /\ finish(NewState)
    /\ deployed' = TRUE
    /\ UNCHANGED <<clock, bal, shell, transit, callbacks, rcv, reports, support>>

\* TOPUP is accepted from anyone at any time, even while paused.
TopUp(amount) ==
    /\ Decoded
    /\ amount > 0 /\ shell + amount <= MaxShell
    /\ finish(v)
    /\ shell' = shell + amount
    /\ UNCHANGED <<clock, deployed, bal, transit, callbacks, rcv, reports, support>>

CanDeposit(amount) ==
    /\ Decoded
    /\ ~v.paused
    /\ amount # 0
    /\ held(v) + amount <= bal + amount
    /\ v.received + amount <= MaxU128

\* A deposit may donate SHELL; the value is on the account when it runs.
Deposit(amount, donation) ==
    /\ CanDeposit(amount)
    /\ shell + donation <= MaxShell
    /\ finish(WithDeposit(v, amount))
    /\ bal' = bal + amount
    /\ shell' = shell + donation
    /\ UNCHANGED <<clock, deployed, transit, callbacks, rcv, reports, support>>

\* Mutant of CanClaim: the operating reserve is not required.
CanClaim_NoFuel(actor, i) ==
    /\ Decoded /\ actor = Keys[i] /\ ~v.paused /\ v.members[i].pending = 0
    /\ v.members[i].claimable # 0 /\ bal >= held(v) /\ v.claim_nonce + 1 <= MaxU64

CanClaim(actor, i) ==
    /\ Decoded
    /\ actor = Keys[i]
    /\ ~v.paused
    /\ v.members[i].pending = 0
    /\ v.members[i].claimable # 0
    /\ bal >= held(v)
    /\ shell >= v.fuel_limit
    /\ v.claim_nonce + 1 <= MaxU64

\* The runtime debits the principal and, unless the route is local-free, the
\* fuel reserve.
Claim(actor, i) ==
    /\ CanClaim(actor, i)
    /\ finish(WithClaim(v, i, block_lt))
    /\ LET amount == v.members[i].claimable IN
         /\ bal' = bal - amount
         /\ \E reserve \in {0, v.fuel_limit} :
              /\ shell' = shell - reserve
              /\ transit' = transit \cup
                   {[to |-> i, body |-> payment_body(i, v'.claim_nonce, amount),
                     principal |-> amount, reserve |-> reserve]}
    /\ UNCHANGED <<clock, deployed, callbacks, rcv, reports, support>>

\* In a block at time t; the handlers run at now.
CanPropose(m, b, t) ==
    /\ Decoded
    /\ m \in Managers
    /\ BodyValid(b)
    /\ v.proposal.body.nonce = 0 \/ t >= v.proposal.expires
    /\ b.nonce = v.proposal_nonce + 1 /\ b.nonce <= MaxU64
    /\ t + Delay + VoteWindow <= MaxU32

Propose(m, b) ==
    /\ CanPropose(m, b, now)
    /\ finish(WithProposal(v, m, b, now))
    /\ support' = support \cup {<<m, b>>}
    /\ UNCHANGED <<clock, deployed, bal, shell, transit, callbacks, rcv, reports>>

CanVote(m, b) ==
    /\ Decoded
    /\ m \in Managers
    /\ BodyValid(b)
    /\ v.proposal.body = b
    /\ now < v.proposal.expires
    /\ m \notin v.proposal.votes

Vote(m, b) ==
    /\ CanVote(m, b)
    /\ finish(WithVote(v, m))
    /\ support' = support \cup {<<m, b>>}
    /\ UNCHANGED <<clock, deployed, bal, shell, transit, callbacks, rcv, reports>>

CanExecute(nonce) ==
    LET p == v.proposal IN
    /\ Decoded
    /\ p.body.nonce # 0 /\ p.body.nonce = nonce
    /\ now < p.expires
    /\ Cardinality(p.votes) >= 2
    /\ now >= p.ready

Execute(nonce) ==
    /\ CanExecute(nonce)
    /\ finish(WithExecution(v))
    /\ UNCHANGED <<clock, deployed, bal, shell, transit, callbacks, rcv, reports, support>>

\* Mutant of Fresh: logical times are not compared.
Fresh_HashOnly(c) == c.hash # 0 /\ c.hash # v.members[c.source].last_hash

\* Neither the member's latest callback nor one created before its attempt.
Fresh(c) ==
    LET m == v.members[c.source] IN
    /\ c.hash # 0 /\ c.hash # m.last_hash
    /\ c.lt > m.after_lt
    /\ c.lt > m.last_lt

\* Mutants of CanCallback: the body is compared with the vault's latest claim
\* nonce; settlement is refused while paused.
CanCallback_GlobalNonce(c) ==
    LET m == v.members[c.source] IN
    /\ Decoded /\ m.pending # 0 /\ Fresh(c)
    /\ IF c.ok THEN c.principal = 0 /\ c.body = payment_body(c.source, v.claim_nonce, m.pending)
               ELSE c.principal = m.pending /\ c.body = EmptyBody

CanCallback_NotPaused(c) ==
    LET m == v.members[c.source] IN
    /\ Decoded /\ m.pending # 0 /\ Fresh(c) /\ ~v.paused
    /\ IF c.ok THEN c.principal = 0 /\ c.body = payment_body(c.source, m.nonce, m.pending)
               ELSE c.principal = m.pending /\ c.body = EmptyBody

CanCallback(c) ==
    LET m == v.members[c.source] IN
    /\ Decoded
    /\ m.pending # 0
    /\ Fresh(c)
    /\ IF c.ok THEN c.principal = 0 /\ c.body = payment_body(c.source, m.nonce, m.pending)
               ELSE c.principal = m.pending /\ c.body = EmptyBody

Callback(c) ==
    /\ CanCallback(c)
    /\ finish(AfterCallback(v, c.source, c))
    /\ bal' = bal + c.principal
    /\ shell' = shell + c.shell
    /\ UNCHANGED <<clock, deployed, transit, callbacks, rcv, reports, support>>

----------------------------------------------------------------------------
(***************************************************************************)
(* The payout receivers.                                                   *)
(***************************************************************************)
NewReceiver == [bound |-> NoAddress, reject |-> FALSE, duplicate |-> FALSE,
                last |-> 0, received |-> 0, count |-> 0]

Bind(i, source) ==
    /\ rcv[i].bound = NoAddress
    /\ source # NoAddress
    /\ rcv' = [rcv EXCEPT ![i].bound = source]
    /\ UNCHANGED <<clock, vault, transit, callbacks, reports, support>>

SetReject(i, flag) ==
    /\ rcv' = [rcv EXCEPT ![i].reject = flag]
    /\ UNCHANGED <<clock, vault, transit, callbacks, reports, support>>

SetDuplicate(i, flag) ==
    /\ rcv' = [rcv EXCEPT ![i].duplicate = flag]
    /\ UNCHANGED <<clock, vault, transit, callbacks, reports, support>>

\* RECEIVE, for a message from Vault with a callback request.
Accepts(m) ==
    LET r == rcv[m.to] IN
    /\ r.bound = Vault
    /\ ~r.reject
    /\ m.body.index = m.to
    /\ m.body.amount # 0
    /\ m.body.nonce # 0
    /\ m.body.nonce > r.last
    /\ m.principal = m.body.amount

WithReceived(r, b) ==
    [r EXCEPT !.last = b.nonce, !.received = @ + b.amount, !.count = @ + 1]

\* The receipt is reported to the audit ledger once, or twice on request.
ReportsOf(r, b) ==
    {[body |-> b, copy |-> k] : k \in IF r.duplicate THEN {1, 2} ELSE {1}}

----------------------------------------------------------------------------
(***************************************************************************)
(* The runtime.  A delivered message whose handler succeeds yields a       *)
(* success callback that echoes the receiver's result body; one that fails *)
(* changes nothing at the receiver and returns the exact principal with an *)
(* empty body.  Unused reserve returns in either case.  Logical time grows *)
(* with every message created.                                             *)
(***************************************************************************)
CallbackOf(m, ok, unused) ==
    [source |-> m.to, hash |-> m.body.nonce, ok |-> ok, shell |-> unused, lt |-> lt + 1,
     principal |-> IF ok THEN 0 ELSE m.principal, body |-> IF ok THEN m.body ELSE EmptyBody]

DeliverOk(m) ==
    /\ Accepts(m)
    /\ rcv' = [rcv EXCEPT ![m.to] = WithReceived(@, m.body)]
    /\ reports' = reports \cup ReportsOf(rcv[m.to], m.body)
    /\ transit' = transit \ {m}
    /\ \E unused \in 0..m.reserve : callbacks' = callbacks \cup {CallbackOf(m, TRUE, unused)}
    /\ lt' = lt + 1
    /\ UNCHANGED <<now, block_lt, vault, support>>

DeliverFailed(m) ==
    /\ transit' = transit \ {m}
    /\ \E unused \in 0..m.reserve : callbacks' = callbacks \cup {CallbackOf(m, FALSE, unused)}
    /\ lt' = lt + 1
    /\ UNCHANGED <<now, block_lt, vault, rcv, reports, support>>

\* A new block: its transactions see a later time and logical time.
NewBlock ==
    /\ now < MaxU32
    /\ now' = now + 1
    /\ block_lt' = lt
    /\ UNCHANGED <<lt, vault, transit, callbacks, rcv, reports, support>>

----------------------------------------------------------------------------
Init ==
    /\ now = 0 /\ block_lt = 0 /\ lt = 0
    /\ deployed = FALSE
    /\ v = NewState
    /\ bal = 0 /\ shell = 0
    /\ transit = {} /\ callbacks = {}
    /\ rcv = [i \in Members |-> NewReceiver]
    /\ reports = {} /\ support = {}

Users ==
    \/ \E actor \in Actors : Initialize(actor) \/ \E i \in Members : Claim(actor, i)
    \/ \E amount \in Deposits, donation \in 0..MaxShell : Deposit(amount, donation)
    \/ \E amount \in 1..MaxShell : TopUp(amount)
    \/ \E i \in Members, source \in Sources : Bind(i, source)
    \/ \E i \in Members, flag \in Flags : SetReject(i, flag) \/ SetDuplicate(i, flag)

Governance ==
    \/ \E m \in Actors, nonce \in 1..MaxU64, a \in Ballots :
         LET b == [nonce |-> nonce, action |-> a[1], value |-> a[2]]
         IN Propose(m, b) \/ Vote(m, b)
    \/ \E nonce \in 1..MaxU64 : Execute(nonce)

Runtime ==
    \/ \E m \in transit : DeliverOk(m) \/ DeliverFailed(m)
    \/ \E c \in callbacks : Callback(c)
    \/ NewBlock

Next == Users \/ Governance \/ Runtime

Spec == Init /\ [][Next]_vars

(***************************************************************************)
(* The runtime delivers every message and every callback it has accepted;  *)
(* nothing obliges members or managers to act.                             *)
(***************************************************************************)
Fairness ==
    /\ WF_vars(\E m \in transit : DeliverOk(m) \/ DeliverFailed(m))
    /\ WF_vars(\E c \in callbacks : Callback(c))

FairSpec == Spec /\ Fairness

----------------------------------------------------------------------------
(***************************************************************************)
(* Correctness.                                                            *)
(***************************************************************************)
\* The callback that answers the attempt its member is waiting for.
Outstanding(c) == v.members[c.source].pending # 0 /\ c.hash = v.members[c.source].nonce

\* The receiver of i has the pending payment and the vault does not know yet.
Landed(i) == \E c \in callbacks : c.source = i /\ Outstanding(c) /\ c.ok

\* The vault's books agree with what each receiver holds, up to a payment whose
\* receipt is outstanding; what a member has, awaits and may claim is its share
\* of all revenue however it was fragmented; and the balance is exactly what the
\* vault says it holds, less than Count of it rounding dust.
LedgerAgrees ==
    /\ \A i \in Members :
         LET m == v.members[i] IN
         /\ rcv[i].received = m.paid + IF Landed(i) THEN m.pending ELSE 0
         /\ Share(m) = (v.received * Weights[i]) \div DENOMINATOR
    /\ bal = held(v)
    /\ held(v) - SumMembers([i \in Members |-> v.members[i].claimable]) \in 0..(Count - 1)

\* The callback a member waits for is accepted and leaves a valid state, paused
\* or not and whatever other claims, deposits and proposals happened meanwhile.
GenuineCallbackAccepted ==
    \A c \in callbacks :
      Outstanding(c) => CanCallback(c) /\ validate(AfterCallback(v, c.source, c))

\* Whenever a handler's own checks pass the candidate state validates, so
\* State::validate never masks a permitted operation.
FinishNeverFails ==
    /\ deployed => validate(v)
    /\ \A amount \in Deposits : CanDeposit(amount) => validate(WithDeposit(v, amount))
    /\ \A i \in Members : CanClaim(Keys[i], i) => validate(WithClaim(v, i, block_lt))
    /\ \A m \in Managers, nonce \in 1..MaxU64, a \in Ballots :
         LET b == [nonce |-> nonce, action |-> a[1], value |-> a[2]] IN
         /\ CanPropose(m, b, now) => validate(WithProposal(v, m, b, now))
         /\ CanVote(m, b) => validate(WithVote(v, m))
    /\ CanExecute(v.proposal.body.nonce) => validate(WithExecution(v))

\* The managers that have supported exactly these words, and all words ever
\* proposed.
Supporters(b) == {m \in Managers : <<m, b>> \in support}
Proposed == {s[2] : s \in support}

\* The vault pauses, resumes or changes its reserve only by a proposal that two
\* different managers supported in exactly the words that take effect, after its
\* Delay and within its VoteWindow, and no later proposal can reuse that support.
ChangeAuthorized ==
    [][v'.paused # v.paused \/ v'.fuel_limit # v.fuel_limit =>
         LET b == v.proposal.body IN
         /\ Cardinality(Supporters(b)) >= 2
         /\ v.proposal.created + Delay <= now
         /\ now < v.proposal.created + Delay + VoteWindow
         /\ v' = WithExecution(v)
         /\ v'.proposal_nonce >= b.nonce /\ v'.proposal.body.nonce = 0]_vars

\* Support is never lost: once two managers have backed the standing words, they
\* can be executed through the whole vote window, whatever deposits, claims,
\* callbacks, refused calls and further votes came between.
SupportCounts ==
    LET p == v.proposal IN
    /\ Cardinality(Supporters(p.body)) >= 2
    /\ p.created + Delay <= now /\ now < p.created + Delay + VoteWindow
    => CanExecute(p.body.nonce)

\* No proposal, carried, abandoned or never voted on, closes governance: within
\* Delay + VoteWindow every manager may propose again, until MaxU64 proposals have
\* been made or the clock nears its width.  Nothing but a proposal uses a nonce.
GovernanceReopens ==
    /\ deployed
    /\ Cardinality(Proposed) < MaxU64
    /\ now + 2 * (Delay + VoteWindow) <= MaxU32
    => \A m \in Managers, a \in Ballots :
         LET b == [nonce |-> Cardinality(Proposed) + 1, action |-> a[1], value |-> a[2]]
         IN BodyValid(b) => \E t \in now..(now + Delay + VoteWindow) : CanPropose(m, b, t)

\* The managers can always act: by executing what two of them want, and by
\* making another proposal soon.
GovernanceStaysOpen == SupportCounts /\ GovernanceReopens

\* A pending claim is settled, one way or the other, once the runtime has
\* delivered it and its callback: a pause or another claim never locks it.
PendingSettles == \A i \in Members : []<>(v.members[i].pending = 0)

(***************************************************************************)
(* The hub implements its promise.  A payment takes effect when the        *)
(* receiver accepts it, not when the vault learns of it.                   *)
(***************************************************************************)
Promise == INSTANCE RevenuePromise WITH
    Members     <- Members,
    Weight      <- LAMBDA i : Weights[i],
    Denominator <- DENOMINATOR,
    received    <- v.received,
    offered     <- [i \in Members |-> IF Landed(i) THEN 0 ELSE v.members[i].pending],
    credited    <- [i \in Members |-> rcv[i].received]

\* Every step of vault, receivers and runtime is one atomic step of the promise
\* or changes nothing it can see.
ImplementsPromise == Promise!Spec
============================================================================
