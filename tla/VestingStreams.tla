---------------------------- MODULE VestingStreams ----------------------------
(***************************************************************************)
(* examples/vesting-streams: the vesting vault, the payout and the refund  *)
(* receiver of every stream, and the part of the AVM runtime between them. *)
(* Both lanes of a stream may have a payment in flight while it is         *)
(* cancelled and other streams pay.                                        *)
(*                                                                         *)
(* A handler that returns an error commits nothing, so only the accepting  *)
(* executions are actions.  `t' is the block time and `block_lt' the       *)
(* logical time of the block that runs the transaction; the block time may *)
(* be behind one the vault has seen before.  A callback stays in           *)
(* `callbacks' and may be presented again: it is the vault that refuses it.*)
(***************************************************************************)
EXTENDS VestingState

CONSTANTS
    Owner, Keys,              \* config.owner, config.streams[i].key
    Vault, Other, NoAddress,
    Bindable, Sources,        \* receivers that are ever bound, arguments of BIND to explore
    Flags,                    \* arguments of REJECT to explore
    Times,                    \* block times to explore
    MaxShell                  \* bound on the SHELL held by the vault

Actors == {Owner} \cup {Keys[i] : i \in Streams}

\* The payout address of stream i is <<i, CLAIM>>, its refund address
\* <<i, REFUND>>: Config::validate makes them all different.
Destinations == Streams \X Lanes

ASSUME ActorAssumption ==
    /\ NoAddress \notin {Vault, Other} /\ Vault # Other
    /\ Bindable \subseteq Destinations
    /\ Sources \subseteq {Vault, Other} /\ Flags \subseteq BOOLEAN
    /\ Times \subseteq Nat /\ MaxShell \in Nat

VARIABLES
    lt,             \* logical time of the latest message the runtime created
    deployed,       \* FALSE until init
    v,              \* the vault's State
    bal, shell,     \* principal (ECC 0) and SHELL (ECC 2) on the vault account
    transit,        \* RECEIVE messages not yet delivered
    callbacks,      \* callbacks the runtime has generated
    rcv             \* destination -> its receiver's state

vault == <<deployed, v, bal, shell>>
vars == <<lt, vault, transit, callbacks, rcv>>

\* payment_body is injective on what it encodes, which names it here.
payment_body(i, k, nonce, amount) ==
    [index |-> i, kind |-> k, nonce |-> nonce, amount |-> amount]
EmptyBody == payment_body(0, 0, 0, 0)

----------------------------------------------------------------------------
(***************************************************************************)
(* Vault handlers: CanX(s, ...) is the conjunction of the handler's checks *)
(* on the decoded state s, whose clock has already moved.                  *)
(***************************************************************************)
Decoded == deployed /\ validate(v)

finish(s) == validate(s) /\ v' = s

Initialize(actor, t) ==
    /\ ~deployed
    /\ actor = Owner
    /\ BeforeFirstStart(t)
    /\ finish(NewState(t))
    /\ deployed' = TRUE
    /\ UNCHANGED <<lt, bal, shell, transit, callbacks, rcv>>

\* STATUS changes nothing but the clock.
Status(t) ==
    /\ Decoded
    /\ finish(Observed(v, t))
    /\ UNCHANGED <<lt, deployed, bal, shell, transit, callbacks, rcv>>

TopUp(amount, t) ==
    /\ Decoded
    /\ amount > 0 /\ shell + amount <= MaxShell
    /\ finish(Observed(v, t))
    /\ shell' = shell + amount
    /\ UNCHANGED <<lt, deployed, bal, transit, callbacks, rcv>>

CanFund(s, actor) ==
    /\ actor = Owner
    /\ ~s.funded
    /\ BeforeFirstStart(s.last_time)

\* Exactly the configured total is accepted, once, before any stream starts.
Fund(actor, t) ==
    LET s == Observed(v, t) IN
    /\ CanFund(s, actor) /\ Decoded
    /\ finish(WithFunding(s))
    /\ bal' = bal + Total
    /\ UNCHANGED <<lt, deployed, shell, transit, callbacks, rcv>>

CanCancel(s, actor, i) ==
    /\ actor = Owner
    /\ s.funded
    /\ Cfg[i].revocable
    /\ ~s.progress[i].cancelled
    /\ s.last_time < Cfg[i].end

Cancel(actor, i, t) ==
    LET s == Observed(v, t) IN
    /\ CanCancel(s, actor, i) /\ Decoded
    /\ finish(WithCancel(s, i))
    /\ UNCHANGED <<lt, deployed, bal, shell, transit, callbacks, rcv>>

\* A beneficiary claims, the owner takes refunds.
Claimant(i, k) == IF k = CLAIM THEN Keys[i] ELSE Owner

\* Mutant of CanDispatch: the balance must cover the whole remaining total.
CanDispatch_Total(s, actor, i, k) ==
    /\ s.funded /\ actor = Claimant(i, k)
    /\ s.progress[i].lanes[k].pending = 0 /\ (k = REFUND => s.progress[i].cancelled)
    /\ due(s, i, k) # 0 /\ shell >= Fuel /\ s.nonce + 1 <= MaxU64
    /\ bal >= Total - SumStreams([j \in Streams |-> s.progress[j].paid[CLAIM]
                                                      + s.progress[j].paid[REFUND]])

\* Mutant of CanDispatch: the operating reserve is not required.
CanDispatch_NoFuel(s, actor, i, k) ==
    /\ s.funded /\ actor = Claimant(i, k) /\ s.progress[i].lanes[k].pending = 0
    /\ (k = REFUND => s.progress[i].cancelled) /\ due(s, i, k) # 0
    /\ bal >= held(s) /\ s.nonce + 1 <= MaxU64

\* CLAIM and REFUND.
CanDispatch(s, actor, i, k) ==
    /\ s.funded
    /\ actor = Claimant(i, k)
    /\ s.progress[i].lanes[k].pending = 0
    /\ k = REFUND => s.progress[i].cancelled
    /\ due(s, i, k) # 0
    /\ bal >= held(s)
    /\ shell >= Fuel
    /\ s.nonce + 1 <= MaxU64

\* The runtime debits the principal and, unless the route is local-free, the
\* fuel reserve.
Dispatch(actor, i, k, t, block_lt) ==
    LET s == Observed(v, t)
        amount == due(s, i, k)
    IN /\ CanDispatch(s, actor, i, k) /\ Decoded
       /\ finish(WithDispatch(s, i, k, block_lt))
       /\ bal' = bal - amount
       /\ \E reserve \in {0, Fuel} :
            /\ shell' = shell - reserve
            /\ transit' = transit \cup
                 {[to |-> <<i, k>>, body |-> payment_body(i, k, s.nonce + 1, amount),
                   principal |-> amount, reserve |-> reserve]}
       /\ UNCHANGED <<lt, deployed, callbacks, rcv>>

\* Mutant of Fresh: logical times are not compared.
Fresh_HashOnly(lane, c) == c.hash # 0 /\ c.hash # lane.last_hash

\* Neither the lane's latest callback nor one created before its attempt.
Fresh(lane, c) ==
    /\ c.hash # 0 /\ c.hash # lane.last_hash
    /\ c.lt > lane.after_lt
    /\ c.lt > lane.last_lt

\* Mutant of CanCallback: payments of a cancelled stream are not settled.
CanCallback_NotCancelled(s, c) ==
    LET i == c.source[1]
        k == c.source[2]
        lane == s.progress[i].lanes[k]
    IN /\ lane.pending # 0 /\ Fresh(lane, c) /\ (k = CLAIM => ~s.progress[i].cancelled)
       /\ IF c.ok THEN c.principal = 0 /\ c.body = payment_body(i, k, lane.nonce, lane.pending)
                  ELSE c.principal = lane.pending /\ c.body = EmptyBody

\* The lane is the one whose address the callback comes from.
CanCallback(s, c) ==
    LET i == c.source[1]
        k == c.source[2]
        lane == s.progress[i].lanes[k]
    IN /\ lane.pending # 0
       /\ Fresh(lane, c)
       /\ IF c.ok THEN c.principal = 0 /\ c.body = payment_body(i, k, lane.nonce, lane.pending)
                  ELSE c.principal = lane.pending /\ c.body = EmptyBody

Callback(c, t) ==
    LET s == Observed(v, t) IN
    /\ CanCallback(s, c) /\ Decoded
    /\ finish(AfterCallback(s, c.source[1], c.source[2], c))
    /\ bal' = bal + c.principal
    /\ shell' = shell + c.shell
    /\ UNCHANGED <<lt, deployed, transit, callbacks, rcv>>

----------------------------------------------------------------------------
(***************************************************************************)
(* The receivers.                                                          *)
(***************************************************************************)
NewReceiver == [bound |-> NoAddress, reject |-> FALSE, last |-> 0, received |-> 0]

Bind(d, source) ==
    /\ rcv[d].bound = NoAddress
    /\ source # NoAddress
    /\ rcv' = [rcv EXCEPT ![d].bound = source]
    /\ UNCHANGED <<lt, vault, transit, callbacks>>

SetReject(d, flag) ==
    /\ rcv' = [rcv EXCEPT ![d].reject = flag]
    /\ UNCHANGED <<lt, vault, transit, callbacks>>

\* RECEIVE, for a message from Vault with a callback request.
Accepts(m) ==
    LET r == rcv[m.to] IN
    /\ r.bound = Vault
    /\ ~r.reject
    /\ m.body.nonce # 0 /\ m.body.amount # 0
    /\ <<m.body.index, m.body.kind>> = m.to
    /\ m.principal = m.body.amount
    /\ m.body.nonce > r.last

WithReceived(r, b) == [r EXCEPT !.last = b.nonce, !.received = @ + b.amount]

----------------------------------------------------------------------------
(***************************************************************************)
(* The runtime.  A delivered message whose handler succeeds yields a       *)
(* success callback that echoes the receiver's result body; one that fails *)
(* changes nothing at the receiver and returns the exact principal with an *)
(* empty body.  Unused reserve returns in either case.  Logical time grows *)
(* with every message created.                                             *)
(***************************************************************************)
CallbackOf(m, ok, unused) ==
    [source |-> m.to, hash |-> m.body.nonce, ok |-> ok, shell |-> unused, lt |-> lt + 1,
     principal |-> IF ok THEN 0 ELSE m.principal, body |-> IF ok THEN m.body ELSE EmptyBody]

DeliverOk(m) ==
    /\ Accepts(m)
    /\ rcv' = [rcv EXCEPT ![m.to] = WithReceived(@, m.body)]
    /\ transit' = transit \ {m}
    /\ \E unused \in 0..m.reserve : callbacks' = callbacks \cup {CallbackOf(m, TRUE, unused)}
    /\ lt' = lt + 1
    /\ UNCHANGED vault

DeliverFailed(m) ==
    /\ transit' = transit \ {m}
    /\ \E unused \in 0..m.reserve : callbacks' = callbacks \cup {CallbackOf(m, FALSE, unused)}
    /\ lt' = lt + 1
    /\ UNCHANGED <<vault, rcv>>

----------------------------------------------------------------------------
Init ==
    /\ lt = 0
    /\ deployed = FALSE
    /\ v = NewState(0)
    /\ bal = 0 /\ shell = 0
    /\ transit = {} /\ callbacks = {}
    /\ rcv = [d \in Destinations |-> NewReceiver]

Users ==
    \/ \E t \in Times :
         \/ Status(t)
         \/ \E amount \in 1..MaxShell : TopUp(amount, t)
         \/ \E actor \in Actors :
              \/ Initialize(actor, t) \/ Fund(actor, t)
              \/ \E i \in Streams : Cancel(actor, i, t)
              \/ \E i \in Streams, k \in Lanes, block_lt \in 0..lt :
                   Dispatch(actor, i, k, t, block_lt)
    \/ \E d \in Bindable, source \in Sources : Bind(d, source)
    \/ \E d \in Destinations, flag \in Flags : SetReject(d, flag)

Runtime ==
    \/ \E m \in transit : DeliverOk(m) \/ DeliverFailed(m)
    \/ \E c \in callbacks, t \in Times : Callback(c, t)

Next == Users \/ Runtime

Spec == Init /\ [][Next]_vars

(***************************************************************************)
(* The runtime delivers every message and every callback it has accepted;  *)
(* nothing obliges the owner or a beneficiary to act.                      *)
(***************************************************************************)
Fairness ==
    /\ WF_vars(\E m \in transit : DeliverOk(m) \/ DeliverFailed(m))
    /\ WF_vars(\E c \in callbacks, t \in Times : Callback(c, t))

FairSpec == Spec /\ Fairness

----------------------------------------------------------------------------
(***************************************************************************)
(* Correctness.                                                            *)
(***************************************************************************)
Lane(d) == v.progress[d[1]].lanes[d[2]]

\* The callback that answers the attempt its lane is waiting for.
Outstanding(c) == Lane(c.source).pending # 0 /\ c.hash = Lane(c.source).nonce

\* The receiver has the pending payment and the vault does not know yet.
Landed(d) == \E c \in callbacks : c.source = d /\ Outstanding(c) /\ c.ok

\* The vault's books agree with what every receiver holds, up to a payment
\* whose receipt is outstanding, and its balance is exactly what it says it
\* holds: enough for all that either lane of any stream can still be due.
LedgerAgrees ==
    /\ \A d \in Destinations :
         rcv[d].received = v.progress[d[1]].paid[d[2]] + IF Landed(d) THEN Lane(d).pending ELSE 0
    /\ bal = held(v)

\* Whenever a handler's own checks pass, at any block time, the candidate
\* state validates: State::validate never masks a permitted operation.
FinishNeverFails ==
    deployed =>
      \A t \in Times :
        LET s == Observed(v, t) IN
        /\ validate(s)
        /\ CanFund(s, Owner) => validate(WithFunding(s))
        /\ \A i \in Streams :
             /\ CanCancel(s, Owner, i) => validate(WithCancel(s, i))
             /\ \A k \in Lanes, block_lt \in 0..lt :
                  CanDispatch(s, Claimant(i, k), i, k) => validate(WithDispatch(s, i, k, block_lt))

\* Nothing a stream owes is ever stuck: an idle lane with something due can be
\* paid by the one entitled to it as soon as the vault has fuel, up to the
\* width of the nonce, whatever the other lanes are doing.
NothingStranded ==
    deployed /\ v.funded /\ shell >= Fuel /\ v.nonce < MaxU64 =>
      \A i \in Streams, k \in Lanes :
        LET p == v.progress[i] IN
        p.lanes[k].pending = 0 /\ (k = REFUND => p.cancelled) /\ due(v, i, k) > 0
          => CanDispatch(v, Claimant(i, k), i, k)

\* What a beneficiary has earned never shrinks, and once cancelled stays what
\* it was; the observed time it is computed at never runs backwards.
EarnedRights ==
    [][v'.last_time >= v.last_time /\
       \A i \in Streams :
         /\ cap(v, i)' >= cap(v, i)
         /\ v.progress[i].cancelled => v'.progress[i].cancelled /\ cap(v, i)' = cap(v, i)]_vars

\* A pending payment is settled, one way or the other, once the runtime has
\* delivered it and its callback: a cancellation never locks it.
PendingSettles == \A d \in Destinations : []<>(Lane(d).pending = 0)

(***************************************************************************)
(* The vault implements its promise.  A payment takes effect when the      *)
(* receiver accepts it, not when the vault learns of it.                   *)
(***************************************************************************)
Promise == INSTANCE VestingPromise WITH
    Streams   <- Streams,
    Schedule  <- LAMBDA i : Cfg[i],
    clock     <- v.last_time,
    funded    <- v.funded,
    cancelled <- [i \in Streams |-> v.progress[i].cancelled],
    cutoff    <- [i \in Streams |-> v.progress[i].cutoff],
    offered   <- [d \in Destinations |-> IF Landed(d) THEN 0 ELSE Lane(d).pending],
    credited  <- [d \in Destinations |-> rcv[d].received]

\* Every step of vault, receivers and runtime is one atomic step of the promise
\* or changes nothing it can see.
ImplementsPromise == Promise!Spec
=============================================================================
