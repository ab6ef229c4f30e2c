-------------------------- MODULE CausalContracts --------------------------
(***************************************************************************)
(* The forwarding fixtures: contract A in its two versions, the receiver   *)
(* contract B, the batch patch contract, and the part of the runtime       *)
(* between them.  An account of contract A forwards one message, waits for *)
(* its answer, and meanwhile may be probed, upgraded or asked to forward   *)
(* again; what it finds in its 72 bytes when the answer comes decides      *)
(* whether the answer is recorded.                                         *)
(*                                                                         *)
(* Balances are left out: every forward carries the 37 and 11 units the    *)
(* receivers demand.  A handler that fails changes nothing at its account. *)
(***************************************************************************)
EXTENDS Naturals, FiniteSets

CONSTANTS
    Senders,        \* accounts of contract A
    Installed,      \* sender -> the version it was deployed with
    Receivers,      \* accounts of contract B
    Fresh,          \* those receivers that only a deploy creates
    Patcher,        \* the account of the batch patch contract
    Routes,         \* <<destination, method>> pairs to forward to
    MaxU64          \* width of the counters, a bound on forwards

Methods == {"receive", "drain", "patch"}

ASSUME RouteAssumption ==
    /\ Installed \in [Senders -> {1, 2}]
    /\ Patcher \notin Receivers
    /\ Fresh \subseteq Receivers
    /\ Routes \subseteq (Receivers \cup {Patcher}) \X Methods
    /\ MaxU64 \in Nat

VARIABLES
    version,    \* sender -> the version of its code, 1 or 2
    acct,       \* sender -> its state
    recv,       \* receiver -> its state
    counter,    \* the batch patch contract's counter
    payouts,    \* sender -> payout messages on their way to it
    sent,       \* every forward so far
    committed,  \* ids of the forwards their destination has accepted
    refused,    \* ids of the forwards that failed
    upgraded,   \* senders whose account has been upgraded
    probed      \* senders whose present code was asked for its version from outside

senders == <<version, acct, upgraded, probed>>
vars == <<senders, recv, counter, payouts, sent, committed, refused>>

----------------------------------------------------------------------------
(***************************************************************************)
(* The state of contract A.  Bytes 17 to 47 hold nothing, the rest of an   *)
(* answer or the rest of the migration's marker, which `record' tells      *)
(* apart; byte 16 is their first, and the one a version probe writes.      *)
(* Bytes 48 to 71 hold the answer's hash, and the migration flips them.    *)
(***************************************************************************)
NoHash == <<>>

V == 86  \* the first byte of the migration's marker

NewA == [forwards |-> 0, callbacks |-> 0, first |-> 0, record |-> "none",
         hash |-> NoHash, flipped |-> FALSE]

\* state[16..] is all zero.
Untouched(s) == s.first = 0 /\ s.record = "none" /\ s.hash = NoHash /\ ~s.flipped

\* A plain forward needs state[8..] to be zero, in both versions.
CanForward(s) == s.callbacks = 0 /\ Untouched(s) /\ s.forwards + 1 <= MaxU64

Forwarded(s) == [NewA EXCEPT !.forwards = s.forwards + 1]

\* A deploy of version 2 keeps the rest of the state.
CanDeploy(s) == s.forwards + 1 <= MaxU64

\* Mutant of Deployed: built like a plain forward, from a blank state.
Deployed_Blank(s) == [NewA EXCEPT !.forwards = s.forwards + 1]

Deployed(s) == [s EXCEPT !.forwards = @ + 1]

\* process_version_probe: an external probe leaves its version in byte 16; an
\* internal one is version 2's way to take a payout and leaves nothing.
Probed(s, ver) == [s EXCEPT !.first = ver]

\* Mutant of PaidOut: the payout is marked like an external probe.
PaidOut_Marked(s, ver) == IF ver = 2 THEN Probed(s, ver) ELSE s

PaidOut(s, ver) == s

\* process_code_upgrade: the marker, and the payload over the bytes after it.
Migrated(s) == [s EXCEPT !.first = V, !.record = "migration", !.flipped = ~@]

\* Mutant of CanRecord: a second forward is not noticed.
CanRecord_AnyCount(s) == s.forwards >= 1 /\ s.callbacks = 0 /\ Untouched(s)

CanRecord(s) == s.forwards = 1 /\ s.callbacks = 0 /\ Untouched(s)

\* A recorded status of zero makes bytes 16 to 19 zero.
Recorded(s, id) ==
    [NewA EXCEPT !.forwards = s.forwards, !.callbacks = 1, !.record = "answer", !.hash = id]

----------------------------------------------------------------------------
(***************************************************************************)
(* Contract A's handlers.                                                  *)
(***************************************************************************)
IdsOf(a) == {m.id : m \in {x \in sent : x.from = a}}

NextId(a) == <<a, Cardinality(IdsOf(a)) + 1>>

Message(a, to, method, wants) ==
    [id |-> NextId(a), from |-> a, to |-> to, method |-> method, wants |-> wants]

\* An external call of causal.a.forward.  Version 1 may leave the callback out;
\* version 2 forwards without one only to deploy.
Forward(a, route, wants) ==
    /\ version[a] = 2 => wants
    /\ CanForward(acct[a])
    /\ acct' = [acct EXCEPT ![a] = Forwarded(@)]
    /\ sent' = sent \cup {Message(a, route[1], route[2], wants)}
    /\ UNCHANGED <<version, upgraded, probed, recv, counter, payouts, committed, refused>>

Deploy(a, r) ==
    /\ version[a] = 2
    /\ CanDeploy(acct[a])
    /\ acct' = [acct EXCEPT ![a] = Deployed(@)]
    /\ sent' = sent \cup {Message(a, r, "deploy", FALSE)}
    /\ UNCHANGED <<version, upgraded, probed, recv, counter, payouts, committed, refused>>

Probe(a) ==
    /\ probed' = probed \cup {a}
    /\ acct' = [acct EXCEPT ![a] = Probed(@, version[a])]
    /\ UNCHANGED <<version, upgraded, recv, counter, payouts, sent, committed, refused>>

\* The package owner selects version 2; version 2 accepts no upgrade.
Upgrade(a) ==
    /\ version[a] = 1
    /\ version' = [version EXCEPT ![a] = 2]
    /\ upgraded' = upgraded \cup {a} /\ probed' = probed \ {a}
    /\ acct' = [acct EXCEPT ![a] = Migrated(@)]
    /\ UNCHANGED <<recv, counter, payouts, sent, committed, refused>>

\* The runtime presents the answer to m, maybe again.  An answer that tells of
\* a failure is refused whatever the state, so only committed forwards count.
Callback(m) ==
    /\ m.wants /\ m.id \in committed
    /\ CanRecord(acct[m.from])
    /\ acct' = [acct EXCEPT ![m.from] = Recorded(@, m.id)]
    /\ UNCHANGED <<version, upgraded, probed, recv, counter, payouts, sent, committed, refused>>

\* Version 1 refuses the payout, version 2 takes it: neither writes anything.
Payout(a) ==
    /\ payouts[a] > 0
    /\ payouts' = [payouts EXCEPT ![a] = @ - 1]
    /\ acct' = [acct EXCEPT ![a] = PaidOut(@, version[a])]
    /\ UNCHANGED <<version, upgraded, probed, recv, counter, sent, committed, refused>>

----------------------------------------------------------------------------
(***************************************************************************)
(* Contract B and the batch patch contract.                                *)
(***************************************************************************)
Transit == {m \in sent : m.id \notin committed \cup refused}

\* blank: bytes 8 to 127 are zero.  events: internal events emitted so far.
NoB == [exists |-> FALSE, count |-> 0, blank |-> TRUE, events |-> 0]

\* An external init.
NewB == [NoB EXCEPT !.exists = TRUE]

CanReceive(b) == b.exists /\ b.count + 1 <= MaxU64

\* Mutant of Received: the count is not raised.
Received_SameCount(b) == [b EXCEPT !.blank = FALSE, !.events = @ + 1]

Received(b) == [b EXCEPT !.count = @ + 1, !.blank = FALSE, !.events = @ + 1]

Commit(m) == committed' = committed \cup {m.id}

Receive(m) ==
    /\ m.to \in Receivers /\ m.method = "receive" /\ m.wants
    /\ CanReceive(recv[m.to])
    /\ recv' = [recv EXCEPT ![m.to] = Received(@)]
    /\ Commit(m)
    /\ UNCHANGED <<senders, counter, payouts, sent, refused>>

\* Draining keeps the state and pays everything held to the sender.
Drain(m) ==
    /\ m.to \in Receivers /\ m.method = "drain" /\ m.wants
    /\ CanReceive(recv[m.to])
    /\ recv[m.to].count = 1
    /\ payouts' = [payouts EXCEPT ![m.from] = @ + 1]
    /\ Commit(m)
    /\ UNCHANGED <<senders, recv, counter, sent, refused>>

\* init by a deploy: counts one, emits its events and pays twice.
Create(m) ==
    /\ m.method = "deploy"
    /\ ~recv[m.to].exists
    /\ recv' = [recv EXCEPT ![m.to] = [NewB EXCEPT !.count = 1, !.events = 1]]
    /\ payouts' = [payouts EXCEPT ![m.from] = @ + 2]
    /\ Commit(m)
    /\ UNCHANGED <<senders, counter, sent, refused>>

\* A message that reads another account's latest internal event: only a blank
\* account that has counted nothing takes it.
EventRead(r, source) ==
    /\ r # source
    /\ recv[r].exists /\ recv[r].count = 0 /\ recv[r].blank
    /\ recv[source].events > 0
    /\ recv' = [recv EXCEPT ![r] = [@ EXCEPT !.count = 1, !.blank = FALSE]]
    /\ UNCHANGED <<senders, counter, payouts, sent, committed, refused>>

\* process_batch of the batch patch contract takes a batch of exactly one
\* message without a callback; any other batch fails as a whole.
Patches(batch) == Cardinality(batch) = 1 /\ (\A m \in batch : ~m.wants) /\ counter + 1 <= MaxU64

BatchPatch(batch) ==
    /\ batch # {}
    /\ IF Patches(batch)
       THEN /\ counter' = counter + 1
            /\ committed' = committed \cup {m.id : m \in batch}
            /\ refused' = refused
       ELSE /\ refused' = refused \cup {m.id : m \in batch}
            /\ UNCHANGED <<counter, committed>>
    /\ UNCHANGED <<senders, recv, payouts, sent>>

\* A message whose handler fails, traps or runs out of fuel.
Refuse(m) ==
    /\ refused' = refused \cup {m.id}
    /\ UNCHANGED <<senders, recv, counter, payouts, sent, committed>>

----------------------------------------------------------------------------
Init ==
    /\ version = Installed
    /\ acct = [a \in Senders |-> NewA]
    /\ upgraded = {} /\ probed = {}
    /\ recv = [r \in Receivers |-> IF r \in Fresh THEN NoB ELSE NewB]
    /\ counter = 0
    /\ payouts = [a \in Senders |-> 0]
    /\ sent = {} /\ committed = {} /\ refused = {}

Users ==
    \E a \in Senders :
      \/ \E route \in Routes, wants \in BOOLEAN : Forward(a, route, wants)
      \/ \E r \in Fresh : Deploy(a, r)
      \/ Probe(a)
      \/ Upgrade(a)

Deliver == \E m \in Transit : Receive(m) \/ Drain(m) \/ Create(m) \/ Refuse(m)

Answer == \E m \in sent : Callback(m)

Runtime ==
    \/ Deliver
    \/ Answer
    \/ \E batch \in SUBSET {m \in Transit : m.to = Patcher} : BatchPatch(batch)
    \/ \E a \in Senders : Payout(a)
    \/ \E r, source \in Receivers : EventRead(r, source)

Next == Users \/ Runtime

Spec == Init /\ [][Next]_vars

\* The runtime delivers every answer it owes; nobody is obliged to call.
FairSpec == Spec /\ WF_vars(Answer)

----------------------------------------------------------------------------
(***************************************************************************)
(* Correctness.                                                            *)
(***************************************************************************)
Ids == Senders \X Nat

MessageRecords == [id : Ids, from : Senders, to : Receivers \cup {Patcher},
                   method : Methods \cup {"deploy"}, wants : BOOLEAN]

AStates == [forwards : Nat, callbacks : {0, 1}, first : {0, 1, 2, V},
            record : {"none", "answer", "migration"}, hash : Ids \cup {NoHash},
            flipped : BOOLEAN]

BStates == [exists : BOOLEAN, count : Nat, blank : BOOLEAN, events : Nat]

TypeOK ==
    /\ version \in [Senders -> {1, 2}]
    /\ acct \in [Senders -> AStates]
    /\ upgraded \subseteq Senders /\ probed \subseteq Senders
    /\ recv \in [Receivers -> BStates]
    /\ counter \in Nat
    /\ payouts \in [Senders -> Nat]
    /\ sent \subseteq MessageRecords
    /\ committed \subseteq Ids /\ refused \subseteq Ids

Plain(a) == {m \in sent : m.from = a /\ m.method # "deploy"}

\* An account that holds an answer sent exactly one plain message, of which the
\* answer is, and the receiver of that message accepted it: no answer is
\* recorded for another forward, for a failed one, or over a migration.
AnswerIsOwn ==
    \A a \in Senders :
      acct[a].hash # NoHash =>
        /\ acct[a].callbacks = 1
        /\ \E m \in Plain(a) :
             /\ Plain(a) = {m} /\ m.id = acct[a].hash
             /\ m.wants /\ m.id \in committed /\ m.id \notin refused

\* Late answers, forwards, deploys and payouts leave an upgraded account what the
\* migration wrote, its payload and the flipped tail, and an answer recorded
\* before it keeps its count.  The marker itself does not last: the first
\* external probe of version 2 overwrites its first byte with the version, and
\* nothing but that probe does.
MigrationKept ==
    \A a \in upgraded :
      LET s == acct[a] IN
      /\ s.record = "migration" /\ s.flipped
      /\ s.first = IF a \in probed THEN version[a] ELSE V
      /\ s.callbacks = 1 <=> s.hash # NoHash

\* Counters agree with history across upgrades and failures: an account of A
\* has counted what it sent, B what it accepted (drains apart) on top of the
\* one its deploy or event read counts, and the batch contract its messages.
Accepted(to, method) == {m \in sent : m.id \in committed /\ m.to = to /\ m.method = method}

CountsExplained ==
    /\ \A a \in Senders : acct[a].forwards = Cardinality(IdsOf(a))
    /\ \A r \in Receivers :
         /\ recv[r].events = Cardinality(Accepted(r, "receive")) + Cardinality(Accepted(r, "deploy"))
         /\ recv[r].count - recv[r].events \in {0, 1}
         /\ recv[r].blank => recv[r].count = Cardinality(Accepted(r, "deploy"))
    /\ counter = Cardinality({m \in sent : m.id \in committed /\ m.to = Patcher})

\* The only message the account has sent, which asked for an answer.
Lone(a) == \E m \in Plain(a) : IdsOf(a) = {m.id} /\ m.wants /\ m.id \in committed

\* The answer to a lone accepted forward is recorded, unless the account is
\* probed, upgraded or made to send again first: payouts that overtake it, and
\* whatever happens at the receivers, do not cost the account its answer.
LoneForwardAnswered ==
    \A a \in Senders :
      Lone(a) ~> (acct[a].callbacks = 1 \/ a \in probed \cup upgraded \/ ~Lone(a))
============================================================================
