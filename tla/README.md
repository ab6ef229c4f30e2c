# Verification of the AVM contract SDK and its example contracts

TLA+ models, TLC runs and TLAPS proofs for the code of this repository: the guest
side of the AVM contract SDK (`crates/avm-contract-sdk`) and the contracts of
`examples/` that use it. The host (the AVM runtime, its node and its storage) is
not in the repository; it is modelled from what the contracts and the documents
say it does, and every such definition is marked external in `PROJECT.json`.

    tlc -workers 2 -config BountyEscrow.cfg MCBountyEscrow     # a run
    tlapm BountyEscrowProofs.tla                               # a proof module

Contents: 1 the system, 2 the modules and how they correspond to the code,
3 the runs, 4 fairness, 5 what is proved, 6 abstractions and what is only
model-checked, 7 what is not modelled, 8 plan.

## 1. The system

A contract is a WebAssembly module with three entrypoints (`init`,
`process_message`, `process_batch`) and an arena the host writes inputs into.
A call is one transaction: the handler sees the account's state, balances, the
message and the block time, and answers with a new state, results, events and
outbound messages, or with an error status, in which case nothing is committed.
An outbound message may carry value and ask for a *callback*; the runtime answers
such a message exactly once, with the receiver's result or, if it failed, with the
message's principal back. Between the two any other message may run. That gap is
what most of the code, and most of this project, is about.

| component | state | operations | interacts with |
|---|---|---|---|
| bounty escrow (`examples/bounty-escrow/contracts/escrow`) | funding, up to 8 milestones (phase, delivery hash), one pending transfer, attempts, receipts | init, FUND, SUBMIT, APPROVE, PAY, REFUND, TOPUP, callback | two receivers, by RECEIVE messages with callbacks; owner and worker |
| its receivers (`contracts/receiver`) | bound source, reject flag, last attempt, total | BIND, REJECT, RECEIVE | escrow |
| revenue vault (`examples/revenue-hub/core`, `contracts/vault`) | revenue, a row per member (paid, claimable, pending, last callback), a proposal and its votes, pause, reserve | init, DEPOSIT, CLAIM, PROPOSE, VOTE, EXECUTE, TOPUP, callback | a receiver per member; three managers |
| payout receivers (`contracts/receiver`) | bound vault, flags, last nonce, total | BIND, REJECT, DUPLICATE_AUDIT, RECEIVE | vault; audit ledger, by fire-and-forget reports |
| audit ledger (`contracts/audit`) | a source and a record per member | AUDIT_BIND, AUDIT_RECORD, `process_batch` in two output modes | receivers |
| compact audit (`revenue-hub/experiments/compact-audit`) | the same in 44 + 96 n bytes for n members | the same, and the offline conversion of the regular layout and back | receivers |
| vesting vault (`examples/vesting-streams`) | observed time, up to 8 streams, two payment lanes each | init, STATUS, FUND, CANCEL, CLAIM, REFUND, TOPUP, callback | a payout and a refund receiver per stream |
| factory and children (`examples/factory-child-provenance`) | role, factory, deployer, salt, last accepted sender | init, spawn, accept, report, relay.send, relay.forge | each other, by deploys and reports |
| contract A, versions 1 and 2 (`examples/contract-a-v1`, `-v2`) | 72 bytes: two counters, then an answer, a migration marker or nothing | forward, deploy (v2), version probe, code upgrade, payout, callback | B, the batch patch contract |
| contract B (`examples/contract-b`), batch patch (`examples/contract-batch-patch`) | a counter and the last message; a counter | receive, drain, init by deploy, event read; a batch of one | contract A |
| fungible token (`examples/fungible-token`) | supply and up to 8 holder slots | init, transfer | signing keys |
| SDK guest runtime (`runtime.rs`) | arena of N bytes, at most two block records | allocate, free, read, write_output, three dispatchers | host; codecs |
| SDK input codec (`input.rs`) | none | decode of messages, inputs, batches; batch iterator; the constructor view of a deploy envelope | guest runtime |
| SDK output codec (`output.rs`) | none | validation, size, encoding of outputs; event fields | guest runtime |

Also in the repository and not modelled: the deploy callback fixture, scripts,
metadata tools and test fixtures (section 7).

What is hard here, and what each component must get right:

* **A transfer is three transactions.** Dispatch commits the state, delivery
  happens later or fails, the callback tells the contract still later. Approvals,
  deposits, cancellations, pauses and other claims come in between; callbacks may be
  presented again, and attempts are retried. No principal may be lost or credited
  twice, books and receivers must agree up to what is in flight, a genuine callback
  must never be refused (nothing else opens the lock, there is no timeout), and the
  whole must look like one atomic payment or nothing.
* **State::validate runs on every decode and on every candidate state.** It guards
  against corruption, but a rule in it that a permitted operation can violate would
  refuse that operation for ever. The checks of the handlers must imply it.
* **Deadlines, calendars and shares** are floors and boundary comparisons; the block
  time a vesting vault is shown may be behind one it has seen (a test of the
  repository does that), and deposits are fragmented arbitrarily.
* **Off-chain signatures outlive their context**: an approval of a delivery meets a
  later revision, a vote meets a later proposal.
* **Audit reports** are lost, repeated, reordered and batched; a batch must leave
  what its messages leave one by one.
* **Derived addresses** stand for provenance: whoever deploys an address first owns
  it, and the factory sees only the address.
* **State survives code.** Contract A's account may be upgraded, probed or asked to
  send again between a forward and its answer; only what its 72 bytes hold then tells
  whether the answer may be recorded. Counters must survive the migration.
* **Layouts that depend on a count.** In the compact ledger the place of a record
  follows from the member count, and its conversion discards ranges of the regular
  layout; a patch, a read and a replacement must agree on every offset.
* **Slots are never freed.** A token holder at balance zero keeps a place of eight, and
  a transfer to oneself meets one slot twice.
* **The arena** is a stack of two blocks shared by host and guest, with failures
  half way through an encoding; **the codecs** compute sizes in one function and
  write in another, and must accept one encoding only of each message, since message
  hashes name attempts in every contract above.

`PROJECT.json` lists each hazard at the line where it bites, with the properties
that would catch it.

## 2. Modules

Each component is a state module (pure operators on the contract's state record:
`validate` and the candidate state of every handler), a system module (the handlers,
the receivers and the runtime between them as actions) and a promise (what the
component is for, without messages). `CanX` is the conjunction of a handler's checks
and `X` the action that finishes with `validate`, as the code's `finish()` does.
A handler that returns an error commits nothing, so only accepting executions are
actions. Definitions whose names end in `_Something` next to the definition they vary
are mutants: plausible bugs that the checks are known to catch.

| module | code | what it holds |
|---|---|---|
| `EscrowState` | escrow `lib.rs`: `State`, `Config`, `validate` | milestones, phases, books, pending record, receipts |
| `BountyEscrow` | escrow handlers, receiver `lib.rs`, runtime (external) | `Initialize`, `Fund`, `Submit`, `Approve`, `Pay`, `Refund`, `TopUp`, `Callback`; `Bind`, `SetReject`, delivery; `SignApproval` for the owner's signature off chain |
| `EscrowPromise` | what the escrow's SPEC describes, from the code | atomic Fund, Approve, Pay, Refund, Expire |
| `RevenueState` | `revenue-hub/core` | shares, member rows, proposals |
| `RevenueVault` | vault and receiver handlers, runtime (external) | claims of several members at once, governance |
| `RevenuePromise` | | offers of exactly the floor share, credited once or withdrawn |
| `AuditLedger` | audit `lib.rs` | `isolated` (one report) and `process_batch`, as functions of the ledger |
| `RevenueHub` | composition of vault, receivers and audit | reports delivered in any order, repeatedly, never, or in batches; the compact ledger fed the same reports |
| `CompactAudit` | compact audit `lib.rs` | the byte layout, its decoder, records, patches and replacements, both directions of the conversion |
| `VestingState` | `vesting-streams/core` | release calendar, lanes, `validate` |
| `VestingStreams` | vesting and receiver handlers, runtime (external) | both lanes of every stream, at arbitrary block times |
| `VestingPromise` | | offers of what the calendar has released; a cancellation splits once |
| `FactoryProvenance` | factory contract | accounts by derived address, messages in transit, relays and foreign packages that send anything |
| `CausalContracts` | contracts A v1, A v2, B and batch patch, runtime (external) | forwards, answers presented at any time and again, upgrades, probes, payouts, batches |
| `FungibleToken` | fungible token `lib.rs` | the stored ledger, `Decodes` on every call, slots in order of arrival |
| `TokenBalances` | what a holder and an indexer rely on | one balance per key, moved by transfers, and room for so many keys |
| `GuestArena` | `runtime.rs` | bookkeeping, bytes, the blocks the host owns; dispatch with every failure of the encoder |
| `CanonicalInput` | `input.rs` | what decodes, where every field starts, the batch iterator |
| `DeployEnvelope` | `MessageInput::deploy` in `input.rs` | the envelope's header and its seven pieces, what the reader refuses and returns |
| `GuestOutput` | `output.rs` | rules of an output, sizes computed and written |
| `GuestCalls` | the dispatchers of `runtime.rs` over both codecs | arrive, read a constructor, run or refuse, encode an event, answer |

`MC*.tla` give TLC concrete tables; the `.cfg` files give the other constants.
`BountyEscrowProofs`, `RevenueHubProofs` (the vault and, resting on it, the hub with its
audit ledgers), `VestingStreamsProofs`, `CausalContractsProofs`, `FungibleTokenProofs`,
`GuestArenaProofs`, `GuestCallsProofs` and `FactoryProvenanceProofs` hold the proofs. Each mapped definition's lines are in
`PROJECT.json` under `map`.

## 3. Runs

All runs explore their instance exhaustively.

| run | bounds | distinct states | shows |
|---|---|---|---|
| `escrow_books` | two milestones worth 1 and 2 (a sum names its milestones), two hashes, two attempts, deadline 1, receivers unbound or bound elsewhere | 230,940 | books agree with balance and receivers, only signed deliveries are paid, outcomes final, nothing stranded at expiry, `finish()` masks nothing, genuine callbacks accepted, `EscrowPromise` implemented, a pending transfer settles |
| `revenue_books` | members of one and two thirds, deposits of 1 and 3, revenue up to 4, three claims | 316,678 | floor shares however revenue is fragmented, books agree, genuine callbacks accepted, `RevenuePromise` implemented |
| `revenue_governance` | three interchangeable managers, pauses and reserve changes (a resume is left to the proofs, which cover every ballot), two proposals, a clock up to 5 | 90,103 | a change needs two supporters of exactly those words, its delay and its window; support is never lost; whatever became of a proposal, every manager can propose again within one delay and window |
| `revenue_settles` | one member, two claims, a pause, receiver that rejects or is bound elsewhere | 43,412 | every claim settles |
| `revenue_audit` | two members, two claims, batches of two (the limit) and three, the compact ledger for the same two | 66,424 | records are sums of real receipts and the latest report counts; a batch equals its messages; the compact ledger stores and answers what the regular one does; the conversion loses nothing |
| `vesting_books` | one stream (a cliff, a step that does not divide its duration), block times 0, 3, 4 and 6 in any order, three payments | 56,134 | books agree, `VestingPromise` implemented, every payment settles |
| `vesting_calendar` | the same stream and an irrevocable one on one balance, two payments | 64,572 | earned rights never shrink, due amounts can be paid, `finish()` masks nothing |
| `causal_forwards` | an account of each version of A, a receiver that exists and one only a deploy creates, the batch contract; two forwards an account | 539,256 | an answer recorded is the account's only forward's; what a migration wrote is kept, but for the byte an external probe rewrites; counters agree across upgrades and failed batches; a lone forward's answer is recorded |
| `token_balances` | four keys for three slots, five units | 581 | what a key owns it can send, to itself too; `TokenBalances` implemented |
| `arena_calls` | arena of 3 bytes at address 1, addresses up to 4 | 5,980 | blocks can be freed, keep their bytes, contracts run on owned input only |
| `sdk_calls` | messages with up to five cells, batches of up to two, every cut of a deploy tail of up to nine cells, outputs that vary one part at a time around each limit | 223,762 | one encoding per message, its currencies and event reads ascending, and a batch's items are the checked ones; a constructor view is the deployer's and no other envelope reads the same; size computed = size written and encoded fields accepted; no byte patched twice |
| `factory_provenance` | four accounts in two DApps, two messages in transit | 419,796 | an accepted sender is a child; a strict one was deployed by the factory |

Why these bounds suffice to meet the interesting cases: two attempts allow a failed
one, its retry and a replay of the first callback against the second (the escrow keeps
every receipt); a vesting lane keeps its latest receipt only, so there a third payment
meets a replay the receipt no longer names, and the logical times must refuse it. Two
members (streams) are enough for one payment to be confused with another's; a
deposit of one unit against thirds leaves dust that a later deposit releases; times
on both sides of every boundary (deadline, cliff, end, readiness, expiry) occur; the
integer widths (`MaxU128`, `MaxU64`, `MaxU32`, `MaxU16`) are scaled down so that every
checked addition is met at its limit. The bounds that are not of the code are
`MaxTime`, `MaxShell`, `MaxAccounts`, `MaxTransit` and the sets of inputs to explore
(`Deposits`, `Ballots`, `Sources`, `Flags`, `Times`, `Bindable`, `BatchSizes`,
`Deploys`, `Targets`, `Inputs`, `Routes` and the frames, envelopes and outputs of
`GuestCalls`). In the token run four keys meet three slots, so that a ledger with all
slots taken, some of them empty, is reached; in the forwarding run two forwards an
account are what makes an answer ambiguous.

Deadlock is checked where the instance never has to stop. It is off where the code
itself comes to rest: an escrow that was not initialised before its deadline or has
used its attempts, a vault whose clock or nonce is at its width, and a call of
`sdk_calls`, which ends with its answer or refusal.

Every property of every run has a mutant of the code model in `PROJECT.json` that
the same run catches.

## 4. Fairness

Safety runs use `Init /\ [][Next]_vars`. The escrow, revenue and vesting runs with a
liveness property add weak fairness
of two things the runtime does: deliver a message in transit (successfully or not)
and present a callback the contract would accept. Both are what the runtime's
callback guarantee means: an accepted outbound message with a callback request is
answered, once. No party is obliged to act, no receiver to accept, no block to come,
no one to top up fuel. Under that alone `PendingSettles` holds: each lock opens again
and again, because the contract never refuses the one callback that opens it. The
safety form of the same fact is `GenuineCallbackAccepted`. `causal_forwards` assumes
less: only that an answer owed is presented as long as the account would take it.

## 5. Proofs

For every value of the constants (under the modules' named assumptions, which TLC
evaluates in each run):

**Escrow** (`BountyEscrowProofs`). The first sections are facts about sums over
milestones (`WorthUnion`, `WorthOfPhases`: the phases partition the total) and that
every candidate state the handlers build from a valid one is typed and valid. Then
`Spec => []IInv`, with

    IInv == TypeOK /\ validate(esc) /\ (deployed \/ esc = NewState)
            /\ ReceiptsInOrder /\ TransitInv /\ CallbackInv /\ LedgerAgrees

The books alone are not inductive. That a callback settles the transfer it is meant
for follows from what is in flight: at most one message, carrying the pending record
(`TransitInv`); one callback per attempt, and the one for the pending attempt
truthful (`CallbackInv`); and receipts in the order of attempts, so that a replayed
callback always meets its own receipt (`ReceiptsInOrder`). From it: `TypeCorrect`,
`BooksAgree`, `CallbacksAccepted`, `FinishSucceeds`.

The ways a step can change a milestone (`PhaseChanges`) give `OutcomesFinal`,
`OnlySignedIsPaid` and `PrincipalNotStranded` (the total is the sum over the phases, so
principal left at expiry is either refundable or approved). `KeepsPromise` is
`Spec => ImplementsPromise`. The payment takes effect when the receiver accepts it, not
when the escrow learns of it; one more invariant is needed, that a pending refund was
dispatched after the deadline (`Timely`).

**Revenue vault** (`RevenueHubProofs`, first half). For any number of members, shares, deposits,
delays and windows, `Spec => []IInv`, with

    IInv == TypeOK /\ BooksInv /\ TransitInv /\ CallbackInv /\ OrderInv /\ SupportInv /\ LedgerAgrees

`BooksInv` is what `validate` demands, with each entitlement the floor of a share of the
revenue; the lemmas under it are about those floors (they never add up to more than the
revenue, and grow with it) and about sums over the members in which one summand changes.
`TransitInv` and `CallbackInv` are the escrow's, once per member: one message or one
callback per pending nonce, truthful about what the receiver did; `OrderInv` is the order
of nonces and times that makes a replay meet the receipt that refuses it. `SupportInv`
says that the votes the state keeps are the history of support for the standing words, and
that every nonce up to the vault's was used for one body, no other nonce for any. From it:
`TypeCorrect`, `BooksAgree`, `CallbackAccepted`, `FinishSucceeds`, `ChangesAuthorized`,
`KeepsPromise`, the refinement of `RevenuePromise`, and `StaysOpen`. The last is about the
history of who proposed and voted (`support`), not the vault's own fields: a standing
proposal that two managers have backed is executable throughout its window (a vote that
was overwritten would break it), and with fewer than `MaxU64` bodies ever proposed there
is a moment within `Delay + VoteWindow` at which any manager may make the next one (an
expired proposal that stayed in place, or a nonce used up by anything but a proposal,
would break it). Away from that moment a standing proposal does refuse every other.

**Vesting vault** (`VestingStreamsProofs`). For every set of streams and every calendar
the configuration admits. The invariant is the revenue vault's without the votes, per
*lane* (payout and refund of each stream), and `validate` holds the calendar's bounds:
what is released is between what was paid and the grant and grows with time, and a
cancellation splits it once. The contract keeps only a lane's latest receipt, so what
refuses an older replay is the order of its logical time and the lane's (`OrderInv`,
`CallbackInv`). From it: `TypeCorrect`, `BooksAgree`, `FinishSucceeds`, `NoLaneStranded`,
`CallbackAccepted` (whose property no run states: the vesting runs check the liveness it
serves), `RightsKept` and `KeepsPromise`.

**Hub and audit ledger** (`RevenueHubProofs`, second half). The audit ledger's operations are folds, so
the first part is about folds: `LeftFold` describes `FoldLeft` by the value after every
prefix, and `StagedIs`, `AfterIs` use it to give the ledger after the n-th message of a
batch. `BatchesLikeOneByOne` then compares two such descriptions: what the batch stages
and patches at the end is what its messages leave one by one. The second part adds to the
vault's invariant

    HubInv == IInv /\ ReceiptsInv /\ Lawful(ledger) /\ Explained(ledger)

`ReceiptsInv` ties the receiver's total to the set of reports it has made;
`Explained` says that each record is the sum of a set of true reports up to
its nonce, and is preserved because a report's nonce must exceed the record's. Nonces
bound a record's count and the receiver's total its sum, so a full counter never refuses
the latest report: `RecordsFollow`. It rests on the whole of the vault's invariant, since
what a receiver got is known only through it.

The third part is about the compact ledger's bytes. A string of bytes is read by
`ValueAt`; what a slice, a copy and a set of fields read as (`SliceReads`, `CopiedReads`,
`BytesRead`), and that strings of one length that read the same are the same
(`SameBytes`), is proved once. The invariant is then

    CompactInv == HubInv /\ Holds(compact, ledger)

where `Holds` fixes every byte, region by region: header, one source and then one record
per member. It is needed in full, unused bytes included: `validate` looks at some of
them, and that two strings hold the same ledger makes them equal (`HoldsOnce`). A
record's or a source's patch touches its own part only (`RecordWritten`,
`SourceWritten`), the touched members are patched in ascending order, so the patches
are disjoint and the runtime applies them (`AscendingIs`, `RecordsAppliable`), and the two
modes leave the same bytes (`AppliedIs`). From it `CompactFollows`. For the conversions
every byte of the outcome is described by the byte it came from (`CompactedReads`,
`ExpandedReads`); what `Convertible` refuses is exactly what these descriptions lose, so
anything it lets through comes back unchanged (`ExpandUndoes`): `NothingLost`. The lemma
wants the bytes 1 to 3, which the length field at 0 covers, to have no field of their
own, as in every string the model builds.

**Arena** (`GuestArenaProofs`). For every capacity, base address and width: the
records form a gapless stack (`Stack`), they are exactly the host's blocks
(`OwnedBy`), and each block holds its image (`Holds`). From it `MemoryComesBack`,
`BlocksKeepTheirBytes`, `OnlyBlocksAreRead`.

**SDK calls** (`GuestCallsProofs`). For messages, batches, envelopes and outputs of any
size and any widths of the length fields. What is proved of the codecs:

* *One encoding* (`MessageIsCanonical`, `BatchIsCanonical`, `EnvelopeIsExact`). What a
  message says is its scalar fields, its pieces, and its currencies and event reads as
  sets; the host lists a set in ascending order, which can be done in one way
  (`OneAscending`), the way the decoder demands (`AscendingIs`). Each field
  of the variable part is a piece taken where the one before ends. Two adjacent pieces
  are one piece (`TakeJoins`), all pieces together the tail, and the flags, counts and
  reserved bytes follow from the pieces because the decoder compares them. A batch's
  offsets start at zero and never fall, so its slices join to what was checked; an
  envelope's seven lengths and its signature flag cover its tail (`PiecesJoin`).
* *Size computed is size written* (`MessageSize`, `BatchSize`). The writer's output is a
  concatenation of nested sequences, the computed size a nested sum. What both are one
  element at a time (`TotalIs`, `FlattenIs`) is shown by counting up to the first length
  at which a claim would fail (`CountingUp`); from it come the sum of a concatenation
  (`TotalConcat`, `TotalFlatten`) and the size of each part of the writer. No length
  conversion in the writer can fail, since a part is no longer than the whole, which
  fits, or was validated.
* *No byte patched twice* (`PatchesApart`): each patch starts behind the end of the one
  before, so two however far apart in the list share no byte.

The calls add the little that ties the codecs to the state, `Spec => []CallsInv` with

    CallsInv == ArrivedTyped /\ ConstructorChecked /\ EventEncoded /\ OutputTyped

`ConstructorChecked` says that a constructor's view was taken from an envelope that was
checked as a whole and not just read, `EventEncoded` that an event's bytes come from
fields that were accepted for encoding; without them `DeployViewExact` and
`EncodersAgree` are not inductive. From it `OneEncoding`, `ViewExact`, `WriterFills` and
`AppliesOnce`. `FramesAssumption` and `OutputsAssumption` are the types of the Rust structures (`MessageEncoding`,
`EnvelopeEncoding`, `MessageOutput` and so on), nothing about their values.

**Factory** (`FactoryProvenanceProofs`). For any packages, salts, envelopes and
numbers of accounts: an account's state repeats what its address commits to
(`Described`), a factory's last sender exists at an address derived from it
(`Chosen`), and a report's sender exists (`Reporters`). From it `OnlyChildren` and
`StrictAreSpawned`. The permissive version is excluded from the second on purpose:
its children may be deployed by anybody, as the example's own README documents.

**Forwarding contracts** (`CausalContractsProofs`). For any accounts, receivers and
routes, `Spec => []IInv`, with

    IInv == TypeOK /\ Numbered /\ OneMessage /\ Decided /\ Marked /\ AnswerIsOwn

`AnswerIsOwn` alone is not inductive: that the account's count of forwards is the
number of messages it has sent, whose ids are 1 up to it (`Numbered`), that an id names
one message (`OneMessage`) which is accepted or fails, once (`Decided`), make a count of
one mean that the answer found is the only forward's. `Marked` says that the upgrade
alone flips the tail, which `CanRecord` then refuses. From it `TypeCorrect`,
`AnswersAreOwn` and `MigrationsKept`. The migration's marker `V1MG` at byte 16 is *not*
among what is kept: the first external probe of version 2 writes its version over the
`V` (`contract-a-v2/src/lib.rs:146`; `fixture_oracle.py:329` expects it).
`MigrationKept` says exactly that: the first byte is the version if the present code was
probed and `V` if not, and payload, flipped tail and recorded answer are as the upgrade
left them. No contract reads the marker again; the zero checks before a forward or a
record hold by the other bytes. `CountsAgree` adds what holds of the receivers: one that
does not exist has counted nothing (`Absent`), and each accepted message joins
one of the sets counted (`Counted`).

**Token** (`FungibleTokenProofs`). `TransfersImplementBalances`: the list of slots is
an implementation of one balance per key, for any keys, supply and number of slots.
The inductive part is that no key has two slots and no list is longer than the places;
a transfer to oneself finds the same slot for the debit and the credit. `PayableAnyTime`
adds that the balances, over any number of slots, sum to the supply, so that `Decodes`
never refuses a ledger and a credit never overflows. The sum is a fold; what it is
over a list with one place changed is shown by taking the first prefix at which a
claim fails (`CountingUp`), which is how induction over data is done where the library's
induction theorems cannot be used.

A few definitions of the model are written so that they can be reasoned about, without a
change of meaning: one `EXCEPT` in the callbacks' updates, `IsFiniteSet(Managers)` in
`PartiesValid`, the bodies a proposal may have (`BodyValid`) in `GovernanceReopens`, and
`HubAssumption`, which types the batch limit; and in the compact ledger fields given as a
function of their offsets, the order of the touched members as an ascending enumeration,
and the regular layout as the value at each offset. In the codecs the shapes of frames and
outputs are stated as sets of records, for the two assumptions of `GuestCalls`.

## 6. Abstractions, and what is only model-checked

* A byte string is a model value or a length; addresses, keys and hashes are
  atoms. `payment_body` and event encodings are injective on what they encode. A
  message hash is named by the attempt or nonce in its body, which no other message
  of the contract shares (this is where `InputsAreCanonical` of `sdk_calls` matters).
  BLAKE3 is the tuple it commits to.
* The receiver of member `i` is named `i`, the receiver of a stream's lane by the pair;
  the vaults' configuration checks make those addresses distinct.
* `callbacks` and `reports` are never emptied: the runtime promises one callback, but
  the contracts carry replay protection and are checked with replays at any time.
* Escrow amounts are naturals: the configuration bounds every sum by a total computed
  in the same width. Elsewhere checked additions have their (scaled) widths.
* In `CanonicalInput` a field of the variable part is one cell whatever its width, and
  copied fields (fuel, times, code id) are left out. So is the ACMI frame around a message:
  its lengths, reserved bytes and the account's currencies are read straight through, and
  the message's hash does not cover them. What `InputsAreCanonical` says is about messages
  and batches. In `GuestArena` a byte is named by
  its encoding, place and size, and what the codecs accept is a choice of the
  environment; `GuestCalls` is about that choice.
* `NothingStranded` is about an escrow with attempts left. At `MAX_ATTEMPTS` nothing can
  be sent any more and what is left is locked, which the escrow's SPEC.md accepts; no
  property can cover that state, and its hazard names none.
* A message that is refused by a contract leaves no trace except its failed callback;
  events, gas and rent are not modelled.

* A receiver's rejection flag is explored in `revenue_settles`; elsewhere `Flags` (`RejectFlags`) is
  empty, and a delivery may fail for any reason, which includes it.
* In `CausalContracts` balances are left out (every forward carries what the receivers
  demand), a message's hash is its identity, and the bytes of a status of zero and of an
  untouched field are told apart by name, since the code tells them apart by the counters.
* In `CompactAudit` a byte string is its length and its nonzero fields by offset, so that
  a wrong offset is seen as an overlap. In `DeployEnvelope` the header is a record and
  the tail is cells, so that a piece's start depends on the lengths before it.
* The token's ledger is the list of slots; the layout of its bytes is left out.

Only model-checked: liveness (`PendingSettles` of the escrow, the revenue and the vesting
vault, `LoneForwardAnswered` of the forwarding contracts), since the prover has no
fairness and no ENABLED. Every invariant, action property and refinement of the runs is
also a theorem.

## 7. Not modelled

`PROJECT.json` lists each part with its reason.

* The runtime beyond the behaviour above: it is not in the repository.
* The deploy callback fixture: it keeps one record that each callback overwrites, and no
  relation between calls that a property could be about; its deploy envelope is built by
  the host.
* Release and build scripts, metadata tools and end-to-end drivers: files, processes and
  formatting, without concurrent state.
* Tests and fixtures: read as evidence of what the code is meant to do.

## 8. Plan

Done, in this order: escrow with proofs; revenue vault, governance and audit;
vesting; arena with proofs; codecs; factory with proofs; the escrow's refinement
proof; compact audit; forwarding contracts with proofs; deploy envelope; token with
its refinement proof; proofs of the revenue vault, the vesting vault, the hub with both
of its audit ledgers, and the token's supply; proofs of the codecs.

Left: liveness of the hub, for TLC (a report that is delivered often enough is
recorded), if a runtime that promises such deliveries is ever to be relied on.
