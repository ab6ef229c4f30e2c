--------------------------- MODULE FungibleToken ---------------------------
(***************************************************************************)
(* The fixed-supply token contract of examples/fungible-token: a ledger of *)
(* HOLDER_SLOTS slots in order of arrival.  A slot is never freed, not     *)
(* even at balance zero, and every transfer first decodes the stored state,*)
(* which refuses a ledger whose balances do not add up to the supply.      *)
(*                                                                         *)
(* Abstracted: the state's byte layout (encode writes count slots, decode  *)
(* reads count slots) and the event's encoding; the event itself is the    *)
(* transfer it reports.  A refused call replaces nothing, so it is a step  *)
(* the model does not take.                                                *)
(***************************************************************************)
EXTENDS Naturals, Sequences, FiniteSets, FiniteSetsExt

CONSTANTS
    Keys,             \* external signing keys
    HOLDER_SLOTS,     \* 8 in the code
    INITIAL_SUPPLY,   \* 1,000,000 in the code
    MaxU64,           \* largest u64
    Blank             \* the state of an account not yet initialised

ASSUME TokenAssumption ==
    /\ HOLDER_SLOTS \in Nat \ {0}
    /\ INITIAL_SUPPLY \in Nat \ {0}
    /\ MaxU64 \in Nat
    /\ INITIAL_SUPPLY <= MaxU64
    /\ Blank \notin [supply : Nat, holders : Seq([key : Keys, balance : 0..MaxU64])]

Amounts == 1..MaxU64      \* transfer_args refuses zero

Slots == [key : Keys, balance : 0..MaxU64]

VARIABLE ledger           \* Blank, or the stored [supply, holders]

----------------------------------------------------------------------------
\* Slots of h that belong to k; find() takes the first of them.
SlotsOf(h, k) == {i \in DOMAIN h : h[i].key = k}

IsHolder(h, k) == SlotsOf(h, k) # {}

SlotOf(h, k) == CHOOSE i \in SlotsOf(h, k) : \A j \in SlotsOf(h, k) : i <= j

BalanceOf(h, k) == IF IsHolder(h, k) THEN h[SlotOf(h, k)].balance ELSE 0

\* decode() adds the balances up with checked_add; a prefix that overflows
\* makes the whole sum exceed MaxU64.
Total(h) == MapThenSumSet(LAMBDA i : h[i].balance, DOMAIN h)

\* decode() returns a ledger.
Decodes(l) ==
    /\ l # Blank
    /\ Len(l.holders) <= HOLDER_SLOTS
    /\ Total(l.holders) <= MaxU64
    /\ Total(l.holders) = l.supply

\* The sender's slot after checked_sub.
Debited(h, from, amount) == [h EXCEPT ![SlotOf(h, from)].balance = @ - amount]

\* The recipient's slot after checked_add, or the slot appended for it.
Credited(h, to, amount) ==
    IF IsHolder(h, to) THEN [h EXCEPT ![SlotOf(h, to)].balance = @ + amount]
    ELSE Append(h, [key |-> to, balance |-> amount])

\* Mutant of CanTransfer: the slot limit is tested before the recipient is looked up.
CanTransfer_LimitFirst(l, from, to, amount) ==
    /\ Decodes(l)
    /\ Len(l.holders) < HOLDER_SLOTS
    /\ IsHolder(l.holders, from)
    /\ amount <= BalanceOf(l.holders, from)

\* transfer() returns Ok: the recipient is looked up after the debit.
CanTransfer(l, from, to, amount) ==
    /\ Decodes(l)
    /\ IsHolder(l.holders, from)
    /\ amount <= BalanceOf(l.holders, from)
    /\ LET h == Debited(l.holders, from, amount) IN
         IF IsHolder(h, to) THEN h[SlotOf(h, to)].balance + amount <= MaxU64
         ELSE Len(h) < HOLDER_SLOTS

\* Mutant of Transferred: both balances are read before either is written.
Transferred_ReadFirst(l, from, to, amount) ==
    LET h == Debited(l.holders, from, amount) IN
    [l EXCEPT !.holders =
       IF IsHolder(h, to)
         THEN [h EXCEPT ![SlotOf(h, to)].balance = l.holders[SlotOf(h, to)].balance + amount]
         ELSE Credited(h, to, amount)]

Transferred(l, from, to, amount) ==
    [l EXCEPT !.holders = Credited(Debited(@, from, amount), to, amount)]

----------------------------------------------------------------------------
\* init(): the runtime calls it once, for the deploying key.
Initialize(deployer) ==
    /\ ledger = Blank
    /\ ledger' = [supply |-> INITIAL_SUPPLY,
                  holders |-> <<[key |-> deployer, balance |-> INITIAL_SUPPLY]>>]

\* process_message() for an external caller: token.transfer.
Transfer(from, to, amount) ==
    /\ CanTransfer(ledger, from, to, amount)
    /\ ledger' = Transferred(ledger, from, to, amount)

Init == ledger = Blank

Next ==
    \/ \E deployer \in Keys : Initialize(deployer)
    \/ \E from, to \in Keys, amount \in Amounts : Transfer(from, to, amount)

Spec == Init /\ [][Next]_ledger

----------------------------------------------------------------------------
(***************************************************************************)
(* Correctness.                                                            *)
(***************************************************************************)
holders == IF ledger = Blank THEN <<>> ELSE ledger.holders

KnownKeys(h) == {k \in Keys : IsHolder(h, k)}

\* What a key may do depends on its balance alone: whoever holds the amount can
\* pay every key that has a slot, itself included, and a new key exactly while
\* a slot is left.  No order of transfers makes the ledger undecodable, which
\* would freeze all of them.
PayableByBalance ==
    ledger # Blank =>
      \A from, to \in Keys, amount \in Amounts :
        CanTransfer(ledger, from, to, amount) <=>
          /\ amount <= BalanceOf(holders, from)
          /\ IsHolder(holders, to) \/ Cardinality(KnownKeys(holders)) < HOLDER_SLOTS

Promise == INSTANCE TokenBalances WITH
    Supply  <- INITIAL_SUPPLY,
    Places  <- HOLDER_SLOTS,
    balance <- [k \in Keys |-> BalanceOf(holders, k)],
    known   <- KnownKeys(holders)

\* The slot list implements one balance per key moved by the reported
\* transfers: an indexer that applies the events to a table of balances holds
\* what the contract holds.
ImplementsBalances == Promise!Spec

============================================================================
