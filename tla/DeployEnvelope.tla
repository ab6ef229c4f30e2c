--------------------------- MODULE DeployEnvelope ---------------------------
(***************************************************************************)
(* The constructor envelope in the body of a deploy message, as the SDK    *)
(* shows it to a contract (MessageInput::deploy in                         *)
(* avm-contract-sdk/src/input.rs).                                         *)
(*                                                                         *)
(* The fixed 288-byte header is a record.  The tail is read in cells: seven*)
(* pieces, each as long as the header says, and a signature of one cell.   *)
(* The first three pieces are what the contract asks for.                  *)
(***************************************************************************)
EXTENDS CanonicalInput, SequencesExt

Pieces == 1..7
UiName == 1
Salt == 2
InitData == 3
Abi == 6

EnvelopeEncoding ==
    [magic : BOOLEAN, flags : SUBSET STRING, reserved : Nat, owner_key : Nat, abi_hash : Nat,
     package_id : Nat, owner_id : Nat, lens : [Pieces -> Nat], tail : Seq(Nat)]

\* The header bits that decide how the rest is read; "plain" stands for the others.
EnvelopeFlags == {"plain", "no_owner_key", "owner_key", "signature"}

\* Mutant of SignatureCells: the reader stops before the signature.
SignatureCells_Skipped(e) == 0

SignatureCells(e) == IF "signature" \in e.flags THEN 1 ELSE 0

\* Where the i-th piece starts; the eighth is the signature.
Start(e, i) == FoldLeft(LAMBDA sum, len : sum + len, 0, SubSeq(e.lens, 1, i - 1))

Piece(e, i) == Take(e, Start(e, i), e.lens[i])

\* Every piece is taken from the tail, and finish() finds nothing behind them.
TailWhole(e) == Start(e, 8) + SignatureCells(e) = Len(e.tail)

\* The flag says whether there is an owner's key, and one flag forbids it.
OwnerKeyAgrees(e) ==
    /\ "owner_key" \in e.flags <=> e.owner_key # Zero
    /\ ~({"no_owner_key", "owner_key"} \subseteq e.flags)

\* deploy() on a message f whose body is the envelope e.
deploy(f, e) ==
    /\ Has(f, "deploy")
    /\ e.magic
    /\ e.flags \subseteq EnvelopeFlags
    /\ e.reserved = 0
    /\ OwnerKeyAgrees(e)
    /\ e.lens[Abi] = 0 => e.abi_hash = Zero
    /\ TailWhole(e)

DeployInput(e) ==
    [package_id |-> e.package_id, owner_id |-> e.owner_id, ui_name |-> Piece(e, UiName),
     salt |-> Piece(e, Salt), init_data |-> Piece(e, InitData)]

----------------------------------------------------------------------------
\* What the deployer meant, and the one envelope the host writes for it: d.pieces
\* holds the seven pieces, d.signature is empty when there is none.
EnvelopeOf(d) ==
    [magic |-> TRUE, reserved |-> 0, owner_key |-> d.owner_key, abi_hash |-> d.abi_hash,
     package_id |-> d.package_id, owner_id |-> d.owner_id,
     flags |-> d.others
               \cup (IF d.owner_key = Zero THEN {} ELSE {"owner_key"})
               \cup (IF d.signature = <<>> THEN {} ELSE {"signature"}),
     lens |-> [i \in Pieces |-> Len(d.pieces[i])],
     tail |-> FlattenSeq(d.pieces) \o d.signature]
=============================================================================
