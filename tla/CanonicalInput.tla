--------------------------- MODULE CanonicalInput ---------------------------
(***************************************************************************)
(* What the SDK accepts as a message, an input and a batch                 *)
(* (avm-contract-sdk/src/input.rs).                                        *)
(*                                                                         *)
(* An encoding is a header, here a record, and a tail of cells: a field of *)
(* the tail is one cell whatever its width, so the reader's positions,     *)
(* counts and declared lengths are those of the code up to that scale.     *)
(* Fields that are only copied (fuel, times, block context) are left out,  *)
(* and so is the length of the frame that carries a message.               *)
(***************************************************************************)
EXTENDS Naturals, FiniteSets, SequencesExt

\* The all-zero address, key, hash and method.
Zero == 0

Internal == 0
External == 1

InternalFlags == {"callback", "deploy", "request", "reads"}
ExternalFlags == {"signed", "deploy"}

StrictlySorted(s) == \A i \in 1..(Len(s) - 1) : s[i] < s[i + 1]

\* Cells of the tail from position at on.
Take(f, at, n) == SubSeq(f.tail, at + 1, at + n)

----------------------------------------------------------------------------
(***************************************************************************)
(* One message: callback header, callback request, event reads, currencies *)
(* and body follow each other in the tail, an external one's signature     *)
(* last.                                                                   *)
(***************************************************************************)
MessageEncoding ==
    [tag : Nat, flags : SUBSET STRING, method : Nat, source : Nat, destination : Nat, key : Nat,
     reserved : Nat, extra_count : Nat, body_len : Nat, signature_len : Nat, tail : Seq(Nat)]

Has(f, flag) == flag \in f.flags

CallbackCells(f) == IF Has(f, "callback") THEN 3 ELSE 0
RequestCells(f) == IF Has(f, "request") THEN 1 ELSE 0
ReadsAt(f) == CallbackCells(f) + RequestCells(f)
ReadsCells(f) == IF Has(f, "reads") THEN 2 + f.tail[ReadsAt(f) + 1] ELSE 0
ExtraAt(f) == IF f.tag = Internal THEN ReadsAt(f) + ReadsCells(f) ELSE 0
BodyAt(f) == ExtraAt(f) + f.extra_count
SignatureAt(f) == BodyAt(f) + f.body_len

Callback(f) == Take(f, 0, CallbackCells(f))
Handler(f) == Take(f, CallbackCells(f), RequestCells(f))
Reads(f) == IF Has(f, "reads") THEN Take(f, ReadsAt(f) + 2, ReadsCells(f) - 2) ELSE <<>>
Extra(f) == Take(f, ExtraAt(f), f.extra_count)
Body(f) == Take(f, BodyAt(f), f.body_len)
Signature(f) == Take(f, SignatureAt(f), f.signature_len)

\* Every read is inside the tail and the last one ends it.
Whole(f) == SignatureAt(f) + f.signature_len = Len(f.tail)

CallbackValid(f) ==
    Has(f, "callback") =>
      LET hash == f.tail[1] cause == f.tail[2] status == f.tail[3] IN
      /\ hash # Zero
      /\ cause = f.destination
      /\ ~(f.method = Zero /\ status = 0)
      /\ status # 0 => Body(f) = <<>>

ReadsValid(f) ==
    Has(f, "reads") =>
      /\ f.tail[ReadsAt(f) + 1] # 0 /\ f.tail[ReadsAt(f) + 2] = 0
      /\ StrictlySorted(Reads(f))

decode_internal_message(f) ==
    /\ f.flags \subseteq InternalFlags
    /\ Has(f, "callback") => ~Has(f, "deploy") /\ ~Has(f, "request")
    /\ f.reserved = 0
    /\ f.source # Zero /\ f.destination # Zero
    /\ Has(f, "reads") => ReadsAt(f) + 2 <= Len(f.tail)
    /\ Whole(f)
    /\ CallbackValid(f)
    /\ Has(f, "request") => Handler(f)[1] # Zero
    /\ ReadsValid(f)
    /\ StrictlySorted(Extra(f))

\* A signature is one cell.
decode_external_message(f) ==
    /\ f.flags \subseteq ExternalFlags /\ Has(f, "signed")
    /\ f.reserved = 0
    /\ f.signature_len = 1
    /\ f.destination # Zero /\ f.key # Zero
    /\ Whole(f)
    /\ StrictlySorted(Extra(f))

decode_canonical_message(f) ==
    \/ f.tag = Internal /\ decode_internal_message(f)
    \/ f.tag = External /\ decode_external_message(f)

\* What an accepted message says to the contract: currencies and event reads are
\* records keyed by their id, so that it is a set of them, in whatever order.
Message(f) ==
    [tag |-> f.tag, flags |-> f.flags, method |-> f.method, source |-> f.source,
     destination |-> f.destination, key |-> f.key, callback |-> Callback(f),
     handler |-> Handler(f), reads |-> ToSet(Reads(f)), extra |-> ToSet(Extra(f)),
     body |-> Body(f), signature |-> Signature(f)]

\* The members of ids, each once and in ascending order.
Ascending(ids) ==
    CHOOSE s \in [1..Cardinality(ids) -> ids] : ToSet(s) = ids /\ StrictlySorted(s)

\* The host's encoding of a message.
Encoding(m) ==
    [tag |-> m.tag, flags |-> m.flags, method |-> m.method, source |-> m.source,
     destination |-> m.destination, key |-> m.key, reserved |-> 0,
     extra_count |-> Cardinality(m.extra), body_len |-> Len(m.body), signature_len |-> Len(m.signature),
     tail |-> m.callback \o m.handler
              \o (IF m.reads = {} THEN <<>>
                  ELSE <<Cardinality(m.reads), 0>> \o Ascending(m.reads))
              \o Ascending(m.extra) \o m.body \o m.signature]

----------------------------------------------------------------------------
(***************************************************************************)
(* The input of init and process_message.                                  *)
(***************************************************************************)
Modes == {"FullReplace", "DataPatchList"}

\* The caller the input names is the author of the message it carries.
CallerMatches(in, f) ==
    \/ /\ in.caller_kind = 0 /\ f.tag = Internal
       /\ in.key = Zero /\ in.source = f.source
    \/ /\ in.caller_kind = 1 /\ f.tag = External
       /\ in.source = Zero /\ in.key = f.key

decode_message_input(in, f) ==
    /\ in.mode \in Modes
    /\ f.destination = in.destination
    /\ CallerMatches(in, f)
    /\ decode_canonical_message(f)

----------------------------------------------------------------------------
(***************************************************************************)
(* A batch: a count, one offset more, the messages, and the event results  *)
(* behind their length.  A cell knows the message it is part of, its place *)
(* and the size of the whole; a message is accepted only whole.            *)
(***************************************************************************)
BatchEncoding ==
    [count : Nat, offsets : Seq(Nat), rest : Seq([of : STRING, at : Nat, size : Nat])]

Slice(b, from, to) == SubSeq(b.rest, from + 1, to)

Image(m) == [k \in 1..m.size |-> [of |-> m.of, at |-> k, size |-> m.size]]

IsMessage(cells) ==
    /\ cells # <<>>
    /\ cells = Image([of |-> cells[1].of, size |-> Len(cells)])

\* A message of a batch is addressed to the account and takes no part in callbacks.
MayBatch(cells) == IsMessage(cells) /\ cells[1].of = "plain"

\* Mutant of StartsAtZero: the first offset is not looked at.
StartsAtZero_Not(b) == TRUE

StartsAtZero(b) == b.offsets[1] = 0

MessagesLen(b) == b.offsets[b.count + 1]

\* Where the loop of decode_batch_input looks for the i-th message.
Previous(b, i) == IF i = 1 THEN 0 ELSE b.offsets[i]

decode_batch_input(b) ==
    /\ b.count + 1 <= Len(b.offsets)
    /\ StartsAtZero(b)
    /\ MessagesLen(b) + 1 <= Len(b.rest)
    /\ LET results == b.rest[MessagesLen(b) + 1].at IN
       MessagesLen(b) + 1 + results = Len(b.rest)
    /\ \A i \in 1..b.count :
         /\ b.offsets[i + 1] > Previous(b, i) /\ b.offsets[i + 1] <= MessagesLen(b)
         /\ MayBatch(Slice(b, Previous(b, i), b.offsets[i + 1]))

\* The i-th item of BatchMessageIter: the cells between two offsets.
Item(b, i) ==
    IF b.offsets[i] <= b.offsets[i + 1] /\ b.offsets[i + 1] <= MessagesLen(b)
    THEN Slice(b, b.offsets[i], b.offsets[i + 1])
    ELSE <<>>
=============================================================================
