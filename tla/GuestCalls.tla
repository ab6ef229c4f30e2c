----------------------------- MODULE GuestCalls -----------------------------
(***************************************************************************)
(* One call of a contract through the SDK: bytes arrive, are decoded or    *)
(* refused, the contract may encode an event and returns an output, and    *)
(* the dispatcher validates it, reserves its size and writes it            *)
(* (dispatch_message_inner and dispatch_batch in runtime.rs, over the      *)
(* codecs of input.rs and output.rs).  Every call has a fresh instance.    *)
(*                                                                         *)
(* GuestArena is about the memory; here the answer has its size only.      *)
(***************************************************************************)
EXTENDS DeployEnvelope, GuestOutput

CONSTANTS
    MessageFrames,   \* bytes a host could pass as a message
    BatchFrames,     \* and as the messages of a batch
    DeployFrames,    \* messages that carry an envelope, deploy or not
    Envelopes,       \* and what their body may be
    Outputs,         \* what contracts return for a message
    BatchOutputs,    \* and for a batch
    FieldLists,      \* events they encode
    Upgrade          \* CODE_UPGRADE_METHOD_ID

\* What each of them is made of.
ASSUME FramesAssumption ==
    /\ MessageFrames \subseteq MessageEncoding
    /\ BatchFrames \subseteq BatchEncoding
    /\ Envelopes \subseteq EnvelopeEncoding

ASSUME OutputsAssumption ==
    /\ Outputs \subseteq MessageOutput
    /\ BatchOutputs \subseteq BatchOutput
    /\ FieldLists \subseteq Seq([name : Nat, kind : EventKinds, len : Nat])

VARIABLES
    arrived,   \* the bytes passed to an entrypoint
    input,     \* what the contract runs on
    event,     \* the event fields it has encoded
    output     \* what it returned

vars == <<arrived, input, event, output>>

Nothing == [what |-> "nothing"]

Ready == arrived = Nothing /\ input = Nothing

\* A fresh instance: the host passes it a message in an input, or a batch.
ArriveMessage(f) ==
    /\ arrived' = [what |-> "message", frame |-> f]
    /\ UNCHANGED <<input, event, output>>

ArriveBatch(b) ==
    /\ arrived' = [what |-> "batch", frame |-> b]
    /\ UNCHANGED <<input, event, output>>

ArriveEnvelope(f, e) ==
    /\ arrived' = [what |-> "envelope", frame |-> f, envelope |-> e]
    /\ UNCHANGED <<input, event, output>>

\* init takes a deploy, process_message anything else.
RunMessage(in, is_init) ==
    /\ arrived.what = "message"
    /\ LET f == arrived.frame IN
       /\ Has(f, "deploy") = is_init
       /\ decode_message_input(in, f)
       /\ input' = [what |-> "message", mode |-> in.mode, is_init |-> is_init,
                    deploy |-> Has(f, "deploy"), request |-> Has(f, "request"),
                    upgrade |-> f.method = Upgrade]
    /\ arrived' = Nothing
    /\ UNCHANGED <<event, output>>

RunBatch(mode) ==
    /\ arrived.what = "batch"
    /\ mode \in Modes
    /\ decode_batch_input(arrived.frame)
    /\ input' = [what |-> "batch", mode |-> mode, count |-> arrived.frame.count]
    /\ arrived' = Nothing
    /\ UNCHANGED <<event, output>>

\* The contract asks for the constructor fields of its message.
ReadDeploy ==
    /\ arrived.what = "envelope"
    /\ decode_canonical_message(arrived.frame)
    /\ deploy(arrived.frame, arrived.envelope)
    /\ input' = [what |-> "constructor", body |-> arrived.envelope,
                 deploy |-> DeployInput(arrived.envelope)]
    /\ arrived' = Nothing
    /\ UNCHANGED <<event, output>>

\* The contract encodes the fields of an event.
EncodeEvent(fields) ==
    /\ input.what \in {"message", "batch"} /\ output = Nothing /\ event = Nothing
    /\ CanEncodeFields(fields)
    /\ event' = [what |-> "event", list |-> EncodedFields(fields)]
    /\ UNCHANGED <<arrived, input, output>>

\* Its output, with the event it has encoded.
Returned(o) ==
    IF event = Nothing THEN o
    ELSE [o EXCEPT !.events = Each(LAMBDA x : [x EXCEPT !.fields = event.list], @)]

Answer(o) ==
    /\ input # Nothing /\ output = Nothing
    /\ output' = [what |-> input.what, value |-> Returned(o)]
    /\ UNCHANGED <<arrived, input, event>>

Init == arrived = Nothing /\ input = Nothing /\ event = Nothing /\ output = Nothing

Callers == [caller_kind : 0..2, source : 0..1, key : 0..1, destination : 0..1,
            mode : Modes \cup {"unknown"}]

Next ==
    \/ Ready /\ \E f \in MessageFrames : ArriveMessage(f)
    \/ Ready /\ \E b \in BatchFrames : ArriveBatch(b)
    \/ Ready /\ \E f \in DeployFrames, e \in Envelopes : ArriveEnvelope(f, e)
    \/ \E in \in Callers, is_init \in BOOLEAN : RunMessage(in, is_init)
    \/ \E mode \in Modes \cup {"unknown"} : RunBatch(mode)
    \/ ReadDeploy
    \/ \E fields \in FieldLists : EncodeEvent(fields)
    \/ input.what = "message" /\ \E o \in Outputs : Answer(o)
    \/ input.what = "batch" /\ \E o \in BatchOutputs : Answer(o)

Spec == Init /\ [][Next]_vars

----------------------------------------------------------------------------
(***************************************************************************)
(* Correctness.                                                            *)
(***************************************************************************)
\* A message has one encoding: whatever is accepted is what the host would have
\* written for what it says to the contract, to the last byte, with its currencies
\* and event reads in ascending order and none of them twice.  The messages the
\* iterator hands out of a batch are the very ones that were checked when the
\* batch was decoded, one after the other with nothing between or behind them.
InputsAreCanonical ==
    /\ arrived.what = "message" =>
         LET f == arrived.frame IN decode_canonical_message(f) => Encoding(Message(f)) = f
    /\ arrived.what = "batch" =>
         LET b == arrived.frame IN
         decode_batch_input(b) =>
           /\ \A i \in 1..b.count : MayBatch(Item(b, i))
           /\ FlattenSeq([i \in 1..b.count |-> Item(b, i)]) = Slice(b, 0, MessagesLen(b))

\* What the deployer of an envelope meant: the contract's fields, and behind them
\* what only the host looks at.
Deployment(e, view) ==
    [owner_key |-> e.owner_key, abi_hash |-> e.abi_hash,
     package_id |-> view.package_id, owner_id |-> view.owner_id,
     others |-> e.flags \ {"owner_key", "signature"},
     pieces |-> <<view.ui_name, view.salt, view.init_data>> \o [i \in 1..4 |-> Piece(e, 3 + i)],
     signature |-> Take(e, Start(e, 8), SignatureCells(e))]

\* The constructor fields a contract reads are the ones its deployer wrote, and
\* together with the pieces it does not see they are the whole envelope: two
\* readers of one deploy message cannot disagree about where a field ends.
DeployViewExact ==
    input.what = "constructor" =>
      EnvelopeOf(Deployment(input.body, input.deploy)) = input.body

Accepted ==
    /\ output # Nothing
    /\ IF output.what = "message"
       THEN message_output_len_for(input, input.is_init, input.mode, output.value)
       ELSE batch_output_len_for(input.count, input.mode, output.value)

\* The SDK's passes over an answer agree: event fields it encoded for a contract
\* are never the reason the output is refused, and once an output is accepted the
\* writer succeeds and fills exactly the bytes reserved.
EncodersAgree ==
    /\ event # Nothing => validate_event_field_list(event.list)
    /\ Accepted =>
         LET o == output.value IN
         IF output.what = "message"
         THEN MessageWriterSucceeds(o) /\ Total(write_message_output(o)) = message_output_len(o)
         ELSE BatchWriterSucceeds(o) /\ Total(write_batch_output(o)) = batch_output_len(o)

\* An accepted output is applied in one way only: no two of its patches, next to
\* each other or not, replace the same byte of the state.  The code compares each
\* patch with the one before it, by an end that may not pass the 32-bit limit.
AppliesUniquely ==
    Accepted =>
      LET u == output.value.update IN
      u.mode = "DataPatchList" =>
        \A i, k \in Indices(u.patches) :
          i < k => \A x \in 0..MaxU32 :
            ~( /\ x >= u.patches[i].offset /\ x < u.patches[i].offset + u.patches[i].old_len
               /\ x >= u.patches[k].offset /\ x < u.patches[k].offset + u.patches[k].old_len )
=============================================================================
