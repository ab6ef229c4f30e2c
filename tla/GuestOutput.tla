----------------------------- MODULE GuestOutput -----------------------------
(***************************************************************************)
(* What the SDK lets a contract answer (avm-contract-sdk/src/output.rs):   *)
(* the rules an output has to meet in general and for its input, the size  *)
(* reserved for it, and the sizes of the pieces that are then written.     *)
(*                                                                         *)
(* A byte string is its length, an address whether it is usable, and a     *)
(* currency its identifier.                                                *)
(***************************************************************************)
EXTENDS Naturals, Sequences, SequencesExt

CONSTANTS MaxU16, MaxU32

ASSUME WidthAssumption == MaxU16 \in Nat /\ MaxU32 \in Nat /\ MaxU16 <= MaxU32

FitsU16(n) == n <= MaxU16
FitsU32(n) == n <= MaxU32

Total(sizes) == FoldLeft(LAMBDA sum, n : sum + n, 0, sizes)

Indices(s) == 1..Len(s)
Each(Op(_), s) == [i \in Indices(s) |-> Op(s[i])]

----------------------------------------------------------------------------
(***************************************************************************)
(* The structures a contract hands to the SDK.                             *)
(***************************************************************************)
EventFields == Seq([name : Nat, kind : Nat, len : Nat])

StateUpdates ==
    [mode : {"FullReplace"}, len : Nat]
    \cup [mode : {"DataPatchList"}, patches : Seq([offset : Nat, old_len : Nat, new : Nat])]

OutboundIntents == [input : Nat, usable : BOOLEAN, extra : Seq(Nat), body : Nat]

EventIntents ==
    [input : Nat, name : Nat, topics : Seq(Nat),
     fields : [count : Nat, reserved : Nat, trailing : Nat, fields : EventFields]]

None == [mode |-> "none"]

MessageOutput ==
    [status : Nat, update : StateUpdates \cup {None}, result : Nat, outbound : Seq(OutboundIntents),
     callbacks : Seq([outbound : Nat, handler : Nat]), events : Seq(EventIntents), upgrade : BOOLEAN]

BatchOutput ==
    [update : StateUpdates, statuses : Seq(Nat), outbound : Seq(OutboundIntents),
     events : Seq(EventIntents)]

----------------------------------------------------------------------------
(***************************************************************************)
(* Event fields: name, kind and value length, names in strictly increasing *)
(* order.  The name is its rank, encoded with that many bytes.             *)
(***************************************************************************)
EventKinds == 0..8

\* The length encode_event_value gives a value that may have any length itself.
ValueLen(kind, len) ==
    CASE kind = 0 -> 0
      [] kind = 1 -> 1
      [] kind \in {2, 3} -> 8
      [] kind \in {4, 5} -> 16
      [] kind \in {6, 7} -> len
      [] kind = 8 -> 64

NamesSorted(fields) == \A i \in 1..(Len(fields) - 1) : fields[i].name < fields[i + 1].name

CanEncodeFields(fields) ==
    /\ FitsU16(Len(fields))
    /\ NamesSorted(fields)
    /\ \A i \in Indices(fields) : FitsU16(fields[i].name) /\ FitsU16(ValueLen(fields[i].kind, fields[i].len))

\* encode_event_fields(): count, zero, and the fields as they are read back.
EncodedFields(fields) ==
    [count |-> Len(fields), reserved |-> 0, trailing |-> 0,
     fields |-> Each(LAMBDA x : [name |-> x.name, kind |-> x.kind, len |-> ValueLen(x.kind, x.len)],
                     fields)]

FieldsLen(l) == 4 + Total(Each(LAMBDA x : 5 + x.name + x.len, l.fields)) + l.trailing

\* What is read back.  (Text is taken to be well formed.)
validate_event_field_list(l) ==
    /\ l.reserved = 0
    /\ l.count = Len(l.fields) /\ l.trailing = 0
    /\ \A i \in 1..(Len(l.fields) - 1) : l.fields[i].name < l.fields[i + 1].name
    /\ \A i \in Indices(l.fields) :
         LET x == l.fields[i] IN
         \/ x.kind = 0 /\ x.len = 0
         \/ x.kind = 1 /\ x.len = 1
         \/ x.kind \in {2, 3} /\ x.len = 8
         \/ x.kind \in {4, 5} /\ x.len = 16
         \/ x.kind \in {6, 7}
         \/ x.kind = 8 /\ x.len = 64

----------------------------------------------------------------------------
(***************************************************************************)
(* The shape every output must have.                                       *)
(***************************************************************************)
validate_status_code(status) == status \notin 1..999

HasUpdate(o) == o.update # None

\* Mutant of PatchEnd: the end of a patch wraps around.
PatchEnd_Wrapped(p) == (p.offset + p.old_len) % (MaxU32 + 1)

PatchEnd(p) == p.offset + p.old_len

validate_state_update(u) ==
    u.mode = "DataPatchList" =>
      /\ \A i \in Indices(u.patches) :
           /\ FitsU32(PatchEnd(u.patches[i]))
           /\ i > 1 => u.patches[i].offset >= PatchEnd(u.patches[i - 1])
           /\ FitsU32(u.patches[i].new)
      /\ FitsU16(Len(u.patches))

validate_outbound_intents(intents) ==
    /\ FitsU32(Len(intents))
    /\ \A i \in Indices(intents) :
         /\ intents[i].usable
         /\ FitsU16(Len(intents[i].extra))
         /\ \A k \in 1..(Len(intents[i].extra) - 1) : intents[i].extra[k] < intents[i].extra[k + 1]
         /\ FitsU32(intents[i].body)

validate_event_intents(intents) ==
    /\ FitsU32(Len(intents))
    /\ \A i \in Indices(intents) :
         /\ FitsU16(intents[i].name)
         /\ FitsU16(Len(intents[i].topics))
         /\ \A k \in Indices(intents[i].topics) : FitsU16(intents[i].topics[k])
         /\ FitsU32(FieldsLen(intents[i].fields))
         /\ validate_event_field_list(intents[i].fields)

CallbacksValid(o) ==
    \A i \in Indices(o.callbacks) :
      /\ o.callbacks[i].handler # 0
      /\ o.callbacks[i].outbound < Len(o.outbound)
      /\ \A k \in 1..(i - 1) : o.callbacks[k].outbound # o.callbacks[i].outbound

EffectFree(o) ==
    /\ ~HasUpdate(o) /\ o.result = 0 /\ ~o.upgrade
    /\ o.outbound = <<>> /\ o.callbacks = <<>> /\ o.events = <<>>

validate_message_shape(o, mode) ==
    /\ validate_status_code(o.status)
    /\ IF o.status = 0 THEN HasUpdate(o) /\ o.update.mode = mode ELSE EffectFree(o)
    /\ validate_state_update(o.update)
    /\ validate_outbound_intents(o.outbound)
    /\ validate_event_intents(o.events)
    /\ CallbacksValid(o)
    /\ \A i \in Indices(o.outbound) : o.outbound[i].input = 0
    /\ \A i \in Indices(o.events) : o.events[i].input = 0

validate_batch_shape(o, mode) ==
    /\ o.update.mode = mode
    /\ validate_state_update(o.update)
    /\ \A i \in Indices(o.statuses) : validate_status_code(o.statuses[i])
    /\ validate_outbound_intents(o.outbound)
    /\ validate_event_intents(o.events)

----------------------------------------------------------------------------
(***************************************************************************)
(* The output in the light of its input.                                   *)
(***************************************************************************)
\* input: whether it is a deploy, asks for a callback or an upgrade.
validate_message_context(input, is_init, o) ==
    IF is_init
    THEN input.deploy /\ o.result = 0 /\ o.callbacks = <<>> /\ ~o.upgrade
    ELSE /\ ~input.deploy
         /\ o.result = 0 \/ input.request
         /\ o.status = 0 /\ input.upgrade => o.upgrade
         /\ o.upgrade => input.upgrade

\* An effect belongs to a message that succeeded.
validate_batch_effect_index(index, statuses) ==
    index < Len(statuses) /\ statuses[index + 1] = 0

validate_batch_context(count, o) ==
    /\ count = Len(o.statuses)
    /\ \A i \in Indices(o.outbound) : validate_batch_effect_index(o.outbound[i].input, o.statuses)
    /\ \A i \in Indices(o.events) : validate_batch_effect_index(o.events[i].input, o.statuses)

----------------------------------------------------------------------------
(***************************************************************************)
(* The size reserved for an output.                                        *)
(***************************************************************************)
state_update_len(u) ==
    IF u.mode = "FullReplace" THEN 8 + u.len
    ELSE 8 + Total(Each(LAMBDA p : 12 + p.new, u.patches))

outbound_intents_len(intents) ==
    4 + Total(Each(LAMBDA x : 98 + 20 * Len(x.extra) + x.body, intents))

\* Mutant of event_len: the byte of the event's kind is forgotten.
event_len_NoKind(x) == 20 + x.name + Total(Each(LAMBDA t : 2 + t, x.topics)) + FieldsLen(x.fields)

event_len(x) == 21 + x.name + Total(Each(LAMBDA t : 2 + t, x.topics)) + FieldsLen(x.fields)

event_intents_len(intents) == 4 + Total(Each(event_len, intents))

message_output_len(o) ==
    9 + (IF HasUpdate(o) THEN state_update_len(o.update) ELSE 0) + 4 + o.result
      + outbound_intents_len(o.outbound) + 4 + 12 * Len(o.callbacks)
      + event_intents_len(o.events) + (IF o.upgrade THEN 64 ELSE 0)

batch_output_len(o) ==
    4 + state_update_len(o.update) + 4 + 4 * Len(o.statuses)
      + outbound_intents_len(o.outbound) + event_intents_len(o.events)

message_output_len_for(input, is_init, mode, o) ==
    /\ validate_message_context(input, is_init, o)
    /\ validate_message_shape(o, mode)
    /\ FitsU32(message_output_len(o))

batch_output_len_for(count, mode, o) ==
    /\ validate_batch_context(count, o)
    /\ validate_batch_shape(o, mode)
    /\ FitsU32(batch_output_len(o))

----------------------------------------------------------------------------
(***************************************************************************)
(* The writer: the sizes of the pieces in the order they are written, and  *)
(* whether every length fits its field.                                    *)
(***************************************************************************)
Prefixed(n) == <<4, n>>

encode_state_update(u) ==
    <<1, 3>> \o IF u.mode = "FullReplace" THEN Prefixed(u.len)
                ELSE <<2, 2>> \o FlattenSeq(Each(LAMBDA p : <<4, 4, 4, p.new>>, u.patches))

encode_outbound_intents(intents) ==
    <<4>> \o FlattenSeq(Each(LAMBDA x : <<4, 32, 32, 16, 2>>
                                        \o FlattenSeq(Each(LAMBDA c : <<4, 16>>, x.extra))
                                        \o <<8>> \o Prefixed(x.body), intents))

encode_event_intents(intents) ==
    <<4>> \o FlattenSeq(Each(LAMBDA x : <<4, 1, 8, 2, x.name, 2>>
                                        \o FlattenSeq(Each(LAMBDA t : <<2, t>>, x.topics))
                                        \o Prefixed(FieldsLen(x.fields)), intents))

write_message_output(o) ==
    <<4, 4, 1>>
    \o (IF HasUpdate(o) THEN encode_state_update(o.update) ELSE <<>>)
    \o Prefixed(o.result)
    \o encode_outbound_intents(o.outbound)
    \o <<4>> \o FlattenSeq(Each(LAMBDA c : <<4, 8>>, o.callbacks))
    \o encode_event_intents(o.events)
    \o (IF o.upgrade THEN <<32, 32>> ELSE <<>>)

write_batch_output(o) ==
    <<4>> \o encode_state_update(o.update)
    \o <<4>> \o Each(LAMBDA s : 4, o.statuses)
    \o encode_outbound_intents(o.outbound)
    \o encode_event_intents(o.events)

StateLengthsFit(u) ==
    IF u.mode = "FullReplace" THEN FitsU32(u.len)
    ELSE FitsU16(Len(u.patches)) /\ \A i \in Indices(u.patches) : FitsU32(u.patches[i].new)

IntentLengthsFit(o) ==
    /\ FitsU32(Len(o.outbound)) /\ FitsU32(Len(o.events))
    /\ \A i \in Indices(o.outbound) :
         FitsU16(Len(o.outbound[i].extra)) /\ FitsU32(o.outbound[i].body)
    /\ \A i \in Indices(o.events) :
         /\ FitsU16(o.events[i].name) /\ FitsU16(Len(o.events[i].topics))
         /\ \A k \in Indices(o.events[i].topics) : FitsU16(o.events[i].topics[k])
         /\ FitsU32(FieldsLen(o.events[i].fields))

MessageWriterSucceeds(o) ==
    /\ HasUpdate(o) => StateLengthsFit(o.update)
    /\ FitsU32(o.result) /\ FitsU32(Len(o.callbacks))
    /\ IntentLengthsFit(o)

BatchWriterSucceeds(o) ==
    StateLengthsFit(o.update) /\ FitsU32(Len(o.statuses)) /\ IntentLengthsFit(o)
=============================================================================
