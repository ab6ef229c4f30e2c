---------------------------- MODULE MCGuestCalls ----------------------------
(***************************************************************************)
(* GuestCalls for TLC: every small message and batch, whole or damaged, and*)
(* outputs that try one part of an answer at a time.                       *)
(***************************************************************************)
EXTENDS GuestCalls

Bits == 0..1
Tails(n) == UNION {[1..k -> Bits] : k \in 0..n}

MCMessageFrames ==
    [tag : {Internal}, flags : (SUBSET InternalFlags) \cup {{"unknown"}}, method : Bits,
     source : Bits, destination : Bits, key : {Zero}, reserved : Bits,
     extra_count : 0..2, body_len : Bits, signature_len : {0}, tail : Tails(5)]
    \cup
    [tag : {External}, flags : (SUBSET ExternalFlags) \cup {{"signed", "unknown"}}, method : Bits,
     source : {Zero}, destination : Bits, key : Bits, reserved : Bits,
     extra_count : 0..2, body_len : Bits, signature_len : 1..2, tail : Tails(4)]
    \cup
    [tag : {2}, flags : {{}}, method : {0}, source : {1}, destination : {1}, key : {Zero},
     reserved : {0}, extra_count : {0}, body_len : {0}, signature_len : {0}, tail : {<<>>}]

\* A message a batch may hold, and one that is a callback or for another account.
MCCells ==
    {[of |-> "plain", at |-> 1, size |-> 1], [of |-> "plain", at |-> 1, size |-> 2],
     [of |-> "plain", at |-> 2, size |-> 2], [of |-> "callback", at |-> 1, size |-> 1]}

\* The cell of the event results' length, and what follows it.
Results == {<<[of |-> "length", at |-> 0, size |-> 1]>>,
            <<[of |-> "length", at |-> 1, size |-> 1], [of |-> "result", at |-> 1, size |-> 1]>>}

MCBatchFrames ==
    LET rests == {r \o s : r \in UNION {[1..k -> MCCells] : k \in 0..3}, s \in Results}
        frames(n) == [count : {n}, offsets : [1..(n + 1) -> 0..3], rest : rests]
    IN frames(0) \cup frames(1) \cup frames(2)

MCDeployFrames ==
    {[tag |-> Internal, flags |-> fl, method |-> 1, source |-> 1, destination |-> 1, key |-> Zero,
      reserved |-> 0, extra_count |-> 0, body_len |-> 1, signature_len |-> 0, tail |-> <<1>>] :
        fl \in {{}, {"deploy"}}}

\* Every way to cut a tail of up to nine cells, and every header over one tail.
PlainEnvelope ==
    [magic |-> TRUE, flags |-> {}, reserved |-> 0, owner_key |-> Zero, abi_hash |-> Zero,
     package_id |-> 1, owner_id |-> 1, lens |-> [i \in Pieces |-> 0], tail |-> <<>>]

MCEnvelopes ==
    {[PlainEnvelope EXCEPT !.flags = fl, !.lens = l, !.tail = [i \in 1..n |-> i]] :
        fl \in SUBSET {"signature"}, l \in [Pieces -> Bits], n \in 0..9}
    \cup
    {[PlainEnvelope EXCEPT !.magic = m, !.flags = fl, !.reserved = r, !.owner_key = k,
                           !.abi_hash = h, !.lens[Abi] = a, !.tail = [i \in 1..a |-> i]] :
        m \in BOOLEAN, fl \in SUBSET (EnvelopeFlags \ {"signature"}) \cup {{"unknown"}},
        r \in Bits, k \in Bits, h \in Bits, a \in Bits}

----------------------------------------------------------------------------
MCFieldLists ==
    [1..1 -> [name : {1}, kind : EventKinds, len : {0, 65}]]
    \cup [1..2 -> [name : 1..2, kind : {2, 7}, len : {1}]]

EmptyFields == EncodedFields(<<>>)
Full(n) == [mode |-> "FullReplace", len |-> n]
Patched(s) == [mode |-> "DataPatchList", patches |-> s]
Patch == [offset : {0, 1, 2, MaxU32 - 1}, old_len : 0..2, new : {3}]
PatchLists ==
    UNION {[1..k -> Patch] : k \in 0..2}
    \cup {[i \in 1..(MaxU16 + n) |-> [offset |-> i, old_len |-> 1, new |-> 0]] : n \in 0..1}

Outbound == [input |-> 0, usable |-> TRUE, extra |-> <<>>, body |-> 3]
Event == [input |-> 0, name |-> 5, topics |-> <<2>>, fields |-> EmptyFields]

Success == [status |-> 0, update |-> Full(1), result |-> 0, outbound |-> <<>>, callbacks |-> <<>>,
            events |-> <<>>, upgrade |-> FALSE]
Failure == [Success EXCEPT !.status = 1000, !.update = None]
BothOutbound == [Success EXCEPT !.outbound = <<Outbound, Outbound>>]

Outbounds ==
    {[Outbound EXCEPT !.extra = x] : x \in UNION {[1..k -> Bits] : k \in 0..2}}
    \cup {[Outbound EXCEPT !.usable = FALSE], [Outbound EXCEPT !.input = 1],
          [Outbound EXCEPT !.body = MaxU32 - 150], [Outbound EXCEPT !.body = MaxU32]}
Events ==
    {Event} \cup {[Event EXCEPT !.topics = t] : t \in {<<>>, <<65>>, <<1, 64>>}}
    \cup {[Event EXCEPT !.name = n] : n \in {0, 64, 65}} \cup {[Event EXCEPT !.input = 1]}
    \cup {[Event EXCEPT !.fields = [EmptyFields EXCEPT !.trailing = 1]]}

MCOutputs ==
    {[Success EXCEPT !.status = s] : s \in {0, 1, 999, 1000}}
    \cup {[Failure EXCEPT !.status = s] : s \in {0, 999, 1000}}
    \cup {[Success EXCEPT !.update = Full(n), !.upgrade = u, !.result = r] :
            n \in {0, MaxU32 - 29, MaxU32 - 28}, u \in BOOLEAN, r \in {0, 2}}
    \cup {[Success EXCEPT !.update = Patched(s)] : s \in PatchLists}
    \cup {[Success EXCEPT !.outbound = <<x>>] : x \in Outbounds}
    \cup {[Success EXCEPT !.events = <<x>>] : x \in Events}
    \cup {[BothOutbound EXCEPT !.callbacks = c] :
            c \in UNION {[1..k -> [outbound : 0..2, handler : Bits]] : k \in 1..2}}
    \cup {[Failure EXCEPT !.events = <<Event>>], [Failure EXCEPT !.outbound = <<Outbound>>]}

MCBatchOutputs ==
    LET base == [update |-> Patched(<<>>), statuses |-> <<0>>, outbound |-> <<>>, events |-> <<>>]
        effect(k) == [base EXCEPT !.statuses = <<0, 1000>>, !.events = <<[Event EXCEPT !.input = k]>>]
    IN {[base EXCEPT !.statuses = s, !.update = u] :
          s \in UNION {[1..k -> {0, 999, 1000}] : k \in 0..2}, u \in {Full(2), Patched(<<>>)}}
       \cup {[base EXCEPT !.update = Patched(s)] : s \in PatchLists}
       \cup {effect(k) : k \in 0..2}
       \cup {[base EXCEPT !.outbound = <<x>>] : x \in Outbounds}
=============================================================================
