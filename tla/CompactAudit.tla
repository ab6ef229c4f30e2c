---------------------------- MODULE CompactAudit ----------------------------
(***************************************************************************)
(* The compact audit ledger (examples/revenue-hub/experiments): the rules  *)
(* of AuditLedger over a state whose length and record offset depend on    *)
(* the member count, with updates as patches or as whole replacements, and *)
(* the offline conversion from the regular layout and back.                *)
(*                                                                         *)
(* A string of bytes is its length and its nonzero fields, each at the     *)
(* offset of its first byte; every byte of no field is zero.  A field      *)
(* read where none was written is zero too.  Addresses and keys are        *)
(* positive numbers: zero is the all-zero address.                         *)
(***************************************************************************)
EXTENDS Naturals, FiniteSets, Sequences, SequencesExt, Functions

CONSTANTS
    Count,             \* init_data[0]
    Owner,             \* the key that initialised the ledger
    MaxU128, MaxU64,   \* widths of the record's total and counters
    MAX_BATCH          \* 256

MAX_MEMBERS == 16
HEADER_BYTES == 44
RECORD_BYTES == 32
ADDRESS_BYTES == 64
MAGIC == 843273537  \* b"AUC2" as a u32

state_bytes(n) == HEADER_BYTES + 96 * n

FullReplace == "FullReplace"
DataPatchList == "DataPatchList"
Modes == {FullReplace, DataPatchList}

----------------------------------------------------------------------------
(***************************************************************************)
(* Bytes.                                                                  *)
(***************************************************************************)
NonZero(fields) == Restrict(fields, {o \in DOMAIN fields : fields[o] # 0})

Bytes(len, fields) == [len |-> len, at |-> NonZero(fields)]

ValueAt(b, o) == IF o \in DOMAIN b.at THEN b.at[o] ELSE 0

\* Whether b[first..last] holds a nonzero byte.
AnyIn(b, first, last) == \E o \in DOMAIN b.at : first <= o /\ o < last

\* &b[first..first + len].
Slice(b, first, len) ==
    LET inside == {o \in DOMAIN b.at : first <= o /\ o < first + len} IN
    Bytes(len, [k \in {o - first : o \in inside} |-> b.at[k + first]])

\* b[first..first + piece.len].copy_from_slice(piece).
Copied(b, first, piece) ==
    LET outside == {o \in DOMAIN b.at : o < first \/ first + piece.len <= o}
        written == {first + k : k \in DOMAIN piece.at}
    IN Bytes(b.len, [o \in outside \cup written |->
                       IF o \in written THEN piece.at[o - first] ELSE b.at[o]])

----------------------------------------------------------------------------
(***************************************************************************)
(* The layout: header, then one address and then one record per member.    *)
(***************************************************************************)
count(b) == ValueAt(b, 40)

\* Mutant of record_base: the records of the regular layout's offset rule.
record_base_Stride(b) == HEADER_BYTES + RECORD_BYTES * count(b)

record_base(b) == HEADER_BYTES + ADDRESS_BYTES * count(b)

SourceAt(b, i) == ValueAt(b, HEADER_BYTES + i * ADDRESS_BYTES)

decode(b) == [last_nonce |-> ValueAt(b, 0), total |-> ValueAt(b, 8), count |-> ValueAt(b, 24)]

encode(r) == Bytes(RECORD_BYTES, [o \in {0, 8, 24} |-> CASE o = 0  -> r.last_nonce
                                                        [] o = 8  -> r.total
                                                        [] o = 24 -> r.count])

record(b, i) == decode(Slice(b, record_base(b) + i * RECORD_BYTES, RECORD_BYTES))

NewRecord == [last_nonce |-> 0, total |-> 0, count |-> 0]

validate(b) ==
    /\ b.len >= HEADER_BYTES
    /\ ValueAt(b, 4) = MAGIC
    /\ count(b) \in 1..MAX_MEMBERS
    /\ ~AnyIn(b, 41, 44)
    /\ 8 \in DOMAIN b.at
    /\ b.len = state_bytes(count(b))
    /\ ValueAt(b, 0) = b.len - 4
    /\ \A i, j \in 0..(count(b) - 1) :
         SourceAt(b, i) = SourceAt(b, j) /\ SourceAt(b, i) # 0 => i = j
    /\ \A i \in 0..(count(b) - 1) :
         LET r == record(b, i) IN
         IF r.count = 0 THEN r = NewRecord ELSE r.last_nonce # 0 /\ r.total # 0

\* initialize(): count members, no source bound.
initialize ==
    LET len == state_bytes(Count) IN
    Bytes(len, [o \in {0, 4, 8, 40} |-> CASE o = 0  -> len - 4
                                         [] o = 4  -> MAGIC
                                         [] o = 8  -> Owner
                                         [] o = 40 -> Count])

----------------------------------------------------------------------------
(***************************************************************************)
(* Updates.  A handler answers with a status and, if it is zero, with the  *)
(* change of the state in the mode the runtime asked for.                  *)
(***************************************************************************)
patch(b, i, r) == [offset |-> record_base(b) + i * RECORD_BYTES, old_len |-> RECORD_BYTES,
                   new_bytes |-> encode(r)]

Patched(b, patches) == FoldLeft(LAMBDA s, p : Copied(s, p.offset, p.new_bytes), b, patches)

replacement(b, mode, patches) ==
    IF mode = DataPatchList
    THEN [mode |-> mode, patches |-> patches, state |-> b]
    ELSE [mode |-> mode, patches |-> <<>>, state |-> Patched(b, patches)]

\* The SDK and the runtime: patches must be disjoint, ascending and inside.
Appliable(b, patches) ==
    /\ \A k \in DOMAIN patches : patches[k].offset + patches[k].old_len <= b.len
    /\ \A k \in 2..Len(patches) :
         patches[k - 1].offset + patches[k - 1].old_len <= patches[k].offset

Apply(b, mode, update) ==
    IF update.mode # mode \/ ~Appliable(b, update.patches) THEN b
    ELSE IF mode = DataPatchList THEN Patched(b, update.patches)
    ELSE update.state

----------------------------------------------------------------------------
(***************************************************************************)
(* Handlers.                                                               *)
(***************************************************************************)
CanBind(b, i, source) ==
    /\ validate(b)
    /\ i < count(b)
    /\ source # 0
    /\ SourceAt(b, i) = 0
    /\ \A j \in 0..(count(b) - 1) : SourceAt(b, j) # source

audit_bind(b, mode, i, source) ==
    replacement(b, mode, <<[offset |-> HEADER_BYTES + i * ADDRESS_BYTES, old_len |-> ADDRESS_BYTES,
                            new_bytes |-> Bytes(ADDRESS_BYTES, [o \in {0} |-> source])]>>)

audit_status(b, mode) == replacement(b, mode, <<>>)

Records(b) == [i \in 0..(count(b) - 1) |-> record(b, i)]

accepted(b, records, report) ==
    LET p == report.body IN
    /\ p.nonce # 0 /\ p.amount # 0
    /\ p.index < count(b) /\ SourceAt(b, p.index) = report.source
    /\ p.nonce > records[p.index].last_nonce
    /\ records[p.index].total + p.amount <= MaxU128
    /\ records[p.index].count + 1 <= MaxU64

Recorded(records, p) ==
    [records EXCEPT ![p.index] = [last_nonce |-> p.nonce, total |-> @.total + p.amount,
                                  count |-> @.count + 1]]

\* isolated(): an accepted report patches its member's record.
Accepts(b, report) == validate(b) /\ accepted(b, Records(b), report)

isolated(b, mode, report) ==
    LET i == report.body.index IN
    replacement(b, mode, <<patch(b, i, Recorded(Records(b), report.body)[i])>>)

\* process_batch(): every message is judged by the records staged so far; the
\* touched members are patched in the order of their indices.
Staged(b, reports) ==
    FoldLeft(LAMBDA staged, report :
               IF accepted(b, staged, report) THEN Recorded(staged, report.body) ELSE staged,
             Records(b), reports)

\* Whether the k-th message of the batch gets status 0.
Succeeds(b, reports, k) ==
    /\ validate(b) /\ Len(reports) <= MAX_BATCH
    /\ accepted(b, Staged(b, SubSeq(reports, 1, k - 1)), reports[k])

\* The members of the set as a loop over the indices meets them.
Ascending(members) ==
    CHOOSE order \in [1..Cardinality(members) -> members] :
      \A m, n \in 1..Cardinality(members) : m < n => order[m] < order[n]

process_batch(b, mode, reports) ==
    LET ok == [k \in DOMAIN reports |-> Succeeds(b, reports, k)]
        touched == {reports[k].body.index : k \in {n \in DOMAIN reports : ok[n]}}
        staged == Staged(b, reports)
        order == Ascending(touched)
        patches == [n \in DOMAIN order |-> patch(b, order[n], staged[order[n]])]
    IN [statuses |-> ok, update |-> replacement(b, mode, patches)]

----------------------------------------------------------------------------
(***************************************************************************)
(* The regular ledger's layout and the conversions.                        *)
(***************************************************************************)
LEGACY_BYTES == 65540
LEGACY_SOURCES == 68
LEGACY_RECORDS == 2052

\* Mutant of Convertible: bytes after the last record are not looked at.
Convertible_Tail(old) ==
    /\ old.len = LEGACY_BYTES /\ ValueAt(old, 0) = LEGACY_BYTES - 4
    /\ ValueAt(old, 36) \in 1..MAX_MEMBERS /\ ~AnyIn(old, 37, LEGACY_SOURCES)
    /\ ~AnyIn(old, LEGACY_SOURCES + ADDRESS_BYTES * ValueAt(old, 36), LEGACY_RECORDS)

\* What compact_legacy() demands of the bytes it would leave behind.
Convertible(old) ==
    /\ old.len = LEGACY_BYTES /\ ValueAt(old, 0) = LEGACY_BYTES - 4
    /\ ValueAt(old, 36) \in 1..MAX_MEMBERS
    /\ ~AnyIn(old, 37, LEGACY_SOURCES)
    /\ ~AnyIn(old, LEGACY_SOURCES + ADDRESS_BYTES * ValueAt(old, 36), LEGACY_RECORDS)
    /\ ~AnyIn(old, LEGACY_RECORDS + RECORD_BYTES * ValueAt(old, 36), LEGACY_BYTES)

\* The bytes compact_legacy() assembles, before it validates them.
Compacted(old) ==
    LET n == ValueAt(old, 36)
        len == state_bytes(n)
        sources == ADDRESS_BYTES * n
        fixed == Bytes(len, [o \in {0, 4, 40} |-> CASE o = 0  -> len - 4
                                                    [] o = 4  -> MAGIC
                                                    [] o = 40 -> n])
        header == Copied(fixed, 8, Slice(old, 4, 32))
    IN Copied(Copied(header, HEADER_BYTES, Slice(old, LEGACY_SOURCES, sources)),
              HEADER_BYTES + sources, Slice(old, LEGACY_RECORDS, RECORD_BYTES * n))

CanCompact(old) == Convertible(old) /\ validate(Compacted(old))

expand_legacy(b) ==
    LET n == count(b)
        sources == ADDRESS_BYTES * n
        fixed == Bytes(LEGACY_BYTES, [o \in {0, 36} |-> IF o = 0 THEN LEGACY_BYTES - 4 ELSE n])
        header == Copied(fixed, 4, Slice(b, 8, 32))
    IN Copied(Copied(header, LEGACY_SOURCES, Slice(b, HEADER_BYTES, sources)),
              LEGACY_RECORDS, Slice(b, HEADER_BYTES + sources, RECORD_BYTES * n))
============================================================================
