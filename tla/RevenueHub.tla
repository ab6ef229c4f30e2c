----------------------------- MODULE RevenueHub -----------------------------
(***************************************************************************)
(* The revenue hub with its audit: the vault and receivers of RevenueVault *)
(* and the audit ledger that the receivers' reports reach, in any order,   *)
(* one by one or in batches, late, more than once or never.                *)
(***************************************************************************)
EXTENDS RevenueVault, SequencesExt

CONSTANTS MAX_BATCH, BatchSizes

ASSUME HubAssumption == MAX_BATCH \in Nat /\ BatchSizes \subseteq Nat

VARIABLES
    ledger,     \* the regular audit ledger
    compact     \* the bytes of a compact one, fed with the same messages

Audit == INSTANCE AuditLedger WITH NoSource <- NoAddress
Compact == INSTANCE CompactAudit WITH Owner <- 1

hubVars == <<vars, ledger, compact>>

\* A receiver's report as either ledger sees it; an address is a number to
\* the compact one.
ReportOf(r) == [source |-> r.body.index, body |-> r.body]

AddressOf(source) == IF source = NoAddress THEN 0 ELSE source + 1

CompactReport(report) == [report EXCEPT !.source = AddressOf(@)]

\* The audit's owner may bind any member to any receiver, once.
AuditBind(i, source, mode) ==
    /\ Audit!CanBind(ledger, i, source)
    /\ ledger' = Audit!Bound(ledger, i, source)
    /\ compact' = IF Compact!CanBind(compact, i, AddressOf(source))
                  THEN Compact!Apply(compact, mode,
                                     Compact!audit_bind(compact, mode, i, AddressOf(source)))
                  ELSE compact
    /\ UNCHANGED vars

\* AUDIT_STATUS answers with the state it was given.
AuditStatus(mode) ==
    /\ Compact!validate(compact)
    /\ compact' = Compact!Apply(compact, mode, Compact!audit_status(compact, mode))
    /\ UNCHANGED <<vars, ledger>>

\* The runtime delivers a report in isolation.  Reports stay in `reports':
\* late, repeated and lost deliveries are all behaviours.
AuditOne(r, mode) ==
    LET report == CompactReport(ReportOf(r)) IN
    /\ ledger' = Audit!isolated(ledger, ReportOf(r))
    /\ compact' = IF Compact!Accepts(compact, report)
                  THEN Compact!Apply(compact, mode, Compact!isolated(compact, mode, report))
                  ELSE compact
    /\ UNCHANGED vars

\* The runtime delivers a batch; a report it repeats may be in it twice.  The
\* regular ledger refuses a batch in FullReplace mode, so the two are compared
\* in the mode both support; the compact one may be asked for either.
Batches ==
    UNION {{[k \in 1..n |-> ReportOf(rs[k])] : rs \in [1..n -> reports]} : n \in BatchSizes}

CompactBatch(batch) == [k \in DOMAIN batch |-> CompactReport(batch[k])]

AuditBatch(batch, mode) ==
    /\ ledger' = Audit!process_batch(ledger, Audit!DataPatchList, batch).state
    /\ compact' = Compact!Apply(compact, mode,
                               Compact!process_batch(compact, mode, CompactBatch(batch)).update)
    /\ UNCHANGED vars

\* A regular ledger asked for a full replacement refuses the batch whole.
AuditBatchRefused(batch) ==
    /\ ledger' = Audit!process_batch(ledger, Audit!FullReplace, batch).state
    /\ UNCHANGED <<vars, compact>>

HubInit == Init /\ ledger = Audit!NewLedger /\ compact = Compact!initialize

HubNext ==
    \/ Next /\ UNCHANGED <<ledger, compact>>
    \/ \E mode \in Audit!Modes :
         \/ \E i, source \in Members : AuditBind(i, source, mode)
         \/ AuditStatus(mode)
         \/ \E r \in reports : AuditOne(r, mode)
         \/ \E batch \in Batches : AuditBatch(batch, mode)
    \/ \E batch \in Batches : AuditBatchRefused(batch)

HubSpec == HubInit /\ [][HubNext]_hubVars

----------------------------------------------------------------------------
\* The payments member i's receiver has acknowledged.
Receipts(i) == {r.body : r \in {r \in reports : r.body.index = i}}

\* A record is the sum of some of the payments its member really received,
\* each counted once however often it was reported, the latest last.
RecordsExplained ==
    \A i \in Members :
      LET rec == ledger.records[i] IN
      \E known \in SUBSET Receipts(i) :
        /\ rec.count = Cardinality(known)
        /\ rec.total = MapThenSumSet(LAMBDA b : b.amount, known)
        /\ rec.last_nonce = IF known = {} THEN 0 ELSE Max({b.nonce : b \in known})

\* A report that was lost, late or refused never blocks the audit: the report
\* of a bound member's latest payment is recorded unless it has been already.
LatestReportCounts ==
    \A r \in reports :
      LET i == r.body.index IN
      /\ ledger.sources[i] = i
      /\ r.body.nonce = rcv[i].last
      /\ ledger.records[i].last_nonce # r.body.nonce
      => Audit!isolated(ledger, ReportOf(r)).records[i].last_nonce = rcv[i].last

\* The records follow the receipts: nothing is recorded that was not received,
\* nothing twice, and no lost, late or repeated report stops the next one.
RecordsFollowReceipts == RecordsExplained /\ LatestReportCounts

\* The ledger a batch leaves, and the status it gives each message, are those
\* of the same messages delivered one by one.
BatchEqualsIsolated ==
    \A batch \in Batches :
      LET after(k) == FoldLeft(LAMBDA s, report : Audit!isolated(s, report),
                               ledger, SubSeq(batch, 1, k))
          got == Audit!process_batch(ledger, Audit!DataPatchList, batch)
      IN /\ Len(batch) <= MAX_BATCH => got.state = after(Len(batch))
         /\ Len(batch) <= MAX_BATCH =>
              \A k \in DOMAIN batch : got.statuses[k] <=> after(k) # after(k - 1)
         /\ Len(batch) > MAX_BATCH => got.state = ledger /\ \A k \in DOMAIN batch : ~got.statuses[k]

----------------------------------------------------------------------------
(***************************************************************************)
(* The compact ledger beside the regular one.                              *)
(***************************************************************************)
\* The regular ledger's bytes: its sources and records at fixed offsets after
\* the header, each record's nonce, total and count at their places in it.
RegularOffsets ==
    {0, 4, 36}
      \cup {Compact!LEGACY_SOURCES + 64 * i : i \in Members}
      \cup {Compact!LEGACY_RECORDS + 32 * i + o : i \in Members, o \in {0, 8, 24}}

RegularValue(s, o) ==
    LET i == (o - Compact!LEGACY_RECORDS) \div 32
        field == (o - Compact!LEGACY_RECORDS) % 32
    IN CASE o = 0  -> Compact!LEGACY_BYTES - 4
         [] o = 4  -> 1
         [] o = 36 -> Count
         [] o \in Compact!LEGACY_SOURCES..(Compact!LEGACY_RECORDS - 1) ->
              AddressOf(s.sources[(o - Compact!LEGACY_SOURCES) \div 64])
         [] o >= Compact!LEGACY_RECORDS /\ field = 0  -> s.records[i].last_nonce
         [] o >= Compact!LEGACY_RECORDS /\ field = 8  -> s.records[i].total
         [] o >= Compact!LEGACY_RECORDS /\ field = 24 -> s.records[i].count

Regular(s) == Compact!Bytes(Compact!LEGACY_BYTES, [o \in RegularOffsets |-> RegularValue(s, o)])

\* Both ledgers have taken the same messages, whichever mode each was asked
\* for, and hold the same bindings and records; and each gives the messages of
\* the next batch the same statuses.
CompactAgrees ==
    /\ Compact!validate(compact) /\ Compact!count(compact) = Count
    /\ \A i \in Members :
         /\ Compact!SourceAt(compact, i) = AddressOf(ledger.sources[i])
         /\ Compact!record(compact, i) = ledger.records[i]
    /\ \A batch \in Batches, mode \in Audit!Modes :
         Compact!process_batch(compact, mode, CompactBatch(batch)).statuses
           = Audit!process_batch(ledger, Audit!DataPatchList, batch).statuses

\* Bytes of the regular layout that no ledger of this history has: one field
\* changed, at the borders of the regions the conversion copies or discards.
Damaged(old) ==
    {Compact!Copied(old, o, Compact!Bytes(1, [k \in {0} |-> 7])) :
       o \in {0, 4, 36, 37, 67, 68, 68 + 64 * Count, 2051, 2052, 2052 + 32 * Count, 65539}}

\* Converting to the compact layout and back loses nothing: the ledger's own
\* bytes convert to the compact ledger's, and any bytes that are not refused
\* come back as they were.
ConversionLossless ==
    LET own == Regular(ledger) IN
    /\ Compact!CanCompact(own)
    /\ Compact!Compacted(own) = compact
    /\ \A old \in {own} \cup Damaged(own) :
         Compact!CanCompact(old) => Compact!expand_legacy(Compact!Compacted(old)) = old
============================================================================
