---------------------------- MODULE AuditLedger ----------------------------
(***************************************************************************)
(* The audit ledger of the revenue hub as functions of its state: what one *)
(* report does when it runs in isolation and what a batch of them does,    *)
(* through staged records and one patch per touched member.                *)
(*                                                                         *)
(* A report carries the address it came from and the payment it describes; *)
(* the receiver of member i is named by i.                                 *)
(***************************************************************************)
EXTENDS Naturals, Sequences, SequencesExt

CONSTANTS
    Count,             \* members the ledger was initialised for
    NoSource,          \* the all-zero address
    MaxU128, MaxU64,   \* widths of the record's total and counters
    MAX_BATCH          \* 256

Indices == 0..(Count - 1)

FullReplace == "FullReplace"
DataPatchList == "DataPatchList"
Modes == {FullReplace, DataPatchList}

NewRecord == [last_nonce |-> 0, total |-> 0, count |-> 0]

\* initialize(): count records, no source bound.
NewLedger == [sources |-> [i \in Indices |-> NoSource], records |-> [i \in Indices |-> NewRecord]]

\* validate(): distinct bound sources, and records that are empty or not.
validate(s) ==
    /\ \A i, j \in Indices :
         s.sources[i] = s.sources[j] /\ s.sources[i] # NoSource => i = j
    /\ \A i \in Indices :
         LET r == s.records[i] IN
         IF r.count = 0 THEN r = NewRecord ELSE r.last_nonce # 0 /\ r.total # 0

\* AUDIT_BIND: an unbound member gets a source no other member has.
CanBind(s, i, source) ==
    /\ validate(s)
    /\ source # NoSource
    /\ s.sources[i] = NoSource
    /\ \A j \in Indices : s.sources[j] # source

Bound(s, i, source) == [s EXCEPT !.sources[i] = source]

\* Mutant of accepted: a repeated nonce is accepted.
accepted_SameNonce(s, records, report) ==
    LET b == report.body IN
    /\ b.index \in Indices /\ s.sources[b.index] = report.source
    /\ b.nonce >= records[b.index].last_nonce
    /\ records[b.index].total + b.amount <= MaxU128
    /\ records[b.index].count + 1 <= MaxU64

\* The checks of accepted() and the record it computes.
accepted(s, records, report) ==
    LET b == report.body IN
    /\ b.nonce # 0 /\ b.amount # 0
    /\ b.index \in Indices
    /\ s.sources[b.index] = report.source
    /\ b.nonce > records[b.index].last_nonce
    /\ records[b.index].total + b.amount <= MaxU128
    /\ records[b.index].count + 1 <= MaxU64

Recorded(records, b) ==
    [records EXCEPT ![b.index] = [last_nonce |-> b.nonce, total |-> @.total + b.amount,
                                  count |-> @.count + 1]]

\* isolated(): one report, one patch (or the same change as a full replacement).
isolated(s, report) ==
    IF validate(s) /\ accepted(s, s.records, report)
    THEN [s EXCEPT !.records = Recorded(@, report.body)]
    ELSE s

----------------------------------------------------------------------------
(***************************************************************************)
(* process_batch(): every message is tried on the staged records and gets  *)
(* its own status; touched members are patched at the end.                 *)
(***************************************************************************)
Staged(s, reports) ==
    FoldLeft(LAMBDA staged, report :
               IF accepted(s, staged, report) THEN Recorded(staged, report.body) ELSE staged,
             s.records, reports)

\* Mutant of Succeeds: the k-th message is judged by the state the batch began with.
Succeeds_Unstaged(s, reports, k) == accepted(s, s.records, reports[k])

\* Whether the k-th message of the batch succeeds.
Succeeds(s, reports, k) == accepted(s, Staged(s, SubSeq(reports, 1, k - 1)), reports[k])

Runs(s, mode, reports) ==
    validate(s) /\ mode = DataPatchList /\ Len(reports) <= MAX_BATCH

process_batch(s, mode, reports) ==
    LET ok(k) == Runs(s, mode, reports) /\ Succeeds(s, reports, k)
        touched == {reports[k].body.index : k \in {n \in 1..Len(reports) : ok(n)}}
        staged == Staged(s, reports)
    IN [statuses |-> [k \in 1..Len(reports) |-> ok(k)],
        state |-> [s EXCEPT !.records =
                     [i \in Indices |-> IF i \in touched THEN staged[i] ELSE s.records[i]]]]
============================================================================
