----------------------------- MODULE VestingState -----------------------------
(***************************************************************************)
(* The vesting vault's state (examples/vesting-streams/core): the release  *)
(* schedule of a stream, what State::validate accepts and the candidate    *)
(* state each handler of the vault computes.                               *)
(*                                                                         *)
(* A stream pays over two lanes, claims to the beneficiary and refunds to  *)
(* the owner; p.paid[CLAIM] and p.paid[REFUND] are the code's `claimed'    *)
(* and `refunded'.  A payment's message hash is named by its nonce, which  *)
(* no other payment shares; zero is the all-zero hash.                     *)
(***************************************************************************)
EXTENDS Integers

CONSTANTS
    Count,    \* config.count, at most MAX_STREAMS
    Cfg,      \* config.streams: the schedule of each stream
    Fuel,     \* config.fuel
    MaxU64    \* width of the payment nonce

MAX_STREAMS == 8

Streams == 0..(Count - 1)

CLAIM  == 0
REFUND == 1
Lanes  == {CLAIM, REFUND}

\* Sum over the streams; the code folds over its eight rows.
SumStreams(f) ==
    LET at(i) == IF i < Count THEN f[i] ELSE 0 IN
    at(0) + at(1) + at(2) + at(3) + at(4) + at(5) + at(6) + at(7)

Schedules == [total : Nat, start : Nat, cliff : Nat, end : Nat, step : Nat,
              revocable : BOOLEAN]

\* The argument checks of vested(), made for every stream by Config::validate.
ScheduleValid(c) ==
    /\ c.total # 0
    /\ c.start # 0 /\ c.start < c.end
    /\ c.cliff \in c.start..c.end
    /\ c.step <= c.end - c.start

ConfigValid ==
    /\ Count \in 1..MAX_STREAMS
    /\ Fuel \in Nat \ {0}
    /\ Cfg \in [Streams -> Schedules]
    /\ \A i \in Streams : ScheduleValid(Cfg[i])

ASSUME ConfigAssumption == ConfigValid

ASSUME WidthAssumption == MaxU64 \in Nat

Total == SumStreams([i \in Streams |-> Cfg[i].total])

\* Config::first_start
BeforeFirstStart(t) == \A i \in Streams : t < Cfg[i].start

\* Mutant of Elapsed: a partial step counts as a whole one.
Elapsed_RoundUp(c, now) ==
    IF c.step = 0 THEN now - c.start
    ELSE ((now - c.start + c.step - 1) \div c.step) * c.step

\* Time since the start, in whole steps if the stream has a step.
Elapsed(c, now) ==
    IF c.step = 0 THEN now - c.start ELSE ((now - c.start) \div c.step) * c.step

\* floor(total * elapsed / duration) without the product total * elapsed.
vested(c, now) ==
    LET duration == c.end - c.start
        elapsed == Elapsed(c, now)
    IN IF now < c.cliff \/ now <= c.start THEN 0
       ELSE IF now >= c.end THEN c.total
       ELSE (c.total \div duration) * elapsed
              + ((c.total % duration) * elapsed) \div duration

----------------------------------------------------------------------------
NewLane == [pending |-> 0, nonce |-> 0, after_lt |-> 0, last_lt |-> 0, last_hash |-> 0]

NewProgress == [cancelled |-> FALSE, cutoff |-> 0, cap |-> 0,
                paid |-> [k \in Lanes |-> 0], lanes |-> [k \in Lanes |-> NewLane]]

\* State::new
NewState(now) == [funded |-> FALSE, last_time |-> now, nonce |-> 0,
                  progress |-> [i \in Streams |-> NewProgress]]

\* State::cap at the latest observed time.
cap(s, i) ==
    IF s.progress[i].cancelled THEN s.progress[i].cap ELSE vested(Cfg[i], s.last_time)

\* What a lane may pay in all; nothing is refunded before a cancellation.
Limit(s, i, k) == IF k = CLAIM THEN cap(s, i) ELSE Cfg[i].total - cap(s, i)

\* State::due of a funded vault.
due(s, i, k) ==
    LET p == s.progress[i] IN Limit(s, i, k) - p.paid[k] - p.lanes[k].pending

\* What stream i has paid or is paying over both lanes.
Spent(s, i) ==
    LET p == s.progress[i] IN
    p.paid[CLAIM] + p.paid[REFUND] + p.lanes[CLAIM].pending + p.lanes[REFUND].pending

held(s) ==
    IF s.funded THEN Total - SumStreams([i \in Streams |-> Spent(s, i)]) ELSE 0

----------------------------------------------------------------------------
(***************************************************************************)
(* State::validate                                                         *)
(***************************************************************************)
LaneValid(s, lane) ==
    /\ (lane.last_lt = 0) <=> (lane.last_hash = 0)
    /\ lane.pending = 0 => lane.nonce = 0 /\ lane.after_lt = 0
    /\ lane.pending # 0 => lane.nonce \in 1..s.nonce /\ lane.after_lt >= lane.last_lt

CancellationValid(s, i) ==
    LET p == s.progress[i] IN
    IF p.cancelled
    THEN /\ Cfg[i].revocable
         /\ p.cutoff <= s.last_time /\ p.cutoff < Cfg[i].end
         /\ p.cap = vested(Cfg[i], p.cutoff)
    ELSE /\ p.cutoff = 0 /\ p.cap = 0
         /\ p.paid[REFUND] = 0 /\ p.lanes[REFUND] = NewLane

DueValid(s, i) ==
    s.funded => /\ due(s, i, CLAIM) >= 0
                /\ s.progress[i].cancelled => due(s, i, REFUND) >= 0

validate(s) ==
    /\ ~s.funded => s.nonce = 0 /\ s.progress = [i \in Streams |-> NewProgress]
    /\ \A i \in Streams :
         /\ CancellationValid(s, i)
         /\ \A k \in Lanes : LaneValid(s, s.progress[i].lanes[k])
         /\ DueValid(s, i)
    /\ held(s) >= 0

----------------------------------------------------------------------------
(***************************************************************************)
(* The candidate states the handlers build.                                *)
(***************************************************************************)
\* Mutant of Observed: the vault believes the block, not its own clock.
Observed_Raw(s, t) == [s EXCEPT !.last_time = t]

\* Every message first moves the vault's clock to the block time, never back.
Observed(s, t) == [s EXCEPT !.last_time = IF t > @ THEN t ELSE @]

WithFunding(s) == [s EXCEPT !.funded = TRUE]

\* The earned amount is frozen at the observed time.
WithCancel(s, i) ==
    [s EXCEPT !.progress[i].cancelled = TRUE,
              !.progress[i].cutoff = s.last_time,
              !.progress[i].cap = vested(Cfg[i], s.last_time)]

\* Mutant of WithDispatch: the attempt's boundary ignores the latest callback.
WithDispatch_BlockLt(s, i, k, block_lt) ==
    [s EXCEPT !.nonce = @ + 1,
              !.progress[i].lanes[k] = [@ EXCEPT !.pending = due(s, i, k), !.nonce = s.nonce + 1,
                                                 !.after_lt = block_lt]]

\* All that is due becomes pending under the next nonce.
WithDispatch(s, i, k, block_lt) ==
    LET lane == s.progress[i].lanes[k] IN
    [s EXCEPT !.nonce = @ + 1,
              !.progress[i].lanes[k] =
                [lane EXCEPT !.pending = due(s, i, k), !.nonce = s.nonce + 1,
                             !.after_lt = IF block_lt > lane.last_lt THEN block_lt
                                          ELSE lane.last_lt]]

Settled(s, i, k) ==
    [s EXCEPT !.progress[i].paid[k] = @ + s.progress[i].lanes[k].pending]

\* Success books the payment; either way the attempt ends and only the latest
\* callback's time and hash are kept.
AfterCallback(s, i, k, c) ==
    [IF c.ok THEN Settled(s, i, k) ELSE s
       EXCEPT !.progress[i].lanes[k] = [NewLane EXCEPT !.last_lt = c.lt, !.last_hash = c.hash]]
=============================================================================
