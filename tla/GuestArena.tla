------------------------------ MODULE GuestArena ------------------------------
(***************************************************************************)
(* The memory the SDK gives a contract instance (avm-contract-sdk/src/     *)
(* runtime.rs): an arena of N bytes with at most two blocks, which the     *)
(* host allocates, fills and frees and the contract's entrypoints read and *)
(* allocate their output from.  The host here makes its calls in any       *)
(* order.  A call of avm_guest_free that fails traps, which ends the       *)
(* instance: only the successful ones are steps.                           *)
(*                                                                         *)
(* A byte is known by the encoding it is part of: which one, its place and *)
(* the size of the whole.  A codec accepts an encoding only whole.         *)
(***************************************************************************)
EXTENDS Integers

CONSTANTS
    N,        \* capacity of the arena
    Base,     \* address of its first byte
    MaxU32,   \* 2^32 - 1
    Inputs    \* the encodings the host writes, to explore


Offsets == 0..(N - 1)

\* The encodings a host passes to a contract.
Kinds == {"deploy", "message", "batch"}

ASSUME SizeAssumption ==
    /\ N \in Nat /\ Base \in Nat /\ MaxU32 \in Nat
    /\ Inputs \subseteq Kinds

Cells == [of : Kinds \cup {"output", "none"}, at : Nat, size : Nat]

Image(kind, size) == [k \in 0..(size - 1) |-> [of |-> kind, at |-> k, size |-> size]]

VARIABLES
    a,      \* the arena's bookkeeping
    mem,    \* its bytes
    live    \* the blocks the host owns, with what it last saw in them

vars == <<a, mem, live>>

NewArena == [next |-> 0, starts |-> [k \in 0..1 |-> 0], lengths |-> [k \in 0..1 |-> 0], count |-> 0]

Arenas == [next : Nat, starts : [0..1 -> Nat], lengths : [0..1 -> Nat], count : 0..2]

----------------------------------------------------------------------------
\* offset() of a pointer into the arena.
offset(ptr) == ptr - Base
InArena(ptr) == ptr >= Base /\ offset(ptr) < N

CanAllocate(len) ==
    /\ len # 0
    /\ a.count < 2
    /\ a.next + len <= MaxU32 /\ N <= MaxU32
    /\ a.next + len <= N
    /\ Base + a.next <= MaxU32 /\ Base + a.next # 0

\* Mutant of Allocated: the next block starts where this one does.
Allocated_NoAdvance(len) ==
    [a EXCEPT !.starts[a.count] = a.next, !.lengths[a.count] = len, !.count = @ + 1]

Allocated(len) ==
    [a EXCEPT !.starts[a.count] = a.next, !.lengths[a.count] = len,
              !.next = @ + len, !.count = @ + 1]

\* Only the latest block can be freed, by its exact address and length.
CanFree(s, ptr, len) ==
    /\ InArena(ptr)
    /\ s.count # 0
    /\ s.starts[s.count - 1] = offset(ptr) /\ s.lengths[s.count - 1] = len
    /\ offset(ptr) + len <= MaxU32
    /\ len # 0 /\ s.next = offset(ptr) + len

Freed(s) == [s EXCEPT !.next = s.starts[s.count - 1], !.count = @ - 1]

\* Mutant of CanRead: whatever the arena holds can be read.
CanRead_Stale(ptr, len) == InArena(ptr) /\ offset(ptr) + len <= N

CanRead(ptr, len) ==
    /\ InArena(ptr)
    /\ offset(ptr) + len <= a.next
    /\ offset(ptr) + len <= N

Bytes(start, len) == [k \in 0..(len - 1) |-> mem[start + k]]

\* The first n bytes of image written from start on.
Overwritten(start, image, n) ==
    [x \in Offsets |-> IF x \in start..(start + n - 1) THEN image[x - start] ELSE mem[x]]

----------------------------------------------------------------------------
(***************************************************************************)
(* The entrypoints.                                                        *)
(***************************************************************************)
Entrypoints == {"init", "process_message", "process_batch"}

\* init takes a deploy and process_message anything else.
Expects(entry) ==
    CASE entry = "init" -> "deploy"
      [] entry = "process_message" -> "message"
      [] entry = "process_batch" -> "batch"

\* The contract runs on what the host points at: a whole encoding of its kind.
Runs(entry, ptr, len) ==
    /\ CanRead(ptr, len)
    /\ len # 0
    /\ Bytes(offset(ptr), len) = Image(Expects(entry), len)

\* Mutant of Returned: a failed encoding keeps its reservation.
Returned_Leak(out) == Allocated(out.size)

\* The bookkeeping after write_output(): the output's block, unless encoding it
\* failed or did not fill it.
Returned(out) ==
    IF out.ok /\ out.written = out.size THEN Allocated(out.size)
    ELSE LET s == Allocated(out.size) IN
         IF CanFree(s, Base + a.next, out.size) THEN Freed(s) ELSE s

\* The contract's output is valid for its input and has the size computed in
\* advance; encoding it may still stop early.
Outputs == [ok : BOOLEAN, valid : BOOLEAN, size : Nat, written : Nat]

Dispatch(entry, ptr, len, out) ==
    /\ Runs(entry, ptr, len)
    /\ out.valid
    /\ CanAllocate(out.size)
    /\ a' = Returned(out)
    /\ mem' = Overwritten(a.next, Image("output", out.size), out.written)
    /\ live' = IF out.ok /\ out.written = out.size
               THEN live \cup {[ptr |-> Base + a.next, len |-> out.size,
                                image |-> Image("output", out.size)]}
               ELSE live

----------------------------------------------------------------------------
(***************************************************************************)
(* The host.                                                               *)
(***************************************************************************)
Allocate(len) ==
    /\ CanAllocate(len)
    /\ a' = Allocated(len)
    /\ live' = live \cup {[ptr |-> Base + a.next, len |-> len, image |-> Bytes(a.next, len)]}
    /\ UNCHANGED mem

Free(ptr, len) ==
    /\ CanFree(a, ptr, len)
    /\ a' = Freed(a)
    /\ live' = {b \in live : b.ptr # ptr}
    /\ UNCHANGED mem

\* The host fills a block it owns.
Write(b, kind) ==
    /\ mem' = Overwritten(offset(b.ptr), Image(kind, b.len), b.len)
    /\ live' = (live \ {b}) \cup {[b EXCEPT !.image = Image(kind, b.len)]}
    /\ UNCHANGED a

Init ==
    /\ a = NewArena
    /\ mem = [x \in Offsets |-> [of |-> "none", at |-> 0, size |-> 0]]
    /\ live = {}

Pointers == 0..MaxU32
Lengths == 0..MaxU32

Next ==
    \/ \E len \in Lengths : Allocate(len)
    \/ \E ptr \in Pointers, len \in Lengths : Free(ptr, len)
    \/ \E b \in live, kind \in Inputs : Write(b, kind)
    \/ \E entry \in Entrypoints, ptr \in Pointers, len \in Lengths, size \in Lengths :
         \E written \in 0..size, ok, valid \in BOOLEAN :
           Dispatch(entry, ptr, len,
                    [ok |-> ok, valid |-> valid, size |-> size, written |-> written])

Spec == Init /\ [][Next]_vars

----------------------------------------------------------------------------
(***************************************************************************)
(* Correctness.                                                            *)
(***************************************************************************)
Blocks == [ptr : Nat, len : Nat, image : UNION {[0..(n - 1) -> Cells] : n \in Nat}]

TypeOK == a \in Arenas /\ mem \in [Offsets -> Cells] /\ live \subseteq Blocks

Last(b) == \A c \in live : c.ptr <= b.ptr

\* The host can always give its memory back, latest block first, whatever calls
\* failed in between, and then the arena is empty again.
HostCanFree ==
    /\ \A b \in live : Last(b) => CanFree(a, b.ptr, b.len)
    /\ live = {} => a.next = 0 /\ a.count = 0

\* A block holds what its owner last put there: an entrypoint never writes over
\* the input it was given, nor one block over another.
LiveBytesKept == \A b \in live : Bytes(offset(b.ptr), b.len) = b.image

\* A contract runs only on bytes of blocks the host owns, never on what an
\* earlier call has left behind in freed memory.
OnlyLiveInputRuns ==
    \A entry \in Entrypoints, ptr \in Pointers, len \in Lengths :
      Runs(entry, ptr, len) =>
        \A x \in ptr..(ptr + len - 1) : \E b \in live : x \in b.ptr..(b.ptr + b.len - 1)
=============================================================================
