--------------------------- MODULE GuestArenaProofs ---------------------------
(***************************************************************************)
(* GuestArena for every capacity, address and integer width: the host can  *)
(* always free its blocks, blocks keep their bytes and a contract reads    *)
(* only blocks the host owns.                                              *)
(*                                                                         *)
(* The properties are not inductive alone: they need to know that the      *)
(* arena's records describe exactly the host's blocks, stacked from offset *)
(* zero without a gap (Stack).                                             *)
(***************************************************************************)
EXTENDS GuestArena, TLAPS

\* The recorded blocks form a stack inside the arena.
Stack(s) ==
    /\ s \in Arenas
    /\ s.count = 0 => s.next = 0
    /\ s.count # 0 => s.starts[0] = 0 /\ s.lengths[0] # 0
    /\ s.count = 1 => s.next = s.lengths[0]
    /\ s.count = 2 => /\ s.starts[1] = s.lengths[0] /\ s.lengths[1] # 0
                      /\ s.next = s.starts[1] + s.lengths[1]
    /\ s.next <= N
    /\ s.count # 0 => s.next <= MaxU32

\* They are the blocks of L.
OwnedBy(s, L) ==
    /\ \A b \in L : \E k \in 0..1 : /\ k < s.count
                                    /\ b.ptr = Base + s.starts[k] /\ b.len = s.lengths[k]
    /\ \A k \in 0..1 : k < s.count => \E b \in L : b.ptr = Base + s.starts[k]
    /\ \A b, c \in L : b.ptr = c.ptr => b = c

\* What is known of the image of a block: it is what the memory m holds.
Holds(m, L) == \A b \in L : b.image = [k \in 0..(b.len - 1) |-> m[offset(b.ptr) + k]]

IInv ==
    /\ Stack(a)
    /\ OwnedBy(a, live)
    /\ TypeOK
    /\ Holds(mem, live)

----------------------------------------------------------------------------
(***************************************************************************)
(* The bookkeeping.                                                        *)
(***************************************************************************)
\* allocate() puts one block on the stack and leaves the others alone.
LEMMA AllocatedStack ==
    ASSUME NEW len \in Nat, Stack(a), CanAllocate(len)
    PROVE  /\ Stack(Allocated(len))
           /\ a.count \in 0..1
           /\ Allocated(len).count = a.count + 1
           /\ Allocated(len).next = a.next + len
           /\ Allocated(len).starts = [a.starts EXCEPT ![a.count] = a.next]
           /\ Allocated(len).lengths = [a.lengths EXCEPT ![a.count] = len]
<1> DEFINE s == Allocated(len)
<1>1. a \in Arenas /\ a.count \in 0..1
  BY DEF Stack, Arenas, CanAllocate
<1>2. /\ s.count = a.count + 1
      /\ s.next = a.next + len
      /\ s.starts = [a.starts EXCEPT ![a.count] = a.next]
      /\ s.lengths = [a.lengths EXCEPT ![a.count] = len]
  BY <1>1 DEF Allocated, Arenas
<1>3. s \in Arenas
  <2>1. a.next \in Nat /\ a.starts \in [0..1 -> Nat] /\ a.lengths \in [0..1 -> Nat]
    BY <1>1 DEF Arenas
  <2>2. [a.starts EXCEPT ![a.count] = a.next] \in [0..1 -> Nat]
    BY <2>1
  <2>3. [a.lengths EXCEPT ![a.count] = len] \in [0..1 -> Nat]
    BY <2>1
  <2>4. a.next + len \in Nat /\ a.count + 1 \in 0..2
    BY <2>1, <1>1
  <2>5. [a EXCEPT !.starts[a.count] = a.next] \in Arenas
    BY <1>1, <2>1, <2>2 DEF Arenas
  <2>6. [a EXCEPT !.starts[a.count] = a.next, !.lengths[a.count] = len] \in Arenas
    BY <1>1, <2>1, <2>2, <2>3 DEF Arenas
  <2> QED BY <1>1, <2>1, <2>2, <2>3, <2>4, <2>6 DEF Allocated, Arenas
<1>4. CASE a.count = 0
  <2>1. s.count = 1 /\ s.starts[0] = 0 /\ s.lengths[0] = len /\ s.next = len
    BY <1>1, <1>2, <1>4 DEF Stack, Arenas
  <2> QED BY <1>1, <1>2, <1>3, <2>1, <1>4 DEF Stack, CanAllocate
<1>5. CASE a.count = 1
  <2>1. /\ s.count = 2 /\ s.starts[0] = 0 /\ s.lengths[0] = a.lengths[0]
        /\ s.starts[1] = a.next /\ s.lengths[1] = len /\ s.next = a.next + len
    BY <1>1, <1>2, <1>5 DEF Stack, Arenas
  <2> QED BY <1>1, <1>2, <1>3, <2>1, <1>5 DEF Stack, CanAllocate
<1> QED BY <1>1, <1>2, <1>4, <1>5

\* The latest block of a stack can be freed, and freeing it leaves the rest.
LEMMA FreedStack ==
    ASSUME NEW s, Stack(s), s.count # 0
    PROVE  /\ CanFree(s, Base + s.starts[s.count - 1], s.lengths[s.count - 1])
           /\ Stack(Freed(s))
           /\ Freed(s).count = s.count - 1
           /\ Freed(s).next = s.starts[s.count - 1]
           /\ Freed(s).starts = s.starts /\ Freed(s).lengths = s.lengths
<1>1. s \in Arenas /\ s.count \in 1..2 /\ s.next \in Nat
      /\ s.starts \in [0..1 -> Nat] /\ s.lengths \in [0..1 -> Nat]
  BY DEF Stack, Arenas
<1>2. /\ Freed(s).count = s.count - 1 /\ Freed(s).next = s.starts[s.count - 1]
      /\ Freed(s).starts = s.starts /\ Freed(s).lengths = s.lengths
  BY <1>1 DEF Freed, Arenas
<1>3. /\ s.next = s.starts[s.count - 1] + s.lengths[s.count - 1]
      /\ s.lengths[s.count - 1] # 0
  <2>1. CASE s.count = 1 BY <2>1, <1>1 DEF Stack
  <2>2. CASE s.count = 2 BY <2>2, <1>1 DEF Stack
  <2> QED BY <1>1, <2>1, <2>2
<1>6. s.starts[s.count - 1] \in Nat /\ s.count - 1 \in 0..2
  BY <1>1
<1>7. Freed(s) \in Arenas
  BY <1>1, <1>6 DEF Freed, Arenas
<1>4. CanFree(s, Base + s.starts[s.count - 1], s.lengths[s.count - 1])
  BY <1>1, <1>3, SizeAssumption DEF CanFree, InArena, offset, Stack
<1>5. Stack(Freed(s))
  <2>1. CASE s.count = 1
    <3>1. Freed(s).count = 0 /\ Freed(s).next = 0
      BY <2>1, <1>2 DEF Stack
    <3> QED BY <3>1, <1>7, SizeAssumption DEF Stack
  <2>2. CASE s.count = 2
    <3>1. Freed(s).count = 1 /\ Freed(s).next = s.starts[1]
      BY <2>2, <1>2
    <3>2. s.starts[0] = 0 /\ s.lengths[0] # 0 /\ s.starts[1] = s.lengths[0]
          /\ s.next = s.starts[1] + s.lengths[1] /\ s.next <= N /\ s.next <= MaxU32
      BY <2>2, <1>1 DEF Stack
    <3> QED BY <1>1, <1>2, <3>1, <3>2, <1>7, SizeAssumption DEF Stack
  <2> QED BY <1>1, <2>1, <2>2
<1> QED BY <1>2, <1>4, <1>5

----------------------------------------------------------------------------
(***************************************************************************)
(* The blocks and their bytes.                                             *)
(***************************************************************************)
\* A block of the host lies inside the used part of the arena.
LEMMA BlockExtent ==
    ASSUME NEW L, Stack(a), OwnedBy(a, L), NEW b \in L
    PROVE  /\ b.ptr \in Nat /\ b.len \in Nat \ {0}
           /\ offset(b.ptr) \in Nat
           /\ offset(b.ptr) + b.len <= a.next /\ a.next <= N
           /\ a.next \in Nat
<1>1. PICK k \in 0..1 : k < a.count /\ b.ptr = Base + a.starts[k] /\ b.len = a.lengths[k]
  BY DEF OwnedBy
<1>2. a.count \in 0..2 /\ a.next \in Nat /\ a.starts[k] \in Nat /\ a.lengths[k] \in Nat
  BY DEF Stack, Arenas
<1>3. a.lengths[k] # 0 /\ a.starts[k] + a.lengths[k] <= a.next
  <2>1. CASE k = 0 BY <1>1, <1>2, <2>1 DEF Stack, Arenas
  <2>2. CASE k = 1 BY <1>1, <1>2, <2>2 DEF Stack, Arenas
  <2> QED BY <2>1, <2>2
<1> QED BY <1>1, <1>2, <1>3, SizeAssumption DEF offset, Stack

\* Two blocks do not overlap.
LEMMA BlocksApart ==
    ASSUME NEW L, Stack(a), OwnedBy(a, L), NEW b \in L, NEW c \in L, b # c
    PROVE  offset(b.ptr) + b.len <= offset(c.ptr) \/ offset(c.ptr) + c.len <= offset(b.ptr)
<1>1. PICK k \in 0..1 : k < a.count /\ b.ptr = Base + a.starts[k] /\ b.len = a.lengths[k]
  BY DEF OwnedBy
<1>2. PICK n \in 0..1 : n < a.count /\ c.ptr = Base + a.starts[n] /\ c.len = a.lengths[n]
  BY DEF OwnedBy
<1>3. k # n
  BY <1>1, <1>2 DEF OwnedBy
<1>4. a.count = 2
  BY <1>1, <1>2, <1>3 DEF Stack, Arenas
<1>5. a.starts[1] = a.lengths[0] /\ a.starts[0] = 0 /\ a.starts[1] \in Nat
  BY <1>4 DEF Stack, Arenas
<1> QED BY <1>1, <1>2, <1>3, <1>5, SizeAssumption DEF offset

\* Writing part of an encoding leaves cells in memory, the written bytes where
\* they were put and every other byte alone.
LEMMA OverwrittenMemory ==
    ASSUME mem \in [Offsets -> Cells], NEW start \in Nat, NEW size \in Nat, NEW n \in 0..size,
           NEW kind \in Kinds \cup {"output"}
    PROVE  LET m == Overwritten(start, Image(kind, size), n) IN
           /\ m \in [Offsets -> Cells]
           /\ \A x \in Offsets : x \in start..(start + n - 1) => m[x] = Image(kind, size)[x - start]
           /\ \A x \in Offsets : x \notin start..(start + n - 1) => m[x] = mem[x]
<1>1. \A k \in 0..(size - 1) : Image(kind, size)[k] \in Cells
  BY DEF Image, Cells
<1>2. \A x \in Offsets : x \in start..(start + n - 1) => x - start \in 0..(size - 1)
  BY SizeAssumption DEF Offsets
<1> QED BY <1>1, <1>2 DEF Overwritten

\* A block that is not written to keeps its bytes.
LEMMA HoldsElsewhere ==
    ASSUME Stack(a), NEW L, OwnedBy(a, L), Holds(mem, L), NEW m, NEW b \in L,
           \A x \in Offsets : x \in offset(b.ptr)..(offset(b.ptr) + b.len - 1) => m[x] = mem[x]
    PROVE  b.image = [k \in 0..(b.len - 1) |-> m[offset(b.ptr) + k]]
<1>1. /\ b.len \in Nat \ {0} /\ offset(b.ptr) \in Nat
      /\ offset(b.ptr) + b.len <= N
  BY BlockExtent, SizeAssumption
<1>2. ASSUME NEW k \in 0..(b.len - 1)
      PROVE  m[offset(b.ptr) + k] = mem[offset(b.ptr) + k]
  <2>1. /\ offset(b.ptr) + k \in Offsets
        /\ offset(b.ptr) + k \in offset(b.ptr)..(offset(b.ptr) + b.len - 1)
    BY <1>1, SizeAssumption DEF Offsets
  <2> QED BY <2>1
<1>3. b.image = [k \in 0..(b.len - 1) |-> mem[offset(b.ptr) + k]]
  BY DEF Holds
<1> QED BY <1>2, <1>3

\* A new block at the top of the stack is the host's.
LEMMA AllocatedOwned ==
    ASSUME Stack(a), OwnedBy(a, live), NEW len \in Nat, CanAllocate(len),
           NEW b, b.ptr = Base + a.next, b.len = len
    PROVE  OwnedBy(Allocated(len), live \cup {b})
<1> DEFINE s == Allocated(len)
<1>1. /\ a.count \in 0..1 /\ s.count = a.count + 1
      /\ s.starts = [a.starts EXCEPT ![a.count] = a.next]
      /\ s.lengths = [a.lengths EXCEPT ![a.count] = len]
      /\ a.next \in Nat /\ a.starts \in [0..1 -> Nat] /\ a.lengths \in [0..1 -> Nat]
  BY AllocatedStack DEF Stack, Arenas
<1>2. /\ s.starts[a.count] = a.next /\ s.lengths[a.count] = len
      /\ \A k \in 0..1 : k < a.count => s.starts[k] = a.starts[k] /\ s.lengths[k] = a.lengths[k]
  BY <1>1
<1> HIDE DEF s
<1>3. ASSUME NEW c \in live \cup {b}
      PROVE  \E k \in 0..1 : k < s.count /\ c.ptr = Base + s.starts[k] /\ c.len = s.lengths[k]
  <2>1. CASE c = b
    <3>1. /\ a.count \in 0..1 /\ a.count < s.count
          /\ c.ptr = Base + s.starts[a.count] /\ c.len = s.lengths[a.count]
      BY <1>1, <1>2, <2>1
    <3> QED BY <3>1
  <2>2. CASE c \in live
    <3>1. PICK k \in 0..1 : k < a.count /\ c.ptr = Base + a.starts[k] /\ c.len = a.lengths[k]
      BY <2>2 DEF OwnedBy
    <3> QED BY <1>1, <1>2, <3>1
  <2> QED BY <2>1, <2>2
<1>4. ASSUME NEW k \in 0..1, k < s.count
      PROVE  \E c \in live \cup {b} : c.ptr = Base + s.starts[k]
  <2>1. CASE k = a.count BY <1>2, <2>1
  <2>2. CASE k # a.count
    <3>1. k < a.count BY <1>1, <1>4, <2>2
    <3>2. PICK c \in live : c.ptr = Base + a.starts[k]
      BY <3>1 DEF OwnedBy
    <3> QED BY <1>2, <3>1, <3>2
  <2> QED BY <2>1, <2>2
<1>5. ASSUME NEW c \in live PROVE c.ptr # b.ptr
  BY <1>1, BlockExtent, SizeAssumption DEF offset
<1>6. \A c, d \in live \cup {b} : c.ptr = d.ptr => c = d
  BY <1>5 DEF OwnedBy
<1> QED BY <1>3, <1>4, <1>6 DEF OwnedBy, s

\* Freeing the latest block leaves the host the others.
LEMMA FreedOwned ==
    ASSUME Stack(a), OwnedBy(a, live), NEW ptr \in Nat, NEW len \in Nat, CanFree(a, ptr, len)
    PROVE  OwnedBy(Freed(a), {b \in live : b.ptr # ptr})
<1> DEFINE M == {b \in live : b.ptr # ptr}
<1>1. /\ a.count \in 1..2 /\ a.starts \in [0..1 -> Nat] /\ a.lengths \in [0..1 -> Nat]
      /\ ptr = Base + a.starts[a.count - 1]
  BY SizeAssumption DEF Stack, Arenas, CanFree, InArena, offset
<1>2. /\ Freed(a).count = a.count - 1
      /\ Freed(a).starts = a.starts /\ Freed(a).lengths = a.lengths
  BY <1>1, FreedStack
<1>3. a.count = 2 => a.starts[0] # a.starts[1]
  BY <1>1 DEF Stack
<1>4. ASSUME NEW b \in M
      PROVE  \E k \in 0..1 : k < a.count - 1 /\ b.ptr = Base + a.starts[k] /\ b.len = a.lengths[k]
  <2>1. PICK k \in 0..1 : k < a.count /\ b.ptr = Base + a.starts[k] /\ b.len = a.lengths[k]
    BY DEF OwnedBy
  <2>2. k # a.count - 1
    BY <1>1, <2>1
  <2> QED BY <1>1, <2>1, <2>2
<1>5. ASSUME NEW k \in 0..1, k < a.count - 1
      PROVE  \E b \in M : b.ptr = Base + a.starts[k]
  <2>1. k = 0 /\ a.count = 2
    BY <1>1, <1>5
  <2>2. PICK b \in live : b.ptr = Base + a.starts[k]
    BY <2>1 DEF OwnedBy
  <2>3. b.ptr # ptr
    BY <1>1, <1>3, <2>1, <2>2, SizeAssumption
  <2> QED BY <2>2, <2>3
<1>6. \A b, c \in M : b.ptr = c.ptr => b = c
  BY DEF OwnedBy
<1> QED BY <1>2, <1>4, <1>5, <1>6 DEF OwnedBy

\* A reservation that is released again leaves the arena to the same blocks.
LEMMA ReleasedReservation ==
    ASSUME Stack(a), OwnedBy(a, live), NEW len \in Nat, CanAllocate(len)
    PROVE  LET s == Allocated(len) IN
           /\ CanFree(s, Base + a.next, len)
           /\ Stack(Freed(s)) /\ OwnedBy(Freed(s), live)
<1> DEFINE s == Allocated(len)
<1>1. /\ Stack(s) /\ a.count \in 0..1 /\ s.count = a.count + 1
      /\ s.starts = [a.starts EXCEPT ![a.count] = a.next]
      /\ s.lengths = [a.lengths EXCEPT ![a.count] = len]
      /\ a.next \in Nat /\ a.starts \in [0..1 -> Nat] /\ a.lengths \in [0..1 -> Nat]
  BY AllocatedStack DEF Stack, Arenas
<1>2. /\ s.starts[a.count] = a.next /\ s.lengths[a.count] = len
      /\ \A k \in 0..1 : k < a.count => s.starts[k] = a.starts[k] /\ s.lengths[k] = a.lengths[k]
  BY <1>1
<1> HIDE DEF s
<1>3. s.count # 0 /\ s.count - 1 = a.count
  BY <1>1
<1>4. /\ CanFree(s, Base + a.next, len) /\ Stack(Freed(s))
      /\ Freed(s).count = a.count
      /\ Freed(s).starts = s.starts /\ Freed(s).lengths = s.lengths
  BY <1>1, <1>2, <1>3, FreedStack
<1>5. OwnedBy(Freed(s), live)
  BY <1>2, <1>4 DEF OwnedBy
<1> QED BY <1>4, <1>5 DEF s

----------------------------------------------------------------------------
(***************************************************************************)
(* The steps.                                                              *)
(***************************************************************************)
LEMMA InitInv == Init => IInv
<1> SUFFICES ASSUME Init PROVE IInv
  OBVIOUS
<1>1. a = NewArena /\ live = {} /\ mem = [x \in Offsets |-> [of |-> "none", at |-> 0, size |-> 0]]
  BY DEF Init
<1>2. a \in Arenas /\ a.count = 0 /\ a.next = 0
  BY <1>1 DEF NewArena, Arenas
<1>3. TypeOK
  BY <1>1, <1>2 DEF TypeOK, Cells
<1>4. Stack(a)
  BY <1>2, SizeAssumption DEF Stack
<1>5. OwnedBy(a, live) /\ Holds(mem, live)
  BY <1>1, <1>2 DEF OwnedBy, Holds
<1> QED BY <1>3, <1>4, <1>5 DEF IInv

\* A block that lies in the arena and holds known cells is a host's block.
LEMMA BlockType ==
    ASSUME NEW ptr \in Nat, NEW len \in Nat, NEW image \in [0..(len - 1) -> Cells]
    PROVE  [ptr |-> ptr, len |-> len, image |-> image] \in Blocks
BY DEF Blocks

LEMMA AllocateInv ==
    ASSUME IInv, NEW len \in Nat, Allocate(len)
    PROVE  IInv'
<1> DEFINE b == [ptr |-> Base + a.next, len |-> len, image |-> Bytes(a.next, len)]
<1>1. /\ CanAllocate(len) /\ a' = Allocated(len) /\ live' = live \cup {b} /\ mem' = mem
      /\ Stack(a) /\ OwnedBy(a, live) /\ TypeOK /\ Holds(mem, live)
  BY DEF Allocate, IInv
<1>2. a.next \in Nat /\ a.next + len <= N /\ Base + a.next \in Nat
  BY <1>1, SizeAssumption DEF Stack, Arenas, CanAllocate
<1>3. \A k \in 0..(len - 1) : a.next + k \in Offsets
  BY <1>2, SizeAssumption DEF Offsets
<1>4. Bytes(a.next, len) \in [0..(len - 1) -> Cells]
  BY <1>1, <1>3 DEF Bytes, TypeOK
<1>5. b \in Blocks
  BY <1>2, <1>4, BlockType
<1>6. Stack(a')
  BY <1>1, AllocatedStack
<1>7. OwnedBy(a', live')
  BY <1>1, AllocatedOwned
<1>8. TypeOK'
  BY <1>1, <1>5, <1>6 DEF TypeOK, Stack
<1>9. offset(b.ptr) = a.next
  BY <1>2, SizeAssumption DEF offset
<1>10. Holds(mem', live')
  BY <1>1, <1>9 DEF Holds, Bytes
<1> QED BY <1>6, <1>7, <1>8, <1>10 DEF IInv

LEMMA FreeInv ==
    ASSUME IInv, NEW ptr \in Nat, NEW len \in Nat, Free(ptr, len)
    PROVE  IInv'
<1>1. /\ CanFree(a, ptr, len) /\ a' = Freed(a) /\ live' = {b \in live : b.ptr # ptr} /\ mem' = mem
      /\ Stack(a) /\ OwnedBy(a, live) /\ TypeOK /\ Holds(mem, live)
  BY DEF Free, IInv
<1>2. Stack(a')
  BY <1>1, FreedStack DEF CanFree
<1>3. OwnedBy(a', live')
  BY <1>1, FreedOwned
<1>4. TypeOK'
  BY <1>1, <1>2 DEF TypeOK, Stack
<1>5. Holds(mem', live')
  BY <1>1 DEF Holds
<1> QED BY <1>2, <1>3, <1>4, <1>5 DEF IInv

LEMMA WriteInv ==
    ASSUME IInv, NEW b \in live, NEW kind \in Kinds, Write(b, kind)
    PROVE  IInv'
<1> DEFINE c == [b EXCEPT !.image = Image(kind, b.len)]
<1>1. /\ mem' = Overwritten(offset(b.ptr), Image(kind, b.len), b.len)
      /\ live' = (live \ {b}) \cup {c} /\ a' = a
      /\ Stack(a) /\ OwnedBy(a, live) /\ TypeOK /\ Holds(mem, live)
  BY DEF Write, IInv
<1>2. b \in Blocks
  BY <1>1 DEF TypeOK
<1>3. b.ptr \in Nat /\ b.len \in Nat /\ c = [ptr |-> b.ptr, len |-> b.len, image |-> Image(kind, b.len)]
  BY <1>2 DEF Blocks
<1>4. Image(kind, b.len) \in [0..(b.len - 1) -> Cells]
  BY <1>3 DEF Image, Cells
<1>5. c \in Blocks
  BY <1>3, <1>4, BlockType
<1>6. c.ptr = b.ptr /\ c.len = b.len /\ c.image = Image(kind, b.len)
  BY <1>3
<1> HIDE DEF c
<1>7. OwnedBy(a', live')
  BY <1>1, <1>6 DEF OwnedBy
<1>8. /\ offset(b.ptr) \in Nat /\ offset(b.ptr) + b.len <= N
      /\ b.len \in Nat \ {0}
  BY <1>1, BlockExtent, SizeAssumption
<1>9. /\ mem' \in [Offsets -> Cells]
      /\ \A x \in Offsets : x \in offset(b.ptr)..(offset(b.ptr) + b.len - 1)
           => mem'[x] = Image(kind, b.len)[x - offset(b.ptr)]
      /\ \A x \in Offsets : x \notin offset(b.ptr)..(offset(b.ptr) + b.len - 1) => mem'[x] = mem[x]
  <2> DEFINE m == Overwritten(offset(b.ptr), Image(kind, b.len), b.len)
  <2>1. mem \in [Offsets -> Cells] /\ b.len \in 0..b.len /\ b.len \in Nat
        /\ offset(b.ptr) \in Nat /\ kind \in Kinds \cup {"output"}
    BY <1>1, <1>8 DEF TypeOK
  <2>2. /\ m \in [Offsets -> Cells]
        /\ \A x \in Offsets : x \in offset(b.ptr)..(offset(b.ptr) + b.len - 1)
             => m[x] = Image(kind, b.len)[x - offset(b.ptr)]
        /\ \A x \in Offsets : x \notin offset(b.ptr)..(offset(b.ptr) + b.len - 1) => m[x] = mem[x]
    BY <2>1, OverwrittenMemory
  <2> QED BY <1>1, <2>2
<1>10. TypeOK'
  BY <1>1, <1>5, <1>9 DEF TypeOK
<1>11. c.image = [k \in 0..(c.len - 1) |-> mem'[offset(c.ptr) + k]]
  <2>1. ASSUME NEW k \in 0..(b.len - 1)
        PROVE  mem'[offset(b.ptr) + k] = Image(kind, b.len)[k]
    <3> DEFINE x == offset(b.ptr) + k
    <3>1. /\ x \in Offsets
          /\ x \in offset(b.ptr)..(offset(b.ptr) + b.len - 1)
          /\ x - offset(b.ptr) = k
      BY <1>8, SizeAssumption DEF Offsets
    <3>2. mem'[x] = Image(kind, b.len)[x - offset(b.ptr)]
      BY <1>9, <3>1
    <3> QED BY <3>1, <3>2
  <2> QED BY <1>4, <1>6, <2>1
<1>12. ASSUME NEW d \in live, d # b
       PROVE  d.image = [k \in 0..(d.len - 1) |-> mem'[offset(d.ptr) + k]]
  <2>1. /\ d.len \in Nat /\ offset(d.ptr) \in Nat
        /\ offset(b.ptr) + b.len <= offset(d.ptr) \/ offset(d.ptr) + d.len <= offset(b.ptr)
    BY <1>1, <1>12, BlockExtent, BlocksApart
  <2>2. \A x \in Offsets : x \in offset(d.ptr)..(offset(d.ptr) + d.len - 1) => mem'[x] = mem[x]
    BY <1>8, <1>9, <2>1, SizeAssumption DEF Offsets
  <2> QED BY <1>1, <2>2, HoldsElsewhere
<1>13. Holds(mem', live')
  BY <1>1, <1>11, <1>12 DEF Holds
<1> QED BY <1>1, <1>7, <1>10, <1>13 DEF IInv

\* A dispatch that returns an output leaves it as the host's latest block.
LEMMA ReturnInv ==
    ASSUME IInv, NEW entry, NEW ptr \in Nat, NEW len \in Nat, NEW out \in Outputs,
           Dispatch(entry, ptr, len, out), out.ok, out.written = out.size
    PROVE  IInv'
<1> DEFINE b == [ptr |-> Base + a.next, len |-> out.size, image |-> Image("output", out.size)]
<1>1. /\ CanAllocate(out.size) /\ a' = Allocated(out.size) /\ live' = live \cup {b}
      /\ mem' = Overwritten(a.next, Image("output", out.size), out.size)
      /\ Stack(a) /\ OwnedBy(a, live) /\ TypeOK /\ Holds(mem, live)
      /\ out.size \in Nat
  BY DEF Dispatch, Returned, IInv, Outputs
<1>2. a.next \in Nat /\ a.next + out.size <= N /\ Base + a.next \in Nat
  BY <1>1, SizeAssumption DEF Stack, Arenas, CanAllocate
<1>3. Image("output", out.size) \in [0..(out.size - 1) -> Cells]
  BY <1>1 DEF Image, Cells
<1>4. b \in Blocks
  BY <1>1, <1>2, <1>3, BlockType
<1>5. Stack(a')
  BY <1>1, AllocatedStack
<1>6. OwnedBy(a', live')
  BY <1>1, AllocatedOwned
<1>7. b.ptr = Base + a.next /\ b.len = out.size /\ b.image = Image("output", out.size)
  OBVIOUS
<1>8. offset(b.ptr) = a.next
  BY <1>2, SizeAssumption DEF offset
<1> HIDE DEF b
<1>9. /\ mem' \in [Offsets -> Cells]
      /\ \A x \in Offsets : x \in a.next..(a.next + out.size - 1)
           => mem'[x] = Image("output", out.size)[x - a.next]
      /\ \A x \in Offsets : x \notin a.next..(a.next + out.size - 1) => mem'[x] = mem[x]
  <2> DEFINE m == Overwritten(a.next, Image("output", out.size), out.size)
  <2>1. mem \in [Offsets -> Cells] /\ out.size \in 0..out.size
    BY <1>1 DEF TypeOK
  <2>2. /\ m \in [Offsets -> Cells]
        /\ \A x \in Offsets : x \in a.next..(a.next + out.size - 1)
             => m[x] = Image("output", out.size)[x - a.next]
        /\ \A x \in Offsets : x \notin a.next..(a.next + out.size - 1) => m[x] = mem[x]
    BY <1>1, <1>2, <2>1, OverwrittenMemory
  <2> QED BY <1>1, <2>2
<1>10. TypeOK'
  BY <1>1, <1>4, <1>5, <1>9 DEF TypeOK, Stack
<1>11. b.image = [k \in 0..(b.len - 1) |-> mem'[offset(b.ptr) + k]]
  <2>1. ASSUME NEW k \in 0..(out.size - 1)
        PROVE  mem'[a.next + k] = Image("output", out.size)[k]
    <3> DEFINE x == a.next + k
    <3>1. x \in Offsets /\ x \in a.next..(a.next + out.size - 1) /\ x - a.next = k
      BY <1>1, <1>2, SizeAssumption DEF Offsets
    <3>2. mem'[x] = Image("output", out.size)[x - a.next]
      BY <1>9, <3>1
    <3> QED BY <3>1, <3>2
  <2> QED BY <1>3, <1>7, <1>8, <2>1
<1>12. ASSUME NEW d \in live
       PROVE  d.image = [k \in 0..(d.len - 1) |-> mem'[offset(d.ptr) + k]]
  <2>1. d.len \in Nat /\ offset(d.ptr) \in Nat /\ offset(d.ptr) + d.len <= a.next
    BY <1>1, BlockExtent
  <2>2. \A x \in Offsets : x \in offset(d.ptr)..(offset(d.ptr) + d.len - 1) => mem'[x] = mem[x]
    BY <1>1, <1>2, <1>9, <2>1, SizeAssumption DEF Offsets
  <2> QED BY <1>1, <2>2, HoldsElsewhere
<1>13. Holds(mem', live')
  BY <1>1, <1>11, <1>12 DEF Holds
<1> QED BY <1>5, <1>6, <1>10, <1>13 DEF IInv

\* A dispatch whose encoding fails leaves no trace but bytes nobody owns.
LEMMA FailedInv ==
    ASSUME IInv, NEW entry, NEW ptr \in Nat, NEW len \in Nat, NEW out \in Outputs,
           out.written \in 0..out.size, Dispatch(entry, ptr, len, out),
           ~(out.ok /\ out.written = out.size)
    PROVE  IInv'
<1>1. /\ CanAllocate(out.size) /\ a' = Returned(out) /\ live' = live
      /\ mem' = Overwritten(a.next, Image("output", out.size), out.written)
      /\ Stack(a) /\ OwnedBy(a, live) /\ TypeOK /\ Holds(mem, live)
      /\ out.size \in Nat
  BY DEF Dispatch, IInv, Outputs
<1>2. a.next \in Nat /\ a.next + out.size <= N
  BY <1>1 DEF Stack, Arenas, CanAllocate
<1>3. a' = Freed(Allocated(out.size)) /\ Stack(a') /\ OwnedBy(a', live')
  BY <1>1, ReleasedReservation DEF Returned
<1>4. /\ mem' \in [Offsets -> Cells]
      /\ \A x \in Offsets : x \notin a.next..(a.next + out.written - 1) => mem'[x] = mem[x]
  <2> DEFINE m == Overwritten(a.next, Image("output", out.size), out.written)
  <2>1. mem \in [Offsets -> Cells]
    BY <1>1 DEF TypeOK
  <2>2. /\ m \in [Offsets -> Cells]
        /\ \A x \in Offsets : x \notin a.next..(a.next + out.written - 1) => m[x] = mem[x]
    BY <1>1, <1>2, <2>1, OverwrittenMemory
  <2> QED BY <1>1, <2>2
<1>5. TypeOK'
  BY <1>1, <1>3, <1>4 DEF TypeOK, Stack
<1>6. ASSUME NEW d \in live
      PROVE  d.image = [k \in 0..(d.len - 1) |-> mem'[offset(d.ptr) + k]]
  <2>1. d.len \in Nat /\ offset(d.ptr) \in Nat /\ offset(d.ptr) + d.len <= a.next
    BY <1>1, BlockExtent
  <2>2. \A x \in Offsets : x \in offset(d.ptr)..(offset(d.ptr) + d.len - 1) => mem'[x] = mem[x]
    BY <1>1, <1>2, <1>4, <2>1, SizeAssumption DEF Offsets
  <2> QED BY <1>1, <2>2, HoldsElsewhere
<1>7. Holds(mem', live')
  BY <1>1, <1>6 DEF Holds
<1> QED BY <1>3, <1>5, <1>7 DEF IInv

\* Every step of the host and of the entrypoints keeps the invariant.
LEMMA StepInv == IInv /\ [Next]_vars => IInv'
<1> SUFFICES ASSUME IInv, [Next]_vars PROVE IInv'
  OBVIOUS
<1> USE SizeAssumption DEF Pointers, Lengths
<1>1. ASSUME NEW len \in Lengths, Allocate(len) PROVE IInv'
  BY <1>1, AllocateInv
<1>2. ASSUME NEW ptr \in Pointers, NEW len \in Lengths, Free(ptr, len) PROVE IInv'
  BY <1>2, FreeInv
<1>3. ASSUME NEW b \in live, NEW kind \in Inputs, Write(b, kind) PROVE IInv'
  BY <1>3, WriteInv
<1>4. ASSUME NEW entry \in Entrypoints, NEW ptr \in Pointers, NEW len \in Lengths,
             NEW size \in Lengths, NEW written \in 0..size, NEW ok \in BOOLEAN, NEW valid \in BOOLEAN,
             Dispatch(entry, ptr, len,
                      [ok |-> ok, valid |-> valid, size |-> size, written |-> written])
      PROVE  IInv'
  <2> DEFINE out == [ok |-> ok, valid |-> valid, size |-> size, written |-> written]
  <2>1. /\ out \in Outputs /\ out.written \in 0..out.size
        /\ ptr \in Nat /\ len \in Nat /\ Dispatch(entry, ptr, len, out)
    BY <1>4 DEF Outputs
  <2> HIDE DEF out
  <2>2. CASE out.ok /\ out.written = out.size
    BY <2>1, <2>2, ReturnInv
  <2>3. CASE ~(out.ok /\ out.written = out.size)
    BY <2>1, <2>3, FailedInv
  <2> QED BY <2>2, <2>3
<1>5. CASE UNCHANGED vars
  BY <1>5 DEF vars, IInv, Stack, OwnedBy, TypeOK, Holds
<1> QED BY <1>1, <1>2, <1>3, <1>4, <1>5 DEF Next

\* The arena's records and the host's blocks always describe each other.
THEOREM ArenaInvariant == Spec => []IInv
BY InitInv, StepInv, PTL DEF Spec

----------------------------------------------------------------------------
(***************************************************************************)
(* What follows.                                                           *)
(***************************************************************************)
\* The bookkeeping, the memory and the blocks have their types.
THEOREM TypeCorrect == Spec => []TypeOK
<1>1. IInv => TypeOK
  BY DEF IInv
<1> QED BY <1>1, ArenaInvariant, PTL

\* Each record is a block of the host, address and length.
LEMMA RecordedBlock ==
    ASSUME Stack(a), OwnedBy(a, live), NEW k \in 0..1, k < a.count
    PROVE  \E b \in live : b.ptr = Base + a.starts[k] /\ b.len = a.lengths[k]
<1>1. PICK b \in live : b.ptr = Base + a.starts[k]
  BY DEF OwnedBy
<1>2. PICK n \in 0..1 : n < a.count /\ b.ptr = Base + a.starts[n] /\ b.len = a.lengths[n]
  BY DEF OwnedBy
<1>3. a.starts \in [0..1 -> Nat] /\ a.count \in 0..2
  BY DEF Stack, Arenas
<1>4. a.count = 2 => a.starts[0] # a.starts[1]
  BY DEF Stack
<1>5. n = k
  BY <1>1, <1>2, <1>3, <1>4, SizeAssumption
<1> QED BY <1>1, <1>2, <1>5

\* The host can free its latest block in every state it can reach, and an arena
\* without blocks is as empty as a new one (free, runtime.rs).
THEOREM MemoryComesBack == Spec => []HostCanFree
<1>1. IInv => HostCanFree
  <2> SUFFICES ASSUME IInv PROVE HostCanFree
    OBVIOUS
  <2>1. Stack(a) /\ OwnedBy(a, live)
    BY DEF IInv
  <2>2. a.starts \in [0..1 -> Nat] /\ a.lengths \in [0..1 -> Nat] /\ a.count \in 0..2
    BY <2>1 DEF Stack, Arenas
  <2>3. ASSUME NEW b \in live, Last(b) PROVE CanFree(a, b.ptr, b.len)
    <3>1. PICK k \in 0..1 : k < a.count /\ b.ptr = Base + a.starts[k] /\ b.len = a.lengths[k]
      BY <2>1 DEF OwnedBy
    <3>2. k = a.count - 1
      <4>1. SUFFICES ASSUME k # a.count - 1 PROVE FALSE
        OBVIOUS
      <4>2. k = 0 /\ a.count = 2
        BY <2>2, <3>1, <4>1
      <4>3. PICK c \in live : c.ptr = Base + a.starts[1]
        BY <2>1, <4>2 DEF OwnedBy
      <4>4. a.starts[0] = 0 /\ a.starts[1] # 0
        BY <2>1, <4>2 DEF Stack
      <4> QED BY <2>2, <2>3, <3>1, <4>2, <4>3, <4>4, SizeAssumption DEF Last
    <3>3. a.count # 0
      BY <2>2, <3>1
    <3> QED BY <2>1, <3>1, <3>2, <3>3, FreedStack
  <2>4. ASSUME live = {} PROVE a.count = 0
    <3>1. ASSUME a.count # 0 PROVE FALSE
      <4>1. 0 \in 0..1 /\ 0 < a.count
        BY <2>2, <3>1
      <4> QED BY <2>1, <2>4, <4>1 DEF OwnedBy
    <3> QED BY <3>1
  <2> QED BY <2>1, <2>3, <2>4 DEF HostCanFree, Stack
<1> QED BY <1>1, ArenaInvariant, PTL

\* No call writes over a block of the host, above all no output over the input
\* it answers (write_output, runtime.rs).
THEOREM BlocksKeepTheirBytes == Spec => []LiveBytesKept
<1>1. IInv => LiveBytesKept
  BY DEF IInv, Holds, LiveBytesKept, Bytes
<1> QED BY <1>1, ArenaInvariant, PTL

\* Every byte an entrypoint runs on belongs to a block of the host (read,
\* runtime.rs).
THEOREM OnlyBlocksAreRead == Spec => []OnlyLiveInputRuns
<1>1. IInv => OnlyLiveInputRuns
  <2> SUFFICES ASSUME IInv, NEW entry \in Entrypoints, NEW ptr \in Pointers, NEW len \in Lengths,
                      Runs(entry, ptr, len), NEW x \in ptr..(ptr + len - 1)
               PROVE  \E b \in live : x \in b.ptr..(b.ptr + b.len - 1)
    BY DEF OnlyLiveInputRuns
  <2>1. Stack(a) /\ OwnedBy(a, live)
    BY DEF IInv
  <2>2. a.starts \in [0..1 -> Nat] /\ a.lengths \in [0..1 -> Nat] /\ a.count \in 0..2 /\ a.next \in Nat
    BY <2>1 DEF Stack, Arenas
  <2>3. /\ x \in Nat /\ x >= Base /\ x - Base < a.next
    BY SizeAssumption, <2>2 DEF Runs, CanRead, InArena, offset, Pointers, Lengths
  <2>4. a.count # 0 /\ a.starts[0] = 0
    BY <2>1, <2>2, <2>3, SizeAssumption DEF Stack
  <2>5. CASE x - Base < a.lengths[0]
    <3>1. 0 \in 0..1 /\ 0 < a.count
      BY <2>2, <2>4
    <3>2. PICK b \in live : b.ptr = Base + a.starts[0] /\ b.len = a.lengths[0]
      BY <2>1, <3>1, RecordedBlock
    <3> QED BY <2>2, <2>3, <2>4, <2>5, <3>2, SizeAssumption
  <2>6. CASE ~(x - Base < a.lengths[0])
    <3>1. a.count = 2 /\ a.starts[1] = a.lengths[0] /\ a.next = a.starts[1] + a.lengths[1]
      BY <2>1, <2>2, <2>3, <2>4, <2>6, SizeAssumption DEF Stack
    <3>2. PICK b \in live : b.ptr = Base + a.starts[1] /\ b.len = a.lengths[1]
      BY <2>1, <3>1, RecordedBlock
    <3> QED BY <2>2, <2>3, <2>6, <3>1, <3>2, SizeAssumption
  <2> QED BY <2>5, <2>6
<1> QED BY <1>1, ArenaInvariant, PTL
=============================================================================
