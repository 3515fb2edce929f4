-------------------------------- MODULE Arena -------------------------------
(***************************************************************************)
(* The memory that calls of the C API return their results in:             *)
(* src/helpers/linked_memory.hpp and the arrays and tapes of               *)
(* src/helpers/linked_array.hpp.  An arena handle is a chain of blocks.  A *)
(* call locks it with linked_memory_lock_t, and so do the calls it makes   *)
(* itself; only the outermost one may discard what is in it.  Arrays grow  *)
(* in place when they are the last of a block, and move otherwise.         *)
(*                                                                         *)
(* An address is a block and an offset in it; blocks begin at multiples of *)
(* every alignment.  The memory is modelled byte by byte, so that whatever *)
(* writes over an array of somebody else shows.                            *)
(***************************************************************************)
EXTENDS Integers, Sequences, FiniteSets, SequencesExt

CONSTANTS
    Kinds,          \* kinds of memory
    HeaderSize,     \* sizeof(arena_header_t)
    InitialSize,    \* initial_size_k
    ElementSizes,   \* sizeof(element_t), also the alignment
    MaxBlocks,      \* bound: blocks at a time
    MaxArrays,      \* bound: arrays created
    MaxLength,      \* bound: elements of an array
    MaxDepth,       \* bound: calls within each other
    MaxTape         \* bound: values on a tape

VARIABLES
    blocks,     \* address of a block -> [capacity, used, kind]; capacity 0 when it is free
    chain,      \* the blocks of the handle, first_ptr_ first
    canRelease, \* can_release_memory of the first block
    stack,      \* the calls in progress: [owns, kind], the innermost last
    arrays,     \* the arrays alive: [depth, size, block, at, length, cap]
    bytes,      \* address -> what is there
    held,       \* history: what every array should hold
    tape,       \* a growing_tape_t
    pushed      \* history: what was pushed onto it

arenaVars == <<blocks, chain, canRelease, stack, arrays, bytes, held>>
tapeVars == <<tape, pushed>>

NoBlock == 0
Result == 0     \* depth of the arrays that calls have returned

NextMultiple(x, d) == ((x + d - 1) \div d) * d

(* 2, 4, 8...: the power of two above x. *)
NextPowerOfTwo(x) == CHOOSE p \in {2^i : i \in 1..5} : p > x /\ p <= 2 * x

-----------------------------------------------------------------------------
(* linked_memory_t.  An operator on the chain returns [block, at, blocks,  *)
(* chain]: the address and the blocks after it.                            *)

(* arena_header_t::alloc_internally: the place, if there is room. *)
Place(bs, b, length, alignment) == NextMultiple(bs[b].used, alignment)
Fits(bs, b, length, alignment) == Place(bs, b, length, alignment) + length <= bs[b].capacity
AllocInternally(bs, b, length, alignment) ==
    [bs EXCEPT ![b].used = Place(bs, b, length, alignment) + length]

(* alloc_arena and release_arena: addresses are used again.  A place of    *)
(* NoBlock is out of the bound.                                            *)
NewBlock(capacity, kind) == [capacity |-> capacity, used |-> HeaderSize, kind |-> kind]
NoSuchBlock == [capacity |-> 0, used |-> 0, kind |-> "none"]
Allocated(b) == blocks[b].capacity > 0
FreeBlock ==
    LET free == {b \in 1..MaxBlocks : ~Allocated(b)}
    IN  IF free = {} THEN NoBlock ELSE CHOOSE b \in free : \A c \in free : b <= c

(* The first block with room, or a new one at the end of the chain. *)
Alloc(length, alignment) ==
    LET fits == {i \in 1..Len(chain) : Fits(blocks, chain[i], length, alignment)}
        first == CHOOSE i \in fits : \A j \in fits : i <= j
        least == length + alignment + HeaderSize
        double == 2 * blocks[Last(chain)].capacity
        new == NewBlock(IF double > least THEN double ELSE least, blocks[chain[1]].kind)
        n == FreeBlock
    IN  IF fits # {}
        THEN [block |-> chain[first], at |-> Place(blocks, chain[first], length, alignment),
              blocks |-> AllocInternally(blocks, chain[first], length, alignment),
              chain |-> chain]
        ELSE IF n = NoBlock
        THEN [block |-> n, at |-> 0, blocks |-> blocks, chain |-> chain]
        ELSE [block |-> n, at |-> NextMultiple(HeaderSize, alignment),
              blocks |-> AllocInternally([blocks EXCEPT ![n] = new], n, length, alignment),
              chain |-> Append(chain, n)]

(* Mutant: the room behind an array is not looked at. *)
CanExtendAnyway(b, at, more) == blocks[b].used = at

(* cheap_extend: the array is the last of its block, and there is room. *)
CanExtend(b, at, more) ==
    /\ blocks[b].used = at
    /\ blocks[b].capacity - blocks[b].used >= more

InChain(ch, b) == \E i \in 1..Len(ch) : ch[i] = b

ReleasePartially(bs, ch) ==
    [blocks |-> [b \in 1..MaxBlocks |->
                   IF b = ch[1] THEN [bs[b] EXCEPT !.used = HeaderSize]
                   ELSE IF InChain(ch, b) THEN NoSuchBlock
                   ELSE bs[b]],
     chain |-> <<ch[1]>>]

-----------------------------------------------------------------------------
(* linked_memory_lock_t. *)

(* start_if_null: a handle with memory of another kind starts anew, and    *)
(* nothing refers to its old blocks any more.                              *)
Starts(kind) ==
    IF chain # <<>> /\ blocks[chain[1]].kind = kind
    THEN [blocks |-> blocks, chain |-> chain, can |-> canRelease]
    ELSE [blocks |-> [blocks EXCEPT ![FreeBlock] = NewBlock(InitialSize, kind)],
          chain |-> <<FreeBlock>>, can |-> TRUE]

(* Mutant: inner calls discard too. *)
DiscardsAlways(can, keep) == ~keep

(* Only who has taken the lock may discard what is there. *)
Discards(can, keep) == can /\ ~keep

(* A call begins: at the outermost level with any options, within another  *)
(* call with the same kind of memory.  What is discarded is not used any   *)
(* more by whoever asked for it; what inner calls find must stay.          *)
Enter(kind, keep) ==
    LET start == Starts(kind)
        rest == IF Discards(start.can, keep)
                THEN ReleasePartially(start.blocks, start.chain) ELSE start
    IN  /\ Len(stack) < MaxDepth
        /\ stack # <<>> => kind = Last(stack).kind
        /\ FreeBlock # NoBlock \/ (chain # <<>> /\ blocks[chain[1]].kind = kind)
        /\ blocks' = rest.blocks /\ chain' = rest.chain
        /\ canRelease' = FALSE
        /\ stack' = Append(stack, [owns |-> start.can, kind |-> kind])
        /\ IF stack = <<>> /\ ~keep
           THEN arrays' = <<>> /\ held' = <<>> /\ bytes' = <<>>
           ELSE UNCHANGED <<arrays, held, bytes>>

Mine(n) == arrays[n].depth = Len(stack)

(* Mutant: every call unlocks. *)
UnlocksAlways(frame) == TRUE

Unlocks(frame) == frame.owns

Leave ==
    /\ stack # <<>>
    /\ canRelease' = IF Unlocks(Last(stack)) THEN TRUE ELSE canRelease
    /\ stack' = Front(stack)
    /\ arrays' = [n \in 1..Len(arrays) |->
                    IF Mine(n) THEN [arrays[n] EXCEPT !.depth = Result] ELSE arrays[n]]
    /\ UNCHANGED <<blocks, chain, bytes, held>>

(* clear_linked_memory, between calls. *)
Clear ==
    /\ stack = <<>> /\ chain # <<>>
    /\ blocks' = [b \in 1..MaxBlocks |-> IF InChain(chain, b) THEN NoSuchBlock ELSE blocks[b]]
    /\ chain' = <<>> /\ canRelease' = FALSE
    /\ arrays' = <<>> /\ held' = <<>> /\ bytes' = <<>>
    /\ UNCHANGED stack

-----------------------------------------------------------------------------
(* uninitialized_array_gt.  An element fills all of its bytes. *)

Written(mem, a, i, val) ==
    [x \in DOMAIN mem \cup {<<a.block, a.at + (i - 1) * a.size + o>> : o \in 0..a.size - 1} |->
        IF x[1] = a.block /\ x[2] - a.at \in (i - 1) * a.size..i * a.size - 1
        THEN val ELSE mem[x]]
(* Bytes of no array are forgotten: nobody reads them. *)
Live(mem, as) ==
    LET used == {x \in DOMAIN mem : \E n \in 1..Len(as) :
                   /\ as[n].block = x[1]
                   /\ x[2] - as[n].at \in 0..as[n].length * as[n].size - 1}
    IN  [x \in used |-> mem[x]]
WrittenAll(mem, a, vals) ==
    FoldLeft(LAMBDA ms, i : Written(ms, a, i, vals[i]), mem, [i \in 1..Len(vals) |-> i])
ReadAt(mem, a, i) ==
    LET x == <<a.block, a.at + (i - 1) * a.size>>
    IN  IF x \in DOMAIN mem THEN mem[x] ELSE 0

(* linked_memory_lock_t::grow, or alloc for an array without memory: the   *)
(* array with the new capacity and the memory it has copied itself to.     *)
Grow(a, cap) ==
    LET room == Alloc(a.size * cap, a.size)
        moved == [a EXCEPT !.block = room.block, !.at = room.at, !.cap = cap]
        old == [i \in 1..a.length |-> ReadAt(bytes, a, i)]
        more == a.size * (cap - a.cap)
    IN  IF a.cap > 0 /\ CanExtend(a.block, a.at + a.size * a.cap, more)
        THEN [array |-> [a EXCEPT !.cap = cap], bytes |-> bytes, chain |-> chain,
              blocks |-> AllocInternally(blocks, a.block, more, a.size)]
        ELSE [array |-> moved, bytes |-> WrittenAll(bytes, moved, old), chain |-> room.chain,
              blocks |-> room.blocks]

Kept(a) == [array |-> a, bytes |-> bytes, chain |-> chain, blocks |-> blocks]

(* reserve and resize round up, insert does not. *)
Reserved(a, length) == IF length <= a.cap THEN Kept(a) ELSE Grow(a, NextPowerOfTwo(length))
Exactly(a, length) == IF length <= a.cap THEN Kept(a) ELSE Grow(a, length)

(* resize, and the caller fills what is new. *)
Resize(n, length, val) ==
    LET a == arrays[n]
        room == Reserved(a, length)
        now == [i \in 1..length |-> IF i <= a.length THEN ReadAt(room.bytes, room.array, i) ELSE val]
    IN  /\ stack # <<>> /\ Mine(n) /\ length # a.length
        /\ room.array.block # NoBlock
        /\ arrays' = [arrays EXCEPT ![n] = [room.array EXCEPT !.length = length]]
        /\ bytes' = Live(WrittenAll(room.bytes, room.array, now), arrays')
        /\ blocks' = room.blocks /\ chain' = room.chain
        /\ held' = [held EXCEPT ![n] = [i \in 1..length |-> IF i <= Len(@) THEN @[i] ELSE val]]
        /\ UNCHANGED <<canRelease, stack>>

Construct(size, length) ==
    LET a == [depth |-> Len(stack), size |-> size, block |-> NoBlock, at |-> 0,
              length |-> 0, cap |-> 0]
        room == IF length = 0 THEN Kept(a) ELSE Grow(a, length)
        vals == [i \in 1..length |-> 1]
    IN  /\ stack # <<>> /\ Len(arrays) < MaxArrays
        /\ length > 0 => room.array.block # NoBlock
        /\ arrays' = Append(arrays, [room.array EXCEPT !.length = length])
        /\ bytes' = Live(WrittenAll(room.bytes, room.array, vals), arrays')
        /\ blocks' = room.blocks /\ chain' = room.chain
        /\ held' = Append(held, vals)
        /\ UNCHANGED <<canRelease, stack>>

PushBack(n, val) ==
    LET length == arrays[n].length + 1
        room == Reserved(arrays[n], length)
    IN  /\ stack # <<>> /\ Mine(n) /\ length <= MaxLength
        /\ room.array.block # NoBlock
        /\ arrays' = [arrays EXCEPT ![n] = [room.array EXCEPT !.length = length]]
        /\ bytes' = Live(Written(room.bytes, room.array, length, val), arrays')
        /\ blocks' = room.blocks /\ chain' = room.chain
        /\ held' = [held EXCEPT ![n] = Append(@, val)]
        /\ UNCHANGED <<canRelease, stack>>

(* The elements after memmove and memcpy. *)
Inserted(vals, offset, val) ==
    SubSeq(vals, 1, offset) \o <<val>> \o SubSeq(vals, offset + 1, Len(vals))

Insert(n, offset, val) ==
    LET length == arrays[n].length + 1
        room == Exactly(arrays[n], length)
        now == [i \in 1..length - 1 |-> ReadAt(room.bytes, room.array, i)]
    IN  /\ stack # <<>> /\ Mine(n) /\ length <= MaxLength /\ offset < length
        /\ room.array.block # NoBlock
        /\ arrays' = [arrays EXCEPT ![n] = [room.array EXCEPT !.length = length]]
        /\ bytes' = Live(WrittenAll(room.bytes, room.array, Inserted(now, offset, val)), arrays')
        /\ blocks' = room.blocks /\ chain' = room.chain
        /\ held' = [held EXCEPT ![n] = SubSeq(@, 1, offset) \o <<val>> \o SubSeq(@, offset + 1, Len(@))]
        /\ UNCHANGED <<canRelease, stack>>

-----------------------------------------------------------------------------
(* growing_tape_t: three arrays that grow together.  What clear leaves in  *)
(* the memory of offsets_ is seen again by resize, and overwritten.        *)

Absent == <<"absent">>
Bytes(value) == IF value = Absent THEN <<>> ELSE value
EmptyTape == [lengths |-> <<>>, offsets |-> <<>>, contents |-> <<>>]

(* offsets_ has one more element than lengths_. *)
TapeOffsets(t, length) ==
    SubSeq(t.offsets, 1, Len(t.lengths)) \o <<Len(t.contents), Len(t.contents) + length>>

TapePush(value) ==
    /\ Len(tape.lengths) < MaxTape
    /\ tape' = [lengths |-> Append(tape.lengths, IF value = Absent THEN -1 ELSE Len(value)),
                offsets |-> TapeOffsets(tape, Len(Bytes(value))),
                contents |-> tape.contents \o Bytes(value)]
    /\ pushed' = Append(pushed, value)

TapeTerminate ==
    LET n == Len(tape.lengths)
    IN  /\ n > 0 /\ tape.offsets[n + 1] - tape.offsets[n] = Len(Bytes(pushed[n]))
        /\ tape' = [tape EXCEPT !.contents = Append(@, "0"), !.offsets[n + 1] = @ + 1]
        /\ UNCHANGED pushed

TapeClear == tape' = EmptyTape /\ pushed' = <<>>

TapeInit == tape = EmptyTape /\ pushed = <<>>
TapeNext ==
    \/ \E value \in {<<>>, <<"x", "y">>, Absent} : TapePush(value)
    \/ TapeTerminate \/ TapeClear

-----------------------------------------------------------------------------
ArenaInit ==
    /\ blocks = [b \in 1..MaxBlocks |-> NoSuchBlock] /\ chain = <<>> /\ canRelease = FALSE
    /\ stack = <<>> /\ arrays = <<>> /\ bytes = <<>> /\ held = <<>>

ArenaNext ==
    \/ \E k \in Kinds, keep \in BOOLEAN : Enter(k, keep)
    \/ Leave \/ Clear
    \/ \E s \in ElementSizes, l \in {0, 2} : Construct(s, l)
    \/ \E n \in 1..Len(arrays) : PushBack(n, n)
    \/ \E n \in 1..Len(arrays), front \in BOOLEAN :
          Insert(n, IF front THEN 0 ELSE arrays[n].length, MaxArrays + n)
    \/ \E n \in 1..Len(arrays), l \in {1, MaxLength} : Resize(n, l, n)

-----------------------------------------------------------------------------
(* Whatever calls nest, grow, move and discard, every array that is still  *)
(* in use lies in memory that is still allocated and holds what was put    *)
(* into it (uninitialized_array_gt over linked_memory_lock_t).             *)
ArraysIntact ==
    \A n \in 1..Len(arrays) :
        /\ arrays[n].length = Len(held[n]) /\ arrays[n].length <= arrays[n].cap
        /\ arrays[n].cap > 0 =>
             /\ Allocated(arrays[n].block)
             /\ arrays[n].at + arrays[n].cap * arrays[n].size <= blocks[arrays[n].block].capacity
        /\ \A i \in 1..arrays[n].length : ReadAt(bytes, arrays[n], i) = held[n][i]

(* The blocks of the chain are allocated and all of one kind, and the      *)
(* right to discard is held by exactly one call, the outermost, or by none *)
(* when there is no call: it is neither lost nor given twice (lock and     *)
(* unlock_release_calls).                                                  *)
OneOwner ==
    /\ \A i \in 1..Len(chain) :
         Allocated(chain[i]) /\ blocks[chain[i]].kind = blocks[chain[1]].kind
    /\ canRelease = (stack = <<>> /\ chain # <<>>)
    /\ \A i \in 1..Len(stack) : stack[i].owns = (i = 1)

(* Every value on a tape is where its offset says, its offsets delimit it  *)
(* together with its terminator, and the one offset more is the length of  *)
(* the contents, whatever was pushed, terminated and cleared before        *)
(* (growing_tape_t::push_back, add_terminator and clear).                  *)
TapeDelimits ==
    LET n == Len(tape.lengths)
    IN  n > 0 =>
          /\ Len(tape.offsets) = n + 1
          /\ tape.offsets[n + 1] = Len(tape.contents)
          /\ \A i \in 1..n :
               LET value == Bytes(pushed[i])
                   from == tape.offsets[i]
               IN  /\ SubSeq(tape.contents, from + 1, from + Len(value)) = value
                   /\ tape.offsets[i + 1] - from \in {Len(value), Len(value) + 1}
                   /\ tape.lengths[i] = (IF pushed[i] = Absent THEN -1 ELSE Len(value))

(* Memory that calls work in keeps what they put there, as long as the     *)
(* outermost of them needs it.                                             *)
MemoryIntact == ArraysIntact /\ OneOwner /\ TapeDelimits
=============================================================================
