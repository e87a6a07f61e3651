---------------------------- MODULE GuestMemory ----------------------------
(***************************************************************************)
(* Who hands out memory to a guest in a page: the heap of the reactor the  *)
(* guest is linked with (bindings/c/wapi_reactor.c), the page's allocator  *)
(* for its vtables and strings, and for guests without the reactor,        *)
(* wasm_alloc for whole pages, all three in the guest's one linear memory; *)
(* and the pool that modules share (wapi_shim.js).  None gives anything    *)
(* back: each moves a pointer up.                                          *)
(*                                                                         *)
(* Addresses and sizes count words of 8 bytes, to which the heap rounds    *)
(* its headers up.  Alignments are powers of two.  Sizes that wrap the     *)
(* 32-bit pointer are not asked for.  Owners write a block at once.        *)
(***************************************************************************)
EXTENDS Integers, SequencesExt

CONSTANTS HeapBase,   \* __heap_base: below are the guest's data and stack
          Bases,      \* where the page may begin: HeapBase if it is exported, or 1 MB
          PageWords,  \* words of a page of linear memory
          MaxPages,   \* the pages that memory can grow to
          PoolWords,  \* words of _sharedMem
          Size, Align, \* what is asked for
          MemPlans    \* bound: how often each kind of call is made

MemCall == {"heap", "page", "regrow", "pages", "pool"}

ASSUME MemoryAssumption ==
    /\ HeapBase \in Nat \ {0} /\ Bases \subseteq Nat \ {0}
    /\ PageWords \in Nat \ {0} /\ MaxPages \in Nat /\ HeapBase <= PageWords * MaxPages
    /\ PoolWords \in Nat \ {0, 1} /\ Size \subseteq Nat \ {0} /\ Align \subseteq Nat \ {0}
    /\ MemPlans \subseteq [MemCall -> Nat]

VARIABLES memPlan,  \* calls that may still be made
          words,    \* the size of linear memory
          top, end, \* g_heap_top, 0 before the first call, and g_heap_end
          base, ptr, \* _allocBase, _allocPtr
          bump,     \* _sharedBump
          mem,      \* the words of linear memory
          shared,   \* the words of _sharedMem
          blocks    \* every block there has been

memVars == <<memPlan, words, top, end, base, ptr, bump, mem, shared, blocks>>

-----------------------------------------------------------------------------
(* from: the allocator; lo: where the block begins, its header included;   *)
(* at, size: what the owner has; holds: what the owner wrote; misread: made*)
(* by a realloc that took another word for the old size.                   *)
Block(from, lo, at, holds, misread) ==
    [from |-> from, lo |-> lo, at |-> at, size |-> Len(holds), holds |-> holds,
     live |-> TRUE, misread |-> misread]

Words(n)  == 0 .. n - 1
AlignUp(v, a) == v + ((a - (v % a)) % a)
Tag       == 100 + Len(blocks)
Fill(n)   == [i \in 1 .. n |-> Tag]
Put(m, a, s) == [w \in DOMAIN m |-> IF w \in a .. a + Len(s) - 1 THEN s[w - a + 1] ELSE m[w]]

(* What the owner has after a realloc: the old words, then its own.        *)
Regrown(old, n) == [i \in 1 .. n |-> IF i <= old.size THEN old.holds[i] ELSE Tag]

(* The words that copying n of the old block leaves in the new one at a,   *)
(* those that the owner then writes included.                              *)
Copied(m, old, n, a, size) ==
    [i \in 1 .. size |-> IF i > old.size THEN Tag ELSE IF i <= n THEN m[old.at + i - 1]
                         ELSE m[a + i - 1]]

Drops(b)  == [blocks EXCEPT ![b].live = FALSE]
IsBlock(b, from) == b \in DOMAIN blocks /\ blocks[b].live /\ blocks[b].from = from
Uses1(kind) == memPlan[kind] > 0 /\ memPlan' = [memPlan EXCEPT ![kind] = @ - 1]

MemInit ==
    /\ memPlan \in MemPlans /\ base \in Bases /\ ptr = base
    /\ words = AlignUp(HeapBase, PageWords)
    /\ top = 0 /\ end = 0 /\ bump = 2
    /\ mem = [w \in Words(PageWords * MaxPages) |-> IF w < HeapBase THEN 100 ELSE 0]
    /\ shared = [w \in Words(PoolWords) |-> 0]
    /\ blocks = <<[from |-> "data", lo |-> 0, at |-> 0, size |-> HeapBase, live |-> TRUE,
                   holds |-> [i \in 1 .. HeapBase |-> 100], misread |-> FALSE]>>

(* memory.grow by the pages that from limit upwards lack to reach upto.    *)
Grown(limit, upto) == words + AlignUp(upto - limit, PageWords)
CanGrow(limit, upto) == upto > limit => Grown(limit, upto) <= PageWords * MaxPages
Grow(limit, upto) == words' = IF upto > limit THEN Grown(limit, upto) ELSE words

-----------------------------------------------------------------------------
(* The reactor's heap.                                                     *)

HeapTop == IF top = 0 THEN HeapBase ELSE top
HeapEnd == IF top = 0 THEN words ELSE end
HeaderSize == 2

(* The header, size and alignment, is at the top; the block after it, at   *)
(* its alignment.                                                          *)
DataAt(a) == AlignUp(HeapTop + HeaderSize, a)

(* Mutant: the padding of an aligned block is not counted.                 *)
Bumps_unpadded(size, a) ==
    /\ CanGrow(HeapEnd, DataAt(a) + size) /\ Grow(HeapEnd, DataAt(a) + size)
    /\ top' = HeapTop + HeaderSize + size
    /\ end' = IF DataAt(a) + size > HeapEnd THEN words' ELSE HeapEnd

Bumps(size, a) ==
    /\ CanGrow(HeapEnd, DataAt(a) + size) /\ Grow(HeapEnd, DataAt(a) + size)
    /\ top' = DataAt(a) + size
    /\ end' = IF DataAt(a) + size > HeapEnd THEN words' ELSE HeapEnd

BumpAlloc(size, a) ==
    /\ Uses1("heap") /\ Bumps(size, a)
    /\ mem' = Put(Put(mem, HeapTop, <<size, a>>), DataAt(a), Fill(size))
    /\ blocks' = Append(blocks, Block("heap", HeapTop, DataAt(a), Fill(size), FALSE))
    /\ UNCHANGED <<base, ptr, bump, shared>>

(* bump_realloc takes the word HeaderSize before the block for its size.   *)
Padded(b) == b.at # b.lo + HeaderSize

BumpRealloc(b, size, a) ==
    LET old    == blocks[b]
        read   == mem[old.at - HeaderSize]
        headed == Put(mem, HeapTop, <<size, a>>)
        copied == Copied(headed, old, IF read < size THEN read ELSE size, DataAt(a), size)
    IN  /\ Uses1("heap") /\ IsBlock(b, "heap") /\ Bumps(size, a)
        /\ mem' = Put(headed, DataAt(a), copied)
        /\ blocks' = Append(Drops(b), Block("heap", HeapTop, DataAt(a), Regrown(old, size),
                                            old.misread \/ (read # old.size /\ Padded(old))))
        /\ UNCHANGED <<base, ptr, bump, shared>>

(* bump_free keeps everything.                                             *)
BumpFree(b) ==
    /\ IsBlock(b, "heap") /\ blocks' = Drops(b)
    /\ UNCHANGED <<memPlan, words, top, end, base, ptr, bump, mem, shared>>

(* memory.grow refuses: nothing, except that the heap is set up.           *)
BumpRefused(size, a) ==
    /\ memPlan["heap"] > 0 /\ ~CanGrow(HeapEnd, DataAt(a) + size)
    /\ top' = HeapTop /\ end' = HeapEnd
    /\ UNCHANGED <<memPlan, words, base, ptr, bump, mem, shared, blocks>>

HeapStep ==
    \E size \in Size, a \in Align :
      \/ BumpAlloc(size, a) \/ BumpRefused(size, a)
      \/ \E b \in DOMAIN blocks : BumpRealloc(b, size, a) \/ BumpFree(b)

-----------------------------------------------------------------------------
(* The page's allocator.  A refused memory.grow throws and changes nothing.*)

HostAt(a) == AlignUp(ptr, a)

HostBumps(size, a) ==
    /\ CanGrow(words, HostAt(a) + size) /\ Grow(words, HostAt(a) + size)
    /\ ptr' = HostAt(a) + size

HostAlloc(size, a) ==
    /\ Uses1("page") /\ HostBumps(size, a)
    /\ mem' = Put(mem, HostAt(a), Fill(size))
    /\ blocks' = Append(blocks, Block("page", HostAt(a), HostAt(a), Fill(size), FALSE))
    /\ UNCHANGED <<top, end, base, bump, shared>>

(* realloc copies as many words as the new block has, and what follows the *)
(* old one with them; free keeps everything.                               *)
HostRealloc(b, size, a) ==
    LET old == blocks[b]
    IN  /\ Uses1("regrow") /\ IsBlock(b, "page") /\ HostBumps(size, a)
        /\ mem' = Put(mem, HostAt(a), Copied(mem, old, size, HostAt(a), size))
        /\ blocks' = Append(Drops(b), Block("page", HostAt(a), HostAt(a), Regrown(old, size), FALSE))
        /\ UNCHANGED <<top, end, base, bump, shared>>

(* wasm_alloc: new pages at the end of memory.                             *)
WasmAlloc(size) ==
    /\ Uses1("pages") /\ words + AlignUp(size, PageWords) <= PageWords * MaxPages
    /\ words' = words + AlignUp(size, PageWords)
    /\ mem' = Put(mem, words, Fill(size))
    /\ blocks' = Append(blocks, Block("pages", words, words, Fill(size), FALSE))
    /\ UNCHANGED <<top, end, base, ptr, bump, shared>>

PageMemStep ==
    \E size \in Size :
      \/ WasmAlloc(size)
      \/ \E a \in Align : HostAlloc(size, a) \/ \E b \in DOMAIN blocks : HostRealloc(b, size, a)

-----------------------------------------------------------------------------
(* The pool of shared memory; _sharedAllocs: the live blocks of it.        *)

PoolAt(a) == AlignUp(bump, a)
PoolBumps(size, a) == PoolAt(a) + size <= PoolWords /\ bump' = PoolAt(a) + size

SharedAlloc(size, a) ==
    /\ Uses1("pool") /\ PoolBumps(size, a)
    /\ shared' = Put(shared, PoolAt(a), Fill(size))
    /\ blocks' = Append(blocks, Block("pool", PoolAt(a), PoolAt(a), Fill(size), FALSE))
    /\ UNCHANGED <<words, top, end, base, ptr, mem>>

SharedFree(b) ==
    /\ IsBlock(b, "pool") /\ blocks' = Drops(b)
    /\ UNCHANGED <<memPlan, words, top, end, base, ptr, bump, mem, shared>>

(* A smaller size leaves the block as it is.                               *)
SharedRealloc(b, size, a) ==
    LET old == blocks[b]
    IN  /\ Uses1("pool") /\ IsBlock(b, "pool") /\ size > old.size /\ PoolBumps(size, a)
        /\ shared' = Put(shared, PoolAt(a), Copied(shared, old, old.size, PoolAt(a), size))
        /\ blocks' = Append(Drops(b), Block("pool", PoolAt(a), PoolAt(a), Regrown(old, size), FALSE))
        /\ UNCHANGED <<words, top, end, base, ptr, mem>>

PoolStep ==
    \E b \in DOMAIN blocks \cup {0} :
      \/ SharedFree(b)
      \/ \E size \in Size, a \in Align : IF b = 0 THEN SharedAlloc(size, a)
                                                  ELSE SharedRealloc(b, size, a)

MemStep == HeapStep \/ PageMemStep \/ PoolStep

MemSpec == MemInit /\ [][MemStep]_memVars

-----------------------------------------------------------------------------
(* Properties.                                                             *)

MemTypeOK ==
    /\ words \in 0 .. PageWords * MaxPages /\ words % PageWords = 0
    /\ top \in 0 .. words /\ end \in 0 .. words /\ base \in Bases /\ ptr >= base
    /\ DOMAIN mem = Words(PageWords * MaxPages) /\ bump \in 2 .. PoolWords
    /\ memPlan \in [MemCall -> Nat]

Room(b) == b.lo .. b.at + b.size - 1
Limit(b) == IF b.from = "pool" THEN PoolWords ELSE words
SameSpace(b, c) == (b.from = "pool") = (c.from = "pool")

(* The heap, the page's allocator and wasm_alloc know nothing of each      *)
(* other: the page is given the top of the data and stack only by modules  *)
(* that export it, and stays where it began.                               *)
Trespassed ==
    \/ ptr > base /\ (base < HeapBase \/ top > base)
    \/ \E b \in Range(blocks) : b.from = "pages" /\ (top > b.lo \/ ptr > b.lo)

(* No block is handed out over another, or past the memory's end.  Those   *)
(* of one allocator never share a word, its headers included; those of     *)
(* different ones not either, as long as none has run into the other's     *)
(* ground.  Until then a live block holds what its owner wrote, through    *)
(* growth and realloc -- unless a realloc of the heap read the padding     *)
(* before an aligned block for its header.  A block of the least alignment *)
(* never has any (bindings/c/wapi_reactor.c:150-224,                       *)
(* runtime/browser/wapi_shim.js:1046-1108, 1341-1354, 5934-5954).          *)
BlocksApart ==
    /\ \A i, j \in DOMAIN blocks :
         LET b == blocks[i] c == blocks[j]
         IN  /\ Room(b) \subseteq Words(Limit(b))
             /\ i < j /\ SameSpace(b, c) /\ (b.from = c.from \/ ~Trespassed) =>
                  Room(b) \cap Room(c) = {}
    /\ ~Trespassed => \A b \in Range(blocks) :
         LET space == IF b.from = "pool" THEN shared ELSE mem
         IN  /\ b.live /\ ~b.misread => \A i \in 1 .. b.size : space[b.at + i - 1] = b.holds[i]
             /\ b.from = "heap" /\ ~Padded(b) => mem[b.lo] = b.size
=============================================================================
