-------------------------------- MODULE Heap --------------------------------
(***************************************************************************)
(* The kernel heap of src/mm.c: kmalloc and kfree over a bitmap of fixed   *)
(* size blocks.  Every allocation is a run of blocks whose first block is  *)
(* a header that records the length of the run; kfree trusts that header.  *)
(*                                                                         *)
(* kmalloc's search is modelled one loop iteration per step, with the C    *)
(* locals i, contiguous_found and start_bit as variables, so that the      *)
(* loop's own invariant can be stated.  The heap has one caller, kmain:    *)
(* no interrupt handler allocates, so a caller acts only between calls.    *)
(*                                                                         *)
(* The kernel owns only the first bits of the bitmap: heap_bitmap_pointer  *)
(* allocates one page for it, and pmm_alloc2 hands out the pages behind as *)
(* page tables and heap pages before the first call.  The bits there are   *)
(* whatever those pages hold, and change with them.  Where kmalloc sets    *)
(* such bits, or a caller leaves the blocks it was given, the kernel has   *)
(* written memory that is not the heap's: it is astray, and the model      *)
(* stops.  A page fault never returns: vector 14's handler spins forever.  *)
(***************************************************************************)
EXTENDS Integers, FiniteSets

CONSTANTS
  BLOCK_SIZE,        (* bytes in a block (16 in mm.h)                      *)
  HEAP_MAX_BLOCKS,   (* bits of the heap bitmap (8192 * 64 in mm.h)        *)
  OwnedBlocks,       (* bits in the page allocated for them (4096 * 8)     *)
  MappedBlocks,      (* blocks kmain put pages behind (2 MiB worth)        *)
  SIZE_MOD,          (* size_t arithmetic is modulo this (2^64)            *)
  Amounts,           (* sizes callers ask for                              *)
  Junk,              (* values callers store in their payload              *)
  NULL

ASSUME HeapAssumption ==
  /\ BLOCK_SIZE \in Nat \ {0}
  /\ HEAP_MAX_BLOCKS \in Nat \ {0}
  /\ MappedBlocks \in 1 .. HEAP_MAX_BLOCKS
  /\ OwnedBlocks \in 1 .. MappedBlocks
  /\ SIZE_MOD \in Nat \ {0}
  /\ BLOCK_SIZE <= SIZE_MOD
  /\ Amounts \subseteq 0 .. (SIZE_MOD - 1)
  /\ Junk \subseteq Nat
  /\ NULL \notin Nat

VARIABLES
  heap_bitmap,       (* the blocks whose bit is set                        *)
  mem,               (* the first 8 bytes of every block                   *)
  live,              (* what the caller holds: allocations not yet freed   *)
  pc,                (* "idle", "scan" inside kmalloc; "fault" or "astray" *)
  amount,            (* kmalloc's argument and locals                      *)
  blocks,
  i,
  contiguous_found,
  start_bit,
  ret                (* block kmalloc's result points to, or NULL          *)

locals == <<amount, blocks, i, contiguous_found, start_bit>>
vars == <<heap_bitmap, mem, live, pc, locals, ret>>

Blocks == 0 .. (HEAP_MAX_BLOCKS - 1)

(* The blocks whose bits are the heap's own, and the others.               *)
Owned == 0 .. (OwnedBlocks - 1)
Foreign == Blocks \ Owned

(* The n blocks from s on, the ones a loop over k < n visits.              *)
Run(s, n) == s .. (s + n - 1)

(* kmalloc's block count: the payload rounded up, plus the header.  The    *)
(* sum is taken in size_t and wraps.                                       *)
BlocksForNoHeader(size) == ((size + BLOCK_SIZE - 1) % SIZE_MOD) \div BLOCK_SIZE
BlocksForRoundTooFar(size) == (((size + BLOCK_SIZE) % SIZE_MOD) \div BLOCK_SIZE) + 1
BlocksFor(size) == (((size + BLOCK_SIZE - 1) % SIZE_MOD) \div BLOCK_SIZE) + 1

(* So a size this large gets one block, for the header, and no room.       *)
Wraps(size) == size + BLOCK_SIZE - 1 >= SIZE_MOD

(* The blocks of an allocation, and those its caller may write: byte o of  *)
(* the payload lies in block at + 1 + o \div BLOCK_SIZE.                   *)
Extent(a) == Run(a.at, a.blocks)
PayloadBlock(a, o) == a.at + 1 + (o \div BLOCK_SIZE)

(* C locals outside a call: they have gone, and read as zero.              *)
LocalsGone ==
  amount' = 0 /\ blocks' = 0 /\ i' = 0 /\ contiguous_found' = 0 /\ start_bit' = 0

(* The memset cleared every bit, but main.c:119-124 comes before a call.   *)
Init ==
  /\ heap_bitmap \in SUBSET Foreign
  /\ mem = [b \in Blocks |-> 0]
  /\ live = {}
  /\ pc = "idle"
  /\ amount = 0 /\ blocks = 0 /\ i = 0 /\ contiguous_found = 0 /\ start_bit = 0
  /\ ret = NULL

-----------------------------------------------------------------------------
(* kmalloc *)

Kmalloc(size) ==
  /\ pc = "idle"
  /\ pc' = "scan"
  /\ amount' = size
  /\ blocks' = BlocksFor(size)
  /\ i' = 0 /\ contiguous_found' = 0 /\ start_bit' = 0
  /\ UNCHANGED <<heap_bitmap, mem, live, ret>>

(* start_bit once the iteration has looked at a free block i.              *)
RunStartLast == i
RunStart == IF contiguous_found = 0 THEN i ELSE start_bit

AtFreeBlockPastEnd == pc = "scan" /\ i <= HEAP_MAX_BLOCKS /\ i \notin heap_bitmap
AtFreeBlock == pc = "scan" /\ i < HEAP_MAX_BLOCKS /\ i \notin heap_bitmap

(* The loop's i++.                                                         *)
NextBlockStuck == i
NextBlock == i + 1

(* The run so far is still too short.                                      *)
ScanFree ==
  /\ AtFreeBlock
  /\ contiguous_found + 1 # blocks
  /\ start_bit' = RunStart
  /\ contiguous_found' = contiguous_found + 1
  /\ i' = NextBlock
  /\ UNCHANGED <<heap_bitmap, mem, live, pc, amount, blocks, ret>>

(* The count after a used block: the search starts over.                   *)
CountAfterUsed == 0

ScanUsed ==
  /\ pc = "scan" /\ i < HEAP_MAX_BLOCKS /\ i \in heap_bitmap
  /\ contiguous_found' = CountAfterUsed
  /\ i' = NextBlock
  /\ UNCHANGED <<heap_bitmap, mem, live, pc, amount, blocks, start_bit, ret>>

(* Every bit of the run is set before the header is written.               *)
LockRun == heap_bitmap \cup Run(RunStart, blocks)

Found == AtFreeBlock /\ contiguous_found + 1 = blocks

KmallocReturn ==
  /\ Found
  /\ Run(RunStart, blocks) \subseteq Owned
  /\ heap_bitmap' = LockRun
  /\ mem' = [mem EXCEPT ![RunStart] = blocks]
  /\ live' = live \cup {[at |-> RunStart, blocks |-> blocks, size |-> amount]}
  /\ ret' = RunStart + 1
  /\ pc' = "idle"
  /\ LocalsGone

(* The bits of the run lie, at least in part, in somebody's page.          *)
KmallocAstray ==
  /\ Found
  /\ ~(Run(RunStart, blocks) \subseteq Owned)
  /\ RunStart < MappedBlocks
  /\ heap_bitmap' = LockRun
  /\ pc' = "astray"
  /\ LocalsGone
  /\ UNCHANGED <<mem, live, ret>>

(* The header, too, lies in a page kmain never mapped.                     *)
KmallocFault ==
  /\ Found
  /\ RunStart >= MappedBlocks
  /\ heap_bitmap' = LockRun
  /\ pc' = "fault"
  /\ LocalsGone
  /\ UNCHANGED <<mem, live, ret>>

KmallocNull ==
  /\ pc = "scan" /\ i = HEAP_MAX_BLOCKS
  /\ ret' = NULL
  /\ pc' = "idle"
  /\ LocalsGone
  /\ UNCHANGED <<heap_bitmap, mem, live>>

-----------------------------------------------------------------------------
(* kfree, and the caller.  The caller frees what it holds, once, and       *)
(* writes only the bytes it asked for.  kfree(NULL) changes nothing.       *)

(* The blocks kfree clears: as many as the header says.                    *)
FreedAllButHeader(a) == Run(a.at + 1, mem[a.at] - 1)
Freed(a) == Run(a.at, mem[a.at])

Kfree(a) ==
  /\ pc = "idle"
  /\ heap_bitmap' = heap_bitmap \ Freed(a)
  /\ live' = live \ {a}
  /\ UNCHANGED <<mem, pc, locals, ret>>

CallerWrite(a, o, v) ==
  /\ pc = "idle"
  /\ Wraps(a.size) => PayloadBlock(a, o) \in Extent(a)
  /\ mem' = [mem EXCEPT ![PayloadBlock(a, o)] = v]
  /\ UNCHANGED <<heap_bitmap, live, pc, locals, ret>>

(* The caller has no reason to doubt that a huge request was met.          *)
CallerAstray(a, o) ==
  /\ pc = "idle"
  /\ Wraps(a.size) /\ PayloadBlock(a, o) \notin Extent(a)
  /\ pc' = "astray"
  /\ UNCHANGED <<heap_bitmap, mem, live, locals, ret>>

Running == pc \in {"idle", "scan"}

(* Whoever owns the pages behind the first writes them, and the processor  *)
(* sets accessed and dirty bits in a page table, even in mid-search.       *)
OthersWrite ==
  /\ Running
  /\ \E bits \in SUBSET Foreign : heap_bitmap' = (heap_bitmap \cap Owned) \cup bits
  /\ UNCHANGED <<mem, live, pc, locals, ret>>

(* The page fault handler's for(;;), or nothing more to say.               *)
Halted == ~Running /\ UNCHANGED vars

Search ==
  ScanFree \/ ScanUsed \/ KmallocReturn \/ KmallocAstray \/ KmallocFault \/ KmallocNull

Caller ==
  \/ \E size \in Amounts : Kmalloc(size)
  \/ \E a \in live :
       \/ Kfree(a)
       \/ \E o \in 0 .. (a.size - 1) :
            \/ \E v \in Junk : CallerWrite(a, o, v)
            \/ CallerAstray(a, o)

Next == Search \/ Caller \/ OthersWrite \/ Halted

Spec == Init /\ [][Next]_vars

(* Only the loop is fair: nothing obliges the caller to act.               *)
FairSpec == Spec /\ WF_vars(Search)

-----------------------------------------------------------------------------
(* Properties *)

Allocation == [at : Blocks, blocks : 1 .. HEAP_MAX_BLOCKS, size : Amounts]

TypeOK ==
  /\ heap_bitmap \subseteq Blocks
  /\ mem \in [Blocks -> Nat]
  /\ live \subseteq Allocation
  /\ \A a \in live : a.at + a.blocks <= OwnedBlocks
  /\ pc \in {"idle", "scan", "fault", "astray"}
  /\ amount \in Amounts \cup {0}
  /\ blocks \in Nat
  /\ i \in 0 .. HEAP_MAX_BLOCKS
  /\ contiguous_found \in 0 .. HEAP_MAX_BLOCKS
  /\ start_bit \in 0 .. HEAP_MAX_BLOCKS
  /\ ret \in (1 .. HEAP_MAX_BLOCKS) \cup {NULL}

(* No block belongs to two allocations the caller holds: kmalloc never     *)
(* answers two live requests with overlapping runs, however the calls to   *)
(* kmalloc and kfree and the caller's writes are interleaved.              *)
Disjoint ==
  \A a, b \in live : a # b => Extent(a) \cap Extent(b) = {}

(* The bitmap and the callers agree: one of the heap's own bits is set     *)
(* exactly when its block is part of a live allocation, so kfree leaks no  *)
(* block (not even the header's), and clears none of another allocation.   *)
Accounting ==
  Running => heap_bitmap \cap Owned = UNION {Extent(a) : a \in live}

(* Nothing a caller may legally write reaches a header, so kfree reads     *)
(* back the length kmalloc stored, after any sequence of calls and writes. *)
HeaderIntact ==
  Running => \A a \in live : mem[a.at] = a.blocks

(* The run kmalloc returns holds every byte that was asked for: the loop's *)
(* comment (mm.c:165) says the "list is big enough".  A size that wraps    *)
(* gets a header and no room.                                              *)
BigEnough ==
  \A a \in live :
    IF Wraps(a.size) THEN a.blocks = 1 ELSE (a.blocks - 1) * BLOCK_SIZE >= a.size

FreeRun(s, n) == Run(s, n) \cap heap_bitmap \cap Owned = {}

(* The search loop's invariant: the contiguous_found blocks before i are   *)
(* free and begin at start_bit, a used block (or block 0) precedes them,   *)
(* and no free run of the wanted length ends before i.  It can speak only  *)
(* of the heap's own bits: the others may have changed since.              *)
LoopInvariant ==
  pc = "scan" =>
    /\ amount \in Amounts /\ blocks = BlocksFor(amount)
    /\ contiguous_found < blocks /\ contiguous_found <= i
    /\ contiguous_found > 0 => start_bit = i - contiguous_found
    /\ FreeRun(i - contiguous_found, contiguous_found)
    /\ \/ i = contiguous_found
       \/ i - contiguous_found - 1 \in heap_bitmap \cup Foreign
    /\ \A s \in 0 .. (i - blocks) : s + blocks <= OwnedBlocks => ~FreeRun(s, blocks)

(* kmalloc is first fit: no run of the same length that starts lower was   *)
(* free when the answer was given.  The reset of contiguous_found and the  *)
(* recording of start_bit have to agree over the whole scan for this.      *)
FirstFit ==
  [][\A a \in live' \ live : \A s \in 0 .. (a.at - 1) : ~FreeRun(s, a.blocks)]_vars

(* Every call of kmalloc comes to an end: it returns, or the kernel faults *)
(* or goes astray.                                                         *)
KmallocEnds == pc = "scan" ~> pc # "scan"

(* The heap as its callers see it: this bitmap allocator implements        *)
(* HeapSpec with the blocks it has bits of its own for.  In particular     *)
(* kmalloc answers NULL, or a run beyond them, only when no run of free    *)
(* blocks among them is long enough.                                       *)
Promise == INSTANCE HeapSpec WITH
  Wrapping <- {size \in Amounts : Wraps(size)},
  want <- IF pc = "scan" THEN amount ELSE NULL,
  halted <- ~Running

ImplementsHeapSpec == Promise!Spec
=============================================================================
