----------------------------- MODULE HeapProofs -----------------------------
(***************************************************************************)
(* Proofs about the kernel heap, for every size of the heap, of the part   *)
(* of its bitmap it owns and of the part kmain mapped, every block size,   *)
(* word width and set of requests, those whose rounding wraps included.    *)
(***************************************************************************)
EXTENDS Heap, TLAPS

-----------------------------------------------------------------------------
(* Division *)

(* Rounding up never rounds below, and is the least quotient that does.    *)
LEMMA CeilBig ==
  ASSUME NEW n \in Nat, NEW B \in Nat \ {0}
  PROVE  /\ (n + B - 1) \div B \in Nat
         /\ ((n + B - 1) \div B) * B >= n
         /\ \A k \in Nat : k * B >= n => (n + B - 1) \div B <= k
  OBVIOUS

(* A byte of a payload of k blocks lies in one of those k blocks.          *)
LEMMA DivBound ==
  ASSUME NEW o \in Nat, NEW B \in Nat \ {0}, NEW k \in Nat, o < k * B
  PROVE  o \div B \in Nat /\ o \div B < k
  OBVIOUS

LEMMA ProductNat ==
  ASSUME NEW m \in Nat, NEW n \in Nat
  PROVE  m * n \in Nat
  OBVIOUS

(* Reducing a number below the modulus changes nothing.                    *)
LEMMA ModSmall ==
  ASSUME NEW n \in Nat, NEW m \in Nat \ {0}, n < m
  PROVE  n % m = n
  OBVIOUS

-----------------------------------------------------------------------------

(* The inductive invariant.                                                *)
Inv ==
  /\ TypeOK
  /\ Disjoint
  /\ Accounting
  /\ HeaderIntact
  /\ BigEnough
  /\ LoopInvariant

-----------------------------------------------------------------------------
(* Rounding *)

(* A size whose rounding wraps leaves a sum below one block.               *)
LEMMA WrapsToLess ==
  ASSUME NEW n \in Nat, NEW B \in Nat \ {0}, NEW M \in Nat \ {0},
         B <= M, n < M, n + B - 1 >= M
  PROVE  ((n + B - 1) % M) \div B = 0
<1>1. n + B - 1 - M \in Nat /\ n + B - 1 - M < M /\ n + B - 1 - M < B
  OBVIOUS
<1>2. (n + B - 1) % M = n + B - 1 - M
  BY <1>1
<1>3. \A k \in Nat : k < B => k \div B = 0
  OBVIOUS
<1> QED
  BY <1>1, <1>2, <1>3

(* kmalloc's block count holds the header and the payload, and is the      *)
(* least count that does; for a size that wraps it is the header alone.    *)
Holds(n, size) == IF Wraps(size) THEN n = 1 ELSE (n - 1) * BLOCK_SIZE >= size

LEMMA BlocksForFits ==
  ASSUME NEW size \in Amounts
  PROVE  /\ BlocksFor(size) \in Nat \ {0}
         /\ Holds(BlocksFor(size), size)
         /\ \A n \in Nat \ {0} : Holds(n, size) => BlocksFor(size) <= n
<1> DEFINE q == (size + BLOCK_SIZE - 1) \div BLOCK_SIZE
<1>1. /\ size \in Nat /\ BLOCK_SIZE \in Nat \ {0} /\ SIZE_MOD \in Nat \ {0}
      /\ size + BLOCK_SIZE - 1 \in Nat /\ size < SIZE_MOD /\ BLOCK_SIZE <= SIZE_MOD
  BY HeapAssumption
<1>2. CASE Wraps(size)
  <2>1. BlocksFor(size) = 1
    BY <1>1, <1>2, WrapsToLess DEF BlocksFor, Wraps
  <2> QED
    BY <1>2, <2>1 DEF Holds
<1>3. CASE ~Wraps(size)
  <2>1. BlocksFor(size) = q + 1
    BY <1>1, <1>3, ModSmall DEF BlocksFor, Wraps
  <2>2. /\ q \in Nat
        /\ q * BLOCK_SIZE >= size
        /\ \A k \in Nat : k * BLOCK_SIZE >= size => q <= k
    BY <1>1, CeilBig
  <2> HIDE DEF q
  <2>3. \A n \in Nat \ {0} : (n - 1) * BLOCK_SIZE >= size => q + 1 <= n
    <3> SUFFICES ASSUME NEW n \in Nat \ {0}, (n - 1) * BLOCK_SIZE >= size
                 PROVE  q + 1 <= n
      OBVIOUS
    <3>1. n - 1 \in Nat
      OBVIOUS
    <3>2. q <= n - 1
      BY <2>2, <3>1
    <3> QED
      BY <2>2, <3>2
  <2> QED
    BY <1>3, <2>1, <2>2, <2>3 DEF Holds
<1> QED
  BY <1>2, <1>3

-----------------------------------------------------------------------------
(* The steps *)

LEMMA InitInv == Init => Inv
<1> SUFFICES ASSUME Init PROVE Inv
  OBVIOUS
<1> USE HeapAssumption DEF Init
<1>1. TypeOK
  BY DEF TypeOK, Blocks, Foreign
<1>2. Disjoint /\ Accounting /\ HeaderIntact /\ BigEnough /\ LoopInvariant
  BY DEF Disjoint, Accounting, HeaderIntact, BigEnough, LoopInvariant, Foreign
<1> QED
  BY <1>1, <1>2 DEF Inv

LEMMA KmallocInv ==
  ASSUME Inv, NEW size \in Amounts, Kmalloc(size)
  PROVE  Inv'
<1> USE DEF Inv, Kmalloc
<1>1. BlocksFor(size) \in Nat \ {0}
  BY BlocksForFits
<1>2. TypeOK'
  BY <1>1, HeapAssumption DEF TypeOK
<1>3. Disjoint' /\ Accounting' /\ HeaderIntact' /\ BigEnough'
  BY DEF Disjoint, Accounting, HeaderIntact, BigEnough, Extent, Run, Running, Wraps, Owned
<1>4. LoopInvariant'
  <2>1. BlocksFor(size)' = BlocksFor(size)
    BY DEF BlocksFor
  <2>2. FreeRun(0 - 0, 0)' 
    BY DEF FreeRun, Run
  <2>3. 0 .. (0 - BlocksFor(size)) = {}
    BY <1>1
  <2> QED
    BY <1>1, <2>1, <2>2, <2>3 DEF LoopInvariant
<1> QED
  BY <1>2, <1>3, <1>4

LEMMA ScanFreeInv ==
  ASSUME Inv, ScanFree
  PROVE  Inv'
<1> USE DEF Inv, ScanFree, AtFreeBlock, NextBlock
<1>1. TypeOK'
  BY HeapAssumption DEF TypeOK, RunStart, LoopInvariant
<1>2. Disjoint' /\ Accounting' /\ HeaderIntact' /\ BigEnough'
  BY DEF Disjoint, Accounting, HeaderIntact, BigEnough, Extent, Run, Running, Wraps, Owned
<1>3. LoopInvariant'
  <2> DEFINE c == contiguous_found
  <2>1. /\ i \in Nat /\ c \in Nat /\ blocks \in Nat /\ c < blocks /\ c <= i
        /\ i' = i + 1 /\ contiguous_found' = c + 1 /\ blocks' = blocks
        /\ i \notin heap_bitmap /\ heap_bitmap' = heap_bitmap
    BY HeapAssumption DEF TypeOK, LoopInvariant
  <2>2. start_bit' = i - c
    <3>1. CASE c = 0
      BY <2>1, <3>1 DEF RunStart
    <3>2. CASE c # 0
      BY <2>1, <3>2 DEF RunStart, LoopInvariant
    <3> QED
      BY <3>1, <3>2
  <2>3. FreeRun(i - c, c + 1)
    BY <2>1 DEF FreeRun, Run, LoopInvariant
  <2>4. \A s \in 0 .. (i + 1 - blocks) : s + blocks <= OwnedBlocks => ~FreeRun(s, blocks)
    <3> SUFFICES ASSUME NEW s \in 0 .. (i + 1 - blocks), s + blocks <= OwnedBlocks,
                        FreeRun(s, blocks)
                 PROVE  FALSE
      OBVIOUS
    <3>1. s = i + 1 - blocks
      BY <2>1 DEF LoopInvariant
    <3>2. c + 1 < blocks
      BY <2>1
    <3>3. i - c - 1 \in Run(s, blocks) /\ i # c
      BY <2>1, <3>1, <3>2 DEF Run
    <3>4. i - c - 1 \in Owned
      BY <2>1, <3>1, <3>3, HeapAssumption DEF Run, Owned
    <3> QED
      BY <3>3, <3>4 DEF FreeRun, LoopInvariant, Foreign
  <2>5. i + 1 = c + 1 \/ (i + 1) - (c + 1) - 1 \in heap_bitmap \cup Foreign
    BY <2>1 DEF LoopInvariant
  <2>6. amount \in Amounts /\ blocks = BlocksFor(amount)
    BY DEF LoopInvariant
  <2> QED
    BY <2>1, <2>2, <2>3, <2>4, <2>5, <2>6 DEF LoopInvariant, FreeRun, BlocksFor, Foreign, Owned, Blocks
<1> QED
  BY <1>1, <1>2, <1>3

LEMMA ScanUsedInv ==
  ASSUME Inv, ScanUsed
  PROVE  Inv'
<1> USE DEF Inv, ScanUsed, CountAfterUsed, NextBlock
<1>1. TypeOK'
  BY HeapAssumption DEF TypeOK
<1>2. Disjoint' /\ Accounting' /\ HeaderIntact' /\ BigEnough'
  BY DEF Disjoint, Accounting, HeaderIntact, BigEnough, Extent, Run, Running, Wraps, Owned
<1>3. LoopInvariant'
  <2>1. /\ i \in Nat /\ blocks \in Nat /\ contiguous_found \in Nat
        /\ contiguous_found < blocks
        /\ i' = i + 1 /\ contiguous_found' = 0 /\ blocks' = blocks
        /\ i \in heap_bitmap /\ heap_bitmap' = heap_bitmap
    BY HeapAssumption DEF TypeOK, LoopInvariant
  <2>2. FreeRun((i + 1) - 0, 0)
    BY <2>1 DEF FreeRun, Run
  <2>3. \A s \in 0 .. (i + 1 - blocks) : s + blocks <= OwnedBlocks => ~FreeRun(s, blocks)
    <3> SUFFICES ASSUME NEW s \in 0 .. (i + 1 - blocks), s + blocks <= OwnedBlocks,
                        FreeRun(s, blocks)
                 PROVE  FALSE
      OBVIOUS
    <3>1. s = i + 1 - blocks
      BY <2>1 DEF LoopInvariant
    <3>2. i \in Run(s, blocks) /\ i \in Owned
      BY <2>1, <3>1, HeapAssumption DEF Run, Owned
    <3> QED
      BY <2>1, <3>2 DEF FreeRun
  <2>4. amount \in Amounts /\ blocks = BlocksFor(amount)
    BY DEF LoopInvariant
  <2> QED
    BY <2>1, <2>2, <2>3, <2>4 DEF LoopInvariant, FreeRun, BlocksFor, Foreign, Owned, Blocks
<1> QED
  BY <1>1, <1>2, <1>3

(* Where the search stops, the run it found ends at block i.               *)
LEMMA FoundRun ==
  ASSUME Inv, Found
  PROVE  /\ RunStart = i - contiguous_found /\ RunStart \in Blocks
         /\ blocks \in 1 .. HEAP_MAX_BLOCKS
         /\ RunStart + blocks = i + 1 /\ RunStart + blocks <= HEAP_MAX_BLOCKS
         /\ FreeRun(RunStart, blocks)
         /\ amount \in Amounts /\ Holds(blocks, amount)
<1> USE DEF Inv, Found, AtFreeBlock
<1> DEFINE c == contiguous_found
<1>1. /\ i \in Nat /\ c \in Nat /\ blocks \in Nat /\ HEAP_MAX_BLOCKS \in Nat
      /\ i < HEAP_MAX_BLOCKS /\ c <= i /\ c + 1 = blocks
      /\ i \notin heap_bitmap
  BY HeapAssumption DEF TypeOK, LoopInvariant
<1>2. RunStart = i - c
  <2>1. CASE c = 0
    BY <1>1, <2>1 DEF RunStart
  <2>2. CASE c # 0
    BY <1>1, <2>2 DEF RunStart, LoopInvariant
  <2> QED
    BY <2>1, <2>2
<1>3. FreeRun(RunStart, blocks)
  BY <1>1, <1>2 DEF FreeRun, Run, LoopInvariant
<1>4. amount \in Amounts /\ Holds(blocks, amount)
  BY BlocksForFits DEF LoopInvariant
<1> QED
  BY <1>1, <1>2, <1>3, <1>4 DEF Blocks

(* Its bits are the heap's own exactly when its last block is.             *)
LEMMA FoundOwned ==
  ASSUME Inv, Found
  PROVE  Run(RunStart, blocks) \subseteq Owned <=> i < OwnedBlocks
<1>1. /\ RunStart \in Nat /\ blocks \in Nat \ {0} /\ RunStart + blocks = i + 1
      /\ i \in Nat /\ OwnedBlocks \in Nat
  BY FoundRun, HeapAssumption DEF Found, AtFreeBlock, Inv, TypeOK, Blocks
<1>2. i \in Run(RunStart, blocks)
  BY <1>1 DEF Run
<1> QED
  BY <1>1, <1>2 DEF Run, Owned

(* And then no free run of the same length starts lower.                   *)
LEMMA FoundFirst ==
  ASSUME Inv, Found, i < OwnedBlocks
  PROVE  \A s \in 0 .. (RunStart - 1) : ~FreeRun(s, blocks)
<1> USE DEF Inv, Found, AtFreeBlock
<1> DEFINE c == contiguous_found
<1>1. /\ i \in Nat /\ c \in Nat /\ blocks \in Nat /\ OwnedBlocks \in Nat
      /\ c <= i /\ c + 1 = blocks /\ RunStart = i - c
  BY FoundRun, HeapAssumption DEF TypeOK, LoopInvariant
<1> SUFFICES ASSUME NEW s \in 0 .. (RunStart - 1), FreeRun(s, blocks)
             PROVE  FALSE
  OBVIOUS
<1>2. CASE s + blocks <= i
  BY <1>1, <1>2 DEF LoopInvariant
<1>3. CASE s + blocks > i
  <2>1. i - c - 1 \in Run(s, blocks) /\ i - c - 1 \in Owned /\ i # c
    BY <1>1, <1>3 DEF Run, Owned
  <2>2. i - c - 1 \in heap_bitmap
    BY <2>1 DEF LoopInvariant, Foreign
  <2> QED
    BY <2>1, <2>2 DEF FreeRun
<1> QED
  BY <1>1, <1>2, <1>3

LEMMA KmallocReturnInv ==
  ASSUME Inv, KmallocReturn
  PROVE  Inv'
<1> DEFINE new == [at |-> RunStart, blocks |-> blocks, size |-> amount]
<1> USE DEF Inv, KmallocReturn, LocalsGone, LockRun
<1>1. /\ RunStart \in Blocks /\ blocks \in 1 .. HEAP_MAX_BLOCKS
      /\ RunStart + blocks <= OwnedBlocks
      /\ FreeRun(RunStart, blocks)
      /\ amount \in Amounts /\ Holds(blocks, amount)
      /\ pc = "scan"
  <2>1. i < OwnedBlocks /\ RunStart + blocks = i + 1
    BY FoundRun, FoundOwned
  <2> QED
    BY <2>1, FoundRun, HeapAssumption DEF Found, AtFreeBlock, TypeOK
<1>2. new \in Allocation /\ Extent(new) = Run(RunStart, blocks)
  BY <1>1 DEF Allocation, Extent
<1>3. live' = live \cup {new} /\ heap_bitmap \cap Owned = UNION {Extent(a) : a \in live}
  BY <1>1 DEF Accounting, Running
<1>4. \A a \in live : Extent(a) \cap Extent(new) = {}
  <2> SUFFICES ASSUME NEW a \in live PROVE Extent(a) \cap Run(RunStart, blocks) = {}
    BY <1>2
  <2>1. Extent(a) \subseteq heap_bitmap \cap Owned
    BY <1>3
  <2> QED
    BY <1>1, <2>1 DEF FreeRun
<1>5. TypeOK'
  <2>1. heap_bitmap' \subseteq Blocks
    BY <1>1, HeapAssumption DEF TypeOK, Run, Blocks
  <2>2. mem' \in [Blocks -> Nat]
    BY <1>1 DEF TypeOK
  <2>3. live' \subseteq Allocation /\ \A a \in live' : a.at + a.blocks <= OwnedBlocks
    BY <1>1, <1>2, <1>3 DEF TypeOK
  <2>4. ret' \in 1 .. HEAP_MAX_BLOCKS
    BY <1>1, HeapAssumption DEF Blocks
  <2> QED
    BY <2>1, <2>2, <2>3, <2>4, HeapAssumption DEF TypeOK
<1>6. Disjoint'
  BY <1>3, <1>4 DEF Disjoint, Extent
<1>7. Accounting'
  <2>1. heap_bitmap' \cap Owned = (heap_bitmap \cap Owned) \cup Extent(new)
    BY <1>2
  <2> QED
    BY <1>3, <2>1 DEF Accounting, Extent, Owned
<1>8. HeaderIntact'
  <2> SUFFICES ASSUME NEW a \in live' PROVE mem'[a.at] = a.blocks
    BY DEF HeaderIntact
  <2>1. CASE a = new
    BY <1>1, <2>1 DEF TypeOK
  <2>2. CASE a # new
    <3>1. a \in live /\ a.at \in Extent(a)
      BY <1>3, <2>2, HeapAssumption DEF TypeOK, Allocation, Extent, Run, Blocks
    <3>2. RunStart \in Extent(new)
      BY <1>1, <1>2 DEF Run, Blocks
    <3>3. a.at # RunStart
      BY <1>4, <3>1, <3>2
    <3> QED
      BY <1>1, <3>1, <3>3 DEF TypeOK, HeaderIntact, Allocation, Running
  <2> QED
    BY <2>1, <2>2
<1>9. BigEnough'
  BY <1>1, <1>3 DEF BigEnough, Holds, Wraps
<1> QED
  BY <1>5, <1>6, <1>7, <1>8, <1>9 DEF LoopInvariant

LEMMA KmallocOverrunInv ==
  ASSUME Inv, KmallocAstray \/ KmallocFault
  PROVE  Inv'
<1> USE DEF Inv, KmallocAstray, KmallocFault, LocalsGone, LockRun
<1>1. TypeOK'
  <2>1. Run(RunStart, blocks) \subseteq Blocks
    BY FoundRun, HeapAssumption DEF Run, Blocks
  <2>2. heap_bitmap' \subseteq Blocks
    BY <2>1 DEF TypeOK
  <2>3. 0 \in 0 .. HEAP_MAX_BLOCKS
    BY HeapAssumption
  <2> QED
    BY <2>2, <2>3 DEF TypeOK
<1>2. Disjoint' /\ Accounting' /\ HeaderIntact' /\ BigEnough' /\ LoopInvariant'
  BY DEF Disjoint, Accounting, HeaderIntact, BigEnough, Extent, Run, LoopInvariant, Running,
         Wraps, Owned
<1> QED
  BY <1>1, <1>2

LEMMA KmallocNullInv ==
  ASSUME Inv, KmallocNull
  PROVE  Inv'
<1> USE DEF Inv, KmallocNull, LocalsGone
<1>1. TypeOK'
  BY HeapAssumption DEF TypeOK, Allocation, Blocks
<1>2. Disjoint' /\ Accounting' /\ HeaderIntact' /\ BigEnough' /\ LoopInvariant'
  BY DEF Disjoint, Accounting, HeaderIntact, BigEnough, Extent, Run, LoopInvariant, Running,
         Wraps, Owned
<1> QED
  BY <1>1, <1>2

LEMMA KfreeInv ==
  ASSUME Inv, NEW a \in live, Kfree(a)
  PROVE  Inv'
<1> USE DEF Inv, Kfree, locals
<1>1. Freed(a) = Extent(a)
  BY DEF Freed, Extent, HeaderIntact, Running
<1>2. TypeOK'
  BY DEF TypeOK, Allocation, Blocks
<1>3. Disjoint' /\ HeaderIntact' /\ BigEnough' /\ LoopInvariant'
  BY DEF Disjoint, HeaderIntact, BigEnough, Extent, Run, LoopInvariant, Running, Wraps
<1>4. Accounting'
  <2>1. heap_bitmap \cap Owned = UNION {Extent(b) : b \in live}
    BY DEF Accounting, Running
  <2>2. heap_bitmap' \cap Owned = UNION {Extent(b) : b \in live \ {a}}
    BY <1>1, <2>1 DEF Disjoint
  <2> QED
    BY <2>2 DEF Accounting, Extent, Owned
<1> QED
  BY <1>2, <1>3, <1>4

(* A byte of a payload lies behind the header, inside the allocation.      *)
LEMMA PayloadInside ==
  ASSUME Inv, NEW a \in live, ~Wraps(a.size), NEW o \in 0 .. (a.size - 1)
  PROVE  PayloadBlock(a, o) \in Extent(a) \ {a.at}
<1>1. /\ a.at \in Nat /\ a.blocks \in Nat \ {0} /\ o \in Nat
      /\ o < (a.blocks - 1) * BLOCK_SIZE /\ BLOCK_SIZE \in Nat \ {0}
  <2>1. a \in Allocation
    BY DEF Inv, TypeOK
  <2>4. a.size \in Amounts /\ Amounts \subseteq Nat
    BY <2>1, HeapAssumption DEF Allocation
  <2>2. (a.blocks - 1) * BLOCK_SIZE >= a.size
    BY DEF Inv, BigEnough
  <2>3. a.blocks - 1 \in Nat /\ BLOCK_SIZE \in Nat
    BY <2>1, HeapAssumption DEF Allocation
  <2>5. a.at \in Nat /\ a.blocks \in Nat \ {0}
    BY <2>1, HeapAssumption DEF Allocation, Blocks
  <2>6. a.size \in Nat /\ (a.blocks - 1) * BLOCK_SIZE \in Nat
    BY <2>3, <2>4, ProductNat
  <2> QED
    BY <2>2, <2>5, <2>6, HeapAssumption
<1>2. a.blocks - 1 \in Nat
  BY <1>1
<1>3. o \div BLOCK_SIZE \in Nat /\ o \div BLOCK_SIZE < a.blocks - 1
  BY <1>1, <1>2, DivBound
<1> QED
  BY <1>1, <1>3 DEF PayloadBlock, Extent, Run

(* Wherever it lies, it is not the header.                                 *)
LEMMA PayloadBehind ==
  ASSUME Inv, NEW a \in live, NEW o \in 0 .. (a.size - 1)
  PROVE  PayloadBlock(a, o) # a.at
<1>1. a \in Allocation
  BY DEF Inv, TypeOK
<1>2. a.size \in Amounts /\ Amounts \subseteq Nat /\ a.at \in Nat /\ BLOCK_SIZE \in Nat \ {0}
  BY <1>1, HeapAssumption DEF Allocation, Blocks
<1>3. o \in Nat
  BY <1>2
<1>4. o \div BLOCK_SIZE \in Nat
  BY <1>2, <1>3
<1> QED
  BY <1>2, <1>4 DEF PayloadBlock

LEMMA CallerWriteInv ==
  ASSUME Inv, NEW a \in live, NEW o \in 0 .. (a.size - 1), NEW v \in Junk, CallerWrite(a, o, v)
  PROVE  Inv'
<1> USE DEF Inv, CallerWrite, locals
<1>1. TypeOK'
  BY HeapAssumption DEF TypeOK, Allocation, Blocks
<1>2. Disjoint' /\ Accounting' /\ BigEnough' /\ LoopInvariant'
  BY DEF Disjoint, Accounting, BigEnough, Extent, Run, LoopInvariant, Running, Wraps, Owned
<1>3. HeaderIntact'
  <2> SUFFICES ASSUME NEW b \in live PROVE mem'[b.at] = mem[b.at]
    BY DEF HeaderIntact, Running
  <2>1. PayloadBlock(a, o) \in Extent(a) \ {a.at}
    <3>1. CASE Wraps(a.size)
      BY <3>1, PayloadBehind
    <3>2. CASE ~Wraps(a.size)
      BY <3>2, PayloadInside
    <3> QED
      BY <3>1, <3>2
  <2>2. b \in Allocation /\ b.at \in Blocks
    BY DEF TypeOK, Allocation
  <2>3. b.at \in Extent(b)
    BY <2>2, HeapAssumption DEF Allocation, Extent, Run, Blocks
  <2>4. b.at # PayloadBlock(a, o)
    BY <2>1, <2>3 DEF Disjoint
  <2> QED
    BY <2>2, <2>4 DEF TypeOK
<1> QED
  BY <1>1, <1>2, <1>3

LEMMA CallerAstrayInv ==
  ASSUME Inv, NEW a \in live, NEW o \in 0 .. (a.size - 1), CallerAstray(a, o)
  PROVE  Inv'
<1> USE DEF Inv, CallerAstray, locals
<1>1. TypeOK'
  BY DEF TypeOK, Allocation, Blocks
<1>2. Disjoint' /\ Accounting' /\ HeaderIntact' /\ BigEnough' /\ LoopInvariant'
  BY DEF Disjoint, Accounting, HeaderIntact, BigEnough, Extent, Run, LoopInvariant, Running,
         Wraps, Owned
<1> QED
  BY <1>1, <1>2

(* What others write behind the heap's page disturbs nothing the invariant *)
(* says, not even in the middle of a search.                               *)
LEMMA OthersWriteInv ==
  ASSUME Inv, OthersWrite
  PROVE  Inv'
<1> USE DEF Inv, OthersWrite, locals
<1>1. heap_bitmap' \cap Owned = heap_bitmap \cap Owned
  BY DEF Foreign
<1>2. TypeOK'
  <2>1. heap_bitmap' \subseteq Blocks
    BY DEF TypeOK, Foreign
  <2> QED
    BY <2>1 DEF TypeOK, Allocation, Blocks
<1>3. Disjoint' /\ HeaderIntact' /\ BigEnough'
  BY DEF Disjoint, HeaderIntact, BigEnough, Extent, Run, Running, Wraps
<1>4. Accounting'
  BY <1>1 DEF Accounting, Extent, Run, Running, Owned
<1>5. LoopInvariant'
  <2> SUFFICES ASSUME pc = "scan" PROVE LoopInvariant'
    BY DEF LoopInvariant
  <2>1. \A s, n : FreeRun(s, n)' <=> FreeRun(s, n)
    BY <1>1 DEF FreeRun, Run, Owned
  <2>2. i - contiguous_found - 1 \in heap_bitmap \cup Foreign
        => i - contiguous_found - 1 \in heap_bitmap' \cup Foreign
    BY <1>1 DEF TypeOK, Foreign
  <2> QED
    BY <2>1, <2>2 DEF LoopInvariant, BlocksFor, Foreign, Owned, Blocks
<1> QED
  BY <1>2, <1>3, <1>4, <1>5

LEMMA NextInv ==
  ASSUME Inv, [Next]_vars
  PROVE  Inv'
<1>1. CASE Search
  BY <1>1, ScanFreeInv, ScanUsedInv, KmallocReturnInv, KmallocOverrunInv, KmallocNullInv
     DEF Search
<1>2. CASE Caller
  BY <1>2, KmallocInv, KfreeInv, CallerWriteInv, CallerAstrayInv DEF Caller
<1>3. CASE UNCHANGED vars
  <2> USE <1>3 DEF Inv, vars, locals
  <2>1. TypeOK'
    BY DEF TypeOK, Allocation, Blocks
  <2>2. Disjoint' /\ Accounting' /\ HeaderIntact' /\ BigEnough'
    BY DEF Disjoint, Accounting, HeaderIntact, BigEnough, Extent, Run, Running, Wraps, Owned
  <2>3. LoopInvariant'
    BY DEF LoopInvariant, FreeRun, Run, BlocksFor, Foreign, Owned, Blocks
  <2> QED
    BY <2>1, <2>2, <2>3
<1> QED
  BY <1>1, <1>2, <1>3, OthersWriteInv DEF Next, Halted

-----------------------------------------------------------------------------
(* The theorems *)

(* The inductive invariant holds throughout: the base of all that follows. *)
THEOREM HeapInvariant == Spec => []Inv
<1>1. Init => Inv
  BY InitInv
<1>2. Inv /\ [Next]_vars => Inv'
  BY NextInv
<1> QED
  BY <1>1, <1>2, PTL DEF Spec

(* kmalloc and kfree keep every variable within its type, and no live      *)
(* allocation reaches past the end of the heap.                            *)
THEOREM HeapTypeOK == Spec => []TypeOK
<1>1. Inv => TypeOK
  BY DEF Inv
<1> QED
  BY <1>1, HeapInvariant, PTL

(* kmalloc never answers two live requests with overlapping runs.          *)
THEOREM HeapDisjoint == Spec => []Disjoint
<1>1. Inv => Disjoint
  BY DEF Inv
<1> QED
  BY <1>1, HeapInvariant, PTL

(* kfree returns exactly the blocks kmalloc took: of the bits in the page  *)
(* the heap owns, none leak and none of another allocation are cleared,    *)
(* whatever becomes of the bits behind it.                                 *)
THEOREM HeapAccounting == Spec => []Accounting
<1>1. Inv => Accounting
  BY DEF Inv
<1> QED
  BY <1>1, HeapInvariant, PTL

(* No legal write of a caller reaches the header kfree will trust.         *)
THEOREM HeapHeaderIntact == Spec => []HeaderIntact
<1>1. Inv => HeaderIntact
  BY DEF Inv
<1> QED
  BY <1>1, HeapInvariant, PTL

(* Every run kmalloc returns holds the bytes that were asked for, unless   *)
(* the rounding wrapped; then it is a header alone.                        *)
THEOREM HeapBigEnough == Spec => []BigEnough
<1>1. Inv => BigEnough
  BY DEF Inv
<1> QED
  BY <1>1, HeapInvariant, PTL

(* In the middle of a search, the run counted so far is free, unbroken and *)
(* starts where kmalloc will say it starts.                                *)
THEOREM HeapLoopInvariant == Spec => []LoopInvariant
<1>1. Inv => LoopInvariant
  BY DEF Inv
<1> QED
  BY <1>1, HeapInvariant, PTL

(* kmalloc's answer is always the lowest free run of its length.           *)
THEOREM HeapFirstFit == Spec => FirstFit
<1> DEFINE Lowest == \A a \in live' \ live : \A s \in 0 .. (a.at - 1) : ~FreeRun(s, a.blocks)
<1>1. Inv /\ [Next]_vars => [Lowest]_vars
  <2> SUFFICES ASSUME Inv, Next PROVE Lowest
    OBVIOUS
  <2>1. CASE KmallocReturn
    <3>1. \A s \in 0 .. (RunStart - 1) : ~FreeRun(s, blocks)
      BY <2>1, FoundOwned, FoundFirst DEF KmallocReturn
    <3>2. live' \ live \subseteq {[at |-> RunStart, blocks |-> blocks, size |-> amount]}
      BY <2>1 DEF KmallocReturn
    <3> QED
      BY <3>1, <3>2
  <2>2. CASE ~KmallocReturn
    <3>1. live' \subseteq live
      BY <2>2 DEF Next, Search, Caller, Halted, ScanFree, ScanUsed, KmallocAstray,
                  KmallocFault, KmallocNull, Kmalloc, Kfree, CallerWrite, CallerAstray,
                  OthersWrite, vars
    <3> QED
      BY <3>1
  <2> QED
    BY <2>1, <2>2
<1> QED
  BY <1>1, HeapInvariant, PTL DEF Spec, FirstFit

-----------------------------------------------------------------------------
(* The refinement: one lemma per kind of step, naming the step of HeapSpec *)
(* it maps to.  A scan step, and a caller's write, map to a stutter.       *)

LEMMA ScanStutters ==
  ASSUME Inv, ScanFree \/ ScanUsed
  PROVE  UNCHANGED Promise!vars
BY DEF ScanFree, ScanUsed, AtFreeBlock, Running, Promise!vars

(* amount is a number inside a call, so it is not taken for NULL.          *)
LEMMA WantIsNumber ==
  ASSUME Inv, pc = "scan"
  PROVE  amount \in Amounts /\ amount \in Nat /\ amount # NULL
<1>1. amount \in Amounts
  BY DEF Inv, LoopInvariant
<1>2. amount \in Nat
  BY <1>1, HeapAssumption
<1> QED
  BY <1>1, <1>2, HeapAssumption

(* A run among the heap's own blocks is one the promise may grant.         *)
LEMMA FoundFits ==
  ASSUME Inv, Found, i < OwnedBlocks
  PROVE  LET new == [at |-> RunStart, blocks |-> blocks, size |-> amount]
         IN  new \in Promise!Candidates /\ Promise!Fits(new)
<1> DEFINE new == [at |-> RunStart, blocks |-> blocks, size |-> amount]
<1>1. /\ pc = "scan" /\ RunStart \in Nat /\ blocks \in Nat \ {0} /\ OwnedBlocks \in Nat
      /\ RunStart + blocks = i + 1 /\ i \in Nat
  BY FoundRun, HeapAssumption DEF Found, AtFreeBlock, Blocks, Inv, TypeOK
<1>2. new \in Promise!Candidates /\ RunStart + blocks <= OwnedBlocks
  BY <1>1 DEF Promise!Candidates
<1>3. \A b \in live : Promise!Extent(new) \cap Promise!Extent(b) = {}
  <2> SUFFICES ASSUME NEW b \in live PROVE Promise!Extent(new) \cap Promise!Extent(b) = {}
    OBVIOUS
  <2>1. Promise!Extent(b) \subseteq heap_bitmap \cap Owned
    BY <1>1 DEF Inv, Accounting, Running, Extent, Run, Promise!Extent
  <2>2. Promise!Extent(new) \cap heap_bitmap \cap Owned = {}
    BY FoundRun DEF FreeRun, Run, Promise!Extent
  <2> QED
    BY <2>1, <2>2
<1>4. IF amount \in {size \in Amounts : Wraps(size)} THEN blocks = 1
      ELSE (blocks - 1) * BLOCK_SIZE >= amount
  BY FoundRun DEF Holds
<1> QED
  BY <1>2, <1>3, <1>4 DEF Promise!Fits

LEMMA KmallocReturnGrants ==
  ASSUME Inv, KmallocReturn
  PROVE  \E a \in Promise!Candidates : Promise!Grant(a)
<1> DEFINE new == [at |-> RunStart, blocks |-> blocks, size |-> amount]
<1>1. new \in Promise!Candidates /\ Promise!Fits(new)
  BY FoundFits, FoundOwned DEF KmallocReturn
<1>2. pc = "scan" /\ amount # NULL
  BY WantIsNumber DEF KmallocReturn, Found, AtFreeBlock
<1>3. Promise!Grant(new)
  BY <1>1, <1>2 DEF KmallocReturn, Running, Promise!Grant
<1> QED
  BY <1>1, <1>3

(* Past the heap's own blocks, nothing among them could have been granted: *)
(* block counts are minimal, and all of them were searched.                *)
LEMMA NothingFits ==
  ASSUME Inv, pc = "scan", i >= OwnedBlocks
  PROVE  Promise!Full
<1>1. /\ blocks = BlocksFor(amount) /\ amount \in Amounts
      /\ i \in Nat /\ OwnedBlocks \in Nat
  BY HeapAssumption DEF Inv, TypeOK, LoopInvariant
<1> SUFFICES ASSUME NEW a \in Promise!Candidates, Promise!Fits(a) PROVE FALSE
  BY DEF Promise!Full
<1>2. a.at \in Nat /\ a.blocks \in Nat \ {0} /\ a.size = amount
  BY HeapAssumption DEF Promise!Candidates
<1>3. a.at + a.blocks <= OwnedBlocks /\ Holds(a.blocks, amount)
  BY <1>1, <1>2 DEF Promise!Fits, Holds
<1>4. blocks \in Nat \ {0} /\ blocks <= a.blocks
  BY <1>1, <1>2, <1>3, BlocksForFits
<1>5. a.at \in 0 .. (i - blocks) /\ a.at + blocks <= OwnedBlocks
  BY <1>1, <1>2, <1>3, <1>4
<1>6. Run(a.at, blocks) \subseteq Promise!Extent(a)
  BY <1>2, <1>4 DEF Run, Promise!Extent
<1>7. heap_bitmap \cap Owned = UNION {Promise!Extent(b) : b \in live}
  BY DEF Inv, Accounting, Running, Extent, Run, Promise!Extent
<1>8. FreeRun(a.at, blocks)
  BY <1>6, <1>7 DEF FreeRun, Promise!Fits
<1> QED
  BY <1>5, <1>8 DEF Inv, LoopInvariant

LEMMA KmallocOverruns ==
  ASSUME Inv, KmallocAstray \/ KmallocFault
  PROVE  Promise!Overrun
<1>1. Found /\ pc = "scan" /\ amount # NULL
  BY WantIsNumber DEF KmallocAstray, KmallocFault, Found, AtFreeBlock
<1>2. i >= OwnedBlocks
  <2>1. /\ RunStart \in Nat /\ blocks \in Nat \ {0} /\ RunStart + blocks = i + 1
        /\ i \in Nat /\ OwnedBlocks \in Nat /\ MappedBlocks >= OwnedBlocks
        /\ MappedBlocks \in Nat
    BY <1>1, FoundRun, HeapAssumption DEF Inv, TypeOK, Blocks
  <2>2. CASE KmallocAstray
    BY <1>1, <2>1, <2>2, FoundOwned DEF KmallocAstray
  <2>3. CASE KmallocFault
    BY <2>1, <2>3 DEF KmallocFault
  <2> QED
    BY <2>2, <2>3
<1>3. Promise!Full
  BY <1>1, <1>2, NothingFits
<1> QED
  BY <1>1, <1>3 DEF KmallocAstray, KmallocFault, Running, Promise!Overrun

LEMMA KmallocNullRefuses ==
  ASSUME Inv, KmallocNull
  PROVE  Promise!Refuse
<1>1. pc = "scan" /\ i >= OwnedBlocks /\ amount # NULL
  BY WantIsNumber, HeapAssumption DEF KmallocNull
<1>2. Promise!Full
  BY <1>1, NothingFits
<1> QED
  BY <1>1, <1>2 DEF KmallocNull, Running, Promise!Refuse

(* Only whoever asked for a size that wraps can leave its blocks by using  *)
(* them: every other payload lies in its allocation (PayloadInside).       *)
LEMMA CallerTrespasses ==
  ASSUME Inv, NEW a \in live, NEW o \in 0 .. (a.size - 1), CallerAstray(a, o)
  PROVE  Promise!Trespass(a)
<1>1. a.size \in Amounts
  BY DEF Inv, TypeOK, Allocation
<1> QED
  BY <1>1 DEF CallerAstray, Running, locals, Promise!Trespass

LEMMA StepRefines ==
  ASSUME Inv, [Next]_vars
  PROVE  [Promise!Next]_Promise!vars
<1>1. CASE Search
  BY <1>1, ScanStutters, KmallocReturnGrants, KmallocOverruns, KmallocNullRefuses
     DEF Search, Promise!Next
<1>2. ASSUME NEW size \in Amounts, Kmalloc(size) PROVE Promise!Request(size)
  BY <1>2 DEF Kmalloc, Running, Promise!Request
<1>3. ASSUME NEW a \in live PROVE Kfree(a) => Promise!Release(a)
  BY DEF Kfree, Running, Promise!Release, locals
<1>4. ASSUME NEW a \in live, NEW o \in 0 .. (a.size - 1), NEW v \in Junk, CallerWrite(a, o, v)
      PROVE  UNCHANGED Promise!vars
  BY <1>4 DEF CallerWrite, Running, locals, Promise!vars
<1>5. CASE Caller
  BY <1>2, <1>3, <1>4, <1>5, CallerTrespasses DEF Caller, Promise!Next
<1>6. CASE OthersWrite
  BY <1>6 DEF OthersWrite, Running, locals, Promise!vars
<1>7. CASE UNCHANGED vars
  BY <1>7 DEF vars, Running, locals, Promise!vars
<1> QED
  BY <1>1, <1>5, <1>6, <1>7 DEF Next, Halted

(* The bitmap allocator implements HeapSpec with the blocks whose bits it  *)
(* owns: whatever the sequence of calls and whatever is written behind its *)
(* page, its answers are answers the abstract heap could give.             *)
THEOREM HeapImplements == Spec => ImplementsHeapSpec
<1>1. Init => Promise!Init
  BY DEF Init, Running, Promise!Init
<1>2. Inv /\ [Next]_vars => [Promise!Next]_Promise!vars
  BY StepRefines
<1> QED
  BY <1>1, <1>2, HeapInvariant, PTL DEF Spec, ImplementsHeapSpec, Promise!Spec
=============================================================================
