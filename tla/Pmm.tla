-------------------------------- MODULE Pmm --------------------------------
(***************************************************************************)
(* The physical page allocator of src/mm.c: init_bitmap_pmm, which builds  *)
(* a bitmap of the machine's pages from the boot loader's memory map and   *)
(* stores it in the very memory it describes, and pmm_alloc2, which hands  *)
(* pages out for the page tables, the heap's bitmap and the heap.  No page *)
(* is ever given back.                                                     *)
(*                                                                         *)
(* init_bitmap_pmm's steps run once, in order (pc); after them pmm_alloc2  *)
(* is called any number of times.  Addresses are bytes of physical memory, *)
(* the direct map being a fixed offset.                                    *)
(***************************************************************************)
EXTENDS Integers, Sequences

CONSTANTS
  PAGE_SIZE,          (* bytes in a page (4096)                            *)
  PAGE_TO_QWORD,      (* bits in a word of the bitmap (64)                 *)
  QWORD_BYTES,        (* bytes in a word of the bitmap (8)                 *)
  HEAP_BITMAP_BYTES,  (* bytes heap_bitmap_pointer clears (8192 * 8)       *)
  MemMaps,            (* memory maps the boot loader may report            *)
  NULL

Entry == [base : Nat, length : Nat \ {0}, usable : BOOLEAN]

(* The boot protocol aligns usable entries to pages.                       *)
ASSUME PmmAssumption ==
  /\ PAGE_SIZE \in Nat \ {0}
  /\ PAGE_TO_QWORD \in Nat \ {0}
  /\ QWORD_BYTES \in Nat \ {0}
  /\ PAGE_SIZE = (PAGE_SIZE \div QWORD_BYTES) * QWORD_BYTES
  /\ HEAP_BITMAP_BYTES \in Nat \ {0}
  /\ NULL \notin Int
  /\ MemMaps \subseteq Seq(Entry)
  /\ \A m \in MemMaps : \A i \in DOMAIN m :
       m[i].usable => m[i].base % PAGE_SIZE = 0 /\ m[i].length % PAGE_SIZE = 0

VARIABLES
  map,                (* the memory map of this boot                       *)
  pc,                 (* what init_bitmap_pmm does next, "run", or "fault" *)
  bitmap_length,      (* words in the bitmap                               *)
  bitmap,             (* physical address of the bitmap, or NULL           *)
  locked,             (* pages whose bit is set                            *)
  heap_bitmap,        (* page the heap's bitmap begins at, or NULL         *)
  handed,             (* the pages pmm_alloc2 handed out, in order         *)
  ret                 (* page of pmm_alloc2's last answer; 0 is a failure  *)

vars == <<map, pc, bitmap_length, bitmap, locked, heap_bitmap, handed, ret>>

CeilDivFloor(n, d) == n \div d
CeilDiv(n, d) == (n + d - 1) \div d

Taken == {handed[k] : k \in DOMAIN handed}

(* The pages of a usable entry, and of all of them.                        *)
PagesOf(e) == (e.base \div PAGE_SIZE) .. (e.base \div PAGE_SIZE + e.length \div PAGE_SIZE - 1)
Usable == UNION {PagesOf(map[i]) : i \in {j \in DOMAIN map : map[j].usable}}

(* The pages the bitmap has a bit for.                                     *)
Capacity == 0 .. (bitmap_length * PAGE_TO_QWORD - 1)

(* The address of the word that holds bit b, and the pages of all words.   *)
BitAddress(b) == bitmap + (b \div PAGE_TO_QWORD) * QWORD_BYTES
BitmapPages == {BitAddress(b) \div PAGE_SIZE : b \in Capacity}

(* The pages protect_bitmap_space locks for it.                            *)
PagesToLockFloor == (bitmap_length * QWORD_BYTES) \div PAGE_SIZE
PagesToLock == CeilDiv(bitmap_length * QWORD_BYTES, PAGE_SIZE)
ProtectedPages == (bitmap \div PAGE_SIZE) .. (bitmap \div PAGE_SIZE + PagesToLock - 1)

Init ==
  /\ map \in MemMaps
  /\ pc = "get_bitmap_length"
  /\ bitmap_length = 0
  /\ bitmap = NULL
  /\ locked = {}
  /\ heap_bitmap = NULL
  /\ handed = <<>>
  /\ ret = 0

-----------------------------------------------------------------------------
(* init_bitmap_pmm *)

EntryEnd(i) == map[i].base + map[i].length

get_bitmap_length ==
  /\ pc = "get_bitmap_length"
  /\ \E last \in DOMAIN map :
       /\ \A i \in DOMAIN map : EntryEnd(i) <= EntryEnd(last)
       /\ bitmap_length' = CeilDiv(CeilDiv(EntryEnd(last), PAGE_SIZE), PAGE_TO_QWORD)
  /\ pc' = "bitmap_pointer"
  /\ UNCHANGED <<map, bitmap, locked, heap_bitmap, handed, ret>>

(* Entry i can hold the bitmap.                                            *)
HoldsInWords(i) == map[i].usable /\ map[i].length >= bitmap_length
Holds(i) == map[i].usable /\ map[i].length >= bitmap_length * QWORD_BYTES

(* The first entry that can hold the bitmap does; without one the static   *)
(* pointer stays NULL.                                                     *)
bitmap_pointer ==
  /\ pc = "bitmap_pointer"
  /\ \/ \E i \in DOMAIN map :
          /\ Holds(i)
          /\ \A j \in 1 .. (i - 1) : ~Holds(j)
          /\ bitmap' = map[i].base
     \/ /\ \A i \in DOMAIN map : ~Holds(i)
        /\ bitmap' = NULL
  /\ pc' = "all_bitmap_1"
  /\ UNCHANGED <<map, bitmap_length, locked, heap_bitmap, handed, ret>>

(* Nothing is mapped at address 0: a NULL bitmap ends in the page fault    *)
(* handler, which never returns.  What the bits held before is never read. *)
all_bitmap_1 ==
  /\ pc = "all_bitmap_1"
  /\ \/ bitmap # NULL /\ locked' = Capacity /\ pc' = "set_useable_ram"
     \/ bitmap = NULL /\ locked' = locked /\ pc' = "fault"
  /\ UNCHANGED <<map, bitmap_length, bitmap, heap_bitmap, handed, ret>>

set_useable_ram ==
  /\ pc = "set_useable_ram"
  /\ locked' = locked \ Usable
  /\ pc' = "protect_bitmap_space"
  /\ UNCHANGED <<map, bitmap_length, bitmap, heap_bitmap, handed, ret>>

protect_bitmap_space ==
  /\ pc = "protect_bitmap_space"
  /\ locked' = locked \cup ProtectedPages
  /\ pc' = "lock_page_0"
  /\ UNCHANGED <<map, bitmap_length, bitmap, heap_bitmap, handed, ret>>

Page0 == {0}

lock_page_0 ==
  /\ pc = "lock_page_0"
  /\ locked' = locked \cup Page0
  /\ pc' = "heap_bitmap_pointer"
  /\ UNCHANGED <<map, bitmap_length, bitmap, heap_bitmap, handed, ret>>

-----------------------------------------------------------------------------
(* pmm_alloc2 *)

(* The pages pmm_alloc2 looks at: those of the first bitmap_length / 64    *)
(* words.                                                                  *)
WindowAllWords == 0 .. (bitmap_length * PAGE_TO_QWORD)
Window == 0 .. ((bitmap_length \div PAGE_TO_QWORD) * PAGE_TO_QWORD - 1)

FreeInWindow == Window \ locked

(* A call that finds page p, the lowest free one, and one that finds none. *)
Takes(p) == p \in FreeInWindow /\ \A q \in FreeInWindow : p <= q
FindsNone == FreeInWindow = {}

LockNothing(p) == locked
Lock(p) == locked \cup {p}

(* The bits a memset of the heap's bitmap at page p clears, because the    *)
(* words that hold them are in the memory it covers.                       *)
Cleared(p) ==
  {b \in Capacity :
     /\ p * PAGE_SIZE <= BitAddress(b)
     /\ BitAddress(b) < p * PAGE_SIZE + HEAP_BITMAP_BYTES}

(* The pages it covers, and those bits it has cleared when it reaches page *)
(* q: it goes upwards.                                                     *)
PagesCleared(p) == p .. (p + CeilDiv(HEAP_BITMAP_BYTES, PAGE_SIZE) - 1)
ClearedBefore(p, q) == {b \in Cleared(p) : BitAddress(b) < q * PAGE_SIZE}

(* The memset, with bits the bits set before it.  Whether the boot loader  *)
(* mapped a page that is not usable is not known here: reaching one may    *)
(* end in the page fault handler.                                          *)
Memset(p, bits) ==
  \/ locked' = bits \ Cleared(p) /\ pc' = "run"
  \/ \E q \in PagesCleared(p) \ Usable :
       locked' = bits \ ClearedBefore(p, q) /\ pc' = "fault"

(* The answer is used unchecked: without a free page the heap's bitmap is  *)
(* put at address 0.                                                       *)
heap_bitmap_pointer ==
  /\ pc = "heap_bitmap_pointer"
  /\ \/ \E p \in Window :
          /\ Takes(p)
          /\ Memset(p, Lock(p))
          /\ handed' = Append(handed, p)
          /\ heap_bitmap' = p /\ ret' = p
     \/ /\ FindsNone
        /\ Memset(0, locked)
        /\ heap_bitmap' = 0 /\ ret' = 0
        /\ UNCHANGED handed
  /\ UNCHANGED <<map, bitmap_length, bitmap>>

pmm_alloc2 ==
  /\ pc = "run"
  /\ \/ \E p \in Window :
          /\ Takes(p)
          /\ locked' = Lock(p)
          /\ handed' = Append(handed, p)
          /\ ret' = p
     \/ FindsNone /\ ret' = 0 /\ UNCHANGED <<locked, handed>>
  /\ UNCHANGED <<map, pc, bitmap_length, bitmap, heap_bitmap>>

(* The page fault handler's for(;;).                                       *)
Halted == pc = "fault" /\ UNCHANGED vars

Boot ==
  \/ get_bitmap_length \/ bitmap_pointer \/ all_bitmap_1 \/ set_useable_ram
  \/ protect_bitmap_space \/ lock_page_0 \/ heap_bitmap_pointer

Next == Boot \/ pmm_alloc2 \/ Halted

Spec == Init /\ [][Next]_vars

-----------------------------------------------------------------------------
(* Properties *)

Steps == {"get_bitmap_length", "bitmap_pointer", "all_bitmap_1", "set_useable_ram",
          "protect_bitmap_space", "lock_page_0", "heap_bitmap_pointer", "run", "fault"}

TypeOK ==
  /\ pc \in Steps
  /\ bitmap_length \in Nat
  /\ bitmap \in Nat \cup {NULL}
  /\ locked \subseteq Capacity
  /\ heap_bitmap \in Nat \cup {NULL}
  /\ handed \in Seq(Capacity)
  /\ ret \in Capacity \cup {0}

(* Every bit and every word the boot code touches is inside the bitmap:    *)
(* the page count is rounded up twice, once to pages and once to words,    *)
(* and no usable page is beyond the last word.                             *)
BitmapCoversRam ==
  pc # "get_bitmap_length" => Usable \subseteq Capacity

(* Once it is placed the bitmap occupies usable memory only, up to its     *)
(* last, partly filled page: filling it overwrites neither firmware nor    *)
(* the kernel.  It stays NULL, and boot stops at its first word, only when *)
(* the bytes of its words fit in no usable entry.                          *)
BitmapInRam ==
  \/ pc \in {"get_bitmap_length", "bitmap_pointer"}
  \/ bitmap # NULL /\ BitmapPages \subseteq Usable
  \/ /\ bitmap = NULL /\ pc \in {"all_bitmap_1", "fault"}
     /\ \A i \in DOMAIN map :
          map[i].usable => map[i].length < bitmap_length * QWORD_BYTES

(* The memset of the heap's bitmap missed the page bitmap.                 *)
Intact == heap_bitmap # NULL => Cleared(heap_bitmap) = {}

(* Once booted, the free bits are the usable pages that hold neither the   *)
(* bitmap nor an allocation and are not page 0: no page is lost, and none  *)
(* is free that is firmware's, the bitmap's or a client's.  This needs the *)
(* order of the boot steps, both roundings, and every bit set since.       *)
FreeExactly ==
  pc = "run" /\ Intact =>
    Capacity \ locked = Usable \ (BitmapPages \cup {0} \cup Taken)

(* Every page handed out is usable memory, is not one of the bitmap's, and *)
(* is not page 0, whose address callers would take for "out of memory".    *)
PagesSound ==
  Intact => \A p \in Taken : p \in Usable /\ p \notin BitmapPages /\ p # 0

(* No page is handed out twice: an answer other than failure is a page     *)
(* nobody had, whether it is for a table, the heap or the heap's bitmap.   *)
NoDoubleHandOut ==
  Intact => \A j, k \in DOMAIN handed : j # k => handed[j] # handed[k]

(* pmm_alloc2 fails only when no page is free.  Its comment (mm.c:25) says *)
(* it is "assuming length is page to bit", a length that counts pages.     *)
FailsOnlyWhenFull ==
  [][pmm_alloc2 /\ ret' = 0 => Capacity \subseteq locked]_vars

(* The pages that hold the heap's bitmap belong to it: mm.c:4 says its     *)
(* "length is 8192" words, and no page of those is handed to another.      *)
HeapBitmapOwned ==
  heap_bitmap # NULL => PagesCleared(heap_bitmap) \cap Taken \subseteq {heap_bitmap}
=============================================================================
