------------------------------- MODULE Paging -------------------------------
(***************************************************************************)
(* vmm_alloc of src/mm.c: it walks the page tables the boot loader left in *)
(* CR3, adds the tables that are missing, writes the last entry and        *)
(* invalidates the page in the TLB.  kmain calls it for the interrupt      *)
(* controllers' registers and for each page of the heap.                   *)
(*                                                                         *)
(* The kernel runs this with interrupts off, but it is not alone: the      *)
(* processor may walk the tables for any page, at any moment, and keep     *)
(* what it finds.  So the tables must be fit to walk between any two       *)
(* writes.                                                                 *)
(*                                                                         *)
(* Tables, new pages and the page allocator's bitmap are reached through   *)
(* the boot loader's direct map, which is part of the same tables, has     *)
(* some large pages, and may lie where the heap's window is.               *)
(***************************************************************************)
EXTENDS Integers, FiniteSets, Sequences

CONSTANTS
  Levels,            (* levels of tables (4)                               *)
  Idx,               (* indexes into a table (0 .. 511)                    *)
  Pages,             (* the virtual pages looked at                        *)
  Frames,            (* physical pages, as their numbers                   *)
  Free,              (* frames pmm_alloc2 can still hand out               *)
  Mmio,              (* frames of device registers                         *)
  Root,              (* the frame CR3 points to                            *)
  BitmapFrame,       (* the frame of the page allocator's bitmap           *)
  BootTables,        (* table contents the boot loader may leave           *)
  DirectMap,         (* a frame's page, g_hhdm_offset from it              *)
  Windows,           (* where the heap's pages may be                      *)
  NULL

(* A virtual page is one index for each level.  An entry is a frame and    *)
(* whether it is a large page, or NULL when not present.                   *)
Entries == [frame : Frames, large : BOOLEAN]
Small(f) == [frame |-> f, large |-> FALSE]
Memories == [Frames -> [Idx -> Entries \cup {NULL}]]
Virtuals == [1 .. Levels -> Idx]

(* The entries the processor's walk for v passes in memory m, from CR3 on. *)
(* A large page is an entry one level above the last.                      *)
EntryOf(m, e, x) ==
  IF e = NULL THEN NULL
  ELSE IF e.large THEN Small(e.frame + x)
  ELSE m[e.frame][x]
WalkIn(m, v) ==
  LET at[l \in 0 .. Levels] == IF l = 0 THEN Small(Root) ELSE EntryOf(m, at[l - 1], v[l])
  IN  at

TranslationIn(m, v) == LET e == WalkIn(m, v)[Levels] IN IF e = NULL THEN NULL ELSE e.frame

(* The tables, each with the indexes that lead to it.                      *)
IsTable(e) == e # NULL /\ ~e.large
Prefix(v, l) == [k \in 1 .. l |-> v[k]]
TablesIn(m) ==
  UNION {LET w == WalkIn(m, v)
         IN  {<<w[l].frame, Prefix(v, l)>> : l \in {k \in 0 .. Levels - 1 : IsTable(w[k])}}
         : v \in Virtuals}

(* What the boot loader leaves: tables that are a tree, in memory that is  *)
(* not given out; every frame in the direct map, but for the devices'; the *)
(* tables and the memory to be given out mapped nowhere else; large pages  *)
(* one level above the last only, and only in the direct map.              *)
Handover(m) ==
  LET frames == {t[1] : t \in TablesIn(m)}
  IN  /\ \A s, t \in TablesIn(m) : s[1] = t[1] => s = t
      /\ frames \cap (Free \cup Mmio) = {}
      /\ \A f \in Frames \ Mmio : TranslationIn(m, DirectMap[f]) = f
      /\ \A v \in Pages :
           LET f == TranslationIn(m, v)
           IN  f \in Frames \cup {NULL} /\ (f \in frames \cup Free => DirectMap[f] = v)
      /\ \A v \in Virtuals, l \in 0 .. Levels - 1 :
           LET e == WalkIn(m, v)[l]
           IN  e # NULL /\ e.large =>
                 /\ l = Levels - 1
                 /\ v \in Pages => \E f \in Frames \ Mmio : DirectMap[f] = v

ASSUME PagingAssumption ==
  /\ Levels \in Nat \ {0} /\ Idx \subseteq Nat
  /\ Pages \subseteq Virtuals
  /\ Frames \subseteq Nat /\ 0 \in Frames
  /\ Free \subseteq Frames \ {0} /\ Mmio \subseteq Frames \ Free
  /\ Root \in Frames /\ BitmapFrame \in Frames \ Mmio
  /\ NULL \notin Frames \cup Entries \cup (Pages \X Frames)
  /\ BootTables \subseteq Memories /\ \A m \in BootTables : Handover(m)
  /\ DirectMap \in [Frames -> Pages]
  /\ \A f, g \in Frames : DirectMap[f] = DirectMap[g] => f = g
  /\ Windows \subseteq SUBSET Pages

VARIABLES
  mem,               (* every frame, read as a table                       *)
  pool,              (* frames pmm_alloc2 has not handed out               *)
  window,            (* the heap's pages                                   *)
  tlb,               (* translations the processor has kept                *)
  pc,                (* where vmm_alloc is, "idle" outside it              *)
  virt, phys,        (* its arguments                                      *)
  level,             (* the level of the table being looked at             *)
  table,             (* pml4_virt, pdpt_virt, pd_virt, pt_virt in turn     *)
  new_table,
  exhausted,         (* pmm_alloc2 has answered 0                          *)
  astray             (* the kernel has lost its way to a page it needs     *)

args == <<virt, phys>>
walk == <<level, table, new_table>>
vars == <<mem, pool, window, tlb, pc, args, walk, exhausted, astray>>

Empty == [x \in Idx |-> NULL]

Walk(v) == WalkIn(mem, v)
Translation(v) == TranslationIn(mem, v)
Tables == TablesIn(mem)
TableFrames == {t[1] : t \in Tables}

(* What the kernel reaches when it adds g_hhdm_offset to f's address.      *)
Through(f) == Translation(DirectMap[f])

(* The frames it must reach: tables, the one it has come to, pages still to*)
(* be cleared, the bitmap.                                                 *)
Reachable ==
  \A f \in TableFrames \cup ({table} \ {NULL}) \cup pool \cup {BitmapFrame} : Through(f) = f

Init ==
  /\ mem \in BootTables
  /\ pool = Free
  /\ window \in Windows
  /\ tlb = [v \in Pages |-> NULL]
  /\ pc = "idle"
  /\ virt = NULL /\ phys = NULL
  /\ level = 0 /\ table = NULL /\ new_table = NULL
  /\ exhausted = FALSE /\ astray = FALSE

-----------------------------------------------------------------------------
(* pmm_alloc2, as its own module shows it: the lowest frame nobody has, or *)
(* 0 without any.                                                          *)
KeepInPool(f) == pool
TakeFromPool(f) == pool \ {f}

Alloc(f) ==
  \/ /\ f \in pool /\ \A g \in pool : f <= g
     /\ pool' = TakeFromPool(f)
     /\ UNCHANGED exhausted
  \/ /\ pool = {} /\ f = 0
     /\ exhausted' = TRUE
     /\ UNCHANGED pool

(* What the kernel does once it has gone astray is not modelled.           *)
Enter(v, f) ==
  /\ pc = "idle" /\ ~astray
  /\ pc' = "walk"
  /\ virt' = v /\ phys' = f
  /\ level' = 1 /\ table' = Root /\ new_table' = NULL
  /\ UNCHANGED <<mem, window, tlb, astray>>

(* kmain maps device registers, where the direct map would have them.      *)
MapDevice ==
  \E f \in Mmio : Enter(DirectMap[f], f) /\ UNCHANGED <<pool, exhausted>>

(* kmain maps a page of the heap, whatever pmm_alloc2 answers.             *)
MapHeap ==
  \E v \in window, f \in Frames : Enter(v, f) /\ Alloc(f)

-----------------------------------------------------------------------------
(* vmm_alloc *)

Slot == mem[Through(table)][virt[level]]

MoreLevelsOneTooMany == level <= Levels
MoreLevels == level < Levels

AlwaysMissing == TRUE
Missing == Slot = NULL

(* A missing table: a page, used unchecked, is cleared.                    *)
ClearNothing(f) == mem
Clear(f) == [mem EXCEPT ![Through(f)] = Empty]

NewTable ==
  /\ pc = "walk" /\ ~astray /\ MoreLevels /\ Missing
  /\ \E f \in Frames : Alloc(f) /\ new_table' = f /\ mem' = Clear(f)
  /\ pc' = "link"
  /\ UNCHANGED <<window, tlb, args, level, table>>
  /\ astray' = ~Reachable'

SetSlot(f) == mem' = [mem EXCEPT ![Through(table)][virt[level]] = Small(f)]

Link ==
  /\ pc = "link" /\ ~astray
  /\ SetSlot(new_table)
  /\ pc' = "walk"
  /\ UNCHANGED <<pool, window, tlb, args, walk, exhausted>>
  /\ astray' = ~Reachable'

(* The address in an entry is taken for a table's, a large page's too.     *)
Descend ==
  /\ pc = "walk" /\ ~astray /\ MoreLevels /\ Slot # NULL
  /\ table' = Slot.frame
  /\ level' = level + 1
  /\ UNCHANGED <<mem, pool, window, tlb, pc, args, new_table, exhausted>>
  /\ astray' = (Slot.large \/ ~Reachable')

SetEntry ==
  /\ pc = "walk" /\ ~astray /\ ~MoreLevels
  /\ SetSlot(phys)
  /\ pc' = "invlpg"
  /\ UNCHANGED <<pool, window, tlb, args, walk, exhausted>>
  /\ astray' = ~Reachable'

NoFlush == tlb
Flush == [tlb EXCEPT ![virt] = NULL]

Invlpg ==
  /\ pc = "invlpg"
  /\ tlb' = Flush
  /\ pc' = "idle"
  /\ virt' = NULL /\ phys' = NULL
  /\ level' = 0 /\ table' = NULL /\ new_table' = NULL
  /\ UNCHANGED <<mem, pool, window, exhausted, astray>>

(* The processor walks the tables for a page that kmain maps, and keeps    *)
(* the translation.  It may also drop one, which leaves nothing that could *)
(* be wrong.                                                               *)
Fill ==
  \E v \in window \cup {DirectMap[f] : f \in Mmio} :
    /\ Translation(v) \in Frames
    /\ tlb' = [tlb EXCEPT ![v] = Translation(v)]
    /\ UNCHANGED <<mem, pool, window, pc, args, walk, exhausted, astray>>

Kernel == NewTable \/ Link \/ Descend \/ SetEntry \/ Invlpg

Next == MapDevice \/ MapHeap \/ Kernel \/ Fill

Spec == Init /\ [][Next]_vars

-----------------------------------------------------------------------------
(* Properties *)

TypeOK ==
  /\ mem \in Memories
  /\ pool \subseteq Free
  /\ window \in Windows
  /\ tlb \in [Pages -> Frames \cup {NULL}]
  /\ pc \in {"idle", "walk", "link", "invlpg"}
  /\ virt \in Pages \cup {NULL} /\ phys \in Frames \cup {NULL}
  /\ level \in 0 .. Levels
  /\ table \in Frames \cup {NULL} /\ new_table \in Frames \cup {NULL}
  /\ exhausted \in BOOLEAN /\ astray \in BOOLEAN

(* The page tables stay a tree, whatever is mapped in whatever order: no   *)
(* table is reached by two ways, a page is a table only in the direct map, *)
(* and no table is a frame pmm_alloc2 could still hand out.                *)
TablesAreATree ==
  ~exhausted =>
    LET tables == Tables
        frames == {t[1] : t \in tables}
    IN  /\ \A s, t \in tables : s[1] = t[1] => s = t
        /\ \A v \in Pages : Translation(v) \in frames => DirectMap[Translation(v)] = v
        /\ frames \cap pool = {}

(* The processor never uses a translation the tables do not give, except   *)
(* for the page vmm_alloc is about to invalidate: in particular it never   *)
(* keeps one read from a table that was linked before it was cleared.      *)
TlbCoherent ==
  ~exhausted =>
    \A v \in Pages :
      tlb[v] # NULL => tlb[v] = Translation(v) \/ (pc = "invlpg" /\ v = virt)

(* The kernel does not lose its way by mapping: however many tables it     *)
(* makes, every page of the direct map that is not a page of the heap      *)
(* leads where it led.  So tables and bitmap stay within reach unless the  *)
(* heap's window, at a fixed address (mm.h:5), lies over their pages or    *)
(* under a large page.                                                     *)
DirectlyMapped == {f \in Frames \ Mmio : DirectMap[f] \notin window}
DirectMapKept ==
  ~exhausted =>
    /\ \A f \in DirectlyMapped : Through(f) = f
    /\ astray => \E v \in window : v \in {DirectMap[f] : f \in Frames}

(* vmm_alloc implements AddressSpace: while pages last, its writes change  *)
(* the translation of one page, the one it was called for, in one step,    *)
(* and every other translation is the same before, during and after.       *)
Promise == INSTANCE AddressSpace WITH
  Virts <- Pages,
  space <- [v \in Pages |-> Translation(v)],
  want <- IF pc \in {"walk", "link"} THEN <<virt, phys>> ELSE NULL,
  exhausted <- exhausted \/ astray

ImplementsAddressSpace == Promise!Spec

(* Page 0 is never part of the kernel's page tables nor behind a page of   *)
(* the heap: it is locked at boot, "just for safety" (mm.c:200).           *)
PageZeroUnused ==
  0 \notin TableFrames /\ \A v \in window : Translation(v) # 0
=============================================================================
