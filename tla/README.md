# LucidiOS in TLA+

LucidiOS (`src/`) is a small x86-64 kernel booted by Limine: it brings up a
serial port, a GDT and an IDT, finds the I/O APIC in the ACPI tables, builds a
physical page allocator and a kernel heap, maps device registers and the heap,
enables the keyboard's interrupt and then prints, allocates, frees and halts.
It runs on one processor. Nothing is persisted and no messages are sent; what
runs beside the kernel is the hardware: the keyboard, the interrupt
controllers, the serial port, the PIT, and the processor's own page walker.

This directory holds TLA+ models of its core, TLC configurations that check
them on small instances, and TLAPS proofs of their main properties for every
value of the constants.

    tlc -config Heap.cfg Heap          # any .cfg with its module (see Runs)
    tlapm HeapProofs.tla               # any *Proofs module

## Inventory

| Component | State | Operations | Correct when | Modules |
|---|---|---|---|---|
| Kernel heap (`mm.c:147-191`) | `heap_bitmap`, headers in memory | `kmalloc`, `kfree` | runs disjoint, big enough, freed exactly, NULL only when nothing fits in what it owns | `HeapSpec`, `Heap`, `HeapProofs` |
| Physical memory (`mm.c:9-37`, `82-139`, `194-202`) | `bitmap` (in the memory it describes), `bitmap_length` | `init_bitmap_pmm`, `pmm_alloc2` | free bits are exactly the usable pages nobody has; no page twice | `Pmm`, `MCPmm`, `PmmProofs` |
| Virtual memory (`mm.c:41-77`) | page tables, TLB | `vmm_alloc` | one translation changes per call, tables a tree, TLB never stale | `AddressSpace`, `Paging`, `MCPaging`, `PagingProofs` |
| Keyboard interrupts (`main.c:127-132`, `apic.c:118-131`, `interrupts.c:69-74`) | controller buffer, mask, IRR/ISR, interrupt flag | `set_IRQ`, the drain loop, `sti`, vector 50 | no key stuck, all keys read | `Keyboard`, `SerialProofs` |
| Interrupt entry and exit (`isr.asm`, `interrupts.c`) | registers, stack, IDT | stubs, `isr_handler_C`, `iretq` | the interrupted code resumes unchanged | `Interrupts`, `InterruptsProofs` |
| Memory primitives (`common.c:3-52`) | bytes | `memcpy`, `memset`, `memmove`, `memcmp` | overlapping copies come out right, nothing else is touched | `Memory`, `MemoryProofs` |
| Console (`fb.c:4620-4706`) | `column`, `line`, pixels | `draw_sentence`, `newLine`, `scrollUp`, `reset` | characters do not overlap, writes stay on the screen | `Console`, `ConsoleProofs` |
| Serial, `kprintf` (`common.c:54-174`) | the port's FIFO and registers, the scanner's index and arguments | `init_serial`, `write_better`, `kprintf`, its printers | no character lost, garbled or out of order, though the handler prints too; output is what the format means | `Kprintf`, `Serial`, `MCSerial`, `SerialProofs` |
| ACPI (`apic.c:104-162`) | `ioapic_base`, a pointer into the tables | `findAPIC`, `madt_parsing` | finds the I/O APIC if there is one, reads nothing else, ends | `Acpi`, `BootProofs` |
| Local APIC and its timer (`apic.c:13-90`) | PIT and APIC registers | `init_LAPIC`, `init_APIC_timer` | one period is measured; only the NMI and the spurious interrupt lack a gate | `Timer`, `Boot`, `BootProofs` |
| GDT, TSS, gates (`segments.c`, `interrupts.c:82-119`) | bytes of descriptors, `gdtr`, CS | `init_gdt`, `set_TSS`, `set_gate` | the processor reads from the bytes what the kernel meant | `Segments`, `BootProofs` |
| Boot (`main.c`) | the boot loader's answers, globals | `kmain` up to `sti`, `hcf` | each call finds what it needs; ends up or in `hcf` | `Boot`, `MCBoot`, `BootProofs` |
| Limine header, build files | - | - | - | not modelled |

How they interact. `kmain` calls everything, in one thread. The heap's bitmap
begins in a page of the physical allocator and runs on into fifteen that others
get, page tables and pages of the heap itself; `vmm_alloc` takes its
tables from the physical allocator and reaches them through the boot loader's
direct map; the heap's blocks lie in pages that `kmain` maps, the first 2 MiB
of 8. A touch of an unmapped page raises vector 14, whose handler never
returns. After `sti` the keyboard's handler may run between any two of
`kmain`'s instructions; it shares the serial port with it, and no memory. The
processor walks and caches page tables on its own at any time.

What is hard here: the roundings between bytes, pages, words and blocks; a
bitmap that lies in what it describes; failure answers nobody checks; tables
that are walked while they are built; a direct map
that is made of the tables it leads to; edges lost on a masked pin; interrupts
between any two instructions; two programs on one serial port; a counter read
in two halves while it runs; tables the firmware wrote; loops over overlapping
memory. `PROJECT.json`
lists these hazards line by line, with the properties that watch them; where
the code does what the hazard says, and the properties only bound it or say
where it happens, a note there says so.

## Modules

**`HeapSpec`** is what callers may rely on: a request is answered in one step
by a free run with room for it and a header. Only when there is none may the
answer be NULL, or the heap be left (`Overrun`). A size that wraps gets a header
and no room, and its caller leaves the heap when it uses the rest (`Trespass`).

**`Heap`** is the code. `kmalloc` is one loop iteration per step, with its
locals as variables: `ScanFree`, `ScanUsed` are the two arms of the `if`,
`KmallocReturn` the inner `if` with its writes, `KmallocNull` the end.
`kfree` clears as many bits as the header in `mem` says, and `CallerWrite` lets
the caller overwrite any byte that is its own, so that a header is safe only if
the arithmetic is right. Arithmetic is modulo `SIZE_MOD`, and sizes that wrap
are asked for (`Wraps`): what a caller then writes beyond its header's block is
not modelled, the kernel is `astray` (`CallerAstray`).

The heap owns only the bits in the page that `heap_bitmap_pointer` allocates
(`OwnedBlocks`: 4096 * 8 bits, for 512 KiB of the 8 MiB). `pmm_heap_bitmap`
shows that the other fifteen pages it clears are handed out, and by the first
`kmalloc` they hold page tables and pages of the heap. So their bits
(`Foreign`) are anything at the start and may change at any time, also in the
middle of a search (`OthersWrite`). A run with such a bit makes `kmalloc` set
bits in somebody's page: the kernel is `astray` (`KmallocAstray`), or faults
first if the header's page was never mapped (`KmallocFault`). There the model
stops. What the heap promises, it promises of its own bits until then:
`Accounting`, `FirstFit` and `HeapSpec` speak of these, with `Full` as the only
reason to go beyond. What this assumes of the rest of the kernel: the page
allocator found a page for the bitmap, and the pages behind the heap's blocks
(where the headers and payloads are) are pages of its own, which is `Pmm`'s
`NoDoubleHandOut`, where page 0 is not taken for one (`paging_zero`), the
memset missed the page bitmap (`Intact`), and the heap's window is clear of the
direct map (`DirectMapKept`). None of the heap's blocks then lies in the page
the heap owns bits in. Blocks do lie in the pages behind it: writing their
headers and payloads changes foreign bits, which `OthersWrite` covers, and
`kmalloc` setting foreign bits may write headers and payloads, where the model
stops. The refinement maps "inside the loop" to a pending
request.

**`Pmm`** runs the steps of `init_bitmap_pmm` in their order, over any memory
map the boot loader may report, then `pmm_alloc2` any number of times. The set
`locked` is the set bits; `BitAddress` is the byte each bit lives at, so that
filling or clearing memory can hit the bitmap itself. `pmm_alloc2` looks at
the words its loop bound allows (`Window`). `heap_bitmap_pointer` takes one
page and clears 64 KiB (`Memset`): it may clear a part of the bitmap
(`Cleared`), and it may reach a page that is not usable memory, where it faults
if the boot loader did not map that page; what it overwrites there if it did is
not kept. `MCPmm` enumerates the memory maps.

**`AddressSpace`** says what mapping a page means: one translation changes, in
one step, to what was asked for. **`Paging`** is `vmm_alloc`'s walk, one table
per step: a missing table is taken and cleared (`NewTable`), linked in a
separate step (`Link`), and the last entry is written before `invlpg`. `Fill`
is the processor, which may walk the tables between any two of these. A frame
handed out holds whatever was there before. The kernel reaches every table and
new page through the boot loader's direct map (`Through`), which is a part of
the same tables, with large pages of which `vmm_alloc` knows nothing. The
heap's window (at the fixed `HEAP_VIRT_START`) may be clear of it, over its
small pages or under a large one; where the kernel then goes `astray`, by
taking a large page for a table or by losing the page of a table or of the
bitmap, the model stops. `MCPaging` has the boot loader's tables and two kinds
of left-over contents. Only the virtual pages in `Pages` are looked at.

**`Keyboard`** is an edge-triggered pin, a one-byte controller and a keyboard
that may press a key at any time, beside `kmain`'s drain loop and `sti`, and
the handler's read, EOI and `iretq`. **`Serial`** adds to each of its steps
what the serial port does: `init_serial` write by write, then `write_serial` as
two steps, `Wait` (the look at the status) and `Write`, for `kmain` and for the
handler, which prints between its read and its EOI and may come between
`kmain`'s two steps. The port is a FIFO that may be off, and its registers are
what the boot loader left. `kmain` prints with `kprintf` (`Scan`, one turn of
its loop). **`Kprintf`** has what the scanner does with a format and its
arguments, digit by digit, and, written another way, what a format means:
`Decimal` and `Numeral` choose the digits whose value the number is.

**`Boot`** is `kmain` up to `sti`: its calls in their order (`Kmain`), each of
which faults without what it needs (`Needs`), and the checks that end in `hcf`.
It composes three modules whose steps run inside it. **`Acpi`** is the scan of
the RSDT and the walk over the MADT's entries, byte by byte as the firmware
wrote them. A read behind the table gives any byte of `Garbage`, anew each
time, and the walk goes on with it. **`Timer`** is the calibration against the
PIT: latch, low byte, high byte, comparison, with time passing between any two. **`Segments`** has
the bytes of the GDT and of the interrupt gates as the kernel writes them, and
what the processor makes of them. `Boot` gives the local APIC the registers
that decide what may interrupt, as reset or as the firmware left them, LINT1
and the spurious vector among them.
`MCBoot` lists the tables.

**`Interrupts`** executes the stubs push by push. The stack is a sequence of
words, each tagged with what it is, so that a swapped or missing word shows in
the field the C handler reads and in what `iretq` resumes. Gates, stub macros,
`PUSH_ALL`, `PULL_ALL` and `struct stack_frame` are separate definitions, as
they are separate in the code, which nothing there keeps in step. A vector
without a gate becomes a double fault. The code loads `rax` before saving it
(`Stub`).

**`Memory`** is the four loops, one byte per step, called with every pair of
ranges that fit. **`Console`** is `draw_sentence` one character per step (a tab
is a look at the column and its four blanks), over pixels numbered as the code
numbers them, with none clipped.

## Runs

Each passing property also has a mutant of the code in `PROJECT.json` under
which TLC finds it violated.

| Run | Question | Bounds, and why they are enough |
|---|---|---|
| `heap` | is the allocator consistent, first fit, an implementation of `HeapSpec`, and does every call end | 6 blocks of 2 bytes, of which the heap has 4 bits of its own (runs of 1, 2 and 3 blocks, up to four live at once, fragmentation and refusal fit in them), one more is mapped (a run may begin in it, or run into it) and the last is not (a header there faults); the 2 foreign bits take every value at every step; sizes 0, 2 and 3 (none, exact, rounded up), 6 (fits only an empty heap's own blocks) and 7, which wraps modulo 8; one junk value |
| `pmm` | is the bitmap built right, and are pages handed out once | every cut of 16 pages of 4 bytes into three pieces, each usable, reserved (ending inside a page) or absent; 2 bits and 2 bytes a word make a bitmap of several pages, so its own pages, a partly filled last one, no room for it, the clearing of it by the heap's memset, and a memset that reaches reserved or absent pages occur |
| `pmm_window` | does `pmm_alloc2` fail only when no page is free | the same; **violated** |
| `pmm_heap_bitmap` | do the heap bitmap's pages belong to it | the same; **violated** |
| `paging` | are tables fit to walk at every moment, do they and the bitmap stay within reach | three levels of four entries (four levels add nothing a third does not: first, middle and last table); a window of three pages that share tables at every depth, one over the direct map's small pages, one under a large page; one device; five free frames, some under small and some under large pages: tables made, shared and exhausted |
| `paging_zero` | is page 0 never used | the same; **violated** |
| `keyboard` | is every key read, at most one twice; does the text of both printers arrive whole; do `kprintf` and the handler end | three keys, pressed before, during and after each step (a stale request, a key that overtakes it and a merged request need three); every directive alone and pairs in every order, a lone `%` at the end; ints of four bits in words of eight, the smallest among them; a FIFO of two; two states of the port |
| `interrupts` | does interrupted code resume, do frames match | every exception at any instruction of `kmain` that could raise it; requests and NMIs at any instruction of `kmain`, stubs and handlers: the error vector, the keyboard's, one without a gate (255) and NMI, nested up to three deep; two values a register |
| `interrupts_rax` | does `rax` survive too | the same; **violated** |
| `memory` | do the loops do what their names say | 4 bytes of 3 values, so every overlap, order and length of ranges; fills below and above a byte's range |
| `console` | do characters overlap, do writes stay on the screen | 5 pixels wide (a remainder beside two glyphs of 2), rows with and without padding, heights that scroll and that let `line` wrap, tabs of 2 |
| `boot` | does `kmain` come to `sti` with all that its interrupts need, or stop in `hcf` | each answer of the boot loader missing or insufficient, RSDTs of up to two of the tables (the I/O APIC first, second, twice, not there, an entry of length 0, one cut short, one that is a single byte, with what lies behind them), three states of the local APIC (reset, LINT1 as an NMI, LINT1 as a vector), a period of 7 ticks read in digits of base 3 and hold-ups of up to 4 ticks (a byte wraps between its two reads, a count is seen twice, a reload falls between any two steps) |

`PagesLast` in `paging` stops TLC at the first state in which pages ran out:
`vmm_alloc` then writes through page 0, the refinement's `Fail` promises
nothing, and the properties are conditional on `~exhausted`. `Pmm`'s `Intact`
says that the heap bitmap's memset missed the page bitmap; `pmm_heap_bitmap` is
about what happens otherwise. `Serial` stops when no key is left to press and
all text has arrived, so its run does not look for deadlock; every other run
does, and the machine's endless loops are explicit steps (`Halted`, `Spin`,
`Stays`).

### What the violations show

- `pmm_window`: `bitmap_length` counts words but is divided by 64 as if it
  counted pages, so `pmm_alloc2` sees a 64th of the memory and fails with the
  rest free.
- `pmm_heap_bitmap`: sixteen pages are cleared for the heap's bitmap, of which
  one was allocated. The others are handed out to others, or are the page
  bitmap.
- `paging_zero`: `pmm_alloc2` answers 0 without a page, `vmm_alloc` and `kmain`
  use it, and page 0 becomes a page table.
- `interrupts_rax`: the stub loads `rax` before `PUSH_ALL`; interrupted code
  resumes with `rax` changed. All other registers are restored.

More facts are in the models without a run of their own:

- The heap's bitmap has bits for 8 MiB, `kmain` maps 2, and the page allocated
  for the bitmap has bits for 512 KiB. When nothing fits there, `kmalloc` goes on
  in bits that are in others' pages, and past the 2 MiB faults on its own header,
  with the bits set, instead of answering NULL: `HeapSpec` has `Overrun` as an
  outcome, and `ImplementsHeapSpec` says that it needs a full heap.
- A size within 15 of 2^64 wraps `kmalloc`'s rounding: the answer is a header
  without room. `BigEnough` says that only such sizes get that.
- The memset of the heap's bitmap writes fifteen pages nobody allocated for it.
  They may be reserved, where it overwrites the firmware's memory or faults.
- LINT1 is made an NMI, and the spurious vector is left as it was found: neither
  has a gate. `OnlyNmiAndSpuriousUngated` says that these are the only two
  among what the local APIC and the keyboard's pin may bring. `Interrupts` has
  what becomes of them: the kernel stops in the double fault's loop, and
  `isr_handler_C`'s default case is never reached.
- `newLine` compares the line with the height in pixels, so a long text leaves
  the screen at the bottom, a tab may leave it on the right, and `scrollUp`
  writes the row before the first: `OnScreen` is stated for a cursor on the
  screen, and `TypeOK` bounds how far the others go.
- The heap's window begins at 0xFFFF800000000000, where the boot loader puts
  its direct map unless told otherwise. `DirectMapKept` says that only there
  the kernel loses its way: mapping the heap then replaces the direct map's
  first 2 MiB, or takes a large page for a table.
- A MADT entry of length 0 stops the walk from advancing. Without an I/O APIC
  `ioapic_base` stays 0 (`IoapicFound`), `kmain` maps page 0 and `set_IRQ`
  writes there.
  `BootEnds` is stated for tables that are neither (`Suitable`).
- `kprintf` with `%c` reads a `char` from its arguments, which gcc compiles to
  an invalid opcode: the kernel stops in the handler of vector 6. `Scan` has
  this and the outcome of other compilers, and `KprintfReturns` allows both.
- A format that ends in a lone `%` makes `kprintf` read on behind its end:
  `TextIntact` promises nothing of it.

## Fairness

`Heap` assumes weak fairness of the search loop alone: a call, once made, is
executed. Callers owe nothing. `Memory` assumes the same of its loops.
`Serial` assumes it of the controller taking a byte the keyboard holds, of the
port sending a character it has, of the processor taking an interrupt it can
take, of the handler's steps and of `kmain`'s: hardware and code that are
running. Nobody has to press a key. While `kmain` discards, keys could keep it
busy for ever; their number is bounded by `MaxKeys`. `Boot` assumes it of
`kmain`'s calls and of time. That the firmware holds the kernel up for less
than a period between two latched counts is a bound (`MaxGap`), not fairness:
`Timer`'s loop cannot notice a longer one. The other modules state no liveness.

## Proofs

All proofs are for every value of the constants that satisfies the modules'
`ASSUME`s, over the same modules and definitions TLC runs.

- **`HeapProofs`**: `TypeOK`, `Disjoint`, `Accounting`, `HeaderIntact`,
  `BigEnough`, `LoopInvariant`, `FirstFit` and `ImplementsHeapSpec`, for any
  part of the bitmap that is the heap's own and any sizes, those that wrap among
  them. The conjunction of the invariants is inductive. `LoopInvariant` is
  the heart: as far as the heap's own bits go, the run counted so far is free,
  begins at `start_bit`, and no run long enough ends before `i`, whatever
  becomes of the other bits meanwhile; the first two give `Disjoint` and `Accounting`
  when the run is taken, the third gives `FirstFit`, and at the end of the scan
  it gives the refinement's "nothing fits". `HeaderIntact` needs `BigEnough`
  and `Disjoint`: a payload's last byte lies in the run's last block.
- **`PmmProofs`**: `TypeOK`, `BitmapCoversRam`, `BitmapInRam`, `FreeExactly`,
  `PagesSound`, `NoDoubleHandOut`, for every memory map whose usable entries
  are page aligned (the boot protocol says so) and every page and word size.
  `BitmapInRam` also says that the bitmap stays NULL, and boot stops, only if
  no usable entry holds it.
  The inductive invariant says for each boot step what `locked` is; the
  arithmetic is that rounding up to pages, then to words, covers every page,
  and that the bitmap's bytes fit in the entry that holds it.
- **`SerialProofs`**, first for `Keyboard` alone: `TypeOK`, `NoStuckKey`,
  `OneStaleAtMost`, for any number of keys. `NoStuckKey` needs that the pin is
  unmasked before the first look at the controller and that `kmain` discards
  only a byte it has seen. `OneStaleAtMost` needs an account of requests
  without a byte (`Spare`): there is never more than one, and none after a
  stale byte has been read. Then for `Serial`: it implements `Keyboard` (every
  step is one of its steps or leaves its variables alone), so that both
  properties hold with a handler that waits for the port. `Room`: a printer
  that has seen the port ready finds room in the FIFO, for any FIFO of two
  characters or more. The invariant (`RoomInv`) says that the handler is alone
  with the port once it has seen it ready, and that a handler which interrupts
  `kmain` there leaves one character at most.
  `SerialTypeOK` and `TextIntact`, for any formats, strings, ints, words and
  bases from 2 to 16. The invariant (`TextInv`) says that the scanner stands
  behind some number of the format's directives, with the arguments of the
  others left; that what `kmain` has sent, has in the port and has still to
  write is the banner and the output of the directives passed, and likewise for
  the handler and its scan codes; and that the port has the divisor that makes
  its characters legible before it gets the first one. It uses `RoomInv`: a
  character without room would be lost. What `kprintf` prints for a number is a
  matter of arithmetic and has theorems of its own. `DecimalPrinted`: the loop
  that takes the digits from the last to the first, and what the negation of an
  int held in a longer word gives, make the numeral with that value, of which
  there is one (`NumeralUnique`) and one length (`NumeralLength`). That needs
  `INT_MOD < LONG_MOD`: `kprintf` takes an `int` and prints an `int64_t`, so
  that the smallest int has a negation. `HexPrinted`: shifting and masking
  nibbles makes the numeral of that many digits.
- **`PagingProofs`**: `TypeOK`, `TablesAreATree`, `TlbCoherent`,
  `DirectMapKept` and `ImplementsAddressSpace`, for any number of levels, any
  size of table, any tables the boot loader may hand over, any window and any
  pages mapped in any order. What `Handover` assumes of the boot loader is what
  its protocol promises and `kmain` asks for (`main.c:12`, base revision 4): a
  tree of tables, in memory it does not report as usable, and a direct map of
  all memory. The invariant (`Tidy`, `InReach`, `Calling`) says that two walks
  that pass the same table came to it by the same indexes (`OneWay`), that the
  kernel has not lost a table unless it is `astray`, that the table it looks at
  is the one the processor's walk for the same page passes, and that a table
  which is made but not linked is empty and in nobody's walk. `Slotted` is the
  lemma the steps share: writing one entry of one table changes the walks that
  pass that entry and no other. All of this ends when pages run out; that the
  variables keep their types does not, and has a proof of its own. The
  refinement needs the same invariant: linking an empty table changes no
  translation, and the last write changes one.
- **`InterruptsProofs`**: `FrameMatches`, `StackBalanced`, `ResumesButRax` and
  `OneDeviceAtATime`, for any exceptions, requests and contents of registers,
  and for interrupts nested as deep as gates and requests allow. The invariant
  says for the latest interrupt and, by the `rip` the processor pushed, for
  each one below it, which words are on the stack at this instruction of the
  stub and which registers are back (`Layout`, `RestoredFrom`). That `PULL_ALL`
  is `PUSH_ALL` backwards and that `struct stack_frame` lists both is used
  where it should be: in the lemmas on one push, one pull and one field.
- **`BootProofs`**: `OnePeriodMeasured`, for any period, radix and rate and any
  hold-up shorter than a period: the invariant relates the last two counts to
  the ticks at which they were latched, with no reload between them or the
  first one. And `OnlyNmiAndSpuriousUngated`, for any answers, tables and
  hold-ups and the three states of `Registers`: by the time of each call the
  registers have what the calls before it wrote.
  `DescriptorsUsable`: the bytes that `set_segment`, `set_TSS` and `set_gate`
  store, for any addresses of the TSS and the stubs, are a code segment, a data
  segment, a TSS and gates to the processor that reads them. `IoapicFound`, for
  any RSDT and any MADTs, of which the well-formed lead to the first I/O APIC
  and no read leaves them: `AtEntry` says that the walk stands where an entry
  begins, that none before it was an I/O APIC, and so that the next two bytes
  are a type and a length. `KeyboardArmed` joins the two: at `sti` the pin, its
  address and the local APIC are as the first key needs them. `BootTypeOK`
  needs `IoapicFound`'s invariant, for the reads it is about.
- **`MemoryProofs`**: `TypeOK`, `Copied`, `Filled`, `Compared`, for any size,
  byte and arguments. The invariant of a copy says which bytes have been moved
  and that the others, of `src` too, are as before; the comparison of the two
  pointers is what keeps a byte from being overwritten before it is read.
- **`ConsoleProofs`**: `TypeOK`, `TextIntact` and `OnScreen`, for framebuffers,
  glyphs and tabs of any size. `TypeOK` bounds the pixels that a cursor below
  or right of the screen can name (`Offsets`). Two cells on the screen's
  columns share no pixel, since an offset has one row and one column; scrolling
  happens only below the last line of characters.

Where a proof needs induction over numbers (the levels of a walk, the entries
of a table, the bytes before them, the digits of a numeral, the directives of a
format), it does without the library's theorem, which takes an operator: `UpTo`
gets it from the pigeonhole principle for finite sets. That a recursive function
satisfies its definition (`Value`, `Power`, the fold behind `FlattenSeq`) comes
from `Recursion`, which builds the function one value after the other; `Buffer`,
which goes down by a division, has a lemma of its own (`BufferIs`).

Every safety invariant that a run checks has a theorem. Only model-checked are
the liveness properties (`KmallocEnds`, `KprintfReturns`, `EveryKeyServed`,
`Returns`, `BootEnds`), which the prover cannot do under fairness, and what
the runs that expect a violation show.

## Abstractions

Bits are sets, pages and blocks numbers. The flags of a page table entry are
left out, but for the one of a large page. `Pmm` and `Paging` are separate:
`Paging`'s pool hands out the lowest free frame, which is what `Pmm` proves of
`pmm_alloc2` (a page nobody has), and `Pmm` takes the direct map for an
identity. In `Interrupts` a register's contents are a tag; `kmain`'s
instructions change all of them at once, and an interrupt may come before any.
A stub's two pushes and its load of `rax` and jump are one step (`Stub`): an
interrupt between them, which only #DB's gate lets in, would find the same
words and, since every stub loads the same address, leave the same `rax`.
Exceptions come at `kmain`'s instructions only, not in stubs and handlers, and
the processor's alignment of the stack is left out: `iretq` undoes it.
In `Console` colors and glyphs are left out, and the owner of a pixel is kept
in their place. In `Serial` `kmain`'s work between its prints is nothing; the
handler's line of text is one character; the word `kprintf` reads for the
handler's `scancode` is the byte, zero-extended, as compilers pass it. In
`Boot` each mapping is one step (512 of the heap's pages too), writes of
`LVT_error` 0 and then the vector are one, and pages do not run out. In `Timer`
the PIT's counter is loaded at once, and a latched count is always one it had.

## Not modelled

- The vendored boot protocol header (`limine.h`), beyond the responses and map
  entries that are inputs of `Boot` and `Pmm`; build files and linker script.
- The font, which is 4600 of the 4706 lines of `fb.c`: 256 glyphs of pixels, on
  which nothing but the look of a character depends. With `limine.h` it is
  more than three quarters of the repository's lines.
- The timer's divide register, and the TSS's own fields, which the processor
  reads only on a change of privilege.
- Interrupts other than those of the local APIC's own lines and of the
  keyboard's pin: the I/O APIC's other pins, message-signalled interrupts and
  what other processors might send stay as the firmware left them.
- What the kernel does once it is `astray` or has taken a fault in `Heap`: after
  it has written memory that is another's, anything may follow.
- An RSDP of revision 2, whose RSDT may be missing: the code looks at the RSDT
  in every case, and `check_RSDP` is never called. The I/O APIC's destination
  field is or-ed with 0, so that it stays what the firmware left: taken for the
  boot processor.
- Functions nobody calls: `kfree` of a pointer that is not from `kmalloc` is
  undefined and not made by `Heap`'s callers; `get_lapic_base`, `str`, `ud0`.
