-------------------------------- MODULE Boot --------------------------------
(***************************************************************************)
(* kmain of src/main.c, from its first line to sti: the calls in their     *)
(* order, what each of them needs of those before it, and what the boot    *)
(* loader and the firmware may have left.  The scan of the ACPI tables,    *)
(* the calibration of the timer and the descriptor table are those of      *)
(* Acpi, Timer and Segments; the other parts of kmain are one step here    *)
(* and have modules of their own.                                          *)
(***************************************************************************)
EXTENDS Acpi, Timer, Segments

CONSTANT NULL

VARIABLES
  step,              (* the next of kmain's calls                          *)
  status,            (* "running", "hcf", "fault", or "up" after sti       *)
  answers,           (* the boot loader's responses                        *)
  gdt, gdtr,         (* a_gdt, and whether the processor uses it           *)
  cs,                (* the selector in CS                                 *)
  idt,               (* i_entry's gates, NULL before lidt                  *)
  ready,             (* parts of memory set up: "pmm", "lapic", "ioapic"   *)
  lapic,             (* the local APIC's registers                         *)
  pic_masked,        (* the old interrupt controller is silent             *)
  pin                (* where the keyboard's redirection entry was written,*)
                     (* and its vector; NULL before                        *)

cpu == <<gdt, gdtr, cs, idt>>
devices == <<lapic, pic_masked, pin>>
bootvars == <<step, status, answers, cpu, ready, devices>>
allvars == <<acpivars, timervars, bootvars>>

-----------------------------------------------------------------------------
(* What the boot loader and the firmware leave *)

Good == [base |-> "ok", framebuffer |-> "ok", hhdm |-> "ok", memmap |-> "ok", rsdp |-> "ok"]

(* One answer may be missing, or not be what kmain needs.                  *)
Answers ==
  {Good, [Good EXCEPT !.base = "unsupported"]}
    \cup {[Good EXCEPT !.framebuffer = a] : a \in {"NULL", "no framebuffer"}}
    \cup {[Good EXCEPT !.hhdm = "NULL"]}
    \cup {[Good EXCEPT !.memmap = a] : a \in {"NULL", "no entries", "NULL entries"}}
    \cup {[Good EXCEPT !.rsdp = a] : a \in {"NULL", "NULL address"}}

(* The boot loader's code selector, which lies where a_gdt has its TSS.    *)
LIMINE_CS == 40

Line(masked, vector) == [masked |-> masked, vector |-> vector]

(* LINT1 also has a delivery mode, bits 8-10 of its entry: 0 for its own   *)
(* vector, 4 for an NMI, which comes with vector 2 whatever the entry says.*)
NmiMode == 4
NmiVector == 2
Pin(masked, mode, vector) == [masked |-> masked, mode |-> mode, vector |-> vector]

(* The local APIC after reset, or as firmware that used it left it.  The   *)
(* low byte of SVR is the vector of its spurious interrupts.               *)
Registers ==
  {[on |-> FALSE, spurious |-> 255, tpr |-> 0, timer |-> Line(TRUE, 0), error |-> Line(TRUE, 0),
    lint0 |-> Line(TRUE, 0), lint1 |-> Pin(TRUE, 0, 0)],
   [on |-> TRUE, spurious |-> 15, tpr |-> 15, timer |-> Line(TRUE, 0), error |-> Line(FALSE, 3),
    lint0 |-> Line(FALSE, 8), lint1 |-> Pin(FALSE, NmiMode, 0)],
   [on |-> TRUE, spurious |-> 15, tpr |-> 15, timer |-> Line(TRUE, 0), error |-> Line(FALSE, 3),
    lint0 |-> Line(FALSE, 8), lint1 |-> Pin(FALSE, 0, 9)]}

BootInit ==
  /\ AcpiInit /\ TimerInit
  /\ step = 1 /\ status = "running"
  /\ answers \in Answers
  /\ gdt = EmptyGdt /\ gdtr = FALSE /\ cs = LIMINE_CS /\ idt = NULL
  /\ ready = {}
  /\ lapic \in Registers /\ pic_masked = FALSE /\ pin = NULL

-----------------------------------------------------------------------------
(* kmain *)

InterruptsFirst ==
  <<"init_interrupts", "fill_gdt", "lgdt", "ltr", "reload_segments",
    "base", "framebuffer", "hhdm", "memmap", "rsdp",
    "madt_parsing", "init_bitmap_pmm", "map_lapic", "map_ioapic", "map_heap",
    "SVR", "init_APIC_timer", "init_APIC_error", "LINT0", "disable_pic", "LINT1",
    "cr8", "init_IOAPIC", "sti">>
IoapicEarly ==
  <<"fill_gdt", "lgdt", "ltr", "reload_segments", "init_interrupts",
    "base", "framebuffer", "hhdm", "memmap", "rsdp",
    "init_bitmap_pmm", "map_lapic", "map_ioapic", "map_heap", "madt_parsing",
    "SVR", "init_APIC_timer", "init_APIC_error", "LINT0", "disable_pic", "LINT1",
    "cr8", "init_IOAPIC", "sti">>
Kmain ==
  <<"fill_gdt", "lgdt", "ltr", "reload_segments", "init_interrupts",
    "base", "framebuffer", "hhdm", "memmap", "rsdp",
    "madt_parsing", "init_bitmap_pmm", "map_lapic", "map_ioapic", "map_heap",
    "SVR", "init_APIC_timer", "init_APIC_error", "LINT0", "disable_pic", "LINT1",
    "cr8", "init_IOAPIC", "sti">>

At(call) == status = "running" /\ Kmain[step] = call

Return == step' = step + 1 /\ UNCHANGED status
Fault == status' = "fault" /\ UNCHANGED step
Halt == status' = "hcf" /\ UNCHANGED step

(* A call that needs something returns if it is there, and faults if not.  *)
Needs(condition) == IF condition THEN Return ELSE Fault

init_gdt ==
  /\ \/ At("fill_gdt") /\ gdt' = FilledGdt /\ Return /\ UNCHANGED <<gdtr, cs>>
     \/ At("lgdt") /\ gdtr' = TRUE /\ Return /\ UNCHANGED <<gdt, cs>>
     \/ /\ At("ltr")                  (* which marks the TSS busy          *)
        /\ Needs(IsTss(gdt, ltr_selector, {AvailableTss}))
        /\ gdt' = [gdt EXCEPT ![ltr_selector + 5] = @ + 2]
        /\ UNCHANGED <<gdtr, cs>>
     \/ /\ At("reload_segments")
        /\ Needs(IsKernelCode(gdt, cs_selector) /\ IsKernelData(gdt, ds_selector))
        /\ cs' = cs_selector
        /\ UNCHANGED <<gdt, gdtr>>
  /\ UNCHANGED <<acpivars, timervars, answers, idt, ready, devices>>

(* Its gates have the selector that CS has now.                            *)
init_interrupts ==
  /\ At("init_interrupts")
  /\ idt' = FilledIdt(cs)
  /\ Return
  /\ UNCHANGED <<acpivars, timervars, answers, gdt, gdtr, cs, ready, devices>>

Check(answer) ==
  /\ At(answer)
  /\ IF answers[answer] = "ok" THEN Return ELSE Halt
  /\ UNCHANGED <<acpivars, timervars, answers, cpu, ready, devices>>

ParseMadt ==
  /\ At("madt_parsing")
  /\ \/ acpi # "done" /\ madt_parsing /\ UNCHANGED <<step, status>>
     \/ acpi = "done" /\ Needs(answers.rsdp = "ok" /\ answers.hhdm = "ok") /\ UNCHANGED acpivars
  /\ UNCHANGED <<timervars, answers, cpu, ready, devices>>

init_bitmap_pmm ==
  /\ At("init_bitmap_pmm")
  /\ Needs(answers.memmap = "ok" /\ answers.hhdm = "ok")
  /\ ready' = ready \cup {"pmm"}
  /\ UNCHANGED <<acpivars, timervars, answers, cpu, devices>>

(* vmm_alloc, which takes pages for tables: once for each device, and for  *)
(* the heap.                                                               *)
MapPages(call, part) ==
  /\ At(call)
  /\ Needs("pmm" \in ready)
  /\ ready' = ready \cup {part}
  /\ UNCHANGED <<acpivars, timervars, answers, cpu, devices>>
map_ioapic ==
  MapPages("map_ioapic", IF ioapic_base = 0 THEN "page 0" ELSE "ioapic")

(* While the local APIC is off, its entries cannot be unmasked.            *)
Lvt(masked, vector) == [masked |-> masked \/ ~lapic.on, vector |-> vector]

WriteLapic(call, registers) ==
  /\ At(call)
  /\ Needs("lapic" \in ready)
  /\ lapic' = registers
  /\ UNCHANGED <<acpivars, timervars, answers, cpu, ready, pic_masked, pin>>

(* The timer's entry, periodic and masked, is written before the counting. *)
CalibrateTimer ==
  /\ At("init_APIC_timer")
  /\ \/ "lapic" \notin ready /\ Fault /\ UNCHANGED <<timervars, lapic>>
     \/ /\ "lapic" \in ready /\ timer # "done"
        /\ init_APIC_timer
        /\ lapic' = [lapic EXCEPT !.timer = Lvt(TRUE, 33)]
        /\ UNCHANGED <<step, status>>
     \/ "lapic" \in ready /\ timer = "done" /\ Return /\ UNCHANGED <<timervars, lapic>>
  /\ UNCHANGED <<acpivars, answers, cpu, ready, pic_masked, pin>>

SvrUntouched == lapic
SvrOn == [lapic EXCEPT !.on = TRUE]

Lint0Untouched == lapic
Lint0Masked == [lapic EXCEPT !.lint0 = [masked |-> TRUE, vector |-> @.vector]]

(* |= 0b100 << 8: whatever mode it had, its highest bit is set.            *)
Lint1Untouched == lapic
Lint1Nmi ==
  LET mode == lapic.lint1.mode
  IN  [lapic EXCEPT !.lint1 =
         Pin(@.masked, IF mode < NmiMode THEN mode + NmiMode ELSE mode, @.vector)]

init_LAPIC ==
  \/ WriteLapic("SVR", SvrOn)
  \/ CalibrateTimer
  \/ WriteLapic("init_APIC_error", [lapic EXCEPT !.error = Lvt(FALSE, 32)])
  \/ WriteLapic("LINT0", Lint0Masked)
  \/ /\ At("disable_pic") /\ Return
     /\ pic_masked' = TRUE
     /\ UNCHANGED <<acpivars, timervars, answers, cpu, ready, lapic, pin>>
  \/ WriteLapic("LINT1", Lint1Nmi)
  \/ /\ At("cr8") /\ Return
     /\ lapic' = [lapic EXCEPT !.tpr = 0]
     /\ UNCHANGED <<acpivars, timervars, answers, cpu, ready, pic_masked, pin>>

(* set_IRQ(1, 0x32).  Without an I/O APIC it writes to the page mapped at  *)
(* 0, whose physical address may be more than the machine has.             *)
init_IOAPIC ==
  /\ At("init_IOAPIC")
  /\ \/ Needs("ioapic" \in ready \/ (ioapic_base = 0 /\ "page 0" \in ready))
     \/ ioapic_base = 0 /\ Fault
  /\ pin' = [base |-> ioapic_base, vector |-> 50]
  /\ UNCHANGED <<acpivars, timervars, answers, cpu, ready, lapic, pic_masked>>

sti ==
  /\ At("sti")
  /\ status' = "up"
  /\ UNCHANGED <<acpivars, timervars, step, answers, cpu, ready, devices>>

Call ==
  \/ init_gdt \/ init_interrupts
  \/ \E answer \in DOMAIN Good : Check(answer)
  \/ ParseMadt \/ init_bitmap_pmm
  \/ MapPages("map_lapic", "lapic") \/ map_ioapic \/ MapPages("map_heap", "heap")
  \/ init_LAPIC \/ init_IOAPIC \/ sti

TimePasses == Tick /\ UNCHANGED <<acpivars, bootvars>>

(* A processor that has halted, faulted or come up, and the scan of a      *)
(* MADT whose entry has length 0, go on as they are.                       *)
Stays == status # "running" /\ UNCHANGED allvars

BootNext == Call \/ TimePasses \/ Stays

BootSpec == BootInit /\ [][BootNext]_allvars
BootFairSpec == BootSpec /\ WF_allvars(Call) /\ WF_allvars(TimePasses)

-----------------------------------------------------------------------------
(* Properties *)

BootTypeOK ==
  /\ AcpiTypeOK /\ TimerTypeOK
  /\ step \in 1 .. Len(Kmain)
  /\ status \in {"running", "hcf", "fault", "up"}
  /\ answers \in Answers
  /\ gdt \in [0 .. GdtSize - 1 -> 0 .. 255] /\ gdtr \in BOOLEAN
  /\ cs \in {LIMINE_CS, cs_selector}
  /\ idt = NULL \/ idt \in [Stubs -> [1 .. 16 -> 0 .. 255]]
  /\ ready \subseteq {"pmm", "lapic", "ioapic", "page 0", "heap"}
  /\ pic_masked \in BOOLEAN

(* Once the processor uses a_gdt, its entries are what the selectors that  *)
(* the kernel loads need, with the base and limit of tss_entry, and the    *)
(* gates of the interrupt table lead to their stubs: their selector was    *)
(* read from CS, and would name the TSS had it been read before            *)
(* reload_segments.                                                        *)
DescriptorsUsable ==
  gdtr =>
    /\ IsKernelCode(gdt, cs_selector) /\ IsKernelData(gdt, ds_selector)
    /\ IsTss(gdt, ltr_selector, {AvailableTss, BusyTss})
    /\ idt # NULL => \A n \in Stubs : IsGate(gdt, idt[n], IsrAddress[n])

(* The vectors that the local APIC, through its own entries or for a       *)
(* spurious interrupt, and the keyboard's pin may interrupt with, but that *)
(* have no gate.                                                           *)
Ungated ==
  LET unmasked == {e \in {lapic.timer, lapic.error, lapic.lint0} : ~e.masked}
      nmi == lapic.lint1.mode = NmiMode
  IN  ({lapic.spurious, pin.vector}
         \cup {e.vector : e \in unmasked}
         \cup (IF lapic.lint1.masked THEN {} ELSE {IF nmi THEN NmiVector ELSE lapic.lint1.vector}))
      \ Stubs

(* When interrupts are switched on, the vectors without a gate are exactly *)
(* these: that of spurious interrupts, which the code leaves as it found   *)
(* it, and the NMI of LINT1 if the firmware left LINT1 unmasked.  Whatever *)
(* else the firmware left unmasked, the old controller and its input are   *)
(* silent, the other entries have gates of their own or are masked, and    *)
(* errors are not kept from being reported.                                *)
OnlyNmiAndSpuriousUngated ==
  status = "up" =>
    /\ pic_masked /\ lapic.lint0.masked
    /\ ~lapic.error.masked
    /\ Ungated = {lapic.spurious} \cup (IF lapic.lint1.masked THEN {} ELSE {NmiVector})

(* Tables as they should be, with an I/O APIC among them.                  *)
Suitable == (\A k \in DOMAIN rsdt : WellFormed(rsdt[k])) /\ Listed # {}

(* By then the keyboard's pin is the one of the I/O APIC that the tables   *)
(* list, and the local APIC passes its interrupts on.                      *)
KeyboardArmed ==
  status = "up" /\ Suitable =>
    /\ pin.base = ListedAddress + HHDM
    /\ lapic.on /\ lapic.tpr = 0

(* kmain comes to sti, or stops in hcf when the boot loader's answers do   *)
(* not suffice: it never faults and never hangs, if the tables are suitable*)
(* and the firmware holds the kernel up for less than a period at a time.  *)
BootEnds ==
  [](Suitable => <>(status = IF answers = Good THEN "up" ELSE "hcf"))
=============================================================================
