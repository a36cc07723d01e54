------------------------------ MODULE Segments ------------------------------
(***************************************************************************)
(* The descriptor table of src/segments.c and the gates of                 *)
(* src/interrupts.c: their bytes as init_gdt and init_interrupts fill them *)
(* in, field by field, and as the processor reads them when it is given    *)
(* the tables and the selectors.                                           *)
(*                                                                         *)
(* a_gdt is a function from offsets into it to bytes.  An address is       *)
(* the tuple of its eight bytes, the lowest first, so that a shift by 8k   *)
(* and a cast to a narrower type pick bytes.                               *)
(***************************************************************************)
EXTENDS Integers, Sequences

CONSTANTS
  TssAddress,        (* &tss_entry                                         *)
  TssSize,           (* sizeof(tss_entry_t) (104)                          *)
  IsrAddress         (* the stubs: isr0, isr1, isr6, ... isr50             *)

ASSUME SegmentsAssumption ==
  /\ TssAddress \in [1 .. 8 -> 0 .. 255]
  /\ TssSize \in 1 .. 255
  /\ IsrAddress \in [{0, 1, 6, 8, 13, 14, 32, 33, 50} -> [1 .. 8 -> 0 .. 255]]

(* struct the_gdt: null, kernel_cs, user_cs, kernel_ds, user_ds, tss.      *)
GdtSize == 5 * 8 + 16
KernelCs == 1
UserCs == 2
KernelDs == 3
UserDs == 4
Tss == 5

EmptyGdt == [o \in 0 .. GdtSize - 1 |-> 0]

(* struct gdt_descriptor and the first half of struct tss_descriptor.      *)
Descriptor(limit1, base1, base2, access, limit2, flags, base3) ==
  <<limit1[1], limit1[2], base1[1], base1[2], base2, access, limit2 + 16 * flags, base3>>

(* The bytes of a descriptor written over those of entry n.                *)
Store(gdt, n, bytes) ==
  [o \in DOMAIN gdt |->
     IF o \in 8 * n .. 8 * n + Len(bytes) - 1 THEN bytes[o - 8 * n + 1] ELSE gdt[o]]

set_segment(gdt, n, access, flag) ==
  Store(gdt, n, Descriptor(<<255, 255>>, <<0, 0>>, 0, access, 15, flag, 0))

(* limit1 is the entry's size - 1; base1 to base4 are bits 0-15, 16-23,    *)
(* 24-31 and 32-63 of its address.                                         *)
set_TSS(gdt, access, flag) ==
  LET a == TssAddress
      lower == Store(gdt, Tss, Descriptor(<<TssSize - 1, 0>>, <<a[1], a[2]>>, a[3], access, 0, flag, a[4]))
  IN  Store(lower, Tss + 1, <<a[5], a[6], a[7], a[8], 0, 0, 0, 0>>)

(* init_gdt: 0x9B, 0xFB, 0x93, 0xF3 and 0x89; 0xA, 0xA, 0xC, 0xC and 0.    *)
FilledGdt ==
  LET segments == set_segment(set_segment(set_segment(set_segment(
                    EmptyGdt, KernelCs, 155, 10), UserCs, 251, 10), KernelDs, 147, 12), UserDs, 243, 12)
  IN  set_TSS(segments, 137, 0)

(* struct idt_entry: offset1 to offset3 are bits 0-15, 16-31 and 32-63 of  *)
(* the stub's address.                                                     *)
set_gate(flags, isr_address, ist, css) ==
  LET a == isr_address
  IN  <<a[1], a[2], css % 256, css \div 256, ist, flags, a[3], a[4], a[5], a[6], a[7], a[8], 0, 0, 0, 0>>

(* The gates init_interrupts sets, 0x8F for #DB and 0x8E for the others;   *)
(* all others of the 256 stay 0.                                           *)
Stubs == DOMAIN IsrAddress
FilledIdt(current_cs) ==
  [n \in Stubs |-> set_gate(IF n = 1 THEN 143 ELSE 142, IsrAddress[n], 0, current_cs)]

-----------------------------------------------------------------------------
(* The processor *)

(* A bit of a byte is named by its value.                                  *)
Bit(byte, value) == (byte \div value) % 2

(* The entry that a selector names, as the processor takes it apart.       *)
Read(gdt, selector) ==
  LET o == 8 * (selector \div 8)
      access == gdt[o + 5]
  IN  [present |-> Bit(access, 128) = 1,
       dpl     |-> 2 * Bit(access, 64) + Bit(access, 32),
       system  |-> Bit(access, 16) = 0,
       type    |-> access % 16,
       long    |-> Bit(gdt[o + 6], 32) = 1,
       big     |-> Bit(gdt[o + 6], 64) = 1,
       limit   |-> <<gdt[o], gdt[o + 1], gdt[o + 6] % 16>>,
       base    |-> <<gdt[o + 2], gdt[o + 3], gdt[o + 4], gdt[o + 7]>>]

IsNull(selector) == selector \div 8 = 0
InGdt(selector) == selector + 7 < GdtSize

(* What CS may be loaded with in 64-bit mode at privilege 0, and SS and TR.*)
IsKernelCode(gdt, selector) ==
  /\ ~IsNull(selector) /\ InGdt(selector)
  /\ LET d == Read(gdt, selector)
     IN  d.present /\ ~d.system /\ Bit(d.type, 8) = 1 /\ d.dpl = 0 /\ d.long /\ ~d.big

IsKernelData(gdt, selector) ==
  /\ ~IsNull(selector) /\ InGdt(selector)
  /\ LET d == Read(gdt, selector)
     IN  d.present /\ ~d.system /\ Bit(d.type, 8) = 0 /\ Bit(d.type, 2) = 1 /\ d.dpl = 0

AvailableTss == 9
BusyTss == 11
IsTss(gdt, selector, types) ==
  /\ ~IsNull(selector) /\ InGdt(selector + 8)
  /\ LET d == Read(gdt, selector)
         o == 8 * (selector \div 8)
     IN  /\ d.present /\ d.system /\ d.type \in types
         /\ \A k \in 1 .. 4 : d.base[k] = TssAddress[k] /\ gdt[o + 7 + k] = TssAddress[k + 4]
         /\ d.limit = <<(TssSize - 1) % 256, (TssSize - 1) \div 256, 0>>
         /\ \A k \in 12 .. 15 : gdt[o + k] = 0

(* What the processor needs of a gate to come to a stub, with kernel code  *)
(* behind its selector, on the stack it is on.                             *)
IsGate(gdt, gate, address) ==
  /\ Bit(gate[6], 128) = 1 /\ Bit(gate[6], 16) = 0 /\ gate[6] % 16 \in {14, 15}
  /\ <<gate[1], gate[2], gate[7], gate[8], gate[9], gate[10], gate[11], gate[12]>> = address
  /\ gate[5] % 8 = 0
  /\ IsKernelCode(gdt, gate[3] + 256 * gate[4])

(* The selectors ltr and reload_segments load.                             *)
ltr_selector == 40
cs_selector == 8
ds_selector == 24
=============================================================================
