------------------------------ MODULE Keyboard ------------------------------
(***************************************************************************)
(* How a key reaches the kernel: kmain unmasks the keyboard's pin of the   *)
(* I/O APIC, empties the keyboard controller, enables interrupts and       *)
(* halts; from then on the handler of vector 50 reads one byte for each    *)
(* interrupt.                                                              *)
(*                                                                         *)
(* The pin is edge triggered: an interrupt is requested when a byte        *)
(* arrives in an empty controller, never because one is there.  A byte     *)
(* whose edge was lost would keep the controller full, so no later key     *)
(* could make an edge either.  The keyboard runs beside the processor, and *)
(* a key may be pressed between any two of the kernel's steps.             *)
(*                                                                         *)
(* Keys are numbered in the order they are pressed; the keyboard holds     *)
(* those the controller has not taken: data + 1 .. pressed.                *)
(***************************************************************************)
EXTENDS Integers, Sequences

CONSTANT MaxKeys     (* keys pressed in a behaviour                        *)

ASSUME KeyboardAssumption == MaxKeys \in Nat

VARIABLES
  pressed,           (* keys pressed so far                                *)
  full,              (* the controller's output buffer has a byte (0x64)   *)
  data,              (* the byte port 0x60 reads: it stays when read       *)
  masked,            (* mask bit of the pin's redirection entry            *)
  irr, isr,          (* the local APIC's request and in-service bits       *)
  interrupts_on,     (* RFLAGS.IF: the processor takes interrupts          *)
  pc,                (* kmain: "set_IRQ", "status", "discard", "sti", "run"*)
  handler,           (* vector 50: "none", "read", "EOI", "iret"           *)
  discarded,         (* keys the loop before sti read                      *)
  scancodes          (* what the handler read, in order                    *)

device == <<pressed, full, data>>
apic == <<masked, irr, isr>>
vars == <<device, apic, interrupts_on, pc, handler, discarded, scancodes>>

Init ==
  /\ pressed \in 0 .. MaxKeys
  /\ full \in BOOLEAN /\ data = (IF full THEN 1 ELSE 0) /\ data <= pressed
  /\ masked = TRUE
  /\ irr = FALSE /\ isr = FALSE
  /\ interrupts_on = FALSE
  /\ pc = "set_IRQ"
  /\ handler = "none"
  /\ discarded = {}
  /\ scancodes = <<>>

-----------------------------------------------------------------------------
(* The keyboard, its controller and the I/O APIC *)

Press ==
  /\ pressed < MaxKeys
  /\ pressed' = pressed + 1
  /\ UNCHANGED <<full, data, apic, interrupts_on, pc, handler, discarded, scancodes>>

(* The controller takes a byte; the edge sets the request bit unless the   *)
(* pin is masked, and is then forgotten.                                   *)
Take ==
  /\ ~full /\ data < pressed
  /\ full' = TRUE
  /\ data' = data + 1
  /\ irr' = (irr \/ ~masked)
  /\ UNCHANGED <<pressed, masked, isr, interrupts_on, pc, handler, discarded, scancodes>>

-----------------------------------------------------------------------------
(* kmain *)

(* init_IOAPIC.  Writing the low half of the entry clears its mask bit;    *)
(* the high half is or-ed with 0.                                          *)
set_IRQ ==
  /\ pc = "set_IRQ"
  /\ masked' = FALSE
  /\ pc' = "status"
  /\ UNCHANGED <<device, irr, isr, interrupts_on, handler, discarded, scancodes>>

(* while (inb(0x64) & 1)                                                   *)
NeverDiscard == FALSE
KeepDiscarding == full

ReadStatus ==
  /\ pc = "status"
  /\ pc' = IF KeepDiscarding THEN "discard" ELSE "sti"
  /\ UNCHANGED <<device, apic, interrupts_on, handler, discarded, scancodes>>

(* inb(0x60), the byte thrown away.                                        *)
Discard ==
  /\ pc = "discard"
  /\ full' = FALSE
  /\ discarded' = discarded \cup {data}
  /\ pc' = "status"
  /\ UNCHANGED <<pressed, data, apic, interrupts_on, handler, scancodes>>

Sti ==
  /\ pc = "sti"
  /\ interrupts_on' = TRUE
  /\ pc' = "run"
  /\ UNCHANGED <<device, apic, handler, discarded, scancodes>>

-----------------------------------------------------------------------------
(* The interrupt, wherever kmain is: drawing, in kmalloc, or in hlt.       *)

(* A gate of type 0x8E: no interrupt is taken until iretq.                 *)
Interrupt ==
  /\ interrupts_on /\ irr /\ ~isr
  /\ irr' = FALSE /\ isr' = TRUE
  /\ interrupts_on' = FALSE
  /\ handler' = "read"
  /\ UNCHANGED <<device, masked, pc, discarded, scancodes>>

ReadTwice == <<data, data>>
ReadOnce == <<data>>

ReadScancode ==
  /\ handler = "read"
  /\ full' = FALSE
  /\ scancodes' = scancodes \o ReadOnce
  /\ handler' = "EOI"
  /\ UNCHANGED <<pressed, data, apic, interrupts_on, pc, discarded>>

InServiceKept == isr
InServiceCleared == FALSE

EndOfInterrupt ==
  /\ handler = "EOI"
  /\ isr' = InServiceCleared
  /\ handler' = "iret"
  /\ UNCHANGED <<device, masked, irr, interrupts_on, pc, discarded, scancodes>>

Iret ==
  /\ handler = "iret"
  /\ interrupts_on' = TRUE
  /\ handler' = "none"
  /\ UNCHANGED <<device, apic, pc, discarded, scancodes>>

Boot == set_IRQ \/ ReadStatus \/ Discard \/ Sti
Handler == ReadScancode \/ EndOfInterrupt \/ Iret

Next == Press \/ Take \/ Boot \/ Interrupt \/ Handler

Spec == Init /\ [][Next]_vars

-----------------------------------------------------------------------------
(* Properties *)

(* The variables have their types, and nothing reads the data port before *)
(* a byte has arrived there.                                               *)
TypeOK ==
  /\ pressed \in 0 .. MaxKeys
  /\ full \in BOOLEAN
  /\ data \in 0 .. pressed
  /\ masked \in BOOLEAN /\ irr \in BOOLEAN /\ isr \in BOOLEAN /\ interrupts_on \in BOOLEAN
  /\ pc \in {"set_IRQ", "status", "discard", "sti", "run"}
  /\ handler \in {"none", "read", "EOI", "iret"}
  /\ discarded \subseteq 1 .. pressed
  /\ scancodes \in Seq(1 .. pressed)

(* No key is stuck: once kmain has stopped looking at the controller, a    *)
(* byte in it has an interrupt requested or a handler that has yet to      *)
(* read.  Emptying the controller before the pin is unmasked, or not at    *)
(* all, would leave a byte whose edge nobody saw.                          *)
NoStuckKey ==
  full /\ pc \in {"sti", "run"} => irr \/ handler = "read"

(* A byte that arrived while kmain was discarding leaves its request       *)
(* behind.  Requests merge in one bit, so the handler reads at most one    *)
(* byte that was read already: the last one discarded, or, if a key slips  *)
(* in before that read, that key, for which the handler then runs again.   *)
Stale(k) ==
  \/ scancodes[k] \in discarded
  \/ k > 1 /\ scancodes[k] = scancodes[k - 1]
OneStaleAtMost ==
  \A j, k \in DOMAIN scancodes : Stale(j) /\ Stale(k) => j = k
=============================================================================
