----------------------------- MODULE BootProofs -----------------------------
(***************************************************************************)
(* What holds of kmain's way to sti for any machine: the period that the   *)
(* timer's calibration measures, however often the firmware holds the      *)
(* kernel up, the vectors that may interrupt, the descriptors and gates    *)
(* wherever the linker has put the stubs, the I/O APIC that is found in    *)
(* whatever tables the firmware has, and the keyboard's way to the kernel. *)
(***************************************************************************)
EXTENDS Boot, FiniteSetTheorems, SequenceTheorems, TLAPS

(* The tick at which the count was last latched.                           *)
EndStep == now - since

(* A count, as last latched, and last_count, the one before: the PIT has   *)
(* either not been loaded again, or for the first time between the two.    *)
Fresh(c) ==
  \/ EndStep < Reload /\ c = Reload - EndStep /\ c <= last_count
  \/ Reload <= EndStep /\ EndStep <= Reload + MaxGap /\ c = 2 * Reload - EndStep /\ last_count < c

Times ==
  /\ timer \in {"start", "latch", "lo", "hi", "compare", "stop", "done"}
  /\ now \in Nat /\ since \in Nat /\ since <= now /\ since <= MaxGap
  /\ lead \in Nat
  /\ lo \in Nat /\ count \in Nat /\ last_count \in Nat /\ initial_count \in Nat

Counts ==
  /\ timer = "start" => now = 0 /\ last_count = RADIX * RADIX - 1
  /\ timer = "latch" =>
       /\ EndStep < Reload
       /\ last_count = Reload - EndStep \/ (EndStep = 0 /\ last_count = RADIX * RADIX - 1)
  /\ timer \in {"lo", "hi"} => latched # NONE /\ latched \in 1 .. Reload /\ Fresh(latched)
  /\ timer = "hi" => lo = latched % RADIX
  /\ timer = "compare" => count \in 1 .. Reload /\ Fresh(count)
  /\ timer = "stop" => Reload <= EndStep /\ EndStep <= Reload + MaxGap
  /\ timer # "done" => latched = NONE \/ timer \in {"lo", "hi"}

TimerInv == Times /\ Counts /\ OnePeriodMeasured

-----------------------------------------------------------------------------
(* Arithmetic *)

LEMMA DivMod ==
  ASSUME NEW m \in Nat, NEW r \in Nat \ {0}
  PROVE  /\ m \div r \in Nat /\ m % r \in 0 .. r - 1
         /\ (m \div r) * r + (m % r) = m
  OBVIOUS

LEMMA ModFirst ==
  ASSUME NEW m \in Nat, NEW r \in Nat \ {0}, m < r
  PROVE  m % r = m
  OBVIOUS

LEMMA TimesMonotonic ==
  ASSUME NEW a \in Nat, NEW b \in Nat, NEW c \in Nat, a <= b
  PROVE  c * a \in Nat /\ c * b \in Nat /\ c * a <= c * b
  OBVIOUS

LEMMA ModSecond ==
  ASSUME NEW m \in Nat, NEW r \in Nat \ {0}, r <= m, m < 2 * r
  PROVE  m % r = m - r
<1> PICK q \in Nat, x \in 0 .. r - 1 : q * r + x = m /\ x = m % r
  BY DivMod
<1>1. q # 0
  <2>1. q = 0 => q * r = 0
    OBVIOUS
  <2>2. QED
    BY <2>1
<1>2. q < 2
  <2>1. q >= 2 => q * r >= 2 * r
    BY TimesMonotonic
  <2>2. QED
    BY <2>1
<1>3. QED
  BY <1>1, <1>2

(* What the PIT shows at the first latch after its loading, and what it    *)
(* shows later, less than a period after a count that was latched.         *)
LEMMA LatchedFresh ==
  ASSUME Times, Counts, timer = "latch"
  PROVE  /\ Count \in 1 .. Reload
         /\ \/ now < Reload /\ Count = Reload - now /\ Count <= last_count
            \/ Reload <= now /\ now <= Reload + MaxGap /\ Count = 2 * Reload - now /\ last_count < Count
<1> USE TimerAssumption DEF Times, Counts, EndStep
<1>1. CASE now < Reload
  <2>1. now % Reload = now
    BY <1>1, ModFirst
  <2>2. QED
    BY <1>1, <2>1 DEF Count
<1>2. CASE Reload <= now
  <2>1. now < 2 * Reload /\ now <= Reload + MaxGap
    BY <1>2
  <2>2. now % Reload = now - Reload
    BY <1>2, <2>1, ModSecond
  <2>3. last_count = Reload - EndStep
    BY <1>2
  <2>4. QED
    BY <1>2, <2>1, <2>2, <2>3 DEF Count
<1>3. QED
  BY <1>1, <1>2

-----------------------------------------------------------------------------
(* One period is measured *)

LEMMA TimerInitInv == TimerInit => TimerInv
<1>1. SUFFICES ASSUME TimerInit PROVE TimerInv
  OBVIOUS
<1>2. RADIX * RADIX - 1 \in Nat
  BY TimerAssumption, TimesMonotonic
<1>3. QED
  BY <1>1, <1>2, TimerAssumption DEF TimerInit, TimerInv, Times, Counts, OnePeriodMeasured

LEMMA TimerNextInv ==
  ASSUME TimerInv, [Tick \/ init_APIC_timer]_timervars
  PROVE  TimerInv'
<1> USE TimerAssumption DEF TimerInv, Times, Counts, EndStep, Fresh
<1>1. CASE Tick
  BY <1>1 DEF Tick, Running, OnePeriodMeasured
<1>2. CASE StartPit
  BY <1>2 DEF StartPit, OnePeriodMeasured
<1>3. CASE Latch
  BY <1>3, LatchedFresh DEF Latch, LatchCount, OnePeriodMeasured
<1>4. CASE ReadLo
  <2>1. Visible = latched /\ latched \in Nat
    BY <1>4 DEF ReadLo, Visible
  <2>2. latched % RADIX \in 0 .. RADIX - 1
    BY <2>1, DivMod
  <2>3. QED
    BY <1>4, <2>1, <2>2 DEF ReadLo, OnePeriodMeasured
<1>5. CASE ReadHi
  <2>1. Visible = latched /\ latched \in Nat
    BY <1>5 DEF ReadHi, Visible
  <2>2. (latched \div RADIX) * RADIX + (latched % RADIX) = latched
    BY <2>1, DivMod
  <2>3. count' = latched
    BY <1>5, <2>1, <2>2 DEF ReadHi
  <2>4. QED
    BY <1>5, <2>1, <2>3 DEF ReadHi, OnePeriodMeasured
<1>6. CASE Compare
  BY <1>6 DEF Compare, PeriodOver, OnePeriodMeasured
<1>7. CASE Stop
  <2>1. Reload <= lead + now /\ lead + now <= Reload + lead + 2 * MaxGap
    BY <1>7 DEF Stop
  <2>2. /\ Rate * Reload <= Rate * (lead + now)
        /\ Rate * (lead + now) <= Rate * (Reload + lead + 2 * MaxGap)
        /\ Rate * (lead + now) \in Nat
    BY <2>1, TimesMonotonic
  <2>3. QED
    BY <1>7, <2>2 DEF Stop, OnePeriodMeasured
<1>8. CASE UNCHANGED timervars
  BY <1>8 DEF timervars, OnePeriodMeasured
<1>9. QED
  BY <1>1, <1>2, <1>3, <1>4, <1>5, <1>6, <1>7, <1>8 DEF init_APIC_timer

(* Nothing else in kmain touches what the calibration counts with.         *)
LEMMA TimerAlone ==
  ASSUME [BootNext]_allvars
  PROVE  [Tick \/ init_APIC_timer]_timervars
<1> USE DEF allvars
<1>1. CASE Call
  <2>1. CASE CalibrateTimer
    BY <2>1 DEF CalibrateTimer
  <2>2. CASE ~CalibrateTimer
    BY <1>1, <2>2 DEF Call, init_gdt, init_interrupts, Check, ParseMadt, init_bitmap_pmm,
                      MapPages, map_ioapic, WriteLapic, init_LAPIC, init_IOAPIC, sti
  <2>3. QED
    BY <2>1, <2>2
<1>2. CASE TimePasses
  BY <1>2 DEF TimePasses
<1>3. CASE UNCHANGED allvars
  BY <1>3
<1>4. QED
  BY <1>1, <1>2, <1>3 DEF BootNext, Stays

(* The loop ends when the PIT has been loaded again once, and the ticks    *)
(* of 10 ms are those of one period, too many by at most the lead and      *)
(* twice the longest hold-up: whatever the period, if it is longer than    *)
(* any hold-up, and whenever the two bytes of a count are read.            *)
THEOREM BootOnePeriod == BootSpec => []OnePeriodMeasured
<1>1. BootInit => TimerInv
  BY TimerInitInv DEF BootInit
<1>2. TimerInv /\ [BootNext]_allvars => TimerInv'
  BY TimerAlone, TimerNextInv
<1>3. TimerInv => OnePeriodMeasured
  BY DEF TimerInv
<1>4. QED
  BY <1>1, <1>2, <1>3, PTL DEF BootSpec

-----------------------------------------------------------------------------
(* Vectors without a gate *)

(* The local APIC's registers, and what kmain has done to them and to the  *)
(* other controllers by each of its steps.                                 *)
Lines == [masked : BOOLEAN, vector : Nat]
Pins == [masked : BOOLEAN, mode : {0, NmiMode}, vector : Nat]
LapicOK ==
  lapic \in [on : BOOLEAN, spurious : {15, 255}, tpr : Nat, timer : Lines, error : Lines,
            lint0 : Lines, lint1 : Pins]

TimerLine == [masked |-> TRUE, vector |-> 33]
ErrorLine == [masked |-> FALSE, vector |-> 32]

Progress ==
  /\ step \in 1 .. 24
  /\ status = "up" => step = 24
  /\ step > 16 => lapic.on = TRUE
  /\ timer # "start" \/ step > 17 => lapic.timer = TimerLine
  /\ step > 18 => lapic.error = ErrorLine
  /\ step > 19 => lapic.lint0.masked = TRUE
  /\ step > 20 => pic_masked = TRUE
  /\ step > 21 => lapic.lint1.mode = NmiMode
  /\ step > 23 => pin.vector = 50

GateInv == LapicOK /\ Progress

(* Each call has one place in kmain.                                       *)
LEMMA Places ==
  ASSUME step \in 1 .. 24
  PROVE  /\ At("SVR") => step = 16
         /\ At("init_APIC_timer") => step = 17
         /\ At("init_APIC_error") => step = 18
         /\ At("LINT0") => step = 19
         /\ At("disable_pic") => step = 20
         /\ At("LINT1") => step = 21
         /\ At("cr8") => step = 22
         /\ At("init_IOAPIC") => step = 23
         /\ At("sti") => step = 24
         /\ \A call : At(call) =>
              step < 16 \/ call \in {"SVR", "init_APIC_timer", "init_APIC_error", "LINT0",
                                     "disable_pic", "LINT1", "cr8", "init_IOAPIC", "sti"}
  BY DEF At, Kmain

(* What the calls before init_LAPIC leave alone.                           *)
LEMMA Early ==
  ASSUME Progress,
         init_gdt \/ init_interrupts \/ (\E answer \in DOMAIN Good : Check(answer)) \/ ParseMadt
           \/ init_bitmap_pmm \/ MapPages("map_lapic", "lapic") \/ map_ioapic
           \/ MapPages("map_heap", "heap")
  PROVE  /\ step < 16 /\ step' \in {step, step + 1}
         /\ status = "running" /\ status' # "up"
         /\ UNCHANGED <<lapic, pic_masked, pin, timer>>
<1> USE DEF Return, Fault, Halt, Needs, devices, timervars
<1>1. \A call : At(call) /\ call \notin {"SVR", "init_APIC_timer", "init_APIC_error", "LINT0",
                                        "disable_pic", "LINT1", "cr8", "init_IOAPIC", "sti"}
                  => step < 16 /\ status = "running"
  BY Places DEF Progress, At
<1>2. CASE init_gdt
  BY <1>1, <1>2 DEF init_gdt
<1>3. CASE init_interrupts
  BY <1>1, <1>3 DEF init_interrupts
<1>4. CASE \E answer \in DOMAIN Good : Check(answer)
  <2>1. DOMAIN Good = {"base", "framebuffer", "hhdm", "memmap", "rsdp"}
    BY DEF Good
  <2>2. QED
    BY <1>1, <1>4, <2>1 DEF Check
<1>5. CASE ParseMadt
  BY <1>1, <1>5 DEF ParseMadt
<1>6. CASE init_bitmap_pmm
  BY <1>1, <1>6 DEF init_bitmap_pmm
<1>7. CASE MapPages("map_lapic", "lapic") \/ map_ioapic \/ MapPages("map_heap", "heap")
  BY <1>1, <1>7 DEF MapPages, map_ioapic
<1>8. QED
  BY <1>2, <1>3, <1>4, <1>5, <1>6, <1>7

LEMMA GateInitInv == BootInit => GateInv
<1>1. SUFFICES ASSUME BootInit PROVE GateInv
  OBVIOUS
<1>2. LapicOK
  <2>1. PICK l \in Registers : lapic = l
    BY <1>1 DEF BootInit
  <2>2. \A b \in BOOLEAN, v \in Nat : Line(b, v) \in Lines
    BY DEF Line, Lines
  <2>3. \A b \in BOOLEAN, m \in {0, NmiMode}, v \in Nat : Pin(b, m, v) \in Pins
    BY DEF Pin, Pins
  <2>4. CASE lapic = [on |-> FALSE, spurious |-> 255, tpr |-> 0, timer |-> Line(TRUE, 0),
                      error |-> Line(TRUE, 0), lint0 |-> Line(TRUE, 0), lint1 |-> Pin(TRUE, 0, 0)]
    BY <2>2, <2>3, <2>4 DEF LapicOK
  <2>5. CASE lapic = [on |-> TRUE, spurious |-> 15, tpr |-> 15, timer |-> Line(TRUE, 0),
                      error |-> Line(FALSE, 3), lint0 |-> Line(FALSE, 8),
                      lint1 |-> Pin(FALSE, NmiMode, 0)]
    BY <2>2, <2>3, <2>5 DEF LapicOK
  <2>6. CASE lapic = [on |-> TRUE, spurious |-> 15, tpr |-> 15, timer |-> Line(TRUE, 0),
                      error |-> Line(FALSE, 3), lint0 |-> Line(FALSE, 8),
                      lint1 |-> Pin(FALSE, 0, 9)]
    BY <2>2, <2>3, <2>6 DEF LapicOK
  <2>7. QED
    BY <2>1, <2>4, <2>5, <2>6 DEF Registers
<1>3. QED
  BY <1>1, <1>2 DEF BootInit, TimerInit, GateInv, Progress

LEMMA GateNextInv ==
  ASSUME GateInv, [BootNext]_allvars
  PROVE  GateInv'
<1> USE DEF GateInv
<1>1. CASE init_gdt \/ init_interrupts \/ (\E answer \in DOMAIN Good : Check(answer)) \/ ParseMadt
             \/ init_bitmap_pmm \/ MapPages("map_lapic", "lapic") \/ map_ioapic
             \/ MapPages("map_heap", "heap")
  <2>1. /\ step < 16 /\ step' \in {step, step + 1} /\ status' # "up"
        /\ UNCHANGED <<lapic, pic_masked, pin, timer>>
    BY <1>1, Early
  <2>2. step' \in 1 .. 24 /\ step' <= 16
    BY <2>1 DEF Progress
  <2>3. QED
    BY <2>1, <2>2 DEF Progress, LapicOK
<1>2. CASE init_LAPIC
  <2>0. ASSUME NEW call, NEW registers, WriteLapic(call, registers)
        PROVE  /\ At(call) /\ step' \in {step, step + 1} /\ status' # "up"
               /\ lapic' = registers
               /\ UNCHANGED <<pic_masked, pin, timer>>
    BY <2>0 DEF WriteLapic, Needs, Return, Fault, timervars, At
  <2>1. CASE WriteLapic("SVR", SvrOn)
    <3>1. lapic' = [lapic EXCEPT !.on = TRUE] /\ step = 16
      BY <2>0, <2>1, Places DEF SvrOn, Progress
    <3>2. LapicOK' /\ lapic'.on = TRUE /\ lapic'.timer = lapic.timer
      BY <3>1 DEF LapicOK
    <3>3. Progress'
      BY <2>0, <2>1, <3>1, <3>2 DEF Progress
    <3>4. QED
      BY <3>2, <3>3
  <2>2. CASE CalibrateTimer
    <3>1. /\ step = 17 /\ step' \in {step, step + 1} /\ status' # "up"
          /\ UNCHANGED <<pic_masked, pin>>
      BY <2>2, Places DEF CalibrateTimer, Return, Fault, At, Progress
    <3>2. Lvt(TRUE, 33) = TimerLine /\ TimerLine \in Lines
      BY DEF Lvt, TimerLine, Lines
    <3>3. CASE UNCHANGED <<timervars, lapic>>
      <4>1. step' = step + 1 => timer = "done"
        BY <2>2, <3>1 DEF CalibrateTimer, Return, Fault, Progress
      <4>2. QED
        BY <3>1, <3>3, <4>1 DEF Progress, LapicOK, timervars
    <3>4. CASE lapic' = [lapic EXCEPT !.timer = TimerLine] /\ step' = step
      <4>1. LapicOK' /\ lapic'.timer = TimerLine /\ lapic'.on = lapic.on
        BY <3>2, <3>4 DEF LapicOK
      <4>2. QED
        BY <3>1, <3>4, <4>1 DEF Progress
    <3>5. QED
      BY <2>2, <3>2, <3>3, <3>4 DEF CalibrateTimer
  <2>3. CASE WriteLapic("init_APIC_error", [lapic EXCEPT !.error = Lvt(FALSE, 32)])
    <3>1. /\ lapic' = [lapic EXCEPT !.error = Lvt(FALSE, 32)]
          /\ step = 18 /\ step' \in {18, 19} /\ status' # "up"
          /\ UNCHANGED <<pic_masked, pin, timer>>
      <4>1. /\ At("init_APIC_error") /\ step' \in {step, step + 1} /\ status' # "up"
            /\ lapic' = [lapic EXCEPT !.error = Lvt(FALSE, 32)]
            /\ UNCHANGED <<pic_masked, pin, timer>>
        BY <2>0, <2>3
      <4>2. step = 18
        BY <4>1, Places DEF Progress
      <4>3. QED
        BY <4>1, <4>2
    <3>2. Lvt(FALSE, 32) = ErrorLine
      <4>1. (FALSE \/ ~lapic.on) = FALSE
        BY <3>1 DEF Progress
      <4>2. QED
        BY <4>1, Zenon DEF Lvt, ErrorLine
    <3>3. LapicOK' /\ lapic'.on = TRUE /\ lapic'.timer = TimerLine /\ lapic'.error = ErrorLine
      <4>1. ErrorLine \in Lines
        BY DEF ErrorLine, Lines
      <4>2. lapic.on = TRUE /\ lapic.timer = TimerLine
        BY <3>1 DEF Progress
      <4>3. QED
        BY <3>1, <3>2, <4>1, <4>2 DEF LapicOK
    <3>4. Progress'
      <4>1. step' = 18 \/ step' = 19
        BY <3>1
      <4>2. step' \in 1 .. 24 /\ ~(step' > 19) /\ ~(step' > 20) /\ ~(step' > 21) /\ ~(step' > 23)
        BY <4>1
      <4>3. QED
        BY <3>1, <3>3, <4>2 DEF Progress
    <3>5. QED
      BY <3>3, <3>4
  <2>4. CASE WriteLapic("LINT0", Lint0Masked)
    <3>1. lapic' = [lapic EXCEPT !.lint0 = [masked |-> TRUE, vector |-> @.vector]] /\ step = 19
      BY <2>0, <2>4, Places DEF Lint0Masked, Progress
    <3>2. /\ LapicOK' /\ lapic'.lint0.masked = TRUE
          /\ lapic'.on = lapic.on /\ lapic'.timer = lapic.timer /\ lapic'.error = lapic.error
      BY <3>1 DEF LapicOK, Lines
    <3>3. Progress'
      BY <2>0, <2>4, <3>1, <3>2 DEF Progress
    <3>4. QED
      BY <3>2, <3>3
  <2>5. CASE At("disable_pic") /\ Return /\ pic_masked' = TRUE /\ UNCHANGED <<timervars, lapic, pin>>
    <3>1. step = 20 /\ step' = 21 /\ status' # "up" /\ UNCHANGED <<timer, lapic, pin>>
      BY <2>5, Places DEF Return, timervars, At, Progress
    <3>2. QED
      BY <2>5, <3>1 DEF Progress, LapicOK
  <2>6. CASE At("cr8") /\ Return /\ lapic' = [lapic EXCEPT !.tpr = 0]
               /\ UNCHANGED <<timervars, pic_masked, pin>>
    <3>1. step = 22 /\ step' = 23 /\ status' # "up" /\ UNCHANGED <<timer, pic_masked, pin>>
      BY <2>6, Places DEF Return, timervars, At, Progress
    <3>2. /\ LapicOK' /\ lapic'.lint0 = lapic.lint0 /\ lapic'.lint1 = lapic.lint1
          /\ lapic'.on = lapic.on /\ lapic'.timer = lapic.timer /\ lapic'.error = lapic.error
      BY <2>6 DEF LapicOK
    <3>3. QED
      BY <3>1, <3>2 DEF Progress
  <2>7. CASE WriteLapic("LINT1", Lint1Nmi)
    <3>1. lapic' = Lint1Nmi /\ step = 21 /\ step' \in {21, 22} /\ status' # "up"
      <4>1. At("LINT1") /\ step' \in {step, step + 1} /\ status' # "up" /\ lapic' = Lint1Nmi
        BY <2>0, <2>7
      <4>2. step = 21
        BY <4>1, Places DEF Progress
      <4>3. QED
        BY <4>1, <4>2
    <3>2. /\ LapicOK' /\ lapic'.lint1.mode = NmiMode /\ lapic'.lint0 = lapic.lint0
          /\ lapic'.on = lapic.on /\ lapic'.timer = lapic.timer /\ lapic'.error = lapic.error
      <4> DEFINE mode == lapic.lint1.mode
                 new == Pin(lapic.lint1.masked, IF mode < NmiMode THEN mode + NmiMode ELSE mode,
                            lapic.lint1.vector)
      <4>1. lapic.lint1 \in Pins
        BY DEF LapicOK
      <4>2. new \in Pins /\ new.mode = NmiMode
        BY <4>1 DEF Pins, Pin, NmiMode
      <4>3. lapic' = [lapic EXCEPT !.lint1 = new]
        BY <3>1 DEF Lint1Nmi
      <4> HIDE DEF new
      <4>4. QED
        BY <4>2, <4>3 DEF LapicOK
    <3>3. Progress'
      <4>1. step' \in 1 .. 24 /\ step' > 20 /\ ~(step' > 22) /\ step > 20 /\ step > 17
        BY <3>1
      <4>2. UNCHANGED <<pic_masked, pin, timer>>
        BY <2>0, <2>7
      <4>3. QED
        BY <3>1, <3>2, <4>1, <4>2 DEF Progress
    <3>4. QED
      BY <3>2, <3>3
  <2>8. QED
    BY <1>2, <2>1, <2>2, <2>3, <2>4, <2>5, <2>6, <2>7 DEF init_LAPIC
<1>3. CASE init_IOAPIC
  <2>1. /\ At("init_IOAPIC") /\ step' \in {step, step + 1} /\ status' # "up"
        /\ pin'.vector = 50
        /\ UNCHANGED <<lapic, pic_masked, timer>>
    BY <1>3 DEF init_IOAPIC, Needs, Return, Fault, timervars, At
  <2>2. step = 23
    BY <2>1, Places DEF Progress
  <2>3. QED
    BY <2>1, <2>2 DEF Progress, LapicOK
<1>4. CASE sti
  <2>1. step = 24 /\ UNCHANGED <<timer, step, lapic, pic_masked, pin>>
    BY <1>4, Places DEF sti, timervars, devices, Progress
  <2>2. QED
    BY <2>1 DEF Progress, LapicOK
<1>5. CASE TimePasses
  <2>1. UNCHANGED <<timer, step, status, lapic, pic_masked, pin>>
    BY <1>5 DEF TimePasses, Tick, bootvars, devices
  <2>2. QED
    BY <2>1 DEF Progress, LapicOK
<1>6. CASE UNCHANGED allvars
  <2>1. UNCHANGED <<timer, step, status, lapic, pic_masked, pin>>
    BY <1>6 DEF allvars, timervars, bootvars, devices
  <2>2. QED
    BY <2>1 DEF Progress, LapicOK
<1>7. QED
  BY <1>1, <1>2, <1>3, <1>4, <1>5, <1>6 DEF BootNext, Call, Stays

(* When kmain comes to sti, of the vectors that the local APIC and the     *)
(* keyboard's pin may interrupt with, exactly two have no gate, whatever   *)
(* the firmware left in the controllers: that of spurious interrupts and,  *)
(* if LINT1 is unmasked, the NMI's.                                        *)
THEOREM BootOnlyNmiAndSpuriousUngated == BootSpec => []OnlyNmiAndSpuriousUngated
<1>1. GateInv => OnlyNmiAndSpuriousUngated
  <2>1. SUFFICES ASSUME GateInv, status = "up"
                 PROVE  /\ pic_masked /\ lapic.lint0.masked /\ ~lapic.error.masked
                        /\ Ungated = {lapic.spurious}
                             \cup (IF lapic.lint1.masked THEN {} ELSE {NmiVector})
    BY DEF OnlyNmiAndSpuriousUngated
  <2>2. Stubs = {0, 1, 6, 8, 13, 14, 32, 33, 50}
    BY SegmentsAssumption DEF Stubs
  <2>3. /\ pic_masked /\ lapic.lint0.masked = TRUE
        /\ lapic.error = ErrorLine /\ lapic.timer = TimerLine
        /\ lapic.lint1.mode = NmiMode /\ pin.vector = 50
    BY <2>1 DEF GateInv, Progress
  <2>4. {e.vector : e \in {e \in {lapic.timer, lapic.error, lapic.lint0} : ~e.masked}} = {32}
    BY <2>3 DEF ErrorLine, TimerLine
  <2>5. lapic.spurious \notin Stubs /\ NmiVector \notin Stubs /\ 32 \in Stubs /\ 50 \in Stubs
    BY <2>1, <2>2 DEF GateInv, LapicOK, NmiVector
  <2>6. Ungated = ({lapic.spurious, 50, 32}
                     \cup (IF lapic.lint1.masked THEN {} ELSE {NmiVector})) \ Stubs
    BY <2>3, <2>4 DEF Ungated
  <2>7. QED
    BY <2>3, <2>5, <2>6 DEF ErrorLine
<1>2. QED
  BY <1>1, GateInitInv, GateNextInv, PTL DEF BootSpec
-----------------------------------------------------------------------------
(* Descriptors *)

(* Ranges have names where a lemma is about any member of them: provers    *)
(* take a range between two numbers apart.                                 *)
Offsets == 0 .. 55
Octets == 0 .. 255
Eight == 1 .. 8
Gdts == [Offsets -> Octets]
Filled == FilledGdt

(* Eight bytes written over those of an entry.                             *)
LEMMA Stored ==
  ASSUME NEW g \in Gdts, NEW n \in Nat, n <= 6, NEW bytes, Len(bytes) = 8,
         \A k \in Eight : bytes[k] \in Octets
  PROVE  /\ Store(g, n, bytes) \in Gdts
         /\ \A k \in Eight : Store(g, n, bytes)[8 * n - 1 + k] = bytes[k]
         /\ \A o \in Offsets : o < 8 * n \/ 8 * n + 8 <= o => Store(g, n, bytes)[o] = g[o]
<1> DEFINE h == [o \in Offsets |-> IF o \in 8 * n .. 8 * n + 7 THEN bytes[o - 8 * n + 1] ELSE g[o]]
<1>1. DOMAIN g = Offsets
  BY DEF Gdts
<1>2. Store(g, n, bytes) = h
  BY <1>1 DEF Store
<1>3. \A o \in Offsets : o \in Int
  BY DEF Offsets
<1>4. \A o \in Offsets : o \in 8 * n .. 8 * n + 7 => o - 8 * n + 1 \in Eight
  BY <1>3 DEF Eight
<1>5. h \in Gdts
  BY <1>4 DEF Gdts
<1>6. ASSUME NEW k \in Eight PROVE h[8 * n - 1 + k] = bytes[k]
  <2>1. 8 * n - 1 + k \in Offsets /\ 8 * n - 1 + k \in 8 * n .. 8 * n + 7 /\ (8 * n - 1 + k) - 8 * n + 1 = k
    BY DEF Offsets, Eight
  <2>2. QED
    BY <2>1
<1>7. \A o \in Offsets : o < 8 * n \/ 8 * n + 8 <= o => h[o] = g[o]
  BY <1>3
<1> HIDE DEF h
<1>8. QED
  BY <1>2, <1>5, <1>6, <1>7

LEMMA SegmentStored ==
  ASSUME NEW g \in Gdts, NEW n \in Nat, n <= 4, NEW access \in Octets, NEW flag \in Nat, flag < 16
  PROVE  /\ set_segment(g, n, access, flag) \in Gdts
         /\ set_segment(g, n, access, flag)[8 * n + 5] = access
         /\ set_segment(g, n, access, flag)[8 * n + 6] = 15 + 16 * flag
         /\ \A o \in Offsets :
              o < 8 * n \/ 8 * n + 8 <= o => set_segment(g, n, access, flag)[o] = g[o]
<1> DEFINE bytes == <<255, 255, 0, 0, 0, access, 15 + 16 * flag, 0>>
           h == Store(g, n, bytes)
<1>1. Len(bytes) = 8 /\ \A k \in Eight : bytes[k] \in Octets
  BY DEF Octets, Eight
<1>2. bytes[6] = access /\ bytes[7] = 15 + 16 * flag
  OBVIOUS
<1>3. set_segment(g, n, access, flag) = h
  BY DEF set_segment, Descriptor
<1> HIDE DEF bytes
<1>4. /\ h \in Gdts /\ \A k \in Eight : h[8 * n - 1 + k] = bytes[k]
      /\ \A o \in Offsets : o < 8 * n \/ 8 * n + 8 <= o => h[o] = g[o]
  BY <1>1, Stored
<1> HIDE DEF h
<1>5. h[8 * n + 5] = bytes[6] /\ h[8 * n + 6] = bytes[7]
  <2>1. 8 * n - 1 + 6 = 8 * n + 5 /\ 8 * n - 1 + 7 = 8 * n + 6
    OBVIOUS
  <2>2. 6 \in Eight /\ 7 \in Eight
    BY DEF Eight
  <2>3. QED
    BY <1>4, <2>1, <2>2
<1>6. QED
  BY <1>2, <1>3, <1>4, <1>5

LEMMA TssStored ==
  ASSUME NEW g \in Gdts
  PROVE  LET h == set_TSS(g, 137, 0)
         IN  /\ h \in Gdts
             /\ \A o \in Offsets : o < 40 => h[o] = g[o]
             /\ h[40] = TssSize - 1 /\ h[41] = 0 /\ h[46] = 0
             /\ h[42] = TssAddress[1] /\ h[43] = TssAddress[2] /\ h[44] = TssAddress[3]
             /\ h[45] = 137 /\ h[47] = TssAddress[4]
             /\ \A k \in 1 .. 4 : h[47 + k] = TssAddress[k + 4]
             /\ \A k \in 12 .. 15 : h[40 + k] = 0
<1> DEFINE a == TssAddress
           low == <<TssSize - 1, 0, a[1], a[2], a[3], 137, 0, a[4]>>
           high == <<a[5], a[6], a[7], a[8], 0, 0, 0, 0>>
<1>1. TssSize - 1 \in Octets /\ 0 \in Octets /\ 137 \in Octets /\ \A j \in 1 .. 8 : a[j] \in Octets
  BY SegmentsAssumption DEF Octets
<1>2. /\ low[1] = TssSize - 1 /\ low[2] = 0 /\ low[3] = a[1] /\ low[4] = a[2]
      /\ low[5] = a[3] /\ low[6] = 137 /\ low[7] = 0 /\ low[8] = a[4]
  OBVIOUS
<1>3. /\ high[1] = a[5] /\ high[2] = a[6] /\ high[3] = a[7] /\ high[4] = a[8]
      /\ high[5] = 0 /\ high[6] = 0 /\ high[7] = 0 /\ high[8] = 0
  OBVIOUS
<1>4. Len(low) = 8 /\ Len(high) = 8
  OBVIOUS
<1>5. PICK n \in Nat, p \in Nat : n = 5 /\ p = 6
  OBVIOUS
<1> DEFINE g5 == Store(g, n, low)
           h == Store(g5, p, high)
<1>6. set_TSS(g, 137, 0) = h
  BY <1>5 DEF set_TSS, Descriptor, Tss
<1> HIDE DEF low, high, a
<1>7. \A k \in Eight : k \in {1, 2, 3, 4, 5, 6, 7, 8}
  BY DEF Eight
<1>8. \A k \in Eight : low[k] \in Octets
  BY <1>1, <1>2, <1>7
<1>9. \A k \in Eight : high[k] \in Octets
  BY <1>1, <1>3, <1>7
<1>10. /\ g5 \in Gdts /\ \A k \in Eight : g5[8 * n - 1 + k] = low[k]
       /\ \A o \in Offsets : o < 8 * n \/ 8 * n + 8 <= o => g5[o] = g[o]
  <2>1. n \in Nat /\ n <= 6
    BY <1>5
  <2>2. Len(low) = 8 /\ \A k \in Eight : low[k] \in Octets
    BY <1>4, <1>8
  <2>3. Store(g, n, low) \in Gdts
    BY <2>1, <2>2, Stored
  <2>4. ASSUME NEW k \in Eight PROVE Store(g, n, low)[8 * n - 1 + k] = low[k]
    BY <2>1, <2>2, Stored
  <2>5. \A o \in Offsets : o < 8 * n \/ 8 * n + 8 <= o => Store(g, n, low)[o] = g[o]
    BY <2>1, <2>2, Stored
  <2>6. QED
    BY <2>3, <2>4, <2>5
<1> HIDE DEF g5
<1>11. /\ h \in Gdts /\ \A k \in Eight : h[8 * p - 1 + k] = high[k]
       /\ \A o \in Offsets : o < 8 * p \/ 8 * p + 8 <= o => h[o] = g5[o]
  <2>1. p \in Nat /\ p <= 6 /\ g5 \in Gdts
    BY <1>5, <1>10
  <2>2. Len(high) = 8 /\ \A k \in Eight : high[k] \in Octets
    BY <1>4, <1>9
  <2>3. h \in Gdts
    BY <2>1, <2>2, Stored
  <2>4. ASSUME NEW k \in Eight PROVE h[8 * p - 1 + k] = high[k]
    BY <2>1, <2>2, Stored
  <2>5. \A o \in Offsets : o < 8 * p \/ 8 * p + 8 <= o => h[o] = g5[o]
    BY <2>1, <2>2, Stored
  <2>6. QED
    BY <2>3, <2>4, <2>5
<1> HIDE DEF h
<1>12. \A o \in Offsets : o < 40 => h[o] = g[o]
  BY <1>10, <1>11, <1>5 DEF Offsets
<1>13. \A k \in Eight : h[39 + k] = low[k]
  <2>1. \A k \in Eight : 39 + k \in Offsets /\ 39 + k < 48 /\ g5[39 + k] = low[k]
    BY <1>10, <1>5 DEF Offsets, Eight
  <2>2. QED
    BY <1>11, <1>5, <2>1
<1>14. \A k \in Eight : h[47 + k] = high[k]
  BY <1>11, <1>5
<1> 1 \in Eight /\ 2 \in Eight /\ 3 \in Eight /\ 4 \in Eight
  BY DEF Eight
<1> 5 \in Eight /\ 6 \in Eight /\ 7 \in Eight /\ 8 \in Eight
  BY DEF Eight
<1>15. /\ h[40] = low[1] /\ h[41] = low[2] /\ h[42] = low[3] /\ h[43] = low[4]
       /\ h[44] = low[5] /\ h[45] = low[6] /\ h[46] = low[7] /\ h[47] = low[8]
  <2>1. /\ h[39 + 1] = low[1] /\ h[39 + 2] = low[2] /\ h[39 + 3] = low[3] /\ h[39 + 4] = low[4]
        /\ h[39 + 5] = low[5] /\ h[39 + 6] = low[6] /\ h[39 + 7] = low[7] /\ h[39 + 8] = low[8]
    BY <1>13
  <2>2. QED
    BY <2>1
<1>16. \A k \in 1 .. 4 : h[47 + k] = a[k + 4]
  <2>1. \A k \in 1 .. 4 : high[k] = a[k + 4] /\ k \in Eight
    BY <1>3 DEF Eight
  <2>2. QED
    BY <1>14, <2>1
<1>17. \A k \in 12 .. 15 : h[40 + k] = 0
  <2>1. \A k \in 12 .. 15 : k - 7 \in Eight /\ 47 + (k - 7) = 40 + k /\ high[k - 7] = 0
    BY <1>3 DEF Eight
  <2>2. QED
    BY <1>14, <2>1
<1>18. QED
  BY <1>2, <1>6, <1>11, <1>12, <1>15, <1>16, <1>17 DEF a

(* The bytes of a_gdt that the processor reads.                            *)
LEMMA FilledBytes ==
  /\ Filled \in Gdts
  /\ Filled[13] = 155 /\ Filled[14] = 175 /\ Filled[29] = 147
  /\ Filled[40] = TssSize - 1 /\ Filled[41] = 0 /\ Filled[46] = 0
  /\ Filled[42] = TssAddress[1] /\ Filled[43] = TssAddress[2] /\ Filled[44] = TssAddress[3]
  /\ Filled[45] = 137 /\ Filled[47] = TssAddress[4]
  /\ \A k \in 1 .. 4 : Filled[47 + k] = TssAddress[k + 4]
  /\ \A k \in 12 .. 15 : Filled[40 + k] = 0
<1> DEFINE g1 == set_segment(EmptyGdt, KernelCs, 155, 10)
           g2 == set_segment(g1, UserCs, 251, 10)
           g3 == set_segment(g2, KernelDs, 147, 12)
           g4 == set_segment(g3, UserDs, 243, 12)
<1>1. EmptyGdt \in Gdts
  BY DEF EmptyGdt, Gdts, GdtSize, Offsets, Octets
<1>2. KernelCs = 1 /\ UserCs = 2 /\ KernelDs = 3 /\ UserDs = 4
  BY DEF KernelCs, UserCs, KernelDs, UserDs
<1>3. /\ KernelCs \in Nat /\ UserCs \in Nat /\ KernelDs \in Nat /\ UserDs \in Nat
      /\ KernelCs <= 4 /\ UserCs <= 4 /\ KernelDs <= 4 /\ UserDs <= 4
      /\ 155 \in Octets /\ 251 \in Octets /\ 147 \in Octets /\ 243 \in Octets
  BY <1>2 DEF Octets
<1>4. g1 \in Gdts /\ g1[8 * KernelCs + 5] = 155 /\ g1[8 * KernelCs + 6] = 15 + 16 * 10
  BY <1>1, <1>3, SegmentStored
<1> HIDE DEF g1
<1>5. g2 \in Gdts /\ \A o \in Offsets : o < 8 * UserCs \/ 8 * UserCs + 8 <= o => g2[o] = g1[o]
  BY <1>3, <1>4, SegmentStored
<1> HIDE DEF g2
<1>6. /\ g3 \in Gdts /\ g3[8 * KernelDs + 5] = 147
      /\ \A o \in Offsets : o < 8 * KernelDs \/ 8 * KernelDs + 8 <= o => g3[o] = g2[o]
  BY <1>3, <1>5, SegmentStored
<1> HIDE DEF g3
<1>7. g4 \in Gdts /\ \A o \in Offsets : o < 8 * UserDs \/ 8 * UserDs + 8 <= o => g4[o] = g3[o]
  BY <1>3, <1>6, SegmentStored
<1> HIDE DEF g4
<1> 13 \in Offsets /\ 14 \in Offsets /\ 29 \in Offsets
  BY DEF Offsets
<1>8. g1[13] = 155 /\ g1[14] = 175
  BY <1>2, <1>4
<1>9. g2[13] = 155 /\ g2[14] = 175
  BY <1>2, <1>5, <1>8
<1>10. g3[13] = 155 /\ g3[14] = 175 /\ g3[29] = 147
  BY <1>2, <1>6, <1>9
<1>11. g4[13] = 155 /\ g4[14] = 175 /\ g4[29] = 147
  BY <1>2, <1>7, <1>10
<1>12. Filled = set_TSS(g4, 137, 0)
  BY DEF Filled, FilledGdt, g1, g2, g3, g4
<1>13. QED
  BY <1>7, <1>11, <1>12, TssStored

(* The access bytes and flags of the entries, taken apart.                 *)
LEMMA CodeBits ==
  /\ Bit(155, 128) = 1 /\ Bit(155, 64) = 0 /\ Bit(155, 32) = 0 /\ Bit(155, 16) = 1
  /\ 155 % 16 = 11 /\ Bit(11, 8) = 1 /\ Bit(175, 32) = 1 /\ Bit(175, 64) = 0
  BY DEF Bit

LEMMA DataBits ==
  /\ Bit(147, 128) = 1 /\ Bit(147, 64) = 0 /\ Bit(147, 32) = 0 /\ Bit(147, 16) = 1
  /\ 147 % 16 = 3 /\ Bit(3, 8) = 0 /\ Bit(3, 2) = 1
  BY DEF Bit

LEMMA TssBits ==
  ASSUME NEW access \in {137, 139}
  PROVE  Bit(access, 128) = 1 /\ Bit(access, 16) = 0 /\ access % 16 = access - 128
  BY DEF Bit

LEMMA GateBits ==
  ASSUME NEW flags \in {142, 143}
  PROVE  Bit(flags, 128) = 1 /\ Bit(flags, 16) = 0 /\ flags % 16 \in {14, 15}
  BY DEF Bit

LEMMA CodeUsable ==
  ASSUME NEW h, h[13] = 155, h[14] = 175
  PROVE  IsKernelCode(h, cs_selector)
<1>1. cs_selector = 8 /\ 8 = 8 * (cs_selector \div 8)
  BY DEF cs_selector
<1>2. ~IsNull(cs_selector) /\ InGdt(cs_selector)
  BY DEF IsNull, InGdt, cs_selector, GdtSize
<1>3. h[8 + 5] = 155 /\ h[8 + 6] = 175
  OBVIOUS
<1> DEFINE d == Read(h, cs_selector)
<1>4. /\ d.present = (Bit(155, 128) = 1) /\ d.dpl = 2 * Bit(155, 64) + Bit(155, 32)
      /\ d.system = (Bit(155, 16) = 0) /\ d.type = 155 % 16
      /\ d.long = (Bit(175, 32) = 1) /\ d.big = (Bit(175, 64) = 1)
  BY <1>1, <1>3 DEF Read
<1> HIDE DEF d
<1>5. d.present /\ ~d.system /\ d.long /\ ~d.big
  <2>1. Bit(155, 128) = 1 /\ Bit(155, 16) # 0 /\ Bit(175, 32) = 1 /\ Bit(175, 64) # 1
    BY CodeBits
  <2>2. QED
    BY <1>4, <2>1, Zenon
<1>6. Bit(d.type, 8) = 1 /\ d.dpl = 0
  BY <1>4, CodeBits
<1>7. QED
  BY <1>2, <1>5, <1>6 DEF IsKernelCode, d

LEMMA DataUsable ==
  ASSUME NEW h, h[29] = 147
  PROVE  IsKernelData(h, ds_selector)
<1>1. ds_selector = 24 /\ 24 = 8 * (ds_selector \div 8)
  BY DEF ds_selector
<1>2. ~IsNull(ds_selector) /\ InGdt(ds_selector)
  BY DEF IsNull, InGdt, ds_selector, GdtSize
<1>3. h[24 + 5] = 147
  OBVIOUS
<1> DEFINE d == Read(h, ds_selector)
<1>4. /\ d.present = (Bit(147, 128) = 1) /\ d.dpl = 2 * Bit(147, 64) + Bit(147, 32)
      /\ d.system = (Bit(147, 16) = 0) /\ d.type = 147 % 16
  BY <1>1, <1>3 DEF Read
<1> HIDE DEF d
<1>5. d.present /\ ~d.system
  <2>1. Bit(147, 128) = 1 /\ Bit(147, 16) # 0
    BY DataBits
  <2>2. QED
    BY <1>4, <2>1, Zenon
<1>6. Bit(d.type, 8) = 0 /\ Bit(d.type, 2) = 1 /\ d.dpl = 0
  BY <1>4, DataBits
<1>7. QED
  BY <1>2, <1>5, <1>6 DEF IsKernelData, d

(* The bytes of the last entry that ltr leaves alone.                      *)
TssBytes(h) ==
  /\ h[40] = TssSize - 1 /\ h[41] = 0 /\ h[46] = 0
  /\ h[42] = TssAddress[1] /\ h[43] = TssAddress[2] /\ h[44] = TssAddress[3]
  /\ h[47] = TssAddress[4]
  /\ \A k \in 1 .. 4 : h[47 + k] = TssAddress[k + 4]
  /\ \A k \in 12 .. 15 : h[40 + k] = 0

LEMMA TssUsable ==
  ASSUME NEW h, TssBytes(h), h[45] \in {137, 139}, NEW types, h[45] - 128 \in types
  PROVE  IsTss(h, ltr_selector, types)
<1>1. ltr_selector = 40 /\ 40 = 8 * (ltr_selector \div 8)
  BY DEF ltr_selector
<1>2. ~IsNull(ltr_selector) /\ InGdt(ltr_selector + 8)
  BY DEF IsNull, InGdt, ltr_selector, GdtSize
<1> DEFINE d == Read(h, ltr_selector)
<1>3. /\ d.present = (Bit(h[45], 128) = 1) /\ d.system = (Bit(h[45], 16) = 0)
      /\ d.type = h[45] % 16
      /\ d.limit = <<h[40], h[41], h[46] % 16>> /\ d.base = <<h[42], h[43], h[44], h[47]>>
  BY <1>1 DEF Read
<1> HIDE DEF d
<1>4. d.present /\ d.system
  <2>1. Bit(h[45], 128) = 1 /\ Bit(h[45], 16) = 0
    BY TssBits
  <2>2. QED
    BY <1>3, <2>1, Zenon
<1>5. d.type \in types
  <2>1. h[45] % 16 = h[45] - 128
    BY TssBits
  <2>2. QED
    BY <1>3, <2>1
<1>6. \A k \in 1 .. 4 : d.base[k] = TssAddress[k]
  BY <1>3 DEF TssBytes
<1>7. \A k \in 1 .. 4 : h[40 + 7 + k] = TssAddress[k + 4]
  BY DEF TssBytes
<1>8. d.limit = <<(TssSize - 1) % 256, (TssSize - 1) \div 256, 0>>
  <2>1. TssSize - 1 = (TssSize - 1) % 256 /\ (TssSize - 1) \div 256 = 0
    BY SegmentsAssumption
  <2>2. h[40] = (TssSize - 1) % 256 /\ h[41] = (TssSize - 1) \div 256 /\ h[46] % 16 = 0
    BY <2>1 DEF TssBytes
  <2>3. QED
    BY <1>3, <2>2
<1>9. \A k \in 12 .. 15 : h[40 + k] = 0
  BY DEF TssBytes
<1>10. QED
  BY <1>1, <1>2, <1>4, <1>5, <1>6, <1>7, <1>8, <1>9 DEF IsTss, d

(* The gate of a stub, for a selector that is kernel code.                 *)
LEMMA GateUsable ==
  ASSUME NEW h, IsKernelCode(h, cs_selector), NEW n \in Stubs
  PROVE  IsGate(h, FilledIdt(cs_selector)[n], IsrAddress[n])
<1> DEFINE flags == IF n = 1 THEN 143 ELSE 142
           a == IsrAddress[n]
           gate == set_gate(flags, a, 0, cs_selector)
<1>1. FilledIdt(cs_selector)[n] = gate
  BY DEF FilledIdt
<1>2. a \in [1 .. 8 -> 0 .. 255]
  BY SegmentsAssumption DEF Stubs
<1>3. /\ gate[1] = a[1] /\ gate[2] = a[2] /\ gate[3] = 8 /\ gate[4] = 0 /\ gate[5] = 0
      /\ gate[6] = flags /\ gate[7] = a[3] /\ gate[8] = a[4] /\ gate[9] = a[5]
      /\ gate[10] = a[6] /\ gate[11] = a[7] /\ gate[12] = a[8]
  BY DEF set_gate, cs_selector
<1>4. flags \in {142, 143}
  OBVIOUS
<1> HIDE DEF gate, flags, a
<1>5. Bit(gate[6], 128) = 1 /\ Bit(gate[6], 16) = 0 /\ gate[6] % 16 \in {14, 15}
  BY <1>3, <1>4, GateBits
<1>6. <<a[1], a[2], a[3], a[4], a[5], a[6], a[7], a[8]>> = a
  BY <1>2
<1>7. gate[5] % 8 = 0 /\ gate[3] + 256 * gate[4] = cs_selector
  BY <1>3 DEF cs_selector
<1>8. IsGate(h, gate, a)
  BY <1>3, <1>5, <1>6, <1>7 DEF IsGate
<1>9. QED
  BY <1>1, <1>8 DEF a

(* The tables and CS by the calls of kmain: the table is empty, then       *)
(* filled, and from ltr on its TSS is busy; the gates are filled in with   *)
(* the selector that reload_segments has loaded.                           *)
Busy == [Filled EXCEPT ![45] = 139]

CpuInv ==
  /\ step \in 1 .. 24
  /\ gdt = IF step = 1 THEN EmptyGdt ELSE IF step <= 3 THEN Filled ELSE Busy
  /\ gdtr => step >= 3
  /\ cs = IF step <= 4 THEN LIMINE_CS ELSE cs_selector
  /\ idt = IF step <= 5 THEN NULL ELSE FilledIdt(cs_selector)

LEMMA CpuPlaces ==
  ASSUME step \in 1 .. 24
  PROVE  /\ At("fill_gdt") => step = 1
         /\ At("lgdt") => step = 2
         /\ At("ltr") => step = 3
         /\ At("reload_segments") => step = 4
         /\ At("init_interrupts") => step = 5
         /\ \A call : At(call) => 6 <= step \/ call \in {"fill_gdt", "lgdt", "ltr",
                                                        "reload_segments", "init_interrupts"}
  BY DEF At, Kmain

(* ltr finds a TSS that is not busy, and marks it.                         *)
LEMMA Usable ==
  /\ IsKernelCode(Filled, cs_selector) /\ IsKernelData(Filled, ds_selector)
  /\ IsTss(Filled, ltr_selector, {AvailableTss})
  /\ IsTss(Filled, ltr_selector, {AvailableTss, BusyTss})
  /\ IsKernelCode(Busy, cs_selector) /\ IsKernelData(Busy, ds_selector)
  /\ IsTss(Busy, ltr_selector, {AvailableTss, BusyTss})
  /\ Busy = [Filled EXCEPT ![ltr_selector + 5] = @ + 2]
<1>1. TssBytes(Filled) /\ Filled[45] = 137 /\ Filled[13] = 155 /\ Filled[14] = 175 /\ Filled[29] = 147
  BY FilledBytes DEF TssBytes
<1>2. Filled \in Gdts /\ \A o \in Offsets : o # 45 => Busy[o] = Filled[o]
  BY FilledBytes DEF Busy, Gdts
<1>3. Busy[45] = 139
  <2>1. 45 \in Offsets
    BY DEF Offsets
  <2>2. QED
    BY <1>2, <2>1 DEF Busy, Gdts
<1>4. Busy[13] = 155 /\ Busy[14] = 175 /\ Busy[29] = 147
  BY <1>1, <1>2 DEF Offsets
<1>5. TssBytes(Busy)
  <2>1. /\ Busy[40] = Filled[40] /\ Busy[41] = Filled[41] /\ Busy[42] = Filled[42]
        /\ Busy[43] = Filled[43] /\ Busy[44] = Filled[44] /\ Busy[46] = Filled[46]
        /\ Busy[47] = Filled[47]
    BY <1>2 DEF Offsets
  <2>2. \A k \in 1 .. 4 : Busy[47 + k] = Filled[47 + k]
    BY <1>2 DEF Offsets
  <2>3. \A k \in 12 .. 15 : Busy[40 + k] = Filled[40 + k]
    BY <1>2 DEF Offsets
  <2>4. QED
    BY <1>1, <2>1, <2>2, <2>3 DEF TssBytes
<1>6. AvailableTss = 9 /\ BusyTss = 11
  BY DEF AvailableTss, BusyTss
<1>7. IsTss(Filled, ltr_selector, {AvailableTss}) /\ IsTss(Filled, ltr_selector, {AvailableTss, BusyTss})
  BY <1>1, <1>6, TssUsable
<1>8. IsTss(Busy, ltr_selector, {AvailableTss, BusyTss})
  BY <1>3, <1>5, <1>6, TssUsable
<1>9. Busy = [Filled EXCEPT ![ltr_selector + 5] = @ + 2]
  <2>1. ltr_selector + 5 = 45 /\ Filled[45] + 2 = 139
    BY <1>1 DEF ltr_selector
  <2>2. QED
    BY <2>1 DEF Busy
<1>10. QED
  BY <1>1, <1>4, <1>7, <1>8, <1>9, CodeUsable, DataUsable

LEMMA CpuNextInv ==
  ASSUME CpuInv, [BootNext]_allvars
  PROVE  CpuInv'
<1> step \in 1 .. 24
  BY DEF CpuInv
<1>1. CASE init_gdt
  <2>1. UNCHANGED idt
    BY <1>1 DEF init_gdt
  <2>2. CASE At("fill_gdt") /\ gdt' = FilledGdt /\ Return /\ UNCHANGED <<gdtr, cs>>
    BY <2>1, <2>2, CpuPlaces DEF CpuInv, Return, Filled
  <2>3. CASE At("lgdt") /\ gdtr' = TRUE /\ Return /\ UNCHANGED <<gdt, cs>>
    BY <2>1, <2>3, CpuPlaces DEF CpuInv, Return
  <2>4. CASE /\ At("ltr") /\ Needs(IsTss(gdt, ltr_selector, {AvailableTss}))
             /\ gdt' = [gdt EXCEPT ![ltr_selector + 5] = @ + 2]
             /\ UNCHANGED <<gdtr, cs>>
    <3>1. step = 3 /\ gdt = Filled
      BY <2>4, CpuPlaces DEF CpuInv
    <3>2. gdt' = Busy /\ step' = 4
      BY <2>4, <3>1, Usable DEF Needs, Return
    <3>3. QED
      BY <2>1, <2>4, <3>1, <3>2 DEF CpuInv
  <2>5. CASE /\ At("reload_segments")
             /\ Needs(IsKernelCode(gdt, cs_selector) /\ IsKernelData(gdt, ds_selector))
             /\ cs' = cs_selector
             /\ UNCHANGED <<gdt, gdtr>>
    <3>1. step = 4 /\ gdt = Busy
      BY <2>5, CpuPlaces DEF CpuInv
    <3>2. step' = 5
      BY <2>5, <3>1, Usable DEF Needs, Return
    <3>3. QED
      BY <2>1, <2>5, <3>1, <3>2 DEF CpuInv
  <2>6. QED
    BY <1>1, <2>2, <2>3, <2>4, <2>5 DEF init_gdt
<1>2. CASE init_interrupts
  <2>1. step = 5 /\ step' = 6 /\ idt' = FilledIdt(cs) /\ UNCHANGED <<gdt, gdtr, cs>>
    BY <1>2, CpuPlaces DEF init_interrupts, Return
  <2>2. QED
    BY <2>1 DEF CpuInv
<1>3. ASSUME UNCHANGED cpu, 6 <= step, step' \in {step, step + 1}, step < 24 \/ step' = step
      PROVE  CpuInv'
  BY <1>3 DEF CpuInv, cpu
<1>4. ASSUME NEW call, At(call), call \notin {"fill_gdt", "lgdt", "ltr", "reload_segments",
                                             "init_interrupts", "sti"},
             UNCHANGED cpu, step' \in {step, step + 1}
      PROVE  CpuInv'
  <2>1. 6 <= step
    BY <1>4, CpuPlaces
  <2>2. step # 24
    <3>1. step = 24 => Kmain[step] = "sti"
      BY DEF Kmain
    <3>2. QED
      BY <1>4, <3>1 DEF At
  <2>3. QED
    BY <1>3, <1>4, <2>1, <2>2
<1> USE DEF Return, Fault, Halt, Needs
<1>5. CASE \E answer \in DOMAIN Good : Check(answer)
  <2>1. PICK answer \in DOMAIN Good : Check(answer)
    BY <1>5
  <2>2. answer \in {"base", "framebuffer", "hhdm", "memmap", "rsdp"}
    BY DEF Good
  <2>3. At(answer) /\ UNCHANGED cpu /\ step' \in {step, step + 1}
    BY <2>1 DEF Check
  <2>4. QED
    BY <1>4, <2>2, <2>3
<1>6. CASE ParseMadt
  BY <1>4, <1>6 DEF ParseMadt
<1>7. CASE init_bitmap_pmm
  BY <1>4, <1>7 DEF init_bitmap_pmm
<1>8. CASE MapPages("map_lapic", "lapic") \/ map_ioapic \/ MapPages("map_heap", "heap")
  BY <1>4, <1>8 DEF MapPages, map_ioapic
<1>9. CASE init_LAPIC
  <2>1. ASSUME NEW call, NEW registers, WriteLapic(call, registers)
        PROVE  At(call) /\ UNCHANGED cpu /\ step' \in {step, step + 1}
    BY <2>1 DEF WriteLapic
  <2>2. CASE WriteLapic("SVR", SvrOn) \/ WriteLapic("LINT0", Lint0Masked)
             \/ WriteLapic("LINT1", Lint1Nmi)
             \/ WriteLapic("init_APIC_error", [lapic EXCEPT !.error = Lvt(FALSE, 32)])
    BY <1>4, <2>1, <2>2
  <2>3. CASE CalibrateTimer
    BY <1>4, <2>3 DEF CalibrateTimer
  <2>4. CASE At("disable_pic") /\ Return /\ UNCHANGED cpu
    BY <1>4, <2>4
  <2>5. CASE At("cr8") /\ Return /\ UNCHANGED cpu
    BY <1>4, <2>5
  <2>6. QED
    BY <1>9, <2>2, <2>3, <2>4, <2>5 DEF init_LAPIC
<1>10. CASE init_IOAPIC
  BY <1>4, <1>10 DEF init_IOAPIC
<1>11. CASE sti \/ TimePasses \/ UNCHANGED allvars
  <2>1. UNCHANGED <<cpu, step>>
    BY <1>11 DEF sti, TimePasses, bootvars, allvars
  <2>2. QED
    BY <2>1 DEF CpuInv, cpu
<1>12. QED
  BY <1>1, <1>2, <1>5, <1>6, <1>7, <1>8, <1>9, <1>10, <1>11 DEF BootNext, Call, Stays

(* Once the processor uses a_gdt, its selectors name what the kernel means *)
(* them to name, and the gates lead to their stubs in kernel code, at      *)
(* whatever addresses the linker has put the stubs and the TSS.            *)
THEOREM BootDescriptorsUsable == BootSpec => []DescriptorsUsable
<1>1. BootInit => CpuInv
  BY DEF BootInit, CpuInv
<1>2. CpuInv /\ [BootNext]_allvars => CpuInv'
  BY CpuNextInv
<1>3. CpuInv => DescriptorsUsable
  <2>1. SUFFICES ASSUME CpuInv, gdtr PROVE
          /\ IsKernelCode(gdt, cs_selector) /\ IsKernelData(gdt, ds_selector)
          /\ IsTss(gdt, ltr_selector, {AvailableTss, BusyTss})
          /\ idt # NULL => \A n \in Stubs : IsGate(gdt, idt[n], IsrAddress[n])
    BY DEF DescriptorsUsable
  <2>2. gdt \in {Filled, Busy} /\ (idt = NULL \/ idt = FilledIdt(cs_selector))
    BY <2>1 DEF CpuInv
  <2>3. /\ IsKernelCode(gdt, cs_selector) /\ IsKernelData(gdt, ds_selector)
        /\ IsTss(gdt, ltr_selector, {AvailableTss, BusyTss})
    BY <2>2, Usable
  <2>4. QED
    BY <2>2, <2>3, GateUsable
<1>4. QED
  BY <1>1, <1>2, <1>3, PTL DEF BootSpec
-----------------------------------------------------------------------------
(* The ACPI tables *)

(* Induction, without the theorem that takes an operator: a set that has 0 *)
(* and each next number has all up to n, or the next number would be a     *)
(* one-to-one function from those below n into fewer.                      *)
LEMMA UpTo ==
  ASSUME NEW n \in Nat, NEW S, 0 \in S, \A k \in 0 .. n - 1 : k \in S => k + 1 \in S
  PROVE  n \in S
<1> SUFFICES ASSUME n \notin S PROVE FALSE
  OBVIOUS
<1> DEFINE T == {k \in 0 .. n - 1 : k \in S}
           next == [k \in T |-> k + 1]
<1>1. IsFiniteSet(T)
  <2>1. IsFiniteSet(0 .. n - 1)
    BY FS_Interval
  <2>2. T \in SUBSET (0 .. n - 1)
    OBVIOUS
  <2> HIDE DEF T
  <2>3. QED
    BY <2>1, <2>2, FS_Subset
<1>2. 0 \in T
  OBVIOUS
<1>3. IsFiniteSet(T \ {0}) /\ Cardinality(T \ {0}) < Cardinality(T)
  <2> HIDE DEF T
  <2>1. IsFiniteSet(T \ {0}) /\ Cardinality(T \ {0}) = Cardinality(T) - 1
    BY <1>1, <1>2, FS_RemoveElement
  <2>2. Cardinality(T) \in Nat
    BY <1>1, FS_CardinalityType
  <2>3. QED
    BY <2>1, <2>2
<1>4. next \in [T -> T \ {0}]
  <2>1. \A k \in T : k + 1 \in T \ {0}
    OBVIOUS
  <2>2. QED
    BY <2>1
<1>5. \A x, y \in T : next[x] = next[y] => x = y
  OBVIOUS
<1> HIDE DEF T, next
<1>6. \E x, y \in T : x # y /\ next[x] = next[y]
  BY <1>1, <1>3, <1>4, FS_PigeonHole
<1>7. QED
  BY <1>5, <1>6

LEMMA AllUpTo ==
  ASSUME NEW n \in Nat, NEW S, 0 \in S, \A k \in 0 .. n - 1 : k \in S => k + 1 \in S
  PROVE  \A l \in 0 .. n : l \in S
<1>1. TAKE l \in 0 .. n
<1>2. l \in Nat /\ \A k \in 0 .. l - 1 : k \in S => k + 1 \in S
  OBVIOUS
<1>3. QED
  BY <1>2, UpTo

(* The recursive function behind FlattenSeq exists, so it is what its      *)
(* equation says.                                                          *)
LEMMA FlattenIs ==
  ASSUME NEW E, Len(E) \in Nat \ {0}
  PROVE  \E flat : /\ flat[1] = E[1] /\ FlattenSeq(E) = flat[Len(E)]
                   /\ \A i \in 2 .. Len(E) : flat[i] = flat[i - 1] \o E[i]
<1> DEFINE n == Len(E)
           Unfolds(k, w) == w = [i \in 1 .. k |-> IF i = 1 THEN E[1] ELSE w[i - 1] \o E[i]]
           S == {k \in 0 .. n : \E w : Unfolds(k, w)}
<1> HIDE DEF n
<1>0. n \in Nat \ {0}
  BY DEF n
<1>1. 0 \in S
  <2>1. Unfolds(0, [i \in 1 .. 0 |-> E[1]])
    OBVIOUS
  <2> HIDE DEF Unfolds
  <2>2. QED
    BY <1>0, <2>1
<1>2. ASSUME NEW k \in 0 .. n - 1, k \in S PROVE k + 1 \in S
  <2>1. PICK w : Unfolds(k, w)
    BY <1>2
  <2> DEFINE u == [i \in 1 .. k + 1 |-> IF i = 1 THEN E[1] ELSE w[i - 1] \o E[i]]
  <2>2. \A i \in 1 .. k : w[i] = IF i = 1 THEN E[1] ELSE w[i - 1] \o E[i]
    BY <2>1
  <2>3. \A i \in 1 .. k : w[i] = u[i]
    BY <2>2
  <2>4. u = [i \in 1 .. k + 1 |-> IF i = 1 THEN E[1] ELSE u[i - 1] \o E[i]]
    <3>1. \A i \in 1 .. k + 1 : i # 1 => i - 1 \in 1 .. k
      OBVIOUS
    <3>2. \A i \in 1 .. k + 1 : i # 1 => u[i - 1] = w[i - 1]
      <4> HIDE DEF u
      <4>1. QED
        BY <3>1, <2>3
    <3>3. QED
      BY <3>2, Zenon
  <2>5. \E x : Unfolds(k + 1, x)
    <3> HIDE DEF u
    <3>1. QED
      BY <2>4
  <2> HIDE DEF Unfolds
  <2>6. QED
    BY <1>0, <2>5
<1>3. n \in S
  <2> HIDE DEF S
  <2>1. QED
    BY <1>0, <1>1, <1>2, UpTo
<1>4. PICK u : u = [i \in 1 .. n |-> IF i = 1 THEN E[1] ELSE u[i - 1] \o E[i]]
  BY <1>3
<1> DEFINE flat == CHOOSE f : f = [i \in 1 .. n |-> IF i = 1 THEN E[i] ELSE f[i - 1] \o E[i]]
<1>5. \E f : f = [i \in 1 .. n |-> IF i = 1 THEN E[i] ELSE f[i - 1] \o E[i]]
  BY <1>4
<1>6. flat = [i \in 1 .. n |-> IF i = 1 THEN E[i] ELSE flat[i - 1] \o E[i]]
  BY <1>5
<1>7. FlattenSeq(E) = flat[n]
  BY DEF FlattenSeq, n
<1> HIDE DEF flat
<1>8. flat[1] = E[1] /\ \A i \in 2 .. n : flat[i] = flat[i - 1] \o E[i]
  <2>1. 1 \in 1 .. n /\ \A i \in 2 .. n : i \in 1 .. n /\ i # 1
    BY <1>0
  <2>2. QED
    BY <1>6, <2>1
<1>9. QED
  BY <1>7, <1>8 DEF n

LEMMA Concatenated ==
  ASSUME NEW s \in Seq(Nat), NEW t \in Seq(Nat)
  PROVE  /\ s \o t \in Seq(Nat) /\ Len(s \o t) = Len(s) + Len(t)
         /\ \A x \in 1 .. Len(s) : (s \o t)[x] = s[x]
         /\ \A x \in 1 .. Len(t) : (s \o t)[Len(s) + x] = t[x]
  OBVIOUS

LEMMA SumGrows ==
  ASSUME NEW a \in Nat, NEW b \in Nat, NEW c \in Nat, a <= b
  PROVE  a <= b + c
  OBVIOUS

LEMMA Within ==
  ASSUME NEW a \in Nat, NEW b \in Nat, NEW x \in 1 .. b
  PROVE  a + x \in 1 .. a + b
  OBVIOUS

(* Where each entry starts, from the first on, and where the last one ends.*)
StartsOf(E, off) ==
  /\ off \in [0 .. Len(E) -> Nat] /\ off[0] = 0 /\ off[Len(E)] = Len(FlattenSeq(E))
  /\ \A i \in 1 .. Len(E) : off[i] = off[i - 1] + Len(E[i])
  /\ \A i \in 1 .. Len(E) : \A x \in 1 .. Len(E[i]) : FlattenSeq(E)[off[i - 1] + x] = E[i][x]

LEMMA Flattened ==
  ASSUME NEW E \in Seq(Seq(Nat))
  PROVE  FlattenSeq(E) \in Seq(Nat) /\ \E off : StartsOf(E, off)
<1>1. CASE Len(E) = 0
  <2>1. FlattenSeq(E) = E /\ E = <<>>
    BY <1>1 DEF FlattenSeq
  <2>2. StartsOf(E, [i \in 0 .. 0 |-> 0])
    BY <2>1 DEF StartsOf
  <2>3. QED
    BY <2>1, <2>2
<1>2. CASE Len(E) # 0
  <2> DEFINE n == Len(E)
  <2> HIDE DEF n
  <2>1. n \in Nat \ {0} /\ \A i \in 1 .. n : E[i] \in Seq(Nat)
    BY <1>2 DEF n
  <2>2. PICK flat : /\ flat[1] = E[1] /\ FlattenSeq(E) = flat[n]
                    /\ \A i \in 2 .. n : flat[i] = flat[i - 1] \o E[i]
    BY <2>1, FlattenIs DEF n
  <2>3. \A k \in 0 .. n - 1 : flat[k + 1] \in Seq(Nat)
    <3> DEFINE S == {k \in 0 .. n - 1 : flat[k + 1] \in Seq(Nat)}
    <3>1. 0 \in S
      BY <2>1, <2>2
    <3>2. ASSUME NEW k \in 0 .. (n - 1) - 1, k \in S PROVE k + 1 \in S
      <4>1. k + 1 \in 0 .. n - 1 /\ (k + 1) + 1 \in 2 .. n /\ (k + 1) + 1 \in 1 .. n
            /\ ((k + 1) + 1) - 1 = k + 1
        BY <2>1
      <4>2. flat[(k + 1) + 1] = flat[k + 1] \o E[(k + 1) + 1]
        BY <2>2, <4>1
      <4>3. flat[k + 1] \in Seq(Nat) /\ E[(k + 1) + 1] \in Seq(Nat)
        BY <2>1, <3>2, <4>1
      <4>4. flat[(k + 1) + 1] \in Seq(Nat)
        BY <4>2, <4>3, Concatenated
      <4>5. QED
        BY <4>1, <4>4
    <3> HIDE DEF S
    <3>3. \A k \in 0 .. n - 1 : k \in S
      <4>1. PICK m \in Nat : m = n - 1
        BY <2>1
      <4>2. \A k \in 0 .. m - 1 : k \in S => k + 1 \in S
        BY <3>2, <4>1
      <4>3. \A k \in 0 .. m : k \in S
        BY <3>1, <4>2, AllUpTo
      <4>4. QED
        BY <4>1, <4>3
    <3>4. QED
      BY <3>3 DEF S
  <2>4. \A i \in 1 .. n : flat[i] \in Seq(Nat)
    <3>1. TAKE i \in 1 .. n
    <3>2. i - 1 \in 0 .. n - 1 /\ (i - 1) + 1 = i
      BY <2>1
    <3>3. QED
      BY <2>3, <3>2
  <2>5. \A i \in 2 .. n :
          /\ i - 1 \in 1 .. n
          /\ Len(flat[i]) = Len(flat[i - 1]) + Len(E[i])
          /\ \A x \in 1 .. Len(flat[i - 1]) : flat[i][x] = flat[i - 1][x]
          /\ \A x \in 1 .. Len(E[i]) : flat[i][Len(flat[i - 1]) + x] = E[i][x]
    <3>1. TAKE i \in 2 .. n
    <3>2. i \in 1 .. n /\ i - 1 \in 1 .. n
      BY <2>1
    <3>3. flat[i - 1] \in Seq(Nat) /\ E[i] \in Seq(Nat) /\ flat[i] = flat[i - 1] \o E[i]
      BY <2>1, <2>2, <2>4, <3>2
    <3> DEFINE s == flat[i - 1]
               t == E[i]
    <3> HIDE DEF s, t
    <3>4. s \in Seq(Nat) /\ t \in Seq(Nat) /\ flat[i] = s \o t
      BY <3>3 DEF s, t
    <3>5. /\ Len(flat[i]) = Len(s) + Len(t)
          /\ \A x \in 1 .. Len(s) : flat[i][x] = s[x]
          /\ \A x \in 1 .. Len(t) : flat[i][Len(s) + x] = t[x]
      BY <3>4, Concatenated
    <3>6. QED
      BY <3>2, <3>5 DEF s, t
  <2>6. ASSUME NEW i \in 1 .. n
        PROVE  /\ Len(flat[i]) <= Len(flat[n])
               /\ \A x \in 1 .. Len(flat[i]) : flat[n][x] = flat[i][x]
    <3> DEFINE Longer(k) == /\ Len(flat[i]) <= Len(flat[k])
                            /\ \A x \in 1 .. Len(flat[i]) : flat[k][x] = flat[i][x]
               S == {d \in 0 .. n - i : Longer(i + d)}
    <3>1. 0 \in S /\ n - i \in Nat
      <4>1. i \in Nat /\ n - i \in Nat /\ i + 0 = i
        BY <2>1
      <4>2. Len(flat[i]) \in Nat
        BY <2>4
      <4>3. QED
        BY <4>1, <4>2
    <3>2. ASSUME NEW d \in 0 .. (n - i) - 1, d \in S PROVE d + 1 \in S
      <4>1. PICK j \in 2 .. n, k \in 1 .. n : j = i + (d + 1) /\ k = i + d /\ j - 1 = k
        BY <2>1
      <4>2. d + 1 \in 0 .. n - i /\ j \in 1 .. n
        BY <2>1
      <4>3. /\ Len(flat[j]) = Len(flat[k]) + Len(E[j])
            /\ \A x \in 1 .. Len(flat[k]) : flat[j][x] = flat[k][x]
        <5>1. /\ Len(flat[j]) = Len(flat[j - 1]) + Len(E[j])
              /\ \A x \in 1 .. Len(flat[j - 1]) : flat[j][x] = flat[j - 1][x]
          BY <2>5
        <5>2. j - 1 = k
          BY <4>1
        <5>3. QED
          BY <5>1, <5>2
      <4>4. Len(flat[i]) \in Nat /\ Len(flat[k]) \in Nat /\ Len(E[j]) \in Nat
        BY <2>1, <2>4, <4>2
      <4>5. Longer(k)
        BY <3>2, <4>1
      <4>6. Longer(j)
        <5>1. Len(flat[i]) <= Len(flat[j])
          <6>1. Len(flat[i]) <= Len(flat[k]) /\ Len(flat[j]) = Len(flat[k]) + Len(E[j])
            BY <4>3, <4>5
          <6>2. QED
            BY <4>4, <6>1, SumGrows
        <5>2. ASSUME NEW x \in 1 .. Len(flat[i]) PROVE flat[j][x] = flat[i][x]
          <6>1. x \in 1 .. Len(flat[k])
            BY <4>4, <4>5
          <6>2. QED
            BY <4>3, <4>5, <6>1
        <5>3. QED
          BY <5>1, <5>2
      <4> HIDE DEF Longer
      <4>7. QED
        BY <4>1, <4>2, <4>6
    <3> HIDE DEF S
    <3>3. n - i \in S
      BY <3>1, <3>2, UpTo
    <3>4. i + (n - i) = n
      BY <2>1
    <3>5. QED
      BY <3>3, <3>4 DEF S
  <2> DEFINE off == [i \in 0 .. n |-> IF i = 0 THEN 0 ELSE Len(flat[i])]
  <2>7. off \in [0 .. n -> Nat] /\ off[0] = 0 /\ off[n] = Len(FlattenSeq(E))
    <3>1. \A i \in 0 .. n : i # 0 => Len(flat[i]) \in Nat
      BY <2>1, <2>4
    <3>2. QED
      BY <2>1, <2>2, <3>1
  <2>8. ASSUME NEW i \in 1 .. n
        PROVE  /\ off[i] = off[i - 1] + Len(E[i])
               /\ \A x \in 1 .. Len(E[i]) : flat[n][off[i - 1] + x] = E[i][x]
    <3>1. CASE i = 1
      <4>1. off[1] = Len(E[1]) /\ off[0] = 0 /\ Len(E[1]) \in Nat /\ flat[1] = E[1] /\ 1 - 1 = 0
        BY <2>1, <2>2
      <4> HIDE DEF off
      <4>2. \A x \in 1 .. Len(E[1]) : flat[n][x] = E[1][x]
        BY <2>6, <3>1, <4>1
      <4>3. QED
        BY <3>1, <4>1, <4>2
    <3>2. CASE i # 1
      <4>1. i \in 2 .. n /\ i - 1 \in 1 .. n /\ off[i] = Len(flat[i]) /\ off[i - 1] = Len(flat[i - 1])
        BY <2>1, <3>2
      <4> HIDE DEF off
      <4>2. Len(flat[i - 1]) \in Nat /\ Len(E[i]) \in Nat
        BY <2>1, <2>4, <4>1
      <4>3. ASSUME NEW x \in 1 .. Len(E[i]) PROVE flat[n][off[i - 1] + x] = E[i][x]
        <5>1. Len(flat[i - 1]) + x \in 1 .. Len(flat[i])
          <6>1. Len(flat[i]) = Len(flat[i - 1]) + Len(E[i])
            BY <2>5, <4>1
          <6>2. QED
            BY <4>2, <6>1, Within
        <5>2. flat[n][Len(flat[i - 1]) + x] = flat[i][Len(flat[i - 1]) + x]
          BY <2>6, <5>1
        <5>3. flat[i][Len(flat[i - 1]) + x] = E[i][x]
          BY <2>5, <4>1
        <5>4. QED
          BY <4>1, <5>2, <5>3
      <4>4. QED
        BY <2>5, <4>1, <4>3
    <3>3. QED
      BY <3>1, <3>2
  <2> HIDE DEF off
  <2>9. FlattenSeq(E) \in Seq(Nat)
    BY <2>1, <2>2, <2>4
  <2>10. StartsOf(E, off)
    BY <2>2, <2>7, <2>8 DEF StartsOf, n
  <2>11. QED
    BY <2>9, <2>10
<1>3. QED
  BY <1>1, <1>2

(* Where an entry starts is in the table, unless all have been passed.     *)
LEMMA WalkStep ==
  ASSUME NEW E \in Seq(Seq(Nat)), NEW off, StartsOf(E, off),
         \A k \in 1 .. Len(E) : Len(E[k]) >= 2, NEW i \in 0 .. Len(E)
  PROVE  /\ off[i] \in Nat /\ Len(FlattenSeq(E)) = off[Len(E)]
         /\ i = Len(E) => ~(off[i] < Len(FlattenSeq(E)))
         /\ i < Len(E) => /\ i + 1 \in 1 .. Len(E) /\ off[i + 1] = off[i] + Len(E[i + 1])
                          /\ off[i + 1] <= Len(FlattenSeq(E)) /\ off[i] < Len(FlattenSeq(E))
<1> DEFINE n == Len(E)
<1>1. n \in Nat /\ \A k \in 1 .. n : E[k] \in Seq(Nat) /\ Len(E[k]) \in Nat /\ Len(E[k]) >= 2
  BY DEF n
<1>2. /\ off \in [0 .. n -> Nat] /\ Len(FlattenSeq(E)) = off[n]
      /\ \A k \in 1 .. n : off[k] = off[k - 1] + Len(E[k])
  BY DEF StartsOf, n
<1> HIDE DEF n
<1>3. \A k \in 0 .. n : off[k] \in Nat
  BY <1>2
<1>4. n \in 0 .. n /\ i \in 0 .. n
  BY <1>1 DEF n
<1>5. ASSUME i < n
      PROVE  i + 1 \in 1 .. n /\ off[i + 1] = off[i] + Len(E[i + 1]) /\ off[i + 1] <= off[n] /\ off[i] < off[n]
  <2>1. PICK j \in 1 .. n : j = i + 1 /\ j - 1 = i
    BY <1>1, <1>4, <1>5
  <2>2. off[j] = off[j - 1] + Len(E[j])
    BY <1>2
  <2>3. off[j - 1] = off[i] /\ off[i] \in Nat /\ off[j] \in Nat /\ Len(E[j]) \in Nat /\ Len(E[j]) >= 2
    BY <1>1, <1>3, <1>4, <2>1
  <2> DEFINE S == {d \in 0 .. n - j : off[j] <= off[j + d]}
  <2>4. 0 \in S /\ n - j \in Nat
    <3>1. j + 0 = j /\ n - j \in Nat /\ 0 \in 0 .. n - j
      BY <1>1
    <3>2. QED
      BY <2>3, <3>1
  <2>5. ASSUME NEW d \in 0 .. (n - j) - 1, d \in S PROVE d + 1 \in S
    <3>1. PICK k \in 1 .. n : k = j + (d + 1) /\ k - 1 = j + d
      BY <1>1
    <3>2. off[k] = off[k - 1] + Len(E[k]) /\ Len(E[k]) \in Nat
      BY <1>1, <1>2
    <3>3. k - 1 \in 0 .. n
      BY <1>1
    <3>4. off[k - 1] \in Nat /\ off[j] <= off[k - 1]
      BY <1>3, <2>5, <3>1, <3>3
    <3>5. off[j] <= off[k]
      BY <2>3, <3>2, <3>4, SumGrows
    <3>6. d + 1 \in 0 .. n - j
      BY <1>1
    <3>7. QED
      BY <3>1, <3>5, <3>6
  <2> HIDE DEF S
  <2>6. n - j \in S
    BY <2>4, <2>5, UpTo
  <2>7. off[j] <= off[n]
    <3>1. j + (n - j) = n
      BY <1>1
    <3>2. QED
      BY <2>6, <3>1 DEF S
  <2>8. off[n] \in Nat
    BY <1>3, <1>4
  <2>9. off[i] < off[n]
    BY <2>2, <2>3, <2>7, <2>8
  <2>10. QED
    BY <2>1, <2>2, <2>3, <2>7, <2>9
<1>6. off[i] \in Nat
  BY <1>3, <1>4
<1>7. QED
  BY <1>2, <1>5, <1>6 DEF n

LEMMA Product ==
  ASSUME NEW p \in Nat \ {0}, NEW n \in Nat
  PROVE  p * n \in Nat /\ (p * n) \div p = n
<1>1. p * n \in Nat
  OBVIOUS
<1>2. PICK q \in Nat, x \in 0 .. p - 1 : q = (p * n) \div p /\ q * p + x = p * n
  BY <1>1, DivMod
<1>3. ~(q < n)
  <2>1. SUFFICES ASSUME q + 1 <= n PROVE FALSE
    OBVIOUS
  <2>2. p * (q + 1) <= p * n
    BY <2>1, TimesMonotonic
  <2>3. p * (q + 1) = q * p + p
    OBVIOUS
  <2>4. QED
    BY <1>2, <2>2, <2>3
<1>4. ~(n < q)
  <2>1. SUFFICES ASSUME n + 1 <= q PROVE FALSE
    OBVIOUS
  <2>2. p * (n + 1) <= p * q
    BY <2>1, TimesMonotonic
  <2>3. p * (n + 1) = p * n + p /\ p * q = q * p
    OBVIOUS
  <2>4. QED
    BY <1>1, <1>2, <2>2, <2>3
<1>5. QED
  BY <1>1, <1>2, <1>3, <1>4

(* Whatever the tables hold, findAPIC's count of them is theirs.           *)
LEMMA EntriesIs ==
  ASSUME Len(rsdt) \in Nat
  PROVE  Entries = Len(rsdt)
<1>1. POINTER \in Nat \ {0} /\ SDT_HEADER \in Nat
  BY AcpiAssumption
<1>2. POINTER * Len(rsdt) \in Nat /\ (POINTER * Len(rsdt)) \div POINTER = Len(rsdt)
  BY <1>1, Product
<1>3. rsdt_length - SDT_HEADER = POINTER * Len(rsdt)
  BY <1>1, <1>2 DEF rsdt_length
<1>4. QED
  BY <1>2, <1>3 DEF Entries

LEMMA MinIs ==
  ASSUME NEW S \in SUBSET Nat, NEW k \in S, \A j \in S : k <= j
  PROVE  Min(S) = k
<1>1. \A x, y \in S : (\A j \in S : x <= j) /\ (\A j \in S : y <= j) => x = y
  OBVIOUS
<1>2. QED
  BY <1>1 DEF Min

(* The scan: findAPIC has passed no MADT yet, or madt_parsing is in the    *)
(* first, where an entry starts and no I/O APIC has been passed, or the    *)
(* base is what it is to be.                                               *)
Well == \A k \in DOMAIN rsdt : WellFormed(rsdt[k])

ListedBase == IF Listed = {} THEN 0 ELSE ListedAddress + HHDM

AtEntry(E, offset) ==
  \E off : /\ StartsOf(E, off)
           /\ \E i \in 0 .. Len(E) :
                offset = MADT_HEADER + off[i] /\ \A j \in 1 .. i : E[j][1] # IOAPIC

Scanned ==
  /\ rsdt \in Seq(Tables)
  /\ AcpiTypeOK
  /\ acpi = "find" => ioapic_base = 0 /\ \A k \in 1 .. entry : rsdt[k].signature # "APIC"
  /\ acpi = "parse" =>
       ioapic_base = 0 /\ the_madt \in MADTs /\ the_madt = Min(MADTs) /\ MADT_HEADER <= ptr

Correct ==
  Well =>
    /\ ~astray
    /\ acpi = "parse" => AtEntry(rsdt[the_madt].entries, ptr)
    /\ acpi = "done" => ioapic_base = ListedBase

AcpiInv == Scanned /\ Correct

LEMMA AcpiConstants ==
  /\ MADT_HEADER \in Nat \ {0} /\ ADDRESS \in Nat \ {0} /\ HHDM \in Nat \ {0}
  /\ \A t \in Tables : t.entries \in Seq(Seq(Nat))
  BY AcpiAssumption

LEMMA AcpiInitInv == AcpiInit => AcpiInv
<1> SUFFICES ASSUME AcpiInit PROVE AcpiInv
  OBVIOUS
<1>1. rsdt \in Seq(Tables)
  <2>1. PICK n \in 0 .. MaxTables : rsdt \in [1 .. n -> Tables]
    BY DEF AcpiInit
  <2>2. n \in Nat
    OBVIOUS
  <2>3. QED
    BY <2>1, <2>2
<1>2. /\ acpi = "find" /\ entry = 0 /\ the_madt = 0 /\ ptr = 0 /\ ioapic_base = 0 /\ astray = FALSE
  BY DEF AcpiInit
<1>3. QED
  <2>1. Len(rsdt) \in Nat /\ \A k \in 1 .. 0 : rsdt[k].signature # "APIC"
    BY <1>1
  <2>2. AcpiTypeOK
    <3>1. 0 \in 0 .. Len(rsdt)
      BY <2>1
    <3>2. QED
      BY <1>2, <3>1 DEF AcpiTypeOK
  <2>3. Scanned
    BY <1>1, <1>2, <2>1, <2>2 DEF Scanned
  <2>4. Correct
    BY <1>2 DEF Correct
  <2>5. QED
    BY <2>3, <2>4 DEF AcpiInv

(* The tables stay as they are, and all that is said of them.              *)
LEMMA TablesStay ==
  ASSUME rsdt' = rsdt
  PROVE  MADTs' = MADTs /\ Well' = Well /\ ListedBase' = ListedBase
  BY DEF MADTs, Well, ListedBase, Listed, ListedAddress, FirstMadt

LEMMA FindNext ==
  ASSUME AcpiInv, FindMadt \/ NoMadt
  PROVE  AcpiInv'
<1>1. rsdt \in Seq(Tables) /\ Len(rsdt) \in Nat /\ rsdt' = rsdt
  BY DEF AcpiInv, Scanned, FindMadt, NoMadt
<1>2. Entries = Len(rsdt)
  BY <1>1, EntriesIs
<1>3. MADTs = {k \in 1 .. Len(rsdt) : rsdt[k].signature = "APIC"} /\ MADTs \in SUBSET Nat
  BY <1>1 DEF MADTs
<1>4. /\ acpi = "find" /\ ioapic_base = 0 /\ entry \in 0 .. Len(rsdt)
      /\ the_madt \in 0 .. Len(rsdt) /\ ptr \in Nat /\ astray \in BOOLEAN
      /\ \A k \in 1 .. entry : rsdt[k].signature # "APIC"
  BY DEF AcpiInv, Scanned, AcpiTypeOK, FindMadt, NoMadt
<1>5. CASE NoMadt
  <2>1. acpi' = "done" /\ UNCHANGED <<rsdt, entry, the_madt, ptr, ioapic_base, astray>>
    BY <1>5 DEF NoMadt
  <2>2. MADTs = {}
    BY <1>1, <1>2, <1>3, <1>4, <1>5 DEF NoMadt
  <2>3. ListedBase = 0
    BY <2>2 DEF ListedBase, Listed
  <2>4. Scanned'
    BY <1>1, <1>4, <2>1 DEF Scanned, AcpiTypeOK
  <2>5. Correct'
    BY <1>4, <2>1, <2>3, TablesStay DEF AcpiInv, Correct
  <2>6. QED
    BY <2>4, <2>5 DEF AcpiInv
<1>6. CASE FindMadt
  <2>1. /\ entry < Len(rsdt) /\ entry' = entry + 1 /\ entry' \in 1 .. Len(rsdt)
        /\ UNCHANGED <<rsdt, ioapic_base>>
    BY <1>1, <1>2, <1>4, <1>6 DEF FindMadt
  <2>2. astray' = astray
    BY <1>1, <1>4, <1>6, <2>1 DEF FindMadt
  <2>3. CASE rsdt[entry + 1].signature = "APIC"
    <3>1. the_madt' = entry + 1 /\ acpi' = "parse" /\ ptr' = MADT_HEADER
      BY <1>6, <2>1, <2>3 DEF FindMadt
    <3>2. entry + 1 \in MADTs
      BY <1>3, <2>1, <2>3
    <3>3. \A j \in MADTs : entry + 1 <= j
      BY <1>1, <1>3, <1>4
    <3>4. the_madt' \in MADTs' /\ the_madt' = Min(MADTs')
      BY <1>1, <1>3, <3>1, <3>2, <3>3, MinIs, TablesStay
    <3>5. Scanned'
      <4>1. ptr' \in Nat /\ MADT_HEADER <= ptr' /\ the_madt' \in 0 .. Len(rsdt')
        BY <1>1, <2>1, <3>1, AcpiConstants
      <4>2. QED
        BY <1>1, <1>4, <2>1, <2>2, <3>1, <3>4, <4>1 DEF Scanned, AcpiTypeOK
    <3>6. AtEntry(rsdt[entry + 1].entries, ptr')
      <4>1. rsdt[entry + 1].entries \in Seq(Seq(Nat))
        BY <1>1, <2>1, AcpiConstants
      <4>2. PICK off : StartsOf(rsdt[entry + 1].entries, off)
        BY <4>1, Flattened
      <4>3. ptr' = MADT_HEADER + off[0]
        BY <3>1, <4>2, AcpiConstants DEF StartsOf
      <4> DEFINE E == rsdt[entry + 1].entries
      <4>4. 0 \in 0 .. Len(E) /\ \A j \in 1 .. 0 : E[j][1] # IOAPIC
        BY <4>1
      <4>5. QED
        BY <4>2, <4>3, <4>4 DEF AtEntry
    <3>7. Correct'
      <4>1. rsdt'[the_madt'] = rsdt[entry + 1]
        BY <2>1, <3>1
      <4>2. AtEntry(rsdt'[the_madt'].entries, ptr')
        BY <3>6, <4>1
      <4>3. Well' => ~astray'
        BY <2>1, <2>2, TablesStay DEF AcpiInv, Correct
      <4>4. QED
        BY <3>1, <4>2, <4>3 DEF Correct
    <3>8. QED
      BY <3>5, <3>7 DEF AcpiInv
  <2>4. CASE rsdt[entry + 1].signature # "APIC"
    <3>1. UNCHANGED <<the_madt, acpi, ptr>>
      BY <1>6, <2>4 DEF FindMadt
    <3>2. \A k \in 1 .. entry' : rsdt[k].signature # "APIC"
      BY <1>4, <2>1, <2>4
    <3>3. Scanned'
      BY <1>1, <1>4, <2>1, <2>2, <3>1, <3>2 DEF Scanned, AcpiTypeOK
    <3>4. Correct'
      BY <1>4, <2>1, <2>2, <3>1, TablesStay DEF AcpiInv, Correct
    <3>5. QED
      BY <3>3, <3>4 DEF AcpiInv
  <2>5. QED
    BY <2>3, <2>4
<1>7. QED
  BY <1>5, <1>6

LEMMA Short ==
  ASSUME NEW a \in Nat, NEW b \in Nat, NEW c \in Nat, NEW d \in Nat, a + b <= c, d < b
  PROVE  a + d < c
  OBVIOUS

LEMMA SumOf ==
  ASSUME NEW a \in Nat, NEW b \in Nat, NEW c \in Nat
  PROVE  a + b + c = a + (b + c)
  OBVIOUS

LEMMA Associative ==
  ASSUME NEW a \in Int, NEW b \in Int
  PROVE  a + (b + 1) = a + b + 1
  OBVIOUS

(* The bytes of the entry that madt_parsing looks at.                      *)
LEMMA EntryBytes ==
  ASSUME NEW E \in Seq(Seq(Nat)), NEW off, StartsOf(E, off),
         NEW i \in 0 .. Len(E), off[i] < Len(FlattenSeq(E)),
         \A k \in 1 .. Len(E) :
           Len(E[k]) >= 2 /\ E[k][2] = Len(E[k]) /\ (E[k][1] = IOAPIC => Len(E[k]) > ADDRESS)
  PROVE  LET B == FlattenSeq(E)
         IN  /\ i + 1 \in 1 .. Len(E) /\ off[i] \in Nat /\ Len(B) \in Nat
             /\ off[i] + 1 < Len(B)
             /\ B[off[i] + 1] = E[i + 1][1] /\ B[off[i] + 1 + 1] = Len(E[i + 1])
             /\ E[i + 1][1] = IOAPIC =>
                  off[i] + ADDRESS < Len(B) /\ B[off[i] + ADDRESS + 1] = E[i + 1][ADDRESS + 1]
             /\ off[i + 1] = off[i] + Len(E[i + 1])
<1> DEFINE B == FlattenSeq(E)
<1> HIDE DEF B
<1>0. off[i] < Len(B)
  BY DEF B
<1>1. B \in Seq(Nat) /\ Len(B) \in Nat
  BY Flattened DEF B
<1>2. \A k \in 1 .. Len(E) : Len(E[k]) >= 2
  OBVIOUS
<1>3. i < Len(E)
  BY <1>0, <1>2, WalkStep DEF B
<1>4. /\ i + 1 \in 1 .. Len(E) /\ off[i] \in Nat
      /\ off[i + 1] = off[i] + Len(E[i + 1]) /\ off[i + 1] <= Len(B)
  BY <1>2, <1>3, WalkStep DEF B
<1>5. PICK k \in 1 .. Len(E) : k = i + 1 /\ k - 1 = i
  BY <1>4
<1>6. \A x \in 1 .. Len(E[k]) : B[off[k - 1] + x] = E[k][x]
  BY DEF StartsOf, B
<1>7. /\ Len(E[k]) \in Nat /\ Len(E[k]) >= 2 /\ E[k][2] = Len(E[k])
      /\ (E[k][1] = IOAPIC => Len(E[k]) > ADDRESS)
  OBVIOUS
<1>8. off[i] + 1 < Len(B)
  BY <1>1, <1>4, <1>5, <1>7
<1>9. B[off[i] + 1] = E[k][1] /\ B[off[i] + 2] = E[k][2]
  <2>1. 1 \in 1 .. Len(E[k]) /\ 2 \in 1 .. Len(E[k])
    BY <1>7
  <2>2. QED
    BY <1>5, <1>6, <2>1
<1>10. ASSUME E[k][1] = IOAPIC
       PROVE  off[i] + ADDRESS < Len(B) /\ B[off[i] + ADDRESS + 1] = E[k][ADDRESS + 1]
  <2>1. ADDRESS + 1 \in 1 .. Len(E[k]) /\ ADDRESS \in Nat
    BY <1>7, <1>10, AcpiConstants
  <2>2. B[off[k - 1] + (ADDRESS + 1)] = E[k][ADDRESS + 1]
    BY <1>6, <2>1
  <2>3. off[i] + (ADDRESS + 1) = off[i] + ADDRESS + 1 /\ off[i] + ADDRESS < Len(B)
    <3>1. off[i] + Len(E[k]) <= Len(B)
      BY <1>4, <1>5
    <3>2. ADDRESS < Len(E[k])
      BY <1>7, <1>10, <2>1
    <3>3. off[i] \in Nat /\ Len(E[k]) \in Nat /\ Len(B) \in Nat /\ ADDRESS \in Nat
      BY <1>1, <1>4, <1>7, <2>1
    <3>4. off[i] + ADDRESS < Len(B)
      BY <3>1, <3>2, <3>3, Short
    <3>5. off[i] + (ADDRESS + 1) = off[i] + ADDRESS + 1
      <4>1. off[i] \in Int /\ ADDRESS \in Int
        BY <3>3
      <4>2. QED
        BY <4>1, Associative, Zenon
    <3>6. QED
      BY <3>4, <3>5
  <2>4. QED
    BY <1>5, <2>2, <2>3
<1>11. off[i] + 1 + 1 = off[i] + 2
  BY <1>4
<1>12. QED
  BY <1>1, <1>4, <1>5, <1>7, <1>8, <1>9, <1>10, <1>11 DEF B

LEMMA ByteIs ==
  ASSUME Bytes \in Seq(Nat), NEW o \in Nat, MADT_HEADER <= o, InTable(o)
  PROVE  Byte(o) \in Nat
<1>1. Len(Bytes) \in Nat /\ o < MADT_HEADER + Len(Bytes)
  BY DEF InTable, end
<1>2. o - MADT_HEADER + 1 \in 1 .. Len(Bytes)
  BY <1>1, AcpiConstants
<1> HIDE DEF Bytes
<1>3. QED
  BY <1>2 DEF Byte

(* The offset i of a table is in the entries' bytes where i is in them.    *)
LEMMA Located ==
  ASSUME Bytes \in Seq(Nat), NEW i \in Nat
  PROVE  /\ InTable(MADT_HEADER + i) <=> i < Len(Bytes)
         /\ Byte(MADT_HEADER + i) = Bytes[i + 1]
<1>1. Len(Bytes) \in Nat
  OBVIOUS
<1>2. (MADT_HEADER + i) - MADT_HEADER + 1 = i + 1
  BY AcpiConstants
<1>3. QED
  BY <1>1, <1>2, AcpiConstants DEF InTable, end, Byte

LEMMA WalkNext ==
  ASSUME AcpiInv, Entry \/ NoIoapic
  PROVE  AcpiInv'
<1> DEFINE E == rsdt[the_madt].entries
           B == FlattenSeq(E)
<1>1. /\ rsdt \in Seq(Tables) /\ Len(rsdt) \in Nat /\ acpi = "parse" /\ ioapic_base = 0
      /\ entry \in 0 .. Len(rsdt) /\ the_madt \in 0 .. Len(rsdt) /\ ptr \in Nat /\ astray \in BOOLEAN
      /\ the_madt \in MADTs /\ the_madt = Min(MADTs) /\ MADT_HEADER <= ptr
  BY DEF AcpiInv, Scanned, AcpiTypeOK, Entry, NoIoapic
<1>2. UNCHANGED <<rsdt, entry, the_madt>>
  BY DEF Entry, NoIoapic
<1>3. the_madt \in DOMAIN rsdt /\ the_madt \in 1 .. Len(rsdt) /\ rsdt[the_madt] \in Tables
  BY <1>1 DEF MADTs
<1>4. E \in Seq(Seq(Nat))
  BY <1>3, AcpiConstants
<1>5. Bytes = B /\ B \in Seq(Nat) /\ Len(B) \in Nat
  BY <1>4, Flattened DEF Bytes
<1>6. MADTs # {} /\ FirstMadt = rsdt[the_madt]
  BY <1>1 DEF FirstMadt
<1>7. Listed = {k \in DOMAIN E : E[k][1] = IOAPIC}
  BY <1>6 DEF Listed
<1> HIDE DEF B, E
<1>8. BytesAt(ptr + 1) \subseteq Nat /\ BytesAt(ptr + ADDRESS) \subseteq Nat
  <2>1. Garbage \subseteq Nat
    BY AcpiAssumption
  <2>2. /\ ptr + 1 \in Nat /\ MADT_HEADER <= ptr + 1
        /\ ptr + ADDRESS \in Nat /\ MADT_HEADER <= ptr + ADDRESS
    BY <1>1, AcpiConstants
  <2>3. \A o \in Nat : MADT_HEADER <= o /\ InTable(o) => Byte(o) \in Nat
    BY <1>5, ByteIs
  <2>4. QED
    BY <2>1, <2>2, <2>3 DEF BytesAt
<1>9. Scanned'
  <2>1. MADTs' = MADTs
    BY <1>2, TablesStay
  <2>2. CASE acpi' = "done" /\ ptr' = ptr /\ ioapic_base' \in Nat /\ astray' \in BOOLEAN
    BY <1>1, <1>2, <2>2 DEF Scanned, AcpiTypeOK
  <2>3. CASE NoIoapic
    BY <1>1, <2>2, <2>3 DEF NoIoapic
  <2>4. CASE Entry
    <3>1. astray' \in BOOLEAN
      BY <1>1, <2>4 DEF Entry
    <3>2. CASE Type = IOAPIC
      <4>1. PICK address \in BytesAt(ptr + ADDRESS) : ioapic_base' = address + HHDM
        BY <2>4, <3>2 DEF Entry
      <4>2. ioapic_base' \in Nat
        BY <1>8, <4>1, AcpiConstants
      <4>3. QED
        BY <2>2, <2>4, <3>1, <3>2, <4>2 DEF Entry
    <3>3. CASE Type # IOAPIC
      <4>1. PICK length \in BytesAt(ptr + 1) : ptr' = ptr + length
        BY <2>4, <3>3 DEF Entry
      <4>2. ptr' \in Nat /\ MADT_HEADER <= ptr'
        BY <1>1, <1>8, <4>1, AcpiConstants
      <4>3. QED
        BY <1>1, <1>2, <2>1, <2>4, <3>1, <3>3, <4>2 DEF Entry, Scanned, AcpiTypeOK
    <3>4. QED
      BY <3>2, <3>3
  <2>5. QED
    BY <2>3, <2>4
<1>10. Correct'
  <2>1. SUFFICES ASSUME Well
                 PROVE  /\ ~astray'
                        /\ acpi' = "parse" => AtEntry(E, ptr')
                        /\ acpi' = "done" => ioapic_base' = ListedBase
    BY <1>2, TablesStay DEF Correct, E
  <2>2. \A k \in 1 .. Len(E) :
          Len(E[k]) >= 2 /\ E[k][2] = Len(E[k]) /\ (E[k][1] = IOAPIC => Len(E[k]) > ADDRESS)
    BY <1>3, <1>4, <2>1 DEF Well, WellFormed, E
  <2>3. ~astray /\ AtEntry(E, ptr)
    BY <1>1, <2>1 DEF AcpiInv, Correct, E
  <2>4. PICK off : /\ StartsOf(E, off)
                   /\ \E i \in 0 .. Len(E) :
                        ptr = MADT_HEADER + off[i] /\ \A j \in 1 .. i : E[j][1] # IOAPIC
    BY <2>3 DEF AtEntry
  <2>5. PICK i \in 0 .. Len(E) : ptr = MADT_HEADER + off[i] /\ \A j \in 1 .. i : E[j][1] # IOAPIC
    BY <2>4
  <2>6. off[i] \in Nat /\ (i # Len(E) => off[i] < Len(B))
    <3>1. \A k \in 1 .. Len(E) : Len(E[k]) >= 2
      BY <2>2
    <3>2. off[i] \in Nat /\ (i < Len(E) => off[i] < Len(FlattenSeq(E)))
      BY <1>4, <2>4, <3>1, WalkStep
    <3>3. i # Len(E) => i < Len(E)
      BY <1>4
    <3>4. QED
      BY <3>2, <3>3 DEF B
  <2>7. CASE NoIoapic
    <3>1. ~InTable(ptr) /\ acpi' = "done" /\ ioapic_base' = 0 /\ astray' = astray
      BY <1>1, <1>5, <2>7, AcpiConstants DEF NoIoapic, InTable, end
    <3>2. ~(off[i] < Len(B))
      BY <1>5, <2>5, <2>6, <3>1, Located
    <3>3. i = Len(E)
      BY <2>6, <3>2
    <3>4. Listed = {}
      BY <1>4, <1>7, <2>5, <3>3
    <3>5. QED
      BY <2>3, <3>1, <3>4 DEF ListedBase
  <2>8. CASE Entry
    <3>1. InTable(ptr)
      BY <2>8 DEF Entry, InTable
    <3>2. off[i] < Len(B)
      BY <1>5, <2>5, <2>6, <3>1, Located
    <3>3. /\ i + 1 \in 1 .. Len(E) /\ off[i] + 1 < Len(B)
          /\ B[off[i] + 1] = E[i + 1][1] /\ B[off[i] + 1 + 1] = Len(E[i + 1])
          /\ E[i + 1][1] = IOAPIC =>
               off[i] + ADDRESS < Len(B) /\ B[off[i] + ADDRESS + 1] = E[i + 1][ADDRESS + 1]
          /\ off[i + 1] = off[i] + Len(E[i + 1])
      <4>1. off[i] < Len(FlattenSeq(E))
        BY <3>2 DEF B
      <4>2. QED
        BY <1>4, <2>2, <2>4, <4>1, EntryBytes DEF B
    <3>4. /\ off[i] + 1 \in Nat /\ ptr + 1 = MADT_HEADER + (off[i] + 1)
          /\ off[i] + ADDRESS \in Nat /\ ptr + ADDRESS = MADT_HEADER + (off[i] + ADDRESS)
      BY <2>5, <2>6, AcpiConstants
    <3>5. Type = E[i + 1][1]
      BY <1>5, <2>5, <2>6, <3>3, Located DEF Type
    <3>6. InTable(ptr + 1) /\ BytesAt(ptr + 1) = {Len(E[i + 1])}
      BY <1>5, <3>3, <3>4, Located DEF BytesAt
    <3>7. Type = IOAPIC => InTable(ptr + ADDRESS) /\ BytesAt(ptr + ADDRESS) = {E[i + 1][ADDRESS + 1]}
      BY <1>5, <3>3, <3>4, <3>5, Located DEF BytesAt
    <3>8. CASE Type = IOAPIC
      <4>1. /\ acpi' = "done" /\ astray' = astray
            /\ ioapic_base' = E[i + 1][ADDRESS + 1] + HHDM
        <5>1. /\ acpi' = "done"
              /\ \E address \in BytesAt(ptr + ADDRESS) : ioapic_base' = address + HHDM
              /\ astray' = (astray \/ ~InTable(ptr + 1) \/ ~InTable(ptr + ADDRESS))
          BY <2>8, <3>8 DEF Entry
        <5>2. astray' = astray
          BY <1>1, <3>6, <3>7, <3>8, <5>1
        <5>3. QED
          BY <3>7, <3>8, <5>1, <5>2
      <4>2. Listed \in SUBSET Nat /\ i + 1 \in Listed /\ \A j \in Listed : i + 1 <= j
        <5>1. Listed = {k \in 1 .. Len(E) : E[k][1] = IOAPIC} /\ Len(E) \in Nat
          BY <1>4, <1>7
        <5>2. \A j \in Listed : ~(j \in 1 .. i)
          BY <2>5, <5>1
        <5>3. QED
          <6>1. i + 1 \in Listed /\ Listed \in SUBSET Nat
            <7>1. E[i + 1][1] = IOAPIC /\ i + 1 \in 1 .. Len(E)
              BY <3>3, <3>5, <3>8
            <7>2. QED
              BY <5>1, <7>1
          <6>2. ASSUME NEW j \in Listed PROVE i + 1 <= j
            <7>1. j \in Nat /\ j >= 1 /\ i \in Nat
              BY <1>4, <5>1
            <7>2. QED
              BY <5>2, <7>1
          <6>3. QED
            BY <6>1, <6>2
      <4>3. Min(Listed) = i + 1
        BY <4>2, MinIs
      <4>4. ListedBase = E[i + 1][ADDRESS + 1] + HHDM
        BY <1>6, <4>2, <4>3 DEF ListedBase, ListedAddress, E
      <4>5. QED
        BY <2>3, <4>1, <4>4
    <3>9. CASE Type # IOAPIC
      <4>1. ptr' = ptr + Len(E[i + 1]) /\ acpi' = "parse" /\ astray' = astray
        BY <1>1, <2>8, <3>6, <3>9 DEF Entry
      <4>2. ptr' = MADT_HEADER + off[i + 1]
        <5>1. Len(E[i + 1]) \in Nat
          BY <1>4, <3>3
        <5>2. QED
          <6>1. ptr' = MADT_HEADER + off[i] + Len(E[i + 1])
            BY <2>5, <4>1, Zenon
          <6>2. MADT_HEADER \in Nat /\ off[i] \in Nat
            BY <2>6, AcpiConstants
          <6>3. MADT_HEADER + off[i] + Len(E[i + 1]) = MADT_HEADER + (off[i] + Len(E[i + 1]))
            BY <5>1, <6>2, SumOf
          <6>4. QED
            BY <3>3, <6>1, <6>3, Zenon
      <4>3. \A j \in 1 .. i + 1 : E[j][1] # IOAPIC
        BY <2>5, <3>5, <3>9
      <4>4. AtEntry(E, ptr')
        <5>1. i + 1 \in 0 .. Len(E)
          BY <3>3
        <5>2. QED
          BY <2>4, <4>2, <4>3, <5>1 DEF AtEntry
      <4>5. QED
        BY <2>3, <4>1, <4>4
    <3>10. QED
      BY <3>8, <3>9
  <2>9. QED
    BY <2>7, <2>8
<1>11. QED
  BY <1>9, <1>10 DEF AcpiInv

LEMMA AcpiAlone ==
  ASSUME [BootNext]_allvars
  PROVE  madt_parsing \/ UNCHANGED acpivars
<1>1. CASE Call
  <2> USE DEF acpivars
  <2>1. CASE init_gdt \/ init_interrupts \/ init_bitmap_pmm \/ init_IOAPIC \/ sti
    BY <2>1 DEF init_gdt, init_interrupts, init_bitmap_pmm, init_IOAPIC, sti
  <2>2. CASE \E answer \in DOMAIN Good : Check(answer)
    BY <2>2 DEF Check
  <2>3. CASE ParseMadt
    BY <2>3 DEF ParseMadt
  <2>4. CASE MapPages("map_lapic", "lapic") \/ map_ioapic \/ MapPages("map_heap", "heap")
    BY <2>4 DEF MapPages, map_ioapic
  <2>5. CASE init_LAPIC
    BY <2>5 DEF init_LAPIC, WriteLapic, CalibrateTimer
  <2>6. QED
    BY <1>1, <2>1, <2>2, <2>3, <2>4, <2>5 DEF Call
<1>2. CASE TimePasses \/ UNCHANGED allvars
  BY <1>2 DEF TimePasses, allvars
<1>3. QED
  BY <1>1, <1>2 DEF BootNext, Stays

LEMMA AcpiNextInv ==
  ASSUME AcpiInv, [BootNext]_allvars
  PROVE  AcpiInv'
<1>1. CASE madt_parsing
  BY <1>1, FindNext, WalkNext DEF madt_parsing
<1>2. CASE UNCHANGED acpivars
  <2>1. UNCHANGED <<rsdt, acpi, entry, the_madt, ptr, ioapic_base, astray>>
    BY <1>2 DEF acpivars
  <2>2. MADTs' = MADTs /\ Well' = Well /\ ListedBase' = ListedBase
    BY <2>1, TablesStay
  <2>3. Scanned'
    BY <2>1, <2>2 DEF AcpiInv, Scanned, AcpiTypeOK
  <2>4. Correct'
    BY <2>1, <2>2 DEF AcpiInv, Correct
  <2>5. QED
    BY <2>3, <2>4 DEF AcpiInv
<1>3. QED
  BY <1>1, <1>2, AcpiAlone

LEMMA AcpiHolds == BootSpec => []AcpiInv
<1>1. BootInit => AcpiInv
  BY AcpiInitInv DEF BootInit
<1>2. QED
  BY <1>1, AcpiNextInv, PTL DEF BootSpec

(* In well-formed tables, of any number and length and with any entries    *)
(* before it, madt_parsing finds the first I/O APIC of the first MADT, and *)
(* reads no byte that is in no table.                                      *)
THEOREM BootIoapicFound == BootSpec => []IoapicFound
<1>1. AcpiInv => IoapicFound
  BY DEF AcpiInv, Correct, IoapicFound, Well, ListedBase
<1>2. QED
  BY <1>1, AcpiHolds, PTL
-----------------------------------------------------------------------------
(* The keyboard *)

(* What kmain has done for the keyboard by each of its steps.              *)
ArmedInv ==
  /\ step > 11 => acpi = "done"
  /\ step > 22 => lapic.tpr = 0
  /\ step > 23 => pin.base = ioapic_base

LEMMA ArmedPlaces ==
  ASSUME step \in 1 .. 24, NEW call, At(call)
  PROVE  /\ step = 11 => call = "madt_parsing"
         /\ 21 < step => call \in {"cr8", "init_IOAPIC", "sti"}
  BY DEF At, Kmain

LEMMA ArmedNextInv ==
  ASSUME GateInv, ArmedInv, [BootNext]_allvars
  PROVE  ArmedInv'
<1>0. step \in 1 .. 24
  BY DEF GateInv, Progress
<1>1. ASSUME NEW call, At(call), call \notin {"madt_parsing", "cr8", "init_IOAPIC", "sti"},
             UNCHANGED acpivars, step' \in {step, step + 1}
      PROVE  ArmedInv'
  <2>1. step # 11 /\ ~(21 < step)
    BY <1>0, <1>1, ArmedPlaces
  <2>2. UNCHANGED acpi
    BY <1>1 DEF acpivars
  <2>3. QED
    BY <1>0, <1>1, <2>1, <2>2 DEF ArmedInv
<1>2. CASE \/ init_gdt \/ init_interrupts \/ init_bitmap_pmm
           \/ MapPages("map_lapic", "lapic") \/ map_ioapic \/ MapPages("map_heap", "heap")
  BY <1>1, <1>2 DEF init_gdt, init_interrupts, init_bitmap_pmm, MapPages, map_ioapic,
                    Return, Fault, Needs
<1>3. CASE \E answer \in DOMAIN Good : Check(answer)
  <2>1. PICK answer \in DOMAIN Good : Check(answer)
    BY <1>3
  <2>2. answer \in {"base", "framebuffer", "hhdm", "memmap", "rsdp"}
    BY DEF Good
  <2>3. At(answer) /\ UNCHANGED acpivars /\ step' \in {step, step + 1}
    BY <2>1 DEF Check, Return, Halt
  <2>4. QED
    BY <1>1, <2>2, <2>3
<1>4. CASE ParseMadt
  <2>1. step = 11
    BY <1>0, <1>4 DEF ParseMadt, At, Kmain
  <2>2. step' \in {11, 12} /\ (step' = 12 => acpi' = "done")
    BY <1>4, <2>1 DEF ParseMadt, acpivars, Needs, Return, Fault
  <2>3. QED
    BY <2>2 DEF ArmedInv
<1>5. CASE init_LAPIC
  <2>1. ASSUME NEW call, NEW registers, WriteLapic(call, registers)
        PROVE  At(call) /\ UNCHANGED acpivars /\ step' \in {step, step + 1}
    BY <2>1 DEF WriteLapic, Needs, Return, Fault
  <2>2. CASE WriteLapic("SVR", SvrOn) \/ WriteLapic("LINT0", Lint0Masked)
             \/ WriteLapic("LINT1", Lint1Nmi)
             \/ WriteLapic("init_APIC_error", [lapic EXCEPT !.error = Lvt(FALSE, 32)])
    BY <1>1, <2>1, <2>2
  <2>3. CASE CalibrateTimer
    BY <1>1, <2>3 DEF CalibrateTimer, Return, Fault
  <2>4. CASE At("disable_pic") /\ Return /\ UNCHANGED acpivars
    BY <1>1, <2>4 DEF Return
  <2>5. CASE At("cr8") /\ Return /\ lapic' = [lapic EXCEPT !.tpr = 0] /\ UNCHANGED acpivars
    <3>1. step = 22 /\ step' = 23 /\ UNCHANGED acpi
      BY <1>0, <2>5, Places DEF Return, acpivars
    <3>2. lapic'.tpr = 0
      BY <2>5 DEF GateInv, LapicOK
    <3>3. QED
      BY <3>1, <3>2 DEF ArmedInv
  <2>6. QED
    BY <1>5, <2>2, <2>3, <2>4, <2>5 DEF init_LAPIC
<1>6. CASE init_IOAPIC
  <2>1. step = 23 /\ step' \in {23, 24} /\ pin'.base = ioapic_base /\ UNCHANGED <<acpi, ioapic_base, lapic>>
    <3>1. At("init_IOAPIC") /\ step' \in {step, step + 1} /\ UNCHANGED <<acpi, ioapic_base, lapic>>
      BY <1>6 DEF init_IOAPIC, Needs, Return, Fault, acpivars
    <3>2. step = 23
      BY <1>0, <3>1, Places
    <3>3. pin' = [base |-> ioapic_base, vector |-> 50]
      BY <1>6 DEF init_IOAPIC
    <3>4. QED
      BY <3>1, <3>2, <3>3
  <2>2. QED
    BY <2>1 DEF ArmedInv
<1>7. CASE sti \/ TimePasses \/ UNCHANGED allvars
  <2>1. UNCHANGED <<step, acpi, ioapic_base, lapic, pin>>
    BY <1>7 DEF sti, TimePasses, bootvars, allvars, devices, acpivars
  <2>2. QED
    BY <2>1 DEF ArmedInv
<1>8. QED
  BY <1>2, <1>3, <1>4, <1>5, <1>6, <1>7 DEF BootNext, Call, Stays

(* When kmain comes to sti, the keyboard's pin is that of the I/O APIC     *)
(* that the tables list, and the local APIC is on and holds nothing back,  *)
(* whatever the firmware left in it.                                       *)
THEOREM BootKeyboardArmed == BootSpec => []KeyboardArmed
<1>1. BootInit => GateInv /\ ArmedInv
  BY GateInitInv DEF BootInit, ArmedInv
<1>2. GateInv /\ ArmedInv /\ [BootNext]_allvars => (GateInv /\ ArmedInv)'
  BY GateNextInv, ArmedNextInv
<1>3. GateInv /\ ArmedInv /\ AcpiInv => KeyboardArmed
  <2>1. SUFFICES ASSUME GateInv, ArmedInv, AcpiInv, status = "up", Suitable
                 PROVE  pin.base = ListedAddress + HHDM /\ lapic.on /\ lapic.tpr = 0
    BY DEF KeyboardArmed
  <2>2. step = 24 /\ lapic.on
    BY <2>1 DEF GateInv, Progress
  <2>3. acpi = "done" /\ lapic.tpr = 0 /\ pin.base = ioapic_base
    BY <2>1, <2>2 DEF ArmedInv
  <2>4. ioapic_base = ListedAddress + HHDM
    BY <2>1, <2>3 DEF AcpiInv, Correct, Well, Suitable, ListedBase
  <2>5. QED
    BY <2>2, <2>3, <2>4
<1>4. QED
  BY <1>1, <1>2, <1>3, AcpiHolds, PTL DEF BootSpec
-----------------------------------------------------------------------------
(* Types *)

LEMMA TimerTypeNext ==
  ASSUME TimerTypeOK, TimerInv, [Tick \/ init_APIC_timer]_timervars
  PROVE  TimerTypeOK'
<1>1. TimerInv'
  BY TimerNextInv
<1>2. initial_count' \in Nat /\ since' <= now' /\ since' \in Nat /\ since' <= MaxGap
  BY <1>1 DEF TimerInv, Times
<1>3. MaxGap \in Nat /\ MaxTime \in Nat /\ Reload \in Nat \ {0} /\ RADIX \in Nat \ {0}
  BY TimerAssumption
<1>4. since' \in 0 .. MaxGap
  BY <1>2, <1>3
<1> USE <1>2, <1>3, <1>4 DEF TimerTypeOK
<1>5. CASE Tick
  BY <1>5 DEF Tick, Running
<1>6. CASE StartPit
  BY <1>6 DEF StartPit
<1>7. CASE Latch
  <2>1. latched' \in 1 .. Reload
    BY <1>7, LatchedFresh DEF Latch, LatchCount, TimerInv
  <2>2. QED
    BY <1>7, <2>1 DEF Latch
<1>8. CASE ReadLo
  <2>1. Visible \in Nat
    BY <1>8 DEF ReadLo, Visible, TimerInv, Counts
  <2>2. lo' \in 0 .. RADIX - 1
    BY <1>8, <2>1, DivMod DEF ReadLo
  <2>3. QED
    BY <1>8, <2>2 DEF ReadLo
<1>9. CASE ReadHi
  <2>1. count' \in 0 .. Reload
    BY <1>1, <1>9 DEF ReadHi, TimerInv, Counts
  <2>2. QED
    BY <1>9, <2>1 DEF ReadHi
<1>10. CASE Compare
  <2>1. count \in 1 .. Reload
    BY <1>10 DEF Compare, TimerInv, Counts
  <2>2. QED
    BY <1>10, <2>1 DEF Compare
<1>11. CASE Stop
  BY <1>11 DEF Stop
<1>12. CASE UNCHANGED timervars
  BY <1>12 DEF timervars
<1>13. QED
  BY <1>5, <1>6, <1>7, <1>8, <1>9, <1>10, <1>11, <1>12 DEF init_APIC_timer

(* What the boot loader answered, and how far kmain has come.              *)
Kept ==
  /\ status \in {"running", "hcf", "fault", "up"}
  /\ answers \in Answers
  /\ ready \subseteq {"pmm", "lapic", "ioapic", "page 0", "heap"}
  /\ pic_masked \in BOOLEAN /\ gdtr \in BOOLEAN

LEMMA KeptNext ==
  ASSUME Kept, [BootNext]_allvars
  PROVE  Kept'
<1> USE DEF Kept, Return, Fault, Halt, Needs, devices, cpu
<1>1. CASE init_gdt \/ init_interrupts \/ ParseMadt \/ init_bitmap_pmm \/ init_IOAPIC \/ sti
  BY <1>1 DEF init_gdt, init_interrupts, ParseMadt, init_bitmap_pmm, init_IOAPIC, sti
<1>2. CASE \E answer \in DOMAIN Good : Check(answer)
  BY <1>2 DEF Check
<1>3. CASE MapPages("map_lapic", "lapic") \/ map_ioapic \/ MapPages("map_heap", "heap")
  BY <1>3 DEF MapPages, map_ioapic
<1>4. CASE init_LAPIC
  BY <1>4 DEF init_LAPIC, WriteLapic, CalibrateTimer
<1>5. CASE TimePasses \/ UNCHANGED allvars
  BY <1>5 DEF TimePasses, bootvars, allvars
<1>6. QED
  BY <1>1, <1>2, <1>3, <1>4, <1>5 DEF BootNext, Call, Stays

(* The bytes of the gates are bytes.                                       *)
LEMMA GatesTyped ==
  FilledIdt(cs_selector) \in [Stubs -> [1 .. 16 -> 0 .. 255]]
<1> DEFINE flags(n) == IF n = 1 THEN 143 ELSE 142
<1>1. ASSUME NEW n \in Stubs
      PROVE  set_gate(flags(n), IsrAddress[n], 0, cs_selector) \in [1 .. 16 -> 0 .. 255]
  <2>1. IsrAddress[n] \in [1 .. 8 -> 0 .. 255]
    BY SegmentsAssumption DEF Stubs
  <2> DEFINE a == IsrAddress[n]
             gate == set_gate(flags(n), a, 0, cs_selector)
  <2>2. /\ a[1] \in 0 .. 255 /\ a[2] \in 0 .. 255 /\ a[3] \in 0 .. 255 /\ a[4] \in 0 .. 255
        /\ a[5] \in 0 .. 255 /\ a[6] \in 0 .. 255 /\ a[7] \in 0 .. 255 /\ a[8] \in 0 .. 255
    BY <2>1
  <2>3. flags(n) \in 0 .. 255 /\ cs_selector % 256 \in 0 .. 255 /\ cs_selector \div 256 \in 0 .. 255
    BY DEF cs_selector
  <2> HIDE DEF a, flags
  <2>4. QED
    <3> DEFINE S == 0 .. 255
               bytes == <<a[1], a[2], cs_selector % 256, cs_selector \div 256, 0, flags(n), a[3], a[4],
                          a[5], a[6], a[7], a[8], 0, 0, 0, 0>>
    <3>1. 0 \in S
      OBVIOUS
    <3> HIDE DEF S
    <3>2. bytes \in Seq(S) /\ Len(bytes) = 16
      BY <2>2, <2>3, <3>1 DEF S
    <3> HIDE DEF bytes
    <3>3. bytes \in [1 .. 16 -> S]
      BY <3>2, LenProperties
    <3>4. QED
      BY <3>3 DEF set_gate, bytes, S, a
<1>2. QED
  BY <1>1 DEF FilledIdt

(* What kmain and its parts keep is what it should be.                     *)
THEOREM BootTypeCorrect == BootSpec => []BootTypeOK
<1> DEFINE Holds == TimerInv /\ TimerTypeOK /\ CpuInv /\ Kept
<1>1. BootInit => Holds
  <2>1. BootInit => TimerTypeOK
    BY TimerAssumption DEF BootInit, TimerInit, TimerTypeOK
  <2>2. BootInit => CpuInv
    BY DEF BootInit, CpuInv
  <2>3. BootInit => Kept
    BY DEF BootInit, Kept
  <2>4. BootInit => TimerInv
    BY TimerInitInv DEF BootInit
  <2>5. QED
    BY <2>1, <2>2, <2>3, <2>4
<1>2. Holds /\ [BootNext]_allvars => Holds'
  BY TimerAlone, TimerNextInv, TimerTypeNext, CpuNextInv, KeptNext
<1>3. Holds /\ AcpiInv => BootTypeOK
  <2>1. SUFFICES ASSUME Holds, AcpiInv PROVE BootTypeOK
    OBVIOUS
  <2>2. AcpiTypeOK /\ TimerTypeOK
    BY <2>1 DEF AcpiInv, Scanned
  <2>3. step \in 1 .. Len(Kmain)
    BY <2>1 DEF CpuInv, Kmain
  <2>4. gdt \in [0 .. GdtSize - 1 -> 0 .. 255]
    <3>1. EmptyGdt \in Gdts
      BY DEF EmptyGdt, Gdts, GdtSize, Offsets, Octets
    <3>2. Filled \in Gdts
      BY FilledBytes
    <3>3. Busy \in Gdts
      <4>1. 139 \in Octets
        BY DEF Octets
      <4>2. QED
        BY <3>2, <4>1 DEF Busy, Gdts
    <3>4. gdt \in Gdts
      BY <2>1, <3>1, <3>2, <3>3 DEF CpuInv
    <3>5. QED
      BY <3>4 DEF Gdts, Offsets, Octets, GdtSize
  <2>5. gdtr \in BOOLEAN /\ cs \in {LIMINE_CS, cs_selector}
    BY <2>1 DEF CpuInv, Kept
  <2>6. idt = NULL \/ idt \in [Stubs -> [1 .. 16 -> 0 .. 255]]
    BY <2>1, GatesTyped DEF CpuInv
  <2>7. QED
    BY <2>1, <2>2, <2>3, <2>4, <2>5, <2>6 DEF Kept, BootTypeOK
<1>4. QED
  BY <1>1, <1>2, <1>3, AcpiHolds, PTL DEF BootSpec
=============================================================================
