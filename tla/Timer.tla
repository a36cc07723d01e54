------------------------------- MODULE Timer --------------------------------
(***************************************************************************)
(* init_APIC_timer of src/apic.c: it starts the local APIC's timer, sets   *)
(* the PIT to count down a period of 10 ms, waits until the PIT's count    *)
(* has risen, which means that it was loaded again, and takes what the     *)
(* local APIC has counted for the ticks of 10 ms.                          *)
(*                                                                         *)
(* Time passes in ticks of the PIT between the kernel's steps.  Interrupts *)
(* are off, but the firmware may still hold the kernel up: for less than   *)
(* MaxGap ticks from one latched count to the next.                        *)
(***************************************************************************)
EXTENDS Integers

CONSTANTS
  Reload,            (* ticks of a period (0x2E9B)                         *)
  RADIX,             (* values of a byte (256)                             *)
  Rate,              (* ticks of the local APIC's timer in one of the PIT  *)
  MaxLead,           (* ticks from the start of the one to the other's     *)
  MaxGap,            (* ticks from one latched count to the next           *)
  MaxTime,           (* a bound on the time modelled                       *)
  NONE               (* no count is latched                                *)

ASSUME TimerAssumption ==
  /\ {Reload, RADIX, Rate, MaxGap} \subseteq Nat \ {0}
  /\ MaxLead \in Nat /\ MaxTime \in Nat
  /\ Reload < RADIX * RADIX - 1
  /\ MaxGap < Reload
  /\ NONE \notin Int

VARIABLES
  timer,             (* "start", "latch", "lo", "hi", "compare", "stop",   *)
                     (* "done"                                             *)
  now,               (* ticks since the PIT was loaded                     *)
  lead,              (* ticks the local APIC had counted by then           *)
  since,             (* ticks since the PIT was loaded or last latched     *)
  latched,           (* the count latched, until both bytes are read       *)
  lo, count, last_count,
  initial_count      (* the register that holds the result                 *)

timervars == <<timer, now, lead, since, latched, lo, count, last_count, initial_count>>

TimerInit ==
  /\ timer = "start"
  /\ now = 0 /\ since = 0
  /\ lead \in 0 .. MaxLead
  /\ latched = NONE
  /\ lo = 0 /\ count = 0 /\ last_count = RADIX * RADIX - 1
  /\ initial_count = 0

-----------------------------------------------------------------------------
(* The PIT's rate generator: Reload, Reload - 1, ... 1, Reload, ...        *)
Count == Reload - (now % Reload)

Running == timer \in {"latch", "lo", "hi", "compare", "stop"}

Tick ==
  /\ Running
  /\ since < MaxGap /\ now < MaxTime
  /\ now' = now + 1 /\ since' = since + 1
  /\ UNCHANGED <<timer, lead, latched, lo, count, last_count, initial_count>>

(* The three writes that set the PIT up; the last loads it.                *)
StartPit ==
  /\ timer = "start"
  /\ timer' = "latch"
  /\ UNCHANGED <<now, lead, since, latched, lo, count, last_count, initial_count>>

(* Without a latched count, a byte read is one of the count at that time.  *)
LatchNothing == UNCHANGED <<latched>>
LatchCount == latched' = Count

Latch ==
  /\ timer = "latch"
  /\ LatchCount
  /\ since' = 0
  /\ timer' = "lo"
  /\ UNCHANGED <<now, lead, lo, count, last_count, initial_count>>

Visible == IF latched = NONE THEN Count ELSE latched

ReadLo ==
  /\ timer = "lo"
  /\ lo' = Visible % RADIX
  /\ timer' = "hi"
  /\ UNCHANGED <<now, lead, since, latched, count, last_count, initial_count>>

ReadHi ==
  /\ timer = "hi"
  /\ count' = (Visible \div RADIX) * RADIX + lo
  /\ latched' = NONE
  /\ timer' = "compare"
  /\ UNCHANGED <<now, lead, since, lo, last_count, initial_count>>

NotBelow == count >= last_count
PeriodOver == count > last_count

Compare ==
  /\ timer = "compare"
  /\ \/ PeriodOver /\ timer' = "stop" /\ UNCHANGED last_count
     \/ ~PeriodOver /\ timer' = "latch" /\ last_count' = count
  /\ UNCHANGED <<now, lead, since, latched, lo, count, initial_count>>

(* The local APIC's counter, and its difference from what it began with.   *)
Stop ==
  /\ timer = "stop"
  /\ initial_count' = Rate * (lead + now)
  /\ timer' = "done"
  /\ UNCHANGED <<now, lead, since, latched, lo, count, last_count>>

init_APIC_timer == StartPit \/ Latch \/ ReadLo \/ ReadHi \/ Compare \/ Stop

-----------------------------------------------------------------------------
(* Properties *)

TimerTypeOK ==
  /\ timer \in {"start", "latch", "lo", "hi", "compare", "stop", "done"}
  /\ now \in 0 .. MaxTime /\ since \in 0 .. MaxGap /\ since <= now
  /\ lead \in 0 .. MaxLead
  /\ latched \in (1 .. Reload) \cup {NONE}
  /\ lo \in 0 .. (RADIX - 1)
  /\ count \in 0 .. Reload
  /\ last_count \in (1 .. Reload) \cup {RADIX * RADIX - 1}
  /\ initial_count \in Nat

(* The loop ends when a period is over and before two hold-ups more have   *)
(* passed: it takes no torn or repeated count for a reload, and misses     *)
(* none.  So the ticks of 10 ms are those of one period, too many by at    *)
(* most the lead and twice the longest hold-up.                            *)
OnePeriodMeasured ==
  timer = "done" =>
    /\ Rate * Reload <= initial_count
    /\ initial_count <= Rate * (Reload + lead + 2 * MaxGap)
=============================================================================
