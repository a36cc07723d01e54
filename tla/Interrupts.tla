----------------------------- MODULE Interrupts -----------------------------
(***************************************************************************)
(* Entry to and exit from an interrupt: the gates of init_interrupts, the  *)
(* stubs of src/isr.asm, the frame isr_handler_C reads, and iretq.  The    *)
(* code that is interrupted must find its registers and its stack as they  *)
(* were, whichever vector came and wherever in that code it came.          *)
(*                                                                         *)
(* Every gate but that of #DB keeps interrupts off until iretq.  The       *)
(* handler of an exception spins for good, and that of #DB spins with      *)
(* interrupts on, so interrupts nest on top of it, between any two of its  *)
(* instructions.  A vector without a gate becomes a double fault.          *)
(*                                                                         *)
(* A value is a pair: what it is, and which one.  A register's is its own  *)
(* name, tagged: all that matters of it is which register it was in, and   *)
(* when.  The words of the stack are listed from the top, the lowest       *)
(* address, on.                                                            *)
(***************************************************************************)
EXTENDS Integers, Sequences, SequencesExt, FiniteSets

CONSTANTS
  Exceptions,        (* exceptions kmain's instructions may raise          *)
  Requests,          (* vectors the local APIC may deliver                 *)
  Tags               (* values a register may have                         *)

NMI == 2
DoubleFault == 8

(* Where PUSH_ALL, PULL_ALL and struct stack_frame put the registers.      *)
PushOrder == <<"rax", "rbx", "rcx", "rdx", "rsi", "rdi", "rbp", "r8", "r9", "r10",
               "r11", "r12", "r13", "r14", "r15">>
PullOrderSwapped == <<"r15", "r14", "r13", "r12", "r11", "r10", "r9", "r8", "rbp", "rsi",
                      "rdi", "rdx", "rcx", "rbx", "rax">>
PullOrder == <<"r15", "r14", "r13", "r12", "r11", "r10", "r9", "r8", "rbp", "rdi",
               "rsi", "rdx", "rcx", "rbx", "rax">>
Fields == <<"r15", "r14", "r13", "r12", "r11", "r10", "r9", "r8", "rbp", "rdi",
            "rsi", "rdx", "rcx", "rbx", "rax", "vector", "code",
            "rip", "cs", "rflags", "rsp", "ss">>

Registers == ToSet(PushOrder)
CallerSaved == {"rax", "rcx", "rdx", "rsi", "rdi", "r8", "r9", "r10", "r11"}

(* The gates, and the stubs by macro.  The processor pushes an error code  *)
(* for some exceptions only.                                               *)
TrapGatesKeyboard == {1, 50}
TrapGates == {1}
InterruptGates == {0, 6, 8, 13, 14, 32, 33, 50}
NoErrorStubsAll == {0, 1, 6, 13} \cup {32, 33, 50}
NoErrorStubs == {0, 1, 6} \cup {32, 33, 50}
PushesError == {8, 10, 11, 12, 13, 14, 17}
Fatal == {0, 1, 6, 8, 13, 14}

ASSUME InterruptsAssumption ==
  /\ Exceptions \subseteq Fatal \ {DoubleFault}
  /\ Requests \subseteq 32 .. 255

VARIABLES
  regs,              (* the general registers                              *)
  stack,             (* from rsp on                                        *)
  interrupts_on,     (* RFLAGS.IF                                          *)
  at, isr, n,        (* rip: the part of the code, its vector, its step    *)
  taken              (* the interrupts under way, the latest first: what   *)
                     (* the processor found when it took them              *)

rip == <<at, isr, n>>
vars == <<regs, stack, interrupts_on, rip, taken>>

Tagged(t) == [r \in Registers |-> <<r, t>>]

Init ==
  /\ \E t \in Tags : regs = Tagged(t)
  /\ stack = <<>>
  /\ interrupts_on = FALSE
  /\ at = "kmain" /\ isr = 0 /\ n = 0
  /\ taken = <<>>

-----------------------------------------------------------------------------
(* kmain, after init_interrupts *)

Work ==
  /\ at = "kmain"
  /\ \E t \in Tags : regs' = Tagged(t)
  /\ UNCHANGED <<stack, interrupts_on, rip, taken>>

Sti ==
  /\ at = "kmain" /\ ~interrupts_on
  /\ interrupts_on' = TRUE
  /\ UNCHANGED <<regs, stack, rip, taken>>

-----------------------------------------------------------------------------
(* The processor *)

Hardware == <<<<"rip", rip>>, <<"cs", 0>>, <<"rflags", interrupts_on>>,
              <<"rsp", Len(stack)>>, <<"ss", 0>>>>
ErrorCode(v) == IF v \in PushesError THEN <<<<"code", 1>>>> ELSE <<>>

(* Vector v is taken because of cause, which is v or has no gate.          *)
Enter(v, cause) ==
  /\ stack' = ErrorCode(v) \o Hardware \o stack
  /\ interrupts_on' = (interrupts_on /\ v \in TrapGates)
  /\ at' = "stub" /\ isr' = v /\ n' = 0
  /\ taken' = <<[vector |-> v, cause |-> cause, regs |-> regs, stack |-> stack,
                 hardware |-> Hardware]>> \o taken
  /\ UNCHANGED regs

Deliver(v) ==
  \/ v \in TrapGates \cup InterruptGates /\ Enter(v, v)
  \/ v \notin TrapGates \cup InterruptGates /\ Enter(DoubleFault, v)

Exception(v) == at = "kmain" /\ Deliver(v)

Request(v) == interrupts_on /\ Deliver(v)

(* LINT1 is set up as a non-maskable interrupt.  One is not taken inside   *)
(* another, nor in the double fault it ends in.                            *)
NonMaskable ==
  /\ \A k \in DOMAIN taken : taken[k].cause # NMI
  /\ Deliver(NMI)

-----------------------------------------------------------------------------
(* isr.asm *)

(* Without an error code, a 0 stands for it.  rax carries the address of   *)
(* isr_common.                                                             *)
Stub ==
  /\ at = "stub"
  /\ stack' = <<<<"vector", isr>>>> \o (IF isr \in NoErrorStubs THEN <<<<"code", 0>>>> ELSE <<>>)
                \o stack
  /\ regs' = [regs EXCEPT !["rax"] = <<"isr_common", 0>>]
  /\ at' = "push" /\ n' = 1
  /\ UNCHANGED <<interrupts_on, isr, taken>>

Push ==
  /\ at = "push" /\ n <= Len(PushOrder)
  /\ stack' = <<regs[PushOrder[n]]>> \o stack
  /\ n' = n + 1
  /\ UNCHANGED <<regs, interrupts_on, at, isr, taken>>

(* isr_handler_C reads frame->vector.  An exception's case spins; the      *)
(* others return, having used the registers C lets a function use.         *)
frame == [k \in ToSet(Fields) |-> stack[CHOOSE j \in DOMAIN Fields : Fields[j] = k]]

Call ==
  /\ at = "push" /\ n > Len(PushOrder)
  /\ regs' = [r \in Registers |-> IF r \in CallerSaved THEN <<"C", 0>> ELSE regs[r]]
  /\ \/ frame["vector"][2] \in Fatal /\ at' = "spin" /\ n' = 0
     \/ frame["vector"][2] \notin Fatal /\ at' = "pull" /\ n' = 1
  /\ UNCHANGED <<stack, interrupts_on, isr, taken>>

Pull ==
  /\ at = "pull" /\ n <= Len(PullOrder)
  /\ regs' = [regs EXCEPT ![PullOrder[n]] = Head(stack)]
  /\ stack' = Tail(stack)
  /\ n' = n + 1
  /\ UNCHANGED <<interrupts_on, at, isr, taken>>

(* add rsp, 16                                                             *)
DroppedOne == 1
Dropped == 2

Drop ==
  /\ at = "pull" /\ n > Len(PullOrder)
  /\ stack' = SubSeq(stack, Dropped + 1, Len(stack))
  /\ at' = "iretq" /\ n' = 0
  /\ UNCHANGED <<regs, interrupts_on, isr, taken>>

Word(k) == stack[k][2]

(* iretq resumes at the rip, with the flags and the stack it finds.        *)
Iretq ==
  /\ at = "iretq"
  /\ at' = Word(1)[1] /\ isr' = Word(1)[2] /\ n' = Word(1)[3]
  /\ interrupts_on' = Word(3)
  /\ stack' = SubSeq(stack, Len(stack) - Word(4) + 1, Len(stack))
  /\ taken' = Tail(taken)
  /\ UNCHANGED regs

(* A handler's for(;;).                                                    *)
Spin == at = "spin" /\ UNCHANGED vars

Next ==
  \/ Work \/ Sti \/ NonMaskable
  \/ \E v \in Exceptions : Exception(v)
  \/ \E v \in Requests : Request(v)
  \/ Stub \/ Push \/ Call \/ Pull \/ Drop \/ Iretq \/ Spin

Spec == Init /\ [][Next]_vars

-----------------------------------------------------------------------------
(* Properties *)

Latest == Head(taken)

(* What struct stack_frame's field k should hold.                          *)
Meant(k) ==
  CASE k \in Registers -> Latest.regs[k]
    [] k = "vector" -> <<"vector", Latest.vector>>
    [] k = "code" -> <<"code", IF Latest.vector \in PushesError THEN 1 ELSE 0>>
    [] k = "rip" -> Latest.hardware[1]
    [] k = "cs" -> Latest.hardware[2]
    [] k = "rflags" -> Latest.hardware[3]
    [] k = "rsp" -> Latest.hardware[4]
    [] k = "ss" -> Latest.hardware[5]

(* The handler finds in every field of struct stack_frame but rax what the *)
(* processor had when it took the interrupt: the stub's macro, PUSH_ALL    *)
(* and the struct's order agree, with and without an error code.           *)
FrameMatches ==
  at = "push" /\ n > Len(PushOrder) =>
    \A k \in ToSet(Fields) \ {"rax"} : frame[k] = Meant(k)

(* Just before iretq the words the processor pushed are on top of the      *)
(* interrupted code's stack, which is intact, however interrupts nested.   *)
StackBalanced ==
  at = "iretq" => stack = Latest.hardware \o Latest.stack

(* The interrupted code resumes with its registers, rax excepted.          *)
ResumesButRax ==
  at = "iretq" => \A r \in Registers \ {"rax"} : regs[r] = Latest.regs[r]

(* A device's handler is never entered inside another's, nor inside its    *)
(* own, though interrupts may nest in an exception's.                      *)
Devices == {k \in DOMAIN taken : taken[k].vector \in NoErrorStubs \ Fatal}
OneDeviceAtATime == \A j, k \in Devices : j = k

(* It resumes with all of them.  isr.asm:5 calls its first macro PUSH_ALL, *)
(* and interrupts.h:18-19 gives the frame a field for rax.                 *)
ResumesExactly ==
  at = "iretq" => regs = Latest.regs
=============================================================================
