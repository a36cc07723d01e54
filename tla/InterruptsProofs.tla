-------------------------- MODULE InterruptsProofs --------------------------
(***************************************************************************)
(* What holds of interrupt entry and exit for any exceptions, any requests *)
(* of devices, any values of the registers and interrupts nested to any    *)
(* depth.                                                                  *)
(***************************************************************************)
EXTENDS Interrupts, TLAPS

Gates == TrapGates \cup InterruptGates
Places == {"kmain", "stub", "push", "pull", "iretq", "spin"}

(* What a register or a word of the stack may be.                          *)
Words ==
  (Registers \X Tags) \cup {<<"isr_common", 0>>, <<"C", 0>>}
    \cup ({"vector"} \X Nat) \cup ({"code"} \X {0, 1})
    \cup ({"rip"} \X (Places \X Nat \X Nat)) \cup ({"rflags"} \X BOOLEAN)
    \cup ({"rsp"} \X Nat) \cup ({"cs", "ss"} \X {0})

Contexts ==
  [vector : Gates, cause : Nat, regs : [Registers -> Words], stack : Seq(Words),
   hardware : Seq(Words)]

TypeOK ==
  /\ regs \in [Registers -> Words] /\ stack \in Seq(Words)
  /\ interrupts_on \in BOOLEAN
  /\ at \in Places /\ isr \in Nat /\ n \in Nat
  /\ taken \in Seq(Contexts)

(* The words the processor pushed when it took t at a place p, with rsp    *)
(* the length of the stack it pushed them on.                              *)
WellPushed(t) ==
  /\ Len(t.hardware) = 5
  /\ t.hardware[1] \in {"rip"} \X (Places \X Nat \X Nat)
  /\ t.hardware[3] \in {"rflags"} \X BOOLEAN
  /\ t.hardware[4] = <<"rsp", Len(t.stack)>>

(* The stack with the first d registers of PUSH_ALL on it, rax aside.      *)
Layout(d, st, t) ==
  /\ Len(st) = d + 7 + Len(t.stack)
  /\ \A j \in 2 .. d : st[d + 1 - j] = t.regs[PushOrder[j]]
  /\ st[d + 1] = <<"vector", t.vector>>
  /\ st[d + 2] = <<"code", IF t.vector \in PushesError THEN 1 ELSE 0>>
  /\ \A h \in 1 .. 5 : st[d + 2 + h] = t.hardware[h]
  /\ \A m \in 1 .. Len(t.stack) : st[d + 7 + m] = t.stack[m]

(* The registers from PUSH_ALL's d-th on are those of the interrupted code.*)
RestoredFrom(d, rg, t) == \A j \in 2 .. 15 : j > d => rg[PushOrder[j]] = t.regs[PushOrder[j]]

(* Where the handler of t may be, with which registers and stack.          *)
Handling(rp, rg, st, t) ==
  /\ rp[2] = t.vector
  /\ \/ rp[1] = "stub" /\ st = ErrorCode(t.vector) \o t.hardware \o t.stack /\ RestoredFrom(0, rg, t)
     \/ rp[1] = "push" /\ rp[3] \in 1 .. 16 /\ Layout(rp[3] - 1, st, t) /\ RestoredFrom(0, rg, t)
     \/ rp[1] = "pull" /\ rp[3] \in 1 .. 16 /\ Layout(16 - rp[3], st, t) /\ RestoredFrom(16 - rp[3], rg, t)
     \/ rp[1] = "iretq" /\ st = t.hardware \o t.stack /\ RestoredFrom(0, rg, t)
     \/ rp[1] = "spin"

(* So it is of the latest interrupt, and was of each of the others when    *)
(* the next one came; the first came in kmain, whose stack is empty.       *)
InHandlers ==
  /\ taken = <<>> => at = "kmain" /\ stack = <<>>
  /\ taken # <<>> => Handling(rip, regs, stack, taken[1])
  /\ \A k \in 1 .. Len(taken) :
       LET t == taken[k]
       IN  /\ WellPushed(t)
           /\ k < Len(taken) => Handling(t.hardware[1][2], t.regs, t.stack, taken[k + 1])
           /\ k = Len(taken) => t.hardware[1][2][1] = "kmain" /\ t.stack = <<>>

(* Interrupts stay off in a device's handler and in what interrupts it.    *)
DevicesUndisturbed ==
  \A k \in Devices :
    /\ ~interrupts_on
    /\ \A j \in 1 .. k - 1 : taken[j].hardware[3] = <<"rflags", FALSE>>

IInv == TypeOK /\ InHandlers /\ DevicesUndisturbed /\ OneDeviceAtATime
-----------------------------------------------------------------------------
(* Registers and sequences *)

LEMMA Orders ==
  /\ Len(PushOrder) = 15 /\ Len(PullOrder) = 15
  /\ \A j \in 1 .. 15 : PushOrder[j] \in Registers /\ PullOrder[j] = PushOrder[16 - j]
  /\ \A j \in 1 .. 15 : PushOrder[j] = "rax" <=> j = 1
  /\ \A i, j \in 1 .. 15 : PushOrder[i] = PushOrder[j] => i = j
  /\ \A r \in Registers : \E j \in 1 .. 15 : r = PushOrder[j]
  /\ "rax" \in Registers
<1>1. DOMAIN PushOrder = 1 .. 15
  BY DEF PushOrder
<1>2. Registers = {PushOrder[j] : j \in 1 .. 15}
  BY <1>1 DEF Registers, ToSet
<1>3. \A j \in 1 .. 15 : PullOrder[j] = PushOrder[16 - j]
  BY DEF PushOrder, PullOrder
<1>4. \A i, j \in 1 .. 15 : PushOrder[i] = PushOrder[j] => i = j
  BY DEF PushOrder
<1>5. PushOrder[1] = "rax"
  BY DEF PushOrder
<1>6. Len(PushOrder) = 15 /\ Len(PullOrder) = 15
  BY DEF PushOrder, PullOrder
<1>7. QED
  BY <1>2, <1>3, <1>4, <1>5, <1>6

LEMMA ConcatAt ==
  ASSUME NEW W, NEW a \in Seq(W), NEW b \in Seq(W)
  PROVE  /\ a \o b \in Seq(W) /\ Len(a \o b) = Len(a) + Len(b)
         /\ \A i \in 1 .. Len(a) : (a \o b)[i] = a[i]
         /\ \A i \in 1 .. Len(b) : (a \o b)[Len(a) + i] = b[i]
  OBVIOUS

LEMMA PushOne ==
  ASSUME NEW W, NEW w \in W, NEW s \in Seq(W)
  PROVE  /\ <<w>> \o s \in Seq(W) /\ Len(<<w>> \o s) = Len(s) + 1
         /\ (<<w>> \o s)[1] = w
         /\ \A i \in 1 .. Len(s) : (<<w>> \o s)[i + 1] = s[i]
<1>1. <<w>> \in Seq(W) /\ Len(<<w>>) = 1 /\ <<w>>[1] = w
  OBVIOUS
<1>2. \A i \in 1 .. Len(s) : (<<w>> \o s)[1 + i] = s[i]
  BY <1>1, ConcatAt
<1>3. 1 \in 1 .. Len(<<w>>)
  BY <1>1
<1>4. Len(s) \in Nat
  OBVIOUS
<1>5. QED
  BY <1>1, <1>2, <1>3, <1>4, ConcatAt

LEMMA PopOne ==
  ASSUME NEW W, NEW s \in Seq(W), Len(s) > 0
  PROVE  /\ s # <<>> /\ Head(s) = s[1] /\ Head(s) \in W
         /\ Tail(s) \in Seq(W) /\ Len(Tail(s)) = Len(s) - 1
         /\ \A i \in 1 .. Len(s) - 1 : Tail(s)[i] = s[i + 1]
  OBVIOUS

LEMMA Suffix ==
  ASSUME NEW W, NEW s \in Seq(W), NEW d \in 0 .. Len(s)
  PROVE  /\ SubSeq(s, d + 1, Len(s)) \in Seq(W) /\ Len(SubSeq(s, d + 1, Len(s))) = Len(s) - d
         /\ \A i \in 1 .. Len(s) - d : SubSeq(s, d + 1, Len(s))[i] = s[d + i]
  OBVIOUS

LEMMA SameSeq ==
  ASSUME NEW W, NEW s \in Seq(W), NEW u \in Seq(W), Len(s) = Len(u),
         \A i \in 1 .. Len(s) : s[i] = u[i]
  PROVE  s = u
  OBVIOUS
-----------------------------------------------------------------------------
(* Entering *)

LEMMA GateFacts ==
  /\ Gates \subseteq Nat /\ DoubleFault \in Gates
  /\ \A v \in Gates : v \in NoErrorStubs <=> v \notin PushesError
  BY DEF Gates, TrapGates, InterruptGates, DoubleFault, NoErrorStubs, PushesError

LEMMA HardwareWords ==
  ASSUME TypeOK
  PROVE  /\ Hardware \in Seq(Words) /\ Len(Hardware) = 5
         /\ Hardware[1] = <<"rip", rip>> /\ Hardware[3] = <<"rflags", interrupts_on>>
         /\ Hardware[4] = <<"rsp", Len(stack)>>
<1>1. Len(stack) \in Nat /\ rip \in Places \X Nat \X Nat
  BY DEF TypeOK, rip
<1>2. <<"rip", rip>> \in Words /\ <<"rflags", interrupts_on>> \in Words
  BY <1>1 DEF TypeOK, Words
<1>3. <<"rsp", Len(stack)>> \in Words /\ <<"cs", 0>> \in Words /\ <<"ss", 0>> \in Words
  BY <1>1 DEF Words
<1> HIDE DEF Words
<1>4. QED
  BY <1>2, <1>3 DEF Hardware

LEMMA ErrorCodeWords ==
  ASSUME NEW v
  PROVE  /\ ErrorCode(v) \in Seq(Words)
         /\ v \in PushesError => Len(ErrorCode(v)) = 1 /\ ErrorCode(v)[1] = <<"code", 1>>
         /\ v \notin PushesError => Len(ErrorCode(v)) = 0
<1>1. <<"code", 1>> \in Words
  BY DEF Words
<1> HIDE DEF Words
<1>2. QED
  BY <1>1 DEF ErrorCode

(* The latest interrupt is put before the others.                          *)
LEMMA Entered ==
  ASSUME TypeOK, InHandlers, NEW v \in Gates, NEW cause \in Nat, Enter(v, cause)
  PROVE  TypeOK' /\ InHandlers'
<1> DEFINE t == [vector |-> v, cause |-> cause, regs |-> regs, stack |-> stack, hardware |-> Hardware]
<1>1. t \in Contexts
  BY HardwareWords DEF TypeOK, Contexts
<1>2. taken' = <<t>> \o taken /\ taken \in Seq(Contexts)
  BY DEF Enter, TypeOK
<1>3. /\ taken' \in Seq(Contexts) /\ Len(taken') = Len(taken) + 1
      /\ taken'[1] = t
      /\ \A k \in 1 .. Len(taken) : taken'[k + 1] = taken[k]
  <2> HIDE DEF t
  <2>1. QED
    BY <1>1, <1>2, PushOne
<1>4. stack' = ErrorCode(v) \o Hardware \o stack /\ stack' \in Seq(Words)
  <2>1. ErrorCode(v) \o Hardware \in Seq(Words)
    BY HardwareWords, ErrorCodeWords, ConcatAt
  <2>2. QED
    BY <2>1, ConcatAt DEF Enter, TypeOK
<1>5. TypeOK'
  <2>1. v \in Nat /\ interrupts_on' \in BOOLEAN /\ "stub" \in Places
    BY GateFacts DEF Enter, TypeOK, Places
  <2>2. QED
    BY <1>3, <1>4, <2>1 DEF Enter, TypeOK
<1>6. Handling(rip', regs', stack', t)
  BY <1>4 DEF Enter, Handling, rip, RestoredFrom
<1>7. WellPushed(t)
  <2>1. rip \in Places \X Nat \X Nat
    BY DEF TypeOK, rip
  <2>2. interrupts_on \in BOOLEAN
    BY DEF TypeOK
  <2>3. t.hardware = Hardware /\ t.stack = stack
    OBVIOUS
  <2>4. /\ Len(Hardware) = 5 /\ Hardware[1] = <<"rip", rip>>
        /\ Hardware[3] = <<"rflags", interrupts_on>> /\ Hardware[4] = <<"rsp", Len(stack)>>
    BY HardwareWords
  <2>5. Hardware[1] \in {"rip"} \X (Places \X Nat \X Nat) /\ Hardware[3] \in {"rflags"} \X BOOLEAN
    BY <2>1, <2>2, <2>4
  <2> HIDE DEF t
  <2>6. QED
    BY <2>3, <2>4, <2>5 DEF WellPushed
<1>8. t.hardware[1][2] = rip /\ t.stack = stack /\ t.regs = regs
  BY HardwareWords
<1> HIDE DEF t
<1>9. Len(taken) \in Nat /\ (taken = <<>> <=> Len(taken) = 0)
  BY <1>2
<1>10. ASSUME NEW k \in 1 .. Len(taken')
       PROVE  LET u == taken'[k]
              IN  /\ WellPushed(u)
                  /\ k < Len(taken') => Handling(u.hardware[1][2], u.regs, u.stack, taken'[k + 1])
                  /\ k = Len(taken') => u.hardware[1][2][1] = "kmain" /\ u.stack = <<>>
  <2>1. CASE k = 1
    <3>1. Len(taken) # 0 => taken'[2] = taken[1]
      BY <1>3, <1>9
    <3>2. CASE Len(taken) # 0
      BY <1>3, <1>7, <1>8, <1>9, <2>1, <3>1, <3>2 DEF InHandlers
    <3>3. CASE Len(taken) = 0
      BY <1>3, <1>7, <1>8, <1>9, <2>1, <3>3 DEF InHandlers, rip
    <3>4. QED
      BY <3>2, <3>3
  <2>2. CASE k # 1
    <3> DEFINE m == k - 1
    <3>1. m \in 1 .. Len(taken) /\ k = m + 1
      BY <1>3, <1>9, <2>2
    <3>2. taken'[k] = taken[m] /\ (k < Len(taken') => taken'[k + 1] = taken[m + 1])
      BY <1>3, <1>9, <3>1
    <3>3. k < Len(taken') <=> m < Len(taken)
      BY <1>3, <1>9, <3>1
    <3>4. k = Len(taken') <=> m = Len(taken)
      BY <1>3, <1>9, <3>1
    <3> HIDE DEF m
    <3>5. QED
      BY <3>1, <3>2, <3>3, <3>4 DEF InHandlers
  <2>3. QED
    BY <2>1, <2>2
<1>11. taken' # <<>> /\ taken'[1] = t
  BY <1>3, <1>9
<1>12. QED
  BY <1>5, <1>6, <1>10, <1>11 DEF InHandlers

LEMMA Delivered ==
  ASSUME TypeOK, InHandlers, NEW v \in Nat, Deliver(v)
  PROVE  TypeOK' /\ InHandlers'
  BY Entered, GateFacts DEF Deliver, Gates

(* A step of the handler.                                                  *)
LEMMA Handled ==
  ASSUME InHandlers, taken # <<>>, UNCHANGED taken, Handling(rip', regs', stack', taken[1])
  PROVE  InHandlers'
  BY DEF InHandlers

LEMMA HandlerAt ==
  ASSUME TypeOK, InHandlers, at # "kmain"
  PROVE  /\ taken # <<>> /\ taken[1] \in Contexts /\ Handling(rip, regs, stack, taken[1])
         /\ WellPushed(taken[1]) /\ isr = taken[1].vector /\ Len(taken) \in Nat \ {0}
         /\ Latest = taken[1]
<1>1. taken # <<>> /\ taken \in Seq(Contexts)
  BY DEF TypeOK, InHandlers
<1>2. Len(taken) \in Nat \ {0}
  BY <1>1
<1>3. taken[1] \in Contexts /\ Head(taken) = taken[1]
  BY <1>1, <1>2, PopOne
<1>4. Handling(rip, regs, stack, taken[1]) /\ WellPushed(taken[1])
  BY <1>1, <1>2 DEF InHandlers
<1>5. isr = taken[1].vector
  BY <1>4 DEF Handling, rip
<1>6. QED
  BY <1>1, <1>2, <1>3, <1>4, <1>5 DEF Latest

(* What the words under the registers are.                                 *)
LEMMA ContextParts ==
  ASSUME NEW t \in Contexts, WellPushed(t)
  PROVE  /\ t.vector \in Gates /\ t.regs \in [Registers -> Words]
         /\ t.stack \in Seq(Words) /\ t.hardware \in Seq(Words)
         /\ Len(t.stack) \in Nat /\ Len(t.hardware) = 5
<1>1. t.stack \in Seq(Words)
  BY DEF Contexts
<1>2. QED
  BY <1>1 DEF Contexts, WellPushed

(* A stub leaves no register on the stack, and a code in every case.       *)
LEMMA Regrouped ==
  \A a, b, c \in Seq(Words) : a \o b \o c = a \o (b \o c)
  OBVIOUS

LEMMA Stubbed ==
  ASSUME TypeOK, InHandlers, Stub
  PROVE  TypeOK' /\ InHandlers'
<1> DEFINE t == taken[1]
           c == <<"code", IF t.vector \in PushesError THEN 1 ELSE 0>>
           C == IF isr \in NoErrorStubs THEN <<<<"code", 0>>>> ELSE <<>>
           V == <<"vector", isr>>
<1>1. at = "stub" /\ taken # <<>> /\ t \in Contexts /\ WellPushed(t) /\ isr = t.vector
  BY HandlerAt DEF Stub
<1>2. stack = ErrorCode(t.vector) \o t.hardware \o t.stack /\ RestoredFrom(0, regs, t)
  BY HandlerAt DEF Stub, Handling, rip
<1>3. /\ t.vector \in Gates /\ t.vector \in Nat
      /\ t.stack \in Seq(Words) /\ t.hardware \in Seq(Words)
      /\ Len(t.stack) \in Nat /\ Len(t.hardware) = 5
  BY <1>1, ContextParts, GateFacts
<1>4. stack' = <<V>> \o C \o (ErrorCode(t.vector) \o t.hardware \o t.stack)
  BY <1>1, <1>2 DEF Stub
<1>5. V \in Words /\ c \in Words
  BY <1>1, <1>3 DEF Words
<1>6. C \o ErrorCode(t.vector) = <<c>> /\ C \in Seq(Words) /\ ErrorCode(t.vector) \in Seq(Words)
  <2>1. t.vector \in NoErrorStubs <=> t.vector \notin PushesError
    BY <1>3, GateFacts
  <2>2. CASE t.vector \in PushesError
    <3>1. C = <<>> /\ ErrorCode(t.vector) = <<c>>
      BY <1>1, <2>1, <2>2 DEF ErrorCode
    <3> HIDE DEF t, c, C
    <3>2. <<>> \o <<c>> = <<c>> /\ <<>> \in Seq(Words) /\ <<c>> \in Seq(Words)
      BY <1>5
    <3>3. QED
      BY <3>1, <3>2
  <2>3. CASE t.vector \notin PushesError
    <3>1. C = <<c>> /\ ErrorCode(t.vector) = <<>>
      BY <1>1, <2>1, <2>3 DEF ErrorCode
    <3> HIDE DEF t, c, C
    <3>2. <<c>> \o <<>> = <<c>> /\ <<>> \in Seq(Words) /\ <<c>> \in Seq(Words)
      BY <1>5
    <3>3. QED
      BY <3>1, <3>2
  <2>4. QED
    BY <2>2, <2>3
<1>7. /\ stack' \in Seq(Words) /\ Len(stack') = 2 + Len(t.hardware) + Len(t.stack)
      /\ stack'[1] = V /\ stack'[2] = c
      /\ \A h \in 1 .. Len(t.hardware) : stack'[2 + h] = t.hardware[h]
      /\ \A m \in 1 .. Len(t.stack) : stack'[2 + Len(t.hardware) + m] = t.stack[m]
  <2>1. t.hardware \in Seq(Words)
    BY <1>3
  <2>2. t.stack \in Seq(Words)
    BY <1>3
  <2> DEFINE E == ErrorCode(t.vector)
             H == t.hardware
             S == t.stack
  <2>3. H \in Seq(Words) /\ S \in Seq(Words)
    BY <2>1, <2>2
  <2>4. C \o E = <<c>> /\ C \in Seq(Words) /\ E \in Seq(Words)
    BY <1>6
  <2>5. stack' = <<V>> \o C \o (E \o H \o S)
    BY <1>4
  <2> HIDE DEF t, c, C, V, E, H, S
  <2>6. /\ stack' \in Seq(Words) /\ Len(stack') = 2 + Len(H) + Len(S)
        /\ stack'[1] = V /\ stack'[2] = c
        /\ \A h \in 1 .. Len(H) : stack'[2 + h] = H[h]
        /\ \A m \in 1 .. Len(S) : stack'[2 + Len(H) + m] = S[m]
    <3> DEFINE X == H \o S
               Y == <<c>> \o X
    <3>1. X \in Seq(Words)
      BY <2>3
    <3>2. \A a, b, d \in Seq(Words) : a \o b \o d = a \o (b \o d)
      BY Regrouped
    <3>3. E \o H \o S = E \o X
      BY <3>2
    <3>4. stack' = <<V>> \o C \o (E \o X)
      BY <2>5, <3>3
    <3>5. stack' = <<V>> \o Y
      <4> DEFINE v == <<V>>
                 F == E \o X
      <4>1. v \in Seq(Words)
        BY <1>5
      <4>2. stack' = v \o C \o F
        BY <3>4
      <4>3. C \o E \o X = C \o F
        BY <3>1, <3>2
      <4>4. Y = C \o F
        BY <2>4, <4>3
      <4>5. F \in Seq(Words)
        BY <2>4, <3>1
      <4> HIDE DEF v, F, Y
      <4>6. v \o C \o F = v \o (C \o F)
        BY <3>2, <4>1, <4>5
      <4>7. QED
        BY <4>2, <4>4, <4>6 DEF v
    <3>6. /\ Len(X) = Len(H) + Len(S)
          /\ \A i \in 1 .. Len(H) : X[i] = H[i]
          /\ \A i \in 1 .. Len(S) : X[Len(H) + i] = S[i]
      BY ConcatAt
    <3> HIDE DEF X
    <3>7. /\ Y \in Seq(Words) /\ Len(Y) = Len(X) + 1 /\ Y[1] = c
          /\ \A i \in 1 .. Len(X) : Y[i + 1] = X[i]
      BY <1>5, <3>1, PushOne
    <3>8. Y \in Seq(Words)
      BY <3>7
    <3> HIDE DEF Y
    <3>9. /\ stack' \in Seq(Words) /\ Len(stack') = Len(Y) + 1 /\ stack'[1] = V
          /\ \A i \in 1 .. Len(Y) : stack'[i + 1] = Y[i]
      <4>1. /\ <<V>> \o Y \in Seq(Words) /\ Len(<<V>> \o Y) = Len(Y) + 1 /\ (<<V>> \o Y)[1] = V
            /\ \A i \in 1 .. Len(Y) : (<<V>> \o Y)[i + 1] = Y[i]
        BY <1>5, <3>8, PushOne
      <4>2. QED
        BY <3>5, <4>1
    <3>10. Len(H) \in Nat /\ Len(S) \in Nat
      OBVIOUS
    <3>11. \A i \in 1 .. Len(X) : stack'[i + 2] = X[i]
      <4>1. TAKE i \in 1 .. Len(X)
      <4>2. i + 1 \in 1 .. Len(Y) /\ (i + 1) + 1 = i + 2
        BY <3>6, <3>7, <3>10
      <4>3. stack'[(i + 1) + 1] = Y[i + 1]
        BY <3>9, <4>2
      <4>4. QED
        BY <3>7, <4>2, <4>3
    <3>12. stack'[2] = c
      <4>1. 1 \in 1 .. Len(Y) /\ 1 + 1 = 2
        BY <3>6, <3>7, <3>10
      <4>2. QED
        BY <3>7, <3>9, <4>1
    <3>13. \A h \in 1 .. Len(H) : stack'[2 + h] = H[h]
      <4>1. TAKE h \in 1 .. Len(H)
      <4>2. h \in 1 .. Len(X) /\ h + 2 = 2 + h
        BY <3>6, <3>10
      <4>3. stack'[h + 2] = X[h]
        BY <3>11, <4>2
      <4>4. QED
        BY <3>6, <4>2, <4>3
    <3>14. \A m \in 1 .. Len(S) : stack'[2 + Len(H) + m] = S[m]
      <4>1. TAKE m \in 1 .. Len(S)
      <4>2. Len(H) + m \in 1 .. Len(X) /\ (Len(H) + m) + 2 = 2 + Len(H) + m
        BY <3>6, <3>10
      <4>3. stack'[(Len(H) + m) + 2] = X[Len(H) + m]
        BY <3>11, <4>2
      <4>4. QED
        BY <3>6, <4>2, <4>3
    <3>15. Len(stack') = 2 + Len(H) + Len(S)
      BY <3>6, <3>7, <3>9, <3>10
    <3>16. QED
      BY <3>9, <3>12, <3>13, <3>14, <3>15
  <2>7. QED
    BY <2>6 DEF H, S
<1>8. Layout(0, stack', t)
  <2>1. \A h \in 1 .. 5 : stack'[2 + h] = t.hardware[h]
    BY <1>3, <1>7
  <2>2. Len(stack') = 7 + Len(t.stack)
    BY <1>3, <1>7
  <2>3. ASSUME NEW m \in 1 .. Len(t.stack) PROVE stack'[7 + m] = t.stack[m]
    <3>1. 2 + Len(t.hardware) + m = 7 + m
      BY <1>3
    <3>2. QED
      BY <1>7, <3>1
  <2>4. stack'[1] = <<"vector", t.vector>> /\ stack'[2] = c
    BY <1>1, <1>7
  <2> HIDE DEF t
  <2>5. QED
    BY <2>1, <2>2, <2>3, <2>4 DEF Layout
<1>9. RestoredFrom(0, regs', t) /\ regs' \in [Registers -> Words]
  <2>1. <<"isr_common", 0>> \in Words
    BY DEF Words
  <2>2. \A j \in 2 .. 15 : PushOrder[j] \in Registers \ {"rax"}
    BY Orders
  <2>3. regs' = [regs EXCEPT !["rax"] = <<"isr_common", 0>>] /\ regs \in [Registers -> Words]
    BY DEF Stub, TypeOK
  <2> HIDE DEF t
  <2>4. QED
    BY <1>2, <2>1, <2>2, <2>3 DEF RestoredFrom
<1>10. Handling(rip', regs', stack', t)
  BY <1>1, <1>8, <1>9 DEF Handling, rip, Stub
<1>11. TypeOK'
  BY <1>7, <1>9 DEF TypeOK, Stub, Places
<1>12. QED
  BY <1>1, <1>10, <1>11, Handled DEF Stub

-----------------------------------------------------------------------------
(* PUSH_ALL and PULL_ALL *)

LEMMA LayoutPushed ==
  ASSUME NEW t, Len(t.stack) \in Nat, NEW d \in 0 .. 14, NEW st \in Seq(Words), Layout(d, st, t),
         NEW w \in Words, d # 0 => w = t.regs[PushOrder[d + 1]]
  PROVE  Layout(d + 1, <<w>> \o st, t)
<1> DEFINE u == <<w>> \o st
           k == Len(t.stack)
           l == Len(st)
<1>1. /\ Len(u) = l + 1 /\ u[1] = w
      /\ \A i \in 1 .. l : u[i + 1] = st[i]
  BY PushOne
<1>2. l = d + 7 + k /\ k \in Nat /\ d \in Nat
  BY DEF Layout
<1>3. \A m \in 1 .. k : st[d + 7 + m] = t.stack[m]
  BY DEF Layout
<1> HIDE DEF u, k, l
<1>4. \A j \in 2 .. d + 1 : u[(d + 1) + 1 - j] = t.regs[PushOrder[j]]
  <2>1. TAKE j \in 2 .. d + 1
  <2>2. CASE j = d + 1
    <3>1. (d + 1) + 1 - j = 1 /\ d # 0
      BY <2>2
    <3>2. QED
      BY <1>1, <2>2, <3>1
  <2>3. CASE j # d + 1
    <3>1. j \in 2 .. d /\ d + 1 - j \in 1 .. l /\ (d + 1 - j) + 1 = (d + 1) + 1 - j
      BY <1>2, <2>3
    <3>2. u[(d + 1 - j) + 1] = st[d + 1 - j]
      BY <1>1, <3>1
    <3>3. st[d + 1 - j] = t.regs[PushOrder[j]]
      BY <3>1 DEF Layout
    <3>4. QED
      BY <3>1, <3>2, <3>3
  <2>4. QED
    BY <2>2, <2>3
<1>5. \A i \in 1 .. 7 + k : u[(d + 1) + i] = st[d + i]
  <2>1. TAKE i \in 1 .. 7 + k
  <2>2. d + i \in 1 .. l /\ (d + i) + 1 = (d + 1) + i
    BY <1>2
  <2>3. u[(d + i) + 1] = st[d + i]
    BY <1>1, <2>2
  <2>4. QED
    BY <2>2, <2>3
<1>6. u[(d + 1) + 1] = st[d + 1] /\ u[(d + 1) + 2] = st[d + 2]
  <2>1. 1 \in 1 .. 7 + k /\ 2 \in 1 .. 7 + k
    BY <1>2
  <2>2. QED
    BY <1>5, <2>1
<1>7. \A h \in 1 .. 5 : u[(d + 1) + 2 + h] = t.hardware[h]
  <2>1. TAKE h \in 1 .. 5
  <2>2. 2 + h \in 1 .. 7 + k /\ (d + 1) + (2 + h) = (d + 1) + 2 + h /\ d + (2 + h) = d + 2 + h
    BY <1>2
  <2>3. u[(d + 1) + (2 + h)] = st[d + (2 + h)]
    BY <1>5, <2>2
  <2>4. st[d + 2 + h] = t.hardware[h]
    BY DEF Layout
  <2>5. QED
    BY <2>2, <2>3, <2>4
<1>8. \A m \in 1 .. k : u[(d + 1) + 7 + m] = t.stack[m]
  <2>1. TAKE m \in 1 .. k
  <2>2. 7 + m \in 1 .. 7 + k /\ (d + 1) + (7 + m) = (d + 1) + 7 + m /\ d + (7 + m) = d + 7 + m
    BY <1>2
  <2>3. u[(d + 1) + (7 + m)] = st[d + (7 + m)]
    BY <1>5, <2>2
  <2>4. st[d + 7 + m] = t.stack[m]
    BY <1>3
  <2>5. QED
    BY <2>2, <2>3, <2>4
<1>9. Len(u) = (d + 1) + 7 + k
  BY <1>1, <1>2
<1>10. Layout(d + 1, u, t)
  BY <1>4, <1>6, <1>7, <1>8, <1>9 DEF Layout, k
<1>11. QED
  BY <1>10 DEF u

LEMMA LayoutPulled ==
  ASSUME NEW t, Len(t.stack) \in Nat, NEW d \in 1 .. 15, NEW st \in Seq(Words), Layout(d, st, t)
  PROVE  /\ Layout(d - 1, Tail(st), t)
         /\ d # 1 => Head(st) = t.regs[PushOrder[d]]
         /\ Head(st) \in Words /\ Tail(st) \in Seq(Words)
<1> DEFINE u == Tail(st)
           k == Len(t.stack)
           l == Len(st)
<1>1. l = d + 7 + k /\ l > 0 /\ k \in Nat /\ d \in Nat \ {0}
  <2>1. l = d + 7 + k
    BY DEF Layout
  <2>2. k \in Nat /\ d \in Nat \ {0}
    OBVIOUS
  <2> HIDE DEF k, l
  <2>3. QED
    BY <2>1, <2>2
<1>2. \A m \in 1 .. k : st[d + 7 + m] = t.stack[m]
  BY DEF Layout
<1>3. /\ Head(st) = st[1] /\ Head(st) \in Words
      /\ u \in Seq(Words) /\ Len(u) = l - 1
      /\ \A i \in 1 .. l - 1 : u[i] = st[i + 1]
  BY <1>1, PopOne
<1> HIDE DEF u, k, l
<1>4. \A j \in 2 .. d - 1 : u[(d - 1) + 1 - j] = t.regs[PushOrder[j]]
  <2>1. TAKE j \in 2 .. d - 1
  <2>2. (d - 1) + 1 - j \in 1 .. l - 1 /\ ((d - 1) + 1 - j) + 1 = d + 1 - j
    BY <1>1
  <2>3. u[(d - 1) + 1 - j] = st[d + 1 - j]
    BY <1>3, <2>2
  <2>4. j \in 2 .. d
    BY <1>1
  <2>5. st[d + 1 - j] = t.regs[PushOrder[j]]
    BY <2>4 DEF Layout
  <2>6. QED
    BY <2>3, <2>5
<1>5. \A i \in 1 .. 7 + k : u[(d - 1) + i] = st[d + i]
  <2>1. TAKE i \in 1 .. 7 + k
  <2>2. (d - 1) + i \in 1 .. l - 1 /\ ((d - 1) + i) + 1 = d + i
    BY <1>1
  <2>3. QED
    BY <1>3, <2>2
<1>6. u[(d - 1) + 1] = st[d + 1] /\ u[(d - 1) + 2] = st[d + 2]
  <2>1. 1 \in 1 .. 7 + k /\ 2 \in 1 .. 7 + k
    BY <1>1
  <2>2. QED
    BY <1>5, <2>1
<1>7. \A h \in 1 .. 5 : u[(d - 1) + 2 + h] = t.hardware[h]
  <2>1. TAKE h \in 1 .. 5
  <2>2. 2 + h \in 1 .. 7 + k /\ (d - 1) + (2 + h) = (d - 1) + 2 + h /\ d + (2 + h) = d + 2 + h
    BY <1>1
  <2>3. u[(d - 1) + (2 + h)] = st[d + (2 + h)]
    BY <1>5, <2>2
  <2>4. st[d + 2 + h] = t.hardware[h]
    BY DEF Layout
  <2>5. QED
    BY <2>2, <2>3, <2>4
<1>8. \A m \in 1 .. k : u[(d - 1) + 7 + m] = t.stack[m]
  <2>1. TAKE m \in 1 .. k
  <2>2. 7 + m \in 1 .. 7 + k /\ (d - 1) + (7 + m) = (d - 1) + 7 + m /\ d + (7 + m) = d + 7 + m
    BY <1>1
  <2>3. u[(d - 1) + (7 + m)] = st[d + (7 + m)]
    BY <1>5, <2>2
  <2>4. st[d + 7 + m] = t.stack[m]
    BY <1>2
  <2>5. QED
    BY <2>2, <2>3, <2>4
<1>9. Len(u) = (d - 1) + 7 + k
  BY <1>1, <1>3
<1>10. Layout(d - 1, u, t)
  BY <1>4, <1>6, <1>7, <1>8, <1>9 DEF Layout, k
<1>11. d # 1 => Head(st) = t.regs[PushOrder[d]]
  <2>1. SUFFICES ASSUME d # 1 PROVE st[1] = t.regs[PushOrder[d]]
    BY <1>3
  <2>2. d \in 2 .. d /\ d + 1 - d = 1
    BY <2>1
  <2>3. st[d + 1 - d] = t.regs[PushOrder[d]]
    BY <2>2 DEF Layout
  <2>4. QED
    BY <2>2, <2>3
<1>12. QED
  BY <1>3, <1>10, <1>11 DEF u

LEMMA LayoutDropped ==
  ASSUME NEW t \in Contexts, WellPushed(t), NEW st \in Seq(Words), Layout(0, st, t)
  PROVE  SubSeq(st, 3, Len(st)) = t.hardware \o t.stack
<1>1. /\ t.stack \in Seq(Words) /\ t.hardware \in Seq(Words)
      /\ Len(t.stack) \in Nat /\ Len(t.hardware) = 5
  BY ContextParts
<1> DEFINE H == t.hardware
           S == t.stack
           u == SubSeq(st, 3, Len(st))
           X == H \o S
<1>2. Len(st) = 7 + Len(S)
  BY <1>1 DEF Layout
<1>3. 2 \in 0 .. Len(st)
  BY <1>1, <1>2
<1>4. u \in Seq(Words) /\ Len(u) = Len(st) - 2 /\ \A i \in 1 .. Len(st) - 2 : u[i] = st[2 + i]
  <2>1. SubSeq(st, 2 + 1, Len(st)) = u
    OBVIOUS
  <2>2. QED
    BY <1>3, <2>1, Suffix
<1>5. H \in Seq(Words) /\ S \in Seq(Words)
  BY <1>1
<1>6. /\ X \in Seq(Words) /\ Len(X) = Len(H) + Len(S)
      /\ \A i \in 1 .. Len(H) : X[i] = H[i]
      /\ \A i \in 1 .. Len(S) : X[Len(H) + i] = S[i]
  <2> HIDE DEF H, S
  <2>1. QED
    BY <1>5, ConcatAt
<1>7. \A h \in 1 .. 5 : st[2 + h] = H[h]
  <2>1. TAKE h \in 1 .. 5
  <2>2. st[0 + 2 + h] = H[h] /\ 0 + 2 + h = 2 + h
    BY DEF Layout
  <2>3. QED
    BY <2>2
<1>8. \A m \in 1 .. Len(S) : st[7 + m] = S[m]
  <2>1. TAKE m \in 1 .. Len(S)
  <2>2. st[0 + 7 + m] = S[m] /\ 0 + 7 + m = 7 + m
    BY <1>1 DEF Layout
  <2>3. QED
    BY <2>2
<1>9. Len(H) = 5 /\ Len(S) \in Nat
  BY <1>1
<1> HIDE DEF H, S, u, X
<1>10. Len(u) = Len(X)
  BY <1>2, <1>4, <1>6, <1>9
<1>11. \A i \in 1 .. Len(u) : u[i] = X[i]
  <2>1. TAKE i \in 1 .. Len(u)
  <2>2. u[i] = st[2 + i] /\ i \in 1 .. 5 + Len(S)
    BY <1>2, <1>4, <1>9
  <2>3. CASE i <= 5
    <3>1. i \in 1 .. 5 /\ i \in 1 .. Len(H)
      BY <1>9, <2>2, <2>3
    <3>2. QED
      BY <1>6, <1>7, <2>2, <3>1
  <2>4. CASE i > 5
    <3> DEFINE m == i - 5
    <3>1. m \in 1 .. Len(S) /\ 2 + i = 7 + m /\ i = Len(H) + m
      BY <1>9, <2>2, <2>4
    <3> HIDE DEF m
    <3>2. st[7 + m] = S[m] /\ X[Len(H) + m] = S[m]
      BY <1>6, <1>8, <3>1
    <3>3. QED
      BY <2>2, <3>1, <3>2
  <2>5. QED
    BY <2>2, <2>3, <2>4
<1>12. u = X
  BY <1>4, <1>6, <1>10, <1>11, SameSeq
<1>13. QED
  BY <1>12 DEF u, X, H, S

-----------------------------------------------------------------------------
(* The steps of a handler *)

LEMMA Pushed ==
  ASSUME TypeOK, InHandlers, Push
  PROVE  TypeOK' /\ InHandlers'
<1> DEFINE t == taken[1]
           w == regs[PushOrder[n]]
<1>1. at = "push" /\ n \in Nat /\ n <= 15
  BY Orders DEF Push, TypeOK
<1>2. taken # <<>> /\ t \in Contexts /\ WellPushed(t) /\ isr = t.vector
  BY <1>1, HandlerAt
<1>3. n \in 1 .. 16 /\ Layout(n - 1, stack, t) /\ RestoredFrom(0, regs, t)
  BY <1>1, HandlerAt DEF Handling, rip
<1>4. n \in 1 .. 15 /\ n - 1 \in 0 .. 14 /\ (n - 1) + 1 = n
  BY <1>1, <1>3
<1>5. w \in Words /\ stack \in Seq(Words) /\ stack' = <<w>> \o stack
  BY <1>4, Orders DEF Push, TypeOK
<1>6. n - 1 # 0 => w = t.regs[PushOrder[(n - 1) + 1]]
  BY <1>3, <1>4 DEF RestoredFrom
<1>7. Len(t.stack) \in Nat
  BY <1>2, ContextParts
<1> HIDE DEF t, w
<1>8. Layout(n, stack', t)
  <2>1. Layout((n - 1) + 1, stack', t)
    BY <1>3, <1>4, <1>5, <1>6, <1>7, LayoutPushed
  <2>2. QED
    BY <1>4, <2>1
<1>9. stack' \in Seq(Words)
  BY <1>5
<1>10. TypeOK'
  BY <1>1, <1>9 DEF TypeOK, Push
<1>11. Handling(rip', regs', stack', t)
  <2>1. n + 1 \in 1 .. 16 /\ (n + 1) - 1 = n
    BY <1>4
  <2>2. rip' = <<"push", isr, n + 1>> /\ regs' = regs
    BY <1>1 DEF Push, rip
  <2>3. QED
    BY <1>2, <1>3, <1>8, <2>1, <2>2 DEF Handling
<1>12. QED
  BY <1>2, <1>10, <1>11, Handled DEF Push, t

LEMMA Called ==
  ASSUME TypeOK, InHandlers, Call
  PROVE  TypeOK' /\ InHandlers'
<1> DEFINE t == taken[1]
<1>1. at = "push" /\ n \in Nat /\ n > 15
  BY Orders DEF Call, TypeOK
<1>2. taken # <<>> /\ isr = t.vector
  BY <1>1, HandlerAt
<1>3. n \in 1 .. 16 /\ Layout(n - 1, stack, t)
  BY <1>1, HandlerAt DEF Handling, rip
<1>4. n = 16
  BY <1>1, <1>3
<1>5. regs' \in [Registers -> Words]
  <2>1. <<"C", 0>> \in Words
    BY DEF Words
  <2>2. \A r \in Registers : regs[r] \in Words
    BY DEF TypeOK
  <2>3. QED
    BY <2>1, <2>2 DEF Call
<1>6. rip' = <<"spin", isr, 0>> \/ rip' = <<"pull", isr, 1>>
  BY DEF Call, rip
<1>7. TypeOK'
  BY <1>5 DEF TypeOK, Call, Places
<1>8. Handling(rip', regs', stack', t)
  <2>1. Layout(16 - 1, stack', t)
    BY <1>3, <1>4 DEF Call
  <2>2. RestoredFrom(16 - 1, regs', t)
    BY DEF RestoredFrom
  <2>3. 1 \in 1 .. 16
    OBVIOUS
  <2> HIDE DEF t
  <2>4. CASE rip' = <<"spin", isr, 0>>
    BY <1>2, <2>4 DEF Handling
  <2>5. CASE rip' = <<"pull", isr, 1>>
    <3>1. rip'[1] = "pull" /\ rip'[2] = isr /\ rip'[3] = 1
      BY <2>5
    <3>2. Layout(16 - rip'[3], stack', t) /\ RestoredFrom(16 - rip'[3], regs', t)
      BY <2>1, <2>2, <3>1
    <3>3. rip'[3] \in 1 .. 16
      BY <2>3, <3>1
    <3>4. QED
      BY <1>2, <3>1, <3>2, <3>3, Zenon DEF Handling
  <2>6. QED
    BY <1>6, <2>4, <2>5
<1>9. QED
  BY <1>2, <1>7, <1>8, Handled DEF Call

LEMMA Pulled ==
  ASSUME TypeOK, InHandlers, Pull
  PROVE  TypeOK' /\ InHandlers'
<1> DEFINE t == taken[1]
           d == 16 - n
<1>1. at = "pull" /\ n \in Nat /\ n <= 15
  BY Orders DEF Pull, TypeOK
<1>2. taken # <<>> /\ t \in Contexts /\ WellPushed(t) /\ isr = t.vector
  BY <1>1, HandlerAt
<1>3. n \in 1 .. 16 /\ Layout(d, stack, t) /\ RestoredFrom(d, regs, t)
  BY <1>1, HandlerAt DEF Handling, rip
<1>4. n \in 1 .. 15 /\ d \in 1 .. 15 /\ d - 1 = 16 - (n + 1) /\ n + 1 \in 1 .. 16
  BY <1>1, <1>3
<1>5. PullOrder[n] = PushOrder[d]
  BY <1>4, Orders
<1>6. Len(t.stack) \in Nat /\ stack \in Seq(Words)
  BY <1>2, ContextParts DEF TypeOK
<1> HIDE DEF t, d
<1>7. /\ Layout(d - 1, Tail(stack), t)
      /\ d # 1 => Head(stack) = t.regs[PushOrder[d]]
      /\ Head(stack) \in Words /\ Tail(stack) \in Seq(Words)
  BY <1>3, <1>4, <1>6, LayoutPulled
<1>8. /\ regs' = [regs EXCEPT ![PushOrder[d]] = Head(stack)] /\ stack' = Tail(stack)
      /\ regs \in [Registers -> Words]
  BY <1>5 DEF Pull, TypeOK
<1>9. RestoredFrom(d - 1, regs', t)
  <2>1. SUFFICES ASSUME NEW j \in 2 .. 15, j > d - 1
                 PROVE  regs'[PushOrder[j]] = t.regs[PushOrder[j]]
    BY DEF RestoredFrom
  <2>2. j \in 1 .. 15 /\ PushOrder[j] \in Registers
    BY Orders
  <2>3. CASE j = d
    BY <1>7, <1>8, <2>2, <2>3
  <2>4. CASE j # d
    <3>1. PushOrder[j] # PushOrder[d]
      BY <1>4, <2>2, <2>4, Orders
    <3>2. j > d
      BY <1>4, <2>1, <2>4
    <3>3. regs[PushOrder[j]] = t.regs[PushOrder[j]]
      BY <1>3, <3>2 DEF RestoredFrom
    <3>4. QED
      BY <1>8, <2>2, <3>1, <3>3
  <2>5. QED
    BY <2>3, <2>4
<1>10. regs' \in [Registers -> Words]
  BY <1>7, <1>8
<1>11. TypeOK'
  BY <1>4, <1>7, <1>8, <1>10 DEF TypeOK, Pull
<1>12. Handling(rip', regs', stack', t)
  <2>1. rip' = <<"pull", isr, n + 1>>
    BY <1>1 DEF Pull, rip
  <2>2. Layout(16 - (n + 1), stack', t) /\ RestoredFrom(16 - (n + 1), regs', t)
    BY <1>4, <1>7, <1>8, <1>9
  <2>3. QED
    BY <1>2, <1>4, <2>1, <2>2 DEF Handling
<1>13. QED
  BY <1>2, <1>11, <1>12, Handled DEF Pull, t

LEMMA DroppedWords ==
  ASSUME TypeOK, InHandlers, Drop
  PROVE  TypeOK' /\ InHandlers'
<1> DEFINE t == taken[1]
<1>1. at = "pull" /\ n \in Nat /\ n > 15
  BY Orders DEF Drop, TypeOK
<1>2. taken # <<>> /\ t \in Contexts /\ WellPushed(t) /\ isr = t.vector
  BY <1>1, HandlerAt
<1>3. n \in 1 .. 16 /\ Layout(16 - n, stack, t) /\ RestoredFrom(16 - n, regs, t)
  BY <1>1, HandlerAt DEF Handling, rip
<1>4. 16 - n = 0
  BY <1>1, <1>3
<1>5. stack \in Seq(Words) /\ Layout(0, stack, t) /\ RestoredFrom(0, regs, t)
  BY <1>3, <1>4 DEF TypeOK
<1>6. stack' = SubSeq(stack, 3, Len(stack))
  BY DEF Drop, Dropped
<1> HIDE DEF t
<1>7. stack' = t.hardware \o t.stack
  BY <1>2, <1>5, <1>6, LayoutDropped
<1>8. stack' \in Seq(Words)
  BY <1>5, <1>6
<1>9. TypeOK'
  BY <1>8 DEF TypeOK, Drop, Places
<1>10. Handling(rip', regs', stack', t)
  <2>1. rip' = <<"iretq", isr, 0>> /\ regs' = regs
    BY DEF Drop, rip
  <2>2. QED
    BY <1>2, <1>5, <1>7, <2>1 DEF Handling
<1>11. QED
  BY <1>2, <1>9, <1>10, Handled DEF Drop, t

(* What a handler resumes with depends on no register's value but those it *)
(* restores or has kept: rax is not among them.                            *)
LEMMA SameButRax ==
  ASSUME NEW rp, NEW rg, NEW rh, NEW st, NEW t,
         \A j \in 2 .. 15 : rh[PushOrder[j]] = rg[PushOrder[j]],
         Handling(rp, rg, st, t)
  PROVE  Handling(rp, rh, st, t)
<1>1. \A d : RestoredFrom(d, rg, t) => RestoredFrom(d, rh, t)
  BY DEF RestoredFrom
<1>2. QED
  BY <1>1 DEF Handling

LEMMA HardwareOnTop ==
  ASSUME NEW t \in Contexts, WellPushed(t)
  PROVE  LET st == t.hardware \o t.stack
         IN  /\ Len(st) = 5 + Len(t.stack)
             /\ \A h \in 1 .. 5 : st[h] = t.hardware[h]
             /\ SubSeq(st, 6, Len(st)) = t.stack
<1> DEFINE H == t.hardware
           S == t.stack
           st == H \o S
           u == SubSeq(st, 6, Len(st))
<1>1. H \in Seq(Words) /\ S \in Seq(Words)
  BY ContextParts
<1>2. Len(H) = 5 /\ Len(S) \in Nat
  BY ContextParts
<1>3. /\ st \in Seq(Words) /\ Len(st) = Len(H) + Len(S)
      /\ \A i \in 1 .. Len(H) : st[i] = H[i]
      /\ \A i \in 1 .. Len(S) : st[Len(H) + i] = S[i]
  <2> HIDE DEF H, S
  <2>1. QED
    BY <1>1, ConcatAt
<1> HIDE DEF H, S, st
<1>4. Len(st) = 5 + Len(S) /\ \A h \in 1 .. 5 : st[h] = H[h]
  BY <1>2, <1>3
<1>5. 5 \in 0 .. Len(st)
  BY <1>2, <1>4
<1>6. u \in Seq(Words) /\ Len(u) = Len(st) - 5 /\ \A i \in 1 .. Len(st) - 5 : u[i] = st[5 + i]
  <2>1. SubSeq(st, 5 + 1, Len(st)) = u
    OBVIOUS
  <2>2. st \in Seq(Words)
    BY <1>3
  <2> HIDE DEF u
  <2>3. QED
    BY <1>5, <2>1, <2>2, Suffix
<1> HIDE DEF u
<1>7. Len(u) = Len(S) /\ \A i \in 1 .. Len(u) : u[i] = S[i]
  BY <1>2, <1>3, <1>4, <1>6
<1>8. u = S
  BY <1>1, <1>6, <1>7, SameSeq
<1>9. QED
  BY <1>4, <1>8 DEF u, st, H, S

(* The handler before goes on where the processor found it.                *)
LEMMA Resumed ==
  ASSUME TypeOK, InHandlers, Iretq
  PROVE  /\ TypeOK' /\ InHandlers'
         /\ taken # <<>> /\ taken[1].hardware[3] = <<"rflags", interrupts_on'>>
<1> DEFINE t == taken[1]
           p == t.hardware[1][2]
<1>1. taken # <<>> /\ t \in Contexts /\ WellPushed(t) /\ Len(taken) \in Nat \ {0}
  BY HandlerAt DEF Iretq
<1>2. stack = t.hardware \o t.stack /\ RestoredFrom(0, regs, t)
  BY HandlerAt DEF Iretq, Handling, rip
<1>3. /\ Len(stack) = 5 + Len(t.stack) /\ \A h \in 1 .. 5 : stack[h] = t.hardware[h]
      /\ SubSeq(stack, 6, Len(stack)) = t.stack
  BY <1>1, <1>2, HardwareOnTop
<1>4. Len(t.stack) \in Nat /\ t.stack \in Seq(Words) /\ t.regs \in [Registers -> Words]
  BY <1>1, ContextParts
<1>5. p \in Places \X Nat \X Nat /\ t.hardware[3][2] \in BOOLEAN
      /\ t.hardware[3] = <<"rflags", t.hardware[3][2]>> /\ t.hardware[4][2] = Len(t.stack)
  BY <1>1 DEF WellPushed
<1>6. Word(1) = p /\ Word(3) = t.hardware[3][2] /\ Word(4) = Len(t.stack)
  BY <1>3, <1>5 DEF Word
<1>7. at' = p[1] /\ isr' = p[2] /\ n' = p[3] /\ interrupts_on' = t.hardware[3][2]
  BY <1>6 DEF Iretq
<1>8. rip' = p
  BY <1>5, <1>7 DEF rip
<1>9. stack' = t.stack
  <2>1. stack' = SubSeq(stack, Len(stack) - Len(t.stack) + 1, Len(stack))
    BY <1>6 DEF Iretq
  <2>2. Len(stack) - Len(t.stack) + 1 = 6
    BY <1>3, <1>4
  <2>3. QED
    BY <1>3, <2>1, <2>2
<1>10. /\ taken' \in Seq(Contexts) /\ Len(taken') = Len(taken) - 1
       /\ \A k \in 1 .. Len(taken) - 1 : taken'[k] = taken[k + 1]
  <2>1. taken' = Tail(taken) /\ taken \in Seq(Contexts) /\ Len(taken) > 0
    BY <1>1 DEF Iretq, TypeOK
  <2>2. QED
    BY <2>1, PopOne
<1>11. TypeOK'
  <2>1. at' \in Places /\ isr' \in Nat /\ n' \in Nat
    BY <1>5, <1>7
  <2>2. regs' \in [Registers -> Words]
    BY DEF TypeOK, Iretq
  <2> HIDE DEF t, p
  <2>3. QED
    BY <1>4, <1>5, <1>7, <1>9, <1>10, <2>1, <2>2 DEF TypeOK
<1>12. /\ Len(taken) > 1 => Handling(p, t.regs, t.stack, taken[2])
       /\ Len(taken) = 1 => p[1] = "kmain" /\ t.stack = <<>>
  BY <1>1 DEF InHandlers
<1> HIDE DEF p
<1>13. taken' # <<>> => Handling(rip', regs', stack', taken'[1])
  <2>1. SUFFICES ASSUME taken' # <<>> PROVE Handling(rip', regs', stack', taken'[1])
    OBVIOUS
  <2>2. Len(taken) > 1 /\ taken'[1] = taken[2]
    BY <1>1, <1>10, <2>1
  <2>3. Handling(p, t.regs, t.stack, taken'[1])
    BY <1>12, <2>2
  <2>4. (\A j \in 2 .. 15 : regs[PushOrder[j]] = t.regs[PushOrder[j]]) /\ regs' = regs
    BY <1>2 DEF RestoredFrom, Iretq
  <2> HIDE DEF t
  <2>5. Handling(p, regs, t.stack, taken'[1])
    BY <2>3, <2>4, SameButRax
  <2>6. QED
    BY <1>8, <1>9, <2>4, <2>5
<1>14. taken' = <<>> => at' = "kmain" /\ stack' = <<>>
  BY <1>1, <1>7, <1>9, <1>10, <1>12
<1>15. ASSUME NEW k \in 1 .. Len(taken')
       PROVE  LET u == taken'[k]
              IN  /\ WellPushed(u)
                  /\ k < Len(taken') => Handling(u.hardware[1][2], u.regs, u.stack, taken'[k + 1])
                  /\ k = Len(taken') => u.hardware[1][2][1] = "kmain" /\ u.stack = <<>>
  <2> DEFINE m == k + 1
  <2>1. m \in 1 .. Len(taken) /\ taken'[k] = taken[m]
    BY <1>1, <1>10
  <2>2. k < Len(taken') => m < Len(taken) /\ taken'[k + 1] = taken[m + 1]
    BY <1>1, <1>10
  <2>3. k = Len(taken') => m = Len(taken)
    BY <1>1, <1>10
  <2> HIDE DEF m
  <2>4. QED
    BY <2>1, <2>2, <2>3 DEF InHandlers
<1>16. QED
  BY <1>1, <1>5, <1>7, <1>11, <1>13, <1>14, <1>15 DEF InHandlers
-----------------------------------------------------------------------------
(* Interrupts of devices *)

LEMMA DeviceVectors ==
  /\ NoErrorStubs \ Fatal = {32, 33, 50}
  /\ \A v \in NoErrorStubs \ Fatal : v \in Gates /\ v \notin TrapGates
  /\ DoubleFault \notin NoErrorStubs \ Fatal
  BY DEF NoErrorStubs, Fatal, Gates, TrapGates, InterruptGates, DoubleFault

(* A device's interrupt is taken only with interrupts on, so in none of    *)
(* another's.                                                              *)
LEMMA EnteredUndisturbed ==
  ASSUME IInv, NEW v \in Gates, NEW cause, Enter(v, cause),
         v \in NoErrorStubs \ Fatal => interrupts_on
  PROVE  DevicesUndisturbed' /\ OneDeviceAtATime'
<1> DEFINE t == [vector |-> v, cause |-> cause, regs |-> regs, stack |-> stack, hardware |-> Hardware]
<1>1. taken' = <<t>> \o taken /\ taken \in Seq(Contexts) /\ interrupts_on \in BOOLEAN
  BY DEF Enter, IInv, TypeOK
<1>2. t.vector = v /\ t.hardware[3] = <<"rflags", interrupts_on>>
  BY HardwareWords DEF IInv
<1> HIDE DEF t
<1>3. /\ Len(taken') = Len(taken) + 1 /\ taken'[1] = t
      /\ \A k \in 1 .. Len(taken) : taken'[k + 1] = taken[k]
  <2>1. taken \in Seq(Contexts \cup {t}) /\ t \in Contexts \cup {t}
    BY <1>1
  <2>2. QED
    BY <1>1, <2>1, PushOne
<1>4. Len(taken) \in Nat /\ DOMAIN taken = 1 .. Len(taken)
  BY <1>1
<1>5. DOMAIN taken' = 1 .. Len(taken')
  BY <1>1
<1>6. \A k \in Devices' : k # 1 => k - 1 \in Devices
  <2>1. SUFFICES ASSUME NEW k \in Devices', k # 1 PROVE k - 1 \in Devices
    OBVIOUS
  <2>2. k \in 1 .. Len(taken') /\ taken'[k].vector \in NoErrorStubs \ Fatal
    BY <1>5 DEF Devices
  <2>3. k - 1 \in 1 .. Len(taken) /\ (k - 1) + 1 = k
    BY <1>3, <1>4, <2>1, <2>2
  <2>4. taken'[k] = taken[k - 1]
    BY <1>3, <2>3
  <2>5. QED
    BY <1>4, <2>2, <2>3, <2>4 DEF Devices
<1>7. 1 \in Devices' => v \in NoErrorStubs \ Fatal
  BY <1>2, <1>3 DEF Devices
<1>8. interrupts_on => Devices = {}
  BY DEF IInv, DevicesUndisturbed
<1>9. interrupts_on' = (interrupts_on /\ v \in TrapGates)
  BY DEF Enter
<1>10. DevicesUndisturbed'
  <2>1. SUFFICES ASSUME NEW k \in Devices'
                 PROVE  /\ ~interrupts_on'
                        /\ \A j \in 1 .. k - 1 : taken'[j].hardware[3] = <<"rflags", FALSE>>
    BY DEF DevicesUndisturbed
  <2>2. k \in Nat /\ k \in 1 .. Len(taken')
    BY <1>5 DEF Devices
  <2>3. CASE k = 1
    <3>1. ~interrupts_on'
      BY <1>7, <1>9, <2>3, DeviceVectors
    <3>2. 1 .. k - 1 = {}
      BY <2>3
    <3>3. QED
      BY <3>1, <3>2
  <2>4. CASE k # 1
    <3>1. k - 1 \in Devices /\ ~interrupts_on
      BY <1>6, <1>8, <2>4
    <3>2. ASSUME NEW j \in 1 .. k - 1 PROVE taken'[j].hardware[3] = <<"rflags", FALSE>>
      <4>1. CASE j = 1
        BY <1>1, <1>2, <1>3, <3>1, <4>1
      <4>2. CASE j # 1
        <5>1. j - 1 \in 1 .. (k - 1) - 1 /\ j - 1 \in 1 .. Len(taken) /\ (j - 1) + 1 = j
          BY <1>3, <1>4, <2>2, <4>2
        <5>2. taken'[j] = taken[j - 1]
          BY <1>3, <5>1
        <5>3. QED
          BY <3>1, <5>1, <5>2 DEF IInv, DevicesUndisturbed
      <4>3. QED
        BY <4>1, <4>2
    <3>3. QED
      BY <1>9, <3>1, <3>2
  <2>5. QED
    BY <2>3, <2>4
<1>11. OneDeviceAtATime'
  <2>1. SUFFICES ASSUME NEW j \in Devices', NEW k \in Devices' PROVE j = k
    BY DEF OneDeviceAtATime
  <2>2. j \in Nat /\ k \in Nat
    BY <1>5 DEF Devices
  <2>3. CASE 1 \in Devices'
    BY <1>6, <1>7, <1>8, <2>3
  <2>4. CASE 1 \notin Devices'
    <3>1. j - 1 \in Devices /\ k - 1 \in Devices
      BY <1>6, <2>4
    <3>2. j - 1 = k - 1
      BY <3>1 DEF IInv, OneDeviceAtATime
    <3>3. QED
      BY <2>2, <3>2
  <2>5. QED
    BY <2>3, <2>4
<1>12. QED
  BY <1>10, <1>11

LEMMA DeliveredUndisturbed ==
  ASSUME IInv, NEW v, Deliver(v), v \in NoErrorStubs \ Fatal => interrupts_on
  PROVE  DevicesUndisturbed' /\ OneDeviceAtATime'
<1>1. CASE v \in TrapGates \cup InterruptGates
  BY <1>1, EnteredUndisturbed DEF Deliver, Gates
<1>2. CASE v \notin TrapGates \cup InterruptGates
  BY <1>2, EnteredUndisturbed, DeviceVectors, GateFacts DEF Deliver
<1>3. QED
  BY <1>1, <1>2

LEMMA ResumedUndisturbed ==
  ASSUME IInv, Iretq
  PROVE  DevicesUndisturbed' /\ OneDeviceAtATime'
<1>1. taken # <<>> /\ taken[1].hardware[3] = <<"rflags", interrupts_on'>>
  BY Resumed DEF IInv
<1>2. taken \in Seq(Contexts) /\ Len(taken) \in Nat \ {0} /\ DOMAIN taken = 1 .. Len(taken)
  BY <1>1 DEF IInv, TypeOK
<1>3. /\ taken' \in Seq(Contexts) /\ Len(taken') = Len(taken) - 1
      /\ \A k \in 1 .. Len(taken) - 1 : taken'[k] = taken[k + 1]
  BY <1>2, PopOne DEF Iretq
<1>4. DOMAIN taken' = 1 .. Len(taken) - 1
  BY <1>3
<1>5. \A k \in Devices' : k + 1 \in Devices /\ k \in Nat \ {0}
  BY <1>2, <1>3, <1>4 DEF Devices
<1>6. DevicesUndisturbed'
  <2>1. SUFFICES ASSUME NEW k \in Devices'
                 PROVE  /\ ~interrupts_on'
                        /\ \A j \in 1 .. k - 1 : taken'[j].hardware[3] = <<"rflags", FALSE>>
    BY DEF DevicesUndisturbed
  <2>2. \A j \in 1 .. (k + 1) - 1 : taken[j].hardware[3] = <<"rflags", FALSE>>
    BY <1>5 DEF IInv, DevicesUndisturbed
  <2>3. 1 \in 1 .. (k + 1) - 1
    BY <1>5
  <2>4. ~interrupts_on'
    <3>1. <<"rflags", interrupts_on'>> = <<"rflags", FALSE>>
      BY <1>1, <2>2, <2>3
    <3>2. QED
      BY <3>1
  <2>5. ASSUME NEW j \in 1 .. k - 1 PROVE taken'[j].hardware[3] = <<"rflags", FALSE>>
    <3>1. j + 1 \in 1 .. (k + 1) - 1 /\ j \in 1 .. Len(taken) - 1
      BY <1>2, <1>4, <1>5 DEF Devices
    <3>2. QED
      BY <1>3, <2>2, <3>1
  <2>6. QED
    BY <2>4, <2>5
<1>7. OneDeviceAtATime'
  BY <1>5 DEF IInv, OneDeviceAtATime
<1>8. QED
  BY <1>6, <1>7
-----------------------------------------------------------------------------
(* The invariant *)

LEMMA InitInv == Init => IInv
<1> SUFFICES ASSUME Init PROVE IInv
  OBVIOUS
<1>1. taken = <<>> /\ stack = <<>> /\ at = "kmain"
  BY DEF Init
<1>2. taken \in Seq(Contexts) /\ stack \in Seq(Words) /\ Len(taken) = 0 /\ DOMAIN taken = {}
  BY <1>1
<1>3. regs \in [Registers -> Words]
  BY DEF Init, Tagged, Words
<1>4. TypeOK
  BY <1>2, <1>3 DEF Init, TypeOK, Places
<1>5. InHandlers
  BY <1>1, <1>2 DEF InHandlers
<1>6. DevicesUndisturbed /\ OneDeviceAtATime
  BY <1>2 DEF DevicesUndisturbed, OneDeviceAtATime, Devices
<1>7. QED
  BY <1>4, <1>5, <1>6 DEF IInv

LEMMA InKmain ==
  ASSUME TypeOK, InHandlers, at = "kmain"
  PROVE  taken = <<>> /\ stack = <<>>
  BY DEF InHandlers, Handling, rip

LEMMA NextInv == IInv /\ [Next]_vars => IInv'
<1> SUFFICES ASSUME IInv, [Next]_vars PROVE IInv'
  OBVIOUS
<1> USE DEF IInv
<1>1. CASE Work
  <2>1. taken = <<>> /\ stack = <<>>
    BY <1>1, InKmain DEF Work
  <2>2. regs' \in [Registers -> Words]
    BY <1>1 DEF Work, Tagged, Words
  <2>3. UNCHANGED <<stack, interrupts_on, taken, at, isr, n>>
    BY <1>1 DEF Work, rip
  <2>4. TypeOK'
    BY <2>2, <2>3 DEF TypeOK
  <2>5. InHandlers'
    BY <1>1, <2>1, <2>3 DEF InHandlers, Work
  <2>6. QED
    BY <2>3, <2>4, <2>5 DEF DevicesUndisturbed, OneDeviceAtATime, Devices
<1>2. CASE Sti
  <2>1. taken = <<>> /\ stack = <<>>
    BY <1>2, InKmain DEF Sti
  <2>2. UNCHANGED <<regs, stack, taken, at, isr, n>> /\ interrupts_on' = TRUE
    BY <1>2 DEF Sti, rip
  <2>3. TypeOK'
    BY <2>2 DEF TypeOK
  <2>4. InHandlers'
    BY <1>2, <2>1, <2>2 DEF InHandlers, Sti
  <2>5. Devices' = {}
    BY <2>1, <2>2 DEF Devices
  <2>6. QED
    BY <2>3, <2>4, <2>5 DEF DevicesUndisturbed, OneDeviceAtATime
<1>3. CASE NonMaskable
  <2>1. NMI \in Nat /\ NMI \notin NoErrorStubs \ Fatal
    BY DEF NMI, NoErrorStubs, Fatal
  <2>2. QED
    BY <1>3, <2>1, Delivered, DeliveredUndisturbed DEF NonMaskable
<1>4. ASSUME NEW v \in Exceptions, Exception(v) PROVE IInv'
  <2>1. v \in Nat /\ v \in Fatal
    BY InterruptsAssumption DEF Fatal
  <2>2. QED
    BY <1>4, <2>1, Delivered, DeliveredUndisturbed DEF Exception
<1>5. ASSUME NEW v \in Requests, Request(v) PROVE IInv'
  <2>1. v \in Nat
    BY InterruptsAssumption
  <2>2. QED
    BY <1>5, <2>1, Delivered, DeliveredUndisturbed DEF Request
<1>6. ASSUME TypeOK', InHandlers', UNCHANGED <<taken, interrupts_on>> PROVE IInv'
  BY <1>6 DEF DevicesUndisturbed, OneDeviceAtATime, Devices
<1>7. CASE Stub
  BY <1>6, <1>7, Stubbed DEF Stub
<1>8. CASE Push
  BY <1>6, <1>8, Pushed DEF Push
<1>9. CASE Call
  BY <1>6, <1>9, Called DEF Call
<1>10. CASE Pull
  BY <1>6, <1>10, Pulled DEF Pull
<1>11. CASE Drop
  BY <1>6, <1>11, DroppedWords DEF Drop
<1>12. CASE Iretq
  BY <1>12, Resumed, ResumedUndisturbed
<1>13. CASE UNCHANGED vars
  <2>1. UNCHANGED <<regs, stack, interrupts_on, at, isr, n, rip, taken>>
    BY <1>13 DEF vars, rip
  <2>2. TypeOK' /\ InHandlers'
    BY <2>1 DEF TypeOK, InHandlers
  <2>3. QED
    BY <1>6, <2>1, <2>2
<1>14. QED
  BY <1>1, <1>2, <1>3, <1>4, <1>5, <1>7, <1>8, <1>9, <1>10, <1>11, <1>12, <1>13 DEF Next, Spin
-----------------------------------------------------------------------------
(* What follows from it *)

LEMMA FieldFacts ==
  /\ DOMAIN Fields = 1 .. 22
  /\ \A i, j \in 1 .. 22 : Fields[i] = Fields[j] => i = j
  /\ \A i \in 1 .. 15 : Fields[i] = PushOrder[16 - i]
  /\ Fields[16] = "vector" /\ Fields[17] = "code" /\ Fields[18] = "rip" /\ Fields[19] = "cs"
  /\ Fields[20] = "rflags" /\ Fields[21] = "rsp" /\ Fields[22] = "ss"
<1>1. DOMAIN Fields = 1 .. 22
  BY DEF Fields
<1>2. \A i, j \in 1 .. 22 : Fields[i] = Fields[j] => i = j
  BY DEF Fields
<1>3. \A i \in 1 .. 15 : Fields[i] = PushOrder[16 - i]
  BY DEF Fields, PushOrder
<1>4. /\ Fields[16] = "vector" /\ Fields[17] = "code" /\ Fields[18] = "rip" /\ Fields[19] = "cs"
      /\ Fields[20] = "rflags" /\ Fields[21] = "rsp" /\ Fields[22] = "ss"
  BY DEF Fields
<1>5. QED
  BY <1>1, <1>2, <1>3, <1>4

LEMMA MeantAt ==
  /\ \A i \in 1 .. 14 : Meant(Fields[i]) = Latest.regs[PushOrder[16 - i]]
  /\ Meant(Fields[16]) = <<"vector", Latest.vector>>
  /\ Meant(Fields[17]) = <<"code", IF Latest.vector \in PushesError THEN 1 ELSE 0>>
  /\ \A h \in 1 .. 5 : Meant(Fields[17 + h]) = Latest.hardware[h]
<1>1. \A i \in 1 .. 14 : Fields[i] = PushOrder[16 - i] /\ Fields[i] \in Registers
  BY Orders, FieldFacts
<1>2. \A i \in 16 .. 22 : Fields[i] \notin Registers
  <2>1. SUFFICES ASSUME NEW i \in 16 .. 22, Fields[i] \in Registers PROVE FALSE
    OBVIOUS
  <2>2. PICK j \in 1 .. 15 : Fields[i] = PushOrder[j]
    BY <2>1, Orders
  <2>3. 16 - j \in 1 .. 15 /\ 16 - (16 - j) = j
    OBVIOUS
  <2>4. Fields[16 - j] = Fields[i]
    BY <2>2, <2>3, FieldFacts
  <2>5. QED
    BY <2>3, <2>4, FieldFacts
<1>3. \A i \in 1 .. 14 : Meant(Fields[i]) = Latest.regs[PushOrder[16 - i]]
  <2>1. TAKE i \in 1 .. 14
  <2>2. Fields[i] \in Registers
    BY <1>1
  <2> DEFINE k == Fields[i]
  <2>3. k \notin {"vector", "code", "rip", "cs", "rflags", "rsp", "ss"}
    BY FieldFacts
  <2> HIDE DEF k
  <2>4. Meant(k) = Latest.regs[k]
    BY <2>2, <2>3 DEF Meant, k
  <2>5. QED
    BY <1>1, <2>4 DEF k
<1>4. /\ "vector" \notin Registers /\ "code" \notin Registers /\ "rip" \notin Registers
      /\ "cs" \notin Registers /\ "rflags" \notin Registers /\ "rsp" \notin Registers
      /\ "ss" \notin Registers
  BY <1>2, FieldFacts
<1>5. Meant("vector") = <<"vector", Latest.vector>>
  BY <1>4 DEF Meant
<1>6. Meant("code") = <<"code", IF Latest.vector \in PushesError THEN 1 ELSE 0>>
  BY <1>4 DEF Meant
<1>7. /\ Meant("rip") = Latest.hardware[1] /\ Meant("cs") = Latest.hardware[2]
      /\ Meant("rflags") = Latest.hardware[3] /\ Meant("rsp") = Latest.hardware[4]
      /\ Meant("ss") = Latest.hardware[5]
  BY <1>4 DEF Meant
<1>8. \A h \in 1 .. 5 : Meant(Fields[17 + h]) = Latest.hardware[h]
  BY <1>7, FieldFacts
<1>9. QED
  BY <1>3, <1>5, <1>6, <1>8, FieldFacts

LEMMA FrameAt ==
  /\ \A i \in 1 .. 22 : frame[Fields[i]] = stack[i]
  /\ \A k \in ToSet(Fields) : \E i \in 1 .. 22 : k = Fields[i]
<1>1. ToSet(Fields) = {Fields[i] : i \in 1 .. 22}
  BY FieldFacts DEF ToSet
<1>2. ASSUME NEW i \in 1 .. 22 PROVE frame[Fields[i]] = stack[i]
  <2>1. (CHOOSE j \in DOMAIN Fields : Fields[j] = Fields[i]) = i
    BY FieldFacts
  <2>2. Fields[i] \in ToSet(Fields)
    BY <1>1
  <2>3. QED
    BY <2>1, <2>2 DEF frame
<1>3. QED
  BY <1>1, <1>2

(* The handler of every vector finds the frame the struct describes, at    *)
(* any depth of nesting.                                                   *)
LEMMA InvFrame == IInv => FrameMatches
<1> SUFFICES ASSUME IInv, at = "push", n > Len(PushOrder), NEW k \in ToSet(Fields) \ {"rax"}
             PROVE  frame[k] = Meant(k)
  BY DEF FrameMatches
<1> DEFINE t == taken[1]
<1>1. Latest = t /\ n \in Nat /\ n > 15 /\ n \in 1 .. 16 /\ Layout(n - 1, stack, t)
  BY HandlerAt, Orders DEF IInv, TypeOK, Handling, rip
<1>2. Layout(15, stack, t)
  <2>1. n - 1 = 15
    BY <1>1
  <2>2. QED
    BY <1>1, <2>1
<1> HIDE DEF t
<1>3. PICK i \in 1 .. 22 : k = Fields[i]
  BY FrameAt
<1>4. i # 15
  BY <1>3, Orders, FieldFacts
<1>5. SUFFICES stack[i] = Meant(Fields[i])
  BY <1>3, FrameAt
<1>6. CASE i \in 1 .. 14
  <2>1. 16 - i \in 2 .. 15 /\ 15 + 1 - (16 - i) = i
    BY <1>6
  <2>2. stack[15 + 1 - (16 - i)] = t.regs[PushOrder[16 - i]]
    BY <1>2, <2>1 DEF Layout
  <2>3. QED
    BY <1>1, <1>6, <2>1, <2>2, MeantAt
<1>7. CASE i = 16
  <2>1. stack[15 + 1] = <<"vector", t.vector>> /\ 15 + 1 = 16
    BY <1>2 DEF Layout
  <2>2. QED
    BY <1>1, <1>7, <2>1, MeantAt
<1>8. CASE i = 17
  <2>1. stack[15 + 2] = <<"code", IF t.vector \in PushesError THEN 1 ELSE 0>> /\ 15 + 2 = 17
    BY <1>2 DEF Layout
  <2>2. QED
    BY <1>1, <1>8, <2>1, MeantAt
<1>9. CASE i \in 18 .. 22
  <2>1. i - 17 \in 1 .. 5 /\ 15 + 2 + (i - 17) = i /\ 17 + (i - 17) = i
    BY <1>9
  <2>2. stack[15 + 2 + (i - 17)] = t.hardware[i - 17]
    BY <1>2, <2>1 DEF Layout
  <2>3. Meant(Fields[17 + (i - 17)]) = t.hardware[i - 17]
    BY <1>1, <2>1, MeantAt
  <2>4. QED
    BY <2>1, <2>2, <2>3
<1>10. QED
  BY <1>3, <1>4, <1>6, <1>7, <1>8, <1>9

(* iretq finds the words it takes on top of the stack it is to leave, and  *)
(* every register but rax as it was.                                       *)
LEMMA InvResumes == IInv => StackBalanced /\ ResumesButRax
<1> SUFFICES ASSUME IInv, at = "iretq"
             PROVE  /\ stack = Latest.hardware \o Latest.stack
                    /\ \A r \in Registers \ {"rax"} : regs[r] = Latest.regs[r]
  BY DEF StackBalanced, ResumesButRax
<1>1. Latest = taken[1] /\ stack = Latest.hardware \o Latest.stack /\ RestoredFrom(0, regs, Latest)
  BY HandlerAt DEF IInv, Handling, rip
<1>2. ASSUME NEW r \in Registers \ {"rax"} PROVE regs[r] = Latest.regs[r]
  <2>1. PICK j \in 1 .. 15 : r = PushOrder[j]
    BY Orders
  <2>2. j \in 2 .. 15
    BY <2>1, Orders
  <2>3. QED
    BY <1>1, <2>1, <2>2 DEF RestoredFrom
<1>3. QED
  BY <1>1, <1>2

(* Inductive invariant: wherever interrupts nest, each handler is at a     *)
(* place, with registers and a stack, from which it gets back to what it   *)
(* interrupted.                                                            *)
THEOREM Invariance == Spec => []IInv
<1>1. Init => IInv
  BY InitInv
<1>2. IInv /\ [Next]_vars => IInv'
  BY NextInv
<1>3. QED
  BY <1>1, <1>2, PTL DEF Spec

(* isr_handler_C reads from each field of struct stack_frame but rax what  *)
(* the processor had when it took the interrupt, for every gate.           *)
THEOREM FrameCorrect == Spec => []FrameMatches
<1>1. QED
  BY Invariance, InvFrame, PTL

(* Before iretq, what is above the interrupted code's stack is what the    *)
(* processor put there, for every gate and depth.                          *)
THEOREM StackCorrect == Spec => []StackBalanced
<1>1. QED
  BY Invariance, InvResumes, PTL

(* PULL_ALL undoes PUSH_ALL for every register but rax, whatever the       *)
(* values, for every gate and depth.                                       *)
THEOREM RegistersCorrect == Spec => []ResumesButRax
<1>1. QED
  BY Invariance, InvResumes, PTL

(* Interrupt gates keep devices' handlers from nesting, though those of    *)
(* #DB do, and whatever vectors the local APIC delivers.                   *)
THEOREM DevicesExclude == Spec => []OneDeviceAtATime
<1>1. IInv => OneDeviceAtATime
  BY DEF IInv
<1>2. QED
  BY Invariance, <1>1, PTL
=============================================================================
