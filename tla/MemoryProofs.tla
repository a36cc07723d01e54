---------------------------- MODULE MemoryProofs ----------------------------
(***************************************************************************)
(* The memory functions do what they promise for every size of memory,     *)
(* every range and every content.                                          *)
(***************************************************************************)
EXTENDS Memory, TLAPS

(* Bytes lo .. hi - 1 of the copy have been made, and no other is touched. *)
Moved(lo, hi) ==
  \A a \in Addresses :
    mem[a] = IF a \in (dest + lo) .. (dest + hi - 1) THEN before[src + (a - dest)] ELSE before[a]

(* The direction of a copy: a byte is read before it is overwritten.       *)
CopyingUp ==
  pc = "up" /\ fn \in {"memcpy", "memmove"} =>
    /\ src > dest \/ Range(dest, len) \cap Range(src, len) = {}
    /\ Moved(0, i)

CopyingDown ==
  pc = "down" =>
    /\ fn = "memmove" /\ src <= dest
    /\ src = dest => i = 0
    /\ Moved(i, len)

Filling ==
  pc = "up" /\ fn = "memset" =>
    \A a \in Addresses : mem[a] = IF a \in Range(dest, i) THEN c % BYTE ELSE before[a]

Comparing ==
  fn = "memcmp" => mem = before /\ (pc = "up" => Same(i))

Running == pc # "idle" => fn # "none"

Inv ==
  /\ TypeOK /\ Running /\ CopyingUp /\ CopyingDown /\ Filling /\ Comparing
  /\ Copied /\ Filled /\ Compared

LEMMA InitInv == Init => Inv
  BY MemoryAssumption
  DEF Init, Inv, TypeOK, Running, CopyingUp, CopyingDown, Filling, Comparing, Copied, Filled,
      Compared, Fits

(* A call has its arguments in memory, and nothing done yet.               *)
LEMMA CallInv ==
  ASSUME Inv, NEW f \in {"memcpy", "memset", "memmove", "memcmp"},
         NEW d \in 0 .. Size, NEW s \in 0 .. Size, NEW n \in 0 .. Size,
         Call(f, d, s, n), c' \in Int, i' \in 0 .. n, pc' \in {"up", "down"},
         pc' = "up" => i' = 0,
         pc' = "up" /\ f \in {"memcpy", "memmove"} => s > d \/ Range(d, n) \cap Range(s, n) = {},
         pc' = "down" => f = "memmove" /\ s <= d /\ i' = IF s = d THEN 0 ELSE n
  PROVE  Inv'
  <1>1. /\ mem' = mem /\ before' = mem /\ mem \in [Addresses -> Bytes] /\ ret' \in Int
        /\ fn' = f /\ dest' = d /\ src' = s /\ len' = n /\ pc' # "done"
        /\ Fits(d, n) /\ Fits(s, n)
    BY DEF Call, Inv, TypeOK
  <1>2. TypeOK' /\ Running'
    BY <1>1 DEF TypeOK, Running, Addresses, Bytes, Fits
  <1>3. CopyingUp'
    BY <1>1, MemoryAssumption DEF CopyingUp, Moved, Range, Addresses
  <1>4. CopyingDown'
    <2>1. CASE s = d
      BY <1>1, <2>1, MemoryAssumption DEF CopyingDown, Moved, Addresses
    <2>2. CASE s # d
      BY <1>1, <2>2, MemoryAssumption DEF CopyingDown, Moved, Addresses
    <2>3. QED
      BY <2>1, <2>2
  <1>5. Filling' /\ Comparing'
    <2>1. pc' = "up" => Range(dest', i') = {} /\ 0 .. (i' - 1) = {}
      BY <1>1 DEF Range
    <2>2. Filling'
      BY <1>1, <2>1 DEF Filling, Addresses
    <2>3. Comparing'
      BY <1>1, <2>1 DEF Comparing, Same
    <2>4. QED
      BY <2>2, <2>3
  <1>6. QED
    BY <1>1, <1>2, <1>3, <1>4, <1>5 DEF Inv, Copied, Filled, Compared

LEMMA CopyUpInv == Inv /\ CopyUp => Inv'
  <1> SUFFICES ASSUME Inv, CopyUp PROVE Inv'
    OBVIOUS
  <1>1. /\ pc = "up" /\ fn \in {"memcpy", "memmove"} /\ i < len
        /\ mem' = [mem EXCEPT ![dest + i] = mem[src + i]] /\ i' = i + 1
        /\ before' = before /\ fn' = fn /\ dest' = dest /\ src' = src /\ c' = c /\ len' = len
        /\ pc' = pc /\ ret' = ret
    BY DEF CopyUp, Up, More, NextUp, args
  <1>2. TypeOK /\ dest + i \in Addresses /\ src + i \in Addresses
    BY <1>1, MemoryAssumption DEF Inv, TypeOK, Fits, Addresses
  <1>3. TypeOK' /\ Running'
    BY <1>1, <1>2 DEF Inv, TypeOK, Running, Fits
  <1>4. mem[src + i] = before[src + i]
    <2>1. src + i \notin (dest + 0) .. (dest + i - 1)
      BY <1>1, <1>2, MemoryAssumption DEF Inv, CopyingUp, TypeOK, Fits, Range
    <2>2. QED
      BY <1>1, <1>2, <2>1 DEF Inv, CopyingUp, Moved
  <1>5. Moved(0, i)'
    <2>1. SUFFICES ASSUME NEW a \in Addresses
                   PROVE  mem'[a] = IF a \in (dest + 0) .. (dest + (i + 1) - 1)
                                    THEN before[src + (a - dest)] ELSE before[a]
      BY <1>1 DEF Moved, Addresses
    <2>2. mem[a] = IF a \in (dest + 0) .. (dest + i - 1) THEN before[src + (a - dest)] ELSE before[a]
      BY <1>1 DEF Inv, CopyingUp, Moved
    <2>3. CASE a = dest + i
      <3>1. src + (a - dest) = src + i /\ a \in (dest + 0) .. (dest + (i + 1) - 1)
        BY <1>2, <2>3, MemoryAssumption DEF TypeOK, Fits
      <3>2. mem'[a] = mem[src + i]
        BY <1>1, <1>2, <2>3 DEF TypeOK
      <3>3. QED
        BY <1>4, <3>1, <3>2
    <2>4. CASE a # dest + i
      <3>1. a \in (dest + 0) .. (dest + (i + 1) - 1) <=> a \in (dest + 0) .. (dest + i - 1)
        BY <1>2, <2>4, MemoryAssumption DEF TypeOK, Fits, Addresses
      <3>2. mem'[a] = mem[a]
        BY <1>1, <1>2, <2>4 DEF TypeOK
      <3>3. QED
        BY <2>2, <3>1, <3>2
    <2>5. QED
      BY <2>3, <2>4
  <1>6. CopyingUp'
    BY <1>1, <1>5 DEF Inv, CopyingUp, Range
  <1>7. QED
    BY <1>1, <1>3, <1>6
    DEF Inv, CopyingDown, Filling, Comparing, Copied, Filled, Compared

LEMMA CopyDownInv == Inv /\ CopyDown => Inv'
  <1> SUFFICES ASSUME Inv, CopyDown PROVE Inv'
    OBVIOUS
  <1> DEFINE j == i - 1
  <1>1. /\ pc = "down" /\ i > 0
        /\ mem' = [mem EXCEPT ![dest + i - 1] = mem[src + i - 1]] /\ i' = i - 1
        /\ before' = before /\ fn' = fn /\ dest' = dest /\ src' = src /\ c' = c /\ len' = len
        /\ pc' = pc /\ ret' = ret
    BY DEF CopyDown, Down, More, args
  <1>2. TypeOK /\ dest + i - 1 \in Addresses /\ src + i - 1 \in Addresses
    BY <1>1, MemoryAssumption DEF Inv, TypeOK, Fits, Addresses
  <1>3. TypeOK' /\ Running'
    BY <1>1, <1>2 DEF Inv, TypeOK, Running, Fits
  <1>4. fn = "memmove" /\ src < dest
    BY <1>1, <1>2, MemoryAssumption DEF Inv, CopyingDown, TypeOK, Fits
  <1>5. mem[src + i - 1] = before[src + i - 1]
    <2>1. src + i - 1 \notin (dest + i) .. (dest + len - 1)
      BY <1>1, <1>2, <1>4, MemoryAssumption DEF TypeOK, Fits
    <2>2. QED
      BY <1>1, <1>2, <2>1 DEF Inv, CopyingDown, Moved
  <1>6. Moved(i, len)'
    <2>1. SUFFICES ASSUME NEW a \in Addresses
                   PROVE  mem'[a] = IF a \in (dest + (i - 1)) .. (dest + len - 1)
                                    THEN before[src + (a - dest)] ELSE before[a]
      BY <1>1 DEF Moved, Addresses
    <2>2. mem[a] = IF a \in (dest + i) .. (dest + len - 1) THEN before[src + (a - dest)] ELSE before[a]
      BY <1>1 DEF Inv, CopyingDown, Moved
    <2>3. CASE a = dest + i - 1
      <3>1. src + (a - dest) = src + i - 1 /\ a \in (dest + (i - 1)) .. (dest + len - 1)
        BY <1>1, <1>2, <2>3, MemoryAssumption DEF TypeOK, Fits
      <3>2. mem'[a] = mem[src + i - 1]
        BY <1>1, <1>2, <2>3 DEF TypeOK
      <3>3. QED
        BY <1>5, <3>1, <3>2
    <2>4. CASE a # dest + i - 1
      <3>1. a \in (dest + (i - 1)) .. (dest + len - 1) <=> a \in (dest + i) .. (dest + len - 1)
        BY <1>2, <2>4, MemoryAssumption DEF TypeOK, Fits, Addresses
      <3>2. mem'[a] = mem[a]
        BY <1>1, <1>2, <2>4 DEF TypeOK
      <3>3. QED
        BY <2>2, <3>1, <3>2
    <2>5. QED
      BY <2>3, <2>4
  <1>7. CopyingDown'
    BY <1>1, <1>2, <1>4, <1>6, MemoryAssumption DEF CopyingDown, TypeOK, Fits
  <1>8. QED
    BY <1>1, <1>3, <1>4, <1>7
    DEF Inv, CopyingUp, Filling, Comparing, Copied, Filled, Compared

LEMMA FillInv == Inv /\ Fill => Inv'
  <1> SUFFICES ASSUME Inv, Fill PROVE Inv'
    OBVIOUS
  <1>1. /\ pc = "up" /\ fn = "memset" /\ i < len
        /\ mem' = [mem EXCEPT ![dest + i] = c % BYTE] /\ i' = i + 1
        /\ before' = before /\ fn' = fn /\ dest' = dest /\ src' = src /\ c' = c /\ len' = len
        /\ pc' = pc /\ ret' = ret
    BY DEF Fill, Up, More, NextUp, ToByte, args
  <1>2. TypeOK /\ dest + i \in Addresses /\ c % BYTE \in Bytes
    BY <1>1, MemoryAssumption DEF Inv, TypeOK, Fits, Addresses, Bytes
  <1>3. TypeOK' /\ Running'
    BY <1>1, <1>2 DEF Inv, TypeOK, Running, Fits
  <1>4. Filling'
    <2>1. SUFFICES ASSUME NEW a \in Addresses
                   PROVE  mem'[a] = IF a \in Range(dest, i + 1) THEN c % BYTE ELSE before[a]
      BY <1>1 DEF Filling, Addresses, Range
    <2>2. mem[a] = IF a \in Range(dest, i) THEN c % BYTE ELSE before[a]
      BY <1>1 DEF Inv, Filling
    <2>3. a \in Range(dest, i + 1) <=> a \in Range(dest, i) \/ a = dest + i
      BY <1>2, MemoryAssumption DEF TypeOK, Fits, Addresses, Range
    <2>4. mem'[a] = IF a = dest + i THEN c % BYTE ELSE mem[a]
      BY <1>1, <1>2 DEF TypeOK
    <2>5. QED
      BY <2>2, <2>3, <2>4
  <1>5. QED
    BY <1>1, <1>3, <1>4
    DEF Inv, CopyingUp, CopyingDown, Comparing, Copied, Filled, Compared

LEMMA CompareEqualInv == Inv /\ CompareEqual => Inv'
  <1> SUFFICES ASSUME Inv, CompareEqual PROVE Inv'
    OBVIOUS
  <1>1. /\ pc = "up" /\ fn = "memcmp" /\ i < len /\ i' = i + 1
        /\ before[dest + i] = before[src + i]
        /\ mem' = mem /\ before' = before /\ fn' = fn /\ dest' = dest /\ src' = src /\ c' = c
        /\ len' = len /\ pc' = pc /\ ret' = ret
    BY DEF CompareEqual, Up, More, NextUp, args, Inv, Comparing
  <1>2. TypeOK' /\ Running'
    BY <1>1, MemoryAssumption DEF Inv, TypeOK, Running, Fits
  <1>3. \A k \in 0 .. i : before[dest + k] = before[src + k]
    <2>1. \A k \in 0 .. i : k \in 0 .. (i - 1) \/ k = i
      BY MemoryAssumption DEF Inv, TypeOK, Fits
    <2>2. QED
      BY <1>1, <2>1 DEF Inv, Comparing, Same
  <1>4. Comparing'
    <2>1. 0 .. ((i + 1) - 1) = 0 .. i
      BY MemoryAssumption DEF Inv, TypeOK, Fits
    <2>2. QED
      BY <1>1, <1>3, <2>1 DEF Inv, Comparing, Same
  <1>5. QED
    BY <1>1, <1>2, <1>4
    DEF Inv, CopyingUp, CopyingDown, Filling, Copied, Filled, Compared

(* The first difference decides: no byte before it differs.                *)
LEMMA CompareDifferentInv == Inv /\ CompareDifferent => Inv'
  <1> SUFFICES ASSUME Inv, CompareDifferent PROVE Inv'
    OBVIOUS
  <1>1. /\ pc = "up" /\ fn = "memcmp" /\ i < len
        /\ before[dest + i] # before[src + i]
        /\ ret' = IF before[dest + i] < before[src + i] THEN -1 ELSE 1
        /\ mem = before /\ mem' = mem /\ before' = before /\ fn' = fn /\ dest' = dest
        /\ src' = src /\ c' = c /\ len' = len /\ pc' = "done" /\ i' = i
    BY DEF CompareDifferent, Up, More, Order, args, Inv, Comparing
  <1>2. TypeOK' /\ Running'
    BY <1>1, MemoryAssumption DEF Inv, TypeOK, Running, Fits
  <1>3. i \in 0 .. (len - 1) /\ len \in Nat
    BY <1>1, MemoryAssumption DEF Inv, TypeOK, Fits
  <1>4. Same(i) /\ ~Same(len)
    BY <1>1, <1>3 DEF Inv, Comparing, Same
  <1>5. before[dest + i] \in Int /\ before[src + i] \in Int
    <2>1. dest + i \in Addresses /\ src + i \in Addresses
      BY <1>3, MemoryAssumption DEF Inv, TypeOK, Fits, Addresses
    <2>2. QED
      BY <2>1, MemoryAssumption DEF Inv, TypeOK, Bytes
  <1>6. ASSUME NEW k \in 0 .. (len - 1), Same(k)
        PROVE  k = i \/ before[dest + k] = before[src + k]
    <2>1. k > i => before[dest + i] = before[src + i]
      BY <1>3, <1>6 DEF Same
    <2>2. k < i => before[dest + k] = before[src + k]
      BY <1>3, <1>4 DEF Same
    <2>3. QED
      BY <1>1, <1>3, <2>1, <2>2
  <1>7. Compared'
    <2>1. (ret = 0)' <=> Same(len)
      BY <1>1, <1>4
    <2>2. ASSUME NEW k \in 0 .. (len - 1), Same(k)
          PROVE  /\ before[dest + k] < before[src + k] => ret' < 0
                 /\ before[dest + k] > before[src + k] => ret' > 0
      <3>1. CASE k = i
        BY <1>1, <1>5, <3>1
      <3>2. CASE before[dest + k] = before[src + k]
        <4>1. dest + k \in Addresses /\ before[dest + k] \in Int
          BY MemoryAssumption DEF Inv, TypeOK, Fits, Addresses, Bytes
        <4>2. QED
          BY <3>2, <4>1
      <3>3. QED
        BY <1>6, <2>2, <3>1, <3>2
    <2>3. QED
      BY <1>1, <2>1, <2>2 DEF Compared, Same
  <1>8. QED
    BY <1>1, <1>2, <1>7 DEF Inv, CopyingUp, CopyingDown, Filling, Comparing, Copied, Filled

LEMMA LoopEndsInv == Inv /\ LoopEnds => Inv'
  <1> SUFFICES ASSUME Inv, LoopEnds PROVE Inv'
    OBVIOUS
  <1>1. /\ pc = "up" \/ pc = "down"
        /\ ret' = IF fn = "memcmp" THEN 0 ELSE dest
        /\ mem' = mem /\ before' = before /\ fn' = fn /\ dest' = dest /\ src' = src /\ c' = c
        /\ len' = len /\ i' = i /\ pc' = "done"
    BY DEF LoopEnds, args
  <1>2. pc = "up" => i = len
    BY MemoryAssumption DEF Inv, LoopEnds, More, TypeOK, Fits
  <1>3. pc = "down" => i = 0
    BY MemoryAssumption DEF Inv, LoopEnds, More, TypeOK, Fits
  <1>4. TypeOK' /\ Running'
    BY <1>1, MemoryAssumption DEF Inv, TypeOK, Running, Fits
  <1>5. Copied'
    <2>1. fn \in {"memcpy", "memmove"} => Moved(0, len)
      BY <1>1, <1>2, <1>3 DEF Inv, CopyingUp, CopyingDown
    <2>2. (dest + 0) .. (dest + len - 1) = Range(dest, len)
      BY MemoryAssumption DEF Inv, TypeOK, Fits, Range
    <2>3. QED
      BY <1>1, <2>1, <2>2 DEF Inv, TypeOK, Copied, Moved, Addresses, Range
  <1>6. Filled'
    BY <1>1, <1>2 DEF Inv, TypeOK, Filling, CopyingDown, Filled, Addresses, Range
  <1>7. Compared'
    <2>1. CASE fn = "memcmp"
      <3>1. pc = "up" /\ i = len /\ Same(len) /\ mem = before /\ ret' = 0
        BY <1>1, <1>2, <2>1 DEF Inv, CopyingDown, Comparing
      <3>2. \A k \in 0 .. (len - 1) : before[dest + k] = before[src + k]
        BY <3>1 DEF Same
      <3>3. \A k \in 0 .. (len - 1) : before[dest + k] \in Int
        BY MemoryAssumption DEF Inv, TypeOK, Fits, Addresses, Bytes
      <3>4. Same(len)'
        BY <1>1, <3>2 DEF Same
      <3>5. QED
        BY <1>1, <3>1, <3>2, <3>3, <3>4 DEF Compared
    <2>2. CASE fn # "memcmp"
      BY <1>1, <2>2 DEF Compared
    <2>3. QED
      BY <2>1, <2>2
  <1>8. QED
    BY <1>1, <1>4, <1>5, <1>6, <1>7 DEF Inv, CopyingUp, CopyingDown, Filling, Comparing

LEMMA NextInv == Inv /\ [Next]_vars => Inv'
  <1> SUFFICES ASSUME Inv, [Next]_vars PROVE Inv'
    OBVIOUS
  <1>1. ASSUME NEW d \in 0 .. Size, NEW s \in 0 .. Size, NEW n \in 0 .. Size, memcpy(d, s, n)
        PROVE  Inv'
    <2>1. c' = c /\ c \in Int /\ n \in Nat
      BY <1>1, MemoryAssumption DEF memcpy, Inv, TypeOK
    <2>2. QED
      BY <1>1, <2>1, CallInv DEF memcpy, Upwards
  <1>2. ASSUME NEW d \in 0 .. Size, NEW s \in 0 .. Size, NEW n \in 0 .. Size, memmove(d, s, n)
        PROVE  Inv'
    <2>1. c' = c /\ c \in Int /\ n \in Nat
      BY <1>2, MemoryAssumption DEF memmove, Inv, TypeOK
    <2>2. CASE s > d
      BY <1>2, <2>1, <2>2, CallInv DEF memmove, Upwards, UpSafe
    <2>3. CASE ~(s > d)
      <3>1. s <= d /\ pc' = "down" /\ i' = (IF s = d THEN 0 ELSE n) /\ i' \in 0 .. n
        BY <1>2, <2>1, <2>3, MemoryAssumption DEF memmove, UpSafe
      <3>2. QED
        BY <1>2, <2>1, <3>1, CallInv DEF memmove
    <2>4. QED
      BY <2>2, <2>3
  <1>3. ASSUME NEW d \in 0 .. Size, NEW s \in 0 .. Size, NEW n \in 0 .. Size, memcmp(d, s, n)
        PROVE  Inv'
    <2>1. c' = c /\ c \in Int /\ n \in Nat
      BY <1>3, MemoryAssumption DEF memcmp, Inv, TypeOK
    <2>2. QED
      BY <1>3, <2>1, CallInv DEF memcmp, Upwards
  <1>4. ASSUME NEW d \in 0 .. Size, NEW n \in 0 .. Size, NEW v \in Fills, memset(d, v, n)
        PROVE  Inv'
    <2>1. c' \in Int /\ n \in Nat
      BY <1>4, MemoryAssumption DEF memset
    <2>2. QED
      BY <1>4, <2>1, CallInv DEF memset, Upwards
  <1>5. CASE Return
    BY <1>5, MemoryAssumption
    DEF Return, Inv, TypeOK, Running, CopyingUp, CopyingDown, Filling, Comparing, Copied,
        Filled, Compared, Fits
  <1>6. CASE UNCHANGED vars
    BY <1>6
    DEF vars, args, Inv, TypeOK, Running, CopyingUp, CopyingDown, Moved, Filling, Comparing,
        Same, Copied, Filled, Compared, Fits, Range, Addresses, Bytes
  <1>7. QED
    BY <1>1, <1>2, <1>3, <1>4, <1>5, <1>6, CopyUpInv, CopyDownInv, FillInv, CompareEqualInv,
       CompareDifferentInv, LoopEndsInv DEF Next, Body

THEOREM MemoryInvariant == Spec => []Inv
  BY InitInv, NextInv, PTL DEF Spec

(* No function reads or writes outside the ranges it was given, and every  *)
(* byte it stores is a byte.                                               *)
THEOREM MemoryTypeOK == Spec => []TypeOK
  <1>1. Inv => TypeOK
    BY DEF Inv
  <1>2. QED
    BY <1>1, MemoryInvariant, PTL

(* memcpy and memmove copy the bytes src held at the call, overlapping or  *)
(* not, and touch nothing else.                                            *)
THEOREM MemoryCopied == Spec => []Copied
  <1>1. Inv => Copied
    BY DEF Inv
  <1>2. QED
    BY <1>1, MemoryInvariant, PTL

(* memset fills its range and nothing else.                                *)
THEOREM MemoryFilled == Spec => []Filled
  <1>1. Inv => Filled
    BY DEF Inv
  <1>2. QED
    BY <1>1, MemoryInvariant, PTL

(* memcmp orders two ranges by their first difference.                     *)
THEOREM MemoryCompared == Spec => []Compared
  <1>1. Inv => Compared
    BY DEF Inv
  <1>2. QED
    BY <1>1, MemoryInvariant, PTL
=============================================================================
