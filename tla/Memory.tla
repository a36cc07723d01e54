------------------------------- MODULE Memory -------------------------------
(***************************************************************************)
(* memcpy, memset, memmove and memcmp of src/common.c, one byte per step.  *)
(*                                                                         *)
(* A caller passes ranges that lie in memory, and memcpy's are declared    *)
(* restrict: they do not overlap.  memmove's may; it copies upwards or     *)
(* downwards, by comparing the two pointers.                               *)
(***************************************************************************)
EXTENDS Integers

CONSTANTS
  Size,              (* bytes of memory                                    *)
  BYTE,              (* values of a byte (256)                             *)
  Fills              (* ints a caller passes to memset                     *)

ASSUME MemoryAssumption ==
  /\ Size \in Nat
  /\ BYTE \in Nat \ {0}
  /\ Fills \subseteq Int

VARIABLES
  mem,
  before,            (* what mem held when the function was called         *)
  fn,                (* the function being run                             *)
  pc,                (* "idle", a loop going "up" or "down", or "done"     *)
  dest, src, c, len, (* arguments: memset has no src, memcmp's s1 is dest  *)
  i,
  ret                (* what it returns: dest, or memcmp's int             *)

args == <<fn, dest, src, c, len>>
vars == <<mem, before, args, pc, i, ret>>

Addresses == 0 .. (Size - 1)
Bytes == 0 .. (BYTE - 1)

Range(a, n) == a .. (a + n - 1)
Fits(a, n) == a \in 0 .. Size /\ n \in 0 .. Size /\ a + n <= Size

Init ==
  /\ mem \in [Addresses -> Bytes]
  /\ before = mem
  /\ fn = "none" /\ pc = "idle"
  /\ dest = 0 /\ src = 0 /\ c = 0 /\ len = 0 /\ i = 0 /\ ret = 0

-----------------------------------------------------------------------------
(* The calls *)

Call(f, d, s, n) ==
  /\ pc = "idle"
  /\ Fits(d, n) /\ Fits(s, n)
  /\ fn' = f /\ dest' = d /\ src' = s /\ len' = n
  /\ before' = mem
  /\ UNCHANGED <<mem, ret>>

Upwards == pc' = "up" /\ i' = 0

memcpy(d, s, n) ==
  /\ Call("memcpy", d, s, n) /\ UNCHANGED c
  /\ Range(d, n) \cap Range(s, n) = {}
  /\ Upwards

memset(d, v, n) ==
  Call("memset", d, d, n) /\ c' = v /\ Upwards

(* An overlapping range that begins before its copy is copied from its end. *)
UpSafeAlways(d, s) == TRUE
UpSafe(d, s) == s > d

memmove(d, s, n) ==
  /\ Call("memmove", d, s, n) /\ UNCHANGED c
  /\ \/ UpSafe(d, s) /\ Upwards
     \/ ~UpSafe(d, s) /\ pc' = "down" /\ i' = IF s = d THEN 0 ELSE n

memcmp(d, s, n) ==
  Call("memcmp", d, s, n) /\ UNCHANGED c /\ Upwards

-----------------------------------------------------------------------------
(* The loops *)

MoreOneLess == IF pc = "up" THEN i < len - 1 ELSE i > 0
More == IF pc = "up" THEN i < len ELSE i > 0

Up == pc = "up" /\ More
Down == pc = "down" /\ More

NextStuck == i
NextUp == i + 1

CopyUp ==
  /\ Up /\ fn \in {"memcpy", "memmove"}
  /\ mem' = [mem EXCEPT ![dest + i] = mem[src + i]]
  /\ i' = NextUp
  /\ UNCHANGED <<before, args, pc, ret>>

CopyDown ==
  /\ Down
  /\ mem' = [mem EXCEPT ![dest + i - 1] = mem[src + i - 1]]
  /\ i' = i - 1
  /\ UNCHANGED <<before, args, pc, ret>>

(* An int is converted to a byte modulo 256.                               *)
ToByte(v) == v % BYTE

Fill ==
  /\ Up /\ fn = "memset"
  /\ mem' = [mem EXCEPT ![dest + i] = ToByte(c)]
  /\ i' = NextUp
  /\ UNCHANGED <<before, args, pc, ret>>

CompareEqual ==
  /\ Up /\ fn = "memcmp" /\ mem[dest + i] = mem[src + i]
  /\ i' = NextUp
  /\ UNCHANGED <<mem, before, args, pc, ret>>

OrderSwapped(a, b) == IF a < b THEN 1 ELSE -1
Order(a, b) == IF a < b THEN -1 ELSE 1

CompareDifferent ==
  /\ Up /\ fn = "memcmp" /\ mem[dest + i] # mem[src + i]
  /\ ret' = Order(mem[dest + i], mem[src + i])
  /\ pc' = "done"
  /\ UNCHANGED <<mem, before, args, i>>

LoopEnds ==
  /\ pc \in {"up", "down"} /\ ~More
  /\ ret' = IF fn = "memcmp" THEN 0 ELSE dest
  /\ pc' = "done"
  /\ UNCHANGED <<mem, before, args, i>>

Return ==
  /\ pc = "done"
  /\ before' = mem
  /\ fn' = "none" /\ pc' = "idle"
  /\ dest' = 0 /\ src' = 0 /\ c' = 0 /\ len' = 0 /\ i' = 0 /\ ret' = 0
  /\ UNCHANGED mem

Body == CopyUp \/ CopyDown \/ Fill \/ CompareEqual \/ CompareDifferent \/ LoopEnds

Next ==
  \/ \E d, s, n \in 0 .. Size : memcpy(d, s, n) \/ memmove(d, s, n) \/ memcmp(d, s, n)
  \/ \E d, n \in 0 .. Size, v \in Fills : memset(d, v, n)
  \/ Body
  \/ Return

Spec == Init /\ [][Next]_vars

(* A function that runs gets on; nobody has to call one.                   *)
FairSpec == Spec /\ WF_vars(Body)

-----------------------------------------------------------------------------
(* Properties *)

TypeOK ==
  /\ mem \in [Addresses -> Bytes] /\ before \in [Addresses -> Bytes]
  /\ fn \in {"none", "memcpy", "memset", "memmove", "memcmp"}
  /\ pc \in {"idle", "up", "down", "done"}
  /\ Fits(dest, len) /\ Fits(src, len)
  /\ c \in Int
  /\ i \in 0 .. len
  /\ ret \in Int

(* memcpy and memmove leave in dest what src held before the call, and all *)
(* other bytes as they were, though the loop may overwrite bytes of src    *)
(* that it has yet to read.                                                *)
Copied ==
  pc = "done" /\ fn \in {"memcpy", "memmove"} =>
    mem = [a \in Addresses |-> IF a \in Range(dest, len) THEN before[src + (a - dest)]
                                                         ELSE before[a]]

(* memset fills its range and nothing else, up to the last byte.           *)
Filled ==
  pc = "done" /\ fn = "memset" =>
    mem = [a \in Addresses |-> IF a \in Range(dest, len) THEN c % BYTE ELSE before[a]]

(* memcmp orders two ranges by the first byte in which they differ.        *)
Same(n) == \A k \in 0 .. (n - 1) : before[dest + k] = before[src + k]
Compared ==
  pc = "done" /\ fn = "memcmp" =>
    /\ mem = before
    /\ ret = 0 <=> Same(len)
    /\ \A k \in 0 .. (len - 1) :
         Same(k) => /\ before[dest + k] < before[src + k] => ret < 0
                    /\ before[dest + k] > before[src + k] => ret > 0

(* Each function returns.                                                  *)
Returns == pc \in {"up", "down"} ~> pc = "done"
=============================================================================
