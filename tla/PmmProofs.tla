----------------------------- MODULE PmmProofs -----------------------------
(***************************************************************************)
(* Proofs about the page allocator, for every memory map, page size, word  *)
(* size and length of the heap's bitmap.                                   *)
(***************************************************************************)
EXTENDS Pmm, TLAPS

-----------------------------------------------------------------------------
(* Division: memory is cut into pages, bytes and words *)

(* Rounding up never rounds below, and is the least quotient that does.    *)
LEMMA CeilBig ==
  ASSUME NEW n \in Nat, NEW B \in Nat \ {0}
  PROVE  /\ (n + B - 1) \div B \in Nat
         /\ ((n + B - 1) \div B) * B >= n
         /\ \A k \in Nat : k * B >= n => (n + B - 1) \div B <= k
  OBVIOUS

(* What lies in k units has a quotient below k.                            *)
LEMMA DivBound ==
  ASSUME NEW o \in Nat, NEW B \in Nat \ {0}, NEW k \in Nat, o < k * B
  PROVE  o \div B \in Nat /\ o \div B < k
  OBVIOUS

LEMMA ProductNat ==
  ASSUME NEW m \in Nat, NEW n \in Nat
  PROVE  m * n \in Nat
  OBVIOUS

LEMMA MulDiv ==
  ASSUME NEW k \in Nat, NEW W \in Nat \ {0}
  PROVE  (k * W) \div W = k
  OBVIOUS

(* Whole units add to a quotient.                                          *)
LEMMA DivAdd ==
  ASSUME NEW m \in Nat, NEW x \in Nat, NEW P \in Nat \ {0}
  PROVE  (m * P + x) \div P = m + x \div P
  OBVIOUS

LEMMA DivAddUnits ==
  ASSUME NEW m \in Nat, NEW j \in Nat, NEW P \in Nat \ {0}
  PROVE  (m * P + j * P) \div P = m + j
<1>1. m * P + j * P = (m + j) * P
  OBVIOUS
<1> QED
  BY <1>1, MulDiv

(* A number without a remainder is its quotient times the unit.            *)
LEMMA Aligned ==
  ASSUME NEW n \in Nat, NEW P \in Nat \ {0}, n % P = 0
  PROVE  n \div P \in Nat /\ n = (n \div P) * P
  OBVIOUS

LEMMA DivAddBase ==
  ASSUME NEW base \in Nat, NEW P \in Nat \ {0}, base % P = 0, NEW x \in Nat
  PROVE  (base + x) \div P = base \div P + x \div P
<1> DEFINE m == base \div P
<1>1. m \in Nat /\ base = m * P
  BY Aligned
<1> HIDE DEF m
<1>2. (m * P + x) \div P = m + x \div P
  BY <1>1, DivAdd
<1> QED
  BY <1>1, <1>2 DEF m

LEMMA MulLess ==
  ASSUME NEW a \in Nat, NEW b \in Nat, NEW Q \in Nat \ {0}
  PROVE  a < b <=> a * Q < b * Q
  OBVIOUS

LEMMA MulLessEq ==
  ASSUME NEW a \in Nat, NEW b \in Nat, NEW Q \in Nat \ {0}
  PROVE  a <= b <=> a * Q <= b * Q
  OBVIOUS

-----------------------------------------------------------------------------

(* What each boot step may rely on, and leaves to the next.                *)
Stage ==
  /\ map \in MemMaps
  /\ pc \in {"get_bitmap_length", "bitmap_pointer", "all_bitmap_1"} => locked = {}
  /\ pc # "get_bitmap_length" => bitmap_length # 0
  /\ pc \in {"get_bitmap_length", "bitmap_pointer"} => bitmap = NULL
  /\ bitmap = NULL =>
       pc \in {"get_bitmap_length", "bitmap_pointer", "all_bitmap_1", "fault"}
  /\ bitmap # NULL => bitmap % PAGE_SIZE = 0
  /\ pc = "set_useable_ram" => locked = Capacity
  /\ pc = "protect_bitmap_space" => locked = Capacity \ Usable
  /\ pc = "lock_page_0" => locked = (Capacity \ Usable) \cup BitmapPages
  /\ pc = "heap_bitmap_pointer" => locked = (Capacity \ Usable) \cup BitmapPages \cup {0}
  /\ pc \notin {"run", "fault"} => handed = <<>> /\ heap_bitmap = NULL /\ ret = 0

Inv ==
  /\ TypeOK
  /\ Stage
  /\ BitmapCoversRam
  /\ BitmapInRam
  /\ FreeExactly
  /\ PagesSound
  /\ NoDoubleHandOut

-----------------------------------------------------------------------------
(* Data *)

(* What a memory map is made of.                                           *)
LEMMA EntryTypes ==
  ASSUME NEW m \in MemMaps, NEW i \in DOMAIN m
  PROVE  /\ m[i].base \in Nat /\ m[i].length \in Nat \ {0} /\ m[i].usable \in BOOLEAN
         /\ m[i].usable => m[i].base % PAGE_SIZE = 0 /\ m[i].length % PAGE_SIZE = 0
         /\ DOMAIN m = 1 .. Len(m) /\ Len(m) \in Nat
<1>1. m \in Seq(Entry)
  BY PmmAssumption
<1>2. m[i] \in Entry /\ DOMAIN m = 1 .. Len(m) /\ Len(m) \in Nat
  BY <1>1
<1> QED
  BY <1>2, PmmAssumption DEF Entry

(* A word count that covers the last byte of memory covers every page of   *)
(* an entry that ends no later.                                            *)
LEMMA Covered ==
  ASSUME NEW b \in Nat, NEW len \in Nat \ {0}, NEW end \in Nat, b + len <= end,
         b % PAGE_SIZE = 0, len % PAGE_SIZE = 0
  PROVE  LET n == CeilDiv(CeilDiv(end, PAGE_SIZE), PAGE_TO_QWORD)
         IN  (b \div PAGE_SIZE) .. (b \div PAGE_SIZE + len \div PAGE_SIZE - 1)
               \subseteq 0 .. (n * PAGE_TO_QWORD - 1)
<1> DEFINE P == PAGE_SIZE
           W == PAGE_TO_QWORD
           c == (end + P - 1) \div P
           n == (c + W - 1) \div W
           x == b \div P
           y == len \div P
<1>1. P \in Nat \ {0} /\ W \in Nat \ {0}
  BY PmmAssumption
<1> HIDE DEF P, W
<1>2. x \in Nat /\ y \in Nat /\ b = x * P /\ len = y * P
  BY <1>1, Aligned DEF P
<1>3. c \in Nat /\ c * P >= end
  BY <1>1, CeilBig
<1> HIDE DEF c, x, y
<1>4. n \in Nat /\ n * W >= c
  BY <1>1, <1>3, CeilBig
<1> HIDE DEF n
<1>5. (x + y) * P = b + len
  BY <1>1, <1>2
<1>6. (x + y) * P <= c * P
  BY <1>1, <1>3, <1>5, ProductNat
<1>7. x + y <= c
  BY <1>1, <1>2, <1>3, <1>6, MulLessEq
<1>8. x .. (x + y - 1) \subseteq 0 .. (n * W - 1)
  BY <1>1, <1>2, <1>3, <1>4, <1>7, ProductNat
<1> QED
  BY <1>8 DEF n, c, x, y, P, W, CeilDiv

(* Rounding a positive size up leaves at least one unit.                   *)
LEMMA CeilPositive ==
  ASSUME NEW n \in Nat \ {0}, NEW d \in Nat \ {0}
  PROVE  CeilDiv(n, d) \in Nat \ {0}
<1>1. /\ (n + d - 1) \div d \in Nat
      /\ ((n + d - 1) \div d) * d >= n
  BY CeilBig
<1>2. (n + d - 1) \div d # 0
  BY <1>1
<1> QED
  BY <1>1, <1>2 DEF CeilDiv

(* A size that fits in whole pages takes no more pages, rounded up.        *)
LEMMA CeilFits ==
  ASSUME NEW n \in Nat, NEW len \in Nat, len % PAGE_SIZE = 0, len >= n
  PROVE  CeilDiv(n, PAGE_SIZE) \in Nat /\ CeilDiv(n, PAGE_SIZE) <= len \div PAGE_SIZE
<1>1. PAGE_SIZE \in Nat \ {0}
  BY PmmAssumption
<1>2. len \div PAGE_SIZE \in Nat /\ len = (len \div PAGE_SIZE) * PAGE_SIZE
  BY <1>1, Aligned
<1>3. CeilDiv(n, PAGE_SIZE) \in Nat /\ \A k \in Nat : k * PAGE_SIZE >= n => CeilDiv(n, PAGE_SIZE) <= k
  BY <1>1, CeilBig DEF CeilDiv
<1> QED
  BY <1>2, <1>3

(* The page of bit b of a bitmap at base, the bits of n words, and the     *)
(* pages n words need, rounded up.                                         *)
PageOfBit(base, b) == (base + (b \div PAGE_TO_QWORD) * QWORD_BYTES) \div PAGE_SIZE
BitsOf(n) == 0 .. (n * PAGE_TO_QWORD - 1)
PagesFor(base, n) ==
  (base \div PAGE_SIZE) ..
    (base \div PAGE_SIZE + (n * QWORD_BYTES + PAGE_SIZE - 1) \div PAGE_SIZE - 1)

(* Words laid out one after the other from the start of a page occupy the  *)
(* pages from that one on, as many as their bytes rounded up: every page   *)
(* of those holds a word, and no word is in another.                       *)
LEMMA WordPages ==
  ASSUME NEW base \in Nat, NEW n \in Nat, base % PAGE_SIZE = 0
  PROVE  /\ \A b \in BitsOf(n) : PageOfBit(base, b) \in PagesFor(base, n)
         /\ \A p \in PagesFor(base, n) : \E b \in BitsOf(n) : PageOfBit(base, b) = p
<1> DEFINE P == PAGE_SIZE
           W == PAGE_TO_QWORD
           Q == QWORD_BYTES
<1>0. P \in Nat \ {0} /\ W \in Nat \ {0} /\ Q \in Nat \ {0} /\ base % P = 0 /\ P = (P \div Q) * Q
  BY PmmAssumption
<1> DEFINE m == base \div P
           c == (n * Q + P - 1) \div P
           u == P \div Q
           PageOf(b) == (base + (b \div W) * Q) \div P
<1>1. m \in Nat /\ base = m * P
  BY <1>0, Aligned
<1>2. n * Q \in Nat /\ n * W \in Nat
  BY <1>0, ProductNat
<1>3. c \in Nat /\ c * P \in Nat /\ n * Q <= c * P /\ \A k \in Nat : k * P >= n * Q => c <= k
  BY <1>0, <1>2, CeilBig, ProductNat
<1>4. u \in Nat /\ P = u * Q
  BY <1>0, DivBound
<1> HIDE DEF m, c, u, P, W, Q
<1>5. ASSUME NEW b \in 0 .. (n * W - 1)
      PROVE  PageOf(b) \in m .. (m + c - 1)
  <2> DEFINE k == b \div W
  <2>1. b \in Nat /\ b < n * W
    BY <1>0, <1>2
  <2>2. k \in Nat /\ k < n
    BY <1>0, <2>1, DivBound
  <2> HIDE DEF k
  <2>3. k * Q \in Nat /\ k * Q < n * Q
    BY <1>0, <2>2, MulLess, ProductNat
  <2>4. k * Q < c * P
    BY <1>0, <2>3, <1>2, <1>3
  <2>5. (k * Q) \div P \in Nat /\ (k * Q) \div P < c
    BY <1>0, <2>3, <2>4, <1>3, DivBound
  <2>6. (base + k * Q) \div P = m + (k * Q) \div P
    BY <1>0, <2>3, DivAddBase DEF m
  <2> QED
    BY <1>0, <2>5, <2>6, <1>1, <1>3 DEF k
<1>6. ASSUME NEW p \in m .. (m + c - 1)
      PROVE  \E b \in 0 .. (n * W - 1) : PageOf(b) = p
  <2> DEFINE j == p - m
             k == j * u
             b == k * W
  <2>1. j \in Nat /\ j < c /\ p = m + j
    BY <1>0, <1>1, <1>3
  <2> HIDE DEF j
  <2>2. j * P \in Nat /\ j * P < n * Q
    BY <1>0, <2>1, <1>2, <1>3, ProductNat
  <2>3. k \in Nat /\ k * Q = j * P
    <3>1. k \in Nat
      BY <1>0, <2>1, <1>4, ProductNat
    <3>2. (j * u) * Q = j * (u * Q)
      BY <1>0, <2>1, <1>4
    <3> QED
      BY <1>0, <3>1, <3>2, <1>4
  <2> HIDE DEF k
  <2>4. k < n
    BY <1>0, <2>2, <2>3, MulLess
  <2>5. b \in Nat /\ b < n * W /\ b \div W = k
    BY <1>0, <2>3, <2>4, MulLess, MulDiv, ProductNat
  <2>6. (m * P + j * P) \div P = p
    BY <1>0, <1>1, <2>1, DivAddUnits
  <2>7. b \in 0 .. (n * W - 1)
    BY <1>0, <2>5, <1>2
  <2>8. PageOf(b) = p
    BY <1>0, <2>5, <2>3, <2>6, <1>1
  <2> QED
    BY <1>0, <2>7, <2>8
<1> QED
  BY <1>5, <1>6 DEF m, c, P, W, Q, PageOfBit, BitsOf, PagesFor

(* protect_bitmap_space locks exactly the pages the bitmap occupies, and  *)
(* would after any step.                                                   *)
LEMMA ProtectedExactly ==
  ASSUME bitmap \in Nat, bitmap % PAGE_SIZE = 0, bitmap_length \in Nat
  PROVE  BitmapPages = ProtectedPages
<1>1. BitmapPages = {PageOfBit(bitmap, b) : b \in BitsOf(bitmap_length)}
  BY DEF BitmapPages, BitAddress, Capacity, PageOfBit, BitsOf
<1>2. ProtectedPages = PagesFor(bitmap, bitmap_length)
  BY DEF ProtectedPages, PagesFor, PagesToLock, CeilDiv
<1> QED
  BY <1>1, <1>2, WordPages

LEMMA ProtectedExactlyNext ==
  ASSUME bitmap' \in Nat, bitmap' % PAGE_SIZE = 0, bitmap_length' \in Nat
  PROVE  BitmapPages' = ProtectedPages'
<1>1. BitmapPages' = {PageOfBit(bitmap', b) : b \in BitsOf(bitmap_length')}
  BY DEF BitmapPages, BitAddress, Capacity, PageOfBit, BitsOf
<1>2. ProtectedPages' = PagesFor(bitmap', bitmap_length')
  BY DEF ProtectedPages, PagesFor, PagesToLock, CeilDiv
<1> QED
  BY <1>1, <1>2, WordPages

(* Page 0 has a bit as soon as the bitmap has a word.                      *)
LEMMA ZeroInCapacity ==
  ASSUME bitmap_length \in Nat \ {0}
  PROVE  0 \in Capacity
<1>1. bitmap_length * PAGE_TO_QWORD > 0
  BY PmmAssumption, MulLess
<1> QED
  BY <1>1, PmmAssumption, ProductNat DEF Capacity

(* pmm_alloc2 looks at no bit past the bitmap's end.                       *)
LEMMA WindowInCapacity ==
  ASSUME bitmap_length \in Nat
  PROVE  Window \subseteq Capacity
<1> DEFINE W == PAGE_TO_QWORD
           w == bitmap_length \div W
<1>1. W \in Nat \ {0}
  BY PmmAssumption
<1>2. w \in Nat /\ w * W <= bitmap_length
  BY <1>1
<1> HIDE DEF w
<1>3. bitmap_length <= bitmap_length * W
  BY <1>1
<1>4. w * W \in Nat /\ bitmap_length * W \in Nat
  BY <1>1, <1>2, ProductNat
<1>5. 0 .. (w * W - 1) \subseteq 0 .. (bitmap_length * W - 1)
  BY <1>2, <1>3, <1>4
<1> QED
  BY <1>5 DEF w, Window, Capacity

-----------------------------------------------------------------------------
(* The steps *)

(* After get_bitmap_length and bitmap_pointer, nothing derived from the    *)
(* memory map, the bitmap's place and its length changes.                  *)
LEMMA Unmoved ==
  ASSUME UNCHANGED <<map, bitmap_length, bitmap>>
  PROVE  /\ Usable' = Usable /\ Capacity' = Capacity /\ BitmapPages' = BitmapPages
         /\ ProtectedPages' = ProtectedPages
BY DEF Usable, PagesOf, Capacity, BitmapPages, BitAddress, ProtectedPages, PagesToLock

(* While nothing has been handed out, the properties of what has are met.  *)
LEMMA NothingHanded ==
  ASSUME handed' = <<>>, pc' # "run"
  PROVE  FreeExactly' /\ PagesSound' /\ NoDoubleHandOut'
<1>1. DOMAIN handed' = {}
  OBVIOUS
<1>2. Taken' = {}
  BY <1>1 DEF Taken
<1> QED
  BY <1>1, <1>2 DEF FreeExactly, PagesSound, NoDoubleHandOut

LEMMA Page0IsZero == Page0 = {0}
BY DEF Page0

LEMMA InitInv == Init => Inv
<1> SUFFICES ASSUME Init PROVE Inv
  OBVIOUS
<1>1. TypeOK
  BY DEF Init, TypeOK, Steps
<1>2. Stage /\ BitmapCoversRam /\ BitmapInRam
  BY DEF Init, Stage, BitmapCoversRam, BitmapInRam
<1>3. Taken = {} /\ DOMAIN handed = {}
  BY DEF Init, Taken
<1>4. FreeExactly /\ PagesSound /\ NoDoubleHandOut
  BY <1>3 DEF Init, FreeExactly, PagesSound, NoDoubleHandOut
<1> QED
  BY <1>1, <1>2, <1>4 DEF Inv

LEMMA LengthInv ==
  ASSUME Inv, get_bitmap_length
  PROVE  Inv'
<1> USE DEF Inv, get_bitmap_length
<1>1. PICK last \in DOMAIN map :
        /\ \A i \in DOMAIN map : EntryEnd(i) <= EntryEnd(last)
        /\ bitmap_length' = CeilDiv(CeilDiv(EntryEnd(last), PAGE_SIZE), PAGE_TO_QWORD)
  OBVIOUS
<1>2. map \in MemMaps /\ EntryEnd(last) \in Nat \ {0}
  BY EntryTypes DEF Stage, EntryEnd
<1>3. bitmap_length' \in Nat \ {0}
  BY <1>1, <1>2, CeilPositive, PmmAssumption
<1>4. Usable \subseteq Capacity'
  <2> SUFFICES ASSUME NEW i \in DOMAIN map, map[i].usable
               PROVE  PagesOf(map[i]) \subseteq Capacity'
    BY DEF Usable
  <2>1. /\ map[i].base \in Nat /\ map[i].length \in Nat \ {0}
        /\ map[i].base % PAGE_SIZE = 0 /\ map[i].length % PAGE_SIZE = 0
        /\ map[i].base + map[i].length <= EntryEnd(last)
    BY <1>1, <1>2, EntryTypes DEF EntryEnd
  <2> QED
    BY <1>1, <1>2, <2>1, Covered DEF PagesOf, Capacity
<1>5. TypeOK'
  BY <1>3 DEF TypeOK, Stage, Steps
<1>6. BitmapCoversRam' /\ BitmapInRam'
  BY <1>4 DEF BitmapCoversRam, BitmapInRam, Stage, Usable, PagesOf
<1>7. Stage'
  BY <1>3 DEF Stage
<1>8. FreeExactly' /\ PagesSound' /\ NoDoubleHandOut'
  BY NothingHanded DEF Stage
<1> QED
  BY <1>5, <1>6, <1>7, <1>8

LEMMA PointerInv ==
  ASSUME Inv, bitmap_pointer
  PROVE  Inv'
<1> USE DEF Inv, bitmap_pointer
<1>1. /\ map \in MemMaps /\ map' = map /\ locked = {} /\ locked' = {}
      /\ bitmap_length \in Nat \ {0} /\ bitmap_length' = bitmap_length
  BY DEF Stage, TypeOK
<1>2. bitmap' # NULL =>
        /\ bitmap' \in Nat /\ bitmap' % PAGE_SIZE = 0
        /\ BitmapPages' \subseteq Usable
  <2> SUFFICES ASSUME NEW i \in DOMAIN map, Holds(i), bitmap' = map[i].base
               PROVE  /\ bitmap' \in Nat /\ bitmap' % PAGE_SIZE = 0
                      /\ BitmapPages' \subseteq Usable
    OBVIOUS
  <2> DEFINE bytes == bitmap_length * QWORD_BYTES
  <2>1. /\ map[i].base \in Nat /\ map[i].length \in Nat /\ map[i].usable
        /\ map[i].base % PAGE_SIZE = 0 /\ map[i].length % PAGE_SIZE = 0
    BY <1>1, EntryTypes DEF Holds
  <2>2. bytes \in Nat /\ map[i].length >= bytes
    BY <1>1, PmmAssumption, ProductNat DEF Holds
  <2>3. CeilDiv(bytes, PAGE_SIZE) \in Nat /\ CeilDiv(bytes, PAGE_SIZE) <= map[i].length \div PAGE_SIZE
    BY <2>1, <2>2, CeilFits
  <2> DEFINE c == CeilDiv(bytes, PAGE_SIZE)
             m == map[i].base \div PAGE_SIZE
             y == map[i].length \div PAGE_SIZE
  <2>4. m \in Nat /\ y \in Nat
    BY <2>1, PmmAssumption, Aligned
  <2>5. ProtectedPages' = m .. (m + c - 1)
    BY <1>1 DEF ProtectedPages, PagesToLock, CeilDiv
  <2>6. PagesOf(map[i]) = m .. (m + y - 1)
    BY DEF PagesOf
  <2>7. c \in Nat /\ c <= y
    BY <2>3
  <2> HIDE DEF c, m, y
  <2>8. ProtectedPages' \subseteq PagesOf(map[i])
    BY <2>4, <2>5, <2>6, <2>7
  <2>9. PagesOf(map[i]) \subseteq Usable
    BY <2>1 DEF Usable
  <2>10. BitmapPages' = ProtectedPages'
    BY <1>1, <2>1, ProtectedExactlyNext
  <2> QED
    BY <2>1, <2>8, <2>9, <2>10
<1>3. Usable' = Usable /\ Capacity' = Capacity
  BY DEF Usable, PagesOf, Capacity
<1>4. TypeOK'
  BY <1>1, <1>2, <1>3 DEF TypeOK, Steps
<1>5. BitmapCoversRam' /\ BitmapInRam'
  <2>1. CASE bitmap' # NULL
    BY <1>2, <1>3, <2>1 DEF BitmapCoversRam, BitmapInRam
  <2>2. CASE bitmap' = NULL
    <3>1. \A i \in DOMAIN map : ~Holds(i)
      BY <1>1, <2>2, EntryTypes, PmmAssumption DEF Holds
    <3>2. \A i \in DOMAIN map :
            map[i].usable => map[i].length < bitmap_length * QWORD_BYTES
      BY <1>1, <3>1, EntryTypes, PmmAssumption, ProductNat DEF Holds
    <3> QED
      BY <1>1, <1>3, <2>2, <3>2 DEF BitmapCoversRam, BitmapInRam
  <2> QED
    BY <2>1, <2>2
<1>6. Stage'
  BY <1>1, <1>2 DEF Stage
<1>7. FreeExactly' /\ PagesSound' /\ NoDoubleHandOut'
  BY NothingHanded DEF Stage
<1> QED
  BY <1>4, <1>5, <1>6, <1>7

(* The four steps that write the bitmap before anything is handed out.     *)
LEMMA FillInv ==
  ASSUME Inv, all_bitmap_1 \/ set_useable_ram \/ protect_bitmap_space \/ lock_page_0
  PROVE  Inv'
<1> USE DEF Inv
<1>1. /\ UNCHANGED <<map, bitmap_length, bitmap, heap_bitmap, handed, ret>>
      /\ pc \in {"all_bitmap_1", "set_useable_ram", "protect_bitmap_space", "lock_page_0"}
      /\ pc' \in Steps \ {"run", "get_bitmap_length", "bitmap_pointer"}
  BY DEF all_bitmap_1, set_useable_ram, protect_bitmap_space, lock_page_0, Steps
<1>2. /\ Usable' = Usable /\ Capacity' = Capacity /\ BitmapPages' = BitmapPages
  BY <1>1, Unmoved
<1>3. Usable \subseteq Capacity /\ 0 \in Capacity
  BY <1>1, ZeroInCapacity DEF BitmapCoversRam, Stage, TypeOK
<1>4. bitmap # NULL => BitmapPages = ProtectedPages /\ BitmapPages \subseteq Usable
  BY ProtectedExactly DEF BitmapInRam, Stage, TypeOK
<1>5. Stage' /\ locked' \subseteq Capacity /\ BitmapInRam'
  <2> USE DEF BitmapInRam
  <2>1. CASE all_bitmap_1
    BY <1>1, <1>2, <2>1 DEF all_bitmap_1, Stage, TypeOK
  <2>2. CASE set_useable_ram
    BY <1>1, <1>2, <2>2 DEF set_useable_ram, Stage, TypeOK
  <2>3. CASE protect_bitmap_space
    BY <1>1, <1>2, <1>3, <1>4, <2>3 DEF protect_bitmap_space, Stage, TypeOK
  <2>4. CASE lock_page_0
    BY <1>1, <1>2, <1>3, <2>4, Page0IsZero DEF lock_page_0, Stage, TypeOK
  <2> QED
    BY <2>1, <2>2, <2>3, <2>4
<1>6. TypeOK'
  BY <1>1, <1>2, <1>5 DEF TypeOK
<1>7. BitmapCoversRam'
  BY <1>1, <1>2, <1>3 DEF BitmapCoversRam
<1>8. FreeExactly' /\ PagesSound' /\ NoDoubleHandOut'
  BY <1>1, NothingHanded DEF Stage
<1> QED
  BY <1>5, <1>6, <1>7, <1>8

(* Handing out the page pmm_alloc2 finds keeps the books.                  *)
LEMMA HandOut ==
  ASSUME TypeOK, NEW p \in Window, Takes(p), handed' = Append(handed, p),
         Capacity \ locked = Usable \ (BitmapPages \cup {0} \cup Taken),
         \A q \in Taken : q \in Usable /\ q \notin BitmapPages /\ q # 0,
         \A j, k \in DOMAIN handed : j # k => handed[j] # handed[k]
  PROVE  /\ Capacity \ Lock(p) = Usable \ (BitmapPages \cup {0} \cup Taken')
         /\ \A q \in Taken' : q \in Usable /\ q \notin BitmapPages /\ q # 0
         /\ \A j, k \in DOMAIN handed' : j # k => handed'[j] # handed'[k]
<1>1. p \in Capacity \ locked
  BY WindowInCapacity DEF Takes, FreeInWindow, TypeOK
<1>2. p \in Usable /\ p \notin BitmapPages /\ p # 0 /\ p \notin Taken
  BY <1>1
<1>3. handed \in Seq(Capacity)
  BY DEF TypeOK
<1>4. /\ DOMAIN handed = 1 .. Len(handed) /\ Len(handed) \in Nat
      /\ DOMAIN handed' = 1 .. (Len(handed) + 1)
      /\ handed'[Len(handed) + 1] = p
      /\ \A k \in DOMAIN handed : handed'[k] = handed[k]
  BY <1>1, <1>3
<1>5. Taken' = Taken \cup {p}
  BY <1>4 DEF Taken
<1>6. \A j, k \in DOMAIN handed' : j # k => handed'[j] # handed'[k]
  <2>1. \A k \in DOMAIN handed : handed[k] # p
    BY <1>2 DEF Taken
  <2>2. \A k \in DOMAIN handed' : k \in DOMAIN handed \/ k = Len(handed) + 1
    BY <1>4
  <2> QED
    BY <1>4, <2>1, <2>2
<1> QED
  BY <1>1, <1>2, <1>5, <1>6 DEF Lock

LEMMA HeapBitmapInv ==
  ASSUME Inv, heap_bitmap_pointer
  PROVE  Inv'
<1> USE DEF Inv, heap_bitmap_pointer
<1>1. /\ UNCHANGED <<map, bitmap_length, bitmap>> /\ heap_bitmap' # NULL
      /\ pc' \in {"run", "fault"}
      /\ handed = <<>> /\ locked = (Capacity \ Usable) \cup BitmapPages \cup {0}
      /\ bitmap # NULL /\ bitmap_length # 0
  BY PmmAssumption DEF Stage, Window, TypeOK, Memset
<1>2. Usable' = Usable /\ Capacity' = Capacity /\ BitmapPages' = BitmapPages
  BY <1>1, Unmoved
<1>3. Usable \subseteq Capacity
  BY <1>1 DEF BitmapCoversRam
<1>4. DOMAIN handed = {} /\ Taken = {}
  BY <1>1 DEF Taken
<1>5. Capacity \ locked = Usable \ (BitmapPages \cup {0} \cup Taken)
  BY <1>1, <1>3, <1>4
<1>6. TypeOK' /\ (Intact' => FreeExactly' /\ PagesSound' /\ NoDoubleHandOut')
  <2>1. ASSUME NEW p \in Window, Takes(p),
               Memset(p, Lock(p)), handed' = Append(handed, p),
               heap_bitmap' = p, ret' = p
        PROVE  TypeOK' /\ (Intact' => FreeExactly' /\ PagesSound' /\ NoDoubleHandOut')
    <3>1. p \in Capacity /\ p \in Nat
      BY <2>1, WindowInCapacity DEF TypeOK, Capacity
    <3>2. TypeOK'
      <4>1. locked' \subseteq Capacity
        BY <2>1, <3>1 DEF TypeOK, Lock, Memset
      <4>2. handed' \in Seq(Capacity)
        BY <2>1, <3>1 DEF TypeOK
      <4> QED
        BY <1>1, <1>2, <2>1, <3>1, <4>1, <4>2 DEF TypeOK, Steps
    <3>3. Intact' => locked' = Lock(p)
      <4>1. Cleared(heap_bitmap)' = Cleared(p)
        BY <1>1, <1>2, <2>1 DEF Cleared, BitAddress
      <4>2. Intact' => Cleared(p) = {}
        BY <1>1, <4>1 DEF Intact
      <4>3. Cleared(p) = {} => locked' = Lock(p)
        <5>1. ASSUME NEW q PROVE ClearedBefore(p, q) \subseteq Cleared(p)
          BY DEF ClearedBefore
        <5> QED
          BY <2>1, <5>1 DEF Memset
      <4> QED
        BY <4>2, <4>3
    <3>4. /\ Capacity \ Lock(p) = Usable \ (BitmapPages \cup {0} \cup Taken')
          /\ \A q \in Taken' : q \in Usable /\ q \notin BitmapPages /\ q # 0
          /\ \A j, k \in DOMAIN handed' : j # k => handed'[j] # handed'[k]
      BY <1>4, <1>5, <2>1, HandOut
    <3> QED
      BY <1>2, <3>2, <3>3, <3>4 DEF FreeExactly, PagesSound, NoDoubleHandOut
  <2>2. ASSUME Memset(0, locked), heap_bitmap' = 0, ret' = 0, handed' = handed
        PROVE  TypeOK' /\ (Intact' => FreeExactly' /\ PagesSound' /\ NoDoubleHandOut')
    <3>1. TypeOK'
      BY <1>1, <1>2, <2>2 DEF TypeOK, Steps, Memset
    <3>2. Intact' => locked' = locked
      <4>1. Cleared(heap_bitmap)' = Cleared(0)
        BY <1>1, <1>2, <2>2 DEF Cleared, BitAddress
      <4> QED
        BY <1>1, <2>2, <4>1 DEF Intact, Memset, ClearedBefore
    <3>3. Taken' = {} /\ DOMAIN handed' = {}
      BY <1>4, <2>2 DEF Taken
    <3> QED
      BY <1>2, <1>4, <1>5, <3>1, <3>2, <3>3 DEF FreeExactly, PagesSound, NoDoubleHandOut
  <2> QED
    BY <2>1, <2>2
<1>7. FreeExactly' /\ PagesSound' /\ NoDoubleHandOut'
  BY <1>6 DEF FreeExactly, PagesSound, NoDoubleHandOut
<1>8. BitmapCoversRam' /\ BitmapInRam'
  BY <1>1, <1>2, <1>3 DEF BitmapCoversRam, BitmapInRam
<1>9. Stage'
  BY <1>1 DEF Stage
<1> QED
  BY <1>6, <1>7, <1>8, <1>9

LEMMA AllocInv ==
  ASSUME Inv, pmm_alloc2
  PROVE  Inv'
<1> USE DEF Inv, pmm_alloc2
<1>1. /\ UNCHANGED <<map, bitmap_length, bitmap, heap_bitmap>> /\ pc = "run" /\ pc' = "run"
  OBVIOUS
<1>2. Usable' = Usable /\ Capacity' = Capacity /\ BitmapPages' = BitmapPages
  BY <1>1, Unmoved
<1>3. Intact' <=> Intact
  BY <1>1, <1>2 DEF Intact, Cleared, BitAddress
<1>4. TypeOK' /\ FreeExactly' /\ PagesSound' /\ NoDoubleHandOut'
  <2>1. ASSUME NEW p \in Window, Takes(p), locked' = Lock(p),
               handed' = Append(handed, p), ret' = p
        PROVE  TypeOK' /\ FreeExactly' /\ PagesSound' /\ NoDoubleHandOut'
    <3>1. p \in Capacity
      BY <2>1, WindowInCapacity DEF TypeOK
    <3>2. handed' \in Seq(Capacity) /\ locked' \subseteq Capacity
      BY <2>1, <3>1 DEF TypeOK, Lock
    <3>3. TypeOK'
      BY <1>1, <1>2, <2>1, <3>1, <3>2 DEF TypeOK
    <3>4. Intact =>
            /\ Capacity \ Lock(p) = Usable \ (BitmapPages \cup {0} \cup Taken')
            /\ \A q \in Taken' : q \in Usable /\ q \notin BitmapPages /\ q # 0
            /\ \A j, k \in DOMAIN handed' : j # k => handed'[j] # handed'[k]
      BY <1>1, <2>1, HandOut DEF FreeExactly, PagesSound, NoDoubleHandOut
    <3> QED
      BY <1>2, <1>3, <2>1, <3>3, <3>4 DEF FreeExactly, PagesSound, NoDoubleHandOut
  <2>2. ASSUME ret' = 0, UNCHANGED <<locked, handed>>
        PROVE  TypeOK' /\ FreeExactly' /\ PagesSound' /\ NoDoubleHandOut'
    <3>1. Taken' = Taken
      BY <2>2 DEF Taken
    <3> QED
      BY <1>1, <1>2, <1>3, <2>2, <3>1 DEF TypeOK, FreeExactly, PagesSound, NoDoubleHandOut
  <2> QED
    BY <2>1, <2>2
<1>5. BitmapCoversRam' /\ BitmapInRam'
  BY <1>1, <1>2 DEF BitmapCoversRam, BitmapInRam
<1>6. Stage'
  BY <1>1 DEF Stage
<1> QED
  BY <1>4, <1>5, <1>6

LEMMA StutterInv ==
  ASSUME Inv, UNCHANGED vars
  PROVE  Inv'
<1> USE DEF Inv, vars
<1>1. Usable' = Usable /\ Capacity' = Capacity /\ BitmapPages' = BitmapPages
  BY Unmoved
<1>2. (Intact' <=> Intact) /\ Taken' = Taken
  BY <1>1 DEF Intact, Cleared, BitAddress, Taken
<1> QED
  BY <1>1, <1>2
     DEF TypeOK, Stage, BitmapCoversRam, BitmapInRam, FreeExactly, PagesSound, NoDoubleHandOut

LEMMA NextInv ==
  ASSUME Inv, [Next]_vars
  PROVE  Inv'
<1>1. CASE Boot
  BY <1>1, LengthInv, PointerInv, FillInv, HeapBitmapInv DEF Boot
<1>2. CASE pmm_alloc2
  BY <1>2, AllocInv
<1>3. CASE UNCHANGED vars
  BY <1>3, StutterInv
<1> QED
  BY <1>1, <1>2, <1>3 DEF Next, Halted

-----------------------------------------------------------------------------
(* The theorems *)

(* The inductive invariant holds throughout: the base of all that follows. *)
THEOREM PmmInvariant == Spec => []Inv
<1>1. Init => Inv
  BY InitInv
<1>2. Inv /\ [Next]_vars => Inv'
  BY NextInv
<1> QED
  BY <1>1, <1>2, PTL DEF Spec

(* The allocator keeps within its bitmap: every bit it sets, and every page*)
(* it answers, is one the bitmap has.                                      *)
THEOREM PmmTypeOK == Spec => []TypeOK
<1>1. Inv => TypeOK
  BY DEF Inv
<1> QED
  BY <1>1, PmmInvariant, PTL

(* get_bitmap_length's two roundings leave no usable page without a bit.   *)
THEOREM PmmCoversRam == Spec => []BitmapCoversRam
<1>1. Inv => BitmapCoversRam
  BY DEF Inv
<1> QED
  BY <1>1, PmmInvariant, PTL

(* bitmap_pointer never places the bitmap over memory that is not usable,  *)
(* and leaves it NULL only when no usable entry holds it.                  *)
THEOREM PmmBitmapInRam == Spec => []BitmapInRam
<1>1. Inv => BitmapInRam
  BY DEF Inv
<1> QED
  BY <1>1, PmmInvariant, PTL

(* After boot the free bits are exactly the usable pages nobody holds.     *)
THEOREM PmmFreeExactly == Spec => []FreeExactly
<1>1. Inv => FreeExactly
  BY DEF Inv
<1> QED
  BY <1>1, PmmInvariant, PTL

(* No page of firmware, of the bitmap, and no page 0, is ever handed out.  *)
THEOREM PmmPagesSound == Spec => []PagesSound
<1>1. Inv => PagesSound
  BY DEF Inv
<1> QED
  BY <1>1, PmmInvariant, PTL

(* pmm_alloc2 never answers the same page to two callers.                  *)
THEOREM PmmNoDoubleHandOut == Spec => []NoDoubleHandOut
<1>1. Inv => NoDoubleHandOut
  BY DEF Inv
<1> QED
  BY <1>1, PmmInvariant, PTL
=============================================================================
