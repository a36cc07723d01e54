---------------------------- MODULE PagingProofs ----------------------------
(***************************************************************************)
(* What holds of vmm_alloc for any number of levels, any tables the boot   *)
(* loader may hand over, and any pages mapped in any order, with the       *)
(* processor walking the tables at any moment, as long as pages last.      *)
(***************************************************************************)
EXTENDS Paging, FiniteSetTheorems, TLAPS

FramesIn(m) == {t[1] : t \in TablesIn(m)}

LargeLast(m) ==
  \A v \in Virtuals, l \in 0 .. Levels - 1 :
    WalkIn(m, v)[l] # NULL /\ WalkIn(m, v)[l].large => l = Levels - 1

(* Two walks that pass a table have come to it at the same level, by the   *)
(* same indexes.                                                           *)
OneWay(m) ==
  \A v, w \in Virtuals, k, l \in 0 .. Levels - 1 :
    IsTable(WalkIn(m, v)[k]) /\ IsTable(WalkIn(m, w)[l])
      /\ WalkIn(m, v)[k].frame = WalkIn(m, w)[l].frame
    => k = l /\ \A j \in 1 .. k : v[j] = w[j]

Fit(m) == m \in Memories /\ LargeLast(m) /\ OneWay(m)

(* The frames that are tables now or may become tables.                    *)
Own == FramesIn(mem) \cup pool \cup (IF pc = "link" THEN {new_table} ELSE {})

Tidy ==
  /\ Fit(mem)
  /\ Own \subseteq Frames \ Mmio
  /\ FramesIn(mem) \cap pool = {}
  /\ \A v \in Pages :
       /\ TranslationIn(mem, v) \in Frames \cup {NULL}
       /\ TranslationIn(mem, v) \in Own => DirectMap[TranslationIn(mem, v)] = v
       /\ WalkIn(mem, v)[Levels - 1] # NULL /\ WalkIn(mem, v)[Levels - 1].large =>
            \E f \in Frames \ Mmio : DirectMap[f] = v

InReach == ~astray => \A f \in Own \cup {BitmapFrame} : TranslationIn(mem, DirectMap[f]) = f

(* The page asked for, and where the walk for it is.                       *)
Calling ==
  /\ pc # "idle" =>
       virt \in window \cup {DirectMap[f] : f \in Mmio} /\ phys \in Frames \ Own
  /\ pc \in {"walk", "link"} /\ ~astray =>
       level \in 1 .. Levels /\ table \in Frames /\ WalkIn(mem, virt)[level - 1] = Small(table)
  /\ pc = "link" =>
       /\ ~astray /\ level < Levels
       /\ new_table \in Frames \ (FramesIn(mem) \cup pool)
       /\ mem[new_table] = Empty /\ mem[table][virt[level]] = NULL

Inv == TypeOK /\ Tidy /\ InReach /\ Calling /\ TlbCoherent /\ DirectMapKept

IInv == ~exhausted => Inv
-----------------------------------------------------------------------------
(* Induction, without the theorem that takes an operator: a set of levels  *)
(* that has 0 and each next level has them all, or the next level would be *)
(* a one-to-one function from the levels below n into fewer.               *)

LEMMA UpTo ==
  ASSUME NEW n \in Nat, NEW S, 0 \in S, \A k \in 0 .. n - 1 : k \in S => k + 1 \in S
  PROVE  n \in S
<1> SUFFICES ASSUME n \notin S PROVE FALSE
  OBVIOUS
<1> DEFINE T == {k \in 0 .. n - 1 : k \in S}
           next == [k \in T |-> k + 1]
<1>1. IsFiniteSet(T)
  <2>1. IsFiniteSet(0 .. n - 1)
    BY FS_Interval
  <2>2. T \in SUBSET (0 .. n - 1)
    OBVIOUS
  <2> HIDE DEF T
  <2>3. QED
    BY <2>1, <2>2, FS_Subset
<1>2. 0 \in T
  OBVIOUS
<1>3. IsFiniteSet(T \ {0}) /\ Cardinality(T \ {0}) < Cardinality(T)
  <2> HIDE DEF T
  <2>1. IsFiniteSet(T \ {0}) /\ Cardinality(T \ {0}) = Cardinality(T) - 1
    BY <1>1, <1>2, FS_RemoveElement
  <2>2. Cardinality(T) \in Nat
    BY <1>1, FS_CardinalityType
  <2>3. QED
    BY <2>1, <2>2
<1>4. next \in [T -> T \ {0}]
  <2>1. \A k \in T : k + 1 \in T \ {0}
    OBVIOUS
  <2>2. QED
    BY <2>1
<1>5. \A x, y \in T : next[x] = next[y] => x = y
  OBVIOUS
<1> HIDE DEF T, next
<1>6. \E x, y \in T : x # y /\ next[x] = next[y]
  BY <1>1, <1>3, <1>4, FS_PigeonHole
<1>7. QED
  BY <1>5, <1>6

LEMMA AllUpTo ==
  ASSUME NEW n \in Nat, NEW S, 0 \in S, \A k \in 0 .. n - 1 : k \in S => k + 1 \in S
  PROVE  \A l \in 0 .. n : l \in S
<1>1. TAKE l \in 0 .. n
<1>2. l \in Nat /\ \A k \in 0 .. l - 1 : k \in S => k + 1 \in S
  OBVIOUS
<1>3. QED
  BY <1>2, UpTo
-----------------------------------------------------------------------------
(* Walks *)

LEMMA LevelsNat == Levels \in Nat \ {0}
  BY PagingAssumption

LEMMA SmallEntry ==
  ASSUME NEW f \in Frames
  PROVE  /\ Small(f) \in Entries /\ Small(f) # NULL /\ IsTable(Small(f))
         /\ ~Small(f).large /\ Small(f).frame = f
<1>1. Small(f) \in Entries
  BY DEF Small, Entries
<1>2. Small(f) # NULL
  BY <1>1, PagingAssumption
<1>3. ~Small(f).large /\ Small(f).frame = f
  BY DEF Small
<1>4. QED
  BY <1>1, <1>2, <1>3 DEF IsTable

LEMMA RootEntry == Root \in Frames
  BY PagingAssumption

(* The recursive function of a walk exists, so it is what its equation     *)
(* says.                                                                   *)
LEMMA WalkIs ==
  ASSUME NEW m, NEW v
  PROVE  /\ WalkIn(m, v)[0] = Small(Root)
         /\ \A l \in 1 .. Levels : WalkIn(m, v)[l] = EntryOf(m, WalkIn(m, v)[l - 1], v[l])
<1> USE LevelsNat
<1> HIDE DEF Small, EntryOf
<1> DEFINE Good(k, w) ==
             w = [l \in 0 .. k |-> IF l = 0 THEN Small(Root) ELSE EntryOf(m, w[l - 1], v[l])]
           S == {k \in 0 .. Levels : \E w : Good(k, w)}
<1>1. 0 \in S
  <2>1. Good(0, [l \in 0 .. 0 |-> Small(Root)])
    OBVIOUS
  <2>2. \E w : Good(0, w)
    <3> HIDE DEF Good
    <3>1. QED
      BY <2>1
  <2> HIDE DEF Good
  <2>3. QED
    BY <2>2
<1>2. ASSUME NEW k \in 0 .. Levels - 1, k \in S PROVE k + 1 \in S
  <2>1. PICK w : Good(k, w)
    BY <1>2
  <2> DEFINE u == [l \in 0 .. k + 1 |-> IF l = 0 THEN Small(Root) ELSE EntryOf(m, w[l - 1], v[l])]
  <2>2. \A l \in 0 .. k : w[l] = IF l = 0 THEN Small(Root) ELSE EntryOf(m, w[l - 1], v[l])
    BY <2>1
  <2>3. \A l \in 0 .. k : w[l] = u[l]
    BY <2>2
  <2>4. u = [l \in 0 .. k + 1 |-> IF l = 0 THEN Small(Root) ELSE EntryOf(m, u[l - 1], v[l])]
    <3>1. \A l \in 0 .. k + 1 : l # 0 => l - 1 \in 0 .. k
      OBVIOUS
    <3>2. \A l \in 0 .. k + 1 : l # 0 => u[l - 1] = w[l - 1]
      <4> HIDE DEF u
      <4>1. QED
        BY <3>1, <2>3
    <3>3. QED
      BY <3>2, Zenon
  <2>5. \E x : Good(k + 1, x)
    <3> HIDE DEF u
    <3>1. QED
      BY <2>4
  <2> HIDE DEF Good
  <2>6. QED
    BY <2>5
<1>3. Levels \in S
  <2> HIDE DEF S
  <2>1. QED
    BY <1>1, <1>2, UpTo
<1>4. PICK u : u = [l \in 0 .. Levels |-> IF l = 0 THEN Small(Root) ELSE EntryOf(m, u[l - 1], v[l])]
  BY <1>3
<1> DEFINE walked == WalkIn(m, v)
<1>5. walked = [l \in 0 .. Levels |-> IF l = 0 THEN Small(Root) ELSE EntryOf(m, walked[l - 1], v[l])]
  BY <1>4 DEF WalkIn
<1> HIDE DEF walked
<1>6. walked[0] = Small(Root) /\ \A l \in 1 .. Levels : walked[l] = EntryOf(m, walked[l - 1], v[l])
  BY <1>5
<1>7. QED
  BY <1>6 DEF walked

(* Where an entry is not present, the walk ends.                           *)
LEMMA NullStays ==
  ASSUME NEW m, NEW v, NEW k \in 0 .. Levels, WalkIn(m, v)[k] = NULL, NEW l \in k .. Levels
  PROVE  WalkIn(m, v)[l] = NULL
<1> USE LevelsNat
<1> DEFINE S == {d \in 0 .. Levels - k : WalkIn(m, v)[k + d] = NULL}
<1>1. 0 \in S /\ Levels - k \in Nat
  OBVIOUS
<1>2. ASSUME NEW d \in 0 .. (Levels - k) - 1, d \in S PROVE d + 1 \in S
  <2>1. k + (d + 1) \in 1 .. Levels /\ (k + (d + 1)) - 1 = k + d /\ d + 1 \in 0 .. Levels - k
    OBVIOUS
  <2>2. WalkIn(m, v)[k + (d + 1)] = EntryOf(m, WalkIn(m, v)[k + d], v[k + (d + 1)])
    BY <2>1, WalkIs
  <2>3. WalkIn(m, v)[k + (d + 1)] = NULL
    BY <1>2, <2>2 DEF EntryOf
  <2>4. QED
    BY <2>1, <2>3
<1>3. l - k \in 0 .. Levels - k /\ k + (l - k) = l
  OBVIOUS
<1>4. l - k \in S
  <2> HIDE DEF S
  <2>1. QED
    BY <1>1, <1>2, <1>3, AllUpTo
<1>5. QED
  BY <1>3, <1>4

(* A walk comes to a table through tables.                                 *)
LEMMA TablesAbove ==
  ASSUME NEW m, LargeLast(m), NEW v \in Virtuals, NEW l \in 0 .. Levels - 1,
         IsTable(WalkIn(m, v)[l]), NEW k \in 0 .. l
  PROVE  IsTable(WalkIn(m, v)[k])
<1> USE LevelsNat
<1>1. k \in 0 .. Levels /\ l \in k .. Levels /\ k \in 0 .. Levels - 1
  OBVIOUS
<1>2. WalkIn(m, v)[k] # NULL
  BY <1>1, NullStays DEF IsTable
<1>3. WalkIn(m, v)[k].large => k = l
  BY <1>1, <1>2 DEF LargeLast
<1>4. QED
  BY <1>2, <1>3 DEF IsTable

LEMMA WalkType ==
  ASSUME NEW m \in Memories, LargeLast(m), NEW v \in Virtuals
  PROVE  \A l \in 0 .. Levels - 1 : WalkIn(m, v)[l] \in Entries \cup {NULL}
<1> USE LevelsNat
<1> DEFINE S == {l \in 0 .. Levels - 1 : WalkIn(m, v)[l] \in Entries \cup {NULL}}
<1>1. 0 \in S
  <2>1. Small(Root) \in Entries
    BY RootEntry, SmallEntry
  <2>2. QED
    BY <2>1, WalkIs
<1>2. ASSUME NEW k \in 0 .. (Levels - 1) - 1, k \in S PROVE k + 1 \in S
  <2> DEFINE e == WalkIn(m, v)[k]
  <2>1. k + 1 \in 1 .. Levels /\ (k + 1) - 1 = k /\ k + 1 \in 0 .. Levels - 1 /\ k \in 0 .. Levels - 1
    OBVIOUS
  <2>2. WalkIn(m, v)[k + 1] = EntryOf(m, e, v[k + 1])
    BY <2>1, WalkIs
  <2>3. e \in Entries \cup {NULL}
    BY <1>2
  <2>4. e # NULL => ~e.large
    BY <2>1 DEF LargeLast
  <2>5. v[k + 1] \in Idx
    BY <2>1 DEF Virtuals
  <2> HIDE DEF e
  <2>6. EntryOf(m, e, v[k + 1]) \in Entries \cup {NULL}
    <3>1. CASE e = NULL
      BY <3>1 DEF EntryOf
    <3>2. CASE e # NULL
      <4>1. e.frame \in Frames
        BY <2>3, <3>2 DEF Entries
      <4>2. m[e.frame] \in [Idx -> Entries \cup {NULL}]
        BY <4>1 DEF Memories
      <4>3. m[e.frame][v[k + 1]] \in Entries \cup {NULL}
        BY <2>5, <4>2
      <4>4. QED
        BY <2>4, <3>2, <4>3 DEF EntryOf
    <3>3. QED
      BY <3>1, <3>2
  <2>7. QED
    BY <2>1, <2>2, <2>6
<1>3. QED
  <2>1. Levels - 1 \in Nat
    OBVIOUS
  <2>2. \A l \in 0 .. Levels - 1 : l \in S
    <3> HIDE DEF S
    <3>1. QED
      BY <1>1, <1>2, <2>1, AllUpTo
  <2>3. QED
    BY <2>2

LEMMA TableEntry ==
  ASSUME NEW m \in Memories, LargeLast(m), NEW v \in Virtuals, NEW l \in 0 .. Levels - 1,
         IsTable(WalkIn(m, v)[l])
  PROVE  /\ WalkIn(m, v)[l].frame \in Frames
         /\ WalkIn(m, v)[l] = Small(WalkIn(m, v)[l].frame)
<1>1. WalkIn(m, v)[l] \in Entries
  BY WalkType DEF IsTable
<1>2. QED
  BY <1>1 DEF IsTable, Entries, Small

(* Memories that differ in slots only that a walk does not pass are the    *)
(* same to it.                                                             *)
LEMMA SameWalk ==
  ASSUME NEW m \in Memories, NEW n \in Memories, LargeLast(m), NEW v \in Virtuals,
         NEW D, \A f \in Frames, x \in Idx : <<f, x>> \notin D => n[f][x] = m[f][x],
         NEW l \in 0 .. Levels,
         \A k \in 0 .. l - 1 :
           IsTable(WalkIn(m, v)[k]) => <<WalkIn(m, v)[k].frame, v[k + 1]>> \notin D
  PROVE  \A j \in 0 .. l : WalkIn(n, v)[j] = WalkIn(m, v)[j]
<1> USE LevelsNat
<1> DEFINE S == {j \in 0 .. l : WalkIn(n, v)[j] = WalkIn(m, v)[j]}
<1>1. 0 \in S /\ l \in Nat
  BY WalkIs
<1>2. ASSUME NEW k \in 0 .. l - 1, k \in S PROVE k + 1 \in S
  <2> DEFINE e == WalkIn(m, v)[k]
  <2>1. k + 1 \in 1 .. Levels /\ (k + 1) - 1 = k /\ k + 1 \in 0 .. l /\ k \in 0 .. Levels - 1
    OBVIOUS
  <2>2. WalkIn(m, v)[k + 1] = EntryOf(m, e, v[k + 1])
    BY <2>1, WalkIs
  <2>3. WalkIn(n, v)[k + 1] = EntryOf(n, e, v[k + 1])
    BY <1>2, <2>1, WalkIs
  <2>4. v[k + 1] \in Idx
    BY <2>1 DEF Virtuals
  <2>5. IsTable(e) => e.frame \in Frames /\ <<e.frame, v[k + 1]>> \notin D
    BY <2>1, TableEntry
  <2> HIDE DEF e
  <2>6. IsTable(e) => n[e.frame][v[k + 1]] = m[e.frame][v[k + 1]]
    BY <2>4, <2>5
  <2>7. EntryOf(n, e, v[k + 1]) = EntryOf(m, e, v[k + 1])
    BY <2>6 DEF EntryOf, IsTable
  <2>8. QED
    BY <2>1, <2>2, <2>3, <2>7
<1>3. \A j \in 0 .. l : j \in S
  <2> HIDE DEF S
  <2>1. QED
    BY <1>1, <1>2, AllUpTo
<1>4. QED
  BY <1>3
-----------------------------------------------------------------------------
(* Tables *)

LEMMA TableAt ==
  ASSUME NEW m, NEW t
  PROVE  t \in TablesIn(m) <=>
           \E v \in Virtuals, l \in 0 .. Levels - 1 :
             IsTable(WalkIn(m, v)[l]) /\ t = <<WalkIn(m, v)[l].frame, Prefix(v, l)>>
  BY DEF TablesIn

LEMMA FrameAt ==
  ASSUME NEW m, NEW f
  PROVE  f \in FramesIn(m) <=>
           \E v \in Virtuals, l \in 0 .. Levels - 1 :
             IsTable(WalkIn(m, v)[l]) /\ f = WalkIn(m, v)[l].frame
<1>1. ASSUME f \in FramesIn(m)
      PROVE  \E v \in Virtuals, l \in 0 .. Levels - 1 :
               IsTable(WalkIn(m, v)[l]) /\ f = WalkIn(m, v)[l].frame
  <2>1. PICK t \in TablesIn(m) : f = t[1]
    BY <1>1 DEF FramesIn
  <2>2. QED
    BY <2>1, TableAt
<1>2. ASSUME NEW v \in Virtuals, NEW l \in 0 .. Levels - 1,
             IsTable(WalkIn(m, v)[l]), f = WalkIn(m, v)[l].frame
      PROVE  f \in FramesIn(m)
  <2>1. <<f, Prefix(v, l)>> \in TablesIn(m)
    BY <1>2, TableAt
  <2>2. QED
    BY <2>1 DEF FramesIn
<1>3. QED
  BY <1>1, <1>2

LEMMA SamePrefix ==
  ASSUME NEW v, NEW w, NEW k \in Nat, NEW l \in Nat
  PROVE  Prefix(v, k) = Prefix(w, l) <=> k = l /\ \A j \in 1 .. k : v[j] = w[j]
<1>1. ASSUME Prefix(v, k) = Prefix(w, l) PROVE k = l /\ \A j \in 1 .. k : v[j] = w[j]
  <2>1. DOMAIN Prefix(v, k) = 1 .. k /\ DOMAIN Prefix(w, l) = 1 .. l
    BY DEF Prefix
  <2>2. 1 .. k = 1 .. l
    BY <1>1, <2>1
  <2>3. k = l
    BY <2>2
  <2>4. \A j \in 1 .. k : Prefix(v, k)[j] = v[j] /\ Prefix(w, l)[j] = w[j]
    BY <2>3 DEF Prefix
  <2>5. QED
    BY <1>1, <2>3, <2>4
<1>2. ASSUME k = l, \A j \in 1 .. k : v[j] = w[j] PROVE Prefix(v, k) = Prefix(w, l)
  BY <1>2 DEF Prefix
<1>3. QED
  BY <1>1, <1>2

LEMMA OneWayTree ==
  ASSUME NEW m
  PROVE  OneWay(m) <=> \A s, t \in TablesIn(m) : s[1] = t[1] => s = t
<1> USE LevelsNat
<1>1. ASSUME OneWay(m), NEW s \in TablesIn(m), NEW t \in TablesIn(m), s[1] = t[1] PROVE s = t
  <2>1. PICK v \in Virtuals, k \in 0 .. Levels - 1 :
          IsTable(WalkIn(m, v)[k]) /\ s = <<WalkIn(m, v)[k].frame, Prefix(v, k)>>
    BY TableAt
  <2>2. PICK w \in Virtuals, l \in 0 .. Levels - 1 :
          IsTable(WalkIn(m, w)[l]) /\ t = <<WalkIn(m, w)[l].frame, Prefix(w, l)>>
    BY TableAt
  <2>3. WalkIn(m, v)[k].frame = WalkIn(m, w)[l].frame
    BY <1>1, <2>1, <2>2
  <2>4. k = l /\ \A j \in 1 .. k : v[j] = w[j]
    BY <1>1, <2>1, <2>2, <2>3 DEF OneWay
  <2>5. Prefix(v, k) = Prefix(w, l)
    BY <2>4, SamePrefix
  <2>6. QED
    BY <2>1, <2>2, <2>3, <2>5
<1>2. ASSUME \A s, t \in TablesIn(m) : s[1] = t[1] => s = t PROVE OneWay(m)
  <2>1. SUFFICES ASSUME NEW v \in Virtuals, NEW w \in Virtuals,
                        NEW k \in 0 .. Levels - 1, NEW l \in 0 .. Levels - 1,
                        IsTable(WalkIn(m, v)[k]), IsTable(WalkIn(m, w)[l]),
                        WalkIn(m, v)[k].frame = WalkIn(m, w)[l].frame
                 PROVE  k = l /\ \A j \in 1 .. k : v[j] = w[j]
    BY DEF OneWay
  <2> DEFINE s == <<WalkIn(m, v)[k].frame, Prefix(v, k)>>
             t == <<WalkIn(m, w)[l].frame, Prefix(w, l)>>
  <2>2. s \in TablesIn(m) /\ t \in TablesIn(m)
    BY <2>1, TableAt
  <2>3. s = t
    BY <1>2, <2>1, <2>2
  <2>4. Prefix(v, k) = Prefix(w, l)
    BY <2>3
  <2>5. QED
    BY <2>4, SamePrefix
<1>3. QED
  BY <1>1, <1>2
-----------------------------------------------------------------------------
(* Writes *)

(* One frame, and one slot, of a memory changed.                           *)
LEMMA FrameWritten ==
  ASSUME NEW m \in Memories, NEW f \in Frames, NEW c \in [Idx -> Entries \cup {NULL}]
  PROVE  /\ [m EXCEPT ![f] = c] \in Memories /\ [m EXCEPT ![f] = c][f] = c
         /\ \A g \in Frames \ {f} : [m EXCEPT ![f] = c][g] = m[g]
  BY DEF Memories

LEMMA SlotWritten ==
  ASSUME NEW m \in Memories, NEW t \in Frames, NEW x \in Idx, NEW e \in Entries
  PROVE  LET n == [m EXCEPT ![t][x] = e]
         IN  /\ n \in Memories /\ n[t][x] = e
             /\ \A f \in Frames, y \in Idx : <<f, y>> # <<t, x>> => n[f][y] = m[f][y]
             /\ \A f \in Frames \ {t} : n[f] = m[f]
<1> DEFINE c == [m[t] EXCEPT ![x] = e]
           n == [m EXCEPT ![t] = c]
<1>1. m[t] \in [Idx -> Entries \cup {NULL}]
  BY DEF Memories
<1>2. c \in [Idx -> Entries \cup {NULL}] /\ c[x] = e /\ \A y \in Idx \ {x} : c[y] = m[t][y]
  BY <1>1
<1> HIDE DEF c
<1>3. n \in Memories /\ n[t] = c /\ \A f \in Frames \ {t} : n[f] = m[f]
  BY <1>2, FrameWritten
<1>4. n = [m EXCEPT ![t][x] = e]
  BY DEF c
<1> HIDE DEF n
<1>5. n[t][x] = e /\ \A f \in Frames, y \in Idx : <<f, y>> # <<t, x>> => n[f][y] = m[f][y]
  BY <1>2, <1>3
<1>6. QED
  BY <1>3, <1>4, <1>5

(* Clearing a frame that is no table changes no walk.                      *)
LEMMA Cleared ==
  ASSUME NEW m, Fit(m), NEW f \in Frames \ FramesIn(m),
         NEW n \in Memories, \A g \in Frames \ {f} : n[g] = m[g]
  PROVE  /\ Fit(n) /\ FramesIn(n) = FramesIn(m)
         /\ \A v \in Virtuals, l \in 0 .. Levels : WalkIn(n, v)[l] = WalkIn(m, v)[l]
<1> USE LevelsNat
<1>1. m \in Memories /\ LargeLast(m) /\ OneWay(m)
  BY DEF Fit
<1>2. ASSUME NEW v \in Virtuals PROVE \A l \in 0 .. Levels : WalkIn(n, v)[l] = WalkIn(m, v)[l]
  <2> DEFINE D == {f} \X Idx
  <2>1. \A g \in Frames, x \in Idx : <<g, x>> \notin D => n[g][x] = m[g][x]
    OBVIOUS
  <2>2. \A k \in 0 .. Levels - 1 :
          IsTable(WalkIn(m, v)[k]) => <<WalkIn(m, v)[k].frame, v[k + 1]>> \notin D
    BY FrameAt
  <2>3. Levels \in 0 .. Levels
    OBVIOUS
  <2> HIDE DEF D
  <2>4. QED
    BY <1>1, <2>1, <2>2, <2>3, SameWalk
<1>3. \A v \in Virtuals, l \in 0 .. Levels - 1 : WalkIn(n, v)[l] = WalkIn(m, v)[l]
  BY <1>2
<1>4. LargeLast(n) /\ OneWay(n)
  BY <1>1, <1>3 DEF LargeLast, OneWay
<1>5. \A g : g \in FramesIn(n) <=> g \in FramesIn(m)
  BY <1>3, FrameAt
<1>6. FramesIn(n) = FramesIn(m)
  BY <1>5 DEF FramesIn
<1>7. QED
  BY <1>2, <1>4, <1>6 DEF Fit

(* A slot written in a table at level d changes the walks that pass it,    *)
(* below that table, and no others.                                        *)
Passes(m, v, w, d) == WalkIn(m, w)[d] = WalkIn(m, v)[d] /\ w[d + 1] = v[d + 1]

LEMMA Slotted ==
  ASSUME NEW m, Fit(m), NEW v \in Virtuals, NEW d \in 0 .. Levels - 1, NEW t \in Frames,
         WalkIn(m, v)[d] = Small(t), NEW e,
         NEW n \in Memories, n[t][v[d + 1]] = e,
         \A f \in Frames, y \in Idx : <<f, y>> # <<t, v[d + 1]>> => n[f][y] = m[f][y]
  PROVE  \A w \in Virtuals :
           /\ \A l \in 0 .. Levels :
                l <= d \/ ~Passes(m, v, w, d) => WalkIn(n, w)[l] = WalkIn(m, w)[l]
           /\ Passes(m, v, w, d) =>
                WalkIn(n, w)[d + 1] = e /\ \A j \in 1 .. d + 1 : w[j] = v[j]
<1> USE LevelsNat
<1> DEFINE x == v[d + 1]
           D == {<<t, x>>}
<1>1. m \in Memories /\ LargeLast(m) /\ OneWay(m)
  BY DEF Fit
<1>2. d + 1 \in 1 .. Levels /\ (d + 1) - 1 = d
  OBVIOUS
<1>3. \A f \in Frames, y \in Idx : <<f, y>> \notin D => n[f][y] = m[f][y]
  OBVIOUS
<1>4. n[t][x] = e
  OBVIOUS
<1> HIDE DEF x
<1>5. Small(t) # NULL /\ ~Small(t).large /\ Small(t).frame = t /\ IsTable(Small(t))
  BY SmallEntry
<1>6. ASSUME NEW w \in Virtuals, NEW k \in 0 .. Levels - 1,
             IsTable(WalkIn(m, w)[k]), <<WalkIn(m, w)[k].frame, w[k + 1]>> \in D
      PROVE  k = d /\ Passes(m, v, w, d)
  <2>1. WalkIn(m, w)[k].frame = t /\ w[k + 1] = x
    BY <1>6
  <2>2. k = d
    BY <1>1, <1>5, <1>6, <2>1 DEF OneWay
  <2>3. WalkIn(m, w)[k] = Small(t)
    BY <1>1, <1>6, <2>1, TableEntry
  <2>4. QED
    BY <2>1, <2>2, <2>3 DEF Passes, x
<1>7. ASSUME NEW w \in Virtuals, NEW l \in 0 .. Levels, l <= d \/ ~Passes(m, v, w, d)
      PROVE  WalkIn(n, w)[l] = WalkIn(m, w)[l]
  <2>1. \A k \in 0 .. l - 1 :
          IsTable(WalkIn(m, w)[k]) => <<WalkIn(m, w)[k].frame, w[k + 1]>> \notin D
    BY <1>6, <1>7
  <2>2. l \in 0 .. l
    OBVIOUS
  <2> HIDE DEF D
  <2>3. QED
    BY <1>1, <1>3, <2>1, <2>2, SameWalk
<1>8. ASSUME NEW w \in Virtuals, Passes(m, v, w, d)
      PROVE  WalkIn(n, w)[d + 1] = e /\ \A j \in 1 .. d + 1 : w[j] = v[j]
  <2>1. WalkIn(m, w)[d] = Small(t) /\ w[d + 1] = x
    BY <1>8 DEF Passes, x
  <2>2. d \in 0 .. Levels /\ d <= d
    OBVIOUS
  <2>3. WalkIn(n, w)[d] = Small(t)
    BY <1>7, <2>1, <2>2
  <2>4. WalkIn(n, w)[d + 1] = EntryOf(n, Small(t), x)
    BY <1>2, <2>1, <2>3, WalkIs
  <2>5. WalkIn(n, w)[d + 1] = e
    BY <1>4, <1>5, <2>4 DEF EntryOf
  <2>6. \A j \in 1 .. d : w[j] = v[j]
    BY <1>1, <1>5, <2>1 DEF OneWay
  <2>7. QED
    BY <2>1, <2>5, <2>6 DEF x
<1>9. QED
  BY <1>7, <1>8

(* An empty table linked in an empty slot changes no translation.          *)
LEMMA Linked ==
  ASSUME NEW m, Fit(m), NEW v \in Virtuals, NEW d \in 0 .. Levels - 2, NEW t \in Frames,
         WalkIn(m, v)[d] = Small(t), m[t][v[d + 1]] = NULL,
         NEW f \in Frames \ FramesIn(m), m[f] = Empty,
         NEW n \in Memories, n[t][v[d + 1]] = Small(f),
         \A g \in Frames, y \in Idx : <<g, y>> # <<t, v[d + 1]>> => n[g][y] = m[g][y]
  PROVE  /\ Fit(n) /\ FramesIn(n) \subseteq FramesIn(m) \cup {f}
         /\ \A w \in Virtuals : WalkIn(n, w)[Levels] = WalkIn(m, w)[Levels]
         /\ \A w \in Virtuals, l \in 0 .. Levels - 1 :
              WalkIn(n, w)[l] = WalkIn(m, w)[l] \/ WalkIn(n, w)[l] = Small(f)
         /\ \A l \in 0 .. d : WalkIn(n, v)[l] = WalkIn(m, v)[l]
<1> USE LevelsNat
<1>1. m \in Memories /\ LargeLast(m) /\ OneWay(m)
  BY DEF Fit
<1>2. d \in 0 .. Levels - 1 /\ d + 1 \in 0 .. Levels - 1 /\ d + 1 \in 1 .. Levels /\ (d + 1) - 1 = d
      /\ d + 2 \in 1 .. Levels /\ (d + 2) - 1 = d + 1
  OBVIOUS
<1>3. /\ Small(t) # NULL /\ ~Small(t).large /\ Small(t).frame = t /\ IsTable(Small(t))
      /\ Small(f) # NULL /\ ~Small(f).large /\ Small(f).frame = f /\ IsTable(Small(f))
  BY SmallEntry
<1>4. t # f
  BY <1>2, <1>3, FrameAt
<1>5. \A y \in Idx : n[f][y] = NULL
  BY <1>4 DEF Empty
<1>6. \A w \in Virtuals :
        /\ \A l \in 0 .. Levels :
             l <= d \/ ~Passes(m, v, w, d) => WalkIn(n, w)[l] = WalkIn(m, w)[l]
        /\ Passes(m, v, w, d) =>
             WalkIn(n, w)[d + 1] = Small(f) /\ \A j \in 1 .. d + 1 : w[j] = v[j]
  BY <1>2, Slotted
<1>7. ASSUME NEW w \in Virtuals, Passes(m, v, w, d)
      PROVE  /\ WalkIn(m, w)[d + 1] = NULL
             /\ \A l \in d + 2 .. Levels : WalkIn(m, w)[l] = NULL /\ WalkIn(n, w)[l] = NULL
  <2>1. WalkIn(m, w)[d + 1] = EntryOf(m, Small(t), v[d + 1])
    BY <1>2, <1>7, WalkIs DEF Passes
  <2>2. WalkIn(m, w)[d + 1] = NULL
    BY <1>3, <2>1 DEF EntryOf
  <2>3. WalkIn(n, w)[d + 2] = EntryOf(n, Small(f), w[d + 2])
    BY <1>2, <1>6, <1>7, WalkIs
  <2>4. w[d + 2] \in Idx
    BY <1>2 DEF Virtuals
  <2>5. WalkIn(n, w)[d + 2] = NULL
    BY <1>3, <1>5, <2>3, <2>4 DEF EntryOf
  <2>6. d + 1 \in 0 .. Levels /\ d + 2 \in 0 .. Levels
    BY <1>2
  <2>7. ASSUME NEW l \in d + 2 .. Levels
        PROVE  WalkIn(m, w)[l] = NULL /\ WalkIn(n, w)[l] = NULL
    <3>1. l \in d + 1 .. Levels
      BY <1>2
    <3>2. QED
      BY <2>2, <2>5, <2>6, <3>1, NullStays
  <2>8. QED
    BY <2>2, <2>7
<1>8. ASSUME NEW w \in Virtuals, NEW l \in 0 .. Levels
      PROVE  \/ WalkIn(n, w)[l] = WalkIn(m, w)[l]
             \/ /\ l = d + 1 /\ WalkIn(n, w)[l] = Small(f)
                /\ \A j \in 1 .. d + 1 : w[j] = v[j]
  <2>1. CASE l <= d \/ ~Passes(m, v, w, d)
    BY <1>6, <2>1
  <2>2. CASE Passes(m, v, w, d) /\ l = d + 1
    BY <1>6, <2>2
  <2>3. CASE Passes(m, v, w, d) /\ l \in d + 2 .. Levels
    BY <1>7, <2>3
  <2>4. l <= d \/ l = d + 1 \/ l \in d + 2 .. Levels
    BY <1>2
  <2>5. QED
    BY <2>1, <2>2, <2>3, <2>4
<1>9. \A w \in Virtuals, l \in 0 .. Levels - 1 :
        \/ WalkIn(n, w)[l] = WalkIn(m, w)[l]
        \/ /\ l = d + 1 /\ WalkIn(n, w)[l] = Small(f)
           /\ \A j \in 1 .. d + 1 : w[j] = v[j]
  BY <1>8
<1>10. \A w \in Virtuals, l \in 0 .. Levels - 1 : IsTable(WalkIn(m, w)[l]) => WalkIn(m, w)[l].frame # f
  BY FrameAt
<1>11. LargeLast(n)
  BY <1>1, <1>3, <1>9 DEF LargeLast
<1>12. OneWay(n)
  <2>1. SUFFICES ASSUME NEW u \in Virtuals, NEW w \in Virtuals,
                        NEW k \in 0 .. Levels - 1, NEW l \in 0 .. Levels - 1,
                        IsTable(WalkIn(n, u)[k]), IsTable(WalkIn(n, w)[l]),
                        WalkIn(n, u)[k].frame = WalkIn(n, w)[l].frame
                 PROVE  k = l /\ \A j \in 1 .. k : u[j] = w[j]
    BY DEF OneWay
  <2>2. CASE WalkIn(n, u)[k] = WalkIn(m, u)[k] /\ WalkIn(n, w)[l] = WalkIn(m, w)[l]
    BY <1>1, <2>1, <2>2 DEF OneWay
  <2>3. CASE WalkIn(n, u)[k] # WalkIn(m, u)[k] /\ WalkIn(n, w)[l] = WalkIn(m, w)[l]
    BY <1>3, <1>9, <1>10, <2>1, <2>3
  <2>4. CASE WalkIn(n, u)[k] = WalkIn(m, u)[k] /\ WalkIn(n, w)[l] # WalkIn(m, w)[l]
    BY <1>3, <1>9, <1>10, <2>1, <2>4
  <2>5. CASE WalkIn(n, u)[k] # WalkIn(m, u)[k] /\ WalkIn(n, w)[l] # WalkIn(m, w)[l]
    BY <1>9, <2>5
  <2>6. QED
    BY <2>2, <2>3, <2>4, <2>5
<1>13. FramesIn(n) \subseteq FramesIn(m) \cup {f}
  <2>1. SUFFICES ASSUME NEW g \in FramesIn(n) PROVE g \in FramesIn(m) \/ g = f
    OBVIOUS
  <2>2. PICK w \in Virtuals, l \in 0 .. Levels - 1 :
          IsTable(WalkIn(n, w)[l]) /\ g = WalkIn(n, w)[l].frame
    BY FrameAt
  <2>3. CASE WalkIn(n, w)[l] = WalkIn(m, w)[l]
    BY <2>2, <2>3, FrameAt
  <2>4. CASE WalkIn(n, w)[l] = Small(f)
    BY <1>3, <2>2, <2>4
  <2>5. QED
    BY <1>9, <2>3, <2>4
<1>14. \A w \in Virtuals : WalkIn(n, w)[Levels] = WalkIn(m, w)[Levels]
  <2>1. Levels \in 0 .. Levels /\ Levels # d + 1
    BY <1>2
  <2>2. QED
    BY <1>8, <2>1
<1>15. \A l \in 0 .. d : WalkIn(n, v)[l] = WalkIn(m, v)[l]
  BY <1>6, <1>2
<1>16. QED
  BY <1>9, <1>11, <1>12, <1>13, <1>14, <1>15 DEF Fit

(* The last entry written changes one translation.                         *)
LEMMA Mapped ==
  ASSUME NEW m, Fit(m), NEW v \in Virtuals, NEW t \in Frames,
         WalkIn(m, v)[Levels - 1] = Small(t), NEW f \in Frames,
         NEW n \in Memories, n[t][v[Levels]] = Small(f),
         \A g \in Frames, y \in Idx : <<g, y>> # <<t, v[Levels]>> => n[g][y] = m[g][y]
  PROVE  /\ Fit(n) /\ FramesIn(n) = FramesIn(m)
         /\ \A w \in Virtuals, l \in 0 .. Levels - 1 : WalkIn(n, w)[l] = WalkIn(m, w)[l]
         /\ \A w \in Virtuals \ {v} : WalkIn(n, w)[Levels] = WalkIn(m, w)[Levels]
         /\ WalkIn(n, v)[Levels] = Small(f)
<1> USE LevelsNat
<1> DEFINE d == Levels - 1
<1>1. m \in Memories /\ LargeLast(m) /\ OneWay(m)
  BY DEF Fit
<1>2. d \in 0 .. Levels - 1 /\ d + 1 = Levels
  OBVIOUS
<1>3. /\ WalkIn(m, v)[d] = Small(t) /\ n[t][v[d + 1]] = Small(f)
      /\ \A g \in Frames, y \in Idx : <<g, y>> # <<t, v[d + 1]>> => n[g][y] = m[g][y]
  BY <1>2
<1> HIDE DEF d
<1>4. \A w \in Virtuals :
        /\ \A l \in 0 .. Levels :
             l <= d \/ ~Passes(m, v, w, d) => WalkIn(n, w)[l] = WalkIn(m, w)[l]
        /\ Passes(m, v, w, d) =>
             WalkIn(n, w)[d + 1] = Small(f) /\ \A j \in 1 .. d + 1 : w[j] = v[j]
  BY <1>2, <1>3, Slotted
<1>5. \A l \in 0 .. Levels - 1 : l <= d /\ l \in 0 .. Levels
  BY DEF d
<1>6. \A w \in Virtuals, l \in 0 .. Levels - 1 : WalkIn(n, w)[l] = WalkIn(m, w)[l]
  BY <1>4, <1>5
<1>7. ASSUME NEW w \in Virtuals \ {v} PROVE ~Passes(m, v, w, d)
  <2>1. SUFFICES ASSUME Passes(m, v, w, d) PROVE w = v
    OBVIOUS
  <2>2. \A j \in 1 .. Levels : w[j] = v[j]
    BY <1>2, <1>4, <2>1
  <2>3. QED
    BY <2>2 DEF Virtuals
<1>8. Levels \in 0 .. Levels
  OBVIOUS
<1>9. \A w \in Virtuals \ {v} : WalkIn(n, w)[Levels] = WalkIn(m, w)[Levels]
  BY <1>4, <1>7, <1>8
<1>10. WalkIn(n, v)[Levels] = Small(f)
  BY <1>2, <1>4 DEF Passes
<1>11. LargeLast(n) /\ OneWay(n)
  BY <1>1, <1>6 DEF LargeLast, OneWay
<1>12. \A g : g \in FramesIn(n) <=> g \in FramesIn(m)
  BY <1>6, FrameAt
<1>13. FramesIn(n) = FramesIn(m)
  BY <1>12 DEF FramesIn
<1>14. QED
  BY <1>6, <1>9, <1>10, <1>11, <1>13 DEF Fit
-----------------------------------------------------------------------------
(* What a state gives                                                      *)

LEMMA FramesOf == TableFrames = FramesIn(mem)
  BY DEF TableFrames, Tables, FramesIn

LEMMA MapsFacts ==
  /\ DirectMap \in [Frames -> Pages] /\ Pages \subseteq Virtuals /\ Mmio \subseteq Frames
  /\ \A f, g \in Frames : DirectMap[f] = DirectMap[g] => f = g
  /\ BitmapFrame \in Frames \ Mmio /\ NULL \notin Frames
  BY PagingAssumption

LEMMA WindowPages ==
  ASSUME TypeOK
  PROVE  window \subseteq Pages
  BY PagingAssumption DEF TypeOK

LEMMA PoolFrames ==
  ASSUME TypeOK
  PROVE  pool \subseteq Frames
  BY PagingAssumption DEF TypeOK

LEMMA TranslationIs ==
  ASSUME NEW m, NEW n, NEW v, WalkIn(n, v)[Levels] = WalkIn(m, v)[Levels]
  PROVE  TranslationIn(n, v) = TranslationIn(m, v)
  BY DEF TranslationIn

(* While a call walks, its table is where the kernel looks for it.         *)
LEMMA Located ==
  ASSUME Inv, pc \in {"walk", "link"}, ~astray
  PROVE  /\ virt \in Pages /\ virt \in Virtuals /\ phys \in Frames \ Own
         /\ level \in 1 .. Levels /\ level - 1 \in 0 .. Levels - 1 /\ (level - 1) + 1 = level
         /\ table \in Frames /\ table \in FramesIn(mem) /\ Through(table) = table
         /\ WalkIn(mem, virt)[level - 1] = Small(table)
         /\ virt[level] \in Idx /\ Slot = mem[table][virt[level]]
         /\ Slot \in Entries \cup {NULL}
<1>1. pc # "idle"
  OBVIOUS
<1>2. virt \in Pages
  BY <1>1, WindowPages, MapsFacts DEF Inv, Calling
<1>3. virt \in Virtuals
  BY <1>2, MapsFacts
<1>4. level \in 1 .. Levels /\ table \in Frames /\ WalkIn(mem, virt)[level - 1] = Small(table)
  BY DEF Inv, Calling
<1>5. level - 1 \in 0 .. Levels - 1 /\ (level - 1) + 1 = level
  BY <1>4, LevelsNat
<1>6. table \in FramesIn(mem)
  BY <1>3, <1>4, <1>5, SmallEntry, FrameAt
<1>7. Through(table) = table
  BY <1>6 DEF Inv, InReach, Own, Through, Translation
<1>8. virt[level] \in Idx
  BY <1>3, <1>4 DEF Virtuals
<1>9. Slot = mem[table][virt[level]]
  BY <1>7 DEF Slot
<1>10. Slot \in Entries \cup {NULL}
  <2>1. mem \in Memories
    BY DEF Inv, TypeOK
  <2>2. mem[table] \in [Idx -> Entries \cup {NULL}]
    BY <1>4, <2>1 DEF Memories
  <2>3. QED
    BY <1>8, <1>9, <2>2
<1>11. phys \in Frames \ Own
  BY <1>1 DEF Inv, Calling
<1>12. QED
  BY <1>2, <1>3, <1>4, <1>5, <1>6, <1>7, <1>8, <1>9, <1>10, <1>11

LEMMA Allocated ==
  ASSUME NEW f, Alloc(f), ~exhausted'
  PROVE  f \in pool /\ pool' = pool \ {f} /\ exhausted' = exhausted
  BY DEF Alloc, TakeFromPool
-----------------------------------------------------------------------------
(* The initial states *)

LEMMA InitInv == Init => IInv
<1> SUFFICES ASSUME Init PROVE Inv
  BY DEF IInv
<1> USE LevelsNat
<1>1. mem \in Memories /\ Handover(mem)
  BY PagingAssumption DEF Init
<1>2. /\ pool = Free /\ window \in Windows /\ tlb = [v \in Pages |-> NULL] /\ pc = "idle"
      /\ virt = NULL /\ phys = NULL /\ level = 0 /\ table = NULL /\ new_table = NULL
      /\ exhausted = FALSE /\ astray = FALSE
  BY DEF Init
<1>3. TypeOK
  <2>1. tlb \in [Pages -> Frames \cup {NULL}]
    BY <1>2
  <2>2. level \in 0 .. Levels /\ mem \in Memories
    BY <1>1, <1>2
  <2> HIDE LevelsNat
  <2>3. QED
    BY <1>2, <2>1, <2>2 DEF TypeOK
<1>4. OneWay(mem)
  BY <1>1, OneWayTree DEF Handover
<1>5. LargeLast(mem)
  BY <1>1 DEF Handover, LargeLast
<1>6. /\ FramesIn(mem) \cap (Free \cup Mmio) = {}
      /\ \A f \in Frames \ Mmio : TranslationIn(mem, DirectMap[f]) = f
      /\ \A v \in Pages :
           /\ TranslationIn(mem, v) \in Frames \cup {NULL}
           /\ TranslationIn(mem, v) \in FramesIn(mem) \cup Free => DirectMap[TranslationIn(mem, v)] = v
      /\ \A v \in Virtuals, l \in 0 .. Levels - 1 :
           WalkIn(mem, v)[l] # NULL /\ WalkIn(mem, v)[l].large =>
             /\ l = Levels - 1
             /\ v \in Pages => \E f \in Frames \ Mmio : DirectMap[f] = v
  BY <1>1 DEF Handover, FramesIn
<1>7. FramesIn(mem) \subseteq Frames
  <2>1. SUFFICES ASSUME NEW f \in FramesIn(mem) PROVE f \in Frames
    OBVIOUS
  <2>2. PICK v \in Virtuals, l \in 0 .. Levels - 1 :
          IsTable(WalkIn(mem, v)[l]) /\ f = WalkIn(mem, v)[l].frame
    BY FrameAt
  <2>3. QED
    BY <1>1, <1>5, <2>2, TableEntry
<1>8. Own = FramesIn(mem) \cup Free
  BY <1>2 DEF Own
<1>9. Own \subseteq Frames \ Mmio
  BY <1>6, <1>7, <1>8, PagingAssumption
<1>10. Tidy
  <2>1. Fit(mem)
    BY <1>1, <1>4, <1>5 DEF Fit
  <2>2. FramesIn(mem) \cap pool = {}
    BY <1>2, <1>6
  <2>3. ASSUME NEW v \in Pages
        PROVE  /\ TranslationIn(mem, v) \in Frames \cup {NULL}
               /\ TranslationIn(mem, v) \in Own => DirectMap[TranslationIn(mem, v)] = v
    BY <1>6, <1>8
  <2>4. ASSUME NEW v \in Pages, WalkIn(mem, v)[Levels - 1] # NULL, WalkIn(mem, v)[Levels - 1].large
        PROVE  \E f \in Frames \ Mmio : DirectMap[f] = v
    <3>1. Levels - 1 \in 0 .. Levels - 1 /\ v \in Virtuals
      BY MapsFacts
    <3>2. QED
      BY <1>6, <2>4, <3>1
  <2>5. QED
    BY <1>9, <2>1, <2>2, <2>3, <2>4 DEF Tidy
<1>11. InReach
  BY <1>6, <1>9, MapsFacts DEF InReach
<1>12. Calling
  BY <1>2 DEF Calling
<1>13. TlbCoherent
  BY <1>2 DEF TlbCoherent
<1>14. DirectMapKept
  BY <1>2, <1>6 DEF DirectMapKept, DirectlyMapped, Through, Translation
<1>15. QED
  BY <1>3, <1>10, <1>11, <1>12, <1>13, <1>14 DEF Inv
-----------------------------------------------------------------------------
(* The steps, while pages last                                             *)

LEMMA ReachableOwn ==
  ASSUME \A g \in Own' \cup {BitmapFrame} : TranslationIn(mem', DirectMap[g]) = g,
         table' \in Own' \cup {NULL}
  PROVE  Reachable'
<1>1. TableFrames' = FramesIn(mem')
  BY DEF TableFrames, Tables, FramesIn
<1>2. TableFrames' \cup ({table'} \ {NULL}) \cup pool' \subseteq Own'
  BY <1>1 DEF Own
<1>3. QED
  BY <1>2 DEF Reachable, Through, Translation

(* Without a write, what is tidy and in reach stays so.                    *)
LEMMA Unwritten ==
  ASSUME Inv, mem' = mem, Own' \subseteq Own, pool' \subseteq pool
  PROVE  Tidy' /\ (astray' \/ ~astray => InReach')
<1>1. Tidy'
  <2>1. Fit(mem)' /\ (Own \subseteq Frames \ Mmio)' /\ (FramesIn(mem) \cap pool = {})'
    BY DEF Inv, Tidy
  <2>2. ASSUME NEW v \in Pages
        PROVE  /\ TranslationIn(mem', v) \in Frames \cup {NULL}
               /\ TranslationIn(mem', v) \in Own' => DirectMap[TranslationIn(mem', v)] = v
               /\ WalkIn(mem', v)[Levels - 1] # NULL /\ WalkIn(mem', v)[Levels - 1].large =>
                    \E f \in Frames \ Mmio : DirectMap[f] = v
    BY DEF Inv, Tidy
  <2>3. QED
    BY <2>1, <2>2 DEF Tidy
<1>2. astray' \/ ~astray => InReach'
  BY DEF Inv, InReach
<1>3. QED
  BY <1>1, <1>2

LEMMA EnterStep ==
  ASSUME Inv, ~exhausted, ~exhausted', NEW v \in window \cup {DirectMap[f] : f \in Mmio},
         NEW f \in Frames, Enter(v, f), pool' \subseteq pool, exhausted' = exhausted,
         f \notin FramesIn(mem) \cup pool'
  PROVE  Inv'
<1>1. /\ pc = "idle" /\ ~astray /\ pc' = "walk" /\ virt' = v /\ phys' = f
      /\ level' = 1 /\ table' = Root /\ new_table' = NULL
      /\ mem' = mem /\ window' = window /\ tlb' = tlb /\ astray' = astray
  BY DEF Enter
<1>2. v \in Pages
  BY WindowPages, MapsFacts DEF Inv
<1>3. Own' = FramesIn(mem) \cup pool'
  BY <1>1 DEF Own
<1>4. Own' \subseteq Own
  BY <1>3 DEF Own
<1>5. TypeOK'
  <2>1. Root \in Frames /\ 1 \in 0 .. Levels
    BY RootEntry, LevelsNat
  <2>2. TypeOK
    BY DEF Inv
  <2>3. QED
    BY <1>1, <1>2, <2>1, <2>2 DEF TypeOK
<1>6. Tidy' /\ InReach'
  BY <1>1, <1>4, Unwritten
<1>7. Calling'
  <2>1. (virt \in window \cup {DirectMap[g] : g \in Mmio} /\ phys \in Frames \ Own)'
    BY <1>1, <1>3
  <2>2. (level \in 1 .. Levels /\ table \in Frames /\ WalkIn(mem, virt)[level - 1] = Small(table))'
    <3>1. WalkIn(mem', v)[0] = Small(Root)
      BY WalkIs
    <3>2. level' \in 1 .. Levels /\ level' - 1 = 0
      BY <1>1, LevelsNat
    <3>3. QED
      BY <1>1, <3>1, <3>2, RootEntry
  <2>3. pc' # "link"
    BY <1>1
  <2>4. QED
    BY <2>1, <2>2, <2>3 DEF Calling
<1>8. TlbCoherent'
  BY <1>1 DEF Inv, TlbCoherent, Translation
<1>9. DirectMapKept'
  BY <1>1 DEF Inv, DirectMapKept, DirectlyMapped, Through, Translation
<1>10. QED
  BY <1>5, <1>6, <1>7, <1>8, <1>9 DEF Inv

LEMMA MapDeviceStep ==
  ASSUME Inv, ~exhausted, ~exhausted', MapDevice
  PROVE  Inv'
<1>1. PICK f \in Mmio : Enter(DirectMap[f], f) /\ pool' = pool /\ exhausted' = exhausted
  BY DEF MapDevice
<1>2. f \in Frames
  BY MapsFacts
<1>3. FramesIn(mem) \cup pool \subseteq Frames \ Mmio
  BY DEF Inv, Tidy, Own
<1>4. QED
  BY <1>1, <1>2, <1>3, EnterStep

LEMMA MapHeapStep ==
  ASSUME Inv, ~exhausted, ~exhausted', MapHeap
  PROVE  Inv'
<1>1. PICK v \in window, f \in Frames : Enter(v, f) /\ Alloc(f)
  BY DEF MapHeap
<1>2. f \in pool /\ pool' = pool \ {f} /\ exhausted' = exhausted
  BY <1>1, Allocated
<1>3. f \notin FramesIn(mem)
  BY <1>2 DEF Inv, Tidy
<1>4. QED
  BY <1>1, <1>2, <1>3, EnterStep

LEMMA NewTableStep ==
  ASSUME Inv, ~exhausted, ~exhausted', NewTable
  PROVE  Inv' /\ \A v \in Pages : TranslationIn(mem', v) = TranslationIn(mem, v)
<1> USE LevelsNat
<1>1. /\ pc = "walk" /\ ~astray /\ level < Levels /\ Slot = NULL /\ pc' = "link"
      /\ window' = window /\ tlb' = tlb /\ virt' = virt /\ phys' = phys
      /\ level' = level /\ table' = table /\ astray' = ~Reachable'
  BY DEF NewTable, args, MoreLevels, Missing
<1>2. PICK f \in Frames : Alloc(f) /\ new_table' = f /\ mem' = Clear(f)
  BY DEF NewTable
<1>3. f \in pool /\ pool' = pool \ {f} /\ exhausted' = exhausted
  BY <1>2, Allocated
<1>4. /\ virt \in Virtuals /\ virt \in Pages /\ phys \in Frames \ Own
      /\ level \in 1 .. Levels /\ level - 1 \in 0 .. Levels /\ table \in FramesIn(mem) /\ table \in Frames
      /\ WalkIn(mem, virt)[level - 1] = Small(table) /\ mem[table][virt[level]] = NULL
  BY <1>1, Located
<1>5. Fit(mem) /\ f \notin FramesIn(mem) /\ mem \in Memories
  BY <1>3 DEF Inv, Tidy, Fit
<1>6. Through(f) = f
  BY <1>1, <1>3 DEF Inv, InReach, Own, Through, Translation
<1>7. Empty \in [Idx -> Entries \cup {NULL}]
  BY DEF Empty
<1>8. mem' \in Memories /\ mem'[f] = Empty /\ \A g \in Frames \ {f} : mem'[g] = mem[g]
  <2>1. mem' = [mem EXCEPT ![f] = Empty]
    BY <1>2, <1>6 DEF Clear
  <2>2. /\ [mem EXCEPT ![f] = Empty] \in Memories /\ [mem EXCEPT ![f] = Empty][f] = Empty
        /\ \A g \in Frames \ {f} : [mem EXCEPT ![f] = Empty][g] = mem[g]
    BY <1>5, <1>7, FrameWritten
  <2>3. QED
    BY <2>1, <2>2
<1>9. /\ Fit(mem') /\ FramesIn(mem') = FramesIn(mem)
      /\ \A v \in Virtuals, l \in 0 .. Levels : WalkIn(mem', v)[l] = WalkIn(mem, v)[l]
  BY <1>5, <1>8, Cleared
<1>10. \A v \in Virtuals : TranslationIn(mem', v) = TranslationIn(mem, v)
  <2>1. Levels \in 0 .. Levels
    OBVIOUS
  <2>2. QED
    BY <1>9, <2>1, TranslationIs
<1>11. \A v \in Pages : /\ TranslationIn(mem', v) = TranslationIn(mem, v)
                        /\ WalkIn(mem', v)[Levels - 1] = WalkIn(mem, v)[Levels - 1]
  <2>1. Levels - 1 \in 0 .. Levels
    OBVIOUS
  <2>2. QED
    BY <1>9, <1>10, <2>1, MapsFacts
<1>12. Own' = Own
  BY <1>1, <1>2, <1>3, <1>9 DEF Own
<1>13. TypeOK'
  <2>1. TypeOK /\ astray' \in BOOLEAN
    BY <1>1 DEF Inv
  <2>2. QED
    BY <1>1, <1>2, <1>3, <1>8, <2>1 DEF TypeOK
<1>14. Tidy'
  <2>1. (Own \subseteq Frames \ Mmio)' /\ (FramesIn(mem) \cap pool = {})'
    BY <1>3, <1>9, <1>12 DEF Inv, Tidy
  <2>2. ASSUME NEW v \in Pages
        PROVE  /\ TranslationIn(mem', v) \in Frames \cup {NULL}
               /\ TranslationIn(mem', v) \in Own' => DirectMap[TranslationIn(mem', v)] = v
               /\ WalkIn(mem', v)[Levels - 1] # NULL /\ WalkIn(mem', v)[Levels - 1].large =>
                    \E g \in Frames \ Mmio : DirectMap[g] = v
    BY <1>11, <1>12 DEF Inv, Tidy
  <2>3. QED
    BY <1>9, <2>1, <2>2 DEF Tidy
<1>15. \A g \in Frames : TranslationIn(mem', DirectMap[g]) = TranslationIn(mem, DirectMap[g])
  BY <1>11, MapsFacts
<1>16. InReach' /\ ~astray'
  <2>1. Own \subseteq Frames /\ BitmapFrame \in Frames
    BY MapsFacts DEF Inv, Tidy
  <2>2. \A g \in Own' \cup {BitmapFrame} : TranslationIn(mem', DirectMap[g]) = g
    BY <1>1, <1>12, <1>15, <2>1 DEF Inv, InReach
  <2>3. table' \in Own'
    BY <1>1, <1>4, <1>12 DEF Own
  <2>4. Reachable'
    BY <2>2, <2>3, ReachableOwn
  <2>5. QED
    BY <1>1, <2>2, <2>4 DEF InReach
<1>17. Calling'
  <2>1. (virt \in window \cup {DirectMap[g] : g \in Mmio} /\ phys \in Frames \ Own)'
    BY <1>1, <1>4, <1>12 DEF Inv, Calling
  <2>2. (level \in 1 .. Levels /\ table \in Frames /\ WalkIn(mem, virt)[level - 1] = Small(table))'
    BY <1>1, <1>4, <1>9
  <2>3. (~astray /\ level < Levels /\ new_table \in Frames \ (FramesIn(mem) \cup pool))'
    BY <1>1, <1>2, <1>3, <1>5, <1>9, <1>16
  <2>4. mem'[new_table'] = Empty /\ mem'[table'][virt'[level']] = NULL
    BY <1>1, <1>2, <1>4, <1>5, <1>8
  <2>5. QED
    BY <2>1, <2>2, <2>3, <2>4 DEF Calling
<1>18. TlbCoherent'
  BY <1>1, <1>11 DEF Inv, TlbCoherent, Translation
<1>19. DirectMapKept'
  BY <1>1, <1>3, <1>15, <1>16 DEF Inv, DirectMapKept, DirectlyMapped, Through, Translation
<1>20. QED
  BY <1>11, <1>13, <1>14, <1>16, <1>17, <1>18, <1>19 DEF Inv

(* A slot of the table the call has come to is written.                    *)
LEMMA SlotSet ==
  ASSUME Inv, pc \in {"walk", "link"}, ~astray, NEW f \in Frames, SetSlot(f)
  PROVE  /\ mem' \in Memories /\ mem'[table][virt[level]] = Small(f)
         /\ \A g \in Frames, y \in Idx : <<g, y>> # <<table, virt[level]>> => mem'[g][y] = mem[g][y]
<1>1. table \in Frames /\ virt[level] \in Idx /\ Through(table) = table
  BY Located
<1>2. mem \in Memories /\ Small(f) \in Entries
  BY SmallEntry DEF Inv, TypeOK
<1>3. mem' = [mem EXCEPT ![table][virt[level]] = Small(f)]
  BY <1>1 DEF SetSlot
<1> DEFINE n == [mem EXCEPT ![table][virt[level]] = Small(f)]
<1>4. /\ n \in Memories /\ n[table][virt[level]] = Small(f)
      /\ \A g \in Frames, y \in Idx : <<g, y>> # <<table, virt[level]>> => n[g][y] = mem[g][y]
  BY <1>1, <1>2, SlotWritten
<1>5. QED
  BY <1>3, <1>4

LEMMA LinkStep ==
  ASSUME Inv, ~exhausted, ~exhausted', Link
  PROVE  Inv' /\ ~astray' /\ \A v \in Pages : TranslationIn(mem', v) = TranslationIn(mem, v)
<1> USE LevelsNat
<1>1. /\ pc = "link" /\ ~astray /\ SetSlot(new_table) /\ pc' = "walk"
      /\ pool' = pool /\ window' = window /\ tlb' = tlb /\ virt' = virt /\ phys' = phys
      /\ level' = level /\ table' = table /\ new_table' = new_table /\ exhausted' = exhausted
      /\ astray' = ~Reachable'
  BY DEF Link, args, walk
<1>2. /\ virt \in Virtuals /\ virt \in Pages /\ phys \in Frames \ Own
      /\ level \in 1 .. Levels /\ level - 1 \in 0 .. Levels - 1 /\ (level - 1) + 1 = level
      /\ table \in FramesIn(mem) /\ table \in Frames
      /\ WalkIn(mem, virt)[level - 1] = Small(table)
  BY <1>1, Located
<1>3. /\ level < Levels /\ new_table \in Frames \ (FramesIn(mem) \cup pool)
      /\ mem[new_table] = Empty /\ mem[table][virt[level]] = NULL
  BY <1>1 DEF Inv, Calling
<1>4. /\ mem' \in Memories /\ mem'[table][virt[level]] = Small(new_table)
      /\ \A g \in Frames, y \in Idx : <<g, y>> # <<table, virt[level]>> => mem'[g][y] = mem[g][y]
  BY <1>1, <1>3, SlotSet
<1>5. Fit(mem)
  BY DEF Inv, Tidy
<1>6. /\ Fit(mem') /\ FramesIn(mem') \subseteq FramesIn(mem) \cup {new_table}
      /\ \A w \in Virtuals : WalkIn(mem', w)[Levels] = WalkIn(mem, w)[Levels]
      /\ \A w \in Virtuals, l \in 0 .. Levels - 1 :
           WalkIn(mem', w)[l] = WalkIn(mem, w)[l] \/ WalkIn(mem', w)[l] = Small(new_table)
      /\ WalkIn(mem', virt)[level - 1] = WalkIn(mem, virt)[level - 1]
  <2> DEFINE d == level - 1
  <2>1. d \in 0 .. Levels - 2 /\ d + 1 = level /\ d \in 0 .. d
    BY <1>2, <1>3
  <2>2. /\ WalkIn(mem, virt)[d] = Small(table) /\ mem[table][virt[d + 1]] = NULL
        /\ mem'[table][virt[d + 1]] = Small(new_table)
        /\ \A g \in Frames, y \in Idx : <<g, y>> # <<table, virt[d + 1]>> => mem'[g][y] = mem[g][y]
    BY <1>2, <1>3, <1>4, <2>1
  <2> HIDE DEF d
  <2>3. /\ Fit(mem') /\ FramesIn(mem') \subseteq FramesIn(mem) \cup {new_table}
        /\ \A w \in Virtuals : WalkIn(mem', w)[Levels] = WalkIn(mem, w)[Levels]
        /\ \A w \in Virtuals, l \in 0 .. Levels - 1 :
             WalkIn(mem', w)[l] = WalkIn(mem, w)[l] \/ WalkIn(mem', w)[l] = Small(new_table)
        /\ \A l \in 0 .. d : WalkIn(mem', virt)[l] = WalkIn(mem, virt)[l]
    BY <1>2, <1>3, <1>4, <1>5, <2>1, <2>2, Linked
  <2>4. QED
    BY <2>1, <2>3 DEF d
<1>7. \A v \in Pages : TranslationIn(mem', v) = TranslationIn(mem, v)
  BY <1>6, TranslationIs, MapsFacts
<1>8. Own = FramesIn(mem) \cup pool \cup {new_table} /\ Own' = FramesIn(mem') \cup pool
  BY <1>1 DEF Own
<1>9. Own' \subseteq Own
  BY <1>6, <1>8
<1>10. TypeOK'
  <2>1. TypeOK
    BY DEF Inv
  <2>2. QED
    BY <1>1, <1>4, <2>1 DEF TypeOK
<1>11. Tidy'
  <2>1. (Own \subseteq Frames \ Mmio)'
    BY <1>9 DEF Inv, Tidy
  <2>2. (FramesIn(mem) \cap pool = {})'
    BY <1>1, <1>3, <1>6 DEF Inv, Tidy
  <2>3. ASSUME NEW v \in Pages
        PROVE  /\ TranslationIn(mem', v) \in Frames \cup {NULL}
               /\ TranslationIn(mem', v) \in Own' => DirectMap[TranslationIn(mem', v)] = v
    BY <1>7, <1>9 DEF Inv, Tidy
  <2>4. ASSUME NEW v \in Pages, WalkIn(mem', v)[Levels - 1] # NULL, WalkIn(mem', v)[Levels - 1].large
        PROVE  \E f \in Frames \ Mmio : DirectMap[f] = v
    <3>1. v \in Virtuals /\ Levels - 1 \in 0 .. Levels - 1
      BY MapsFacts
    <3>2. ~Small(new_table).large
      BY <1>3, SmallEntry
    <3>3. WalkIn(mem', v)[Levels - 1] = WalkIn(mem, v)[Levels - 1]
      BY <1>6, <2>4, <3>1, <3>2
    <3>4. QED
      BY <2>4, <3>3 DEF Inv, Tidy
  <2>5. QED
    BY <1>6, <2>1, <2>2, <2>3, <2>4 DEF Tidy
<1>12. \A g \in Frames : TranslationIn(mem', DirectMap[g]) = TranslationIn(mem, DirectMap[g])
  BY <1>7, MapsFacts
<1>13. \A g \in Own' \cup {BitmapFrame} : TranslationIn(mem', DirectMap[g]) = g
  <2>1. Own \subseteq Frames /\ BitmapFrame \in Frames
    BY MapsFacts DEF Inv, Tidy
  <2>2. QED
    BY <1>1, <1>9, <1>12, <2>1 DEF Inv, InReach
<1>14. InReach'
  BY <1>13 DEF InReach
<1>15. ~astray'
  <2>1. table' \in Own'
    <3>1. WalkIn(mem', virt)[level - 1] = Small(table)
      BY <1>2, <1>6
    <3>2. table \in FramesIn(mem')
      BY <1>2, <3>1, SmallEntry, FrameAt
    <3>3. QED
      BY <1>1, <3>2 DEF Own
  <2>2. Reachable'
    BY <1>13, <2>1, ReachableOwn
  <2>3. QED
    BY <1>1, <2>2
<1>16. Calling'
  <2>1. (virt \in window \cup {DirectMap[g] : g \in Mmio} /\ phys \in Frames \ Own)'
    BY <1>1, <1>2, <1>9 DEF Inv, Calling
  <2>2. (level \in 1 .. Levels /\ table \in Frames /\ WalkIn(mem, virt)[level - 1] = Small(table))'
    BY <1>1, <1>2, <1>6
  <2>3. pc' # "link"
    BY <1>1
  <2>4. QED
    BY <2>1, <2>2, <2>3 DEF Calling
<1>17. TlbCoherent'
  BY <1>1, <1>7 DEF Inv, TlbCoherent, Translation
<1>18. DirectMapKept'
  BY <1>1, <1>12, <1>15 DEF Inv, DirectMapKept, DirectlyMapped, Through, Translation
<1>19. QED
  BY <1>7, <1>10, <1>11, <1>14, <1>15, <1>16, <1>17, <1>18 DEF Inv

LEMMA DescendStep ==
  ASSUME Inv, ~exhausted, ~exhausted', Descend
  PROVE  Inv'
<1> USE LevelsNat
<1>1. /\ pc = "walk" /\ ~astray /\ level < Levels /\ Slot # NULL
      /\ table' = Slot.frame /\ astray' = (Slot.large \/ ~Reachable') /\ level' = level + 1
      /\ mem' = mem /\ pool' = pool /\ window' = window /\ tlb' = tlb /\ pc' = "walk"
      /\ virt' = virt /\ phys' = phys /\ new_table' = new_table /\ exhausted' = exhausted
  BY DEF Descend, args, MoreLevels
<1>2. /\ virt \in Virtuals /\ virt \in Pages /\ phys \in Frames \ Own
      /\ level \in 1 .. Levels /\ level - 1 \in 0 .. Levels - 1 /\ (level - 1) + 1 = level
      /\ table \in Frames /\ WalkIn(mem, virt)[level - 1] = Small(table)
      /\ Slot = mem[table][virt[level]] /\ Slot \in Entries \cup {NULL}
  BY <1>1, Located
<1>3. Slot \in Entries /\ Slot.frame \in Frames /\ Slot.large \in BOOLEAN
  BY <1>1, <1>2 DEF Entries
<1>4. WalkIn(mem, virt)[level] = Slot
  <2>1. WalkIn(mem, virt)[level] = EntryOf(mem, Small(table), virt[level])
    BY <1>2, WalkIs
  <2>2. QED
    BY <1>2, <2>1, SmallEntry DEF EntryOf
<1>5. level \in 0 .. Levels - 1 /\ level + 1 \in 1 .. Levels /\ (level + 1) - 1 = level
  BY <1>1, <1>2
<1>6. Own' = Own
  BY <1>1 DEF Own
<1>7. astray' <=> Slot.large
  <2>1. SUFFICES ASSUME ~Slot.large PROVE Reachable'
    BY <1>1, <1>3
  <2>2. Slot = Small(Slot.frame) /\ IsTable(WalkIn(mem, virt)[level])
    BY <1>1, <1>3, <1>4, <2>1 DEF Small, Entries, IsTable
  <2>3. table' \in FramesIn(mem)
    BY <1>1, <1>2, <1>4, <1>5, <2>2, FrameAt
  <2>4. table' \in Own'
    BY <1>6, <2>3 DEF Own
  <2>5. \A g \in Own' \cup {BitmapFrame} : TranslationIn(mem', DirectMap[g]) = g
    BY <1>1, <1>6 DEF Inv, InReach
  <2>6. QED
    BY <2>4, <2>5, ReachableOwn
<1>8. TypeOK'
  <2>1. TypeOK /\ level' \in 0 .. Levels /\ astray' \in BOOLEAN
    BY <1>1, <1>5 DEF Inv
  <2>2. QED
    BY <1>1, <1>3, <2>1 DEF TypeOK
<1>9. Tidy' /\ InReach'
  BY <1>1, <1>6, Unwritten
<1>10. Calling'
  <2>1. (virt \in window \cup {DirectMap[g] : g \in Mmio} /\ phys \in Frames \ Own)'
    BY <1>1, <1>2, <1>6 DEF Inv, Calling
  <2>2. ASSUME ~astray'
        PROVE  (level \in 1 .. Levels /\ table \in Frames /\ WalkIn(mem, virt)[level - 1] = Small(table))'
    <3>1. Slot = Small(Slot.frame)
      BY <1>3, <1>7, <2>2 DEF Small, Entries
    <3>2. QED
      BY <1>1, <1>3, <1>4, <1>5, <3>1
  <2>3. pc' # "link"
    BY <1>1
  <2>4. QED
    BY <2>1, <2>2, <2>3 DEF Calling
<1>11. TlbCoherent'
  BY <1>1 DEF Inv, TlbCoherent, Translation
<1>12. ASSUME astray' PROVE \E v \in window : v \in {DirectMap[f] : f \in Frames}
  <2>1. level = Levels - 1
    <3>1. LargeLast(mem)
      BY DEF Inv, Tidy, Fit
    <3>2. WalkIn(mem, virt)[level] # NULL /\ WalkIn(mem, virt)[level].large
      BY <1>1, <1>4, <1>12, <1>7
    <3>3. QED
      BY <1>2, <1>5, <3>1, <3>2 DEF LargeLast
  <2>2. PICK f \in Frames \ Mmio : DirectMap[f] = virt
    BY <1>1, <1>2, <1>4, <1>12, <1>7, <2>1 DEF Inv, Tidy
  <2>3. virt \in window \cup {DirectMap[g] : g \in Mmio}
    BY <1>1 DEF Inv, Calling
  <2>4. virt \notin {DirectMap[g] : g \in Mmio}
    BY <2>2, MapsFacts
  <2>5. QED
    BY <2>2, <2>3, <2>4
<1>13. DirectMapKept'
  <2>1. DirectlyMapped' = DirectlyMapped /\ \A f \in DirectlyMapped : Through(f)' = Through(f)
    BY <1>1 DEF DirectlyMapped, Through, Translation
  <2>2. \A f \in DirectlyMapped : Through(f) = f
    BY DEF Inv, DirectMapKept
  <2>3. QED
    BY <1>1, <1>12, <2>1, <2>2 DEF DirectMapKept
<1>14. QED
  BY <1>8, <1>9, <1>10, <1>11, <1>13 DEF Inv

LEMMA SetEntryStep ==
  ASSUME Inv, ~exhausted, ~exhausted', SetEntry
  PROVE  /\ Inv' /\ TranslationIn(mem', virt) = phys
         /\ \A v \in Pages \ {virt} : TranslationIn(mem', v) = TranslationIn(mem, v)
<1> USE LevelsNat
<1>1. /\ pc = "walk" /\ ~astray /\ ~(level < Levels) /\ SetSlot(phys) /\ pc' = "invlpg"
      /\ pool' = pool /\ window' = window /\ tlb' = tlb /\ virt' = virt /\ phys' = phys
      /\ level' = level /\ table' = table /\ new_table' = new_table /\ exhausted' = exhausted
      /\ astray' = ~Reachable'
  BY DEF SetEntry, args, walk, MoreLevels
<1>2. /\ virt \in Virtuals /\ virt \in Pages /\ phys \in Frames \ Own /\ phys \in Frames
      /\ level \in 1 .. Levels /\ table \in Frames
      /\ WalkIn(mem, virt)[level - 1] = Small(table)
  BY <1>1, Located
<1>3. level = Levels
  BY <1>1, <1>2
<1>4. /\ mem' \in Memories /\ mem'[table][virt[Levels]] = Small(phys)
      /\ \A g \in Frames, y \in Idx : <<g, y>> # <<table, virt[Levels]>> => mem'[g][y] = mem[g][y]
  BY <1>1, <1>2, <1>3, SlotSet
<1>5. Fit(mem) /\ WalkIn(mem, virt)[Levels - 1] = Small(table)
  BY <1>2, <1>3 DEF Inv, Tidy
<1>6. /\ Fit(mem') /\ FramesIn(mem') = FramesIn(mem)
      /\ \A w \in Virtuals, l \in 0 .. Levels - 1 : WalkIn(mem', w)[l] = WalkIn(mem, w)[l]
      /\ \A w \in Virtuals \ {virt} : WalkIn(mem', w)[Levels] = WalkIn(mem, w)[Levels]
      /\ WalkIn(mem', virt)[Levels] = Small(phys)
  BY <1>2, <1>4, <1>5, Mapped
<1>7. \A v \in Pages \ {virt} : TranslationIn(mem', v) = TranslationIn(mem, v)
  BY <1>6, TranslationIs, MapsFacts
<1>8. TranslationIn(mem', virt) = phys
  BY <1>2, <1>6, SmallEntry DEF TranslationIn
<1>9. Own' = Own
  BY <1>1, <1>6 DEF Own
<1>10. TypeOK'
  <2>1. TypeOK
    BY DEF Inv
  <2>2. astray' \in BOOLEAN
    BY <1>1
  <2>3. QED
    BY <1>1, <1>4, <2>1, <2>2 DEF TypeOK
<1>11. Tidy'
  <2>1. (Own \subseteq Frames \ Mmio)' /\ (FramesIn(mem) \cap pool = {})'
    BY <1>1, <1>6, <1>9 DEF Inv, Tidy
  <2>2. ASSUME NEW v \in Pages
        PROVE  /\ TranslationIn(mem', v) \in Frames \cup {NULL}
               /\ TranslationIn(mem', v) \in Own' => DirectMap[TranslationIn(mem', v)] = v
    <3>1. CASE v = virt
      BY <1>2, <1>8, <1>9, <3>1
    <3>2. CASE v # virt
      BY <1>7, <1>9, <3>2 DEF Inv, Tidy
    <3>3. QED
      BY <3>1, <3>2
  <2>3. ASSUME NEW v \in Pages, WalkIn(mem', v)[Levels - 1] # NULL, WalkIn(mem', v)[Levels - 1].large
        PROVE  \E f \in Frames \ Mmio : DirectMap[f] = v
    <3>1. v \in Virtuals /\ Levels - 1 \in 0 .. Levels - 1
      BY MapsFacts
    <3>2. WalkIn(mem', v)[Levels - 1] = WalkIn(mem, v)[Levels - 1]
      BY <1>6, <3>1
    <3>3. QED
      BY <2>3, <3>2 DEF Inv, Tidy
  <2>4. QED
    BY <1>6, <2>1, <2>2, <2>3 DEF Tidy
<1>12. (\E f \in Own \cup {BitmapFrame} : TranslationIn(mem', DirectMap[f]) # f) <=> astray'
  <2>1. TableFrames' = FramesIn(mem')
    BY DEF TableFrames, Tables, FramesIn
  <2>2. Own = TableFrames' \cup pool'
    BY <1>1, <1>6, <2>1 DEF Own
  <2>3. table' \in TableFrames' \cup {NULL}
    <3>1. table \in FramesIn(mem)
      BY <1>1, Located
    <3>2. QED
      BY <1>1, <1>6, <2>1, <3>1
  <2>4. QED
    BY <1>1, <2>2, <2>3 DEF Reachable, Through, Translation
<1>13. InReach'
  BY <1>9, <1>12 DEF InReach
<1>14. Calling'
  <2>1. (virt \in window \cup {DirectMap[g] : g \in Mmio} /\ phys \in Frames \ Own)'
    BY <1>1, <1>2, <1>9 DEF Inv, Calling
  <2>2. QED
    BY <1>1, <2>1 DEF Calling
<1>15. TlbCoherent'
  <2>1. ASSUME NEW v \in Pages, tlb[v] # NULL, v # virt PROVE tlb[v] = TranslationIn(mem', v)
    <3>1. tlb[v] = TranslationIn(mem, v)
      BY <1>1, <2>1 DEF Inv, TlbCoherent, Translation
    <3>2. QED
      BY <1>7, <2>1, <3>1
  <2>2. QED
    BY <1>1, <2>1 DEF TlbCoherent, Translation
<1>16. DirectMapKept'
  <2>1. DirectlyMapped' = DirectlyMapped
    BY <1>1 DEF DirectlyMapped
  <2>2. virt \in window \cup {DirectMap[g] : g \in Mmio}
    BY <1>1 DEF Inv, Calling
  <2>3. \A f \in DirectlyMapped : DirectMap[f] \in Pages \ {virt}
    BY <2>2, MapsFacts DEF DirectlyMapped
  <2>4. \A f \in DirectlyMapped : TranslationIn(mem', DirectMap[f]) = f
    BY <1>7, <2>3 DEF Inv, DirectMapKept, Through, Translation
  <2>5. ASSUME astray' PROVE \E v \in window : v \in {DirectMap[f] : f \in Frames}
    <3>1. PICK f \in Own \cup {BitmapFrame} : TranslationIn(mem', DirectMap[f]) # f
      BY <1>12, <2>5
    <3>2. f \in Frames \ Mmio
      BY MapsFacts DEF Inv, Tidy
    <3>3. DirectMap[f] \in window
      BY <2>4, <3>1, <3>2 DEF DirectlyMapped
    <3>4. QED
      BY <3>2, <3>3
  <2>6. QED
    BY <1>1, <2>1, <2>4, <2>5 DEF DirectMapKept, Through, Translation
<1>17. QED
  BY <1>7, <1>8, <1>10, <1>11, <1>13, <1>14, <1>15, <1>16 DEF Inv

LEMMA InvlpgStep ==
  ASSUME Inv, ~exhausted, ~exhausted', Invlpg
  PROVE  Inv'
<1>1. /\ pc = "invlpg" /\ pc' = "idle" /\ tlb' = [tlb EXCEPT ![virt] = NULL]
      /\ virt' = NULL /\ phys' = NULL /\ level' = 0 /\ table' = NULL /\ new_table' = NULL
      /\ mem' = mem /\ pool' = pool /\ window' = window
      /\ exhausted' = exhausted /\ astray' = astray
  BY DEF Invlpg, Flush
<1>2. Own' = Own
  BY <1>1 DEF Own
<1>3. tlb \in [Pages -> Frames \cup {NULL}]
  BY DEF Inv, TypeOK
<1>4. tlb' \in [Pages -> Frames \cup {NULL}] /\ \A v \in Pages : tlb'[v] # NULL => v # virt /\ tlb'[v] = tlb[v]
  BY <1>1, <1>3
<1>5. TypeOK'
  <2>1. TypeOK /\ 0 \in 0 .. Levels
    BY LevelsNat DEF Inv
  <2>2. QED
    BY <1>1, <1>4, <2>1 DEF TypeOK
<1>6. Tidy' /\ InReach'
  BY <1>1, <1>2, Unwritten
<1>7. Calling'
  BY <1>1 DEF Calling
<1>8. TlbCoherent'
  BY <1>1, <1>4 DEF Inv, TlbCoherent, Translation
<1>9. DirectMapKept'
  BY <1>1 DEF Inv, DirectMapKept, DirectlyMapped, Through, Translation
<1>10. QED
  BY <1>5, <1>6, <1>7, <1>8, <1>9 DEF Inv

LEMMA FillStep ==
  ASSUME Inv, ~exhausted, ~exhausted', Fill
  PROVE  Inv'
<1>1. PICK v \in window \cup {DirectMap[f] : f \in Mmio} :
        /\ tlb' = [tlb EXCEPT ![v] = Translation(v)]
        /\ UNCHANGED <<mem, pool, window, pc, args, walk, exhausted, astray>>
  BY DEF Fill
<1>2. /\ pc' = pc /\ virt' = virt /\ phys' = phys /\ level' = level /\ table' = table
      /\ new_table' = new_table /\ mem' = mem /\ pool' = pool /\ window' = window
      /\ exhausted' = exhausted /\ astray' = astray
  BY <1>1 DEF args, walk
<1>3. v \in Pages
  BY WindowPages, MapsFacts DEF Inv
<1>4. TranslationIn(mem, v) \in Frames \cup {NULL}
  BY <1>3 DEF Inv, Tidy
<1>5. tlb \in [Pages -> Frames \cup {NULL}] /\ tlb' = [tlb EXCEPT ![v] = TranslationIn(mem, v)]
  BY <1>1 DEF Inv, TypeOK, Translation
<1>6. /\ tlb' \in [Pages -> Frames \cup {NULL}]
      /\ \A u \in Pages : tlb'[u] = tlb[u] \/ tlb'[u] = TranslationIn(mem, u)
  BY <1>3, <1>4, <1>5
<1>7. Own' = Own
  BY <1>2 DEF Own
<1>8. TypeOK'
  <2>1. TypeOK
    BY DEF Inv
  <2>2. QED
    BY <1>2, <1>6, <2>1 DEF TypeOK
<1>9. Tidy' /\ InReach'
  BY <1>2, <1>7, Unwritten
<1>10. Calling'
  BY <1>2, <1>7 DEF Inv, Calling
<1>11. TlbCoherent'
  BY <1>2, <1>6 DEF Inv, TlbCoherent, Translation
<1>12. DirectMapKept'
  BY <1>2 DEF Inv, DirectMapKept, DirectlyMapped, Through, Translation
<1>13. QED
  BY <1>8, <1>9, <1>10, <1>11, <1>12 DEF Inv

LEMMA Stutter ==
  ASSUME Inv, UNCHANGED vars
  PROVE  Inv'
<1>1. /\ pc' = pc /\ virt' = virt /\ phys' = phys /\ level' = level /\ table' = table
      /\ new_table' = new_table /\ mem' = mem /\ pool' = pool /\ window' = window
      /\ exhausted' = exhausted /\ astray' = astray /\ tlb' = tlb
  BY DEF vars, args, walk
<1>2. Own' = Own
  BY <1>1 DEF Own
<1>3. TypeOK'
  BY <1>1 DEF Inv, TypeOK
<1>4. Tidy' /\ InReach'
  BY <1>1, <1>2, Unwritten
<1>5. Calling'
  BY <1>1, <1>2 DEF Inv, Calling
<1>6. TlbCoherent'
  BY <1>1 DEF Inv, TlbCoherent, Translation
<1>7. DirectMapKept'
  BY <1>1 DEF Inv, DirectMapKept, DirectlyMapped, Through, Translation
<1>8. QED
  BY <1>3, <1>4, <1>5, <1>6, <1>7 DEF Inv
-----------------------------------------------------------------------------
(* The kernel neither gets a page once there are none, nor finds its way   *)
(* back.                                                                   *)
LEMMA Lasting ==
  ASSUME [Next]_vars
  PROVE  (exhausted => exhausted') /\ (astray => astray')
<1>1. ASSUME UNCHANGED vars PROVE (exhausted => exhausted') /\ (astray => astray')
  BY <1>1 DEF vars
<1>2. ASSUME MapDevice PROVE (exhausted => exhausted') /\ (astray => astray')
  BY <1>2 DEF MapDevice, Enter
<1>3. ASSUME MapHeap PROVE (exhausted => exhausted') /\ (astray => astray')
  BY <1>3 DEF MapHeap, Enter, Alloc
<1>4. ASSUME NewTable PROVE (exhausted => exhausted') /\ (astray => astray')
  BY <1>4 DEF NewTable, Alloc
<1>5. ASSUME Link PROVE (exhausted => exhausted') /\ (astray => astray')
  BY <1>5 DEF Link
<1>6. ASSUME Descend PROVE (exhausted => exhausted') /\ (astray => astray')
  BY <1>6 DEF Descend
<1>7. ASSUME SetEntry PROVE (exhausted => exhausted') /\ (astray => astray')
  BY <1>7 DEF SetEntry
<1>8. ASSUME Invlpg PROVE (exhausted => exhausted') /\ (astray => astray')
  BY <1>8 DEF Invlpg
<1>9. ASSUME Fill PROVE (exhausted => exhausted') /\ (astray => astray')
  BY <1>9 DEF Fill
<1>10. QED
  BY <1>1, <1>2, <1>3, <1>4, <1>5, <1>6, <1>7, <1>8, <1>9 DEF Next, Kernel

LEMMA StepInv == IInv /\ [Next]_vars => IInv'
<1> SUFFICES ASSUME IInv, [Next]_vars, ~exhausted' PROVE Inv'
  BY DEF IInv
<1>1. Inv /\ ~exhausted
  BY Lasting DEF IInv
<1>2. ASSUME UNCHANGED vars PROVE Inv'
  BY <1>1, <1>2, Stutter
<1>3. ASSUME MapDevice PROVE Inv'
  BY <1>1, <1>3, MapDeviceStep
<1>4. ASSUME MapHeap PROVE Inv'
  BY <1>1, <1>4, MapHeapStep
<1>5. ASSUME NewTable PROVE Inv'
  BY <1>1, <1>5, NewTableStep
<1>6. ASSUME Link PROVE Inv'
  BY <1>1, <1>6, LinkStep
<1>7. ASSUME Descend PROVE Inv'
  BY <1>1, <1>7, DescendStep
<1>8. ASSUME SetEntry PROVE Inv'
  BY <1>1, <1>8, SetEntryStep
<1>9. ASSUME Invlpg PROVE Inv'
  BY <1>1, <1>9, InvlpgStep
<1>10. ASSUME Fill PROVE Inv'
  BY <1>1, <1>10, FillStep
<1>11. QED
  BY <1>2, <1>3, <1>4, <1>5, <1>6, <1>7, <1>8, <1>9, <1>10 DEF Next, Kernel

(* The inductive invariant: while pages last, the tables are a tree of     *)
(* frames nobody else has, each table and each page to come is in reach    *)
(* until the kernel goes astray, and a call is where its page's walk is.   *)
THEOREM Invariance == Spec => []IInv
<1>1. QED
  BY InitInv, StepInv, PTL DEF Spec

(* The page tables stay a tree: no two ways lead to a table, a page is a   *)
(* table only in the direct map, and no table can still be handed out.     *)
THEOREM TreeCorrect == Spec => []TablesAreATree
<1>1. IInv => TablesAreATree
  <2>1. SUFFICES ASSUME Inv
                 PROVE  /\ \A s, t \in Tables : s[1] = t[1] => s = t
                        /\ \A v \in Pages :
                             Translation(v) \in FramesIn(mem) => DirectMap[Translation(v)] = v
                        /\ FramesIn(mem) \cap pool = {}
    BY DEF IInv, TablesAreATree, FramesIn, Tables
  <2>2. \A s, t \in Tables : s[1] = t[1] => s = t
    <3>1. OneWay(mem)
      BY <2>1 DEF Inv, Tidy, Fit
    <3>2. QED
      BY <3>1, OneWayTree DEF Tables
  <2>3. FramesIn(mem) \subseteq Own
    BY DEF Own
  <2>4. \A v \in Pages : TranslationIn(mem, v) \in Own => DirectMap[TranslationIn(mem, v)] = v
    BY <2>1 DEF Inv, Tidy
  <2>5. \A v \in Pages : Translation(v) \in FramesIn(mem) => DirectMap[Translation(v)] = v
    BY <2>3, <2>4 DEF Translation
  <2>6. FramesIn(mem) \cap pool = {}
    BY <2>1 DEF Inv, Tidy
  <2>7. QED
    BY <2>2, <2>5, <2>6
<1>2. QED
  BY <1>1, Invariance, PTL

(* The processor never uses a translation the tables do not give, but for  *)
(* the page about to be invalidated.                                       *)
THEOREM TlbCorrect == Spec => []TlbCoherent
<1>1. IInv => TlbCoherent
  BY DEF IInv, Inv, TlbCoherent
<1>2. QED
  BY <1>1, Invariance, PTL

(* Mapping never takes the direct map from under the kernel, unless the    *)
(* heap's window lies over it.                                             *)
THEOREM DirectMapCorrect == Spec => []DirectMapKept
<1>1. IInv => DirectMapKept
  BY DEF IInv, Inv, DirectMapKept
<1>2. QED
  BY <1>1, Invariance, PTL
-----------------------------------------------------------------------------
(* The address space *)

LEMMA InitRefines == Init => Promise!Init
<1> SUFFICES ASSUME Init PROVE Promise!Init
  OBVIOUS
<1>1. Inv
  BY InitInv DEF IInv, Init
<1>2. [v \in Pages |-> Translation(v)] \in [Pages -> Frames \cup {NULL}]
  BY <1>1 DEF Inv, Tidy, Translation
<1>3. pc = "idle" /\ exhausted = FALSE /\ astray = FALSE
  BY DEF Init
<1>4. QED
  BY <1>2, <1>3 DEF Promise!Init, Promise!Spaces

LEMMA StepRefines == IInv /\ [Next]_vars => [Promise!Next]_(Promise!vars)
<1> SUFFICES ASSUME IInv, [Next]_vars PROVE [Promise!Next]_(Promise!vars)
  OBVIOUS
<1> DEFINE space == [v \in Pages |-> Translation(v)]
           want == IF pc \in {"walk", "link"} THEN <<virt, phys>> ELSE NULL
           failed == exhausted \/ astray
<1>1. CASE exhausted' \/ astray'
  BY <1>1 DEF Promise!Next, Promise!Fail
<1>2. ASSUME ~exhausted', ~astray' PROVE [Promise!Next]_(Promise!vars)
  <2>1. Inv /\ ~exhausted /\ ~astray
    BY <1>2, Lasting DEF IInv
  <2>2. failed' = failed /\ failed = FALSE
    BY <1>2, <2>1
  <2>3. ASSUME \A v \in Pages : TranslationIn(mem', v) = TranslationIn(mem, v)
        PROVE  space' = space
    BY <2>3 DEF Translation
  <2>4. ASSUME space' = space, want' = want PROVE [Promise!Next]_(Promise!vars)
    BY <2>2, <2>4 DEF Promise!vars
  <2>5. ASSUME NEW v \in Pages, NEW f \in Frames, Enter(v, f) PROVE [Promise!Next]_(Promise!vars)
    <3>1. mem' = mem /\ pc = "idle" /\ pc' = "walk" /\ virt' = v /\ phys' = f
      BY <2>5 DEF Enter
    <3>2. want = NULL /\ want' = <<v, f>> /\ space' = space
      BY <2>3, <3>1
    <3>3. Promise!Request(v, f)
      BY <2>2, <3>2 DEF Promise!Request
    <3>4. QED
      BY <3>3 DEF Promise!Next
  <2>6. CASE UNCHANGED vars
    BY <2>3, <2>4, <2>6 DEF vars, args
  <2>7. CASE MapDevice
    BY <2>5, <2>7, MapsFacts DEF MapDevice
  <2>8. CASE MapHeap
    BY <2>1, <2>5, <2>8, WindowPages DEF MapHeap, Inv
  <2>9. CASE NewTable
    <3>1. want' = want
      BY <2>9 DEF NewTable, args
    <3>2. space' = space
      BY <1>2, <2>1, <2>3, <2>9, NewTableStep
    <3>3. QED
      BY <2>4, <3>1, <3>2
  <2>10. CASE Link
    <3>1. want' = want
      BY <2>10 DEF Link, args
    <3>2. space' = space
      BY <1>2, <2>1, <2>3, <2>10, LinkStep
    <3>3. QED
      BY <2>4, <3>1, <3>2
  <2>11. CASE Descend
    <3>1. want' = want /\ mem' = mem
      BY <2>11 DEF Descend, args
    <3>2. QED
      BY <2>3, <2>4, <3>1
  <2>12. CASE SetEntry
    <3>1. pc = "walk" /\ pc' = "invlpg"
      BY <2>12 DEF SetEntry
    <3>2. virt \in Pages /\ phys \in Frames
      BY <2>1, <3>1, Located
    <3>3. want = <<virt, phys>> /\ want' = NULL
      BY <3>1
    <3>4. want # NULL
      <4>1. <<virt, phys>> \in Pages \X Frames
        BY <3>2
      <4>2. QED
        BY <3>3, <4>1, PagingAssumption
    <3>5. want[1] = virt /\ want[2] = phys
      BY <3>3
    <3>6. space' = [space EXCEPT ![want[1]] = want[2]]
      <4>1. /\ TranslationIn(mem', virt) = phys
            /\ \A v \in Pages \ {virt} : TranslationIn(mem', v) = TranslationIn(mem, v)
        BY <1>2, <2>1, <2>12, SetEntryStep
      <4>2. space' = [space EXCEPT ![virt] = phys]
        BY <4>1, <3>2 DEF Translation
      <4> HIDE DEF space, want
      <4>3. QED
        BY <3>5, <4>2
    <3>7. Promise!Map
      <4> HIDE DEF space, want, failed
      <4>1. ~failed /\ failed' = failed
        BY <2>2
      <4>2. QED
        BY <3>3, <3>4, <3>6, <4>1 DEF Promise!Map, space, want, failed
    <3>8. QED
      BY <3>7 DEF Promise!Next
  <2>13. CASE Invlpg
    <3>1. pc = "invlpg" /\ pc' = "idle" /\ mem' = mem
      BY <2>13 DEF Invlpg
    <3>2. want' = want
      BY <3>1
    <3>3. QED
      BY <2>3, <2>4, <3>1, <3>2
  <2>14. CASE Fill
    <3>1. want' = want /\ mem' = mem
      BY <2>14 DEF Fill, args
    <3>2. QED
      BY <2>3, <2>4, <3>1
  <2>15. QED
    BY <2>6, <2>7, <2>8, <2>9, <2>10, <2>11, <2>12, <2>13, <2>14 DEF Next, Kernel
<1>3. QED
  BY <1>1, <1>2

(* vmm_alloc implements AddressSpace: a call changes one translation, in   *)
(* one step, and until then and after it none, however many tables it      *)
(* makes.                                                                  *)
THEOREM Implements == Spec => ImplementsAddressSpace
<1>1. Spec => Promise!Init /\ [][Promise!Next]_(Promise!vars)
  BY InitRefines, StepRefines, Invariance, PTL DEF Spec
<1>2. QED
  BY <1>1 DEF ImplementsAddressSpace, Promise!Spec
-----------------------------------------------------------------------------
(* Types, also when the pages have run out                                 *)

Typed ==
  /\ TypeOK
  /\ ~astray => Reachable
  /\ pc # "idle" => virt \in Pages /\ phys \in Frames
  /\ pc \in {"walk", "link"} => level \in 1 .. Levels /\ table \in Frames
  /\ pc = "link" => new_table \in Frames

LEMMA RootTable ==
  ASSUME NEW m
  PROVE  Root \in FramesIn(m)
<1>1. DirectMap[BitmapFrame] \in Virtuals
  BY MapsFacts
<1>2. PICK v : v \in Virtuals
  BY <1>1
<1>3. WalkIn(m, v)[0] = Small(Root) /\ 0 \in 0 .. Levels - 1
  BY WalkIs, LevelsNat
<1>4. IsTable(Small(Root)) /\ Small(Root).frame = Root
  BY RootEntry, SmallEntry
<1>5. QED
  BY <1>2, <1>3, <1>4, FrameAt

LEMMA InitTyped == Init => Typed
<1> SUFFICES ASSUME Init PROVE Typed
  OBVIOUS
<1>1. Inv /\ pc = "idle" /\ table = NULL
  BY InitInv DEF IInv, Init
<1>2. Reachable
  <2>1. \A f \in Own \cup {BitmapFrame} : TranslationIn(mem, DirectMap[f]) = f
    BY <1>1 DEF Inv, InReach, Init
  <2>2. TableFrames \cup ({table} \ {NULL}) \cup pool \subseteq Own
    BY <1>1, FramesOf DEF Own
  <2>3. QED
    BY <2>1, <2>2 DEF Reachable, Through, Translation
<1>3. QED
  BY <1>1, <1>2 DEF Inv, Typed

(* The memory after a write is one, wherever the write went.               *)
LEMMA MemoryTyped ==
  ASSUME Typed, NEW f
  PROVE  /\ Clear(f) \in Memories
         /\ pc \in {"walk", "link"} /\ ~astray /\ f \in Frames /\ SetSlot(f) => mem' \in Memories
<1>1. mem \in Memories
  BY DEF Typed, TypeOK
<1>2. Clear(f) \in Memories
  <2>1. Empty \in [Idx -> Entries \cup {NULL}]
    BY DEF Empty
  <2>2. QED
    BY <1>1, <2>1 DEF Clear, Memories
<1>3. ASSUME pc \in {"walk", "link"}, ~astray, f \in Frames, SetSlot(f) PROVE mem' \in Memories
  <2>1. table \in Frames /\ Through(table) = table
    BY <1>3, MapsFacts DEF Typed, Reachable
  <2>2. virt[level] \in Idx
    BY <1>3, MapsFacts DEF Typed, Virtuals
  <2>3. Small(f) \in Entries
    BY <1>3, SmallEntry
  <2> DEFINE n == [mem EXCEPT ![table][virt[level]] = Small(f)]
  <2>4. mem' = n
    BY <1>3, <2>1 DEF SetSlot
  <2>5. n \in Memories
    BY <1>1, <2>1, <2>2, <2>3, SlotWritten
  <2>6. QED
    BY <2>4, <2>5
<1>4. QED
  BY <1>2, <1>3

LEMMA AllocTyped ==
  ASSUME Typed, NEW f \in Frames, Alloc(f)
  PROVE  pool' \subseteq pool /\ pool' \subseteq Free /\ exhausted' \in BOOLEAN
  BY DEF Alloc, TakeFromPool, Typed, TypeOK

LEMMA EnterTyped ==
  ASSUME Typed, NEW v \in Pages, NEW f \in Frames, Enter(v, f),
         pool' \subseteq pool, pool' \subseteq Free, exhausted' \in BOOLEAN
  PROVE  Typed'
<1>1. /\ pc = "idle" /\ ~astray /\ pc' = "walk" /\ virt' = v /\ phys' = f
      /\ level' = 1 /\ table' = Root /\ new_table' = NULL
      /\ mem' = mem /\ window' = window /\ tlb' = tlb /\ astray' = astray
  BY DEF Enter
<1>2. Root \in Frames /\ 1 \in 0 .. Levels /\ 1 \in 1 .. Levels
  BY RootEntry, LevelsNat
<1>3. TypeOK'
  BY <1>1, <1>2 DEF Typed, TypeOK
<1>4. Reachable'
  <2>1. Reachable /\ TableFrames' = TableFrames /\ Root \in TableFrames
    BY <1>1, RootTable, FramesOf DEF Typed, TableFrames, Tables
  <2>2. QED
    BY <1>1, <2>1 DEF Reachable, Through, Translation
<1>5. QED
  BY <1>1, <1>2, <1>3, <1>4 DEF Typed

LEMMA StepTyped == Typed /\ [Next]_vars => Typed'
<1> SUFFICES ASSUME Typed, [Next]_vars PROVE Typed'
  OBVIOUS
<1>1. TypeOK /\ (~astray => Reachable)
  BY DEF Typed
<1>2. CASE UNCHANGED vars
  BY <1>2 DEF vars, args, walk, Typed, TypeOK, Reachable, TableFrames, Tables, Through, Translation
<1>3. CASE MapDevice
  <2>1. PICK f \in Mmio : Enter(DirectMap[f], f) /\ UNCHANGED <<pool, exhausted>>
    BY <1>3 DEF MapDevice
  <2>2. f \in Frames /\ DirectMap[f] \in Pages
    BY MapsFacts
  <2>3. pool' \subseteq pool /\ pool' \subseteq Free /\ exhausted' \in BOOLEAN
    BY <1>1, <2>1 DEF TypeOK
  <2>4. QED
    BY <2>1, <2>2, <2>3, EnterTyped
<1>4. CASE MapHeap
  BY <1>1, <1>4, WindowPages, AllocTyped, EnterTyped DEF MapHeap
<1>5. CASE NewTable
  <2>1. PICK f \in Frames : Alloc(f) /\ new_table' = f /\ mem' = Clear(f)
    BY <1>5 DEF NewTable
  <2>2. /\ pc = "walk" /\ pc' = "link" /\ window' = window /\ tlb' = tlb /\ virt' = virt /\ phys' = phys
        /\ level' = level /\ table' = table /\ astray' = ~Reachable'
    BY <1>5 DEF NewTable, args
  <2>3. pool' \subseteq Free /\ exhausted' \in BOOLEAN /\ mem' \in Memories /\ astray' \in BOOLEAN
    BY <2>1, <2>2, AllocTyped, MemoryTyped
  <2>4. TypeOK'
    BY <1>1, <2>1, <2>2, <2>3 DEF TypeOK
  <2>5. QED
    BY <2>1, <2>2, <2>4 DEF Typed
<1>6. CASE Link
  <2>1. /\ pc = "link" /\ pc' = "walk" /\ ~astray /\ SetSlot(new_table)
        /\ pool' = pool /\ window' = window /\ tlb' = tlb /\ virt' = virt /\ phys' = phys
        /\ level' = level /\ table' = table /\ new_table' = new_table /\ exhausted' = exhausted
        /\ astray' = ~Reachable'
    BY <1>6 DEF Link, args, walk
  <2>2. mem' \in Memories /\ astray' \in BOOLEAN
    BY <2>1, MemoryTyped DEF Typed
  <2>3. TypeOK'
    BY <1>1, <2>1, <2>2 DEF TypeOK
  <2>4. QED
    BY <2>1, <2>3 DEF Typed
<1>7. CASE Descend
  <2>1. /\ pc = "walk" /\ ~astray /\ level < Levels /\ Slot # NULL
        /\ table' = Slot.frame /\ astray' = (Slot.large \/ ~Reachable') /\ level' = level + 1
        /\ mem' = mem /\ pool' = pool /\ window' = window /\ tlb' = tlb /\ pc' = "walk"
        /\ virt' = virt /\ phys' = phys /\ new_table' = new_table /\ exhausted' = exhausted
    BY <1>7 DEF Descend, args, MoreLevels
  <2>2. virt \in Virtuals /\ level \in 1 .. Levels /\ table \in Frames /\ Through(table) = table
    BY <2>1, MapsFacts DEF Typed, Reachable
  <2>3. mem[table] \in [Idx -> Entries \cup {NULL}] /\ virt[level] \in Idx
    BY <1>1, <2>2 DEF TypeOK, Memories, Virtuals
  <2>4. Slot \in Entries
    BY <2>1, <2>2, <2>3 DEF Slot
  <2>5. Slot.frame \in Frames /\ level' \in 1 .. Levels /\ level' \in 0 .. Levels /\ astray' \in BOOLEAN
    BY <2>1, <2>2, <2>4, LevelsNat DEF Entries
  <2>6. TypeOK'
    BY <1>1, <2>1, <2>5 DEF TypeOK
  <2>7. QED
    BY <2>1, <2>5, <2>6 DEF Typed
<1>8. CASE SetEntry
  <2>1. /\ pc = "walk" /\ pc' = "invlpg" /\ ~astray /\ SetSlot(phys)
        /\ pool' = pool /\ window' = window /\ tlb' = tlb /\ virt' = virt /\ phys' = phys
        /\ level' = level /\ table' = table /\ new_table' = new_table /\ exhausted' = exhausted
        /\ astray' = ~Reachable'
    BY <1>8 DEF SetEntry, args, walk
  <2>2. mem' \in Memories /\ astray' \in BOOLEAN
    BY <2>1, MemoryTyped DEF Typed
  <2>3. TypeOK'
    BY <1>1, <2>1, <2>2 DEF TypeOK
  <2>4. QED
    BY <2>1, <2>3 DEF Typed
<1>9. CASE Invlpg
  <2>1. /\ pc' = "idle" /\ tlb' = [tlb EXCEPT ![virt] = NULL]
        /\ virt' = NULL /\ phys' = NULL /\ level' = 0 /\ table' = NULL /\ new_table' = NULL
        /\ mem' = mem /\ pool' = pool /\ window' = window /\ exhausted' = exhausted /\ astray' = astray
    BY <1>9 DEF Invlpg, Flush
  <2>2. tlb' \in [Pages -> Frames \cup {NULL}] /\ 0 \in 0 .. Levels
    <3>1. tlb \in [Pages -> Frames \cup {NULL}] /\ 0 \in 0 .. Levels
      BY <1>1, LevelsNat DEF TypeOK
    <3>2. QED
      BY <2>1, <3>1
  <2>3. TypeOK'
    BY <1>1, <2>1, <2>2 DEF TypeOK
  <2>4. ~astray' => Reachable'
    BY <1>1, <2>1 DEF Reachable, TableFrames, Tables, Through, Translation
  <2>5. QED
    BY <2>1, <2>3, <2>4 DEF Typed
<1>10. CASE Fill
  <2>1. PICK v \in window \cup {DirectMap[f] : f \in Mmio} :
          /\ Translation(v) \in Frames
          /\ tlb' = [tlb EXCEPT ![v] = Translation(v)]
          /\ UNCHANGED <<mem, pool, window, pc, args, walk, exhausted, astray>>
    BY <1>10 DEF Fill
  <2>2. /\ pc' = pc /\ virt' = virt /\ phys' = phys /\ level' = level /\ table' = table
        /\ new_table' = new_table /\ mem' = mem /\ pool' = pool /\ window' = window
        /\ exhausted' = exhausted /\ astray' = astray
    BY <2>1 DEF args, walk
  <2>3. tlb' \in [Pages -> Frames \cup {NULL}]
    BY <1>1, <2>1 DEF TypeOK
  <2>4. TypeOK'
    BY <1>1, <2>2, <2>3 DEF TypeOK
  <2>5. ~astray' => Reachable'
    BY <1>1, <2>2 DEF Reachable, TableFrames, Tables, Through, Translation
  <2>6. QED
    BY <2>2, <2>4, <2>5 DEF Typed
<1>11. QED
  BY <1>2, <1>3, <1>4, <1>5, <1>6, <1>7, <1>8, <1>9, <1>10 DEF Next, Kernel

(* vmm_alloc's variables, the tables and what the processor keeps have     *)
(* their types, also when the pages have run out and page 0 is a table.    *)
THEOREM TypeCorrect == Spec => []TypeOK
<1>1. Typed => TypeOK
  BY DEF Typed
<1>2. QED
  BY <1>1, InitTyped, StepTyped, PTL DEF Spec
=============================================================================
