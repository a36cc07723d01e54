---------------------------- MODULE SerialProofs ----------------------------
(***************************************************************************)
(* What holds of the keyboard's interrupts, alone and with a handler that  *)
(* prints on the serial port, of the port, and of the text that the two    *)
(* printers send through it: for any number of keys, any formats, strings, *)
(* numbers and bases, and a FIFO of any size from two characters on.       *)
(***************************************************************************)
EXTENDS Serial, FiniteSetTheorems, TLAPS

-----------------------------------------------------------------------------
(* Sequences *)

(* Induction, without the theorem that takes an operator: a set that has 0 *)
(* and each next number has all up to n, or the next number would be a     *)
(* one-to-one function from those below n into fewer.                      *)
LEMMA UpTo ==
  ASSUME NEW n \in Nat, NEW S, 0 \in S, \A k \in 0 .. n - 1 : k \in S => k + 1 \in S
  PROVE  n \in S
<1> SUFFICES ASSUME n \notin S PROVE FALSE
  OBVIOUS
<1> DEFINE T == {k \in 0 .. n - 1 : k \in S}
           next == [k \in T |-> k + 1]
<1>1. IsFiniteSet(T)
  <2>1. IsFiniteSet(0 .. n - 1)
    BY FS_Interval
  <2>2. T \in SUBSET (0 .. n - 1)
    OBVIOUS
  <2> HIDE DEF T
  <2>3. QED
    BY <2>1, <2>2, FS_Subset
<1>2. 0 \in T
  OBVIOUS
<1>3. IsFiniteSet(T \ {0}) /\ Cardinality(T \ {0}) < Cardinality(T)
  <2> HIDE DEF T
  <2>1. IsFiniteSet(T \ {0}) /\ Cardinality(T \ {0}) = Cardinality(T) - 1
    BY <1>1, <1>2, FS_RemoveElement
  <2>2. Cardinality(T) \in Nat
    BY <1>1, FS_CardinalityType
  <2>3. QED
    BY <2>1, <2>2
<1>4. next \in [T -> T \ {0}]
  <2>1. \A k \in T : k + 1 \in T \ {0}
    OBVIOUS
  <2>2. QED
    BY <2>1
<1>5. \A x, y \in T : next[x] = next[y] => x = y
  OBVIOUS
<1> HIDE DEF T, next
<1>6. \E x, y \in T : x # y /\ next[x] = next[y]
  BY <1>1, <1>3, <1>4, FS_PigeonHole
<1>7. QED
  BY <1>5, <1>6

(* A recursive function over 0 .. n, when each value is made of the one    *)
(* before.                                                                 *)
Follows(f, n, a, next) == f[0] = a /\ \A k \in 1 .. n : f[k] = next[k][f[k - 1]]

LEMMA Recursion ==
  ASSUME NEW n \in Nat, NEW V, NEW a \in V, NEW next \in [1 .. n -> [V -> V]]
  PROVE  \E f \in [0 .. n -> V] : Follows(f, n, a, next)
<1> DEFINE Unfolds(m, f) == f \in [0 .. m -> V] /\ Follows(f, m, a, next)
           S == {m \in 0 .. n : \E f : Unfolds(m, f)}
<1>1. 0 \in S
  <2>1. Unfolds(0, [k \in 0 .. 0 |-> a])
    BY DEF Follows
  <2> HIDE DEF Unfolds
  <2>2. QED
    BY <2>1
<1>2. ASSUME NEW m \in 0 .. n - 1, m \in S PROVE m + 1 \in S
  <2>1. PICK f : Unfolds(m, f)
    BY <1>2
  <2> DEFINE g == [k \in 0 .. m + 1 |-> IF k = m + 1 THEN next[k][f[k - 1]] ELSE f[k]]
  <2>2. f[m] \in V /\ m + 1 \in 1 .. n
    BY <2>1
  <2>3. g \in [0 .. m + 1 -> V]
    BY <2>1, <2>2
  <2>4. g[0] = a
    BY <2>1 DEF Follows
  <2>5. \A k \in 0 .. m : g[k] = f[k]
    OBVIOUS
  <2>6. g[m + 1] = next[m + 1][f[m]]
    OBVIOUS
  <2> HIDE DEF g
  <2>7. ASSUME NEW k \in 1 .. m + 1 PROVE g[k] = next[k][g[k - 1]]
    <3>1. CASE k = m + 1
      BY <3>1, <2>5, <2>6
    <3>2. CASE k # m + 1
      BY <3>2, <2>1, <2>5 DEF Follows
    <3>3. QED
      BY <3>1, <3>2
  <2>8. Unfolds(m + 1, g)
    BY <2>3, <2>4, <2>7 DEF Follows
  <2> HIDE DEF Unfolds
  <2>9. QED
    BY <2>8
<1>3. n \in S
  <2> HIDE DEF S
  <2>1. QED
    BY <1>1, <1>2, UpTo
<1>4. QED
  BY <1>3

(* A sequence is in a set that has the empty one and each next prefix.     *)
LEMMA ByPrefixes ==
  ASSUME NEW X, NEW s \in Seq(X), NEW S, <<>> \in S,
         \A n \in 0 .. Len(s) - 1 : SubSeq(s, 1, n) \in S => SubSeq(s, 1, n + 1) \in S
  PROVE  s \in S
<1> DEFINE T == {n \in 0 .. Len(s) : SubSeq(s, 1, n) \in S}
<1>1. 0 \in T
  <2>1. SubSeq(s, 1, 0) = <<>> /\ Len(s) \in Nat
    OBVIOUS
  <2>2. SubSeq(s, 1, 0) \in S
    BY <2>1, Zenon
  <2>3. 0 \in 0 .. Len(s)
    BY <2>1
  <2>4. QED
    BY <2>2, <2>3, Zenon
<1>2. \A n \in 0 .. Len(s) - 1 : n \in T => n + 1 \in T
  OBVIOUS
<1>3. Len(s) \in T
  <2> HIDE DEF T
  <2>1. QED
    BY <1>1, <1>2, UpTo
<1>4. SubSeq(s, 1, Len(s)) = s
  OBVIOUS
<1>5. SubSeq(s, 1, Len(s)) \in S
  BY <1>3
<1>6. QED
  BY <1>4, <1>5

LEMMA NextPrefix ==
  ASSUME NEW X, NEW s \in Seq(X), NEW n \in 0 .. Len(s) - 1
  PROVE  /\ SubSeq(s, 1, n) \in Seq(X) /\ Len(SubSeq(s, 1, n)) = n
         /\ s[n + 1] \in X
         /\ SubSeq(s, 1, n + 1) = Append(SubSeq(s, 1, n), s[n + 1])
OBVIOUS

LEMMA Appended ==
  ASSUME NEW X, NEW s \in Seq(X), NEW e \in X
  PROVE  /\ Append(s, e) \in Seq(X) /\ Len(Append(s, e)) = Len(s) + 1
         /\ Append(s, e)[Len(s) + 1] = e
         /\ \A k \in 1 .. Len(s) : Append(s, e)[k] = s[k]
OBVIOUS

Regroups(r, s, t) == (r \o s) \o t = r \o (s \o t)

LEMMA Associative ==
  ASSUME NEW X, NEW r \in Seq(X), NEW s \in Seq(X), NEW t \in Seq(X)
  PROVE  Regroups(r, s, t)
BY DEF Regroups

LEMMA Cancel ==
  ASSUME NEW X, NEW r \in Seq(X), NEW s \in Seq(X), NEW t \in Seq(X), r \o s = r \o t
  PROVE  s = t
<1>1. Len(s) = Len(t)
  <2>1. Len(r \o s) = Len(r) + Len(s) /\ Len(r \o t) = Len(r) + Len(t)
    OBVIOUS
  <2>2. QED
    BY <2>1
<1>2. ASSUME NEW k \in 1 .. Len(s) PROVE s[k] = t[k]
  <2>1. (r \o s)[Len(r) + k] = s[k] /\ (r \o t)[Len(r) + k] = t[k]
    BY <1>1
  <2>2. QED
    BY <2>1
<1>3. QED
  BY <1>1, <1>2

(* FlattenSeq is the last value of a recursive function, which is the same *)
(* for a longer sequence.                                                  *)
Joins(E, at) ==
  /\ at[0] = <<>> /\ FlattenSeq(E) = at[Len(E)]
  /\ \A k \in 1 .. Len(E) : at[k] = at[k - 1] \o E[k]

LEMMA FlattenIs ==
  ASSUME NEW X, NEW E \in Seq(Seq(X))
  PROVE  \E at \in [0 .. Len(E) -> Seq(X)] : Joins(E, at)
<1> DEFINE n == Len(E)
           next == [k \in 1 .. n |-> [s \in Seq(X) |-> s \o E[k]]]
<1>1. n \in Nat /\ <<>> \in Seq(X) /\ \A k \in 1 .. n : E[k] \in Seq(X)
  OBVIOUS
<1>2. next \in [1 .. n -> [Seq(X) -> Seq(X)]]
  BY <1>1
<1>3. PICK at \in [0 .. n -> Seq(X)] : Follows(at, n, <<>>, next)
  <2> DEFINE V == Seq(X)
             a == <<>>
  <2>1. n \in Nat /\ a \in V /\ next \in [1 .. n -> [V -> V]]
    BY <1>1, <1>2
  <2> HIDE DEF next, n, V, a
  <2>2. \E f \in [0 .. n -> V] : Follows(f, n, a, next)
    BY <2>1, Recursion
  <2>3. QED
    BY <2>2 DEF V, a
<1>4. at[0] = <<>> /\ \A k \in 1 .. n : at[k] = at[k - 1] \o E[k]
  <2>1. \A k \in 1 .. n : k - 1 \in 0 .. n
    BY <1>1
  <2>2. \A k \in 1 .. n : at[k - 1] \in Seq(X)
    BY <2>1
  <2> HIDE DEF n
  <2>3. QED
    BY <1>3, <2>2 DEF Follows
<1> HIDE DEF next
<1>5. CASE n = 0
  BY <1>4, <1>5, E = <<>> DEF FlattenSeq, Joins
<1>6. CASE n # 0
  <2> DEFINE u == [k \in 1 .. n |-> at[k]]
             flat == CHOOSE f : f = [k \in 1 .. n |-> IF k = 1 THEN E[k] ELSE f[k - 1] \o E[k]]
  <2>1. \A k \in 1 .. n : u[k] = IF k = 1 THEN E[k] ELSE u[k - 1] \o E[k]
    <3>1. at[1] = E[1]
      <4>0. 1 \in 1 .. n /\ 1 - 1 = 0
        BY <1>1, <1>6
      <4>1. at[1] = <<>> \o E[1] /\ E[1] \in Seq(X)
        <5> HIDE DEF n
        <5>1. at[1] = at[1 - 1] \o E[1]
          BY <1>4, <4>0
        <5>2. QED
          BY <1>1, <1>4, <4>0, <5>1
      <4>2. QED
        BY <4>1
    <3>2. \A k \in 1 .. n : k # 1 => u[k] = u[k - 1] \o E[k]
      <4>1. \A k \in 1 .. n : k # 1 => k - 1 \in 1 .. n /\ at[k] = at[k - 1] \o E[k]
        <5>1. \A k \in 1 .. n : k # 1 => k - 1 \in 1 .. n
          BY <1>1
        <5> HIDE DEF n
        <5>2. QED
          BY <1>4, <5>1
      <4> HIDE DEF n
      <4>2. QED
        BY <4>1
    <3>3. QED
      BY <3>1, <3>2
  <2>2. u = [k \in 1 .. n |-> IF k = 1 THEN E[k] ELSE u[k - 1] \o E[k]]
    <3>1. u = [k \in 1 .. n |-> u[k]]
      OBVIOUS
    <3> HIDE DEF u
    <3>2. QED
      BY <2>1, <3>1, Zenon
  <2>3. flat = [k \in 1 .. n |-> IF k = 1 THEN E[k] ELSE flat[k - 1] \o E[k]]
    <3> HIDE DEF u
    <3>1. QED
      BY <2>2
  <2>4. FlattenSeq(E) = flat[n]
    BY <1>6 DEF FlattenSeq
  <2> HIDE DEF flat, u
  <2>7. \A k \in 1 .. n : flat[k] = IF k = 1 THEN E[k] ELSE flat[k - 1] \o E[k]
    <3> HIDE DEF n
    <3>1. QED
      BY <2>3, Zenon
  <2> DEFINE S == {k \in 0 .. n : k = 0 \/ flat[k] = at[k]}
  <2>5. n \in S
    <3>1. 0 \in S
      BY <1>1
    <3>2. ASSUME NEW k \in 0 .. n - 1, k \in S PROVE k + 1 \in S
      <4>1. k + 1 \in 1 .. n
        BY <1>1
      <4>2. flat[k + 1] = IF k + 1 = 1 THEN E[k + 1] ELSE flat[k + 1 - 1] \o E[k + 1]
        <5> HIDE DEF n
        <5>1. QED
          BY <2>7, <4>1
      <4>3. at[k + 1] = at[k] \o E[k + 1] /\ E[k + 1] \in Seq(X)
        <5>1. (k + 1) - 1 = k
          OBVIOUS
        <5>2. QED
          BY <1>1, <1>4, <4>1, <5>1
      <4>4. CASE k = 0
        BY <4>1, <4>2, <4>3, <4>4, <1>4
      <4>5. CASE k # 0
        <5>1. k + 1 # 1 /\ k + 1 - 1 = k /\ flat[k] = at[k]
          BY <4>5, <3>2
        <5>2. flat[k + 1] = at[k + 1]
          BY <4>2, <4>3, <5>1
        <5>3. QED
          BY <4>1, <5>2
      <4>6. QED
        BY <4>4, <4>5
    <3> HIDE DEF S
    <3>3. QED
      BY <1>1, <3>1, <3>2, UpTo
  <2>6. QED
    BY <1>4, <1>6, <2>4, <2>5 DEF Joins
<1>7. QED
  BY <1>5, <1>6

LEMMA FlattenType ==
  ASSUME NEW X, NEW E \in Seq(Seq(X))
  PROVE  FlattenSeq(E) \in Seq(X)
<1>1. PICK at \in [0 .. Len(E) -> Seq(X)] : Joins(E, at)
  BY FlattenIs
<1>2. QED
  BY <1>1 DEF Joins

LEMMA FlattenNone == FlattenSeq(<<>>) = <<>>
BY DEF FlattenSeq

LEMMA FlattenAppend ==
  ASSUME NEW X, NEW E \in Seq(Seq(X)), NEW s \in Seq(X)
  PROVE  FlattenSeq(Append(E, s)) = FlattenSeq(E) \o s
<1> DEFINE F == Append(E, s)
           n == Len(E)
<1>1. /\ F \in Seq(Seq(X)) /\ Len(F) = n + 1 /\ F[n + 1] = s /\ n \in Nat
      /\ \A k \in 1 .. n : F[k] = E[k]
  OBVIOUS
<1> HIDE DEF F
<1>2. PICK at \in [0 .. n -> Seq(X)] : Joins(E, at)
  BY FlattenIs
<1>3. PICK bt \in [0 .. Len(F) -> Seq(X)] : Joins(F, bt)
  BY <1>1, FlattenIs
<1> DEFINE S == {k \in 0 .. n : at[k] = bt[k]}
<1> HIDE DEF n
<1>4. 0 \in S
  BY <1>1, <1>2, <1>3 DEF Joins
<1>5. ASSUME NEW k \in 0 .. n - 1, k \in S PROVE k + 1 \in S
  <2>1. k + 1 \in 1 .. n /\ (k + 1) - 1 = k /\ k + 1 \in 0 .. n /\ k + 1 \in 1 .. Len(F)
    BY <1>1
  <2>2. at[k + 1] = at[(k + 1) - 1] \o E[k + 1]
    BY <1>2, <2>1 DEF Joins, n
  <2>3. bt[k + 1] = bt[(k + 1) - 1] \o F[k + 1]
    BY <1>3, <2>1 DEF Joins
  <2>4. E[k + 1] = F[k + 1] /\ at[k] = bt[k]
    BY <1>1, <1>5, <2>1
  <2>5. at[k + 1] = bt[k + 1]
    BY <2>1, <2>2, <2>3, <2>4
  <2>6. QED
    BY <2>1, <2>5
<1>6. at[n] = bt[n]
  <2>1. n \in S
    <3> HIDE DEF S
    <3>1. QED
      BY <1>1, <1>4, <1>5, UpTo
  <2>2. QED
    BY <2>1
<1>7. FlattenSeq(E) = at[n]
  BY <1>2 DEF Joins, n
<1>8. FlattenSeq(F) = bt[n + 1] /\ bt[n + 1] = bt[n] \o s
  <2>1. n + 1 \in 1 .. Len(F) /\ (n + 1) - 1 = n
    BY <1>1
  <2>2. FlattenSeq(F) = bt[Len(F)] /\ bt[n + 1] = bt[(n + 1) - 1] \o F[n + 1]
    BY <1>3, <2>1 DEF Joins
  <2>3. QED
    BY <1>1, <2>1, <2>2
<1>9. QED
  BY <1>6, <1>7, <1>8 DEF F

LEMMA ConsAppend ==
  ASSUME NEW X, NEW s \in X, NEW F \in Seq(X), NEW e \in X
  PROVE  /\ <<s>> \o F \in Seq(X) /\ Append(F, e) \in Seq(X)
         /\ <<s>> \o Append(F, e) = Append(<<s>> \o F, e)
OBVIOUS

(* What comes first, and what a prefix has not got.                        *)
LEMMA FlattenCons ==
  ASSUME NEW X, NEW s \in Seq(X), NEW E \in Seq(Seq(X))
  PROVE  FlattenSeq(<<s>> \o E) = s \o FlattenSeq(E)
<1> DEFINE S == {F \in Seq(Seq(X)) : FlattenSeq(<<s>> \o F) = s \o FlattenSeq(F)}
<1>1. <<>> \in S
  <2>1. <<s>> \o <<>> = Append(<<>>, s)
    OBVIOUS
  <2>2. <<>> \in Seq(Seq(X)) /\ <<>> \o s = s /\ s \o <<>> = s
    OBVIOUS
  <2>3. FlattenSeq(Append(<<>>, s)) = FlattenSeq(<<>>) \o s
    BY <2>2, FlattenAppend
  <2>4. FlattenSeq(<<s>> \o <<>>) = s \o FlattenSeq(<<>>)
    BY <2>1, <2>2, <2>3, FlattenNone, Zenon
  <2>5. QED
    BY <2>2, <2>4, Zenon
<1>2. ASSUME NEW n \in 0 .. Len(E) - 1, SubSeq(E, 1, n) \in S PROVE SubSeq(E, 1, n + 1) \in S
  <2> DEFINE F == SubSeq(E, 1, n)
             e == E[n + 1]
  <2>1. F \in Seq(Seq(X)) /\ e \in Seq(X) /\ SubSeq(E, 1, n + 1) = Append(F, e)
    BY NextPrefix
  <2>2. FlattenSeq(<<s>> \o F) = s \o FlattenSeq(F)
    BY <1>2
  <2> HIDE DEF F, e, S
  <2>3. <<s>> \o Append(F, e) = Append(<<s>> \o F, e) /\ <<s>> \o F \in Seq(Seq(X)) /\ Append(F, e) \in Seq(Seq(X))
    <3>1. F \in Seq(Seq(X)) /\ e \in Seq(X)
      BY <2>1
    <3>2. QED
      BY <3>1, ConsAppend
  <2>4. FlattenSeq(Append(<<s>> \o F, e)) = FlattenSeq(<<s>> \o F) \o e
    BY <2>1, <2>3, FlattenAppend
  <2>5. FlattenSeq(Append(F, e)) = FlattenSeq(F) \o e /\ FlattenSeq(F) \in Seq(X)
    BY <2>1, FlattenAppend, FlattenType
  <2>6. (s \o FlattenSeq(F)) \o e = s \o (FlattenSeq(F) \o e)
    <3>1. FlattenSeq(F) \in Seq(X) /\ e \in Seq(X)
      BY <2>1, <2>5
    <3>2. QED
      BY <3>1, Associative DEF Regroups
  <2>7. FlattenSeq(<<s>> \o Append(F, e)) = s \o FlattenSeq(Append(F, e))
    BY <2>2, <2>3, <2>4, <2>5, <2>6, Zenon
  <2>8. QED
    BY <2>1, <2>3, <2>7, Zenon DEF S
<1>3. E \in S
  <2> HIDE DEF S
  <2>1. QED
    BY <1>1, <1>2, ByPrefixes
<1>4. QED
  BY <1>3

LEMMA FlattenRest ==
  ASSUME NEW X, NEW E \in Seq(Seq(X)), NEW n \in 0 .. Len(E)
  PROVE  \E r \in Seq(X) : FlattenSeq(E) = FlattenSeq(SubSeq(E, 1, n)) \o r /\ (n = Len(E) => r = <<>>)
<1> DEFINE front == FlattenSeq(SubSeq(E, 1, n))
           Goes(m) == \E r \in Seq(X) : FlattenSeq(SubSeq(E, 1, m)) = front \o r /\ (n = m => r = <<>>)
           S == {m \in 0 .. Len(E) : m >= n => Goes(m)}
<1>1. SubSeq(E, 1, n) \in Seq(Seq(X)) /\ front \in Seq(X)
  <2>1. SubSeq(E, 1, n) \in Seq(Seq(X))
    OBVIOUS
  <2>2. QED
    BY <2>1, FlattenType
<1>2. ASSUME NEW m \in 0 .. Len(E), m <= n PROVE m \in S
  <2>1. CASE m = n
    <3>1. <<>> \in Seq(X) /\ front = front \o <<>>
      <4> HIDE DEF front
      <4>1. QED
        BY <1>1
    <3>2. QED
      BY <2>1, <3>1
  <2>2. CASE m # n
    BY <1>2, <2>2
  <2>3. QED
    BY <2>1, <2>2
<1>3. ASSUME NEW m \in 0 .. Len(E) - 1, m \in S PROVE m + 1 \in S
  <2>0. m + 1 \in 0 .. Len(E)
    OBVIOUS
  <2>1. CASE m < n
    <3> HIDE DEF S
    <3>1. m + 1 <= n
      BY <2>1
    <3>2. QED
      BY <1>2, <2>0, <3>1
  <2>2. CASE m >= n
    <3>1. PICK r \in Seq(X) : FlattenSeq(SubSeq(E, 1, m)) = front \o r
      BY <1>3, <2>2
    <3> DEFINE F == SubSeq(E, 1, m)
               e == E[m + 1]
    <3>2. F \in Seq(Seq(X)) /\ e \in Seq(X) /\ SubSeq(E, 1, m + 1) = Append(F, e)
      BY NextPrefix
    <3>3. FlattenSeq(Append(F, e)) = FlattenSeq(F) \o e
      BY <3>2, FlattenAppend
    <3> HIDE DEF F, e, front
    <3>4. (front \o r) \o e = front \o (r \o e) /\ r \o e \in Seq(X)
      <4>1. front \in Seq(X) /\ e \in Seq(X)
        BY <1>1, <3>2
      <4>2. (front \o r) \o e = front \o (r \o e)
        BY <4>1
      <4>3. r \o e \in Seq(X)
        BY <4>1
      <4>4. QED
        BY <4>2, <4>3
    <3>5. FlattenSeq(SubSeq(E, 1, m + 1)) = front \o (r \o e)
      BY <3>1, <3>2, <3>3, <3>4 DEF F
    <3>6. n # m + 1
      BY <2>2
    <3>7. Goes(m + 1)
      BY <3>4, <3>5, <3>6
    <3> HIDE DEF Goes
    <3>8. QED
      BY <2>0, <3>7
  <2>3. QED
    <3> HIDE DEF S
    <3>1. QED
      BY <2>1, <2>2
<1>4. Len(E) \in S
  <2>1. 0 \in S
    BY <1>2
  <2> HIDE DEF S
  <2>2. QED
    BY <2>1, <1>3, UpTo
<1>5. SubSeq(E, 1, Len(E)) = E
  OBVIOUS
<1>6. \E r \in Seq(X) : FlattenSeq(SubSeq(E, 1, Len(E))) = front \o r /\ (n = Len(E) => r = <<>>)
  <2> HIDE DEF front
  <2>1. QED
    BY <1>4
<1>7. QED
  BY <1>5, <1>6, Zenon

-----------------------------------------------------------------------------
(* Numerals *)

LEMMA NaturalSum ==
  ASSUME NEW a \in Nat, NEW b \in Nat, NEW c \in Nat
  PROVE  a * b + c \in Nat
OBVIOUS

Accumulates(v, ds, base) ==
  /\ v[0] = 0 /\ \A k \in 0 .. Len(ds) : v[k] \in Nat
  /\ \A k \in 1 .. Len(ds) : v[k] = v[k - 1] * base + ds[k]

LEMMA ValueIs ==
  ASSUME NEW base \in Nat, NEW ds \in Seq(Nat)
  PROVE  \E v : Accumulates(v, ds, base) /\ Value(ds, base) = v[Len(ds)]
<1> DEFINE n == Len(ds)
           next == [k \in 1 .. n |-> [x \in Nat |-> x * base + ds[k]]]
           val == CHOOSE f : f = [k \in 0 .. n |-> IF k = 0 THEN 0 ELSE f[k - 1] * base + ds[k]]
<1>1. n \in Nat /\ \A k \in 1 .. n : ds[k] \in Nat
  OBVIOUS
<1>2. Value(ds, base) = val[n]
  BY DEF Value
<1> HIDE DEF n
<1>3. next \in [1 .. n -> [Nat -> Nat]]
  BY <1>1
<1>4. \A k \in 1 .. n, x \in Nat : next[k][x] = x * base + ds[k]
  OBVIOUS
<1> HIDE DEF next
<1>5. PICK v \in [0 .. n -> Nat] : Follows(v, n, 0, next)
  BY <1>1, <1>3, Recursion
<1>6. \A k \in 0 .. n : v[k] = IF k = 0 THEN 0 ELSE next[k][v[k - 1]]
  <2>1. \A k \in 0 .. n : k = 0 \/ k \in 1 .. n
    BY <1>1
  <2>2. QED
    BY <1>5, <2>1 DEF Follows
<1>7. \A k \in 0 .. n : (IF k = 0 THEN 0 ELSE next[k][v[k - 1]]) = (IF k = 0 THEN 0 ELSE v[k - 1] * base + ds[k])
  <2>1. ASSUME NEW k \in 0 .. n, k # 0 PROVE next[k][v[k - 1]] = v[k - 1] * base + ds[k]
    <3>1. k \in 1 .. n /\ k - 1 \in 0 .. n
      BY <1>1, <2>1
    <3>2. v[k - 1] \in Nat
      BY <3>1
    <3>3. QED
      BY <1>4, <3>1, <3>2
  <2>2. QED
    BY <2>1
<1>8. v = [k \in 0 .. n |-> IF k = 0 THEN 0 ELSE v[k - 1] * base + ds[k]]
  <2>2. \A k \in 0 .. n : v[k] = IF k = 0 THEN 0 ELSE v[k - 1] * base + ds[k]
    BY <1>6, <1>7, Zenon
  <2>3. v = [k \in 0 .. n |-> v[k]]
    OBVIOUS
  <2>4. QED
    BY <2>2, <2>3, Zenon
<1>9. val = [k \in 0 .. n |-> IF k = 0 THEN 0 ELSE val[k - 1] * base + ds[k]]
  <2>1. \E f : f = [k \in 0 .. n |-> IF k = 0 THEN 0 ELSE f[k - 1] * base + ds[k]]
    BY <1>8, Zenon
  <2>2. QED
    BY <2>1, Zenon
<1> HIDE DEF val
<1>10. \A k \in 0 .. n : val[k] = IF k = 0 THEN 0 ELSE val[k - 1] * base + ds[k]
  BY <1>9, Zenon
<1>11. val[0] = 0 /\ \A k \in 1 .. n : val[k] = val[k - 1] * base + ds[k]
  <2>1. 0 \in 0 .. n /\ \A k \in 1 .. n : k \in 0 .. n /\ k # 0
    BY <1>1
  <2>2. QED
    BY <1>10, <2>1, Zenon
<1>12. \A k \in 0 .. n : val[k] \in Nat
  <2> DEFINE S == {k \in 0 .. n : val[k] \in Nat}
  <2>1. 0 \in S
    BY <1>1, <1>11
  <2>2. ASSUME NEW k \in 0 .. n - 1, k \in S PROVE k + 1 \in S
    <3>1. k + 1 \in 1 .. n /\ (k + 1) - 1 = k /\ k + 1 \in 0 .. n
      BY <1>1
    <3>2. val[k + 1] = val[k] * base + ds[k + 1]
      <4>1. val[k + 1] = val[(k + 1) - 1] * base + ds[k + 1]
        BY <1>11, <3>1
      <4>2. QED
        BY <3>1, <4>1
    <3>3. val[k] \in Nat /\ ds[k + 1] \in Nat
      BY <1>1, <2>2, <3>1
    <3>4. val[k + 1] \in Nat
      BY <3>2, <3>3, NaturalSum, Zenon
    <3>5. QED
      BY <3>1, <3>4
  <2>3. ASSUME NEW k \in 0 .. n PROVE k \in S
    <3> HIDE DEF S
    <3>1. k \in Nat /\ \A m \in 0 .. k - 1 : m \in 0 .. n - 1
      BY <1>1
    <3>2. \A m \in 0 .. k - 1 : m \in S => m + 1 \in S
      BY <2>2, <3>1
    <3>3. QED
      BY <2>1, <3>1, <3>2, UpTo
  <2>4. QED
    BY <2>3
<1>13. QED
  BY <1>2, <1>11, <1>12 DEF Accumulates, n

LEMMA ValueNone ==
  ASSUME NEW base \in Nat
  PROVE  Value(<<>>, base) = 0
<1>1. <<>> \in Seq(Nat) /\ Len(<<>>) = 0
  OBVIOUS
<1>2. PICK v : Accumulates(v, <<>>, base) /\ Value(<<>>, base) = v[Len(<<>>)]
  BY <1>1, ValueIs
<1>3. QED
  BY <1>1, <1>2 DEF Accumulates

LEMMA ValueType ==
  ASSUME NEW base \in Nat, NEW ds \in Seq(Nat)
  PROVE  Value(ds, base) \in Nat
<1>1. PICK v : Accumulates(v, ds, base) /\ Value(ds, base) = v[Len(ds)]
  BY ValueIs
<1>2. QED
  BY <1>1 DEF Accumulates

LEMMA ValueAppend ==
  ASSUME NEW base \in Nat, NEW ds \in Seq(Nat), NEW d \in Nat
  PROVE  Value(Append(ds, d), base) = Value(ds, base) * base + d
<1> DEFINE es == Append(ds, d)
           n == Len(ds)
<1>1. /\ es \in Seq(Nat) /\ Len(es) = n + 1 /\ es[n + 1] = d /\ n \in Nat
      /\ \A k \in 1 .. n : es[k] = ds[k]
  OBVIOUS
<1> HIDE DEF es
<1>2. PICK v : Accumulates(v, ds, base) /\ Value(ds, base) = v[n]
  BY ValueIs
<1>3. PICK w : Accumulates(w, es, base) /\ Value(es, base) = w[Len(es)]
  BY <1>1, ValueIs
<1> DEFINE S == {k \in 0 .. n : v[k] = w[k]}
<1>4. 0 \in S
  BY <1>1, <1>2, <1>3 DEF Accumulates
<1>5. ASSUME NEW k \in 0 .. n - 1, k \in S PROVE k + 1 \in S
  <2>1. k + 1 \in 1 .. n /\ (k + 1) - 1 = k /\ k + 1 \in 0 .. n /\ k + 1 \in 1 .. Len(es)
    BY <1>1
  <2>2. v[k + 1] = v[(k + 1) - 1] * base + ds[k + 1]
    BY <1>2, <2>1 DEF Accumulates
  <2>3. w[k + 1] = w[(k + 1) - 1] * base + es[k + 1]
    BY <1>3, <2>1 DEF Accumulates
  <2>4. ds[k + 1] = es[k + 1] /\ v[k] = w[k]
    BY <1>1, <1>5, <2>1
  <2>5. v[k + 1] = w[k + 1]
    BY <2>1, <2>2, <2>3, <2>4
  <2>6. QED
    BY <2>1, <2>5
<1>6. v[n] = w[n]
  <2>1. n \in S
    <3> HIDE DEF S
    <3>1. QED
      BY <1>1, <1>4, <1>5, UpTo
  <2>2. QED
    BY <2>1
<1>7. w[n + 1] = w[n] * base + d
  <2>1. n + 1 \in 1 .. Len(es) /\ (n + 1) - 1 = n
    BY <1>1
  <2>2. w[n + 1] = w[(n + 1) - 1] * base + es[n + 1]
    BY <1>3, <2>1 DEF Accumulates
  <2>3. QED
    BY <1>1, <2>1, <2>2
<1>8. QED
  BY <1>1, <1>2, <1>3, <1>6, <1>7 DEF es

Digits(b) == 0 .. b - 1

(* n is a number whose last digit is x and whose others are q's.           *)
Splits(n, b, q, x) == q \in Nat /\ x \in Digits(b) /\ n = q * b + x

LEMMA DigitNat ==
  ASSUME NEW b \in Nat, NEW x \in Digits(b)
  PROVE  x \in Nat /\ x < b
BY DEF Digits

LEMMA Division ==
  ASSUME NEW b \in Nat \ {0}, NEW n, NEW q, NEW x, Splits(n, b, q, x)
  PROVE  n \in Nat /\ q = n \div b /\ x = n % b
<1>1. q \in Nat /\ x \in Nat /\ x < b /\ n = q * b + x
  BY DEF Splits, Digits
<1>2. QED
  BY <1>1

LEMMA SameDivision ==
  ASSUME NEW b \in Nat \ {0}, NEW n, NEW q, NEW x, NEW r, NEW y, Splits(n, b, q, x), Splits(n, b, r, y)
  PROVE  q = r /\ x = y
<1>1. q = n \div b /\ x = n % b
  BY Division
<1>2. r = n \div b /\ y = n % b
  BY Division
<1>3. QED
  BY <1>1, <1>2

LEMMA AtLeast ==
  ASSUME NEW b \in Nat \ {0}, NEW n, NEW q, NEW x, Splits(n, b, q, x)
  PROVE  /\ q >= 1 => n >= b /\ n >= 1
         /\ q = 0 => n = x
         /\ n >= b => q >= 1
<1>1. q \in Nat /\ x \in Nat /\ x < b /\ n = q * b + x
  BY DEF Splits, Digits
<1>2. q >= 1 => q * b >= b
  BY <1>1
<1>3. q = 0 => q * b = 0
  BY <1>1
<1>4. QED
  BY <1>1, <1>2, <1>3

LEMMA FrontLast ==
  ASSUME NEW X, NEW s \in Seq(X), Len(s) >= 1
  PROVE  \E front \in Seq(X), last \in X :
           /\ s = Append(front, last) /\ Len(front) = Len(s) - 1
           /\ Len(front) >= 1 => front[1] = s[1]
           /\ Len(front) = 0 => last = s[1] /\ front = <<>>
<1> DEFINE n == Len(s) - 1
           f == SubSeq(s, 1, n)
<1>1. n \in 0 .. Len(s) - 1 /\ n + 1 = Len(s) /\ n \in Nat
  OBVIOUS
<1>2. f \in Seq(X) /\ Len(f) = n /\ s[n + 1] \in X /\ SubSeq(s, 1, n + 1) = Append(f, s[n + 1])
  BY <1>1, NextPrefix
<1>3. SubSeq(s, 1, Len(s)) = s
  OBVIOUS
<1>4. s = Append(f, s[n + 1])
  BY <1>1, <1>2, <1>3
<1>5. n >= 1 => f[1] = s[1]
  BY <1>1
<1>6. n = 0 => s[n + 1] = s[1]
  OBVIOUS
<1> HIDE DEF f
<1>7. n = 0 => f = <<>>
  BY <1>2
<1>8. QED
  BY <1>1, <1>2, <1>4, <1>5, <1>6, <1>7

LEMMA DigitsNat ==
  ASSUME NEW b \in Nat, NEW s \in Seq(Digits(b))
  PROVE  s \in Seq(Nat)
BY DEF Digits

(* The last digit and the value of those before it.                        *)
LEMMA LastDigit ==
  ASSUME NEW b \in Nat \ {0}, NEW s \in Seq(Digits(b)), Len(s) >= 1
  PROVE  \E front \in Seq(Digits(b)), last \in Digits(b) :
           /\ s = Append(front, last) /\ Len(front) = Len(s) - 1
           /\ Len(front) >= 1 => front[1] = s[1]
           /\ Len(front) = 0 => last = s[1] /\ front = <<>>
           /\ Splits(Value(s, b), b, Value(front, b), last)
<1>1. PICK front \in Seq(Digits(b)), last \in Digits(b) :
           /\ s = Append(front, last) /\ Len(front) = Len(s) - 1
           /\ Len(front) >= 1 => front[1] = s[1]
           /\ Len(front) = 0 => last = s[1] /\ front = <<>>
  BY FrontLast
<1>2. front \in Seq(Nat) /\ last \in Nat
  BY DigitsNat, DigitNat
<1>3. Value(front, b) \in Nat
  BY <1>2, ValueType
<1>4. Value(s, b) = Value(front, b) * b + last
  BY <1>1, <1>2, ValueAppend
<1>5. QED
  BY <1>1, <1>3, <1>4 DEF Splits

(* A number has one numeral of each length.                                *)
LEMMA NumeralUnique ==
  ASSUME NEW b \in Nat \ {0}, NEW ds \in Seq(Digits(b)), NEW es \in Seq(Digits(b)),
         Len(ds) = Len(es), Value(ds, b) = Value(es, b)
  PROVE  ds = es
<1> DEFINE D == Digits(b)
           Same(l) == \A f, g \in Seq(D) : Len(f) = l /\ Len(g) = l /\ Value(f, b) = Value(g, b) => f = g
           S == {l \in 0 .. Len(ds) : Same(l)}
<1>1. 0 \in S
  OBVIOUS
<1>2. ASSUME NEW l \in 0 .. Len(ds) - 1, l \in S PROVE l + 1 \in S
  <2>1. Same(l)
    BY <1>2
  <2> HIDE DEF S
  <2>2. ASSUME NEW f \in Seq(D), NEW g \in Seq(D), Len(f) = l + 1, Len(g) = l + 1, Value(f, b) = Value(g, b)
        PROVE  f = g
    <3> HIDE DEF Same
    <3>1. Len(f) >= 1 /\ Len(f) - 1 = l /\ Len(g) >= 1 /\ Len(g) - 1 = l
      BY <2>2
    <3>2. PICK ff \in Seq(D), x \in D :
             f = Append(ff, x) /\ Len(ff) = Len(f) - 1 /\ Splits(Value(f, b), b, Value(ff, b), x)
      BY <3>1, LastDigit
    <3>3. PICK gg \in Seq(D), y \in D :
             g = Append(gg, y) /\ Len(gg) = Len(g) - 1 /\ Splits(Value(g, b), b, Value(gg, b), y)
      BY <3>1, LastDigit
    <3>4. Splits(Value(f, b), b, Value(gg, b), y)
      BY <2>2, <3>3
    <3>5. Value(ff, b) = Value(gg, b) /\ x = y
      BY <3>2, <3>4, SameDivision, Zenon
    <3>6. ff = gg
      BY <2>1, <3>1, <3>2, <3>3, <3>5 DEF Same
    <3>7. QED
      BY <3>2, <3>3, <3>5, <3>6
  <2>3. Same(l + 1)
    BY <2>2
  <2> HIDE DEF Same
  <2>4. QED
    BY <2>3 DEF S
<1>3. Len(ds) \in S
  <2> HIDE DEF S
  <2>1. QED
    BY <1>1, <1>2, UpTo
<1>4. QED
  BY <1>3

LEMMA ValuePositive ==
  ASSUME NEW b \in Nat \ {0}, NEW ds \in Seq(Digits(b)), Len(ds) >= 1, ds[1] # 0
  PROVE  Value(ds, b) \in Nat /\ Value(ds, b) >= 1
<1> DEFINE D == Digits(b)
           Positive(l) == \A f \in Seq(D) : Len(f) = l + 1 /\ f[1] # 0 => Value(f, b) >= 1
           S == {l \in 0 .. Len(ds) - 1 : Positive(l)}
<1>1. 0 \in S
  <2>1. ASSUME NEW f \in Seq(D), Len(f) = 0 + 1, f[1] # 0 PROVE Value(f, b) >= 1
    <3>1. Len(f) >= 1 /\ Len(f) - 1 = 0
      BY <2>1
    <3>2. PICK ff \in Seq(D), x \in D :
             /\ Len(ff) = Len(f) - 1
             /\ Len(ff) = 0 => x = f[1] /\ ff = <<>>
             /\ Splits(Value(f, b), b, Value(ff, b), x)
      BY <3>1, LastDigit
    <3>3. x # 0 /\ ff = <<>> /\ x \in Nat
      BY <2>1, <3>1, <3>2, DigitNat
    <3>4. Value(ff, b) = 0
      BY <3>3, ValueNone
    <3>5. Value(f, b) = x
      BY <3>2, <3>4, AtLeast
    <3>6. QED
      BY <3>3, <3>5
  <2>2. Positive(0)
    BY <2>1
  <2>3. 0 \in 0 .. Len(ds) - 1
    OBVIOUS
  <2> HIDE DEF Positive
  <2>4. QED
    BY <2>2, <2>3
<1>2. ASSUME NEW l \in 0 .. (Len(ds) - 1) - 1, l \in S PROVE l + 1 \in S
  <2>1. Positive(l)
    BY <1>2
  <2> HIDE DEF S
  <2>2. ASSUME NEW f \in Seq(D), Len(f) = (l + 1) + 1, f[1] # 0 PROVE Value(f, b) >= 1
    <3>1. Len(f) >= 1 /\ Len(f) - 1 = l + 1 /\ l + 1 >= 1
      BY <2>2
    <3> HIDE DEF Positive
    <3>2. PICK ff \in Seq(D), x \in D :
             /\ Len(ff) = Len(f) - 1
             /\ Len(ff) >= 1 => ff[1] = f[1]
             /\ Splits(Value(f, b), b, Value(ff, b), x)
      BY <3>1, LastDigit
    <3>3. Value(ff, b) >= 1
      BY <2>1, <2>2, <3>1, <3>2 DEF Positive
    <3>4. QED
      BY <3>2, <3>3, AtLeast, Zenon
  <2>3. Positive(l + 1)
    BY <2>2
  <2> HIDE DEF Positive
  <2>4. QED
    BY <2>3 DEF S
<1>3. Len(ds) - 1 \in S
  <2> HIDE DEF S
  <2>1. Len(ds) - 1 \in Nat
    OBVIOUS
  <2>2. QED
    BY <1>1, <1>2, <2>1, UpTo
<1>4. Value(ds, b) >= 1
  BY <1>3
<1>5. Value(ds, b) \in Nat
  BY DigitsNat, ValueType
<1>6. QED
  BY <1>4, <1>5

(* A number has one numeral that does not begin with a zero.               *)
LEMMA NumeralLength ==
  ASSUME NEW b \in Nat \ {0}, NEW ds \in Seq(Digits(b)), NEW es \in Seq(Digits(b)),
         Len(ds) >= 1, Len(es) >= 1, ds[1] # 0, es[1] # 0, Value(ds, b) = Value(es, b)
  PROVE  Len(ds) = Len(es)
<1> DEFINE D == Digits(b)
           Same(l) == \A f, g \in Seq(D) :
                        Len(f) = l + 1 /\ Len(g) >= 1 /\ f[1] # 0 /\ g[1] # 0 /\ Value(f, b) = Value(g, b)
                          => Len(g) = l + 1
           S == {l \in 0 .. Len(ds) - 1 : Same(l)}
<1>1. ASSUME NEW f \in Seq(D), Len(f) >= 1, f[1] # 0
      PROVE  \E q \in Nat, x \in D :
               /\ Splits(Value(f, b), b, q, x)
               /\ Len(f) = 1 => q = 0
               /\ Len(f) >= 2 => q >= 1 /\ \E ff \in Seq(D) :
                    Len(ff) = Len(f) - 1 /\ ff[1] # 0 /\ Value(ff, b) = q
  <2>1. PICK ff \in Seq(D), x \in D :
          /\ Len(ff) = Len(f) - 1
          /\ Len(ff) >= 1 => ff[1] = f[1]
          /\ Len(ff) = 0 => ff = <<>>
          /\ Splits(Value(f, b), b, Value(ff, b), x)
    BY <1>1, LastDigit
  <2>2. Value(ff, b) \in Nat
    BY DigitsNat, ValueType
  <2>3. ASSUME Len(f) = 1 PROVE Value(ff, b) = 0
    <3>1. ff = <<>>
      BY <2>1, <2>3
    <3>2. QED
      BY <3>1, ValueNone
  <2>4. ASSUME Len(f) >= 2 PROVE Value(ff, b) >= 1 /\ ff[1] # 0 /\ Len(ff) = Len(f) - 1
    <3>1. Len(ff) >= 1 /\ ff[1] # 0 /\ Len(ff) = Len(f) - 1
      BY <1>1, <2>1, <2>4
    <3>2. QED
      BY <3>1, ValuePositive
  <2>5. QED
    BY <2>1, <2>2, <2>3, <2>4
<1>2. 0 \in S
  <2>1. ASSUME NEW f \in Seq(D), NEW g \in Seq(D), Len(f) = 0 + 1, Len(g) >= 1, f[1] # 0, g[1] # 0,
               Value(f, b) = Value(g, b)
        PROVE  Len(g) = 0 + 1
    <3>1. Len(f) = 1 /\ Len(f) >= 1 /\ Len(g) \in Nat
      BY <2>1
    <3>2. PICK q \in Nat, x \in D : Splits(Value(f, b), b, q, x) /\ q = 0
      BY <1>1, <2>1, <3>1
    <3>3. PICK r \in Nat, y \in D : Splits(Value(g, b), b, r, y) /\ (Len(g) >= 2 => r >= 1)
      BY <1>1, <2>1
    <3>4. Splits(Value(f, b), b, r, y)
      BY <2>1, <3>3
    <3>5. q = r
      BY <3>2, <3>4, SameDivision, Zenon
    <3>6. QED
      BY <2>1, <3>1, <3>2, <3>3, <3>5
  <2>2. Same(0)
    BY <2>1
  <2>3. 0 \in 0 .. Len(ds) - 1
    OBVIOUS
  <2> HIDE DEF Same
  <2>4. QED
    BY <2>2, <2>3
<1>3. ASSUME NEW l \in 0 .. (Len(ds) - 1) - 1, l \in S PROVE l + 1 \in S
  <2>1. Same(l)
    BY <1>3
  <2> HIDE DEF S
  <2>2. ASSUME NEW f \in Seq(D), NEW g \in Seq(D), Len(f) = (l + 1) + 1, Len(g) >= 1, f[1] # 0, g[1] # 0,
               Value(f, b) = Value(g, b)
        PROVE  Len(g) = (l + 1) + 1
    <3> HIDE DEF Same
    <3>1. Len(f) >= 2 /\ Len(f) >= 1 /\ Len(g) \in Nat /\ Len(f) - 1 = l + 1
      BY <2>2
    <3>2. PICK q \in Nat, x \in D :
            /\ Splits(Value(f, b), b, q, x)
            /\ q >= 1
            /\ \E ff \in Seq(D) : Len(ff) = Len(f) - 1 /\ ff[1] # 0 /\ Value(ff, b) = q
      BY <1>1, <2>2, <3>1
    <3>3. PICK r \in Nat, y \in D :
            /\ Splits(Value(g, b), b, r, y)
            /\ Len(g) = 1 => r = 0
            /\ Len(g) >= 2 => \E gg \in Seq(D) : Len(gg) = Len(g) - 1 /\ gg[1] # 0 /\ Value(gg, b) = r
      BY <1>1, <2>2
    <3>4. Splits(Value(f, b), b, r, y)
      BY <2>2, <3>3
    <3>5. q = r
      BY <3>2, <3>4, SameDivision, Zenon
    <3>6. Len(g) >= 2
      <4>1. Len(g) # 1
        <5>1. r # 0
          BY <3>2, <3>5
        <5>2. QED
          BY <3>3, <5>1
      <4>2. Len(g) >= 1 /\ Len(g) \in Nat
        BY <2>2, <3>1
      <4> DEFINE l2 == Len(g)
      <4> HIDE DEF l2, D
      <4>3. l2 # 1 /\ l2 >= 1 /\ l2 \in Nat
        BY <4>1, <4>2, Zenon DEF l2
      <4>4. l2 >= 2
        BY <4>3
      <4>5. QED
        BY <4>4, Zenon DEF l2
    <3>7. PICK ff \in Seq(D) : Len(ff) = l + 1 /\ ff[1] # 0 /\ Value(ff, b) = q
      BY <3>1, <3>2
    <3>8. PICK gg \in Seq(D) : Len(gg) = Len(g) - 1 /\ gg[1] # 0 /\ Value(gg, b) = q
      BY <3>3, <3>5, <3>6
    <3>9. Len(gg) >= 1
      BY <3>6, <3>8
    <3>10. Len(gg) = l + 1
      BY <2>1, <3>7, <3>8, <3>9 DEF Same
    <3>11. QED
      BY <3>1, <3>8, <3>10
  <2>3. Same(l + 1)
    BY <2>2
  <2>4. l + 1 \in 0 .. Len(ds) - 1
    OBVIOUS
  <2> HIDE DEF Same
  <2>5. QED
    BY <2>3, <2>4 DEF S
<1>4. Len(ds) - 1 \in S
  <2> HIDE DEF S
  <2>1. Len(ds) - 1 \in Nat
    OBVIOUS
  <2>2. QED
    BY <1>2, <1>3, <2>1, UpTo
<1>5. Len(ds) = (Len(ds) - 1) + 1
  OBVIOUS
<1>6. Same(Len(ds) - 1)
  BY <1>4
<1> HIDE DEF S
<1>7. Len(es) = (Len(ds) - 1) + 1
  BY <1>5, <1>6
<1>8. QED
  BY <1>5, <1>7

-----------------------------------------------------------------------------
(* What print_int_serial and print_hex_serial print *)

(* What the buffer holds for k, once f holds it for smaller numbers.       *)
BufferStep(f, k) == IF k <= 0 THEN <<>> ELSE <<Char(k % Base)>> \o f[k \div Base]

Buffers(f, m) == \A k \in 0 .. m : f[k] = BufferStep(f, k)

LEMMA Smaller ==
  ASSUME NEW k \in Nat, k >= 1
  PROVE  k \div Base \in 0 .. k - 1 /\ k % Base \in Digits(Base) /\ Splits(k, Base, k \div Base, k % Base)
<1>1. Base \in Nat /\ Base >= 2
  BY KprintfAssumption
<1>2. k \div Base \in Nat /\ k % Base \in 0 .. Base - 1 /\ k = (k \div Base) * Base + (k % Base)
  BY <1>1
<1>3. k \div Base < k
  <2>1. PICK q \in Nat, x \in Nat : q = k \div Base /\ k = q * Base + x
    BY <1>1, <1>2
  <2>2. q * 2 <= q * Base /\ q * Base \in Nat
    BY <1>1
  <2>3. q < k
    <3>1. PICK p \in Nat : p = q * Base
      BY <2>2
    <3>2. q * 2 <= p /\ k = p + x
      BY <2>1, <2>2, <3>1
    <3>3. QED
      BY <3>2
  <2>4. QED
    BY <2>1, <2>3
<1>4. QED
  BY <1>2, <1>3 DEF Digits, Splits

LEMMA StepSame ==
  ASSUME NEW k \in Int, NEW f, NEW g, k >= 1 => f[k \div Base] = g[k \div Base]
  PROVE  BufferStep(f, k) = BufferStep(g, k)
<1>1. CASE k <= 0
  BY <1>1 DEF BufferStep
<1>2. CASE k >= 1
  <2>1. f[k \div Base] = g[k \div Base] /\ ~ (k <= 0)
    BY <1>2
  <2>2. QED
    BY <2>1, Zenon DEF BufferStep
<1>3. QED
  BY <1>1, <1>2

LEMMA BuffersExist ==
  ASSUME NEW n \in Nat
  PROVE  \E f : Buffers(f, n)
<1> DEFINE S == {m \in 0 .. n : \E f : Buffers(f, m)}
<1>1. 0 \in S
  <2>1. Buffers([k \in 0 .. 0 |-> <<>>], 0)
    BY DEF Buffers, BufferStep
  <2>2. QED
    BY <2>1
<1>2. ASSUME NEW m \in 0 .. n - 1, m \in S PROVE m + 1 \in S
  <2>1. PICK f : Buffers(f, m)
    BY <1>2
  <2> DEFINE g == [k \in 0 .. m + 1 |-> IF k = m + 1 THEN BufferStep(f, m + 1) ELSE f[k]]
  <2>2. g[m + 1] = BufferStep(f, m + 1)
    OBVIOUS
  <2>3. \A k \in 0 .. m : g[k] = f[k]
    OBVIOUS
  <2> HIDE DEF g
  <2>4. ASSUME NEW k \in 0 .. m + 1 PROVE BufferStep(g, k) = BufferStep(f, k)
    <3>1. ASSUME k >= 1 PROVE k \div Base \in 0 .. m
      <4>1. k \div Base \in 0 .. k - 1
        BY <3>1, Smaller
      <4>2. QED
        BY <4>1
    <3>2. k >= 1 => f[k \div Base] = g[k \div Base]
      BY <2>3, <3>1
    <3>3. k \in Int
      OBVIOUS
    <3>4. QED
      BY <3>2, <3>3, StepSame
  <2>5. ASSUME NEW k \in 0 .. m + 1 PROVE g[k] = BufferStep(g, k)
    <3>1. CASE k = m + 1
      BY <2>2, <2>4, <3>1
    <3>2. CASE k # m + 1
      <4>1. k \in 0 .. m
        BY <3>2
      <4>2. f[k] = BufferStep(f, k)
        BY <2>1, <4>1 DEF Buffers
      <4>3. QED
        BY <2>3, <2>4, <4>1, <4>2
    <3>3. QED
      BY <3>1, <3>2
  <2>6. Buffers(g, m + 1)
    BY <2>5 DEF Buffers
  <2>7. m + 1 \in 0 .. n
    OBVIOUS
  <2>8. QED
    BY <2>6, <2>7, Zenon
<1>3. n \in S
  <2> HIDE DEF S
  <2>1. QED
    BY <1>1, <1>2, UpTo
<1>4. QED
  BY <1>3

LEMMA BuffersSame ==
  ASSUME NEW n \in Nat, NEW p \in Nat, n <= p, NEW f, NEW g, Buffers(f, n), Buffers(g, p)
  PROVE  f[n] = g[n]
<1> DEFINE Same(m) == \A k \in 0 .. m : f[k] = g[k]
           S == {m \in 0 .. n : Same(m)}
<1>1. \A k \in 0 .. n : f[k] = BufferStep(f, k) /\ g[k] = BufferStep(g, k)
  BY DEF Buffers
<1>2. 0 \in S
  <2>1. f[0] = g[0]
    <3>1. 0 \in 0 .. n /\ 0 <= 0
      OBVIOUS
    <3>2. BufferStep(f, 0) = <<>> /\ BufferStep(g, 0) = <<>>
      BY <3>1, Zenon DEF BufferStep
    <3>3. QED
      BY <1>1, <3>1, <3>2, Zenon
  <2>2. QED
    BY <2>1
<1>3. ASSUME NEW m \in 0 .. n - 1, m \in S PROVE m + 1 \in S
  <2>1. Same(m)
    BY <1>3
  <2> HIDE DEF S
  <2>2. (m + 1) \div Base \in 0 .. m /\ m + 1 \in 0 .. n /\ m + 1 \in Int
    <3>1. (m + 1) \div Base \in 0 .. (m + 1) - 1
      BY Smaller
    <3>2. QED
      BY <3>1
  <2>3. f[(m + 1) \div Base] = g[(m + 1) \div Base]
    BY <2>1, <2>2
  <2>4. BufferStep(f, m + 1) = BufferStep(g, m + 1)
    BY <2>2, <2>3, StepSame
  <2>5. f[m + 1] = g[m + 1]
    BY <1>1, <2>2, <2>4
  <2>6. Same(m + 1)
    BY <2>1, <2>5
  <2> HIDE DEF Same
  <2>7. QED
    BY <2>2, <2>6 DEF S
<1>4. n \in S
  <2> HIDE DEF S
  <2>1. QED
    BY <1>2, <1>3, UpTo
<1>5. QED
  BY <1>4

LEMMA BufferIs ==
  ASSUME NEW n \in Int
  PROVE  Buffer[n] = BufferStep(Buffer, n)
<1> DEFINE held(k) == (CHOOSE f : Buffers(f, k))[k]
           g == [k \in Int |-> IF k <= 0 THEN <<>> ELSE held(k)]
<1>1. ASSUME NEW k \in Nat PROVE \E f : Buffers(f, k) /\ held(k) = f[k]
  BY BuffersExist
<1>2. ASSUME NEW k \in Int PROVE g[k] = BufferStep(g, k)
  <2>1. CASE k <= 0
    BY <2>1 DEF BufferStep
  <2>2. CASE k >= 1
    <3>1. k \in Nat /\ ~ (k <= 0) /\ k \in 0 .. k
      BY <2>2
    <3>2. PICK f : Buffers(f, k) /\ held(k) = f[k]
      BY <1>1, <3>1
    <3>3. g[k] = f[k]
      BY <3>1, <3>2
    <3>4. f[k] = BufferStep(f, k)
      BY <3>1, <3>2 DEF Buffers
    <3>5. k \div Base \in 0 .. k - 1
      BY <2>2, <3>1, Smaller
    <3> DEFINE q == k \div Base
    <3>6. q \in Nat /\ q <= k /\ q \in 0 .. k
      BY <3>1, <3>5
    <3>7. f[q] = g[q]
      <4>1. CASE q = 0
        <5>1. f[0] = <<>>
          <6>1. 0 \in 0 .. k /\ 0 <= 0
            BY <3>1
          <6>2. BufferStep(f, 0) = <<>>
            BY <6>1, Zenon DEF BufferStep
          <6>3. QED
            BY <3>2, <6>1, <6>2, Zenon DEF Buffers
        <5>2. g[0] = <<>>
          OBVIOUS
        <5>3. QED
          BY <4>1, <5>1, <5>2
      <4>2. CASE q >= 1
        <5> HIDE DEF q
        <5>1. PICK h : Buffers(h, q) /\ held(q) = h[q]
          BY <1>1, <3>6
        <5>2. g[q] = held(q)
          BY <3>6, <4>2
        <5> HIDE DEF held, g
        <5>3. h[q] = f[q]
          BY <3>1, <3>2, <3>6, <5>1, BuffersSame
        <5>4. QED
          BY <5>1, <5>2, <5>3
      <4> HIDE DEF q
      <4>3. QED
        BY <3>6, <4>1, <4>2
    <3> HIDE DEF g, held
    <3>8. BufferStep(f, k) = BufferStep(g, k)
      BY <3>7, StepSame
    <3>9. QED
      BY <3>3, <3>4, <3>8
  <2> HIDE DEF g
  <2>3. QED
    BY <2>1, <2>2
<1>3. g = [k \in Int |-> g[k]]
  OBVIOUS
<1> HIDE DEF g
<1>4. g = [k \in Int |-> BufferStep(g, k)]
  BY <1>2, <1>3
<1>5. Buffer = CHOOSE f : f = [k \in Int |-> BufferStep(f, k)]
  BY DEF Buffer, BufferStep
<1>6. Buffer = [k \in Int |-> BufferStep(Buffer, k)]
  BY <1>4, <1>5, Zenon
<1>7. QED
  BY <1>6, Zenon

Chars(ds) == [k \in 1 .. Len(ds) |-> Char(ds[k])]

LEMMA CharType ==
  ASSUME NEW b \in 2 .. 16, NEW d \in Digits(b)
  PROVE  Char(d) \in Characters
<1>1. d + 1 \in 1 .. 16
  BY DEF Digits
<1>2. DOMAIN hex_chars = 1 .. 16
  BY DEF hex_chars
<1>3. hex_chars[d + 1] \in Range(hex_chars)
  BY <1>1, <1>2, Zenon DEF Range
<1>4. Range(hex_chars) \subseteq Characters
  BY KprintfAssumption
<1>5. QED
  BY <1>3, <1>4, Zenon DEF Char

LEMMA CharsType ==
  ASSUME NEW b \in 2 .. 16, NEW ds \in Seq(Digits(b))
  PROVE  Chars(ds) \in Seq(Characters)
<1>1. \A k \in 1 .. Len(ds) : ds[k] \in Digits(b)
  OBVIOUS
<1>2. \A k \in 1 .. Len(ds) : Char(ds[k]) \in Characters
  BY <1>1, CharType
<1>3. QED
  BY <1>2 DEF Chars

LEMMA CharsAppend ==
  ASSUME NEW X, NEW ds \in Seq(X), NEW d \in X
  PROVE  Chars(Append(ds, d)) = Append(Chars(ds), Char(d))
<1> DEFINE es == Append(ds, d)
           n == Len(ds)
<1>1. n \in Nat /\ Len(es) = n + 1 /\ es[n + 1] = d /\ \A k \in 1 .. n : es[k] = ds[k]
  BY Appended
<1> HIDE DEF es, n
<1>2. Chars(es) = [k \in 1 .. n + 1 |-> Char(es[k])]
  BY <1>1, Zenon DEF Chars
<1>3. Chars(ds) = [k \in 1 .. n |-> Char(ds[k])]
  BY Zenon DEF Chars, n
<1>4. [k \in 1 .. n + 1 |-> Char(es[k])] = Append([k \in 1 .. n |-> Char(ds[k])], Char(d))
  BY <1>1
<1>5. QED
  BY <1>2, <1>3, <1>4, Zenon DEF es

LEMMA ReverseCons ==
  ASSUME NEW X, NEW s \in Seq(X), NEW c \in X
  PROVE  /\ Reverse(s) \in Seq(X)
         /\ Reverse(<<c>> \o s) = Append(Reverse(s), c)
<1> DEFINE t == <<c>> \o s
           n == Len(s)
<1>1. t \in Seq(X) /\ Len(t) = n + 1 /\ n \in Nat /\ t[1] = c /\ \A k \in 1 .. n : t[k + 1] = s[k]
  OBVIOUS
<1> HIDE DEF t
<1>2. Reverse(t) = [k \in 1 .. n + 1 |-> t[((n + 1) - k) + 1]]
  BY <1>1, Zenon DEF Reverse
<1>3. Reverse(s) = [k \in 1 .. n |-> s[(n - k) + 1]]
  BY Zenon DEF Reverse
<1>4. \A k \in 1 .. n : (n - k) + 1 \in 1 .. n /\ t[((n + 1) - k) + 1] = s[(n - k) + 1]
  <2>1. ASSUME NEW k \in 1 .. n PROVE (n - k) + 1 \in 1 .. n /\ ((n + 1) - k) + 1 = ((n - k) + 1) + 1
    BY <1>1
  <2>2. QED
    BY <1>1, <2>1
<1>5. \A k \in 1 .. n : s[(n - k) + 1] \in X
  BY <1>4
<1>6. Reverse(s) \in Seq(X)
  BY <1>1, <1>3, <1>5
<1>7. t[((n + 1) - (n + 1)) + 1] = c
  BY <1>1
<1>8. [k \in 1 .. n + 1 |-> t[((n + 1) - k) + 1]] = Append([k \in 1 .. n |-> s[(n - k) + 1]], c)
  BY <1>1, <1>4, <1>7
<1>9. QED
  BY <1>2, <1>3, <1>6, <1>8, Zenon DEF t

LEMMA NumeralIs ==
  ASSUME NEW b \in Nat \ {0}, NEW ds \in Seq(Digits(b))
  PROVE  /\ ds \in DigitsOf(Value(ds, b), Len(ds), b)
         /\ Numeral(Value(ds, b), Len(ds), b) = Chars(ds)
<1> DEFINE len == Len(ds)
           n == Value(ds, b)
           es == CHOOSE f \in DigitsOf(n, len, b) : TRUE
<1>1. ds \in [1 .. len -> Digits(b)]
  OBVIOUS
<1>2. DigitsOf(n, len, b) = {f \in [1 .. len -> Digits(b)] : Value(f, b) = n}
  BY Zenon DEF DigitsOf, Digits
<1>3. ds \in DigitsOf(n, len, b)
  BY <1>1, <1>2
<1>4. es \in DigitsOf(n, len, b)
  BY <1>3, Zenon
<1> HIDE DEF es
<1>5. es \in [1 .. len -> Digits(b)] /\ Value(es, b) = n
  BY <1>2, <1>4
<1>6. es \in Seq(Digits(b)) /\ Len(es) = len
  BY <1>5
<1>7. es = ds
  BY <1>5, <1>6, NumeralUnique
<1>8. Numeral(n, len, b) = [k \in 1 .. len |-> Char(es[k])]
  BY Zenon DEF Numeral, es
<1>9. QED
  BY <1>3, <1>7, <1>8, Zenon DEF Chars

(* The digits of a number without a leading zero.                          *)
Decimals(n, ds) ==
  /\ ds \in Seq(Digits(Base)) /\ Len(ds) \in 1 .. n
  /\ ds[1] # 0 /\ Value(ds, Base) = n

LEMMA DecimalIs ==
  ASSUME NEW n \in Nat, NEW ds, Decimals(n, ds)
  PROVE  Numeral(n, Length(n), Base) = Chars(ds)
<1> DEFINE Has(len) == \E es \in DigitsOf(n, len, Base) : es[1] # 0
<1>1. Base \in Nat \ {0}
  BY KprintfAssumption
<1>2. ds \in Seq(Digits(Base)) /\ Len(ds) \in 1 .. n /\ Len(ds) >= 1 /\ ds[1] # 0 /\ Value(ds, Base) = n
  BY DEF Decimals
<1>3. ds \in DigitsOf(n, Len(ds), Base) /\ Numeral(n, Len(ds), Base) = Chars(ds)
  BY <1>1, <1>2, NumeralIs
<1>4. ASSUME NEW len \in 1 .. n, Has(len) PROVE len = Len(ds)
  <2>1. PICK es \in DigitsOf(n, len, Base) : es[1] # 0
    BY <1>4
  <2>2. es \in [1 .. len -> Digits(Base)] /\ Value(es, Base) = n
    BY <2>1, Zenon DEF DigitsOf, Digits
  <2>3. es \in Seq(Digits(Base)) /\ Len(es) = len /\ len >= 1
    BY <2>2
  <2>4. Value(ds, Base) = Value(es, Base)
    BY <1>2, <2>2
  <2>5. QED
    BY <1>1, <1>2, <2>1, <2>3, <2>4, NumeralLength
<1>5. Has(Len(ds))
  BY <1>2, <1>3
<1>6. Length(n) = CHOOSE len \in 1 .. n : Has(len)
  BY Zenon DEF Length
<1> HIDE DEF Has
<1>7. Length(n) = Len(ds)
  BY <1>2, <1>4, <1>5, <1>6, Zenon
<1>8. QED
  BY <1>3, <1>7

(* What the buffer holds is the number's decimal, backwards.               *)
Holds(n, ds) ==
  /\ Buffer[n] \in Seq(Characters) /\ ds \in Seq(Digits(Base))
  /\ Reverse(Buffer[n]) = Chars(ds)
  /\ n = 0 => ds = <<>>
  /\ n >= 1 => Decimals(n, ds)

LEMMA BufferDigits ==
  ASSUME NEW n \in Nat
  PROVE  \E ds : Holds(n, ds)
<1> DEFINE Good(m) == \A k \in 0 .. m : \E ds : Holds(k, ds)
           S == {m \in 0 .. n : Good(m)}
<1>1. Base \in Nat \ {0} /\ Base \in 2 .. 16 /\ Base \in Nat
  BY KprintfAssumption
<1>2. 0 \in S
  <2>1. Buffer[0] = <<>>
    <3>1. 0 \in Int /\ 0 <= 0
      OBVIOUS
    <3>2. QED
      BY <3>1, BufferIs, Zenon DEF BufferStep
  <2>2. Reverse(<<>>) = <<>> /\ Chars(<<>>) = <<>>
    BY DEF Reverse, Chars
  <2>3. <<>> \in Seq(Characters) /\ <<>> \in Seq(Digits(Base))
    OBVIOUS
  <2>4. Holds(0, <<>>)
    <3>1. ~ (0 >= 1)
      OBVIOUS
    <3>2. QED
      BY <2>1, <2>2, <2>3, <3>1, Zenon DEF Holds
  <2>5. Good(0)
    BY <2>4
  <2> HIDE DEF Good
  <2>6. QED
    BY <2>5
<1>3. ASSUME NEW m \in 0 .. n - 1, m \in S PROVE m + 1 \in S
  <2>1. Good(m)
    BY <1>3
  <2> HIDE DEF S
  <2> DEFINE k == m + 1
             q == k \div Base
             x == k % Base
  <2>2. k \in Nat /\ k >= 1 /\ k \in Int /\ ~ (k <= 0)
    OBVIOUS
  <2>3. q \in 0 .. k - 1 /\ x \in Digits(Base) /\ Splits(k, Base, q, x)
    BY <2>2, Smaller
  <2>4. Buffer[k] = <<Char(x)>> \o Buffer[q]
    BY <2>2, BufferIs, Zenon DEF BufferStep
  <2> HIDE DEF q, x
  <2>5. PICK es : Holds(q, es)
    <3>1. q \in 0 .. m
      BY <2>3
    <3>2. QED
      BY <2>1, <3>1
  <2> HIDE DEF Good
  <2> DEFINE ds == Append(es, x)
  <2>6. Buffer[q] \in Seq(Characters) /\ es \in Seq(Digits(Base)) /\ Reverse(Buffer[q]) = Chars(es)
    BY <2>5, Zenon DEF Holds
  <2>7. Char(x) \in Characters
    BY <1>1, <2>3, CharType
  <2>8. Buffer[k] \in Seq(Characters)
    BY <2>4, <2>6, <2>7
  <2>9. Reverse(Buffer[k]) = Append(Reverse(Buffer[q]), Char(x))
    BY <2>4, <2>6, <2>7, ReverseCons
  <2>10. Chars(ds) = Append(Chars(es), Char(x))
    BY <2>3, <2>6, CharsAppend
  <2>11. /\ ds \in Seq(Digits(Base)) /\ Len(ds) = Len(es) + 1
         /\ Len(es) >= 1 => ds[1] = es[1]
         /\ Len(es) = 0 => ds[1] = x
    BY <2>3, <2>6
  <2>12. Value(es, Base) = q
    <3>1. CASE q = 0
      <4>1. es = <<>>
        BY <2>5, <3>1, Zenon DEF Holds
      <4>2. QED
        BY <1>1, <3>1, <4>1, ValueNone
    <3>2. CASE q >= 1
      BY <2>5, <3>2 DEF Holds, Decimals
    <3>3. QED
      BY <2>3, <3>1, <3>2
  <2>13. Value(ds, Base) = k
    <3>1. es \in Seq(Nat) /\ x \in Nat
      BY <1>1, <2>3, <2>6, DigitsNat, DigitNat
    <3>2. Value(ds, Base) = Value(es, Base) * Base + x
      BY <1>1, <3>1, ValueAppend
    <3>3. k = q * Base + x
      BY <2>3 DEF Splits
    <3> HIDE DEF k
    <3>4. QED
      BY <2>12, <3>2, <3>3
  <2>14. Len(es) <= q /\ (q >= 1 => Len(es) >= 1 /\ es[1] # 0) /\ (q = 0 => Len(es) = 0)
    <3>1. CASE q = 0
      <4>1. es = <<>>
        BY <2>5, <3>1, Zenon DEF Holds
      <4>2. QED
        BY <3>1, <4>1
    <3>2. CASE q >= 1
      <4>1. Decimals(q, es)
        BY <2>5, <3>2 DEF Holds
      <4>2. QED
        BY <3>2, <4>1 DEF Decimals
    <3>3. QED
      BY <2>3, <3>1, <3>2
  <2> HIDE DEF ds
  <2>15. ds[1] # 0
    <3>1. CASE q = 0
      <4>1. k = x
        BY <1>1, <2>3, <3>1, AtLeast
      <4>2. QED
        BY <2>2, <2>11, <2>14, <3>1, <4>1
    <3>2. CASE q >= 1
      BY <2>11, <2>14, <3>2
    <3>3. QED
      BY <2>3, <3>1, <3>2
  <2>16. Len(ds) \in 1 .. k
    <3>1. Len(es) \in Nat
      BY <2>6
    <3>2. QED
      BY <2>3, <2>11, <2>14, <3>1
  <2>17. Decimals(k, ds)
    BY <2>11, <2>13, <2>15, <2>16, Zenon DEF Decimals
  <2>18. Holds(k, ds)
    <3>1. k # 0
      BY <2>2
    <3>2. Reverse(Buffer[k]) = Chars(ds)
      BY <2>6, <2>9, <2>10
    <3> HIDE DEF k
    <3>3. QED
      BY <2>8, <2>11, <2>17, <3>1, <3>2, Zenon DEF Holds
  <2>19. Good(m + 1)
    <3>1. \A j \in 0 .. m + 1 : j \in 0 .. m \/ j = k
      OBVIOUS
    <3>2. QED
      BY <2>1, <2>18, <3>1 DEF Good
  <2>20. m + 1 \in 0 .. n
    OBVIOUS
  <2>21. QED
    BY <2>19, <2>20 DEF S
<1>4. n \in S
  <2> HIDE DEF S
  <2>1. QED
    BY <1>2, <1>3, UpTo
<1>5. Good(n) /\ n \in 0 .. n
  BY <1>4
<1>6. QED
  BY <1>5

(* An int in 64 bits can be negated.                                       *)
LEMMA NegateIs ==
  ASSUME NEW n \in Ints, n < 0
  PROVE  Negate(n) = -n /\ -n \in Nat /\ -n >= 1
<1>1. n \in Int /\ INT_MOD \in Nat \ {0} /\ LONG_MOD \in Nat /\ INT_MOD < LONG_MOD /\ Signed(n, INT_MOD) = n
  BY KprintfAssumption
<1>2. PICK h \in Nat : h = INT_MOD \div 2 /\ 2 * h <= INT_MOD
  BY <1>1
<1>3. PICK H \in Nat : H = LONG_MOD \div 2 /\ 2 * H <= LONG_MOD
  BY <1>1
<1>4. -n <= h
  <2>1. ((n + h) % INT_MOD) - h = n
    BY <1>1, <1>2 DEF Signed
  <2>2. (n + h) % INT_MOD \in Nat
    BY <1>1
  <2>3. QED
    BY <1>1, <2>1, <2>2
<1>5. -n + H \in 0 .. LONG_MOD - 1
  BY <1>1, <1>2, <1>3, <1>4
<1>6. (-n + H) % LONG_MOD = -n + H
  BY <1>1, <1>5
<1>7. Negate(n) = ((-n + H) % LONG_MOD) - H
  BY <1>3 DEF Negate, Signed
<1>8. QED
  BY <1>1, <1>3, <1>6, <1>7

(* The digits print_int_serial writes are the decimal of its argument.     *)
THEOREM DecimalPrinted ==
  ASSUME NEW n \in Ints
  PROVE  print_int_serial(n) = Decimal(n) /\ print_int_serial(n) \in Seq(Characters)
<1>1. n \in Int /\ Base \in 2 .. 16 /\ "-" \in Characters
  BY KprintfAssumption
<1>2. ASSUME NEW k \in Nat, k >= 1
      PROVE  /\ Reverse(Buffer[k]) = Numeral(k, Length(k), Base)
             /\ Reverse(Buffer[k]) \in Seq(Characters)
  <2>1. PICK ds : Holds(k, ds)
    BY BufferDigits
  <2>2. Decimals(k, ds) /\ Reverse(Buffer[k]) = Chars(ds) /\ ds \in Seq(Digits(Base))
    BY <1>2, <2>1 DEF Holds
  <2>3. QED
    BY <1>1, <2>2, DecimalIs, CharsType
<1>3. CASE n = 0
  <2>1. print_int_serial(n) = <<"0">> /\ Decimal(n) = <<"0">>
    BY <1>3 DEF print_int_serial, Decimal
  <2>2. Char(0) = "0"
    BY DEF Char, hex_chars
  <2>3. 0 \in Digits(Base)
    BY <1>1 DEF Digits
  <2>4. "0" \in Characters
    BY <1>1, <2>2, <2>3, CharType
  <2>5. <<"0">> \in Seq(Characters)
    BY <2>4
  <2>6. QED
    BY <2>1, <2>5
<1>4. CASE n >= 1
  <2>1. n \in Nat /\ n # 0 /\ ~ (n < 0) /\ n > 0
    BY <1>1, <1>4
  <2>2. print_int_serial(n) = Reverse(Buffer[n])
    BY <2>1, Zenon DEF print_int_serial
  <2>3. Decimal(n) = Numeral(n, Length(n), Base)
    BY <2>1 DEF Decimal
  <2>4. QED
    BY <1>2, <1>4, <2>1, <2>2, <2>3
<1>5. CASE n < 0
  <2>1. Negate(n) = -n /\ -n \in Nat /\ -n >= 1 /\ n # 0 /\ ~ (n > 0)
    BY <1>1, <1>5, NegateIs
  <2>2. print_int_serial(n) = <<"-">> \o Reverse(Buffer[-n])
    BY <1>5, <2>1, Zenon DEF print_int_serial
  <2>3. Decimal(n) = <<"-">> \o Numeral(-n, Length(-n), Base)
    BY <1>5, <2>1 DEF Decimal
  <2> DEFINE t == Reverse(Buffer[-n])
  <2>4. t = Numeral(-n, Length(-n), Base) /\ t \in Seq(Characters)
    BY <1>2, <2>1
  <2> HIDE DEF t
  <2>5. <<"-">> \o t \in Seq(Characters)
    BY <1>1, <2>4
  <2>6. print_int_serial(n) = <<"-">> \o t
    BY <2>2 DEF t
  <2>7. QED
    BY <2>3, <2>4, <2>5, <2>6, Zenon
<1>6. QED
  BY <1>1, <1>3, <1>4, <1>5

LEMMA Product ==
  ASSUME NEW a \in Nat \ {0}, NEW b \in Nat \ {0}
  PROVE  a * b \in Nat \ {0}
OBVIOUS

LEMMA PowerIs ==
  /\ Power[0] = 1
  /\ \A k \in 1 .. HexDigits : Power[k] = Nibble * Power[k - 1]
  /\ \A k \in 0 .. HexDigits : Power[k] \in Nat \ {0}
<1> DEFINE n == HexDigits
           V == Nat \ {0}
           next == [k \in 1 .. n |-> [x \in V |-> Nibble * x]]
<1>1. n \in Nat /\ Nibble \in V /\ 1 \in V
  BY KprintfAssumption
<1>2. next \in [1 .. n -> [V -> V]]
  <2>1. \A x \in V : Nibble * x \in V
    <3> HIDE DEF V
    <3>1. QED
      BY <1>1, Product DEF V
  <2> HIDE DEF V
  <2>2. QED
    BY <2>1
<1>3. \A k \in 1 .. n, x \in V : next[k][x] = Nibble * x
  OBVIOUS
<1> HIDE DEF next, V, n
<1>4. PICK v \in [0 .. n -> V] : Follows(v, n, 1, next)
  BY <1>1, <1>2, Recursion
<1>5. ASSUME NEW k \in 0 .. n PROVE v[k] = IF k = 0 THEN 1 ELSE Nibble * v[k - 1]
  <2>1. CASE k = 0
    BY <1>4, <2>1 DEF Follows
  <2>2. CASE k # 0
    <3>1. k \in 1 .. n /\ k - 1 \in 0 .. n
      BY <1>1, <2>2
    <3>2. v[k - 1] \in V
      BY <1>4, <3>1
    <3>3. v[k] = next[k][v[k - 1]]
      BY <1>4, <3>1 DEF Follows
    <3>4. v[k] = Nibble * v[k - 1]
      BY <1>3, <3>1, <3>2, <3>3
    <3>5. QED
      BY <2>2, <3>4
  <2>3. QED
    BY <2>1, <2>2
<1>6. v = [k \in 0 .. n |-> IF k = 0 THEN 1 ELSE Nibble * v[k - 1]]
  <2>1. v = [k \in 0 .. n |-> v[k]]
    BY <1>4
  <2>2. QED
    BY <1>5, <2>1, Zenon
<1>7. Power = CHOOSE f : f = [k \in 0 .. n |-> IF k = 0 THEN 1 ELSE Nibble * f[k - 1]]
  BY DEF Power, n
<1>8. Power = [k \in 0 .. n |-> IF k = 0 THEN 1 ELSE Nibble * Power[k - 1]]
  BY <1>6, <1>7, Zenon
<1>9. \A k \in 0 .. n : Power[k] = IF k = 0 THEN 1 ELSE Nibble * Power[k - 1]
  BY <1>8, Zenon
<1>10. Power[0] = 1 /\ \A k \in 1 .. n : Power[k] = Nibble * Power[k - 1]
  <2>1. 0 \in 0 .. n /\ \A k \in 1 .. n : k \in 0 .. n /\ k # 0
    BY <1>1
  <2>2. QED
    BY <1>9, <2>1, Zenon
<1>11. ASSUME NEW k \in 0 .. n PROVE Power[k] \in V
  <2> DEFINE S == {m \in 0 .. n : Power[m] \in V}
  <2>1. 0 \in S
    BY <1>1, <1>10
  <2>2. ASSUME NEW m \in 0 .. n - 1, m \in S PROVE m + 1 \in S
    <3>1. m + 1 \in 1 .. n /\ (m + 1) - 1 = m /\ m + 1 \in 0 .. n
      BY <1>1
    <3>2. Power[m + 1] = Nibble * Power[m]
      <4>1. Power[m + 1] = Nibble * Power[(m + 1) - 1]
        BY <1>10, <3>1
      <4>2. QED
        BY <3>1, <4>1
    <3>3. Power[m] \in V
      BY <2>2
    <3>4. Nibble * Power[m] \in V
      BY <1>1, <3>3, Product DEF V
    <3>5. QED
      BY <3>1, <3>2, <3>4
  <2> HIDE DEF S
  <2>3. k \in Nat /\ \A m \in 0 .. k - 1 : m \in 0 .. n - 1
    BY <1>1
  <2>4. \A m \in 0 .. k - 1 : m \in S => m + 1 \in S
    BY <2>2, <2>3
  <2>5. k \in S
    BY <2>1, <2>3, <2>4, UpTo
  <2>6. QED
    BY <2>5 DEF S
<1>12. QED
  BY <1>10, <1>11 DEF n, V

LEMMA Quotient ==
  ASSUME NEW w \in Nat, NEW p \in Nat \ {0}, NEW b \in Nat \ {0}
  PROVE  /\ w \div p \in Nat /\ (w \div p) % b \in Digits(b)
         /\ w \div p = (w \div (b * p)) * b + ((w \div p) % b)
<1>1. w \div p \in Nat
  OBVIOUS
<1>2. w \div (b * p) = (w \div p) \div b
  OBVIOUS
<1>3. PICK v \in Nat : v = w \div p
  BY <1>1
<1>4. v % b \in 0 .. b - 1 /\ v = (v \div b) * b + (v % b)
  OBVIOUS
<1>5. QED
  BY <1>1, <1>2, <1>3, <1>4 DEF Digits

(* The digits print_hex_serial writes are the numeral of its argument.     *)
THEOREM HexPrinted ==
  ASSUME NEW w \in 0 .. Power[HexDigits] - 1
  PROVE  /\ print_hex_serial(w) = <<"0", "x">> \o Numeral(w, HexDigits, Nibble)
         /\ print_hex_serial(w) \in Seq(Characters)
<1> DEFINE n == HexDigits
           D == Digits(Nibble)
           digit(k) == (w \div Power[n - k]) % Nibble
           ds == [k \in 1 .. n |-> digit(k)]
           prefix(l) == SubSeq(ds, 1, l)
           S == {l \in 0 .. n : Value(prefix(l), Nibble) = w \div Power[n - l]}
<1>1. n \in Nat /\ Nibble \in 2 .. 16 /\ Nibble \in Nat \ {0} /\ Nibble \in Nat
  BY KprintfAssumption
<1>2. w \in Nat /\ w < Power[n] /\ Power[n] \in Nat \ {0}
  <2>1. n \in 0 .. n
    BY <1>1
  <2>2. Power[n] \in Nat \ {0}
    BY <2>1, PowerIs
  <2>3. QED
    BY <2>2
<1>3. ASSUME NEW l \in 0 .. n - 1
      PROVE  /\ Power[n - l] = Nibble * Power[n - (l + 1)] /\ Power[n - (l + 1)] \in Nat \ {0}
             /\ digit(l + 1) \in D
             /\ w \div Power[n - (l + 1)] = (w \div Power[n - l]) * Nibble + digit(l + 1)
  <2>1. n - l \in 1 .. n /\ (n - l) - 1 = n - (l + 1) /\ n - (l + 1) \in 0 .. n
    BY <1>1
  <2>2. Power[n - l] = Nibble * Power[(n - l) - 1]
    BY <2>1, PowerIs
  <2>3. Power[n - l] = Nibble * Power[n - (l + 1)] /\ Power[n - (l + 1)] \in Nat \ {0}
    BY <2>1, <2>2, PowerIs
  <2> DEFINE p == Power[n - (l + 1)]
  <2> HIDE DEF p
  <2>4. p \in Nat \ {0}
    BY <2>3 DEF p
  <2>5. (w \div p) % Nibble \in D /\ w \div p = (w \div (Nibble * p)) * Nibble + ((w \div p) % Nibble)
    BY <1>1, <1>2, <2>4, Quotient
  <2>6. QED
    BY <2>3, <2>5 DEF p
<1> HIDE DEF digit
<1>4. ds \in Seq(D) /\ Len(ds) = n
  <2>1. ASSUME NEW k \in 1 .. n PROVE digit(k) \in D
    <3>1. k - 1 \in 0 .. n - 1 /\ (k - 1) + 1 = k
      BY <1>1
    <3>2. digit((k - 1) + 1) \in D
      BY <1>3, <3>1
    <3>3. QED
      BY <3>1, <3>2
  <2> HIDE DEF D
  <2>2. QED
    BY <1>1, <2>1
<1>5. \A k \in 1 .. n : ds[k] = digit(k)
  OBVIOUS
<1> HIDE DEF ds, D
<1>6. 0 \in S
  <2>1. prefix(0) = <<>>
    BY <1>4
  <2>2. Value(prefix(0), Nibble) = 0
    BY <1>1, <2>1, ValueNone
  <2>3. n - 0 = n
    BY <1>1
  <2>4. w \div Power[n] = 0
    BY <1>2
  <2>5. 0 \in 0 .. n
    BY <1>1
  <2> HIDE DEF prefix
  <2>6. QED
    BY <2>2, <2>3, <2>4, <2>5
<1>7. ASSUME NEW l \in 0 .. n - 1, l \in S PROVE l + 1 \in S
  <2>1. l \in 0 .. Len(ds) - 1 /\ l + 1 \in 1 .. n /\ l + 1 \in 0 .. n
    BY <1>1, <1>4
  <2>2. prefix(l) \in Seq(D) /\ prefix(l + 1) = Append(prefix(l), ds[l + 1])
    BY <1>4, <2>1, NextPrefix
  <2>3. ds[l + 1] = digit(l + 1) /\ digit(l + 1) \in D
    BY <1>3, <1>5, <2>1
  <2>4. Value(prefix(l), Nibble) = w \div Power[n - l]
    BY <1>7
  <2> HIDE DEF prefix, S
  <2>5. prefix(l) \in Seq(Nat) /\ digit(l + 1) \in Nat
    BY <1>1, <2>2, <2>3, DigitsNat, DigitNat DEF D
  <2>6. Value(prefix(l + 1), Nibble) = Value(prefix(l), Nibble) * Nibble + digit(l + 1)
    BY <1>1, <2>2, <2>3, <2>5, ValueAppend
  <2>7. Value(prefix(l + 1), Nibble) = w \div Power[n - (l + 1)]
    BY <1>3, <2>4, <2>6
  <2>8. QED
    BY <2>1, <2>7 DEF S
<1>8. n \in S
  <2> HIDE DEF S
  <2>1. QED
    BY <1>1, <1>6, <1>7, UpTo
<1>9. Value(ds, Nibble) = w
  <2>1. prefix(n) = ds
    BY <1>4
  <2>2. n - n = 0 /\ Power[0] = 1 /\ w \div 1 = w
    BY <1>1, <1>2, PowerIs
  <2>3. Value(prefix(n), Nibble) = w \div Power[n - n]
    BY <1>8
  <2> HIDE DEF prefix
  <2>4. QED
    BY <2>1, <2>2, <2>3
<1>10. Numeral(w, n, Nibble) = Chars(ds) /\ Chars(ds) \in Seq(Characters)
  BY <1>1, <1>4, <1>9, NumeralIs, CharsType DEF D
<1>11. Chars(ds) = [k \in 1 .. n |-> Char(digit(k))]
  <2>1. Chars(ds) = [k \in 1 .. n |-> Char(ds[k])]
    BY <1>4, Zenon DEF Chars
  <2>2. QED
    BY <1>5, <2>1
<1>12. print_hex_serial(w) = <<"0", "x">> \o Chars(ds)
  BY <1>11, Zenon DEF print_hex_serial, digit
<1>13. "0" \in Characters /\ "x" \in Characters
  <2>1. 0 \in Digits(Nibble)
    BY <1>1 DEF Digits
  <2>2. Char(0) = "0"
    BY DEF Char, hex_chars
  <2>3. QED
    BY <1>1, <2>1, <2>2, CharType, KprintfAssumption
<1> DEFINE t == Chars(ds)
<1>14. t \in Seq(Characters) /\ print_hex_serial(w) = <<"0", "x">> \o t /\ Numeral(w, n, Nibble) = t
  BY <1>10, <1>12
<1> HIDE DEF t
<1>15. <<"0", "x">> \o t \in Seq(Characters)
  BY <1>13, <1>14
<1>16. QED
  BY <1>14, <1>15, Zenon

-----------------------------------------------------------------------------
(* Formats *)

(* A directive is a character of its own, or a % and a character whose     *)
(* conversion takes the directive's arguments and prints its output.       *)
Typed(d) == d.text \in Seq(Characters) /\ d.args \in Seq(Int) /\ d.output \in Seq(Characters)

Plain(d) == \E c \in Characters \ {"NUL", "%"} : d.text = <<c>> /\ d.args = <<>> /\ d.output = <<c>>

Converts(c, d) ==
  /\ c \in Characters /\ d.text = <<"%", c>>
  /\ \A rest \in Seq(Int) :
       /\ Convert(c, d.args \o rest).out = d.output
       /\ Convert(c, d.args \o rest).taken = Len(d.args)

LEMMA DirectiveIs ==
  ASSUME NEW t, NEW a, NEW o
  PROVE  Directive(t, a, o).text = t /\ Directive(t, a, o).args = a /\ Directive(t, a, o).output = o
BY DEF Directive

LEMMA OneArgument ==
  ASSUME NEW a \in Int
  PROVE  /\ <<a>> \in Seq(Int) /\ Len(<<a>>) = 1
         /\ \A rest \in Seq(Int) : (<<a>> \o rest)[1] = a
OBVIOUS

LEMMA NoArgument == <<>> \in Seq(Int) /\ Len(<<>>) = 0
OBVIOUS

LEMMA Alphabet ==
  {"a", "c", "d", "q", "s", "x", "z", "%", "-", "\n", "(null)", "NUL"} \subseteq Characters
BY KprintfAssumption

LEMMA DirectiveKinds ==
  ASSUME NEW d \in Directives, d # LonePercent
  PROVE  Typed(d) /\ (Plain(d) \/ \E c : Converts(c, d))
<1>1. \/ d = Directive(<<"a">>, <<>>, <<"a">>)
      \/ d = Directive(<<"%", "%">>, <<>>, <<"%">>)
      \/ d = Directive(<<"%", "q">>, <<>>, <<"%", "q">>)
      \/ d = Directive(<<"%", "c">>, <<3>>, <<Char(3)>>)
      \/ d = Directive(<<"%", "s">>, <<0>>, <<"(null)">>)
      \/ \E s \in DOMAIN Strings : d = Directive(<<"%", "s">>, <<s>>, Strings[s])
      \/ \E n \in Ints : d = Directive(<<"%", "d">>, <<n>>, Decimal(n))
      \/ \E w \in Words : d = Directive(<<"%", "x">>, <<w>>, <<"0", "x">> \o Numeral(w, HexDigits, Nibble))
  BY DEF Directives
<1>2. \A c1, c2 \in Characters : <<c1>> \in Seq(Characters) /\ <<c1, c2>> \in Seq(Characters)
  OBVIOUS
<1>3. ASSUME NEW c \in Characters, NEW a \in Int, NEW o \in Seq(Characters), d = Directive(<<"%", c>>, <<a>>, o),
             \A args2 : args2[1] = a => Convert(c, args2).out = o /\ Convert(c, args2).taken = 1
      PROVE  Typed(d) /\ \E e : Converts(e, d)
  <2>1. d.text = <<"%", c>> /\ d.args = <<a>> /\ d.output = o
    BY <1>3, DirectiveIs
  <2>2. Typed(d)
    BY <1>2, <2>1, OneArgument, Alphabet DEF Typed
  <2>3. Converts(c, d)
    <3>1. ASSUME NEW rest \in Seq(Int)
          PROVE  Convert(c, d.args \o rest).out = d.output /\ Convert(c, d.args \o rest).taken = Len(d.args)
      <4>1. (d.args \o rest)[1] = a /\ Len(d.args) = 1
        BY <2>1, OneArgument
      <4>2. QED
        BY <1>3, <2>1, <4>1
    <3>2. QED
      BY <2>1, <3>1 DEF Converts
  <2>4. QED
    BY <2>2, <2>3
<1>4. ASSUME NEW c \in Characters, NEW o \in Seq(Characters), d = Directive(<<"%", c>>, <<>>, o),
             \A args2 : Convert(c, args2).out = o /\ Convert(c, args2).taken = 0
      PROVE  Typed(d) /\ \E e : Converts(e, d)
  <2>1. d.text = <<"%", c>> /\ d.args = <<>> /\ d.output = o
    BY <1>4, DirectiveIs
  <2>2. Typed(d)
    BY <1>2, <2>1, NoArgument, Alphabet DEF Typed
  <2>3. Converts(c, d)
    BY <1>4, <2>1, NoArgument DEF Converts
  <2>4. QED
    BY <2>2, <2>3
<1>5. CASE d = Directive(<<"a">>, <<>>, <<"a">>)
  <2>1. d.text = <<"a">> /\ d.args = <<>> /\ d.output = <<"a">>
    BY <1>5, DirectiveIs
  <2>2. Typed(d)
    BY <1>2, <2>1, NoArgument, Alphabet DEF Typed
  <2>3. Plain(d)
    BY <2>1, Alphabet DEF Plain
  <2>4. QED
    BY <2>2, <2>3
<1>6. CASE d = Directive(<<"%", "%">>, <<>>, <<"%">>)
  <2>1. \A args2 : Convert("%", args2).out = <<"%">> /\ Convert("%", args2).taken = 0
    BY DEF Convert
  <2>2. QED
    BY <1>2, <1>4, <1>6, <2>1, Alphabet
<1>7. CASE d = Directive(<<"%", "q">>, <<>>, <<"%", "q">>)
  <2>1. \A args2 : Convert("q", args2).out = <<"%", "q">> /\ Convert("q", args2).taken = 0
    BY DEF Convert
  <2>2. QED
    BY <1>2, <1>4, <1>7, <2>1, Alphabet
<1>8. CASE d = Directive(<<"%", "c">>, <<3>>, <<Char(3)>>)
  <2>1. \A args2 : args2[1] = 3 => Convert("c", args2).out = <<Char(3)>> /\ Convert("c", args2).taken = 1
    BY DEF Convert
  <2>2. Char(3) \in Characters
    <3>1. 16 \in 2 .. 16 /\ 3 \in Digits(16)
      BY DEF Digits
    <3>2. QED
      BY <3>1, CharType
  <2>3. "c" \in Characters /\ 3 \in Int /\ <<Char(3)>> \in Seq(Characters)
    BY <1>2, <2>2, Alphabet
  <2>4. QED
    BY <1>3, <1>8, <2>1, <2>3
<1>9. CASE d = Directive(<<"%", "s">>, <<0>>, <<"(null)">>)
  <2>1. \A args2 : args2[1] = 0 => Convert("s", args2).out = <<"(null)">> /\ Convert("s", args2).taken = 1
    BY DEF Convert, StringAt
  <2>2. "s" \in Characters /\ 0 \in Int /\ <<"(null)">> \in Seq(Characters)
    BY <1>2, Alphabet
  <2>3. QED
    BY <1>3, <1>9, <2>1, <2>2
<1>10. CASE \E s \in DOMAIN Strings : d = Directive(<<"%", "s">>, <<s>>, Strings[s])
  <2>1. PICK s \in DOMAIN Strings : d = Directive(<<"%", "s">>, <<s>>, Strings[s])
    BY <1>10
  <2>2. s \in Int /\ s # 0 /\ Strings[s] \in Seq(Characters)
    BY KprintfAssumption
  <2>3. \A args2 : args2[1] = s => Convert("s", args2).out = Strings[s] /\ Convert("s", args2).taken = 1
    BY <2>2 DEF Convert, StringAt
  <2>4. QED
    BY <1>3, <2>1, <2>2, <2>3, Alphabet
<1>11. CASE \E n \in Ints : d = Directive(<<"%", "d">>, <<n>>, Decimal(n))
  <2>1. PICK n \in Ints : d = Directive(<<"%", "d">>, <<n>>, Decimal(n))
    BY <1>11
  <2>2. n \in Int /\ print_int_serial(n) = Decimal(n) /\ Decimal(n) \in Seq(Characters)
    BY DecimalPrinted, KprintfAssumption
  <2>3. \A args2 : args2[1] = n => Convert("d", args2).out = print_int_serial(n) /\ Convert("d", args2).taken = 1
    BY DEF Convert
  <2>4. QED
    BY <1>3, <2>1, <2>2, <2>3, Alphabet
<1>12. CASE \E w \in Words : d = Directive(<<"%", "x">>, <<w>>, <<"0", "x">> \o Numeral(w, HexDigits, Nibble))
  <2> DEFINE numeral(w) == <<"0", "x">> \o Numeral(w, HexDigits, Nibble)
  <2>1. PICK w \in Words : d = Directive(<<"%", "x">>, <<w>>, numeral(w))
    BY <1>12
  <2>2. w \in 0 .. Power[HexDigits] - 1
    BY KprintfAssumption
  <2>3. w \in Int /\ print_hex_serial(w) = numeral(w) /\ numeral(w) \in Seq(Characters)
    <3>1. w \in Int
      BY <2>2
    <3>2. print_hex_serial(w) = numeral(w) /\ print_hex_serial(w) \in Seq(Characters)
      BY <2>2, HexPrinted
    <3>3. QED
      BY <3>1, <3>2
  <2>4. \A args2 : args2[1] = w => Convert("x", args2).out = print_hex_serial(w) /\ Convert("x", args2).taken = 1
    BY DEF Convert
  <2> HIDE DEF numeral
  <2>5. QED
    BY <1>3, <2>1, <2>3, <2>4, Alphabet
<1>13. QED
  BY <1>1, <1>5, <1>6, <1>7, <1>8, <1>9, <1>10, <1>11, <1>12

LEMMA LonePercentIs ==
  /\ LonePercent.text = <<"%">> /\ LonePercent.args = <<>> /\ LonePercent.output = <<>>
  /\ Typed(LonePercent)
<1>1. LonePercent.text = <<"%">> /\ LonePercent.args = <<>> /\ LonePercent.output = <<>>
  BY DirectiveIs DEF LonePercent
<1>2. "%" \in Characters
  BY Alphabet
<1>3. QED
  BY <1>1, <1>2, NoArgument DEF Typed

LEMMA DirectiveTyped ==
  ASSUME NEW d \in Directives
  PROVE  Typed(d)
BY DirectiveKinds, LonePercentIs

(* before is the part of whole that comes before piece, and after the part *)
(* that ends with it.                                                      *)
Grows(X, whole, before, piece, after, last) ==
  /\ before \in Seq(X) /\ piece \in Seq(X)
  /\ after = before \o piece
  /\ \E r \in Seq(X) : whole = after \o r /\ (last => r = <<>>)

LEMMA FlattenGrows ==
  ASSUME NEW X, NEW E \in Seq(Seq(X)), NEW n \in 0 .. Len(E) - 1
  PROVE  Grows(X, FlattenSeq(E), FlattenSeq(SubSeq(E, 1, n)), E[n + 1], FlattenSeq(SubSeq(E, 1, n + 1)),
               n + 1 = Len(E))
<1> DEFINE F == SubSeq(E, 1, n)
           G == SubSeq(E, 1, n + 1)
           e == E[n + 1]
<1>1. F \in Seq(Seq(X)) /\ e \in Seq(X) /\ G = Append(F, e)
  BY NextPrefix
<1>2. n + 1 \in 0 .. Len(E)
  OBVIOUS
<1>3. PICK r \in Seq(X) : FlattenSeq(E) = FlattenSeq(G) \o r /\ (n + 1 = Len(E) => r = <<>>)
  BY <1>2, FlattenRest
<1> HIDE DEF F, G, e
<1>4. FlattenSeq(F) \in Seq(X)
  BY <1>1, FlattenType
<1>5. FlattenSeq(G) = FlattenSeq(F) \o e
  BY <1>1, FlattenAppend
<1>6. Grows(X, FlattenSeq(E), FlattenSeq(F), e, FlattenSeq(G), n + 1 = Len(E))
  BY <1>1, <1>3, <1>4, <1>5, Zenon DEF Grows
<1>7. QED
  BY <1>6 DEF F, G, e

LEMMA TextsGrow ==
  ASSUME NEW ds \in Seq(Directives), NEW n \in 0 .. Len(ds) - 1
  PROVE  Grows(Characters, Texts(ds), Texts(SubSeq(ds, 1, n)), ds[n + 1].text, Texts(SubSeq(ds, 1, n + 1)),
               n + 1 = Len(ds))
<1> DEFINE E == [k \in DOMAIN ds |-> ds[k].text]
           F(m) == [k \in DOMAIN SubSeq(ds, 1, m) |-> SubSeq(ds, 1, m)[k].text]
<1>1. \A k \in DOMAIN ds : ds[k].text \in Seq(Characters)
  BY DirectiveTyped DEF Typed
<1>2. E \in Seq(Seq(Characters)) /\ Len(E) = Len(ds) /\ E[n + 1] = ds[n + 1].text
  BY <1>1
<1>3. F(n) = SubSeq(E, 1, n) /\ F(n + 1) = SubSeq(E, 1, n + 1)
  OBVIOUS
<1>4. Texts(ds) = FlattenSeq(E) /\ Texts(SubSeq(ds, 1, n)) = FlattenSeq(F(n))
      /\ Texts(SubSeq(ds, 1, n + 1)) = FlattenSeq(F(n + 1))
  BY Zenon DEF Texts
<1> HIDE DEF E, F
<1>5. Grows(Characters, FlattenSeq(E), FlattenSeq(SubSeq(E, 1, n)), E[n + 1], FlattenSeq(SubSeq(E, 1, n + 1)),
            n + 1 = Len(E))
  BY <1>2, FlattenGrows
<1>6. QED
  BY <1>2, <1>3, <1>4, <1>5

LEMMA ArgumentsGrow ==
  ASSUME NEW ds \in Seq(Directives), NEW n \in 0 .. Len(ds) - 1
  PROVE  Grows(Int, Arguments(ds), Arguments(SubSeq(ds, 1, n)), ds[n + 1].args, Arguments(SubSeq(ds, 1, n + 1)),
               n + 1 = Len(ds))
<1> DEFINE E == [k \in DOMAIN ds |-> ds[k].args]
           F(m) == [k \in DOMAIN SubSeq(ds, 1, m) |-> SubSeq(ds, 1, m)[k].args]
<1>1. \A k \in DOMAIN ds : ds[k].args \in Seq(Int)
  BY DirectiveTyped DEF Typed
<1>2. E \in Seq(Seq(Int)) /\ Len(E) = Len(ds) /\ E[n + 1] = ds[n + 1].args
  BY <1>1
<1>3. F(n) = SubSeq(E, 1, n) /\ F(n + 1) = SubSeq(E, 1, n + 1)
  OBVIOUS
<1>4. Arguments(ds) = FlattenSeq(E) /\ Arguments(SubSeq(ds, 1, n)) = FlattenSeq(F(n))
      /\ Arguments(SubSeq(ds, 1, n + 1)) = FlattenSeq(F(n + 1))
  BY Zenon DEF Arguments
<1> HIDE DEF E, F
<1>5. Grows(Int, FlattenSeq(E), FlattenSeq(SubSeq(E, 1, n)), E[n + 1], FlattenSeq(SubSeq(E, 1, n + 1)),
            n + 1 = Len(E))
  BY <1>2, FlattenGrows
<1>6. QED
  BY <1>2, <1>3, <1>4, <1>5

LEMMA OutputsGrow ==
  ASSUME NEW ds \in Seq(Directives), NEW n \in 0 .. Len(ds) - 1
  PROVE  Grows(Characters, Outputs(ds), Outputs(SubSeq(ds, 1, n)), ds[n + 1].output, Outputs(SubSeq(ds, 1, n + 1)),
               n + 1 = Len(ds))
<1> DEFINE E == [k \in DOMAIN ds |-> ds[k].output]
           F(m) == [k \in DOMAIN SubSeq(ds, 1, m) |-> SubSeq(ds, 1, m)[k].output]
<1>1. \A k \in DOMAIN ds : ds[k].output \in Seq(Characters)
  BY DirectiveTyped DEF Typed
<1>2. E \in Seq(Seq(Characters)) /\ Len(E) = Len(ds) /\ E[n + 1] = ds[n + 1].output
  BY <1>1
<1>3. F(n) = SubSeq(E, 1, n) /\ F(n + 1) = SubSeq(E, 1, n + 1)
  OBVIOUS
<1>4. Outputs(ds) = FlattenSeq(E) /\ Outputs(SubSeq(ds, 1, n)) = FlattenSeq(F(n))
      /\ Outputs(SubSeq(ds, 1, n + 1)) = FlattenSeq(F(n + 1))
  BY Zenon DEF Outputs
<1> HIDE DEF E, F
<1>5. Grows(Characters, FlattenSeq(E), FlattenSeq(SubSeq(E, 1, n)), E[n + 1], FlattenSeq(SubSeq(E, 1, n + 1)),
            n + 1 = Len(E))
  BY <1>2, FlattenGrows
<1>6. QED
  BY <1>2, <1>3, <1>4, <1>5

(* Before the first directive, and after the last.                         *)
LEMMA NoDirectives ==
  ASSUME NEW ds \in Seq(Directives)
  PROVE  /\ Texts(SubSeq(ds, 1, 0)) = <<>> /\ Arguments(SubSeq(ds, 1, 0)) = <<>>
         /\ Outputs(SubSeq(ds, 1, 0)) = <<>>
         /\ SubSeq(ds, 1, Len(ds)) = ds
<1>1. SubSeq(ds, 1, 0) = <<>> /\ SubSeq(ds, 1, Len(ds)) = ds
  OBVIOUS
<1>2. /\ [k \in DOMAIN <<>> |-> <<>>[k].text] = <<>> /\ [k \in DOMAIN <<>> |-> <<>>[k].args] = <<>>
      /\ [k \in DOMAIN <<>> |-> <<>>[k].output] = <<>>
  OBVIOUS
<1>3. QED
  BY <1>1, <1>2, FlattenNone DEF Texts, Arguments, Outputs

LEMMA FieldTypes ==
  ASSUME NEW ds \in Seq(Directives)
  PROVE  Texts(ds) \in Seq(Characters) /\ Arguments(ds) \in Seq(Int) /\ Outputs(ds) \in Seq(Characters)
<1>1. \A k \in DOMAIN ds : ds[k].text \in Seq(Characters)
  BY DirectiveTyped DEF Typed
<1>2. \A k \in DOMAIN ds : ds[k].args \in Seq(Int)
  BY DirectiveTyped DEF Typed
<1>3. \A k \in DOMAIN ds : ds[k].output \in Seq(Characters)
  BY DirectiveTyped DEF Typed
<1>4. [k \in DOMAIN ds |-> ds[k].text] \in Seq(Seq(Characters))
  BY <1>1
<1>5. [k \in DOMAIN ds |-> ds[k].args] \in Seq(Seq(Int))
  BY <1>2
<1>6. [k \in DOMAIN ds |-> ds[k].output] \in Seq(Seq(Characters))
  BY <1>3
<1>7. QED
  BY <1>4, <1>5, <1>6, FlattenType DEF Texts, Arguments, Outputs

-----------------------------------------------------------------------------
(* The keyboard alone *)

(* The interrupt flag is off exactly until sti and inside the handler, so  *)
(* the handler is never entered twice.                                     *)
NotNested ==
  /\ interrupts_on <=> pc = "run" /\ handler = "none"
  /\ handler = "none" \/ pc = "run"

(* The pin is masked until set_IRQ, and no request precedes it.            *)
PinMasked ==
  /\ masked <=> pc = "set_IRQ"
  /\ masked => ~irr

(* kmain reads only a controller it has seen full.                         *)
DiscardsByte == pc = "discard" => full

(* Nothing is requested before the first byte.                             *)
FirstByte == data = 0 => ~full /\ ~irr /\ handler # "read"

Inv == TypeOK /\ NotNested /\ PinMasked /\ DiscardsByte /\ FirstByte /\ NoStuckKey

(* The keys read so far are behind the byte in the controller.             *)
Behind ==
  /\ discarded \subseteq 1 .. data
  /\ \A k \in DOMAIN scancodes : scancodes[k] <= data
  /\ full => data \notin discarded /\ \A k \in DOMAIN scancodes : scancodes[k] < data

(* There is a request, or a handler about to read, that no unread byte     *)
(* goes with.                                                              *)
Spare ==
  \/ ~full /\ (irr \/ handler = "read")
  \/ irr /\ handler = "read"

(* There is never a second such request, and none once a stale byte has    *)
(* been read.                                                              *)
OneSpare ==
  /\ ~(~full /\ irr /\ handler = "read")
  /\ Spare => \A k \in DOMAIN scancodes : ~Stale(k)
  /\ pc # "run" => scancodes = <<>>

StaleInv == Inv /\ Behind /\ OneSpare /\ OneStaleAtMost

-----------------------------------------------------------------------------
(* No byte is left behind *)

LEMMA InitInv == Init => Inv
  <1>1. SUFFICES ASSUME Init PROVE Inv
    OBVIOUS
  <1>2. scancodes \in Seq(1 .. pressed)
    BY <1>1 DEF Init
  <1>3. FirstByte
    <2>1. CASE full
      BY <1>1, <2>1 DEF Init, FirstByte
    <2>2. CASE ~full
      BY <1>1, <2>2 DEF Init, FirstByte
    <2>3. QED
      BY <2>1, <2>2
  <1>4. data \in 0 .. pressed
    <2>1. data \in {0, 1} /\ data <= pressed /\ pressed \in Nat
      BY <1>1, KeyboardAssumption DEF Init
    <2>2. QED
      BY <2>1
  <1>5. QED
    BY <1>1, <1>2, <1>3, <1>4, KeyboardAssumption
    DEF Init, Inv, TypeOK, NotNested, PinMasked, DiscardsByte, NoStuckKey

LEMMA NextInv == Inv /\ [Next]_vars => Inv'
  <1> SUFFICES ASSUME Inv, [Next]_vars PROVE Inv'
    OBVIOUS
  <1> USE KeyboardAssumption DEF Inv, TypeOK, NotNested, PinMasked, DiscardsByte, FirstByte, NoStuckKey,
                                 device, apic
  <1>1. CASE Press
    <2>1. scancodes' \in Seq(1 .. pressed')
      <3>1. \A k \in DOMAIN scancodes : scancodes[k] \in 1 .. pressed'
        BY <1>1 DEF Press
      <3>2. QED
        BY <1>1, <3>1 DEF Press
    <2>2. QED
      BY <1>1, <2>1 DEF Press
  <1>2. CASE Take
    <2>1. data \in Nat /\ data + 1 # 0 /\ data + 1 \in 0 .. pressed
      BY <1>2 DEF Take
    <2>2. QED
      BY <1>2, <2>1 DEF Take
  <1>3. CASE set_IRQ
    BY <1>3 DEF set_IRQ
  <1>4. CASE ReadStatus
    BY <1>4 DEF ReadStatus, KeepDiscarding
  <1>5. CASE Discard
    <2>1. full /\ data # 0
      BY <1>5 DEF Discard
    <2>2. discarded \cup {data} \subseteq 1 .. pressed
      BY <2>1
    <2>3. QED
      BY <1>5, <2>1, <2>2 DEF Discard
  <1>6. CASE Sti
    BY <1>6 DEF Sti
  <1>7. CASE Interrupt
    BY <1>7 DEF Interrupt
  <1>8. CASE ReadScancode
    <2>1. data \in 1 .. pressed
      BY <1>8 DEF ReadScancode
    <2>2. scancodes' \in Seq(1 .. pressed)
      BY <1>8, <2>1 DEF ReadScancode, ReadOnce
    <2>3. QED
      BY <1>8, <2>1, <2>2 DEF ReadScancode
  <1>9. CASE EndOfInterrupt
    BY <1>9 DEF EndOfInterrupt, InServiceCleared
  <1>10. CASE Iret
    BY <1>10 DEF Iret
  <1>11. CASE UNCHANGED vars
    BY <1>11 DEF vars
  <1>12. QED
    BY <1>1, <1>2, <1>3, <1>4, <1>5, <1>6, <1>7, <1>8, <1>9, <1>10, <1>11 DEF Next, Boot, Handler

(* The variables keep their types, and the data port is never read before  *)
(* a byte has arrived there.                                               *)
THEOREM KeyboardTypeOK == Spec => []TypeOK
  <1>1. Inv => TypeOK
    BY DEF Inv
  <1>2. QED
    BY InitInv, NextInv, <1>1, PTL DEF Spec

(* Once kmain has stopped looking at the controller, a byte in it has an   *)
(* interrupt requested, or a handler that has yet to read it.              *)
THEOREM KeyboardNoStuckKey == Spec => []NoStuckKey
  <1>1. Inv => NoStuckKey
    BY DEF Inv
  <1>2. QED
    BY InitInv, NextInv, <1>1, PTL DEF Spec

-----------------------------------------------------------------------------
(* At most one byte is read twice *)

LEMMA InitStale == Init => StaleInv
  <1>1. SUFFICES ASSUME Init PROVE StaleInv
    OBVIOUS
  <1>2. Inv
    BY <1>1, InitInv
  <1>3. DOMAIN scancodes = {}
    BY <1>1 DEF Init
  <1>4. QED
    BY <1>1, <1>2, <1>3 DEF Init, StaleInv, Behind, OneSpare, OneStaleAtMost, Spare

LEMMA NextStale == StaleInv /\ [Next]_vars => StaleInv'
  <1> SUFFICES ASSUME StaleInv, [Next]_vars PROVE StaleInv'
    OBVIOUS
  <1>1. Inv /\ Inv'
    BY NextInv DEF StaleInv
  <1> USE DEF device, apic
  (* Only Discard and ReadScancode can make a byte stale.                  *)
  <1>2. ASSUME UNCHANGED <<discarded, scancodes>>
        PROVE  (\A k \in DOMAIN scancodes : Stale(k)' <=> Stale(k)) /\ OneStaleAtMost'
    BY <1>2 DEF Stale, OneStaleAtMost, StaleInv
  <1>3. CASE Press \/ set_IRQ \/ ReadStatus \/ Sti \/ EndOfInterrupt \/ Iret
    <2>1. UNCHANGED <<full, data, irr, discarded, scancodes>>
      BY <1>3 DEF Press, set_IRQ, ReadStatus, Sti, EndOfInterrupt, Iret
    <2>2. handler' = "read" <=> handler = "read"
      BY <1>3 DEF Press, set_IRQ, ReadStatus, Sti, EndOfInterrupt, Iret
    <2>3. pc' # "run" => pc # "run"
      BY <1>3 DEF Press, set_IRQ, ReadStatus, Sti, EndOfInterrupt, Iret
    <2>4. QED
      BY <1>1, <1>2, <2>1, <2>2, <2>3 DEF StaleInv, Behind, OneSpare, Spare
  <1>4. CASE Take
    BY <1>1, <1>2, <1>4 DEF Take, StaleInv, Behind, OneSpare, Spare, Inv, TypeOK
  <1>5. CASE Discard
    BY <1>1, <1>5 DEF Discard, StaleInv, Behind, OneSpare, Spare, OneStaleAtMost, Stale, Inv,
                      TypeOK, DiscardsByte, FirstByte, NotNested
  <1>6. CASE Interrupt
    BY <1>1, <1>2, <1>6 DEF Interrupt, StaleInv, Behind, OneSpare, Spare
  <1>7. CASE ReadScancode
    <2>1. data \in 1 .. pressed /\ scancodes \in Seq(1 .. pressed) /\ Len(scancodes) \in Nat
      BY <1>1, <1>7 DEF ReadScancode, Inv, TypeOK, FirstByte
    <2> PICK n \in Nat : n = Len(scancodes)
      BY <2>1
    <2>2. /\ scancodes' \in Seq(1 .. pressed)
          /\ DOMAIN scancodes = 1 .. n /\ DOMAIN scancodes' = 1 .. n + 1
          /\ scancodes'[n + 1] = data
          /\ \A k \in 1 .. n : scancodes'[k] = scancodes[k]
      BY <1>7, <2>1 DEF ReadScancode, ReadOnce
    <2>3. \A k \in 1 .. n : Stale(k)' <=> Stale(k)
      <3>1. TAKE k \in 1 .. n
      <3>2. k > 1 => k - 1 \in 1 .. n
        BY <2>1
      <3>3. QED
        BY <1>7, <2>1, <2>2, <3>2 DEF ReadScancode, Stale
    <2>4. full => ~Stale(n + 1)'
      <3>1. n > 0 => n \in 1 .. n /\ (n + 1) - 1 = n
        BY <2>1
      <3>2. full => data \notin discarded /\ \A k \in 1 .. n : scancodes[k] < data
        BY <2>2 DEF StaleInv, Behind
      <3>3. full /\ n > 0 => scancodes'[n] # data
        BY <2>1, <2>2, <3>1, <3>2
      <3>4. n + 1 > 1 => n > 0
        BY <2>1
      <3>5. QED
        BY <1>7, <2>1, <2>2, <3>1, <3>2, <3>3, <3>4 DEF ReadScancode, Stale
    <2>5. Behind'
      <3>1. ~full' /\ data' = data /\ discarded' = discarded
        BY <1>7 DEF ReadScancode
      <3>2. \A k \in 1 .. n + 1 : k \in 1 .. n \/ k = n + 1
        BY <2>1
      <3>3. \A k \in DOMAIN scancodes' : scancodes'[k] <= data'
        BY <2>1, <2>2, <3>1, <3>2 DEF StaleInv, Behind
      <3>4. QED
        BY <3>1, <3>3 DEF StaleInv, Behind
    <2>6. OneStaleAtMost'
      <3>1. \A k \in 1 .. n + 1 : k \in 1 .. n \/ k = n + 1
        BY <2>1
      <3>2. CASE full
        BY <2>2, <2>3, <2>4, <3>1, <3>2 DEF StaleInv, OneStaleAtMost
      <3>3. CASE ~full
        <4>1. \A k \in 1 .. n : ~Stale(k)
          BY <1>7, <2>2, <3>3 DEF ReadScancode, StaleInv, OneSpare, Spare
        <4>2. QED
          BY <2>2, <2>3, <3>1, <4>1 DEF OneStaleAtMost
      <3>4. QED
        BY <1>1, <3>2, <3>3 DEF Inv, TypeOK
    <2>7. OneSpare'
      <3>1. Spare' => full /\ Spare
        BY <1>7 DEF ReadScancode, StaleInv, OneSpare, Spare
      <3>2. pc' = "run"
        BY <1>1, <1>7 DEF ReadScancode, Inv, NotNested
      <3>3. \A k \in 1 .. n + 1 : k \in 1 .. n \/ k = n + 1
        BY <2>1
      <3>4. Spare' => \A k \in DOMAIN scancodes' : ~Stale(k)'
        BY <2>2, <2>3, <2>4, <3>1, <3>3 DEF StaleInv, OneSpare
      <3>5. ~(~full' /\ irr' /\ handler' = "read")
        BY <1>7 DEF ReadScancode
      <3>6. QED
        BY <3>2, <3>4, <3>5 DEF OneSpare
    <2>8. QED
      BY <1>1, <2>5, <2>6, <2>7 DEF StaleInv
  <1>8. CASE UNCHANGED vars
    BY <1>1, <1>2, <1>8 DEF vars, StaleInv, Behind, OneSpare, Spare
  <1>9. QED
    BY <1>3, <1>4, <1>5, <1>6, <1>7, <1>8 DEF Next, Boot, Handler

(* The handler reads at most one byte that was read before: requests merge *)
(* in one bit, and a byte read from a full controller uses up its own.     *)
THEOREM KeyboardOneStale == Spec => []OneStaleAtMost
  <1>1. StaleInv => OneStaleAtMost
    BY DEF StaleInv
  <1>2. QED
    BY InitStale, NextStale, <1>1, PTL DEF Spec

-----------------------------------------------------------------------------
(* The keyboard with the port *)

(* Waiting for the port only delays the keyboard's handler: every step of  *)
(* this module is one of Keyboard or leaves its variables alone.           *)
LEMMA KeyboardStep ==
  ASSUME [SerialNext]_allvars
  PROVE  [Next]_vars
<1>1. CASE Press \/ Take
  BY <1>1 DEF Next
<1>2. CASE Shift
  BY <1>2 DEF Shift
<1>3. CASE Kmain
  <2>1. CASE write_serial("kmain")
    BY <2>1 DEF write_serial, Wait, Write
  <2>2. QED
    BY <1>3, <2>1 DEF Kmain, init_serial, BootKeyboard, Scan, Next
<1>4. CASE EnterHandler
  BY <1>4 DEF EnterHandler, Next
<1>5. CASE KeyboardHandler
  <2>1. CASE write_serial("handler")
    BY <2>1 DEF write_serial, Wait, Write
  <2>2. QED
    BY <1>5, <2>1 DEF KeyboardHandler, ReadAndEcho, Acknowledge, LeaveHandler, Next, Handler
<1>6. CASE UNCHANGED allvars
  BY <1>6 DEF allvars
<1>7. QED
  BY <1>1, <1>2, <1>3, <1>4, <1>5, <1>6 DEF SerialNext

(* The keyboard with the port is an implementation of the keyboard alone.  *)
THEOREM SerialImplementsKeyboard == SerialSpec => Spec
<1>1. SerialInit => Init
  BY DEF SerialInit
<1>2. QED
  BY <1>1, KeyboardStep, PTL DEF SerialSpec, Spec

(* However long the handler waits for the port, no byte is left in the     *)
(* keyboard's controller without an interrupt to come.                     *)
THEOREM SerialNoStuckKey == SerialSpec => []NoStuckKey
BY SerialImplementsKeyboard, KeyboardNoStuckKey, PTL

(* And it reads at most one byte that was read before.                     *)
THEOREM SerialOneStale == SerialSpec => []OneStaleAtMost
BY SerialImplementsKeyboard, KeyboardOneStale, PTL

-----------------------------------------------------------------------------
(* The port *)

(* A printer that has seen the port ready, and has yet to write, finds     *)
(* room: kmain too, when the handler has written in between.  So no        *)
(* character meets a full FIFO.                                            *)
Room == setup = Len(Setup) => \A p \in ready : todo[p] # <<>> /\ Len(fifo) < Capacity

(* What init_serial has done after each of its writes.                     *)
SetupInv ==
  /\ port \in Registers
  /\ setup \in 0 .. 7
  /\ setup \in 2 .. 4 => port.lcr = 128
  /\ setup >= 5 => port.lcr = 3
  /\ setup >= 6 => port.fcr = 199

(* Nothing is printed, and no key handled, before it is done.              *)
Silent == setup < 7 => pc = "set_IRQ" /\ fifo = <<>> /\ ready = {} /\ \A p \in Printers : todo[p] = <<>>

(* The handler, once it has seen the port ready, is alone with it; kmain,  *)
(* once it has, may be interrupted by a handler that waits in turn, and so *)
(* leaves one character at most.                                           *)
WaitInv ==
  /\ fifo \in Seq(Range(fifo))
  /\ DOMAIN todo = Printers
  /\ ready \subseteq Printers /\ \A p \in ready : todo[p] # <<>>
  /\ "handler" \in ready => handler = "EOI" /\ fifo = <<>>
  /\ "kmain" \in ready => Len(fifo) <= 1

RoomInv == Inv /\ SetupInv /\ Silent /\ WaitInv

LEMMA SetupLength == Len(Setup) = 7
BY DEF Setup

(* A sequence is one of its own elements.                                  *)
LEMMA OwnElements ==
  ASSUME NEW S, NEW s \in Seq(S)
  PROVE  s \in Seq(Range(s))
<1>1. s = [k \in 1 .. Len(s) |-> s[k]] /\ Len(s) \in Nat /\ DOMAIN s = 1 .. Len(s)
  OBVIOUS
<1>2. \A k \in 1 .. Len(s) : s[k] \in Range(s)
  BY <1>1 DEF Range
<1>3. QED
  BY <1>1, <1>2

LEMMA Appending ==
  ASSUME NEW s, NEW e, s \in Seq(Range(s))
  PROVE  Append(s, e) \in Seq(Range(Append(s, e))) /\ Len(Append(s, e)) = Len(s) + 1
<1>1. PICK S : s \in Seq(S) /\ e \in S
  <2>1. s \in Seq(Range(s) \cup {e})
    OBVIOUS
  <2>2. QED
    BY <2>1
<1>2. Append(s, e) \in Seq(S) /\ Len(Append(s, e)) = Len(s) + 1
  BY <1>1
<1>3. QED
  BY <1>2, OwnElements

LEMMA RoomInit == SerialInit => RoomInv
<1> SUFFICES ASSUME SerialInit PROVE RoomInv
  OBVIOUS
<1>1. Inv
  BY InitInv DEF SerialInit
<1>2. SetupInv
  BY SerialAssumption DEF SerialInit, SetupInv
<1>3. fifo \in Seq(Range(fifo)) /\ Len(fifo) = 0
  BY DEF SerialInit
<1>4. QED
  BY <1>1, <1>2, <1>3 DEF SerialInit, RoomInv, Silent, WaitInv, Init

(* Each write of init_serial.                                              *)
LEMMA SetupStep ==
  ASSUME RoomInv, init_serial
  PROVE  SetupInv' /\ fifo' = <<>>
<1>1. setup \in 0 .. 6 /\ setup' = setup + 1 /\ fifo = <<>>
  BY SetupLength DEF RoomInv, SetupInv, Silent, init_serial
<1> USE DEF init_serial, Setup, Outb, DLAB, wire, RoomInv, SetupInv, Registers
<1>2. CASE setup = 0
  BY <1>1, <1>2
<1>3. CASE setup = 1
  BY <1>1, <1>3
<1>4. CASE setup = 2
  BY <1>1, <1>4
<1>5. CASE setup = 3
  BY <1>1, <1>5
<1>6. CASE setup = 4
  BY <1>1, <1>6
<1>7. CASE setup = 5
  BY <1>1, <1>7
<1>8. CASE setup = 6
  BY <1>1, <1>8
<1>9. QED
  BY <1>1, <1>2, <1>3, <1>4, <1>5, <1>6, <1>7, <1>8

LEMMA RoomStep == RoomInv /\ [SerialNext]_allvars => RoomInv'
<1> SUFFICES ASSUME RoomInv, [SerialNext]_allvars PROVE RoomInv'
  OBVIOUS
<1>1. Inv'
  BY KeyboardStep, NextInv DEF RoomInv
<1> USE SetupLength DEF RoomInv, SetupInv, Silent, WaitInv, Printers, serial, wire, writers, scanner
<1>2. ASSUME UNCHANGED serial, pc' = pc \/ setup = 7, handler = "EOI" => handler' = "EOI" \/ todo["handler"] = <<>>
      PROVE  RoomInv'
  BY <1>1, <1>2
<1>3. CASE (Press \/ Take) /\ UNCHANGED serial
  BY <1>2, <1>3 DEF Press, Take
<1>4. CASE Shift
  <2>1. fifo # <<>> /\ fifo' = Tail(fifo) /\ UNCHANGED <<vars, port, setup, writers>>
    BY <1>4 DEF Shift
  <2>2. fifo' \in Seq(Range(fifo)) /\ Len(fifo') <= Len(fifo)
    BY <2>1
  <2>3. fifo' \in Seq(Range(fifo'))
    BY <2>2, OwnElements
  <2>4. QED
    BY <1>1, <2>1, <2>2, <2>3 DEF vars
<1>5. CASE init_serial
  <2>1. SetupInv' /\ fifo' = <<>>
    BY <1>5, SetupStep
  <2>2. QED
    BY <1>1, <1>5, <2>1 DEF init_serial, Say, vars
<1>6. CASE BootKeyboard
  BY <1>2, <1>6 DEF BootKeyboard, Idle, Boot, set_IRQ, ReadStatus, Discard, Sti
<1>7. CASE Scan
  <2>1. /\ setup = 7 /\ todo["kmain"] = <<>> /\ "kmain" \notin ready
        /\ UNCHANGED <<vars, port, wire, setup, ready>>
        /\ \/ UNCHANGED todo
           \/ \E text : todo' = [todo EXCEPT !["kmain"] = text]
    BY <1>7 DEF Scan, Idle, Say
  <2>2. QED
    BY <1>1, <2>1 DEF vars
<1>8. ASSUME NEW p \in Printers, Wait(p)
      PROVE  RoomInv'
  BY <1>1, <1>8 DEF Wait, Runs, More, TransmitEmpty, vars
<1>9. ASSUME NEW p \in Printers, Write(p)
      PROVE  RoomInv'
  <2>1. setup = 7 /\ ~DLAB /\ p \in ready
    BY <1>9 DEF Write, DLAB
  <2>2. UNCHANGED <<vars, port, setup>> /\ ready' = ready \ {p} /\ todo' = [todo EXCEPT ![p] = Tail(@)]
    BY <1>9, <2>1 DEF Write, Outb
  <2>3. fifo' = Append(fifo, <<p, Head(todo[p])>>) \/ fifo' = fifo
    BY <1>9, <2>1 DEF Write, Outb
  <2>4. fifo' \in Seq(Range(fifo')) /\ Len(fifo') \in {Len(fifo), Len(fifo) + 1}
    <3>1. ASSUME NEW e, fifo' = Append(fifo, e)
          PROVE  fifo' \in Seq(Range(fifo')) /\ Len(fifo') = Len(fifo) + 1
      BY <3>1, Appending
    <3>2. QED
      BY <2>3, <3>1
  <2>5. p = "kmain" => "handler" \notin ready
    BY <1>9 DEF Write, Runs
  <2>6. p = "handler" => fifo = <<>>
    BY <2>1
  <2>7. QED
    BY <1>1, <2>1, <2>2, <2>4, <2>5, <2>6 DEF vars
<1>10. CASE EnterHandler
  BY <1>2, <1>10 DEF EnterHandler, Interrupt, Inv, NotNested
<1>11. CASE ReadAndEcho
  <2>1. /\ handler = "read" /\ pc = "run" /\ pc' = pc
        /\ todo' = [todo EXCEPT !["handler"] = Echo(data)]
        /\ UNCHANGED <<port, wire, setup, ready>>
    BY <1>11 DEF ReadAndEcho, ReadScancode, Say, Inv, NotNested
  <2>2. QED
    BY <1>1, <2>1
<1>12. CASE Acknowledge
  BY <1>2, <1>12 DEF Acknowledge, EndOfInterrupt
<1>13. CASE LeaveHandler
  BY <1>2, <1>13 DEF LeaveHandler, Iret
<1>14. CASE UNCHANGED allvars
  BY <1>2, <1>14 DEF allvars, vars
<1>15. QED
  BY <1>3, <1>4, <1>5, <1>6, <1>7, <1>8, <1>9, <1>10, <1>11, <1>12, <1>13, <1>14
  DEF SerialNext, Kmain, KeyboardHandler, write_serial

LEMMA RoomHolds == RoomInv => Room
BY SetupLength, SerialAssumption
DEF RoomInv, SetupInv, WaitInv, Room, Capacity, Printers

(* No character meets a full FIFO.                                         *)
THEOREM SerialRoom == SerialSpec => []Room
BY RoomInit, RoomStep, RoomHolds, PTL DEF SerialSpec

-----------------------------------------------------------------------------
(* The scanner *)

Prefix(n) == SubSeq(directives, 1, n)

(* The scanner stands behind the first n directives, with the arguments of *)
(* the others.                                                             *)
Scanned(n) ==
  /\ n \in 0 .. Len(directives)
  /\ i = Len(Texts(Prefix(n))) + 1
  /\ args \in Seq(Int) /\ Arguments(directives) = Arguments(Prefix(n)) \o args

(* Or it is behind the format, after a lone %.                             *)
PastPercent ==
  /\ EndsInPercent
  /\ i \in {Len(Texts(directives)) + 2, Len(Texts(directives)) + 3}
  /\ args \in Seq(Int)

LEMMA FormatDirectives ==
  ASSUME directives \in Formats
  PROVE  /\ directives \in Seq(Directives)
         /\ \A k \in DOMAIN directives : directives[k] = LonePercent => k = Len(directives)
BY SerialAssumption

LEMMA Joined ==
  ASSUME NEW X, NEW r \in Seq(X), NEW s \in Seq(X)
  PROVE  /\ r \o s \in Seq(X) /\ Len(r) \in Nat /\ Len(r \o s) = Len(r) + Len(s)
         /\ \A k \in 1 .. Len(r) : (r \o s)[k] = r[k]
         /\ \A k \in 1 .. Len(s) : (r \o s)[Len(r) + k] = s[k]
OBVIOUS

LEMMA FmtIs ==
  ASSUME directives \in Seq(Directives)
  PROVE  /\ Texts(directives) \in Seq(Characters) /\ Len(Texts(directives)) \in Nat
         /\ fmt \in Seq(Characters) /\ Len(fmt) = Len(Texts(directives)) + 3
         /\ fmt[Len(Texts(directives)) + 1] = "NUL" /\ fmt[Len(Texts(directives)) + 2] = "z"
         /\ fmt[Len(Texts(directives)) + 3] = "NUL"
         /\ \A k \in 1 .. Len(Texts(directives)) : fmt[k] = Texts(directives)[k]
<1> DEFINE t == Texts(directives)
           e == <<"NUL", "z", "NUL">>
<1>1. t \in Seq(Characters)
  BY FieldTypes
<1>2. e \in Seq(Characters) /\ Len(e) = 3 /\ e[1] = "NUL" /\ e[2] = "z" /\ e[3] = "NUL"
  BY Alphabet
<1>3. fmt = t \o e
  BY DEF fmt
<1> HIDE DEF t, e
<1>4. e \in Seq(Characters)
  BY <1>2
<1>5. /\ t \o e \in Seq(Characters) /\ Len(t) \in Nat /\ Len(t \o e) = Len(t) + Len(e)
      /\ \A k \in 1 .. Len(t) : (t \o e)[k] = t[k]
      /\ \A k \in 1 .. Len(e) : (t \o e)[Len(t) + k] = e[k]
  BY <1>1, <1>4, Joined
<1>6. (t \o e)[Len(t) + 1] = "NUL" /\ (t \o e)[Len(t) + 2] = "z" /\ (t \o e)[Len(t) + 3] = "NUL"
  BY <1>2, <1>5
<1>7. QED
  BY <1>1, <1>2, <1>3, <1>5, <1>6 DEF t

LEMMA InTheMiddle ==
  ASSUME NEW X, NEW r \in Seq(X), NEW s \in Seq(X), NEW t \in Seq(X)
  PROVE  /\ Len(r \o s) = Len(r) + Len(s)
         /\ Len((r \o s) \o t) = (Len(r) + Len(s)) + Len(t)
         /\ \A k \in 1 .. Len(s) : ((r \o s) \o t)[Len(r) + k] = s[k]
OBVIOUS

Concat(w, r, s) == w = r \o s

LEMMA CancelFirst ==
  ASSUME NEW X, NEW r \in Seq(X), NEW s \in Seq(X), NEW t \in Seq(X), NEW u \in Seq(X),
         NEW p, NEW w, Concat(p, r, s), Concat(w, p, t), Concat(w, r, u)
  PROVE  Concat(u, s, t)
<1>1. s \o t \in Seq(X)
  OBVIOUS
<1>2. (r \o s) \o t = r \o (s \o t)
  OBVIOUS
<1>3. (r \o s) \o t = r \o u
  BY Zenon DEF Concat
<1> DEFINE v == s \o t
<1>4. v \in Seq(X) /\ r \o v = r \o u
  BY <1>1, <1>2, <1>3, Zenon
<1> HIDE DEF v
<1>5. v = u
  BY <1>4, Cancel
<1>6. QED
  BY <1>5, Zenon DEF v, Concat

(* What the scanner finds behind the first n directives: the text of d,    *)
(* and d's arguments first among those left.                               *)
Finds(n, d) ==
  /\ d \in Directives /\ Len(d.text) \in Nat
  /\ i \in Nat /\ \A k \in 1 .. Len(d.text) : fmt[(i - 1) + k] = d.text[k]
  /\ i + Len(d.text) = Len(Texts(Prefix(n + 1))) + 1
  /\ i + Len(d.text) <= Len(Texts(directives)) + 1
  /\ \E rest \in Seq(Int) : /\ args = d.args \o rest
                            /\ Arguments(directives) = Arguments(Prefix(n + 1)) \o rest

LEMMA AtDirective ==
  ASSUME directives \in Seq(Directives), NEW n \in 0 .. Len(directives) - 1, Scanned(n)
  PROVE  Finds(n, directives[n + 1])
<1> DEFINE d == directives[n + 1]
           T == Texts(Prefix(n))
           A == Arguments(Prefix(n))
<1>1. d \in Directives /\ Typed(d)
  BY DirectiveTyped
<1>2. Grows(Characters, Texts(directives), T, d.text, Texts(Prefix(n + 1)), n + 1 = Len(directives))
  BY TextsGrow DEF Prefix
<1>3. Grows(Int, Arguments(directives), A, d.args, Arguments(Prefix(n + 1)), n + 1 = Len(directives))
  BY ArgumentsGrow DEF Prefix
<1> HIDE DEF d, T, A
<1>4. PICK r \in Seq(Characters) : Texts(directives) = (T \o d.text) \o r
  BY <1>2, Zenon DEF Grows
<1>5. T \in Seq(Characters) /\ d.text \in Seq(Characters) /\ Texts(Prefix(n + 1)) = T \o d.text
  BY <1>2, Zenon DEF Grows
<1>6. i = Len(T) + 1 /\ Len(T) \in Nat /\ Len(d.text) \in Nat /\ Len(r) \in Nat
  BY <1>5 DEF Scanned, T
<1> DEFINE s == d.text
<1>7. /\ Len(T \o s) = Len(T) + Len(s)
      /\ Len(Texts(directives)) = (Len(T) + Len(s)) + Len(r)
      /\ \A k \in 1 .. Len(s) : Texts(directives)[Len(T) + k] = s[k]
  <2> HIDE DEF s
  <2>1. s \in Seq(Characters) /\ T \in Seq(Characters)
    BY <1>5 DEF s
  <2>2. /\ Len(T \o s) = Len(T) + Len(s)
        /\ Len((T \o s) \o r) = (Len(T) + Len(s)) + Len(r)
        /\ \A k \in 1 .. Len(s) : ((T \o s) \o r)[Len(T) + k] = s[k]
    BY <2>1, InTheMiddle
  <2>3. Texts(directives) = (T \o s) \o r
    BY <1>4 DEF s
  <2>4. QED
    BY <2>2, <2>3
<1>8. \A k \in 1 .. Len(s) : fmt[(i - 1) + k] = s[k]
  <2> HIDE DEF s
  <2>1. Len(s) \in Nat
    BY <1>6 DEF s
  <2>2. ASSUME NEW k \in 1 .. Len(s) PROVE (i - 1) + k = Len(T) + k /\ Len(T) + k \in 1 .. Len(Texts(directives))
    BY <1>6, <1>7, <2>1
  <2>3. QED
    BY <1>7, <2>2, FmtIs
<1>9. i + Len(s) = Len(Texts(Prefix(n + 1))) + 1 /\ i + Len(s) <= Len(Texts(directives)) + 1
  <2>1. Len(Texts(Prefix(n + 1))) = Len(T) + Len(s)
    BY <1>5, <1>7
  <2> HIDE DEF s
  <2>2. Len(s) \in Nat
    BY <1>6 DEF s
  <2>3. PICK a \in Nat, b \in Nat, c \in Nat : a = Len(T) /\ b = Len(s) /\ c = Len(r)
    BY <1>6, <2>2
  <2>4. i = a + 1 /\ Len(Texts(Prefix(n + 1))) = a + b /\ Len(Texts(directives)) = (a + b) + c
    BY <1>6, <1>7, <2>1, <2>3
  <2>5. (a + 1) + b = (a + b) + 1 /\ (a + 1) + b <= ((a + b) + c) + 1
    OBVIOUS
  <2>6. QED
    BY <2>3, <2>4, <2>5
<1>10. \E rest \in Seq(Int) : args = d.args \o rest /\ Arguments(directives) = Arguments(Prefix(n + 1)) \o rest
  <2>1. PICK q \in Seq(Int) : Arguments(directives) = Arguments(Prefix(n + 1)) \o q
    BY <1>3, Zenon DEF Grows
  <2>2. A \in Seq(Int) /\ d.args \in Seq(Int) /\ Arguments(Prefix(n + 1)) = A \o d.args
    BY <1>3, Zenon DEF Grows
  <2>3. args \in Seq(Int) /\ Arguments(directives) = A \o args
    BY DEF Scanned, A
  <2>4. /\ Concat(Arguments(Prefix(n + 1)), A, d.args)
        /\ Concat(Arguments(directives), Arguments(Prefix(n + 1)), q)
        /\ Concat(Arguments(directives), A, args)
    BY <2>1, <2>2, <2>3, Zenon DEF Concat
  <2>5. Concat(args, d.args, q)
    BY <2>2, <2>3, <2>4, CancelFirst
  <2>6. QED
    BY <2>1, <2>5, Zenon DEF Concat
<1>11. i \in Nat
  BY <1>6
<1>12. Finds(n, d)
  BY <1>1, <1>6, <1>8, <1>9, <1>10, <1>11, Zenon DEF Finds
<1>13. QED
  BY <1>12 DEF d

Prints(text) == todo' = [todo EXCEPT !["kmain"] = text]

LEMMA DropFirst ==
  ASSUME NEW X, NEW r \in Seq(X), NEW s \in Seq(X)
  PROVE  SubSeq(r \o s, Len(r) + 1, Len(r \o s)) = s
OBVIOUS

LEMMA SameSubSeq ==
  ASSUME NEW X, NEW s \in Seq(X)
  PROVE  SubSeq(s, 0 + 1, Len(s)) = s
OBVIOUS

(* What a turn of the scanner's loop does.                                 *)
LEMMA ScanTurn ==
  ASSUME Scan
  PROVE  /\ directives' = directives
         /\ \/ fmt[i] = "NUL" /\ kprint' = "done" /\ UNCHANGED <<i, args, todo>>
            \/ /\ fmt[i] \notin {"NUL", "%"}
               /\ Prints(<<fmt[i]>>) /\ i' = i + 1 /\ UNCHANGED <<args, kprint>>
            \/ /\ fmt[i] = "%"
               /\ Prints(Convert(fmt[i + 1], args).out)
               /\ args' = SubSeq(args, Convert(fmt[i + 1], args).taken + 1, Len(args))
               /\ i' = i + 2 /\ UNCHANGED kprint
            \/ fmt[i] = "%" /\ kprint' = "trap" /\ UNCHANGED <<i, args, todo>>
BY DEF Scan, Say, Prints

(* From behind n directives it stops, or takes in the next one and prints  *)
(* its output, or meets a lone %.                                          *)
LEMMA ScanDirective ==
  ASSUME directives \in Formats, NEW n \in Nat, Scanned(n), Scan
  PROVE  /\ directives' = directives
         /\ \/ kprint' \in {"done", "trap"} /\ UNCHANGED <<i, args, todo>>
            \/ /\ n \in 0 .. Len(directives) - 1 /\ Scanned(n + 1)'
               /\ Prints(directives[n + 1].output) /\ UNCHANGED kprint
            \/ PastPercent' /\ (\E text \in Seq(Characters) : Prints(text)) /\ UNCHANGED kprint
<1>1. directives \in Seq(Directives) /\ Len(directives) \in Nat /\ n \in 0 .. Len(directives)
  BY FormatDirectives DEF Scanned
<1>2. CASE n = Len(directives)
  <2>1. Prefix(n) = directives
    BY <1>1, <1>2, NoDirectives DEF Prefix
  <2>2. fmt[i] = "NUL"
    BY <1>1, <2>1, FmtIs DEF Scanned
  <2>3. QED
    BY <2>2, ScanTurn
<1>3. CASE n \in 0 .. Len(directives) - 1
  <2> DEFINE d == directives[n + 1]
  <2>1. Finds(n, d)
    BY <1>1, <1>3, AtDirective
  <2>2. d = LonePercent => n + 1 = Len(directives)
    <3>1. n + 1 \in DOMAIN directives
      BY <1>1, <1>3
    <3>2. QED
      BY <3>1, FormatDirectives
  <2>3. /\ d \in Directives /\ i \in Nat
        /\ \A k \in 1 .. Len(d.text) : fmt[(i - 1) + k] = d.text[k]
        /\ i + Len(d.text) = Len(Texts(Prefix(n + 1))) + 1
    BY <2>1 DEF Finds
  <2>4. PICK rest \in Seq(Int) :
           args = d.args \o rest /\ Arguments(directives) = Arguments(Prefix(n + 1)) \o rest
    BY <2>1 DEF Finds
  <2> HIDE DEF d
  <2>5. ASSUME i' = i + Len(d.text), args' = rest, directives' = directives PROVE Scanned(n + 1)'
    <3>1. n + 1 \in 0 .. Len(directives)
      BY <1>3
    <3>2. Prefix(n + 1)' = Prefix(n + 1)
      BY <2>5 DEF Prefix
    <3>3. QED
      BY <2>3, <2>4, <2>5, <3>1, <3>2 DEF Scanned
  <2>6. CASE d = LonePercent
    <3>1. d.text = <<"%">> /\ d.args = <<>> /\ Len(d.text) = 1 /\ d.text[1] = "%"
      BY <2>6, LonePercentIs
    <3>2. fmt[i] = "%"
      <4>1. 1 \in 1 .. Len(d.text) /\ (i - 1) + 1 = i
        BY <2>3, <3>1
      <4>2. QED
        BY <2>3, <3>1, <4>1
    <3>3. i = Len(Texts(directives))
      <4>1. Prefix(n + 1) = directives
        BY <1>1, <2>2, <2>6, NoDirectives DEF Prefix
      <4>2. QED
        BY <1>1, <2>3, <3>1, <4>1, FmtIs
    <3>4. fmt[i + 1] = "NUL"
      BY <1>1, <3>3, FmtIs
    <3>5. Convert("NUL", args).out = <<"%", "NUL">> /\ Convert("NUL", args).taken = 0
      BY DEF Convert
    <3>6. args \in Seq(Int)
      BY DEF Scanned
    <3>7. EndsInPercent
      <4>1. n + 1 \in DOMAIN directives
        BY <1>1, <1>3
      <4>2. QED
        BY <2>6, <4>1 DEF EndsInPercent, d
    <3>8. CASE kprint' = "trap" /\ UNCHANGED <<i, args, todo>>
      BY <3>8, ScanTurn
    <3>9. CASE /\ Prints(Convert(fmt[i + 1], args).out)
               /\ args' = SubSeq(args, Convert(fmt[i + 1], args).taken + 1, Len(args))
               /\ i' = i + 2 /\ UNCHANGED kprint
      <4>1. directives' = directives
        BY ScanTurn
      <4>2. Prints(<<"%", "NUL">>) /\ i' = i + 2 /\ UNCHANGED kprint
        BY <3>4, <3>5, <3>9
      <4>3. args' = args
        BY <3>4, <3>5, <3>6, <3>9, SameSubSeq
      <4>4. <<"%", "NUL">> \in Seq(Characters)
        BY Alphabet
      <4>5. EndsInPercent'
        BY <3>7, <4>1 DEF EndsInPercent
      <4>6. PastPercent'
        BY <3>3, <3>6, <4>1, <4>2, <4>3, <4>5 DEF PastPercent
      <4>7. QED
        BY <4>1, <4>2, <4>4, <4>6
    <3>10. QED
      BY <3>2, <3>8, <3>9, ScanTurn
  <2>7. CASE Plain(d)
    <3>1. PICK c \in Characters \ {"NUL", "%"} : d.text = <<c>> /\ d.args = <<>> /\ d.output = <<c>>
      BY <2>7 DEF Plain
    <3>2. Len(d.text) = 1 /\ d.text[1] = c
      BY <3>1
    <3>3. fmt[i] = c
      <4>1. 1 \in 1 .. Len(d.text) /\ (i - 1) + 1 = i
        BY <2>3, <3>2
      <4>2. QED
        BY <2>3, <3>2, <4>1
    <3>4. directives' = directives /\ Prints(<<c>>) /\ i' = i + 1 /\ UNCHANGED <<args, kprint>>
      <4>1. c # "NUL" /\ c # "%"
        BY <3>1
      <4>2. QED
        BY <3>3, <4>1, ScanTurn
    <3>5. args = rest
      BY <2>4, <3>1
    <3>6. Scanned(n + 1)'
      BY <2>5, <3>2, <3>4, <3>5
    <3>7. QED
      BY <1>3, <3>1, <3>4, <3>6 DEF d
  <2>8. CASE \E c : Converts(c, d)
    <3>1. PICK c : Converts(c, d)
      BY <2>8
    <3>2. d.text = <<"%", c>> /\ Convert(c, args).out = d.output /\ Convert(c, args).taken = Len(d.args)
      BY <2>4, <3>1 DEF Converts
    <3>3. Len(d.text) = 2 /\ d.text[1] = "%" /\ d.text[2] = c
      BY <3>2
    <3>4. fmt[i] = "%" /\ fmt[i + 1] = c
      <4>1. 1 \in 1 .. Len(d.text) /\ (i - 1) + 1 = i /\ 2 \in 1 .. Len(d.text) /\ (i - 1) + 2 = i + 1
        BY <2>3, <3>3
      <4>2. QED
        BY <2>3, <3>3, <4>1
    <3>5. CASE kprint' = "trap" /\ UNCHANGED <<i, args, todo>>
      BY <3>5, ScanTurn
    <3>6. CASE /\ Prints(Convert(fmt[i + 1], args).out)
               /\ args' = SubSeq(args, Convert(fmt[i + 1], args).taken + 1, Len(args))
               /\ i' = i + 2 /\ UNCHANGED kprint
      <4>1. directives' = directives
        BY ScanTurn
      <4>2. Prints(d.output) /\ i' = i + 2 /\ UNCHANGED kprint
        BY <3>2, <3>4, <3>6
      <4>3. args' = rest
        <5>1. args' = SubSeq(d.args \o rest, Len(d.args) + 1, Len(d.args \o rest))
          BY <2>4, <3>2, <3>4, <3>6
        <5>2. d.args \in Seq(Int)
          BY <2>3, DirectiveTyped DEF Typed
        <5>3. QED
          BY <5>1, <5>2, DropFirst
      <4>4. Scanned(n + 1)'
        BY <2>5, <3>3, <4>1, <4>2, <4>3
      <4>5. QED
        BY <1>3, <4>1, <4>2, <4>4 DEF d
    <3>7. QED
      BY <3>4, <3>5, <3>6, ScanTurn
  <2>9. QED
    BY <2>3, <2>6, <2>7, <2>8, DirectiveKinds
<1>4. QED
  BY <1>1, <1>2, <1>3

(* Behind the format it prints one character more and stops.               *)
LEMMA ScanPast ==
  ASSUME directives \in Formats, PastPercent, Scan
  PROVE  /\ directives' = directives
         /\ \/ kprint' \in {"done", "trap"} /\ UNCHANGED <<i, args, todo>>
            \/ PastPercent' /\ (\E text \in Seq(Characters) : Prints(text)) /\ UNCHANGED kprint
<1>1. directives \in Seq(Directives)
  BY FormatDirectives
<1>2. CASE i = Len(Texts(directives)) + 3
  <2>1. fmt[i] = "NUL"
    BY <1>1, <1>2, FmtIs
  <2>2. QED
    BY <2>1, ScanTurn
<1>3. CASE i = Len(Texts(directives)) + 2
  <2>1. fmt[i] = "z" /\ Len(Texts(directives)) \in Nat
    BY <1>1, <1>3, FmtIs
  <2>2. directives' = directives /\ Prints(<<"z">>) /\ i' = i + 1 /\ UNCHANGED <<args, kprint>>
    BY <2>1, ScanTurn
  <2>3. <<"z">> \in Seq(Characters)
    BY Alphabet
  <2>4. EndsInPercent'
    BY <2>2 DEF PastPercent, EndsInPercent
  <2>5. PastPercent'
    BY <1>3, <2>1, <2>2, <2>4 DEF PastPercent
  <2>6. QED
    BY <2>2, <2>3, <2>5
<1>4. QED
  BY <1>2, <1>3 DEF PastPercent

-----------------------------------------------------------------------------
(* The text *)

One(e, p) == IF e[1] = p THEN <<e[2]>> ELSE <<>>
Sent(f, p) == FlattenSeq([k \in DOMAIN f |-> One(f[k], p)])

LEMMA WayIs ==
  ASSUME NEW p
  PROVE  OnItsWay(p) = received[p] \o Sent(fifo, p) \o todo[p]
BY DEF OnItsWay, Sent, One

LEMMA OneType ==
  ASSUME NEW e \in Printers \X Characters, NEW p
  PROVE  One(e, p) \in Seq(Characters)
<1>1. e[2] \in Characters
  OBVIOUS
<1>2. <<e[2]>> \in Seq(Characters) /\ <<>> \in Seq(Characters)
  BY <1>1
<1>3. QED
  BY <1>2 DEF One

LEMMA SentType ==
  ASSUME NEW f \in Seq(Printers \X Characters), NEW p
  PROVE  /\ Sent(f, p) \in Seq(Characters)
         /\ [k \in DOMAIN f |-> One(f[k], p)] \in Seq(Seq(Characters))
<1> DEFINE P == Printers \X Characters
<1>1. \A k \in DOMAIN f : f[k] \in P
  <2> HIDE DEF P
  <2>1. f \in Seq(P)
    BY DEF P
  <2>2. QED
    BY <2>1
<1>2. \A k \in DOMAIN f : One(f[k], p) \in Seq(Characters)
  BY <1>1, OneType
<1>3. Len(f) \in Nat /\ DOMAIN f = 1 .. Len(f)
  OBVIOUS
<1>4. [k \in DOMAIN f |-> One(f[k], p)] \in Seq(Seq(Characters))
  BY <1>2, <1>3
<1>5. QED
  BY <1>4, FlattenType DEF Sent

LEMMA SentAppend ==
  ASSUME NEW f \in Seq(Printers \X Characters), NEW e \in Printers \X Characters, NEW p
  PROVE  Sent(Append(f, e), p) = Sent(f, p) \o One(e, p)
<1> DEFINE P == Printers \X Characters
           g == Append(f, e)
           E == [k \in DOMAIN f |-> One(f[k], p)]
           G == [k \in DOMAIN g |-> One(g[k], p)]
           n == Len(f)
<1>1. f \in Seq(P) /\ e \in P
  OBVIOUS
<1> HIDE DEF P
<1>2. g \in Seq(P) /\ Len(g) = n + 1 /\ g[n + 1] = e /\ n \in Nat /\ \A k \in 1 .. n : g[k] = f[k]
  BY <1>1
<1>3. DOMAIN f = 1 .. n /\ DOMAIN g = 1 .. n + 1
  BY <1>1, <1>2
<1>4. E \in Seq(Seq(Characters)) /\ One(e, p) \in Seq(Characters)
  BY SentType, OneType
<1> HIDE DEF g
<1>5. G = [k \in 1 .. n + 1 |-> One(g[k], p)] /\ E = [k \in 1 .. n |-> One(f[k], p)]
  BY <1>3
<1>6. [k \in 1 .. n + 1 |-> One(g[k], p)] = Append([k \in 1 .. n |-> One(f[k], p)], One(e, p))
  BY <1>2
<1>7. G = Append(E, One(e, p))
  BY <1>5, <1>6
<1>8. FlattenSeq(G) = FlattenSeq(E) \o One(e, p)
  <2> HIDE DEF E, G
  <2>1. FlattenSeq(Append(E, One(e, p))) = FlattenSeq(E) \o One(e, p)
    BY <1>4, FlattenAppend
  <2>2. QED
    BY <1>7, <2>1
<1>9. QED
  BY <1>8, Zenon DEF Sent, g

LEMMA SentHead ==
  ASSUME NEW f \in Seq(Printers \X Characters), f # <<>>, NEW p
  PROVE  /\ Head(f) \in Printers \X Characters /\ Tail(f) \in Seq(Printers \X Characters)
         /\ Sent(f, p) = One(Head(f), p) \o Sent(Tail(f), p)
<1> DEFINE P == Printers \X Characters
           g == Tail(f)
           e == Head(f)
           F == [k \in DOMAIN f |-> One(f[k], p)]
           G == [k \in DOMAIN g |-> One(g[k], p)]
           n == Len(g)
<1>1. f \in Seq(P)
  OBVIOUS
<1> HIDE DEF P
<1>2. e \in P /\ g \in Seq(P) /\ n \in Nat /\ Len(f) = n + 1 /\ f[1] = e /\ \A k \in 1 .. n : f[k + 1] = g[k]
  BY <1>1
<1>3. DOMAIN f = 1 .. n + 1 /\ DOMAIN g = 1 .. n
  BY <1>1, <1>2
<1>4. G \in Seq(Seq(Characters)) /\ One(e, p) \in Seq(Characters)
  BY <1>2, SentType, OneType DEF P
<1> HIDE DEF g, e
<1>5. F = [k \in 1 .. n + 1 |-> One(f[k], p)] /\ G = [k \in 1 .. n |-> One(g[k], p)]
  BY <1>3
<1>6. [k \in 1 .. n + 1 |-> One(f[k], p)] = <<One(e, p)>> \o [k \in 1 .. n |-> One(g[k], p)]
  BY <1>2
<1>7. F = <<One(e, p)>> \o G
  BY <1>5, <1>6
<1>8. FlattenSeq(F) = One(e, p) \o FlattenSeq(G)
  <2> HIDE DEF F, G
  <2>1. FlattenSeq(<<One(e, p)>> \o G) = One(e, p) \o FlattenSeq(G)
    BY <1>4, FlattenCons
  <2>2. QED
    BY <1>7, <2>1
<1>9. Sent(f, p) = One(e, p) \o Sent(g, p)
  BY <1>8, Zenon DEF Sent
<1>10. QED
  BY <1>2, <1>9 DEF P, e, g

LEMMA WayNext ==
  ASSUME NEW CONSTANT p
  PROVE  OnItsWay(p)' = received'[p] \o Sent(fifo', p) \o todo'[p]
BY DEF OnItsWay, Sent, One

HandsOver(r, s, t) == (r \o (s \o <<Head(t)>>)) \o Tail(t) = (r \o s) \o t

LEMMA WayWritten ==
  ASSUME NEW X, NEW r \in Seq(X), NEW s \in Seq(X), NEW t \in Seq(X), t # <<>>
  PROVE  HandsOver(r, s, t)
<1> DEFINE h == <<Head(t)>>
           u == Tail(t)
           q == r \o s
<1>1. h \in Seq(X) /\ u \in Seq(X) /\ q \in Seq(X) /\ h \o u = t
  OBVIOUS
<1> HIDE DEF h, u
<1>2. h \in Seq(X) /\ u \in Seq(X)
  BY <1>1
<1>3. r \o (s \o h) = q \o h
  BY <1>2
<1> HIDE DEF q
<1>4. q \in Seq(X)
  BY <1>1
<1>5. (q \o h) \o u = q \o (h \o u)
  BY <1>2, <1>4
<1>6. QED
  BY <1>1, <1>3, <1>5, Zenon DEF HandsOver, h, u, q

LEMMA WayShifted ==
  ASSUME NEW X, NEW r \in Seq(X), NEW s \in Seq(X), NEW t, NEW c \in X
  PROVE  (Append(r, c) \o s) \o t = (r \o (<<c>> \o s)) \o t
<1>1. Append(r, c) \o s = r \o (<<c>> \o s)
  OBVIOUS
<1>2. QED
  BY <1>1, Zenon

LEMMA WaySaid ==
  ASSUME NEW X, NEW r \in Seq(X), NEW s \in Seq(X), NEW t \in Seq(X)
  PROVE  (r \o s) \o t = ((r \o s) \o <<>>) \o t
<1>1. (r \o s) \o <<>> = r \o s
  OBVIOUS
<1>2. QED
  BY <1>1, Zenon

LEMMA NothingAdded ==
  ASSUME NEW X, NEW s \in Seq(X)
  PROVE  s \o <<>> = s /\ <<>> \o s = s
OBVIOUS

(* What arrives is never garbled.                                          *)
WireTypes ==
  /\ fifo \in Seq(Printers \X Characters)
  /\ received \in [Printers -> Seq(Characters)]
  /\ todo \in [Printers -> Seq(Characters)]

(* A character that is written does not leave its way ...                  *)
LEMMA WriteWay ==
  ASSUME WireTypes, NEW CONSTANT p \in Printers, todo[p] # <<>>,
         fifo' = Append(fifo, <<p, Head(todo[p])>>), received' = received,
         todo' = [todo EXCEPT ![p] = Tail(@)]
  PROVE  WireTypes' /\ \A q \in Printers : OnItsWay(q)' = OnItsWay(q)
<1> DEFINE c == Head(todo[p])
           e == <<p, c>>
<1>1. todo[p] \in Seq(Characters) /\ todo \in [Printers -> Seq(Characters)]
  BY DEF WireTypes
<1>2. c \in Characters /\ Tail(todo[p]) \in Seq(Characters)
  BY <1>1
<1> HIDE DEF c
<1>3. e \in Printers \X Characters /\ e[1] = p /\ e[2] = c
  BY <1>2
<1> HIDE DEF e
<1>4. fifo \in Seq(Printers \X Characters) /\ fifo' = Append(fifo, e)
  BY DEF WireTypes, e, c
<1>5. fifo' \in Seq(Printers \X Characters)
  <2> DEFINE P == Printers \X Characters
  <2>1. fifo \in Seq(P) /\ e \in P
    BY <1>3, <1>4
  <2> HIDE DEF P
  <2>2. Append(fifo, e) \in Seq(P)
    BY <2>1
  <2>3. QED
    BY <1>4, <2>2 DEF P
<1>6. todo' \in [Printers -> Seq(Characters)]
  BY <1>1, <1>2
<1>7. WireTypes'
  BY <1>5, <1>6 DEF WireTypes
<1>8. ASSUME NEW CONSTANT q \in Printers PROVE OnItsWay(q)' = OnItsWay(q)
  <2> DEFINE r == received[q]
             s == Sent(fifo, q)
             t == todo[q]
  <2>1. r \in Seq(Characters) /\ s \in Seq(Characters) /\ t \in Seq(Characters)
    BY <1>4, SentType DEF WireTypes
  <2>2. Sent(fifo', q) = s \o One(e, q)
    BY <1>3, <1>4, SentAppend
  <2>3. OnItsWay(q)' = (r \o (s \o One(e, q))) \o todo'[q]
    BY <2>2, WayNext
  <2>4. OnItsWay(q) = (r \o s) \o t
    BY WayIs
  <2>5. CASE q = p
    <3>1. One(e, q) = <<Head(t)>>
      BY <1>3, <2>5 DEF One, c
    <3>2. todo'[q] = Tail(t)
      BY <1>1, <2>5
    <3>3. t # <<>>
      BY <2>5
    <3> HIDE DEF r, s, t
    <3>4. HandsOver(r, s, t)
      BY <2>1, <3>3, WayWritten
    <3>5. QED
      BY <2>3, <2>4, <3>1, <3>2, <3>4, Zenon DEF HandsOver
  <2>6. CASE q # p
    <3>1. One(e, q) = <<>>
      BY <1>3, <2>6 DEF One
    <3>2. todo'[q] = t
      BY <1>1, <2>6
    <3> HIDE DEF r, s, t
    <3>3. s \o <<>> = s
      BY <2>1, NothingAdded
    <3>4. QED
      BY <2>3, <2>4, <3>1, <3>2, <3>3
  <2>7. QED
    BY <2>5, <2>6
<1>9. QED
  BY <1>7, <1>8

(* ... nor does one that is sent.                                          *)
LEMMA ShiftWay ==
  ASSUME WireTypes, Legible, Shift
  PROVE  WireTypes' /\ \A q \in Printers : OnItsWay(q)' = OnItsWay(q)
<1> DEFINE e == Head(fifo)
           p == e[1]
           c == e[2]
<1>1. fifo \in Seq(Printers \X Characters) /\ fifo # <<>>
  BY DEF WireTypes, Shift
<1>2. e \in Printers \X Characters /\ fifo' = Tail(fifo) /\ Tail(fifo) \in Seq(Printers \X Characters)
  BY <1>1, SentHead DEF Shift
<1>3. received' = [received EXCEPT ![p] = Append(@, c)] /\ todo' = todo
  BY DEF Shift, writers
<1> HIDE DEF e
<1>4. p \in Printers /\ c \in Characters
  BY <1>2
<1> HIDE DEF p, c
<1>5. received' \in [Printers -> Seq(Characters)]
  BY <1>3, <1>4 DEF WireTypes
<1>6. WireTypes'
  BY <1>2, <1>3, <1>5 DEF WireTypes
<1>7. ASSUME NEW CONSTANT q \in Printers PROVE OnItsWay(q)' = OnItsWay(q)
  <2> DEFINE r == received[q]
             s == Sent(fifo', q)
             t == todo[q]
  <2>1. r \in Seq(Characters) /\ s \in Seq(Characters)
    BY <1>2, SentType DEF WireTypes
  <2>2. Sent(fifo, q) = One(e, q) \o s
    BY <1>1, <1>2, SentHead DEF e
  <2>3. OnItsWay(q)' = (received'[q] \o s) \o t
    BY <1>3, WayNext
  <2>4. OnItsWay(q) = (r \o (One(e, q) \o s)) \o t
    BY <2>2, WayIs
  <2>5. CASE q = p
    <3>1. One(e, q) = <<c>>
      BY <2>5 DEF One, p, c
    <3>2. received'[q] = Append(r, c)
      BY <1>3, <2>5 DEF WireTypes
    <3> HIDE DEF r, s, t
    <3>3. (Append(r, c) \o s) \o t = (r \o (<<c>> \o s)) \o t
      BY <1>4, <2>1, WayShifted
    <3>4. QED
      BY <2>3, <2>4, <3>1, <3>2, <3>3
  <2>6. CASE q # p
    <3>1. One(e, q) = <<>>
      BY <2>6 DEF One, p
    <3>2. received'[q] = r
      BY <1>3, <1>4, <2>6 DEF WireTypes
    <3> HIDE DEF r, s, t
    <3>3. <<>> \o s = s
      BY <2>1, NothingAdded
    <3>4. QED
      BY <2>3, <2>4, <3>1, <3>2, <3>3
  <2>7. QED
    BY <2>5, <2>6
<1>8. QED
  BY <1>6, <1>7

(* A printer that has written everything adds a text.                      *)
LEMMA SayWay ==
  ASSUME WireTypes, NEW CONSTANT p \in Printers, NEW text \in Seq(Characters),
         UNCHANGED wire, todo[p] = <<>>, todo' = [todo EXCEPT ![p] = text]
  PROVE  /\ WireTypes' /\ OnItsWay(p)' = OnItsWay(p) \o text
         /\ \A q \in Printers \ {p} : OnItsWay(q)' = OnItsWay(q)
<1>1. fifo' = fifo /\ received' = received /\ todo'[p] = text /\ \A q \in Printers \ {p} : todo'[q] = todo[q]
  BY DEF wire, WireTypes
<1>2. WireTypes'
  BY <1>1 DEF WireTypes
<1>3. OnItsWay(p)' = OnItsWay(p) \o text
  <2> DEFINE r == received[p]
             s == Sent(fifo, p)
  <2>1. r \in Seq(Characters) /\ s \in Seq(Characters)
    BY SentType DEF WireTypes
  <2>2. OnItsWay(p) = (r \o s) \o <<>>
    BY WayIs
  <2>3. OnItsWay(p)' = (r \o s) \o text
    BY <1>1, WayNext
  <2> HIDE DEF r, s
  <2>4. (r \o s) \o text = ((r \o s) \o <<>>) \o text
    BY <2>1, WaySaid
  <2>5. QED
    BY <2>2, <2>3, <2>4, Zenon
<1>4. ASSUME NEW CONSTANT q \in Printers \ {p} PROVE OnItsWay(q)' = OnItsWay(q)
  BY <1>1, WayIs, WayNext
<1>5. QED
  BY <1>2, <1>3, <1>4

LEMMA SameWay ==
  ASSUME WireTypes, UNCHANGED <<wire, todo>>
  PROVE  WireTypes' /\ \A q : OnItsWay(q)' = OnItsWay(q)
BY DEF WireTypes, wire, OnItsWay

Echoes == FlattenSeq([k \in DOMAIN scancodes |-> Echo(scancodes[k])])

(* init_serial leaves a divisor that the other end expects.                *)
SetupDivisor ==
  /\ setup >= 3 => port.dll = 12
  /\ setup >= 4 => port.dlm = 0

(* What kmain has printed are the banner and the directives behind which   *)
(* the scanner stands.                                                     *)
Printed == \E n \in Nat : Scanned(n) /\ OnItsWay("kmain") = Banner \o Outputs(Prefix(n))

KmainText ==
  \/ setup < 7 /\ Scanned(0) /\ OnItsWay("kmain") = <<>>
  \/ setup = 7 /\ Printed
  \/ setup = 7 /\ PastPercent

(* The handler has printed everything once it has sent its EOI.            *)
HandlerText ==
  /\ OnItsWay("handler") = Echoes
  /\ handler # "EOI" => todo["handler"] = <<>>

TextInv ==
  /\ RoomInv /\ WireTypes
  /\ kprint \in {"scan", "done", "trap"} /\ directives \in Formats
  /\ SetupDivisor /\ KmainText /\ HandlerText

LEMMA EchoType ==
  ASSUME NEW k \in Nat
  PROVE  Echo(k) \in Seq(Characters)
<1> DEFINE n == HexDigits
           digit(m) == (k \div Power[n - m]) % Nibble
           h == [m \in 1 .. n |-> Char(digit(m))]
<1>1. n \in Nat /\ Nibble \in 2 .. 16 /\ Nibble \in Nat \ {0}
  BY KprintfAssumption
<1>2. ASSUME NEW m \in 1 .. n PROVE Char(digit(m)) \in Characters
  <2>1. n - m \in 0 .. n
    BY <1>1
  <2>2. Power[n - m] \in Nat \ {0}
    BY <2>1, PowerIs
  <2>3. digit(m) \in Digits(Nibble)
    BY <1>1, <2>2, Quotient
  <2>4. QED
    BY <1>1, <2>3, CharType
<1> HIDE DEF digit
<1>3. h \in Seq(Characters)
  BY <1>1, <1>2
<1>4. "0" \in Characters /\ "x" \in Characters /\ "\n" \in Characters
  <2>1. 0 \in Digits(Nibble)
    BY <1>1 DEF Digits
  <2>2. Char(0) = "0"
    BY DEF Char, hex_chars
  <2>3. QED
    BY <1>1, <2>1, <2>2, CharType, Alphabet
<1>5. print_hex_serial(k) = <<"0", "x">> \o h
  BY Zenon DEF print_hex_serial, digit
<1> HIDE DEF h
<1>6. (<<"0", "x">> \o h) \o <<"\n">> \in Seq(Characters)
  BY <1>3, <1>4
<1>7. QED
  BY <1>5, <1>6, Zenon DEF Echo

LEMMA EchoesAppend ==
  ASSUME NEW s \in Seq(Nat), NEW d \in Nat
  PROVE  FlattenSeq([k \in DOMAIN (s \o <<d>>) |-> Echo((s \o <<d>>)[k])])
           = FlattenSeq([k \in DOMAIN s |-> Echo(s[k])]) \o Echo(d)
<1> DEFINE t == s \o <<d>>
           E == [k \in DOMAIN s |-> Echo(s[k])]
           F == [k \in DOMAIN t |-> Echo(t[k])]
           n == Len(s)
<1>1. n \in Nat /\ DOMAIN s = 1 .. n /\ DOMAIN t = 1 .. n + 1 /\ t[n + 1] = d /\ \A k \in 1 .. n : t[k] = s[k]
  OBVIOUS
<1>2. \A k \in 1 .. n : Echo(s[k]) \in Seq(Characters)
  BY EchoType
<1>3. E \in Seq(Seq(Characters)) /\ Echo(d) \in Seq(Characters)
  <2>1. E = [k \in 1 .. n |-> Echo(s[k])]
    BY <1>1
  <2>2. [k \in 1 .. n |-> Echo(s[k])] \in Seq(Seq(Characters))
    BY <1>1, <1>2
  <2>3. Echo(d) \in Seq(Characters)
    BY EchoType
  <2>4. QED
    BY <2>1, <2>2, <2>3
<1> HIDE DEF t
<1>4. F = [k \in 1 .. n + 1 |-> Echo(t[k])] /\ E = [k \in 1 .. n |-> Echo(s[k])]
  BY <1>1
<1>5. [k \in 1 .. n + 1 |-> Echo(t[k])] = Append([k \in 1 .. n |-> Echo(s[k])], Echo(d))
  BY <1>1
<1>6. F = Append(E, Echo(d))
  BY <1>4, <1>5
<1>7. FlattenSeq(F) = FlattenSeq(E) \o Echo(d)
  <2> HIDE DEF E, F
  <2>1. FlattenSeq(Append(E, Echo(d))) = FlattenSeq(E) \o Echo(d)
    BY <1>3, FlattenAppend
  <2>2. QED
    BY <1>6, <2>1
<1>8. QED
  BY <1>7, Zenon DEF t

LEMMA KmainKept ==
  ASSUME KmainText, UNCHANGED <<setup, directives, i, args>>, OnItsWay("kmain")' = OnItsWay("kmain")
  PROVE  KmainText'
<1>1. \A n : Prefix(n)' = Prefix(n)
  BY DEF Prefix
<1>2. \A n : Scanned(n)' <=> Scanned(n)
  BY <1>1 DEF Scanned
<1>3. PastPercent' <=> PastPercent
  BY DEF PastPercent, EndsInPercent
<1>4. Printed => Printed'
  BY <1>1, <1>2 DEF Printed
<1>5. QED
  BY <1>2, <1>3, <1>4 DEF KmainText

LEMMA HandlerKept ==
  ASSUME HandlerText, scancodes' = scancodes, OnItsWay("handler")' = OnItsWay("handler"),
         handler' # "EOI" => todo'["handler"] = <<>>
  PROVE  HandlerText'
BY DEF HandlerText, Echoes

LEMMA DivisorKept ==
  ASSUME SetupDivisor, UNCHANGED <<setup, port>>
  PROVE  SetupDivisor'
BY DEF SetupDivisor

(* Steps that leave the port, the printers and the scanner alone.          *)
LEMMA TextSame ==
  ASSUME TextInv, RoomInv', UNCHANGED <<serial, scancodes>>, handler' # "EOI" => todo["handler"] = <<>>
  PROVE  TextInv'
<1>1. UNCHANGED <<port, wire, setup, todo, directives, i, args, kprint>>
  BY DEF serial, writers, scanner
<1>2. WireTypes' /\ \A q : OnItsWay(q)' = OnItsWay(q)
  BY <1>1, SameWay DEF TextInv
<1>3. KmainText'
  BY <1>1, <1>2, KmainKept DEF TextInv
<1>4. HandlerText'
  BY <1>1, <1>2, HandlerKept DEF TextInv
<1>5. SetupDivisor'
  BY <1>1, DivisorKept DEF TextInv
<1>6. QED
  BY <1>1, <1>2, <1>3, <1>4, <1>5 DEF TextInv

LEMMA TextInit == SerialInit => TextInv
<1> SUFFICES ASSUME SerialInit PROVE TextInv
  OBVIOUS
<1>1. RoomInv
  BY RoomInit
<1>2. fifo = <<>> /\ received = [p \in Printers |-> <<>>] /\ todo = [p \in Printers |-> <<>>] /\ setup = 0
  BY DEF SerialInit
<1>3. <<>> \in Seq(Characters) /\ <<>> \in Seq(Printers \X Characters)
  OBVIOUS
<1>4. WireTypes
  BY <1>2, <1>3 DEF WireTypes
<1>5. \A p \in Printers : OnItsWay(p) = <<>>
  <2> TAKE p \in Printers
  <2>1. [k \in DOMAIN <<>> |-> One(<<>>[k], p)] = <<>>
    OBVIOUS
  <2>2. Sent(fifo, p) = <<>>
    BY <1>2, <2>1, FlattenNone DEF Sent
  <2>3. received[p] = <<>> /\ todo[p] = <<>>
    BY <1>2
  <2>4. OnItsWay(p) = (<<>> \o <<>>) \o <<>>
    BY <2>2, <2>3, WayIs
  <2>5. QED
    BY <2>4
<1>6. directives \in Formats /\ directives \in Seq(Directives) /\ i = 1 /\ args = Arguments(directives) /\ kprint = "scan"
  BY FormatDirectives DEF SerialInit
<1>7. Scanned(0)
  <2>1. Texts(Prefix(0)) = <<>> /\ Arguments(Prefix(0)) = <<>>
    BY <1>6, NoDirectives DEF Prefix
  <2>2. args \in Seq(Int)
    BY <1>6, FieldTypes
  <2>3. <<>> \o args = args
    BY <2>2
  <2>4. 0 \in 0 .. Len(directives) /\ Len(<<>>) = 0
    BY <1>6
  <2>5. QED
    BY <1>6, <2>1, <2>2, <2>3, <2>4 DEF Scanned
<1>8. KmainText
  BY <1>2, <1>5, <1>7 DEF KmainText, Printers
<1>9. HandlerText
  <2>1. scancodes = <<>>
    BY DEF SerialInit, Init
  <2>2. [k \in DOMAIN <<>> |-> Echo(<<>>[k])] = <<>>
    OBVIOUS
  <2>3. Echoes = <<>>
    BY <2>1, <2>2, FlattenNone DEF Echoes
  <2>4. QED
    BY <1>2, <1>5, <2>3 DEF HandlerText, Printers
<1>10. QED
  BY <1>1, <1>2, <1>4, <1>6, <1>8, <1>9 DEF TextInv, SetupDivisor

LEMMA ShiftText ==
  ASSUME TextInv, Shift, RoomInv'
  PROVE  TextInv'
<1>1. fifo # <<>> /\ UNCHANGED <<vars, port, setup, todo, directives, i, args, kprint>>
  BY DEF Shift, writers, scanner
<1>2. setup = 7
  BY <1>1 DEF TextInv, RoomInv, SetupInv, Silent
<1>3. Legible
  BY <1>2 DEF TextInv, RoomInv, SetupInv, SetupDivisor, Legible
<1>4. WireTypes' /\ \A q \in Printers : OnItsWay(q)' = OnItsWay(q)
  BY <1>3, ShiftWay DEF TextInv
<1>5. OnItsWay("kmain")' = OnItsWay("kmain") /\ OnItsWay("handler")' = OnItsWay("handler")
  BY <1>4 DEF Printers
<1>6. KmainText'
  BY <1>1, <1>5, KmainKept DEF TextInv
<1>7. HandlerText'
  BY <1>1, <1>5, HandlerKept DEF TextInv, HandlerText, vars
<1>8. QED
  BY <1>1, <1>4, <1>6, <1>7, DivisorKept DEF TextInv

LEMMA WriteText ==
  ASSUME TextInv, NEW CONSTANT p \in Printers, Write(p), RoomInv'
  PROVE  TextInv'
<1>1. p \in ready /\ todo' = [todo EXCEPT ![p] = Tail(@)] /\ Outb(0, <<p, Head(todo[p])>>)
      /\ UNCHANGED <<vars, setup, directives, i, args, kprint>>
  BY DEF Write, scanner
<1>2. setup = 7 /\ ~DLAB
  BY <1>1 DEF TextInv, RoomInv, SetupInv, Silent, DLAB
<1>3. todo[p] # <<>> /\ Len(fifo) < Capacity
  BY <1>1, <1>2, SetupLength, RoomHolds DEF TextInv, Room
<1>4. fifo' = Append(fifo, <<p, Head(todo[p])>>) /\ UNCHANGED <<port, received>>
  BY <1>1, <1>2, <1>3 DEF Outb
<1>5. WireTypes' /\ \A q \in Printers : OnItsWay(q)' = OnItsWay(q)
  BY <1>1, <1>3, <1>4, WriteWay DEF TextInv
<1>6. OnItsWay("kmain")' = OnItsWay("kmain") /\ OnItsWay("handler")' = OnItsWay("handler")
  BY <1>5 DEF Printers
<1>7. KmainText'
  BY <1>1, <1>6, KmainKept DEF TextInv
<1>8. handler' # "EOI" => todo'["handler"] = <<>>
  <2>1. handler' = handler
    BY <1>1 DEF vars
  <2>2. CASE p = "handler"
    BY <1>1, <2>1, <2>2 DEF TextInv, RoomInv, WaitInv
  <2>3. CASE p # "handler"
    <3>1. todo'["handler"] = todo["handler"]
      BY <1>1, <2>3 DEF TextInv, WireTypes, Printers
    <3>2. QED
      BY <2>1, <3>1 DEF TextInv, HandlerText
  <2>4. QED
    BY <2>2, <2>3
<1>9. HandlerText'
  BY <1>1, <1>6, <1>8, HandlerKept DEF TextInv, vars
<1>10. QED
  BY <1>1, <1>4, <1>5, <1>7, <1>9, DivisorKept DEF TextInv

LEMMA WaitText ==
  ASSUME TextInv, NEW CONSTANT p \in Printers, Wait(p), RoomInv'
  PROVE  TextInv'
<1>1. UNCHANGED <<vars, port, wire, setup, todo, directives, i, args, kprint>>
  BY DEF Wait, scanner
<1>2. WireTypes' /\ \A q : OnItsWay(q)' = OnItsWay(q)
  BY <1>1, SameWay DEF TextInv
<1>3. KmainText'
  BY <1>1, <1>2, KmainKept DEF TextInv
<1>4. HandlerText'
  BY <1>1, <1>2, HandlerKept DEF TextInv, HandlerText, vars
<1>5. QED
  BY <1>1, <1>2, <1>3, <1>4, DivisorKept DEF TextInv

LEMMA EchoText ==
  ASSUME TextInv, ReadAndEcho, RoomInv'
  PROVE  TextInv'
<1>1. /\ handler = "read" /\ handler' = "EOI" /\ scancodes' = scancodes \o <<data>>
      /\ todo' = [todo EXCEPT !["handler"] = Echo(data)]
      /\ UNCHANGED <<port, wire, setup, directives, i, args, kprint>>
  BY DEF ReadAndEcho, ReadScancode, ReadOnce, Say, scanner
<1>2. todo["handler"] = <<>>
  BY <1>1 DEF TextInv, HandlerText
<1>3. data \in Nat /\ scancodes \in Seq(Nat)
  <2>1. pressed \in 0 .. MaxKeys /\ data \in 0 .. pressed /\ scancodes \in Seq(1 .. pressed)
    BY DEF TextInv, RoomInv, Inv, TypeOK
  <2>2. pressed \in Nat
    BY <2>1, KeyboardAssumption
  <2>3. QED
    BY <2>1, <2>2
<1>4. Echo(data) \in Seq(Characters)
  BY <1>3, EchoType
<1>5. /\ WireTypes' /\ OnItsWay("handler")' = OnItsWay("handler") \o Echo(data)
      /\ \A q \in Printers \ {"handler"} : OnItsWay(q)' = OnItsWay(q)
  BY <1>1, <1>2, <1>4, SayWay DEF TextInv, Printers
<1>6. OnItsWay("kmain")' = OnItsWay("kmain")
  BY <1>5 DEF Printers
<1>7. KmainText'
  BY <1>1, <1>6, KmainKept DEF TextInv
<1>8. Echoes' = Echoes \o Echo(data)
  <2>1. Echoes' = FlattenSeq([k \in DOMAIN scancodes' |-> Echo(scancodes'[k])])
    BY DEF Echoes
  <2>2. Echoes' = FlattenSeq([k \in DOMAIN (scancodes \o <<data>>) |-> Echo((scancodes \o <<data>>)[k])])
    BY <1>1, <2>1, Zenon
  <2>3. QED
    BY <1>3, <2>2, EchoesAppend, Zenon DEF Echoes
<1>9. HandlerText'
  BY <1>1, <1>5, <1>8 DEF TextInv, HandlerText
<1>10. QED
  BY <1>1, <1>5, <1>7, <1>9, DivisorKept DEF TextInv

(* init_serial leaves what the line carries alone, and sets the divisor.   *)
LEMMA SetupWire ==
  ASSUME TextInv, init_serial
  PROVE  setup \in 0 .. 6 /\ setup' = setup + 1 /\ UNCHANGED wire /\ SetupDivisor'
<1>1. setup \in 0 .. 6 /\ setup' = setup + 1 /\ fifo = <<>> /\ fifo' = <<>>
  BY SetupLength, SetupStep DEF TextInv, RoomInv, SetupInv, Silent, init_serial
<1>2. UNCHANGED wire
  BY <1>1 DEF init_serial, Outb, wire
<1> USE DEF init_serial, Setup, Outb, DLAB, TextInv, RoomInv, SetupInv, Registers, SetupDivisor
<1>3. CASE setup \in {0, 1}
  BY <1>1, <1>3
<1>4. CASE setup = 2
  BY <1>1, <1>4
<1>5. CASE setup = 3
  BY <1>1, <1>5
<1>6. CASE setup = 4
  BY <1>1, <1>6
<1>7. CASE setup = 5
  <2>1. port.lcr = 3 /\ Outb(2, 199)
    BY <1>1, <1>7
  <2>2. port' = [port EXCEPT !.fcr = 199]
    BY <2>1
  <2>3. port.dll = 12 /\ port.dlm = 0 /\ port \in [dll : Nat, dlm : Nat, fcr : Nat, lcr : Nat]
    BY <1>7
  <2> HIDE DEF init_serial, Outb, Setup, DLAB, TextInv
  <2>4. port'.dll = 12 /\ port'.dlm = 0
    BY <2>2, <2>3
  <2>5. QED
    BY <1>1, <1>2, <2>4
<1>8. CASE setup = 6
  BY <1>1, <1>8
<1>9. QED
  BY <1>1, <1>2, <1>3, <1>4, <1>5, <1>6, <1>7, <1>8

LEMMA SetupText ==
  ASSUME TextInv, init_serial, RoomInv'
  PROVE  TextInv'
<1>1. setup \in 0 .. 6 /\ setup' = setup + 1 /\ UNCHANGED wire /\ SetupDivisor'
  BY SetupWire
<1>2. /\ UNCHANGED <<vars, directives, i, args, kprint>>
      /\ IF setup' = 7 THEN todo' = [todo EXCEPT !["kmain"] = Banner] ELSE UNCHANGED todo
  BY SetupLength DEF init_serial, Say, scanner
<1>3. Scanned(0) /\ OnItsWay("kmain") = <<>> /\ \A p \in Printers : todo[p] = <<>>
  BY <1>1 DEF TextInv, KmainText, RoomInv, Silent
<1>4. Scanned(0)' /\ Prefix(0)' = Prefix(0)
  BY <1>2, <1>3 DEF Scanned, Prefix
<1>5. CASE setup # 6
  <2>1. setup' < 7 /\ UNCHANGED todo
    BY <1>1, <1>2, <1>5
  <2>2. WireTypes' /\ \A q : OnItsWay(q)' = OnItsWay(q)
    BY <1>1, <2>1, SameWay DEF TextInv
  <2>3. KmainText'
    BY <1>3, <1>4, <2>1, <2>2 DEF KmainText
  <2>4. HandlerText'
    BY <1>2, <2>1, <2>2, HandlerKept DEF TextInv, HandlerText, vars
  <2>5. QED
    BY <1>1, <1>2, <2>2, <2>3, <2>4 DEF TextInv
<1>6. CASE setup = 6
  <2>1. setup' = 7 /\ todo' = [todo EXCEPT !["kmain"] = Banner] /\ todo["kmain"] = <<>>
    BY <1>1, <1>2, <1>3, <1>6 DEF Printers
  <2>2. Banner \in Seq(Characters)
    BY SerialAssumption
  <2>3. /\ WireTypes' /\ OnItsWay("kmain")' = OnItsWay("kmain") \o Banner
        /\ \A q \in Printers \ {"kmain"} : OnItsWay(q)' = OnItsWay(q)
    BY <1>1, <2>1, <2>2, SayWay DEF TextInv, Printers
  <2>4. OnItsWay("handler")' = OnItsWay("handler")
    BY <2>3 DEF Printers
  <2>5. Outputs(Prefix(0)) = <<>>
    BY FormatDirectives, NoDirectives DEF TextInv, Prefix
  <2>6. OnItsWay("kmain")' = Banner \o Outputs(Prefix(0))
    BY <1>3, <2>2, <2>3, <2>5, NothingAdded
  <2>7. KmainText'
    <3>1. 0 \in Nat
      OBVIOUS
    <3>2. (Banner \o Outputs(Prefix(0)))' = Banner \o Outputs(Prefix(0))
      BY <1>4
    <3>3. QED
      BY <1>4, <2>1, <2>6, <3>1, <3>2 DEF KmainText, Printed
  <2>8. todo'["handler"] = <<>>
    BY <1>3, <2>1 DEF TextInv, WireTypes, Printers
  <2>9. HandlerText'
    BY <1>2, <2>4, <2>8, HandlerKept DEF TextInv, vars
  <2>10. QED
    BY <1>1, <1>2, <2>3, <2>7, <2>9 DEF TextInv
<1>7. QED
  BY <1>5, <1>6

LEMMA ScanText ==
  ASSUME TextInv, Scan, RoomInv'
  PROVE  TextInv'
<1>1. /\ setup = 7 /\ todo["kmain"] = <<>> /\ kprint = "scan"
      /\ UNCHANGED <<vars, port, wire, setup>>
  BY SetupLength DEF Scan, Idle
<1>2. directives \in Formats /\ directives \in Seq(Directives)
  BY FormatDirectives DEF TextInv
<1>3. SetupDivisor'
  BY <1>1, DivisorKept DEF TextInv
<1>4. ASSUME directives' = directives, kprint' \in {"done", "trap"}, UNCHANGED <<i, args, todo>>
      PROVE  TextInv'
  <2>1. WireTypes' /\ \A q : OnItsWay(q)' = OnItsWay(q)
    BY <1>1, <1>4, SameWay DEF TextInv
  <2>2. KmainText'
    BY <1>1, <1>4, <2>1, KmainKept DEF TextInv
  <2>3. HandlerText'
    BY <1>1, <1>4, <2>1, HandlerKept DEF TextInv, HandlerText, vars
  <2>4. QED
    BY <1>2, <1>3, <1>4, <2>1, <2>2, <2>3 DEF TextInv
<1>5. ASSUME NEW text \in Seq(Characters), Prints(text)
      PROVE  WireTypes' /\ HandlerText' /\ OnItsWay("kmain")' = OnItsWay("kmain") \o text
  <2>1. /\ WireTypes' /\ OnItsWay("kmain")' = OnItsWay("kmain") \o text
        /\ \A q \in Printers \ {"kmain"} : OnItsWay(q)' = OnItsWay(q)
    BY <1>1, <1>5, SayWay DEF TextInv, Printers, Prints
  <2>2. OnItsWay("handler")' = OnItsWay("handler")
    BY <2>1 DEF Printers
  <2>3. todo'["handler"] = todo["handler"]
    BY <1>5 DEF TextInv, WireTypes, Printers, Prints
  <2>4. HandlerText'
    BY <1>1, <2>2, <2>3, HandlerKept DEF TextInv, HandlerText, vars
  <2>5. QED
    BY <2>1, <2>4
<1>6. ASSUME directives' = directives, PastPercent', NEW text \in Seq(Characters), Prints(text), UNCHANGED kprint
      PROVE  TextInv'
  <2>1. KmainText'
    BY <1>1, <1>6 DEF KmainText
  <2>2. WireTypes' /\ HandlerText'
    BY <1>5, <1>6
  <2>3. QED
    BY <1>2, <1>3, <1>6, <2>1, <2>2 DEF TextInv
<1>7. CASE PastPercent
  BY <1>2, <1>4, <1>6, <1>7, ScanPast
<1>8. CASE Printed
  <2>1. PICK n \in Nat : Scanned(n) /\ OnItsWay("kmain") = Banner \o Outputs(Prefix(n))
    BY <1>8 DEF Printed
  <2>2. CASE kprint' \in {"done", "trap"} /\ UNCHANGED <<i, args, todo>> /\ directives' = directives
    BY <1>4, <2>2
  <2>3. CASE /\ PastPercent' /\ (\E text \in Seq(Characters) : Prints(text)) /\ UNCHANGED kprint
             /\ directives' = directives
    BY <1>6, <2>3
  <2>4. CASE /\ n \in 0 .. Len(directives) - 1 /\ Scanned(n + 1)'
             /\ Prints(directives[n + 1].output) /\ UNCHANGED kprint /\ directives' = directives
    <3> DEFINE o == directives[n + 1].output
               q == Outputs(Prefix(n))
    <3>1. Grows(Characters, Outputs(directives), q, o, Outputs(Prefix(n + 1)), n + 1 = Len(directives))
      BY <1>2, <2>4, OutputsGrow DEF Prefix
    <3> HIDE DEF o, q
    <3>2. q \in Seq(Characters) /\ o \in Seq(Characters) /\ Outputs(Prefix(n + 1)) = q \o o
      BY <3>1, Zenon DEF Grows
    <3>3. WireTypes' /\ HandlerText' /\ OnItsWay("kmain")' = OnItsWay("kmain") \o o
      BY <1>5, <2>4, <3>2 DEF o
    <3>4. Banner \in Seq(Characters)
      BY SerialAssumption
    <3>5. Regroups(Banner, q, o)
      BY <3>2, <3>4, Associative
    <3>6. OnItsWay("kmain")' = Banner \o Outputs(Prefix(n + 1))
      BY <2>1, <3>2, <3>3, <3>5, Zenon DEF Regroups, q
    <3>7. Prefix(n + 1)' = Prefix(n + 1)
      BY <2>4 DEF Prefix
    <3>8. KmainText'
      <4>1. n + 1 \in Nat
        OBVIOUS
      <4>2. (OnItsWay("kmain") = Banner \o Outputs(Prefix(n + 1)))'
        BY <3>6, <3>7
      <4>3. QED
        BY <1>1, <2>4, <4>1, <4>2 DEF KmainText, Printed
    <3>9. kprint' \in {"scan", "done", "trap"} /\ directives' \in Formats
      BY <1>2, <2>4 DEF TextInv
    <3>10. QED
      BY <1>3, <3>3, <3>8, <3>9 DEF TextInv
  <2>5. QED
    BY <1>2, <2>1, <2>2, <2>3, <2>4, ScanDirective
<1>9. QED
  BY <1>1, <1>7, <1>8 DEF TextInv, KmainText

LEMMA TextStep == TextInv /\ [SerialNext]_allvars => TextInv'
<1> SUFFICES ASSUME TextInv, [SerialNext]_allvars PROVE TextInv'
  OBVIOUS
<1>1. RoomInv'
  BY RoomStep DEF TextInv
<1>2. ASSUME UNCHANGED <<serial, scancodes, handler>> PROVE TextInv'
  BY <1>1, <1>2, TextSame DEF TextInv, HandlerText
<1>3. CASE (Press \/ Take) /\ UNCHANGED serial
  BY <1>2, <1>3 DEF Press, Take
<1>4. CASE Shift
  BY <1>1, <1>4, ShiftText
<1>5. CASE init_serial
  BY <1>1, <1>5, SetupText
<1>6. CASE BootKeyboard
  BY <1>2, <1>6 DEF BootKeyboard, Boot, set_IRQ, ReadStatus, Discard, Sti
<1>7. CASE Scan
  BY <1>1, <1>7, ScanText
<1>8. ASSUME NEW CONSTANT p \in Printers, Wait(p) \/ Write(p) PROVE TextInv'
  BY <1>1, <1>8, WaitText, WriteText
<1>9. CASE EnterHandler
  <2>1. UNCHANGED <<serial, scancodes>> /\ handler = "none"
    BY <1>9 DEF EnterHandler, Interrupt, TextInv, RoomInv, Inv, NotNested
  <2>2. QED
    BY <1>1, <2>1, TextSame DEF TextInv, HandlerText
<1>10. CASE ReadAndEcho
  BY <1>1, <1>10, EchoText
<1>11. CASE Acknowledge
  BY <1>1, <1>11, TextSame DEF Acknowledge, EndOfInterrupt
<1>12. CASE LeaveHandler
  <2>1. UNCHANGED <<serial, scancodes>> /\ handler = "iret"
    BY <1>12 DEF LeaveHandler, Iret
  <2>2. QED
    BY <1>1, <2>1, TextSame DEF TextInv, HandlerText
<1>13. CASE UNCHANGED allvars
  BY <1>2, <1>13 DEF allvars, vars
<1>14. QED
  BY <1>3, <1>4, <1>5, <1>6, <1>7, <1>8, <1>9, <1>10, <1>11, <1>12, <1>13
  DEF SerialNext, Kmain, KeyboardHandler, write_serial, Printers

(* The scanner stays within its format, but for the character behind a     *)
(* lone %, and what is printed are characters.                             *)
THEOREM SerialTypeCorrect == SerialSpec => []SerialTypeOK
<1>1. TextInv => SerialTypeOK
  <2> SUFFICES ASSUME TextInv PROVE SerialTypeOK
    OBVIOUS
  <2>1. directives \in Seq(Directives)
    BY FormatDirectives DEF TextInv
  <2>2. i \in 1 .. Len(fmt)
    <3> DEFINE L == Len(Texts(directives))
    <3>1. L \in Nat /\ Len(fmt) = L + 3
      BY <2>1, FmtIs
    <3> HIDE DEF L
    <3>2. CASE PastPercent
      <4>1. i \in {L + 2, L + 3}
        BY <3>2 DEF PastPercent, L
      <4>2. QED
        BY <3>1, <4>1
    <3>3. CASE \E n \in Nat : Scanned(n)
      <4>1. PICK n \in Nat : Scanned(n)
        BY <3>3
      <4>2. n \in 0 .. Len(directives) /\ Len(directives) \in Nat
        BY <2>1, <4>1 DEF Scanned
      <4>3. CASE n = Len(directives)
        <5>1. i = L + 1
          BY <2>1, <4>1, <4>3, NoDirectives DEF Scanned, Prefix, L
        <5>2. QED
          BY <3>1, <5>1
      <4>4. CASE n \in 0 .. Len(directives) - 1
        <5> DEFINE l == Len(directives[n + 1].text)
        <5>1. Finds(n, directives[n + 1])
          BY <2>1, <4>1, <4>4, AtDirective
        <5>2. l \in Nat /\ i \in Nat /\ i + l <= L + 1
          BY <5>1 DEF Finds, L
        <5>3. Prefix(n) \in Seq(Directives)
          BY <2>1, <4>4 DEF Prefix
        <5>4. Len(Texts(Prefix(n))) \in Nat
          BY <5>3, FieldTypes
        <5>5. i >= 1
          BY <4>1, <5>4 DEF Scanned
        <5> HIDE DEF l
        <5>6. QED
          BY <3>1, <5>2, <5>5
      <4>5. QED
        BY <4>2, <4>3, <4>4
    <3>4. QED
      BY <3>2, <3>3 DEF TextInv, KmainText, Printed
  <2>3. received \in [Printers -> Seq(Characters \cup {"garbled"})]
    <3>1. \A p \in Printers : received[p] \in Seq(Characters)
      BY DEF TextInv, WireTypes
    <3>2. \A p \in Printers : received[p] \in Seq(Characters \cup {"garbled"})
      BY <3>1
    <3>3. QED
      BY <3>2 DEF TextInv, WireTypes
  <2>4. setup \in 0 .. Len(Setup)
    BY SetupLength DEF TextInv, RoomInv, SetupInv
  <2>5. QED
    BY <2>2, <2>3, <2>4 DEF SerialTypeOK, TextInv, WireTypes, RoomInv, WaitInv, Inv
<1>2. QED
  BY TextInit, TextStep, <1>1, PTL DEF SerialSpec

(* What has arrived, is on its way and is still to write is, for kmain,    *)
(* the banner and the output of the directives passed, and for the         *)
(* handler the scan codes it has read: no character is lost, repeated,     *)
(* garbled or out of order.                                                *)
THEOREM SerialTextIntact == SerialSpec => []TextIntact
<1>1. TextInv => TextIntact
  <2> SUFFICES ASSUME TextInv PROVE TextIntact
    OBVIOUS
  <2>1. ASSUME setup = Len(Setup), ~EndsInPercent
        PROVE  \E n \in 0 .. Len(directives) :
                 i = Len(Texts(Prefix(n))) + 1 /\ OnItsWay("kmain") = Banner \o Outputs(Prefix(n))
    <3>1. setup = 7 /\ ~PastPercent
      BY <2>1, SetupLength DEF PastPercent
    <3>2. PICK n \in Nat : Scanned(n) /\ OnItsWay("kmain") = Banner \o Outputs(Prefix(n))
      BY <3>1 DEF TextInv, KmainText, Printed
    <3>3. QED
      BY <3>2 DEF Scanned
  <2>2. OnItsWay("handler") = Echoes
    BY DEF TextInv, HandlerText
  <2>3. QED
    BY <2>1, <2>2 DEF TextIntact, Prefix, Echoes
<1>2. QED
  BY TextInit, TextStep, <1>1, PTL DEF SerialSpec
=============================================================================
