--------------------------- MODULE SquashFsProofs ---------------------------
(***************************************************************************)
(* The files the SquashFS reader returns, for every image: the bytes in    *)
(* front of a bad block are those of the file (PrefixIsIntact), and a file *)
(* that is not damaged is returned whole (WholeFilesAreExact), because     *)
(* what the cache holds of a fragment is what the table says of its start  *)
(* (CacheIsTrue). Every file that can be reached is among them, once,      *)
(* because what the stack still has to take and what was returned are      *)
(* together the routes of the tree (WalkInv).                              *)
(***************************************************************************)
EXTENDS SquashFs, FiniteSetTheorems, WellFoundedInduction, TLAPS

LEMMA Least ==
  ASSUME NEW S \in SUBSET Nat, S # {}
  PROVE  \E n \in S : \A m \in S : ~(m < n)
<1> DEFINE R == OpToRel(<, Nat)
<1>1. PICK n \in S : \A m \in S : ~(<<m, n>> \in R)
  BY NatLessThanWellFounded, WFMin
<1> QED
  BY <1>1 DEF OpToRel

\* Induction, over a set instead of a formula.
LEMMA EveryNumber ==
  ASSUME NEW S, 0 \in S, \A n \in Nat : n \in S => n + 1 \in S
  PROVE  Nat \subseteq S
<1> SUFFICES ASSUME Nat \ S # {}
             PROVE  FALSE
  OBVIOUS
<1>1. PICK n \in Nat \ S : \A m \in Nat \ S : ~(m < n)
  BY Least
<1>2. n # 0 /\ n - 1 \in Nat /\ n - 1 < n
  BY <1>1
<1>3. n - 1 + 1 \in S
  BY <1>1, <1>2
<1> QED
  BY <1>1, <1>2, <1>3

-----------------------------------------------------------------------------
\* Arithmetic of blocks.
LEMMA Division ==
  ASSUME NEW a \in Nat, NEW b \in Nat \ {0}
  PROVE  /\ a \div b \in Nat /\ a % b \in Nat /\ (a % b) < b
         /\ a = ((a \div b) * b) + (a % b)
OBVIOUS

LEMMA Products ==
  ASSUME NEW i \in Nat, NEW j \in Nat, NEW b \in Nat
  PROVE  /\ i * b \in Nat
         /\ i <= j => i * b <= j * b
         /\ i < j => i * b + b <= j * b
<1>1. i * b \in Nat /\ j * b \in Nat
  OBVIOUS
<1>2. ASSUME i <= j PROVE i * b <= j * b
  <2>1. PICK d \in Nat : j = i + d
    BY <1>2
  <2>2. j * b = i * b + d * b /\ d * b \in Nat
    BY <2>1
  <2> QED
    BY <1>1, <2>2
<1>3. ASSUME i < j PROVE i * b + b <= j * b
  <2>1. PICK d \in Nat : j = i + 1 + d
    <3>1. j - i - 1 \in Nat
      BY <1>3
    <3> QED
      BY <3>1
  <2>2. j * b = i * b + b + d * b /\ d * b \in Nat
    BY <2>1
  <2> QED
    BY <1>1, <2>2
<1> QED
  BY <1>1, <1>2, <1>3

\* Byte k of a file lies in block (k - 1) \div b + 1, and there at place
\* (k - 1) % b + 1.
LEMMA PlaceOf ==
  ASSUME NEW b \in Nat \ {0}, NEW k \in Nat \ {0}
  PROVE  LET q == (k - 1) \div b
             r == (k - 1) % b
         IN  q \in Nat /\ r + 1 \in 1 .. b /\ k = q * b + (r + 1) /\ q * b \in Nat
<1>1. k - 1 \in Nat
  OBVIOUS
<1> DEFINE q == (k - 1) \div b
           r == (k - 1) % b
<1>2. q \in Nat /\ r \in Nat /\ r < b /\ k - 1 = q * b + r
  BY <1>1, Division
<1>3. q * b \in Nat
  BY <1>2
<1> HIDE DEF q, r
<1> QED
  BY <1>2, <1>3

LEMMA Minimum ==
  ASSUME NEW a \in Nat, NEW b \in Nat
  PROVE  /\ Min({a, b}) \in Nat /\ Min({a, b}) <= a /\ Min({a, b}) <= b
         /\ a <= b => Min({a, b}) = a
         /\ b <= a => Min({a, b}) = b
<1>1. \E x \in {a, b} : \A y \in {a, b} : x <= y
  BY a <= b \/ b <= a
<1>2. Min({a, b}) \in {a, b} /\ \A y \in {a, b} : Min({a, b}) <= y
  BY <1>1 DEF Min
<1> QED
  BY <1>2

LEMMA MinimumOfThree ==
  ASSUME NEW a \in Nat, NEW b \in Nat, NEW c \in Nat
  PROVE  LET m == Min({a, b, c}) IN m \in Nat /\ m <= a /\ m <= b /\ m <= c
<1>1. \E x \in {a, b, c} : \A y \in {a, b, c} : x <= y
  <2>1. CASE a <= b /\ a <= c
    BY <2>1
  <2>2. CASE b <= a /\ b <= c
    BY <2>2
  <2>3. CASE c <= a /\ c <= b
    BY <2>3
  <2> QED
    BY <2>1, <2>2, <2>3
<1>2. Min({a, b, c}) \in {a, b, c} /\ \A y \in {a, b, c} : Min({a, b, c}) <= y
  BY <1>1 DEF Min
<1> QED
  BY <1>2

-----------------------------------------------------------------------------
\* read_meta returns a number of bytes: those readable from a block on are
\* found from those readable from the next one on.
ReadableStep(table, f, i) ==
  IF i > Len(table) THEN 0 ELSE IF table[i] = 0 THEN 0 ELSE table[i] + f[i + 1]

\* The last n of the blocks 1 .. N, and the end.
LEMMA ReadableDefined ==
  ASSUME NEW table, NEW N \in Nat
  PROVE  \E f : f = [i \in 1 .. N |-> IF i = N THEN 0 ELSE ReadableStep(table, f, i)]
<1> DEFINE Step(f, i) == IF i = N THEN 0 ELSE ReadableStep(table, f, i)
           From(n) == {i \in 1 .. N : i + n >= N}
           S == {n \in Nat : \E f : f = [i \in From(n) |-> Step(f, i)]}
<1>1. 0 \in S
  <2> DEFINE f == [i \in From(0) |-> 0]
  <2>1. \A i \in From(0) : i = N
    OBVIOUS
  <2>2. f = [i \in From(0) |-> Step(f, i)]
    BY <2>1
  <2> QED
    BY <2>2
<1>2. ASSUME NEW n \in Nat, n \in S
      PROVE  n + 1 \in S
  <2>1. PICK f : f = [i \in From(n) |-> Step(f, i)]
    BY <1>2
  <2> DEFINE g == [i \in From(n + 1) |-> IF i \in From(n) THEN f[i] ELSE Step(f, i)]
  <2>2. \A i \in From(n + 1) : i # N => i + 1 \in From(n) /\ i + 1 \in From(n + 1)
    OBVIOUS
  <2>3. \A i \in From(n) : i \in From(n + 1) /\ f[i] = Step(f, i)
    BY <2>1
  <2>4. ASSUME NEW i \in From(n + 1)
        PROVE  g[i] = Step(g, i)
    <3>1. g[i] = Step(f, i)
      BY <2>3
    <3>2. CASE i = N
      BY <3>1, <3>2
    <3>3. CASE i # N
      <4>1. g[i + 1] = f[i + 1]
        BY <2>2, <3>3
      <4> HIDE DEF g, From
      <4> QED
        BY <3>1, <3>3, <4>1 DEF ReadableStep
    <3> QED
      BY <3>2, <3>3
  <2>5. g = [i \in From(n + 1) |-> Step(g, i)]
    BY <2>4
  <2> HIDE DEF g, From
  <2>6. \E h : h = [i \in From(n + 1) |-> Step(h, i)]
    BY <2>5
  <2> QED
    BY <2>6
<1> HIDE DEF S
<1>3. Nat \subseteq S
  BY <1>1, <1>2, EveryNumber
<1>4. N \in S /\ From(N) = 1 .. N
  BY <1>3
<1> HIDE DEF From
<1> QED
  BY <1>4 DEF S

LEMMA ReadMetaFacts ==
  ASSUME NEW table \in Seq(Nat), NEW at \in (Nat \ {0}) \X Nat, NEW len \in Nat
  PROVE  ReadMeta(table, at, len) \in Nat /\ ReadMeta(table, at, len) <= len
<1> DEFINE N == Len(table) + 1
           r == CHOOSE f : f = [i \in 1 .. N |->
                  IF i > Len(table) THEN 0
                  ELSE IF table[i] = 0 THEN 0 ELSE table[i] + f[i + 1]]
           buf == IF at[1] > Len(table) THEN 0 ELSE r[at[1]]
<1>1. Len(table) \in Nat /\ N \in Nat /\ N = Len(table) + 1 /\ \A i \in 1 .. Len(table) : table[i] \in Nat
  OBVIOUS
<1>2. r = [i \in 1 .. N |-> ReadableStep(table, r, i)]
  <2>1. PICK f : f = [i \in 1 .. N |-> IF i = N THEN 0 ELSE ReadableStep(table, f, i)]
    BY <1>1, ReadableDefined
  <2>2. \A i \in 1 .. N : i = N => ReadableStep(table, f, i) = 0
    BY <1>1 DEF ReadableStep
  <2>3. f = [i \in 1 .. N |-> ReadableStep(table, f, i)]
    BY <2>1, <2>2
  <2> HIDE DEF N
  <2>4. \E h : h = [i \in 1 .. N |->
                  IF i > Len(table) THEN 0
                  ELSE IF table[i] = 0 THEN 0 ELSE table[i] + h[i + 1]]
    BY <2>3 DEF ReadableStep
  <2> QED
    BY <2>4 DEF ReadableStep
<1>3. ReadMeta(table, at, len) = IF at[2] > buf THEN 0 ELSE Min({at[2] + len, buf}) - at[2]
  BY DEF ReadMeta
<1> HIDE DEF r, N
<1> DEFINE S == {n \in Nat : \A i \in 1 .. N : i + n = N => r[i] \in Nat}
<1>4. 0 \in S
  BY <1>1, <1>2 DEF ReadableStep
<1>5. ASSUME NEW n \in Nat, n \in S
      PROVE  n + 1 \in S
  <2> SUFFICES ASSUME NEW i \in 1 .. N, i + (n + 1) = N
               PROVE  r[i] \in Nat
    OBVIOUS
  <2>1. i + 1 \in 1 .. N /\ i + 1 + n = N /\ i \in 1 .. Len(table)
    BY <1>1
  <2>2. r[i + 1] \in Nat
    BY <1>5, <2>1
  <2>3. r[i] = ReadableStep(table, r, i)
    BY <1>2
  <2> QED
    BY <1>1, <2>1, <2>2, <2>3 DEF ReadableStep
<1> HIDE DEF S
<1>6. Nat \subseteq S
  BY <1>4, <1>5, EveryNumber
<1>7. \A i \in 1 .. N : r[i] \in Nat
  <2> SUFFICES ASSUME NEW i \in 1 .. N
               PROVE  r[i] \in Nat
    OBVIOUS
  <2>1. N - i \in Nat /\ i + (N - i) = N
    BY <1>1
  <2> QED
    BY <1>6, <2>1 DEF S
<1>8. at[1] \in Nat \ {0} /\ at[2] \in Nat
  OBVIOUS
<1>9. buf \in Nat
  BY <1>1, <1>7, <1>8
<1> HIDE DEF buf
<1>10. at[2] + len \in Nat
  BY <1>8
<1>11. /\ Min({at[2] + len, buf}) \in Nat
       /\ Min({at[2] + len, buf}) <= at[2] + len
       /\ at[2] <= buf => at[2] <= Min({at[2] + len, buf})
  <2>1. PICK a \in Nat : a = at[2] + len
    BY <1>10
  <2>2. /\ Min({a, buf}) \in Nat /\ Min({a, buf}) <= a
        /\ Min({a, buf}) = a \/ Min({a, buf}) = buf
    BY <1>9, Minimum
  <2> QED
    BY <1>8, <1>9, <2>1, <2>2
<1> QED
  BY <1>3, <1>8, <1>9, <1>11

-----------------------------------------------------------------------------
\* What FlattenSeq computes, from what it computed for one sequence less.
JoinStep(joined, ss, i) == IF i = 1 THEN ss[i] ELSE joined[i - 1] \o ss[i]

LEMMA JoinDefined ==
  ASSUME NEW ss, NEW N \in Nat
  PROVE  \E f : f = [i \in 1 .. N |-> JoinStep(f, ss, i)]
<1> DEFINE S == {n \in Nat : \E f : f = [i \in 1 .. n |-> JoinStep(f, ss, i)]}
<1>1. 0 \in S
  <2> DEFINE f == [i \in 1 .. 0 |-> <<>>]
  <2>1. f = [i \in 1 .. 0 |-> JoinStep(f, ss, i)]
    OBVIOUS
  <2> QED
    BY <2>1
<1>2. ASSUME NEW n \in Nat, n \in S
      PROVE  n + 1 \in S
  <2>1. PICK f : f = [i \in 1 .. n |-> JoinStep(f, ss, i)]
    BY <1>2
  <2> DEFINE g == [i \in 1 .. n + 1 |-> IF i = n + 1 THEN JoinStep(f, ss, i) ELSE f[i]]
  <2>2. ASSUME NEW i \in 1 .. n + 1
        PROVE  g[i] = JoinStep(g, ss, i)
    <3>1. CASE i = 1
      BY <2>1, <3>1 DEF JoinStep
    <3>2. CASE i # 1
      <4>1. i - 1 \in 1 .. n /\ g[i - 1] = f[i - 1]
        BY <3>2
      <4>2. JoinStep(g, ss, i) = JoinStep(f, ss, i)
        <5> HIDE DEF g
        <5> QED
          BY <4>1, <3>2 DEF JoinStep
      <4> QED
        BY <4>2, <2>1
    <3> QED
      BY <3>1, <3>2
  <2>3. g = [i \in 1 .. n + 1 |-> JoinStep(g, ss, i)]
    BY <2>2
  <2> HIDE DEF g
  <2>4. \E h : h = [i \in 1 .. n + 1 |-> JoinStep(h, ss, i)]
    BY <2>3
  <2> QED
    BY <2>4
<1> HIDE DEF S
<1>3. Nat \subseteq S
  BY <1>1, <1>2, EveryNumber
<1> QED
  BY <1>3 DEF S

\* f is the sequences of ss joined, one after the other: all prefixes of the
\* result.
IsJoin(U, ss, f) ==
  /\ \A i \in 1 .. Len(ss) : f[i] \in Seq(U)
  /\ Len(ss) # 0 => f[1] = ss[1] /\ FlattenSeq(ss) = f[Len(ss)]
  /\ \A i \in 1 .. Len(ss) : i # 1 => f[i] = f[i - 1] \o ss[i]

LEMMA Joined ==
  ASSUME NEW U, NEW ss \in Seq(Seq(U))
  PROVE  /\ Len(ss) = 0 => FlattenSeq(ss) = <<>>
         /\ \E f : IsJoin(U, ss, f)
<1> DEFINE N == Len(ss)
           f == CHOOSE h : h = [i \in 1 .. N |-> IF i = 1 THEN ss[i] ELSE h[i - 1] \o ss[i]]
<1>1. N \in Nat /\ DOMAIN ss = 1 .. N /\ \A i \in 1 .. N : ss[i] \in Seq(U)
  OBVIOUS
<1>2. Len(ss) = 0 => FlattenSeq(ss) = <<>>
  BY DEF FlattenSeq
<1>3. Len(ss) # 0 => FlattenSeq(ss) = f[N]
  BY DEF FlattenSeq
<1>4. f = [i \in 1 .. N |-> JoinStep(f, ss, i)]
  <2>1. \E h : h = [i \in 1 .. N |-> IF i = 1 THEN ss[i] ELSE h[i - 1] \o ss[i]]
    BY <1>1, JoinDefined DEF JoinStep
  <2> QED
    BY <2>1 DEF JoinStep
<1>5. N = Len(ss)
  OBVIOUS
<1> HIDE DEF f, N
<1>6. ASSUME NEW i \in 1 .. N
      PROVE  f[i] = IF i = 1 THEN ss[i] ELSE f[i - 1] \o ss[i]
  BY <1>4 DEF JoinStep
<1> DEFINE S == {i \in Nat : i + 1 \in 1 .. N => f[i + 1] \in Seq(U)}
<1>7. 0 \in S
  BY <1>1, <1>6
<1>8. ASSUME NEW i \in Nat, i \in S
      PROVE  i + 1 \in S
  <2> SUFFICES ASSUME i + 1 + 1 \in 1 .. N
               PROVE  f[i + 1 + 1] \in Seq(U)
    OBVIOUS
  <2>1. PICK k \in 1 .. N : k = i + 1 + 1
    OBVIOUS
  <2>2. i + 1 \in 1 .. N /\ k # 1 /\ k - 1 = i + 1
    BY <1>1, <2>1
  <2>3. f[k] = f[k - 1] \o ss[k]
    BY <1>6, <2>2
  <2>4. f[k - 1] \in Seq(U) /\ ss[k] \in Seq(U)
    BY <1>1, <1>8, <2>2
  <2> QED
    BY <2>1, <2>3, <2>4
<1>9. Nat \subseteq S
  <2> HIDE DEF S
  <2> QED
    BY <1>7, <1>8, EveryNumber
<1>10. ASSUME NEW i \in 1 .. N
       PROVE  f[i] \in Seq(U)
  <2>1. i - 1 \in Nat /\ i - 1 + 1 = i
    BY <1>1
  <2> QED
    BY <1>9, <2>1
<1>11. N # 0 => 1 \in 1 .. N
  BY <1>1
<1> HIDE DEF S
<1>12. IsJoin(U, ss, f)
  BY <1>3, <1>5, <1>6, <1>10, <1>11 DEF IsJoin
<1> QED
  BY <1>2, <1>12

\* Joining two sequences.
LEMMA Concatenation ==
  ASSUME NEW U, NEW s \in Seq(U), NEW t \in Seq(U)
  PROVE  /\ s \o t \in Seq(U) /\ Len(s \o t) = Len(s) + Len(t)
         /\ \A k \in 1 .. Len(s) : (s \o t)[k] = s[k]
         /\ \A k \in 1 .. Len(t) : (s \o t)[Len(s) + k] = t[k]
<1>1. s \o t \in Seq(U) /\ Len(s \o t) = Len(s) + Len(t)
  OBVIOUS
<1>2. \A k \in 1 .. Len(s) : (s \o t)[k] = s[k]
  OBVIOUS
<1>3. \A k \in 1 .. Len(t) : (s \o t)[Len(s) + k] = t[k]
  OBVIOUS
<1> QED
  BY <1>1, <1>2, <1>3

LEMMA RightOfJoin ==
  ASSUME NEW U, NEW s \in Seq(U), NEW t \in Seq(U), NEW k \in 1 .. Len(t)
  PROVE  (s \o t)[Len(s) + k] = t[k]
OBVIOUS

\* As long as every sequence has b elements, a prefix of m has m * b.
LEMMA PrefixLength ==
  ASSUME NEW U, NEW ss \in Seq(Seq(U)), NEW b \in Nat, NEW f,
         NEW m \in 1 .. Len(ss), IsJoin(U, ss, f), \A i \in 1 .. m : Len(ss[i]) = b
  PROVE  Len(f[m]) = m * b
<1> DEFINE S == {i \in Nat : i + 1 \in 1 .. m => Len(f[i + 1]) = (i + 1) * b}
<1>1. Len(ss) \in Nat /\ \A i \in 1 .. m : i \in 1 .. Len(ss) /\ ss[i] \in Seq(U)
  OBVIOUS
<1>2. 0 \in S
  <2>1. Len(f[1]) = b /\ 1 * b = b /\ 0 + 1 = 1
    BY <1>1 DEF IsJoin
  <2> QED
    BY <2>1
<1>3. ASSUME NEW i \in Nat, i \in S
      PROVE  i + 1 \in S
  <2> SUFFICES ASSUME i + 1 + 1 \in 1 .. m
               PROVE  Len(f[i + 1 + 1]) = (i + 1 + 1) * b
    OBVIOUS
  <2>1. PICK k \in 1 .. m : k = i + 1 + 1
    OBVIOUS
  <2>2. PICK j \in 1 .. m : j = i + 1
    BY <2>1
  <2>3. k # 1 /\ k - 1 = j /\ k = j + 1
    BY <2>1, <2>2
  <2>4. Len(f[j]) = j * b
    BY <1>3, <2>2
  <2>5. f[k] = f[j] \o ss[k]
    BY <1>1, <2>3 DEF IsJoin
  <2>6. f[j] \in Seq(U) /\ ss[k] \in Seq(U)
    BY <1>1 DEF IsJoin
  <2>7. Len(f[j] \o ss[k]) = Len(f[j]) + Len(ss[k])
    BY <2>6, Concatenation
  <2>8. (j + 1) * b = (j * b) + b /\ Len(ss[k]) = b
    BY <2>2
  <2> QED
    BY <2>1, <2>3, <2>4, <2>5, <2>7, <2>8
<1> HIDE DEF S
<1>4. Nat \subseteq S
  BY <1>2, <1>3, EveryNumber
<1>5. m - 1 \in Nat /\ m - 1 + 1 = m
  BY <1>1
<1>6. m - 1 \in S
  BY <1>4, <1>5
<1> QED
  BY <1>5, <1>6 DEF S

LEMMA JoinedLength ==
  ASSUME NEW U, NEW ss \in Seq(Seq(U)), NEW b \in Nat,
         \A i \in 1 .. Len(ss) : Len(ss[i]) = b
  PROVE  Len(FlattenSeq(ss)) = Len(ss) * b
<1>1. PICK f : IsJoin(U, ss, f)
  BY Joined
<1>2. CASE Len(ss) = 0
  <2>1. Len(<<>>) = 0
    OBVIOUS
  <2>2. FlattenSeq(ss) = <<>>
    BY <1>2, Joined
  <2> QED
    BY <1>2, <2>1, <2>2
<1>3. CASE Len(ss) # 0
  <2>1. PICK n \in 1 .. Len(ss) : n = Len(ss)
    BY <1>3
  <2>2. \A i \in 1 .. n : Len(ss[i]) = b
    BY <2>1
  <2>3. Len(f[n]) = n * b
    BY <1>1, <2>2, PrefixLength
  <2>4. FlattenSeq(ss) = f[Len(ss)]
    BY <1>1, <1>3 DEF IsJoin
  <2> QED
    BY <2>1, <2>3, <2>4
<1> QED
  BY <1>2, <1>3

\* What t holds stands in s behind the first o elements.
Holds(s, o, t) == \A k \in 1 .. Len(t) : s[o + k] = t[k]

\* What the i-th sequence holds lies behind i - 1 sequences of b elements.
LEMMA PlaceInJoined ==
  ASSUME NEW U, NEW ss \in Seq(Seq(U)), NEW b \in Nat, NEW i \in 1 .. Len(ss),
         \A j \in 1 .. i - 1 : Len(ss[j]) = b
  PROVE  /\ FlattenSeq(ss) \in Seq(U)
         /\ Len(FlattenSeq(ss)) >= ((i - 1) * b) + Len(ss[i])
         /\ Holds(FlattenSeq(ss), (i - 1) * b, ss[i])
<1>1. PICK f : IsJoin(U, ss, f)
  BY Joined
<1>2. Len(ss) \in Nat /\ Len(ss) # 0 /\ i \in Nat
  OBVIOUS
<1>12. \A j \in 1 .. Len(ss) : ss[j] \in Seq(U) /\ Len(ss[j]) \in Nat
  OBVIOUS
<1>13. \A j \in 1 .. Len(ss) : f[j] \in Seq(U)
  BY <1>1 DEF IsJoin
<1>14. \A j \in 1 .. Len(ss) : Len(f[j]) \in Nat
  BY <1>13
<1>15. ASSUME NEW m \in 1 .. Len(ss), \A h \in 1 .. m : Len(ss[h]) = b
       PROVE  Len(f[m]) = m * b
  BY <1>1, <1>15, PrefixLength
<1> DEFINE before == (i - 1) * b
<1>3. before \in Nat
  <2>1. i - 1 \in Nat
    OBVIOUS
  <2> QED
    BY <2>1, Products
<1>4. /\ Len(f[i]) = before + Len(ss[i])
      /\ \A k \in 1 .. Len(ss[i]) : f[i][before + k] = ss[i][k]
  <2>1. CASE i = 1
    <3>1. before = 0
      BY <2>1
    <3>2. f[i] = ss[i] /\ Len(ss[i]) \in Nat
      BY <1>1, <1>2, <1>12, <2>1 DEF IsJoin
    <3> HIDE DEF before
    <3> QED
      BY <3>1, <3>2
  <2>2. CASE i # 1
    <3>1. PICK j \in 1 .. Len(ss) : j = i - 1
      BY <2>2
    <3>2. \A h \in 1 .. j : Len(ss[h]) = b
      BY <3>1
    <3>3. Len(f[j]) = before
      <4>1. Len(f[j]) = j * b
        BY <1>15, <3>2
      <4> QED
        BY <3>1, <4>1
    <3>4. f[i] = f[j] \o ss[i]
      BY <1>1, <2>2, <3>1 DEF IsJoin
    <3> HIDE DEF before
    <3>5. f[j] \in Seq(U) /\ ss[i] \in Seq(U)
      BY <1>12, <1>13
    <3>6. Len(f[j] \o ss[i]) = Len(f[j]) + Len(ss[i])
      BY <3>5, Concatenation
    <3>7. ASSUME NEW k \in 1 .. Len(ss[i])
          PROVE  (f[j] \o ss[i])[Len(f[j]) + k] = ss[i][k]
      BY <3>5, RightOfJoin
    <3> QED
      BY <3>3, <3>4, <3>6, <3>7
  <2> QED
    BY <2>1, <2>2
<1> HIDE DEF before
<1> DEFINE S == {d \in Nat : i + d \in 1 .. Len(ss) =>
                    /\ Len(f[i + d]) >= Len(f[i])
                    /\ \A p \in 1 .. Len(f[i]) : f[i + d][p] = f[i][p]}
<1>5. 0 \in S
  <2>1. i + 0 = i /\ Len(f[i]) \in Nat
    BY <1>2, <1>14
  <2> QED
    BY <2>1
<1>6. ASSUME NEW d \in Nat, d \in S
      PROVE  d + 1 \in S
  <2> SUFFICES ASSUME i + (d + 1) \in 1 .. Len(ss)
               PROVE  /\ Len(f[i + (d + 1)]) >= Len(f[i])
                      /\ \A p \in 1 .. Len(f[i]) : f[i + (d + 1)][p] = f[i][p]
    OBVIOUS
  <2>1. PICK k \in 1 .. Len(ss) : k = i + (d + 1)
    OBVIOUS
  <2>2. PICK j \in 1 .. Len(ss) : j = i + d
    BY <2>1
  <2>3. k # 1 /\ k - 1 = j
    BY <2>1, <2>2
  <2>4. f[k] = f[j] \o ss[k]
    BY <1>1, <2>3 DEF IsJoin
  <2>9. f[j] \in Seq(U) /\ ss[k] \in Seq(U)
    BY <1>12, <1>13
  <2>10. /\ Len(f[j] \o ss[k]) = Len(f[j]) + Len(ss[k])
         /\ \A p \in 1 .. Len(f[j]) : (f[j] \o ss[k])[p] = f[j][p]
    BY <2>9, Concatenation
  <2>5. \A p \in 1 .. Len(f[j]) : f[k][p] = f[j][p]
    BY <2>4, <2>10
  <2>13. Len(f[k]) = Len(f[j]) + Len(ss[k])
    BY <2>4, <2>10
  <2>6. Len(f[k]) \in Nat /\ Len(f[j]) \in Nat /\ Len(ss[k]) \in Nat /\ Len(f[i]) \in Nat
    BY <1>12, <1>14
  <2>7. \A p \in 1 .. Len(f[i]) : f[j][p] = f[i][p]
    BY <1>6, <2>2
  <2>14. Len(f[j]) >= Len(f[i])
    BY <1>6, <2>2
  <2>8. \A p \in 1 .. Len(f[i]) : p \in 1 .. Len(f[j])
    BY <2>6, <2>14
  <2>11. Len(f[k]) >= Len(f[i])
    <3> DEFINE x == Len(f[k])
               y == Len(f[j])
               z == Len(ss[k])
               w == Len(f[i])
    <3>1. x \in Nat /\ y \in Nat /\ z \in Nat /\ w \in Nat /\ x = y + z /\ y >= w
      BY <2>6, <2>13, <2>14
    <3> HIDE DEF x, y, z, w
    <3>2. x >= w
      BY <3>1
    <3> QED
      BY <3>2 DEF x, w
  <2>12. \A p \in 1 .. Len(f[i]) : f[k][p] = f[i][p]
    BY <2>5, <2>7, <2>8
  <2> QED
    BY <2>1, <2>11, <2>12
<1> HIDE DEF S
<1>7. Nat \subseteq S
  BY <1>5, <1>6, EveryNumber
<1>8. PICK d \in Nat : i + d = Len(ss)
  <2>1. Len(ss) - i \in Nat /\ i + (Len(ss) - i) = Len(ss)
    BY <1>2
  <2> QED
    BY <2>1
<1>9. /\ Len(FlattenSeq(ss)) >= Len(f[i])
      /\ \A p \in 1 .. Len(f[i]) : FlattenSeq(ss)[p] = f[i][p]
  <2>1. d \in S /\ i + d \in 1 .. Len(ss)
    BY <1>2, <1>7, <1>8
  <2> QED
    BY <1>1, <1>2, <1>8, <2>1 DEF S, IsJoin
<1>10. FlattenSeq(ss) \in Seq(U)
  BY <1>1, <1>2, <1>13 DEF IsJoin
<1>11. \A k \in 1 .. Len(ss[i]) : before + k \in 1 .. Len(f[i])
  BY <1>2, <1>3, <1>4, <1>12
<1> QED
  BY <1>4, <1>9, <1>10, <1>11 DEF before, Holds

-----------------------------------------------------------------------------
LEMMA PrefixOf ==
  ASSUME NEW U, NEW s \in Seq(U), NEW m \in Nat, m <= Len(s)
  PROVE  /\ SubSeq(s, 1, m) \in Seq(U) /\ Len(SubSeq(s, 1, m)) = m
         /\ \A i \in 1 .. m : SubSeq(s, 1, m)[i] = s[i]
<1>1. \A i \in 1 .. m : i \in 1 .. Len(s)
  OBVIOUS
<1> QED
  BY <1>1

\* t holds what s holds behind the first o elements, up to m.
IsSlice(t, s, o, m) == \A i \in 1 .. m - o : t[i] = s[o + i]

LEMMA SliceOf ==
  ASSUME NEW U, NEW s \in Seq(U), NEW o \in Nat, NEW m \in Nat, m <= Len(s)
  PROVE  /\ SubSeq(s, o + 1, m) \in Seq(U)
         /\ o <= m => Len(SubSeq(s, o + 1, m)) = m - o
         /\ IsSlice(SubSeq(s, o + 1, m), s, o, m)
<1>1. SubSeq(s, o + 1, m) = [i \in 1 .. m - o |-> s[o + i]]
  OBVIOUS
<1>2. \A i \in 1 .. m - o : s[o + i] \in U
  OBVIOUS
<1>5. IsSlice(SubSeq(s, o + 1, m), s, o, m)
  BY <1>1 DEF IsSlice
<1>3. CASE o <= m
  <2>1. m - o \in Nat
    BY <1>3
  <2> QED
    BY <1>1, <1>2, <1>5, <2>1
<1>4. CASE m < o
  <2>1. 1 .. m - o = {}
    BY <1>4
  <2>2. SubSeq(s, o + 1, m) = <<>>
    BY <1>1, <2>1
  <2> QED
    BY <1>4, <1>5, <2>1, <2>2
<1> QED
  BY <1>3, <1>4

-----------------------------------------------------------------------------
\* The parts of an image and of an inode.
LEMMA ImageFacts ==
  ASSUME image \in Images
  PROVE  /\ image.root \in Ref /\ image.inodes \in [Ref -> Inode]
         /\ image.blockSize \in Nat
         /\ image.inodeTable \in Seq(Nat) /\ image.dirTable \in Seq(Nat)
         /\ image.fragments \in Seq(Seq(Fragment))
BY ImageAssumption

LEMMA InodeFacts ==
  ASSUME NEW n \in Inode
  PROVE  /\ n.kind \in Kind /\ n.at \in (Nat \ {0}) \X Nat /\ n.size \in Nat
         /\ n.listAt \in (Nat \ {0}) \X Nat /\ n.listing \in Seq(DirEntry)
         /\ n.blocks \in Seq(Block) /\ n.frag \in Nat /\ n.fragOffset \in Nat
BY DEF Inode

LEMMA BlockListFacts ==
  ASSUME NEW n, IsFile(n)
  PROVE  BlockList[n.kind] \in Nat
<1>1. CASE n.kind = "file"
  BY <1>1 DEF BlockList
<1>2. CASE n.kind = "xfile"
  BY <1>2 DEF BlockList
<1> QED
  BY <1>1, <1>2 DEF IsFile

\* A file, of an image whose blocks have a size.
AFile(n) == image \in Images /\ image.blockSize # 0 /\ n \in Inode /\ IsFile(n)

LEMMA BlockCountFacts ==
  ASSUME NEW n, AFile(n)
  PROVE  /\ image.blockSize \in Nat \ {0}
         /\ BlockCount(n) \in Nat
         /\ InBlocks(n) \in Nat /\ InBlocks(n) <= n.size
         /\ n.frag # 0 => /\ InBlocks(n) = BlockCount(n) * image.blockSize
                          /\ n.size = InBlocks(n) + (n.size % image.blockSize)
         /\ n.frag = 0 => InBlocks(n) = n.size
<1> DEFINE b == image.blockSize
<1>1. b \in Nat \ {0} /\ n.size \in Nat
  BY ImageFacts, InodeFacts DEF AFile
<1> HIDE DEF b
<1>2. CASE n.frag = 0
  <2>1. n.size + b - 1 \in Nat
    BY <1>1
  <2>2. (n.size + b - 1) \div b \in Nat
    BY <1>1, <2>1, Division
  <2> QED
    BY <1>1, <1>2, <2>2 DEF BlockCount, InBlocks, b
<1>3. CASE n.frag # 0
  <2>1. /\ n.size \div b \in Nat /\ n.size % b \in Nat
        /\ n.size = ((n.size \div b) * b) + (n.size % b)
    BY <1>1, Division
  <2>2. (n.size \div b) * b \in Nat
    BY <1>1, <2>1, Products
  <2>3. (n.size \div b) * b <= n.size
    BY <1>1, <2>1, <2>2
  <2> QED
    BY <1>1, <1>3, <2>1, <2>2, <2>3 DEF BlockCount, InBlocks, b
<1> QED
  BY <1>2, <1>3

LEMMA BlocksFacts ==
  ASSUME NEW n, AFile(n)
  PROVE  /\ Blocks(n) \in Seq(Block) /\ Len(Blocks(n)) \in Nat
         /\ Len(Blocks(n)) <= BlockCount(n)
         /\ \A i \in 1 .. Len(Blocks(n)) : Blocks(n)[i] = n.blocks[i] /\ n.blocks[i] \in Block
<1> DEFINE listAt == <<n.at[1], n.at[2] + BlockList[n.kind]>>
           bytes == ReadMeta(image.inodeTable, listAt, 4 * BlockCount(n))
           there == bytes \div 4
           m == Min({BlockCount(n), there, Len(n.blocks)})
<1>1. /\ n.at \in (Nat \ {0}) \X Nat /\ n.blocks \in Seq(Block) /\ BlockList[n.kind] \in Nat
      /\ image.inodeTable \in Seq(Nat) /\ BlockCount(n) \in Nat
  BY ImageFacts, InodeFacts, BlockListFacts, BlockCountFacts DEF AFile
<1>2. n.at[1] \in Nat \ {0} /\ n.at[2] + BlockList[n.kind] \in Nat
  BY <1>1
<1>3. listAt \in (Nat \ {0}) \X Nat
  BY <1>2
<1> HIDE DEF listAt
<1>4. bytes \in Nat
  <2>1. 4 * BlockCount(n) \in Nat
    BY <1>1
  <2> QED
    BY <1>1, <1>3, <2>1, ReadMetaFacts
<1> HIDE DEF bytes
<1>5. there \in Nat
  BY <1>4
<1>6. Blocks(n) = SubSeq(n.blocks, 1, m)
  BY DEF Blocks, bytes, listAt
<1> HIDE DEF there
<1>7. Len(n.blocks) \in Nat
  BY <1>1
<1>8. m \in Nat /\ m <= BlockCount(n) /\ m <= Len(n.blocks)
  BY <1>1, <1>5, <1>7, MinimumOfThree
<1> HIDE DEF m
<1>9. /\ SubSeq(n.blocks, 1, m) \in Seq(Block) /\ Len(SubSeq(n.blocks, 1, m)) = m
      /\ \A i \in 1 .. m : SubSeq(n.blocks, 1, m)[i] = n.blocks[i]
  BY <1>1, <1>8, PrefixOf
<1>10. \A i \in 1 .. m : n.blocks[i] \in Block
  BY <1>1, <1>7, <1>8
<1> QED
  BY <1>6, <1>8, <1>9, <1>10

LEMMA DecodedFacts ==
  ASSUME NEW d \in Block, image.blockSize \in Nat
  PROVE  /\ Decoded(d) \in Seq(Nat) /\ Len(Decoded(d)) \in Nat
         /\ d.hole => /\ Len(Decoded(d)) = image.blockSize
                      /\ \A i \in 1 .. image.blockSize : Decoded(d)[i] = 0
         /\ ~d.hole /\ d.bytes # NoBytes => Decoded(d) = d.bytes
<1>1. d.hole \in BOOLEAN /\ d.bytes \in Seq(Nat) \cup {NoBytes}
  BY DEF Block
<1>2. CASE d.hole
  <2>1. Decoded(d) = [i \in 1 .. image.blockSize |-> 0]
    BY <1>2 DEF Decoded
  <2> QED
    BY <1>2, <2>1
<1>3. CASE ~d.hole /\ d.bytes = NoBytes
  <2>1. Decoded(d) = <<>>
    BY <1>3 DEF Decoded
  <2> QED
    BY <1>3, <2>1
<1>4. CASE ~d.hole /\ d.bytes # NoBytes
  <2>1. Decoded(d) = d.bytes /\ d.bytes \in Seq(Nat)
    BY <1>1, <1>4 DEF Decoded
  <2> QED
    BY <1>4, <2>1
<1> QED
  BY <1>1, <1>2, <1>3, <1>4

\* What the blocks of a file give, one by one and joined.
Parts(n) == [i \in DOMAIN Blocks(n) |-> Decoded(Blocks(n)[i])]

Joint(n) == FlattenSeq(Parts(n))

LEMMA PartsFacts ==
  ASSUME NEW n, AFile(n)
  PROVE  /\ Parts(n) \in Seq(Seq(Nat)) /\ Len(Parts(n)) = Len(Blocks(n))
         /\ \A i \in 1 .. Len(Parts(n)) :
              Parts(n)[i] = Decoded(n.blocks[i]) /\ n.blocks[i] \in Block
         /\ Joint(n) \in Seq(Nat)
<1>1. /\ Blocks(n) \in Seq(Block) /\ Len(Blocks(n)) \in Nat
      /\ \A i \in 1 .. Len(Blocks(n)) : Blocks(n)[i] = n.blocks[i] /\ n.blocks[i] \in Block
  BY BlocksFacts
<1>2. DOMAIN Blocks(n) = 1 .. Len(Blocks(n))
  BY <1>1
<1>3. \A i \in DOMAIN Blocks(n) : Decoded(Blocks(n)[i]) \in Seq(Nat)
  BY <1>1, <1>2, DecodedFacts, BlockCountFacts
<1>4. Parts(n) \in Seq(Seq(Nat)) /\ Len(Parts(n)) = Len(Blocks(n))
  BY <1>1, <1>2, <1>3 DEF Parts
<1>5. \A i \in 1 .. Len(Parts(n)) :
        Parts(n)[i] = Decoded(n.blocks[i]) /\ n.blocks[i] \in Block
  BY <1>1, <1>2, <1>4 DEF Parts
<1>6. Joint(n) \in Seq(Nat)
  <2>1. PICK ss : ss = Parts(n) /\ ss \in Seq(Seq(Nat)) /\ Len(ss) \in Nat
    BY <1>1, <1>4
  <2>2. CASE Len(ss) = 0
    <3>1. FlattenSeq(ss) = <<>>
      BY <2>1, <2>2, Joined
    <3> QED
      BY <2>1, <3>1 DEF Joint
  <2>3. CASE Len(ss) # 0
    <3>1. 1 \in 1 .. Len(ss) /\ \A j \in 1 .. 1 - 1 : Len(ss[j]) = 0
      BY <2>1, <2>3
    <3>2. FlattenSeq(ss) \in Seq(Nat)
      BY <2>1, <3>1, PlaceInJoined
    <3> QED
      BY <2>1, <3>2 DEF Joint
  <2> QED
    BY <2>2, <2>3
<1> QED
  BY <1>4, <1>5, <1>6

\* A good block is a part of its file; it has the size of a block, or is the
\* last one and has enough.
LEMMA GoodPart ==
  ASSUME NEW n, NEW d \in Nat \ {0}, AFile(n), Good(n, d)
  PROVE  LET rest == InBlocks(n) - (d - 1) * image.blockSize
         IN  /\ d \in 1 .. Len(Parts(n))
             /\ \/ Len(Parts(n)[d]) = image.blockSize
                \/ rest < image.blockSize /\ Len(Parts(n)[d]) >= rest
             /\ n.blocks[d].hole => \A i \in 1 .. image.blockSize : Parts(n)[d][i] = 0
             /\ n.blocks[d].hole => Len(Parts(n)[d]) = image.blockSize
             /\ ~n.blocks[d].hole => Parts(n)[d] = n.blocks[d].bytes
<1> DEFINE rest == InBlocks(n) - (d - 1) * image.blockSize
<1>1. /\ d <= Len(Blocks(n))
      /\ \/ n.blocks[d].hole
         \/ /\ n.blocks[d].bytes # NoBytes
            /\ \/ Len(n.blocks[d].bytes) = image.blockSize
               \/ rest < image.blockSize /\ Len(n.blocks[d].bytes) >= rest
  BY DEF Good
<1> HIDE DEF rest
<1>2. Len(Parts(n)) \in Nat /\ Len(Parts(n)) = Len(Blocks(n))
  BY PartsFacts, BlocksFacts
<1>3. d \in 1 .. Len(Parts(n))
  BY <1>1, <1>2
<1>4. Parts(n)[d] = Decoded(n.blocks[d]) /\ n.blocks[d] \in Block
  BY <1>3, PartsFacts
<1>5. n.blocks[d].hole \in BOOLEAN
  BY <1>4 DEF Block
<1>6. image.blockSize \in Nat
  BY BlockCountFacts
<1>7. CASE n.blocks[d].hole
  <2>1. /\ Len(Decoded(n.blocks[d])) = image.blockSize
        /\ \A i \in 1 .. image.blockSize : Decoded(n.blocks[d])[i] = 0
    BY <1>4, <1>6, <1>7, DecodedFacts
  <2> QED
    BY <1>3, <1>4, <1>7, <2>1
<1>8. CASE ~n.blocks[d].hole
  <2>1. Decoded(n.blocks[d]) = n.blocks[d].bytes
    BY <1>1, <1>4, <1>6, <1>8, DecodedFacts
  <2> QED
    BY <1>1, <1>3, <1>4, <1>8, <2>1 DEF rest
<1> QED
  BY <1>5, <1>7, <1>8

\* A byte in front of the first bad block lies in the joint where the file has it.
LEMMA IntactByte ==
  ASSUME NEW n, NEW k \in 1 .. InBlocks(n), AFile(n),
         \A d \in 1 .. ((k - 1) \div image.blockSize) + 1 : Good(n, d)
  PROVE  k \in 1 .. Len(Joint(n)) /\ Joint(n)[k] = ByteAt(n, k)
<1> DEFINE b == image.blockSize
           q == (k - 1) \div b
           r == (k - 1) % b
<1>1. b \in Nat \ {0} /\ InBlocks(n) \in Nat /\ k \in Nat \ {0} /\ k <= InBlocks(n)
  BY BlockCountFacts
<1>2. q \in Nat /\ r + 1 \in 1 .. b /\ k = q * b + (r + 1) /\ q * b \in Nat /\ r \in Nat
  <2>1. k - 1 \in Nat
    BY <1>1
  <2> HIDE DEF b
  <2> QED
    BY <1>1, <2>1, PlaceOf, Division
<1>3. \A d \in 1 .. q + 1 : Good(n, d)
  OBVIOUS
<1>4. ByteAt(n, k) = IF n.blocks[q + 1].hole THEN 0 ELSE n.blocks[q + 1].bytes[r + 1]
  BY <1>1 DEF ByteAt
<1>5. /\ Parts(n) \in Seq(Seq(Nat)) /\ Len(Parts(n)) \in Nat
      /\ \A i \in 1 .. Len(Parts(n)) : Len(Parts(n)[i]) \in Nat
  BY PartsFacts, BlocksFacts
<1>6. b = image.blockSize
  OBVIOUS
<1> HIDE DEF b, q, r
<1>7. ASSUME NEW d \in 1 .. q
      PROVE  Len(Parts(n)[d]) = b
  <2>1. d \in Nat \ {0} /\ d - 1 \in Nat /\ d - 1 < q /\ Good(n, d)
    BY <1>2, <1>3
  <2>2. (d - 1) * b \in Nat /\ (d - 1) * b + b <= q * b
    BY <1>1, <1>2, <2>1, Products
  <2>3. ~(InBlocks(n) - (d - 1) * b < b)
    <3> DEFINE x == (d - 1) * b
               y == q * b
    <3>1. x \in Nat /\ y \in Nat /\ x + b <= y /\ k = y + (r + 1)
      BY <1>2, <2>2
    <3> HIDE DEF x, y
    <3>2. ~(InBlocks(n) - x < b)
      BY <1>1, <1>2, <3>1
    <3> QED
      BY <3>2 DEF x
  <2> QED
    BY <1>6, <2>1, <2>3, GoodPart
<1>15. PICK j \in Nat \ {0} : j = q + 1
  BY <1>2
<1>8. j - 1 = q /\ Good(n, j)
  BY <1>2, <1>3, <1>15
<1>9. /\ j \in 1 .. Len(Parts(n))
      /\ Len(Parts(n)[j]) = b \/ Len(Parts(n)[j]) >= InBlocks(n) - q * b
      /\ n.blocks[j].hole => \A i \in 1 .. b : Parts(n)[j][i] = 0
      /\ ~n.blocks[j].hole => Parts(n)[j] = n.blocks[j].bytes
  BY <1>6, <1>8, GoodPart
<1>10. r + 1 \in 1 .. Len(Parts(n)[j])
  <2> DEFINE y == q * b
             l == Len(Parts(n)[j])
  <2>1. y \in Nat /\ l \in Nat /\ (l = b \/ l >= InBlocks(n) - y) /\ k = y + (r + 1)
    BY <1>2, <1>5, <1>9
  <2> HIDE DEF y, l
  <2>2. r + 1 \in 1 .. l
    BY <1>1, <1>2, <2>1
  <2> QED
    BY <2>2 DEF l
<1>11. /\ Len(Joint(n)) >= q * b + Len(Parts(n)[j])
       /\ Holds(Joint(n), q * b, Parts(n)[j])
       /\ Joint(n) \in Seq(Nat)
  <2>1. PICK ss : ss = Parts(n)
    OBVIOUS
  <2>3. ss \in Seq(Seq(Nat)) /\ j \in 1 .. Len(ss) /\ b \in Nat /\ j - 1 = q
    BY <1>1, <1>5, <1>8, <1>9, <2>1
  <2>4. \A d \in 1 .. j - 1 : Len(ss[d]) = b
    BY <1>7, <1>8, <2>1
  <2>5. /\ FlattenSeq(ss) \in Seq(Nat)
        /\ Len(FlattenSeq(ss)) >= ((j - 1) * b) + Len(ss[j])
        /\ Holds(FlattenSeq(ss), (j - 1) * b, ss[j])
    <3>1. b \in Nat /\ j \in 1 .. Len(ss) /\ ss \in Seq(Seq(Nat))
      BY <2>3
    <3>2. FlattenSeq(ss) \in Seq(Nat)
      BY <3>1, <2>4, PlaceInJoined
    <3>3. Len(FlattenSeq(ss)) >= ((j - 1) * b) + Len(ss[j])
      BY <3>1, <2>4, PlaceInJoined
    <3>4. Holds(FlattenSeq(ss), (j - 1) * b, ss[j])
      BY <3>1, <2>4, PlaceInJoined
    <3> QED
      BY <3>2, <3>3, <3>4
  <2> QED
    BY <2>1, <2>3, <2>5 DEF Joint
<1>12. k \in 1 .. Len(Joint(n))
  <2> DEFINE y == q * b
             l == Len(Parts(n)[j])
             t == Len(Joint(n))
  <2>1. /\ y \in Nat /\ l \in Nat /\ t \in Nat /\ t >= y + l
        /\ r + 1 \in 1 .. l /\ k = y + (r + 1)
    BY <1>2, <1>5, <1>9, <1>10, <1>11
  <2> HIDE DEF y, l, t
  <2>2. k \in 1 .. t
    BY <1>1, <1>2, <2>1
  <2> QED
    BY <2>2 DEF t
<1>13. Joint(n)[k] = Parts(n)[j][r + 1]
  BY <1>2, <1>10, <1>11 DEF Holds
<1>16. ByteAt(n, k) = IF n.blocks[j].hole THEN 0 ELSE n.blocks[j].bytes[r + 1]
  BY <1>4, <1>15
<1>14. n.blocks[j].hole \in BOOLEAN
  <2>1. n.blocks[j] \in Block
    BY <1>9, PartsFacts
  <2> QED
    BY <2>1 DEF Block
<1> QED
  BY <1>2, <1>16, <1>9, <1>12, <1>13, <1>14


-----------------------------------------------------------------------------
\* Quotients are compared by their products.
LEMMA QuotientBelow ==
  ASSUME NEW a \in Nat, NEW b \in Nat \ {0}, NEW c \in Nat, a < c * b
  PROVE  (a \div b) + 1 <= c
<1> DEFINE q == a \div b
           r == a % b
<1>1. q \in Nat /\ r \in Nat /\ a = (q * b) + r
  BY Division
<1>2. (q * b) \in Nat
  BY <1>1, Products
<1> HIDE DEF q, r
<1>3. ASSUME c <= q
      PROVE  FALSE
  <2>1. c * b <= q * b
    BY <1>1, <1>3, Products
  <2>2. c * b \in Nat
    OBVIOUS
  <2> QED
    BY <1>1, <1>2, <2>1, <2>2
<1> QED
  BY <1>1, <1>3 DEF q

LEMMA RemainderBehind ==
  ASSUME NEW a \in Nat, NEW b \in Nat \ {0}, NEW c \in Nat,
         c * b <= a, a < (c * b) + b
  PROVE  (c * b) + (a % b) = a
<1> DEFINE q == a \div b
           r == a % b
<1>1. q \in Nat /\ r \in Nat /\ r < b /\ a = (q * b) + r
  BY Division
<1>2. (q * b) \in Nat /\ (c * b) \in Nat
  BY <1>1, Products
<1> HIDE DEF q, r
<1>3. ASSUME q < c
      PROVE  FALSE
  <2>1. (q * b) + b <= c * b
    BY <1>1, <1>3, Products
  <2> QED
    BY <1>1, <1>2, <2>1
<1>4. ASSUME c < q
      PROVE  FALSE
  <2>1. (c * b) + b <= q * b
    BY <1>1, <1>4, Products
  <2> QED
    BY <1>1, <1>2, <2>1
<1>5. q = c
  BY <1>1, <1>3, <1>4
<1> QED
  BY <1>1, <1>5 DEF r

-----------------------------------------------------------------------------
Table == FlattenSeq(image.fragments)

\* What the cache holds under a start, the table has there, decompressed.
CacheIsTrue ==
  \A s \in DOMAIN cache : \E j \in DOMAIN Table :
    Table[j].start = s /\ Table[j].bytes # NoBytes /\ cache[s] = Table[j].bytes

LEMMA TableFacts ==
  ASSUME image \in Images
  PROVE  /\ Table \in Seq(Fragment)
         /\ \A j \in DOMAIN Table :
              Table[j].start \in Nat /\ Table[j].bytes \in Seq(Nat) \cup {NoBytes}
<1>1. PICK ss : ss = image.fragments /\ ss \in Seq(Seq(Fragment))
  BY ImageFacts
<1>2. Table \in Seq(Fragment)
  <2>1. CASE Len(ss) = 0
    <3>1. FlattenSeq(ss) = <<>>
      BY <1>1, <2>1, Joined
    <3> QED
      BY <1>1, <3>1 DEF Table
  <2>2. CASE Len(ss) # 0
    <3>1. 1 \in 1 .. Len(ss) /\ \A j \in 1 .. 1 - 1 : Len(ss[j]) = 0
      BY <1>1, <2>2
    <3>2. FlattenSeq(ss) \in Seq(Fragment)
      BY <1>1, <3>1, PlaceInJoined
    <3> QED
      BY <1>1, <3>2 DEF Table
  <2> QED
    BY <2>1, <2>2
<1>3. \A j \in DOMAIN Table : Table[j] \in Fragment
  BY <1>2
<1> QED
  BY <1>2, <1>3 DEF Fragment

\* A fragment's bytes, if there are any, are those of a fragment of the table
\* with the same start.
LEMMA FragmentFacts ==
  ASSUME NEW n, image \in Images, CacheIsTrue, FragmentBytes(n) # NoBytes
  PROVE  /\ n.frag \in DOMAIN Table
         /\ FragmentBytes(n) \in Seq(Nat)
         /\ \E j \in DOMAIN Table : /\ Table[j].start = FragmentOf(n).start
                                    /\ Table[j].bytes # NoBytes
                                    /\ FragmentBytes(n) = Table[j].bytes
<1>1. n.frag \in DOMAIN Table
  BY DEF FragmentBytes, HasFragment, Table
<1>2. FragmentOf(n) = Table[n.frag]
  BY DEF FragmentOf, Table
<1>3. FragmentBytes(n) = IF FragmentOf(n).start \in DOMAIN cache
                         THEN cache[FragmentOf(n).start] ELSE FragmentOf(n).bytes
  BY DEF FragmentBytes
<1>4. \E j \in DOMAIN Table : /\ Table[j].start = FragmentOf(n).start
                              /\ Table[j].bytes # NoBytes
                              /\ FragmentBytes(n) = Table[j].bytes
  <2>1. CASE FragmentOf(n).start \in DOMAIN cache
    BY <1>3, <2>1 DEF CacheIsTrue
  <2>2. CASE FragmentOf(n).start \notin DOMAIN cache
    BY <1>1, <1>2, <1>3, <2>2
  <2> QED
    BY <2>1, <2>2
<1>5. FragmentBytes(n) \in Seq(Nat)
  BY <1>4, TableFacts
<1> QED
  BY <1>1, <1>4, <1>5

-----------------------------------------------------------------------------
\* What file_data adds to the blocks, from the fragment.
Want(n) == n.size - Min({Len(Joint(n)), n.size})

FromFragment(n) ==
  SubSeq(FragmentBytes(n), n.fragOffset + 1,
         Min({n.fragOffset + Want(n), Len(FragmentBytes(n))}))

FragmentTail(n) == IF n.frag = 0 \/ FragmentBytes(n) = NoBytes THEN <<>> ELSE FromFragment(n)

LEMMA TailFacts ==
  ASSUME NEW n, AFile(n), CacheIsTrue
  PROVE  /\ FragmentTail(n) \in Seq(Nat)
         /\ Want(n) \in Nat
         /\ n.frag # 0 /\ FragmentBytes(n) # NoBytes
              /\ n.fragOffset + Want(n) <= Len(FragmentBytes(n))
            => /\ Len(FragmentTail(n)) = Want(n)
               /\ \A k \in 1 .. Want(n) :
                    FragmentTail(n)[k] = FragmentBytes(n)[n.fragOffset + k]
<1>1. /\ n.size \in Nat /\ n.fragOffset \in Nat /\ image \in Images
      /\ Joint(n) \in Seq(Nat) /\ Len(Joint(n)) \in Nat
  BY InodeFacts, PartsFacts DEF AFile
<1>2. Want(n) \in Nat
  <2>1. Min({Len(Joint(n)), n.size}) \in Nat /\ Min({Len(Joint(n)), n.size}) <= n.size
    BY <1>1, Minimum
  <2> QED
    BY <1>1, <2>1 DEF Want
<1>3. CASE n.frag = 0 \/ FragmentBytes(n) = NoBytes
  <2>1. FragmentTail(n) = <<>>
    BY <1>3 DEF FragmentTail
  <2>2. <<>> \in Seq(Nat)
    OBVIOUS
  <2> QED
    BY <1>2, <1>3, <2>1, <2>2
<1>4. CASE n.frag # 0 /\ FragmentBytes(n) # NoBytes
  <2>1. PICK f : f = FragmentBytes(n) /\ f \in Seq(Nat) /\ Len(f) \in Nat
    BY <1>1, <1>4, FragmentFacts
  <2>2. PICK o \in Nat : o = n.fragOffset
    BY <1>1
  <2>3. PICK e \in Nat : e = o + Want(n)
    BY <1>2
  <2>4. PICK m \in Nat : m = Min({e, Len(f)}) /\ m <= Len(f) /\ (e <= Len(f) => m = e)
    BY <2>1, Minimum
  <2>5. FragmentTail(n) = SubSeq(f, o + 1, m)
    BY <1>4, <2>1, <2>2, <2>3, <2>4 DEF FragmentTail, FromFragment
  <2>6. /\ SubSeq(f, o + 1, m) \in Seq(Nat)
        /\ o <= m => Len(SubSeq(f, o + 1, m)) = m - o
        /\ IsSlice(SubSeq(f, o + 1, m), f, o, m)
    BY <2>1, <2>4, SliceOf
  <2>7. e <= Len(f) => o <= m /\ m - o = Want(n)
    BY <1>2, <2>3, <2>4
  <2> QED
    BY <1>2, <2>1, <2>2, <2>3, <2>5, <2>6, <2>7 DEF IsSlice
<1> QED
  BY <1>3, <1>4

LEMMA DataFacts ==
  ASSUME NEW n, AFile(n), CacheIsTrue
  PROVE  LET l == Len(Joint(n))
             t == Len(FragmentTail(n))
         IN  /\ FileData(n) \in Seq(Nat)
             /\ Len(FileData(n)) = Min({n.size, l + t})
             /\ \A k \in 1 .. Len(FileData(n)) :
                  FileData(n)[k] = (Joint(n) \o FragmentTail(n))[k]
             /\ \A k \in 1 .. l : (Joint(n) \o FragmentTail(n))[k] = Joint(n)[k]
             /\ \A k \in 1 .. t :
                  (Joint(n) \o FragmentTail(n))[l + k] = FragmentTail(n)[k]
             /\ n.size \in Nat /\ l \in Nat /\ t \in Nat
<1>1. PICK s : s = Joint(n) /\ s \in Seq(Nat) /\ Len(s) \in Nat
  BY PartsFacts
<1>2. PICK u : u = FragmentTail(n) /\ u \in Seq(Nat) /\ Len(u) \in Nat
  BY TailFacts
<1>3. n.size \in Nat
  BY InodeFacts DEF AFile
<1>4. FileData(n) = SubSeq(s \o u, 1, Min({n.size, Len(s \o u)}))
  BY <1>1, <1>2 DEF FileData, FragmentTail, FromFragment, Want, Joint, Parts
<1>5. /\ s \o u \in Seq(Nat) /\ Len(s \o u) = Len(s) + Len(u)
      /\ \A k \in 1 .. Len(s) : (s \o u)[k] = s[k]
      /\ \A k \in 1 .. Len(u) : (s \o u)[Len(s) + k] = u[k]
  BY <1>1, <1>2, Concatenation
<1>10. Len(s) + Len(u) \in Nat
  BY <1>1, <1>2
<1>11. Len(s \o u) \in Nat
  BY <1>5, <1>10
<1>6. PICK w : w = s \o u /\ w \in Seq(Nat) /\ Len(w) = Len(s) + Len(u) /\ Len(w) \in Nat
  BY <1>5, <1>11
<1>12. PICK l \in Nat : l = Len(w)
  BY <1>6
<1>7. PICK m \in Nat : m = Min({n.size, Len(w)}) /\ m <= Len(w)
  BY <1>3, <1>12, Minimum
<1>8. /\ SubSeq(w, 1, m) \in Seq(Nat) /\ Len(SubSeq(w, 1, m)) = m
      /\ \A i \in 1 .. m : SubSeq(w, 1, m)[i] = w[i]
  BY <1>6, <1>7, PrefixOf
<1>9. FileData(n) = SubSeq(w, 1, m)
  BY <1>4, <1>6, <1>7
<1> QED
  BY <1>1, <1>2, <1>3, <1>5, <1>6, <1>7, <1>8, <1>9

Intact(n) == {k \in 1 .. InBlocks(n) :
                \A d \in 1 .. ((k - 1) \div image.blockSize) + 1 : Good(n, d)}

\* What file_data returns begins with the bytes in front of the first bad block.
LEMMA IntactIsReturned ==
  ASSUME NEW n, AFile(n), CacheIsTrue
  PROVE  /\ FileData(n) \in Seq(Nat) /\ Len(FileData(n)) <= n.size
         /\ \A k \in Intact(n) :
              k \in 1 .. Len(FileData(n)) /\ FileData(n)[k] = ByteAt(n, k)
<1>1. FileData(n) \in Seq(Nat) /\ n.size \in Nat
  BY DataFacts
<1>2. Len(FileData(n)) <= n.size
  <2>1. PICK z \in Nat : z = Len(Joint(n)) + Len(FragmentTail(n))
    BY DataFacts
  <2>2. Len(FileData(n)) = Min({n.size, z})
    BY <2>1, DataFacts
  <2> QED
    BY <1>1, <2>2, Minimum
<1>3. ASSUME NEW k \in Intact(n)
      PROVE  k \in 1 .. Len(FileData(n)) /\ FileData(n)[k] = ByteAt(n, k)
  <2>1. k \in 1 .. Len(Joint(n)) /\ Joint(n)[k] = ByteAt(n, k)
    BY IntactByte DEF Intact
  <2>2. k <= n.size
    <3>1. k \in 1 .. InBlocks(n)
      BY DEF Intact
    <3>2. InBlocks(n) \in Nat /\ InBlocks(n) <= n.size
      BY BlockCountFacts
    <3> QED
      BY <1>1, <3>1, <3>2
  <2>3. PICK z \in Nat : z = Len(Joint(n)) + Len(FragmentTail(n)) /\ k <= z
    BY <2>1, DataFacts
  <2>4. Len(FileData(n)) = Min({n.size, z})
    BY <2>3, DataFacts
  <2>5. Min({n.size, z}) = n.size \/ Min({n.size, z}) = z
    BY <1>1, Minimum
  <2>6. k \in 1 .. Len(FileData(n))
    BY <1>1, <2>1, <2>2, <2>3, <2>4, <2>5
  <2> QED
    BY <2>1, <2>6, DataFacts
<1> QED
  BY <1>1, <1>2, <1>3

\* All that is undamaged, without a fragment or with one.
LEMMA AllIntact ==
  ASSUME NEW n, AFile(n), \A d \in 1 .. BlockCount(n) : Good(n, d)
  PROVE  Intact(n) = 1 .. InBlocks(n)
<1> DEFINE b == image.blockSize
           c == BlockCount(n)
<1>1. b \in Nat \ {0} /\ c \in Nat /\ InBlocks(n) \in Nat
  BY BlockCountFacts
<1>2. InBlocks(n) <= c * b
  <2>1. CASE n.frag # 0
    <3>1. InBlocks(n) = c * b
      BY <2>1, BlockCountFacts
    <3> QED
      BY <1>1, <3>1
  <2>2. CASE n.frag = 0
    <3>1. InBlocks(n) = n.size /\ n.size \in Nat
      BY <2>2, InodeFacts, BlockCountFacts DEF AFile
    <3>2. c = (n.size + b - 1) \div b
      BY <2>2 DEF BlockCount
    <3> HIDE DEF b, c
    <3>3. PICK a \in Nat : a = n.size + b - 1
      BY <1>1, <3>1
    <3>4. a = (c * b) + (a % b) /\ (a % b) < b /\ a % b \in Nat
      BY <1>1, <3>2, <3>3, Division
    <3>5. (c * b) \in Nat
      BY <1>1, Products
    <3> QED
      BY <1>1, <3>1, <3>3, <3>4, <3>5
  <2> QED
    BY <2>1, <2>2
<1>3. b = image.blockSize /\ c = BlockCount(n)
  OBVIOUS
<1> HIDE DEF b, c
<1>4. ASSUME NEW k \in 1 .. InBlocks(n)
      PROVE  ((k - 1) \div b) + 1 <= c
  <2>1. (c * b) \in Nat
    BY <1>1, Products
  <2>2. k - 1 \in Nat /\ k - 1 < c * b
    BY <1>1, <1>2, <2>1
  <2> QED
    BY <1>1, <2>2, QuotientBelow
<1>5. ASSUME NEW k \in 1 .. InBlocks(n), NEW d \in 1 .. ((k - 1) \div b) + 1
      PROVE  Good(n, d)
  <2>1. k - 1 \in Nat
    BY <1>1
  <2>2. (k - 1) \div b \in Nat
    BY <1>1, <2>1, Division
  <2>3. d \in 1 .. c
    BY <1>1, <1>4, <2>2
  <2> QED
    BY <1>3, <2>3
<1> QED
  BY <1>3, <1>5 DEF Intact

\* A fragment that the table has once is the one that is used.
LEMMA FragmentIsExact ==
  ASSUME NEW n, AFile(n), CacheIsTrue, TableIsSound, HasFragment(n),
         FragmentOf(n).bytes # NoBytes
  PROVE  FragmentBytes(n) = FragmentOf(n).bytes /\ FragmentBytes(n) \in Seq(Nat)
<1>1. image \in Images
  BY DEF AFile
<1>2. n.frag \in DOMAIN Table /\ FragmentOf(n) = Table[n.frag]
  BY DEF HasFragment, FragmentOf, Table
<1>3. \A i, j \in DOMAIN Table : Table[i].start = Table[j].start => Table[i] = Table[j]
  BY DEF TableIsSound, Table
<1>4. FragmentBytes(n) = IF FragmentOf(n).start \in DOMAIN cache
                         THEN cache[FragmentOf(n).start] ELSE FragmentOf(n).bytes
  BY DEF FragmentBytes
<1>5. FragmentBytes(n) = FragmentOf(n).bytes
  <2>1. CASE FragmentOf(n).start \in DOMAIN cache
    <3>1. PICK j \in DOMAIN Table : /\ Table[j].start = FragmentOf(n).start
                                    /\ cache[FragmentOf(n).start] = Table[j].bytes
      BY <2>1 DEF CacheIsTrue
    <3>2. Table[j] = Table[n.frag]
      BY <1>2, <1>3, <3>1
    <3> QED
      BY <1>2, <1>4, <2>1, <3>1, <3>2
  <2>2. CASE FragmentOf(n).start \notin DOMAIN cache
    BY <1>4, <2>2
  <2> QED
    BY <2>1, <2>2
<1> QED
  BY <1>1, <1>5, FragmentFacts

\* The joint of good blocks in front of a fragment.
LEMMA FullJoint ==
  ASSUME NEW n, AFile(n), n.frag # 0, \A d \in 1 .. BlockCount(n) : Good(n, d)
  PROVE  Len(Joint(n)) = InBlocks(n)
<1> DEFINE b == image.blockSize
           c == BlockCount(n)
<1>1. b \in Nat \ {0} /\ c \in Nat /\ InBlocks(n) = c * b
  BY BlockCountFacts
<1>2. b = image.blockSize /\ c = BlockCount(n)
  OBVIOUS
<1> HIDE DEF b, c
<1>3. PICK ss : ss = Parts(n) /\ ss \in Seq(Seq(Nat)) /\ Len(ss) \in Nat /\ Len(ss) <= c
  BY <1>2, PartsFacts, BlocksFacts
<1>4. Len(ss) = c
  <2>1. CASE c = 0
    BY <1>3, <2>1
  <2>2. CASE c # 0
    <3>1. c \in Nat \ {0} /\ Good(n, c)
      BY <1>1, <1>2, <2>2
    <3>2. c \in 1 .. Len(ss)
      BY <1>3, <3>1, GoodPart
    <3> QED
      BY <1>1, <1>3, <3>2
  <2> QED
    BY <2>1, <2>2
<1>5. ASSUME NEW i \in 1 .. Len(ss)
      PROVE  Len(ss[i]) = b
  <2>1. i \in Nat \ {0} /\ i \in 1 .. c /\ i - 1 \in Nat /\ i - 1 < c
    BY <1>1, <1>4
  <2>2. (i - 1) * b + b <= c * b /\ (i - 1) * b \in Nat /\ (c * b) \in Nat
    BY <1>1, <2>1, Products
  <2>3. ~(InBlocks(n) - (i - 1) * b < b)
    <3> DEFINE x == (i - 1) * b
               y == c * b
    <3>1. x \in Nat /\ y \in Nat /\ x + b <= y /\ InBlocks(n) = y
      BY <1>1, <2>2
    <3> HIDE DEF x, y
    <3>2. ~(InBlocks(n) - x < b)
      BY <1>1, <3>1
    <3> QED
      BY <3>2 DEF x
  <2>4. Good(n, i)
    BY <1>2, <2>1
  <2> QED
    BY <1>2, <1>3, <2>1, <2>3, <2>4, GoodPart
<1>6. Len(FlattenSeq(ss)) = Len(ss) * b
  BY <1>1, <1>3, <1>5, JoinedLength
<1> QED
  BY <1>1, <1>3, <1>4, <1>6 DEF Joint

\* What file_data returns of a file that is not damaged is the file.
LEMMA WholeIsReturned ==
  ASSUME NEW n, AFile(n), CacheIsTrue, Undamaged(n)
  PROVE  /\ Len(FileData(n)) = n.size
         /\ \A k \in 1 .. n.size : FileData(n)[k] = ByteAt(n, k)
<1>1. n.size \in Nat /\ n.frag \in Nat /\ n.fragOffset \in Nat
  BY InodeFacts DEF AFile
<1>2. FileData(n) \in Seq(Nat) /\ Len(FileData(n)) \in Nat /\ Len(FileData(n)) <= n.size
  BY IntactIsReturned
<1>3. ASSUME NEW k \in 1 .. InBlocks(n)
      PROVE  k \in 1 .. Len(FileData(n)) /\ FileData(n)[k] = ByteAt(n, k)
  BY AllIntact, IntactIsReturned DEF Undamaged
<1>4. CASE n.frag = 0
  <2>1. InBlocks(n) = n.size
    BY <1>4, BlockCountFacts
  <2>2. Len(FileData(n)) = n.size
    <3>1. CASE n.size = 0
      BY <1>2, <3>1
    <3>2. CASE n.size # 0
      <4>1. n.size \in 1 .. InBlocks(n)
        BY <1>1, <2>1, <3>2
      <4> QED
        BY <1>1, <1>2, <1>3, <4>1
    <3> QED
      BY <3>1, <3>2
  <2> QED
    BY <1>3, <2>1, <2>2
<1>5. CASE n.frag # 0
  <2> DEFINE b == image.blockSize
             c == BlockCount(n)
  <2>1. /\ b \in Nat \ {0} /\ c \in Nat /\ InBlocks(n) = c * b /\ InBlocks(n) \in Nat
        /\ n.size = InBlocks(n) + (n.size % b)
    BY <1>5, BlockCountFacts
  <2>2. b = image.blockSize
    OBVIOUS
  <2> HIDE DEF b, c
  <2>3. n.size % b \in Nat /\ (n.size % b) < b
    BY <1>1, <2>1, Division
  <2>4. Len(Joint(n)) = InBlocks(n)
    BY <1>5, FullJoint DEF Undamaged
  <2>5. Want(n) = n.size % b
    <3>1. Min({InBlocks(n), n.size}) = InBlocks(n)
      BY <1>1, <2>1, <2>3, Minimum
    <3> QED
      BY <1>1, <2>1, <2>3, <2>4, <3>1 DEF Want
  <2>6. PICK f : f = FragmentBytes(n) /\ f = FragmentOf(n).bytes /\ f \in Seq(Nat) /\ f # NoBytes
    BY <1>5, FragmentIsExact DEF Undamaged
  <2>7. n.fragOffset + Want(n) <= Len(f)
    BY <1>5, <2>2, <2>5, <2>6 DEF Undamaged
  <2>8. /\ Len(FragmentTail(n)) = Want(n)
        /\ \A k \in 1 .. Want(n) : FragmentTail(n)[k] = f[n.fragOffset + k]
    BY <1>5, <2>6, <2>7, TailFacts
  <2>9. Len(FileData(n)) = n.size
    <3>1. Len(FileData(n)) = Min({n.size, n.size})
      BY <2>1, <2>4, <2>5, <2>8, DataFacts
    <3> QED
      BY <1>1, <3>1, Minimum
  <2>10. ASSUME NEW k \in 1 .. n.size, ~(k \in 1 .. InBlocks(n))
         PROVE  FileData(n)[k] = ByteAt(n, k)
    <3>1. PICK j \in 1 .. Want(n) : k = InBlocks(n) + j
      <4>1. k - InBlocks(n) \in 1 .. Want(n)
        BY <1>1, <2>1, <2>3, <2>5, <2>10
      <4> QED
        BY <2>1, <4>1
    <3>2. FileData(n)[k] = (Joint(n) \o FragmentTail(n))[k]
      BY <2>9, DataFacts
    <3>3. (Joint(n) \o FragmentTail(n))[k] = FragmentTail(n)[j]
      BY <2>4, <2>8, <3>1, DataFacts
    <3>4. FragmentTail(n)[j] = f[n.fragOffset + j]
      BY <2>8
    <3>5. ((k - 1) % b) + 1 = j
      <4>1. (c * b) \in Nat
        BY <2>1
      <4>2. PICK a \in Nat : a = k - 1 /\ c * b <= a /\ a < (c * b) + b
        <5>1. k - 1 \in Nat /\ c * b <= k - 1 /\ k - 1 < (c * b) + b
          BY <1>1, <2>1, <2>3, <2>5, <3>1, <4>1
        <5> QED
          BY <5>1
      <4>3. (c * b) + (a % b) = a /\ a % b \in Nat
        BY <2>1, <4>2, RemainderBehind, Division
      <4>4. (a % b) + 1 = j
        BY <1>1, <2>1, <2>3, <2>5, <3>1, <4>1, <4>2, <4>3
      <4> QED
        BY <4>2, <4>4
    <3>6. k > InBlocks(n)
      BY <1>1, <2>1, <2>10
    <3>7. ByteAt(n, k) = f[n.fragOffset + j]
      BY <2>2, <2>6, <3>5, <3>6 DEF ByteAt
    <3> QED
      BY <3>2, <3>3, <3>4, <3>7
  <2> QED
    BY <1>3, <2>9, <2>10
<1> QED
  BY <1>4, <1>5

-----------------------------------------------------------------------------
\* dir_entries: where an entry lies, from where the one before it lies.
HeaderOf(l, j) == IF l[j].opens THEN 12 ELSE 0

EntryStep(at, l, j) ==
  IF j = 1 THEN HeaderOf(l, j) ELSE at[j - 1] + 8 + Len(l[j - 1].name) + HeaderOf(l, j)

LEMMA EntryDefined ==
  ASSUME NEW l, NEW N \in Nat
  PROVE  \E f : f = [i \in 1 .. N |-> EntryStep(f, l, i)]
<1> DEFINE S == {n \in Nat : \E f : f = [i \in 1 .. n |-> EntryStep(f, l, i)]}
<1>1. 0 \in S
  <2> DEFINE f == [i \in 1 .. 0 |-> <<>>]
  <2>1. f = [i \in 1 .. 0 |-> EntryStep(f, l, i)]
    OBVIOUS
  <2> QED
    BY <2>1
<1>2. ASSUME NEW n \in Nat, n \in S
      PROVE  n + 1 \in S
  <2>1. PICK f : f = [i \in 1 .. n |-> EntryStep(f, l, i)]
    BY <1>2
  <2> DEFINE g == [i \in 1 .. n + 1 |-> IF i = n + 1 THEN EntryStep(f, l, i) ELSE f[i]]
  <2>2. ASSUME NEW i \in 1 .. n + 1
        PROVE  g[i] = EntryStep(g, l, i)
    <3>1. CASE i = 1
      BY <2>1, <3>1 DEF EntryStep
    <3>2. CASE i # 1
      <4>1. i - 1 \in 1 .. n /\ g[i - 1] = f[i - 1]
        BY <3>2
      <4>2. EntryStep(g, l, i) = EntryStep(f, l, i)
        <5> HIDE DEF g
        <5> QED
          BY <4>1, <3>2 DEF EntryStep
      <4> QED
        BY <4>2, <2>1
    <3> QED
      BY <3>1, <3>2
  <2>3. g = [i \in 1 .. n + 1 |-> EntryStep(g, l, i)]
    BY <2>2
  <2> HIDE DEF g
  <2>4. \E h : h = [i \in 1 .. n + 1 |-> EntryStep(h, l, i)]
    BY <2>3
  <2> QED
    BY <2>4
<1> HIDE DEF S
<1>3. Nat \subseteq S
  BY <1>1, <1>2, EveryNumber
<1> QED
  BY <1>3 DEF S

\* f gives the places of the entries of l.
PlacesOf(l, f) ==
  \A i \in 1 .. Len(l) : EntryAt(l, i) = f[i] /\ f[i] \in Nat /\ f[i] = EntryStep(f, l, i)

LEMMA Places ==
  ASSUME NEW l \in Seq(DirEntry)
  PROVE  \E f : PlacesOf(l, f)
<1>1. /\ Len(l) \in Nat
      /\ \A i \in 1 .. Len(l) : /\ HeaderOf(l, i) \in Nat
                                /\ l[i].name \in Seq(STRING) /\ Len(l[i].name) \in Nat
  <2>1. \A i \in 1 .. Len(l) : l[i] \in DirEntry
    OBVIOUS
  <2> QED
    BY <2>1 DEF DirEntry, HeaderOf
<1>2. PICK f : f = [i \in 1 .. Len(l) |-> EntryStep(f, l, i)]
  BY <1>1, EntryDefined
<1>3. \A i \in 1 .. Len(l) : f[i] = EntryStep(f, l, i)
  BY <1>2
<1> DEFINE S == {n \in Nat : n + 1 \in 1 .. Len(l) => f[n + 1] \in Nat}
<1>4. 0 \in S
  BY <1>1, <1>3 DEF EntryStep
<1>5. ASSUME NEW n \in Nat, n \in S
      PROVE  n + 1 \in S
  <2> SUFFICES ASSUME n + 1 + 1 \in 1 .. Len(l)
               PROVE  f[n + 1 + 1] \in Nat
    OBVIOUS
  <2>1. PICK k \in 1 .. Len(l) : k = n + 1 + 1
    OBVIOUS
  <2>2. n + 1 \in 1 .. Len(l) /\ k # 1 /\ k - 1 = n + 1
    BY <1>1, <2>1
  <2>3. f[k - 1] \in Nat /\ Len(l[k - 1].name) \in Nat /\ HeaderOf(l, k) \in Nat
    BY <1>1, <1>5, <2>2
  <2>4. f[k] = f[k - 1] + 8 + Len(l[k - 1].name) + HeaderOf(l, k)
    BY <1>3, <2>2 DEF EntryStep
  <2> QED
    BY <2>1, <2>3, <2>4
<1> HIDE DEF S
<1>6. Nat \subseteq S
  BY <1>4, <1>5, EveryNumber
<1>7. ASSUME NEW i \in 1 .. Len(l)
      PROVE  f[i] \in Nat
  <2>1. i - 1 \in Nat /\ i - 1 + 1 = i
    BY <1>1
  <2>2. i - 1 \in S
    BY <1>6, <2>1
  <2> QED
    BY <2>1, <2>2 DEF S
<1>8. ASSUME NEW i \in 1 .. Len(l)
      PROVE  EntryAt(l, i) = f[i]
  <2> DEFINE g == CHOOSE h : h = [j \in 1 .. i |->
                    IF j = 1 THEN IF l[j].opens THEN 12 ELSE 0
                    ELSE h[j - 1] + 8 + Len(l[j - 1].name) + IF l[j].opens THEN 12 ELSE 0]
  <2>1. EntryAt(l, i) = g[i]
    BY DEF EntryAt
  <2>2. g = [j \in 1 .. i |-> EntryStep(g, l, j)]
    <3>1. i \in Nat
      BY <1>1
    <3>2. \E h : h = [j \in 1 .. i |-> EntryStep(h, l, j)]
      BY <3>1, EntryDefined
    <3> QED
      BY <3>2 DEF EntryStep, HeaderOf
  <2> HIDE DEF g
  <2> DEFINE T == {n \in Nat : n + 1 \in 1 .. i => g[n + 1] = f[n + 1]}
  <2>3. 0 \in T
    BY <1>3, <2>2 DEF EntryStep
  <2>4. ASSUME NEW n \in Nat, n \in T
        PROVE  n + 1 \in T
    <3> SUFFICES ASSUME n + 1 + 1 \in 1 .. i
                 PROVE  g[n + 1 + 1] = f[n + 1 + 1]
      OBVIOUS
    <3>1. PICK k \in 1 .. i : k = n + 1 + 1
      OBVIOUS
    <3>2. n + 1 \in 1 .. i /\ k # 1 /\ k - 1 = n + 1 /\ k \in 1 .. Len(l)
      BY <1>1, <3>1
    <3>3. g[k - 1] = f[k - 1]
      BY <2>4, <3>2
    <3>4. g[k] = EntryStep(g, l, k) /\ f[k] = EntryStep(f, l, k)
      BY <1>3, <2>2, <3>2
    <3> QED
      BY <3>1, <3>2, <3>3, <3>4 DEF EntryStep
  <2> HIDE DEF T
  <2>5. Nat \subseteq T
    BY <2>3, <2>4, EveryNumber
  <2>6. i - 1 \in Nat /\ i - 1 + 1 = i /\ i \in 1 .. i
    BY <1>1
  <2>7. i - 1 \in T
    BY <2>5, <2>6
  <2> QED
    BY <2>1, <2>6, <2>7 DEF T
<1> QED
  BY <1>3, <1>7, <1>8 DEF PlacesOf

\* An entry ends before the next begins.
LEMMA PlacesAscend ==
  ASSUME NEW l \in Seq(DirEntry), NEW i \in 1 .. Len(l), NEW j \in 1 .. Len(l), i <= j
  PROVE  EntryAt(l, i) \in Nat /\ EntryAt(l, i) <= EntryAt(l, j)
<1>1. PICK f : PlacesOf(l, f)
  BY Places
<1>2. /\ Len(l) \in Nat
      /\ \A k \in 1 .. Len(l) : HeaderOf(l, k) \in Nat /\ Len(l[k].name) \in Nat
  <2>1. \A k \in 1 .. Len(l) : l[k] \in DirEntry
    OBVIOUS
  <2> QED
    BY <2>1 DEF DirEntry, HeaderOf
<1> DEFINE S == {d \in Nat : i + d \in 1 .. Len(l) => f[i] <= f[i + d]}
<1>3. 0 \in S
  BY <1>1, <1>2 DEF PlacesOf
<1>4. ASSUME NEW d \in Nat, d \in S
      PROVE  d + 1 \in S
  <2> SUFFICES ASSUME i + (d + 1) \in 1 .. Len(l)
               PROVE  f[i] <= f[i + (d + 1)]
    OBVIOUS
  <2>1. PICK k \in 1 .. Len(l) : k = i + (d + 1)
    OBVIOUS
  <2>2. k # 1 /\ k - 1 = i + d /\ k - 1 \in 1 .. Len(l)
    BY <1>2, <2>1
  <2>3. f[k] = f[k - 1] + 8 + Len(l[k - 1].name) + HeaderOf(l, k)
    BY <1>1, <2>2 DEF PlacesOf, EntryStep
  <2>4. f[i] \in Nat /\ f[k - 1] \in Nat /\ f[i] <= f[k - 1]
    BY <1>1, <1>4, <2>2 DEF PlacesOf
  <2>6. PICK x \in Nat, y \in Nat : f[k] = f[k - 1] + 8 + x + y
    <3>1. Len(l[k - 1].name) \in Nat /\ HeaderOf(l, k) \in Nat
      BY <1>2, <2>2
    <3> QED
      BY <2>3, <3>1
  <2>5. f[i] <= f[k]
    BY <2>4, <2>6
  <2> QED
    BY <2>1, <2>5
<1> HIDE DEF S
<1>5. Nat \subseteq S
  BY <1>3, <1>4, EveryNumber
<1>6. PICK d \in Nat : j = i + d
  <2>1. j - i \in Nat /\ j = i + (j - i)
    BY <1>2
  <2> QED
    BY <2>1
<1>7. f[i] <= f[j]
  BY <1>5, <1>6 DEF S
<1> QED
  BY <1>1, <1>7 DEF PlacesOf

\* The entries of a directory that dir_entries returns: as many as have room,
\* from the first on.
LEMMA ListingFacts ==
  ASSUME NEW n \in Inode, image \in Images
  PROVE  /\ ListingBytes(n) \in Nat
         /\ Listing(n) \in Seq(DirEntry) /\ Len(Listing(n)) \in Nat
         /\ Len(Listing(n)) <= Len(n.listing)
         /\ \A i \in 1 .. Len(n.listing) :
              i <= Len(Listing(n)) <=> EntryAt(n.listing, i) + 8 <= ListingBytes(n)
         /\ \A i \in 1 .. Len(Listing(n)) :
              /\ Listing(n)[i].ref = n.listing[i].ref
              /\ Listing(n)[i].name =
                   SubSeq(n.listing[i].name, 1,
                          Min({Len(n.listing[i].name),
                               ListingBytes(n) - (EntryAt(n.listing, i) + 8)}))
<1> DEFINE l == n.listing
           data == ListingBytes(n)
           shown == {i \in DOMAIN l : EntryAt(l, i) + 8 <= data}
           Clipped(i) == SubSeq(l[i].name, 1,
                                Min({Len(l[i].name), data - (EntryAt(l, i) + 8)}))
<1>1. /\ l \in Seq(DirEntry) /\ Len(l) \in Nat /\ DOMAIN l = 1 .. Len(l)
      /\ n.size \in Nat /\ n.listAt \in (Nat \ {0}) \X Nat
  BY InodeFacts
<1>2. data \in Nat
  <2>1. CASE n.size <= 3
    BY <2>1 DEF ListingBytes
  <2>2. CASE ~(n.size <= 3)
    <3>1. n.size - 3 \in Nat
      BY <1>1, <2>2
    <3>2. ReadMeta(image.dirTable, n.listAt, n.size - 3) \in Nat
      BY <1>1, <3>1, ReadMetaFacts, ImageFacts
    <3> QED
      BY <2>2, <3>2 DEF ListingBytes
  <2> QED
    BY <2>1, <2>2
<1>3. Listing(n) = [i \in 1 .. Cardinality(shown) |-> [l[i] EXCEPT !.name = Clipped(i)]]
  BY DEF Listing
<1>4. PICK c \in 0 .. Len(l) : shown = 1 .. c
  <2>1. \A i, j \in 1 .. Len(l) : i <= j /\ j \in shown => i \in shown
    <3> SUFFICES ASSUME NEW i \in 1 .. Len(l), NEW j \in 1 .. Len(l), i <= j, j \in shown
                 PROVE  i \in shown
      OBVIOUS
    <3>1. /\ EntryAt(l, i) \in Nat /\ EntryAt(l, j) \in Nat
          /\ EntryAt(l, i) <= EntryAt(l, j)
      BY <1>1, PlacesAscend
    <3> QED
      BY <1>1, <1>2, <3>1
  <2>2. \A i \in shown : i \in 1 .. Len(l)
    BY <1>1
  <2> HIDE DEF shown, data
  <2> DEFINE UpTo(m, c) == \A i \in 1 .. m : i \in shown <=> i <= c
             T == {m \in Nat : m <= Len(l) => \E c \in 0 .. m : UpTo(m, c)}
  <2>3. 0 \in T
    BY <1>1
  <2>4. ASSUME NEW m \in Nat, m \in T
        PROVE  m + 1 \in T
    <3> SUFFICES ASSUME m + 1 <= Len(l)
                 PROVE  \E c \in 0 .. m + 1 : UpTo(m + 1, c)
      OBVIOUS
    <3>1. PICK c \in 0 .. m : UpTo(m, c)
      BY <1>1, <2>4
    <3>2. CASE m + 1 \in shown
      <4>1. \A i \in 1 .. m + 1 : i \in shown
        BY <1>1, <2>1, <3>2
      <4>2. UpTo(m + 1, m + 1) /\ m + 1 \in 0 .. m + 1
        BY <4>1
      <4> QED
        BY <4>2
    <3>3. CASE m + 1 \notin shown
      <4>1. UpTo(m + 1, c) /\ c \in 0 .. m + 1
        BY <3>1, <3>3
      <4> QED
        BY <4>1
    <3> QED
      BY <3>2, <3>3
  <2> HIDE DEF T
  <2>5. Nat \subseteq T
    BY <2>3, <2>4, EveryNumber
  <2>7. PICK m \in Nat : m = Len(l)
    BY <1>1
  <2> HIDE DEF UpTo
  <2>8. m \in T /\ m <= Len(l)
    BY <2>5, <2>7
  <2>6. PICK c \in 0 .. m : UpTo(m, c)
    BY <2>8 DEF T
  <2>9. \A i \in 1 .. m : i \in shown <=> i <= c
    BY <2>6 DEF UpTo
  <2>10. \A i \in shown : i \in 1 .. m
    BY <2>2, <2>7
  <2>12. \A i \in 1 .. c : i \in 1 .. m
    BY <2>7
  <2>13. \A i \in shown : i \in 1 .. c
    <3> SUFFICES ASSUME NEW i \in shown
                 PROVE  i \in 1 .. c
      OBVIOUS
    <3>1. i \in 1 .. m /\ i <= c
      BY <2>9, <2>10
    <3> QED
      BY <3>1
  <2>14. \A i \in 1 .. c : i \in shown
    BY <2>9, <2>12
  <2>11. shown = 1 .. c
    BY <2>13, <2>14
  <2> QED
    BY <2>7, <2>11
<1>5. Cardinality(shown) = c
  <2>1. c \in Nat
    BY <1>1
  <2>2. Cardinality(1 .. c) = c
    <3>1. Cardinality(1 .. c) = IF 1 > c THEN 0 ELSE c - 1 + 1
      BY <2>1, FS_Interval
    <3> QED
      BY <2>1, <3>1
  <2> HIDE DEF shown
  <2> QED
    BY <1>4, <2>2
<1>6. ASSUME NEW i \in 1 .. c
      PROVE  /\ [l[i] EXCEPT !.name = Clipped(i)] \in DirEntry
             /\ [l[i] EXCEPT !.name = Clipped(i)].ref = l[i].ref
             /\ [l[i] EXCEPT !.name = Clipped(i)].name = Clipped(i)
  <2>1. i \in 1 .. Len(l) /\ i \in shown
    BY <1>1, <1>4
  <2>2. l[i] \in DirEntry
    BY <1>1, <2>1
  <2>3. l[i].name \in Seq(STRING) /\ Len(l[i].name) \in Nat
    BY <2>2 DEF DirEntry
  <2>4. PICK m \in Nat : m = data - (EntryAt(l, i) + 8)
    <3>1. EntryAt(l, i) \in Nat
      BY <1>1, <2>1, PlacesAscend
    <3> QED
      BY <1>2, <2>1, <3>1
  <2>5. PICK k \in Nat : k = Min({Len(l[i].name), m}) /\ k <= Len(l[i].name)
    BY <2>3, Minimum
  <2>6. Clipped(i) \in Seq(STRING)
    BY <2>3, <2>4, <2>5, PrefixOf
  <2> HIDE DEF Clipped
  <2> QED
    BY <2>2, <2>6 DEF DirEntry
<1> HIDE DEF shown, Clipped
<1>7. /\ Listing(n) = [i \in 1 .. c |-> [l[i] EXCEPT !.name = Clipped(i)]]
      /\ c \in Nat /\ c <= Len(l)
  BY <1>1, <1>3, <1>5
<1>8. Listing(n) \in Seq(DirEntry) /\ Len(Listing(n)) = c
  <2> DEFINE e(i) == [l[i] EXCEPT !.name = Clipped(i)]
  <2>1. \A i \in 1 .. c : e(i) \in DirEntry
    BY <1>6
  <2>2. Listing(n) = [i \in 1 .. c |-> e(i)]
    BY <1>7
  <2> HIDE DEF e
  <2>3. [i \in 1 .. c |-> e(i)] \in Seq(DirEntry) /\ Len([i \in 1 .. c |-> e(i)]) = c
    BY <1>7, <2>1
  <2> QED
    BY <2>2, <2>3
<1>9. \A i \in 1 .. Len(l) : i <= c <=> EntryAt(l, i) + 8 <= data
  BY <1>1, <1>4 DEF shown
<1>10. \A i \in 1 .. c : Listing(n)[i].ref = l[i].ref /\ Listing(n)[i].name = Clipped(i)
  BY <1>6, <1>7
<1> QED
  BY <1>2, <1>7, <1>8, <1>9, <1>10 DEF Clipped

-----------------------------------------------------------------------------
\* The invariant of the walk.
Paths == Seq(Seq(STRING))

Frame == [listing : Seq(DirEntry), next : Nat \ {0}, prefix : Paths]

StackInv ==
  /\ stack \in Seq(Frame) /\ Len(stack) <= DepthLimit + 1
  /\ \A i \in 1 .. Len(stack) : stack[i].next <= Len(stack[i].listing) + 1

\* What a file of the output is: what file_data returned for its inode.
IsRead(e) ==
  LET n == image.inodes[e.file]
  IN  /\ Len(e.data) <= n.size
      /\ \A k \in Intact(n) : k \in 1 .. Len(e.data) /\ e.data[k] = ByteAt(n, k)
      /\ Undamaged(n) =>
           Len(e.data) = n.size /\ \A k \in 1 .. n.size : e.data[k] = ByteAt(n, k)

OutInv ==
  /\ out \in Seq([path : Paths, data : Seq(Nat), file : Ref])
  /\ \A i \in 1 .. Len(out) : IsRead(out[i])
  /\ out # <<>> => image.blockSize # 0

IInv ==
  /\ image \in Images
  /\ StackInv
  /\ OutInv
  /\ CacheIsTrue /\ DOMAIN cache \subseteq Starts(image)
  /\ pc \in {"start", "walk", "done", "crashed"}
  /\ pc = "crashed" => image.blockSize = 0

\* The innermost call and its entry.
LEMMA AtEntryFacts ==
  ASSUME IInv, AtEntry
  PROVE  /\ Len(stack) \in Nat \ {0} /\ Top = stack[Len(stack)] /\ Top \in Frame
         /\ Top.next \in 1 .. Len(Top.listing)
         /\ Item \in DirEntry /\ Child \in Inode /\ Item.ref \in Ref
         /\ ItemPath \in Paths
<1>1. stack \in Seq(Frame) /\ stack # <<>>
  BY DEF IInv, StackInv, AtEntry
<1>2. Len(stack) \in Nat \ {0}
  BY <1>1
<1>3. Top = stack[Len(stack)] /\ Top \in Frame
  BY <1>1, <1>2 DEF Top, Last
<1>4. Top.next \in Nat \ {0} /\ Top.listing \in Seq(DirEntry) /\ Top.prefix \in Paths
  BY <1>3 DEF Frame
<1>5. Top.next \in 1 .. Len(Top.listing)
  <2>1. Len(Top.listing) \in Nat /\ Top.next <= Len(Top.listing)
    BY <1>4 DEF AtEntry
  <2> QED
    BY <1>4, <2>1
<1>6. Item \in DirEntry
  BY <1>4, <1>5 DEF Item
<1>7. Item.ref \in Ref /\ Item.name \in Seq(STRING)
  BY <1>6 DEF DirEntry
<1>8. Child \in Inode
  BY <1>7, ImageFacts DEF IInv, Child
<1>9. ItemPath \in Paths
  BY <1>4, <1>7 DEF ItemPath, Paths
<1> QED
  BY <1>2, <1>3, <1>5, <1>6, <1>7, <1>8, <1>9

\* The call for a directory.
LEMMA CallFacts ==
  ASSUME NEW n \in Inode, NEW p \in Paths, image \in Images
  PROVE  /\ Call(n, p) \in Frame
         /\ Call(n, p).next = 1 /\ Call(n, p).listing = Listing(n) /\ Call(n, p).prefix = p
         /\ Call(n, p).next <= Len(Call(n, p).listing) + 1
<1>1. Listing(n) \in Seq(DirEntry) /\ Len(Listing(n)) \in Nat
  BY ListingFacts
<1> QED
  BY <1>1 DEF Call, Frame

\* The loop goes on to the next entry.
LEMMA AdvancedFacts ==
  ASSUME IInv, AtEntry
  PROVE  /\ Advanced \in Seq(Frame) /\ Len(Advanced) = Len(stack)
         /\ \A i \in 1 .. Len(stack) :
              /\ Advanced[i].listing = stack[i].listing
              /\ Advanced[i].prefix = stack[i].prefix
              /\ Advanced[i].next = IF i = Len(stack) THEN Top.next + 1 ELSE stack[i].next
              /\ Advanced[i].next <= Len(Advanced[i].listing) + 1
<1>1. stack \in Seq(Frame) /\ Len(stack) \in Nat
  BY DEF IInv, StackInv
<1>2. PICK l \in Nat \ {0} : l = Len(stack)
  BY AtEntryFacts
<1>3. Top = stack[l] /\ Top \in Frame /\ Top.next \in 1 .. Len(Top.listing)
  BY <1>2, AtEntryFacts
<1>4. /\ Top.next \in Nat \ {0} /\ Top.listing \in Seq(DirEntry) /\ Len(Top.listing) \in Nat
      /\ Top.next + 1 \in Nat \ {0} /\ Top.next + 1 <= Len(Top.listing) + 1
  <2>1. Top.next \in Nat \ {0} /\ Top.listing \in Seq(DirEntry)
    BY <1>3 DEF Frame
  <2> QED
    BY <1>3, <2>1
<1>5. Advanced = [stack EXCEPT ![l] = [Top EXCEPT !.next = Top.next + 1]]
  BY <1>2, <1>3 DEF Advanced
<1> DEFINE t == [Top EXCEPT !.next = Top.next + 1]
<1>6. t \in Frame /\ t.next = Top.next + 1 /\ t.listing = Top.listing /\ t.prefix = Top.prefix
  BY <1>3, <1>4 DEF Frame
<1> HIDE DEF t
<1>7. Advanced = [stack EXCEPT ![l] = t]
  BY <1>5 DEF t
<1>8. Advanced \in Seq(Frame) /\ Len(Advanced) = Len(stack)
  <2>3. DOMAIN stack = 1 .. l
    BY <1>1, <1>2
  <2>1. Advanced = [i \in 1 .. l |-> IF i = l THEN t ELSE stack[i]]
    BY <1>7, <2>3
  <2>2. \A i \in 1 .. l : (IF i = l THEN t ELSE stack[i]) \in Frame
    BY <1>1, <1>2, <1>6
  <2> QED
    BY <1>2, <2>1, <2>2
<1>9. \A i \in 1 .. Len(stack) : Advanced[i] = IF i = l THEN t ELSE stack[i]
  BY <1>1, <1>7
<1>10. \A i \in 1 .. Len(stack) : stack[i].next <= Len(stack[i].listing) + 1
  BY DEF IInv, StackInv
<1>11. ASSUME NEW i \in 1 .. Len(stack)
       PROVE  /\ Advanced[i].listing = stack[i].listing
              /\ Advanced[i].prefix = stack[i].prefix
              /\ Advanced[i].next = IF i = Len(stack) THEN Top.next + 1 ELSE stack[i].next
              /\ Advanced[i].next <= Len(Advanced[i].listing) + 1
  <2>1. CASE i = l
    BY <1>2, <1>3, <1>4, <1>6, <1>9, <2>1
  <2>2. CASE i # l
    BY <1>2, <1>9, <1>10, <2>2
  <2> QED
    BY <2>1, <2>2
<1> QED
  BY <1>8, <1>11

\* A longer stack: the call of a child.
LEMMA PushFacts ==
  ASSUME NEW s \in Seq(Frame), NEW f \in Frame
  PROVE  /\ Append(s, f) \in Seq(Frame) /\ Len(Append(s, f)) = Len(s) + 1
         /\ \A i \in 1 .. Len(s) : Append(s, f)[i] = s[i]
         /\ Append(s, f)[Len(s) + 1] = f
<1>1. Append(s, f) \in Seq(Frame)
  OBVIOUS
<1>2. Len(Append(s, f)) = Len(s) + 1
  OBVIOUS
<1>3. \A i \in 1 .. Len(s) : Append(s, f)[i] = s[i]
  OBVIOUS
<1> QED
  BY <1>1, <1>2, <1>3

LEMMA PopFacts ==
  ASSUME NEW s \in Seq(Frame), s # <<>>
  PROVE  /\ Front(s) \in Seq(Frame) /\ Len(Front(s)) = Len(s) - 1
         /\ \A i \in 1 .. Len(s) - 1 : Front(s)[i] = s[i]
<1>1. Front(s) = SubSeq(s, 1, Len(s) - 1)
  BY DEF Front
<1>2. Len(s) - 1 \in Nat /\ Len(s) - 1 <= Len(s)
  OBVIOUS
<1>3. PICK m \in Nat : m = Len(s) - 1 /\ m <= Len(s)
  BY <1>2
<1>4. /\ SubSeq(s, 1, m) \in Seq(Frame) /\ Len(SubSeq(s, 1, m)) = m
      /\ \A i \in 1 .. m : SubSeq(s, 1, m)[i] = s[i]
  BY <1>3, PrefixOf
<1> QED
  BY <1>1, <1>3, <1>4

LEMMA InitIInv ==
  Init => IInv
<1> SUFFICES ASSUME Init
             PROVE  IInv
  OBVIOUS
<1>1. DepthLimit \in Nat
  BY ImageAssumption
<1>2. StackInv
  BY <1>1 DEF Init, StackInv
<1>3. OutInv
  BY DEF Init, OutInv
<1>4. DOMAIN cache = {}
  BY DEF Init
<1> QED
  BY <1>2, <1>3, <1>4 DEF Init, IInv, CacheIsTrue

\* What was decompressed goes into the cache under its start.
LEMMA CacheAfterFacts ==
  ASSUME NEW n, IInv, cache' = CacheAfter(n), image' = image
  PROVE  CacheIsTrue' /\ DOMAIN cache' \subseteq Starts(image')
<1>1. Table' = Table
  BY DEF Table
<1>2. CASE n.frag = 0 \/ FragmentBytes(n) = NoBytes
  <2>1. cache' = cache
    BY <1>2 DEF CacheAfter
  <2> QED
    BY <1>1, <2>1 DEF IInv, CacheIsTrue
<1>3. CASE n.frag # 0 /\ FragmentBytes(n) # NoBytes
  <2> DEFINE s0 == FragmentOf(n).start
             v == FragmentBytes(n)
  <2>1. cache' = [s \in DOMAIN cache \cup {s0} |-> IF s = s0 THEN v ELSE cache[s]]
    BY <1>3 DEF CacheAfter
  <2>2. /\ n.frag \in DOMAIN Table
        /\ \E j \in DOMAIN Table : Table[j].start = s0 /\ Table[j].bytes # NoBytes /\ v = Table[j].bytes
    BY <1>3, FragmentFacts DEF IInv
  <2> HIDE DEF s0, v
  <2>3. DOMAIN cache' = DOMAIN cache \cup {s0}
    BY <2>1
  <2>4. ASSUME NEW s \in DOMAIN cache'
        PROVE  \E j \in DOMAIN Table :
                 Table[j].start = s /\ Table[j].bytes # NoBytes /\ cache'[s] = Table[j].bytes
    <3>1. CASE s = s0
      BY <2>1, <2>2, <3>1
    <3>2. CASE s # s0
      BY <2>1, <2>3, <3>2 DEF IInv, CacheIsTrue
    <3> QED
      BY <3>1, <3>2
  <2>5. CacheIsTrue'
    BY <1>1, <2>4 DEF CacheIsTrue
  <2>6. s0 \in Starts(image)
    BY <2>2 DEF Starts, Table, ToSet
  <2> QED
    BY <2>3, <2>5, <2>6 DEF IInv
<1> QED
  BY <1>2, <1>3

\* What file_data returns for a file.
LEMMA ReadFileFacts ==
  ASSUME NEW n, NEW p, NEW r, AFile(n), CacheIsTrue, image.inodes[r] = n
  PROVE  LET e == [path |-> p, data |-> FileData(n), file |-> r]
         IN  e.data \in Seq(Nat) /\ IsRead(e)
<1> DEFINE e == [path |-> p, data |-> FileData(n), file |-> r]
<1>1. e.data = FileData(n) /\ e.file = r
  OBVIOUS
<1>2. /\ FileData(n) \in Seq(Nat) /\ Len(FileData(n)) <= n.size
      /\ \A k \in Intact(n) :
           k \in 1 .. Len(FileData(n)) /\ FileData(n)[k] = ByteAt(n, k)
  BY IntactIsReturned
<1>3. Undamaged(n) => /\ Len(FileData(n)) = n.size
                      /\ \A k \in 1 .. n.size : FileData(n)[k] = ByteAt(n, k)
  BY WholeIsReturned
<1> HIDE DEF e
<1> QED
  BY <1>1, <1>2, <1>3 DEF IsRead, e

\* What the image says stays true.
LEMMA SameFile ==
  ASSUME NEW n, image' = image
  PROVE  /\ Intact(n)' = Intact(n)
         /\ Undamaged(n)' <=> Undamaged(n)
         /\ \A k : ByteAt(n, k)' = ByteAt(n, k)
<1>1. BlockCount(n)' = BlockCount(n) /\ InBlocks(n)' = InBlocks(n)
  BY DEF BlockCount, InBlocks
<1>2. \A at, len : ReadMeta(image.inodeTable, at, len)' = ReadMeta(image.inodeTable, at, len)
  OBVIOUS
<1>3. Blocks(n)' = Blocks(n)
  BY <1>1, <1>2 DEF Blocks
<1>4. \A d : Good(n, d)' <=> Good(n, d)
  BY <1>1, <1>3 DEF Good
<1>5. Intact(n)' = Intact(n)
  BY <1>1, <1>4 DEF Intact
<1>6. FragmentOf(n)' = FragmentOf(n) /\ (HasFragment(n)' <=> HasFragment(n))
  BY DEF FragmentOf, HasFragment
<1>7. TableIsSound' <=> TableIsSound
  BY DEF TableIsSound
<1>8. Undamaged(n)' <=> Undamaged(n)
  BY <1>1, <1>4, <1>6, <1>7 DEF Undamaged
<1>9. \A k : ByteAt(n, k)' = ByteAt(n, k)
  BY <1>1, <1>6 DEF ByteAt
<1> QED
  BY <1>5, <1>8, <1>9

LEMMA SameImage ==
  ASSUME NEW e, image' = image
  PROVE  IsRead(e)' <=> IsRead(e)
<1> DEFINE n == image.inodes[e.file]
<1>1. /\ Intact(n)' = Intact(n)
      /\ Undamaged(n)' <=> Undamaged(n)
      /\ \A k : ByteAt(n, k)' = ByteAt(n, k)
  BY SameFile
<1> QED
  BY <1>1 DEF IsRead

LEMMA SameOut ==
  ASSUME IInv, image' = image, out' = out
  PROVE  OutInv'
BY SameImage DEF IInv, OutInv

LEMMA SameCache ==
  ASSUME IInv, image' = image, cache' = cache
  PROVE  CacheIsTrue' /\ DOMAIN cache' \subseteq Starts(image')
<1>1. Table' = Table
  BY DEF Table
<1> QED
  BY <1>1 DEF IInv, CacheIsTrue

LEMMA NextIInv ==
  ASSUME IInv, [Next]_vars
  PROVE  IInv'
<1>1. CASE Walk
  <2>1. image' = image /\ out' = out /\ cache' = cache /\ pc' = "walk"
    BY <1>1 DEF Walk
  <2> DEFINE root == Root
  <2>2. root \in Inode
    BY ImageFacts DEF IInv, Root
  <2>3. <<>> \in Paths
    BY DEF Paths
  <2>4. DepthLimit \in Nat
    BY ImageAssumption
  <2>5. StackInv'
    <3>1. CASE HasInode(root)
      <4>1. PICK f \in Frame : f = Call(root, <<>>) /\ f.next <= Len(f.listing) + 1
        BY <2>2, <2>3, CallFacts DEF IInv
      <4>2. stack' = <<f>>
        BY <1>1, <3>1, <4>1 DEF Walk
      <4>3. stack' \in Seq(Frame) /\ Len(stack') = 1 /\ stack'[1] = f
        BY <4>1, <4>2
      <4> QED
        BY <2>4, <4>1, <4>3 DEF StackInv
    <3>2. CASE ~HasInode(root)
      <4>1. stack' = <<>>
        BY <1>1, <3>2 DEF Walk
      <4> QED
        BY <2>4, <4>1 DEF StackInv
    <3> QED
      BY <3>1, <3>2
  <2> QED
    BY <2>1, <2>5, SameOut, SameCache DEF IInv
<1>2. CASE Crash
  <2>1. image' = image /\ out' = out /\ cache' = cache /\ stack' = stack /\ pc' = "crashed"
        /\ image.blockSize = 0
    BY <1>2 DEF Crash, Crashes
  <2>2. StackInv'
    BY <2>1 DEF IInv, StackInv
  <2> QED
    BY <2>1, <2>2, SameOut, SameCache DEF IInv
<1>3. CASE SkipEntry
  <2>1. image' = image /\ out' = out /\ cache' = cache /\ stack' = Advanced /\ pc' = pc /\ AtEntry
    BY <1>3 DEF SkipEntry
  <2>2. StackInv'
    BY <2>1, AdvancedFacts DEF IInv, StackInv
  <2> QED
    BY <2>1, <2>2, SameOut, SameCache DEF IInv
<1>4. CASE Descend
  <2>1. /\ image' = image /\ out' = out /\ cache' = cache /\ pc' = pc
        /\ AtEntry /\ Len(stack) <= DepthLimit /\ stack' = Append(Advanced, Call(Child, ItemPath))
    BY <1>4 DEF Descend
  <2>2. PICK f \in Frame : f = Call(Child, ItemPath) /\ f.next <= Len(f.listing) + 1
    BY <2>1, AtEntryFacts, CallFacts DEF IInv
  <2>3. PICK s \in Seq(Frame) : s = Advanced /\ Len(s) = Len(stack)
                                /\ \A i \in 1 .. Len(s) : s[i].next <= Len(s[i].listing) + 1
    BY <2>1, AdvancedFacts
  <2>4. /\ stack' \in Seq(Frame) /\ Len(stack') = Len(s) + 1
        /\ \A i \in 1 .. Len(s) : stack'[i] = s[i]
        /\ stack'[Len(s) + 1] = f
    BY <2>1, <2>2, <2>3, PushFacts
  <2>5. Len(s) \in Nat /\ DepthLimit \in Nat
    BY ImageAssumption
  <2>6. ASSUME NEW i \in 1 .. Len(stack')
        PROVE  stack'[i].next <= Len(stack'[i].listing) + 1
    <3>1. i \in 1 .. Len(s) \/ i = Len(s) + 1
      BY <2>4, <2>5
    <3> QED
      BY <2>2, <2>3, <2>4, <3>1
  <2>7. Len(stack') <= DepthLimit + 1
    BY <2>1, <2>3, <2>4, <2>5
  <2>8. StackInv'
    BY <2>4, <2>6, <2>7 DEF StackInv
  <2> QED
    BY <2>1, <2>8, SameOut, SameCache DEF IInv
<1>5. CASE ReadFile
  <2>1. /\ image' = image /\ stack' = Advanced /\ pc' = pc /\ cache' = CacheAfter(Child)
        /\ AtEntry /\ IsFile(Child) /\ HasInode(Child) /\ ~Crashes(Child)
    BY <1>5 DEF ReadFile
  <2> DEFINE e == [path |-> ItemPath, data |-> FileData(Child), file |-> Item.ref]
  <2>2. out' = Append(out, e)
    BY <1>5 DEF ReadFile
  <2>3. AFile(Child) /\ ItemPath \in Paths /\ Item.ref \in Ref /\ image.inodes[Item.ref] = Child
    BY <2>1, AtEntryFacts DEF IInv, AFile, Crashes, Child
  <2>4. e.data \in Seq(Nat) /\ IsRead(e)
    BY <2>3, ReadFileFacts DEF IInv
  <2>5. e \in [path : Paths, data : Seq(Nat), file : Ref]
    BY <2>3, <2>4
  <2> HIDE DEF e
  <2>6. StackInv'
    BY <2>1, AdvancedFacts DEF IInv, StackInv
  <2>7. OutInv'
    <3> DEFINE E == [path : Paths, data : Seq(Nat), file : Ref]
    <3>1. out \in Seq(E) /\ Len(out) \in Nat /\ \A i \in 1 .. Len(out) : IsRead(out[i])
      BY DEF IInv, OutInv
    <3>2. e \in E
      BY <2>5
    <3> HIDE DEF E
    <3>3. Append(out, e) \in Seq(E)
      BY <3>1, <3>2
    <3>4. Len(Append(out, e)) = Len(out) + 1
      BY <3>1
    <3>5. \A i \in 1 .. Len(out) : Append(out, e)[i] = out[i]
      BY <3>1
    <3>6. Append(out, e)[Len(out) + 1] = e
      BY <3>1
    <3>7. ASSUME NEW i \in 1 .. Len(out')
          PROVE  IsRead(out'[i])
      <4>1. i \in 1 .. Len(out) \/ i = Len(out) + 1
        BY <2>2, <3>1, <3>4
      <4> QED
        BY <2>2, <2>4, <3>1, <3>5, <3>6, <4>1
    <3>8. \A i \in 1 .. Len(out') : (IsRead(out[i]))'
      BY <2>1, <3>7, SameImage
    <3>9. image.blockSize # 0
      BY <2>3 DEF AFile
    <3> QED
      BY <2>1, <2>2, <3>3, <3>8, <3>9 DEF OutInv, E
  <2>8. CacheIsTrue' /\ DOMAIN cache' \subseteq Starts(image')
    BY <2>1, CacheAfterFacts
  <2> QED
    BY <2>1, <2>6, <2>7, <2>8 DEF IInv
<1>6. CASE Return
  <2>1. /\ image' = image /\ out' = out /\ cache' = cache /\ pc' = pc
        /\ stack # <<>> /\ stack' = Front(stack)
    BY <1>6 DEF Return
  <2>2. PICK s \in Seq(Frame) : s = stack /\ s # <<>>
    BY <2>1 DEF IInv, StackInv
  <2>3. /\ stack' \in Seq(Frame) /\ Len(stack') = Len(s) - 1 /\ Len(s) \in Nat
        /\ \A i \in 1 .. Len(s) - 1 : stack'[i] = s[i]
    BY <2>1, <2>2, PopFacts
  <2>4. Len(s) <= DepthLimit + 1 /\ DepthLimit \in Nat
        /\ \A i \in 1 .. Len(s) : s[i].next <= Len(s[i].listing) + 1
    BY <2>2, ImageAssumption DEF IInv, StackInv
  <2>5. ASSUME NEW i \in 1 .. Len(stack')
        PROVE  i \in 1 .. Len(s) /\ i \in 1 .. Len(s) - 1
    BY <2>3
  <2>6. Len(stack') <= DepthLimit + 1
    BY <2>3, <2>4
  <2>7. StackInv'
    BY <2>3, <2>4, <2>5, <2>6 DEF StackInv
  <2> QED
    BY <2>1, <2>7, SameOut, SameCache DEF IInv
<1>7. CASE Finish \/ UNCHANGED vars
  <2>1. /\ image' = image /\ out' = out /\ cache' = cache /\ stack' = stack
        /\ pc' \in {"start", "walk", "done", "crashed"}
        /\ pc' = "crashed" => image.blockSize = 0
    BY <1>7 DEF Finish, vars, IInv
  <2>2. StackInv'
    BY <2>1 DEF IInv, StackInv
  <2> QED
    BY <2>1, <2>2, SameOut, SameCache DEF IInv
<1> QED
  BY <1>1, <1>2, <1>3, <1>4, <1>5, <1>6, <1>7 DEF Next

-----------------------------------------------------------------------------
LEMMA IntactCount ==
  ASSUME NEW e, e.data \in Seq(Nat), IsRead(e), image.inodes[e.file].size \in Nat
  PROVE  Len(e.data) \in Cardinality(Intact(image.inodes[e.file])) .. image.inodes[e.file].size
<1> DEFINE S == Intact(image.inodes[e.file])
<1>1. /\ Len(e.data) \in Nat /\ Len(e.data) <= image.inodes[e.file].size
      /\ S \subseteq 1 .. Len(e.data)
  BY DEF IsRead
<1> HIDE DEF S
<1>2. PICK m \in Nat : m = Len(e.data)
  BY <1>1
<1>3. IsFiniteSet(1 .. m) /\ Cardinality(1 .. m) = m
  <2>1. 1 \in Int /\ m \in Int
    OBVIOUS
  <2>2. Cardinality(1 .. m) = IF 1 > m THEN 0 ELSE m - 1 + 1
    BY <2>1, FS_Interval
  <2>3. IsFiniteSet(1 .. m)
    BY <2>1, FS_Interval
  <2> QED
    BY <2>2, <2>3
<1>4. Cardinality(S) <= Cardinality(1 .. m) /\ IsFiniteSet(S)
  BY <1>1, <1>2, <1>3, FS_Subset
<1>5. Cardinality(S) \in Nat
  BY <1>4, FS_CardinalityType
<1>6. Cardinality(S) <= m
  BY <1>3, <1>4, <1>5
<1> QED
  BY <1>1, <1>2, <1>5, <1>6 DEF S

LEMMA IInvImplies ==
  ASSUME IInv
  PROVE  PrefixIsIntact /\ WholeFilesAreExact
<1>1. ASSUME NEW i \in DOMAIN out
      PROVE  LET n == image.inodes[out[i].file]
             IN  /\ IsRead(out[i]) /\ n.size \in Nat /\ n \in Inode
                 /\ out[i].data \in Seq(Nat)
  <2> DEFINE E == [path : Paths, data : Seq(Nat), file : Ref]
  <2>1. out \in Seq(E) /\ \A j \in 1 .. Len(out) : IsRead(out[j])
    BY DEF IInv, OutInv
  <2>2. out[i] \in E /\ IsRead(out[i])
    <3> HIDE DEF E
    <3> QED
      BY <2>1
  <2>3. out[i].data \in Seq(Nat) /\ out[i].file \in Ref
    BY <2>2
  <2>4. image.inodes[out[i].file] \in Inode
    BY <2>3, ImageFacts DEF IInv
  <2> QED
    BY <2>2, <2>3, <2>4, InodeFacts
<1>2. ASSUME NEW i \in DOMAIN out
      PROVE  LET n == image.inodes[out[i].file]
             IN  /\ Len(out[i].data) \in Cardinality(Intact(n)) .. n.size
                 /\ \A k \in Intact(n) : out[i].data[k] = ByteAt(n, k)
  <2>1. PICK e : e = out[i]
    OBVIOUS
  <2>2. e.data \in Seq(Nat) /\ IsRead(e) /\ image.inodes[e.file].size \in Nat
    BY <1>1, <2>1
  <2>3. Len(e.data) \in Cardinality(Intact(image.inodes[e.file])) .. image.inodes[e.file].size
    BY <2>2, IntactCount
  <2> QED
    BY <2>1, <2>2, <2>3 DEF IsRead
<1>3. PrefixIsIntact
  BY <1>2 DEF PrefixIsIntact, Intact
<1>4. WholeFilesAreExact
  BY <1>1 DEF WholeFilesAreExact, IsRead
<1> QED
  BY <1>3, <1>4

LEMMA SquashInvariant ==
  Spec => []IInv
<1>1. Init => IInv
  BY InitIInv
<1>2. IInv /\ [Next]_vars => IInv'
  BY NextIInv
<1> QED
  BY <1>1, <1>2, PTL DEF Spec

\* A superblock whose block size is zero is all that makes walk panic: with any
\* other, no inode, listing, block or fragment does.
THEOREM OnlyBlockSizeZeroPanics ==
  Spec => [](pc = "crashed" => image.blockSize = 0)
<1>1. IInv => (pc = "crashed" => image.blockSize = 0)
  BY DEF IInv
<1> QED
  BY <1>1, SquashInvariant, PTL

\* What walk returns of a file begins with the bytes in front of the first bad
\* block, and is never longer than the inode says: file_data, which drops what
\* it cannot decompress and truncates, on every image.
THEOREM PrefixesAreIntact ==
  Spec => []PrefixIsIntact
<1>1. IInv => PrefixIsIntact
  BY IInvImplies
<1> QED
  BY <1>1, SquashInvariant, PTL

\* A file whose blocks and fragment are there comes back byte for byte, whatever
\* frag_cache, which all files share, took in before.
THEOREM UndamagedFilesAreExact ==
  Spec => []WholeFilesAreExact
<1>1. IInv => WholeFilesAreExact
  BY IInvImplies
<1> QED
  BY <1>1, SquashInvariant, PTL

-----------------------------------------------------------------------------
\* The directory in which the k-th entry of a route lies, from the one before.
AboveStep(at, r, i) ==
  IF i = 1 THEN Root
  ELSE IF r[i - 1] \in DOMAIN at[i - 1].listing
       THEN image.inodes[at[i - 1].listing[r[i - 1]].ref]
       ELSE at[i - 1]

LEMMA AboveDefined ==
  ASSUME NEW r, NEW N \in Nat
  PROVE  \E f : f = [i \in 1 .. N |-> AboveStep(f, r, i)]
<1> DEFINE S == {n \in Nat : \E f : f = [i \in 1 .. n |-> AboveStep(f, r, i)]}
<1>1. 0 \in S
  <2> DEFINE f == [i \in 1 .. 0 |-> <<>>]
  <2>1. f = [i \in 1 .. 0 |-> AboveStep(f, r, i)]
    OBVIOUS
  <2> QED
    BY <2>1
<1>2. ASSUME NEW n \in Nat, n \in S
      PROVE  n + 1 \in S
  <2>1. PICK f : f = [i \in 1 .. n |-> AboveStep(f, r, i)]
    BY <1>2
  <2> DEFINE g == [i \in 1 .. n + 1 |-> IF i = n + 1 THEN AboveStep(f, r, i) ELSE f[i]]
  <2>2. ASSUME NEW i \in 1 .. n + 1
        PROVE  g[i] = AboveStep(g, r, i)
    <3>1. CASE i = 1
      <4>1. AboveStep(g, r, i) = AboveStep(f, r, i)
        BY <3>1 DEF AboveStep
      <4> QED
        BY <4>1, <2>1
    <3>2. CASE i # 1
      <4>1. i - 1 \in 1 .. n /\ g[i - 1] = f[i - 1]
        BY <3>2
      <4>2. AboveStep(g, r, i) = AboveStep(f, r, i)
        <5> HIDE DEF g
        <5> QED
          BY <4>1, <3>2 DEF AboveStep
      <4> QED
        BY <4>2, <2>1
    <3> QED
      BY <3>1, <3>2
  <2>3. g = [i \in 1 .. n + 1 |-> AboveStep(g, r, i)]
    BY <2>2
  <2> HIDE DEF g
  <2>4. \E h : h = [i \in 1 .. n + 1 |-> AboveStep(h, r, i)]
    BY <2>3
  <2> QED
    BY <2>4
<1> HIDE DEF S
<1>3. Nat \subseteq S
  BY <1>1, <1>2, EveryNumber
<1> QED
  BY <1>3 DEF S

IsAbove(f, r, N) == \A i \in 1 .. N : f[i] = AboveStep(f, r, i)

\* Above, unfolded: it has the directories of the shorter routes in it.
LEMMA AboveUnfolds ==
  ASSUME NEW r, NEW N \in Nat \ {0}
  PROVE  \E f : IsAbove(f, r, N) /\ Above(r, N) = f[N]
<1> DEFINE f == CHOOSE g : g = [i \in 1 .. N |->
                  IF i = 1 THEN Root
                  ELSE IF r[i - 1] \in DOMAIN g[i - 1].listing
                       THEN image.inodes[g[i - 1].listing[r[i - 1]].ref]
                       ELSE g[i - 1]]
<1>1. Above(r, N) = f[N]
  BY DEF Above
<1>2. f = [i \in 1 .. N |-> AboveStep(f, r, i)]
  <2>1. \E h : h = [i \in 1 .. N |-> AboveStep(h, r, i)]
    BY AboveDefined
  <2> QED
    BY <2>1 DEF AboveStep
<1> HIDE DEF f
<1>3. IsAbove(f, r, N)
  BY <1>2 DEF IsAbove
<1> QED
  BY <1>1, <1>3

\* Routes that agree lead to the same directory.
LEMMA AboveAgrees ==
  ASSUME NEW r, NEW s, NEW f, NEW g, NEW M \in Nat, NEW N \in Nat, NEW k \in Nat \ {0},
         IsAbove(f, r, M), IsAbove(g, s, N),
         k <= M, k <= N, \A i \in 1 .. k - 1 : r[i] = s[i]
  PROVE  f[k] = g[k]
<1> DEFINE S == {n \in Nat : n + 1 \in 1 .. k => f[n + 1] = g[n + 1]}
<1>1. \A i \in 1 .. k : f[i] = AboveStep(f, r, i) /\ g[i] = AboveStep(g, s, i)
  <2>1. \A i \in 1 .. k : i \in 1 .. M /\ i \in 1 .. N
    OBVIOUS
  <2> QED
    BY <2>1 DEF IsAbove
<1>2. 0 \in S
  <2>1. f[1] = AboveStep(f, r, 1) /\ g[1] = AboveStep(g, s, 1)
    BY <1>1
  <2>2. f[1] = g[1]
    BY <2>1 DEF AboveStep
  <2> QED
    BY <2>2
<1>3. ASSUME NEW n \in Nat, n \in S
      PROVE  n + 1 \in S
  <2> SUFFICES ASSUME n + 1 + 1 \in 1 .. k
               PROVE  f[n + 1 + 1] = g[n + 1 + 1]
    OBVIOUS
  <2>1. PICK j \in 1 .. k : j = n + 1 + 1
    OBVIOUS
  <2>2. n + 1 \in 1 .. k /\ j # 1 /\ j - 1 = n + 1 /\ j - 1 \in 1 .. k - 1
    BY <2>1
  <2>3. f[j - 1] = g[j - 1] /\ r[j - 1] = s[j - 1]
    BY <1>3, <2>2
  <2>4. f[j] = AboveStep(f, r, j) /\ g[j] = AboveStep(g, s, j)
    BY <1>1
  <2> QED
    BY <2>1, <2>2, <2>3, <2>4 DEF AboveStep
<1> HIDE DEF S
<1>4. Nat \subseteq S
  BY <1>2, <1>3, EveryNumber
<1>5. k - 1 \in Nat /\ k - 1 + 1 = k /\ k \in 1 .. k
  OBVIOUS
<1>6. k - 1 \in S
  BY <1>4, <1>5
<1> QED
  BY <1>5, <1>6 DEF S

LEMMA SameAbove ==
  ASSUME NEW r, NEW s, NEW k \in Nat \ {0}, \A i \in 1 .. k - 1 : r[i] = s[i]
  PROVE  Above(r, k) = Above(s, k)
<1>1. PICK f : IsAbove(f, r, k) /\ Above(r, k) = f[k]
  BY AboveUnfolds
<1>2. PICK g : IsAbove(g, s, k) /\ Above(s, k) = g[k]
  BY AboveUnfolds
<1>3. k \in Nat /\ k <= k
  OBVIOUS
<1>4. f[k] = g[k]
  BY <1>1, <1>2, <1>3, AboveAgrees
<1> QED
  BY <1>1, <1>2, <1>4

LEMMA AboveRoot ==
  ASSUME NEW r
  PROVE  Above(r, 1) = Root
<1>3. PICK k \in Nat \ {0} : k = 1
  OBVIOUS
<1>1. PICK f : IsAbove(f, r, k) /\ Above(r, k) = f[k]
  BY AboveUnfolds
<1>2. f[k] = AboveStep(f, r, k)
  BY <1>1, <1>3 DEF IsAbove
<1> QED
  BY <1>1, <1>2, <1>3 DEF AboveStep

LEMMA AboveNext ==
  ASSUME NEW r, NEW k \in Nat \ {0}
  PROVE  Above(r, k + 1) = IF r[k] \in DOMAIN Above(r, k).listing
                           THEN image.inodes[Above(r, k).listing[r[k]].ref]
                           ELSE Above(r, k)
<1>1. PICK j \in Nat \ {0} : j = k + 1
  OBVIOUS
<1>2. PICK f : IsAbove(f, r, j) /\ Above(r, j) = f[j]
  BY AboveUnfolds
<1>3. PICK g : IsAbove(g, r, k) /\ Above(r, k) = g[k]
  BY AboveUnfolds
<1>4. f[k] = g[k]
  <2>1. k <= j /\ k <= k /\ k \in Nat /\ j \in Nat /\ \A i \in 1 .. k - 1 : r[i] = r[i]
    BY <1>1
  <2> QED
    BY <1>2, <1>3, <2>1, AboveAgrees
<1>5. f[j] = AboveStep(f, r, j) /\ j # 1 /\ j - 1 = k
  BY <1>1, <1>2 DEF IsAbove
<1> QED
  BY <1>1, <1>2, <1>3, <1>4, <1>5 DEF AboveStep

-----------------------------------------------------------------------------
\* The routes: every directory on one is that of some reference, and none has
\* more entries than the widest.
LEMMA Largest ==
  ASSUME NEW S \in SUBSET Nat, IsFiniteSet(S), S # {}
  PROVE  Max(S) \in S /\ \A y \in S : y <= Max(S)
<1> DEFINE Greatest(T, x) == x \in T /\ \A y \in T : y <= x
           Size(T) == Cardinality(T)
           Bad == {T \in SUBSET S : T # {} /\ ~(\E x : Greatest(T, x))}
           Sizes == {Size(T) : T \in Bad}
<1>1. \A T \in SUBSET S : IsFiniteSet(T) /\ Size(T) \in Nat
  BY FS_Subset, FS_CardinalityType
<1>2. ASSUME Bad # {}
      PROVE  FALSE
  <2>1. Sizes \subseteq Nat /\ Sizes # {}
    BY <1>1, <1>2
  <2>2. PICK n \in Sizes : \A m \in Sizes : ~(m < n)
    <3> HIDE DEF Sizes
    <3> QED
      BY <2>1, Least
  <2>3. PICK T \in Bad : \A U \in Bad : ~(Size(U) < Size(T))
    BY <2>2
  <2>4. PICK x \in T : x \in Nat
    BY <2>3
  <2>5. T \ {x} \in SUBSET S /\ Size(T \ {x}) = Size(T) - 1 /\ Size(T) \in Nat
    <3>1. IsFiniteSet(T) /\ Size(T) \in Nat /\ T \in SUBSET S
      BY <1>1, <2>3
    <3> QED
      BY <2>4, <3>1, FS_RemoveElement
  <2>6. T \ {x} \notin Bad
    <3>1. Size(T \ {x}) < Size(T)
      BY <2>5
    <3> HIDE DEF Bad, Size
    <3> QED
      BY <2>3, <3>1
  <2>7. CASE T \ {x} = {}
    <3>1. Greatest(T, x)
      BY <2>4, <2>7
    <3> QED
      BY <2>3, <3>1
  <2>8. CASE T \ {x} # {}
    <3>1. PICK y : Greatest(T \ {x}, y)
      BY <2>5, <2>6, <2>8
    <3>2. Greatest(T, x) \/ Greatest(T, y)
      <4>1. y \in Nat /\ \A z \in T : z \in Nat
        BY <2>3, <3>1
      <4> QED
        BY <2>4, <3>1, <4>1
    <3> QED
      BY <2>3, <3>2
  <2> QED
    BY <2>7, <2>8
<1>3. PICK x : Greatest(S, x)
  BY <1>2
<1>4. x \in S /\ \A y \in S : x >= y
  BY <1>3
<1>5. Max(S) \in S /\ \A y \in S : Max(S) >= y
  BY <1>4 DEF Max
<1> QED
  BY <1>5

Widest == Max({Len(image.inodes[r].listing) : r \in Ref})

LEMMA WidestFacts ==
  ASSUME image \in Images
  PROVE  /\ Widest \in Nat
         /\ \A r \in Ref : Len(image.inodes[r].listing) \in 0 .. Widest
<1> DEFINE W == {Len(image.inodes[r].listing) : r \in Ref}
           f == [r \in Ref |-> Len(image.inodes[r].listing)]
<1>1. \A r \in Ref : Len(image.inodes[r].listing) \in Nat
  <2> SUFFICES ASSUME NEW r \in Ref
               PROVE  Len(image.inodes[r].listing) \in Nat
    OBVIOUS
  <2>1. image.inodes[r] \in Inode
    BY ImageFacts
  <2>2. image.inodes[r].listing \in Seq(DirEntry)
    BY <2>1, InodeFacts
  <2> QED
    BY <2>2
<1>2. f \in Surjection(Ref, W)
  BY DEF Surjection
<1>3. IsFiniteSet(W)
  <2>1. IsFiniteSet(Ref)
    BY ImageAssumption
  <2> HIDE DEF W, f
  <2> QED
    BY <1>2, <2>1, FS_Surjection
<1>4. W \subseteq Nat /\ W # {}
  BY <1>1, ImageFacts
<1>5. Max(W) \in W /\ \A y \in W : y <= Max(W)
  <2> HIDE DEF W
  <2> QED
    BY <1>3, <1>4, Largest
<1> QED
  BY <1>1, <1>4, <1>5 DEF Widest

LEMMA AboveFacts ==
  ASSUME image \in Images, NEW r, NEW k \in Nat \ {0}
  PROVE  /\ Above(r, k) \in Inode
         /\ \E x \in Ref : Above(r, k) = image.inodes[x]
<1> DEFINE Known(n) == \E x \in Ref : Above(r, n) = image.inodes[x]
           S == {n \in Nat : Known(n + 1)}
<1>1. 0 \in S
  <2>1. Known(1)
    BY AboveRoot, ImageFacts DEF Root
  <2> QED
    BY <2>1
<1>2. ASSUME NEW n \in Nat, n \in S
      PROVE  n + 1 \in S
  <2>1. PICK k1 \in Nat \ {0} : k1 = n + 1
    OBVIOUS
  <2>2. PICK x \in Ref : Above(r, k1) = image.inodes[x]
    BY <1>2, <2>1
  <2>3. Above(r, k1) \in Inode
    BY <2>2, ImageFacts
  <2>4. Above(r, k1).listing \in Seq(DirEntry)
    BY <2>3, InodeFacts
  <2>5. r[k1] \in DOMAIN Above(r, k1).listing => Above(r, k1).listing[r[k1]].ref \in Ref
    <3> SUFFICES ASSUME r[k1] \in DOMAIN Above(r, k1).listing
                 PROVE  Above(r, k1).listing[r[k1]].ref \in Ref
      OBVIOUS
    <3>1. Above(r, k1).listing[r[k1]] \in DirEntry
      BY <2>4
    <3> QED
      BY <3>1 DEF DirEntry
  <2>6. Known(k1 + 1)
    BY <2>2, <2>5, AboveNext
  <2> QED
    BY <2>1, <2>6
<1> HIDE DEF S, Known
<1>3. Nat \subseteq S
  BY <1>1, <1>2, EveryNumber
<1>4. k - 1 \in Nat /\ k - 1 + 1 = k
  OBVIOUS
<1>5. Known(k)
  <2>1. k - 1 \in S
    BY <1>3, <1>4
  <2> QED
    BY <1>4, <2>1 DEF S
<1> QED
  BY <1>5, ImageFacts DEF Known

\* The files of the tree, by the routes that lead to them.
FileRoutes == {r \in Routes : LeadsToFile(r)}

LEMMA RouteFacts ==
  ASSUME image \in Images, NEW r \in Routes
  PROVE  /\ r \in Seq(Nat) /\ DOMAIN r = 1 .. Len(r)
         /\ Len(r) \in 1 .. DepthLimit + 1
         /\ \A k \in 1 .. Len(r) : r[k] \in Nat \ {0}
<1>1. Widest \in Nat /\ DepthLimit \in Nat
  BY WidestFacts, ImageAssumption
<1>2. PICK k \in 1 .. DepthLimit + 1 : r \in [1 .. k -> 1 .. Widest]
  BY DEF Routes, Widest
<1>3. k \in Nat /\ k # 0
  BY <1>1
<1>4. r \in Seq(Nat) /\ Len(r) = k /\ DOMAIN r = 1 .. k
  BY <1>1, <1>2, <1>3
<1>5. \A i \in 1 .. k : r[i] \in Nat \ {0}
  BY <1>1, <1>2, <1>3
<1> QED
  BY <1>1, <1>2, <1>4, <1>5

LEMMA IsRoute ==
  ASSUME image \in Images, NEW r, NEW k \in 1 .. DepthLimit + 1,
         DOMAIN r = 1 .. k, r = [i \in 1 .. k |-> r[i]],
         \A i \in 1 .. k : r[i] \in DOMAIN Above(r, i).listing
  PROVE  r \in Routes
<1>1. Widest \in Nat /\ DepthLimit \in Nat
  BY WidestFacts, ImageAssumption
<1>2. ASSUME NEW i \in 1 .. k
      PROVE  r[i] \in 1 .. Widest
  <2>1. i \in Nat \ {0}
    BY <1>1
  <2>2. PICK x \in Ref : Above(r, i) = image.inodes[x]
    BY <2>1, AboveFacts
  <2>3. Len(image.inodes[x].listing) \in 0 .. Widest
    BY WidestFacts
  <2>4. image.inodes[x].listing \in Seq(DirEntry)
    BY ImageFacts, InodeFacts
  <2>5. r[i] \in 1 .. Len(image.inodes[x].listing)
    BY <2>2, <2>4
  <2> QED
    BY <1>1, <2>3, <2>5
<1>3. r \in [1 .. k -> 1 .. Widest]
  BY <1>2
<1> QED
  BY <1>3 DEF Routes, Widest

-----------------------------------------------------------------------------
\* The entries taken, from the root to the innermost call.
Trail == [i \in 1 .. Len(stack) |-> stack[i].next - 1]

\* Every call on the stack reads the directory the trail leads to.
OnTrail ==
  \A m \in 1 .. Len(stack) :
    /\ (m = 1 \/ IsDir(Above(Trail, m))) /\ HasInode(Above(Trail, m))
    /\ stack[m].listing = Listing(Above(Trail, m))
    /\ stack[m].prefix = [k \in 1 .. m - 1 |-> NameOf(Trail, k)]
    /\ \A k \in 1 .. m - 1 : Leads(Trail, k)

\* The routes the walk has still to take: they leave the trail at a call that
\* has not come to their entry.
Leaves(r, m) ==
  /\ m <= Len(r)
  /\ \A i \in 1 .. m - 1 : r[i] = stack[i].next - 1
  /\ r[m] >= stack[m].next

Unopened == pc = "start" \/ (pc = "crashed" /\ stack = <<>>)

Ahead(r) == Unopened \/ \E m \in 1 .. Len(stack) : Leaves(r, m)

Passed == {r \in FileRoutes : ~Ahead(r)}

\* The files returned are those of the routes passed, each once.
Returned(f) ==
  /\ f \in [1 .. Len(out) -> Passed]
  /\ \A i, j \in 1 .. Len(out) : f[i] = f[j] => i = j
  /\ \A r \in Passed : \E i \in 1 .. Len(out) : f[i] = r
  /\ \A i \in 1 .. Len(out) : out[i].path = RoutePath(f[i]) /\ out[i].file = Target(f[i])

WalkInv ==
  /\ IInv
  /\ pc = "start" => stack = <<>> /\ out = <<>>
  /\ pc = "done" => stack = <<>>
  /\ OnTrail
  /\ \E f : Returned(f)

LEMMA SameNames ==
  ASSUME NEW r, NEW s, NEW k \in Nat \ {0}, \A i \in 1 .. k : r[i] = s[i]
  PROVE  /\ Above(r, k) = Above(s, k) /\ NameOf(r, k) = NameOf(s, k)
         /\ Entry(r, k) = Entry(s, k) /\ (Leads(r, k) <=> Leads(s, k))
<1>1. r[k] = s[k] /\ \A i \in 1 .. k - 1 : r[i] = s[i]
  OBVIOUS
<1>2. Above(r, k) = Above(s, k)
  BY <1>1, SameAbove
<1>3. Entry(r, k) = Entry(s, k)
  BY <1>1, <1>2 DEF Entry
<1>4. NameOf(r, k) = NameOf(s, k)
  BY <1>1, <1>2, <1>3 DEF NameOf
<1>5. Leads(r, k) <=> Leads(s, k)
  BY <1>1, <1>2, <1>4 DEF Leads
<1> QED
  BY <1>2, <1>3, <1>4, <1>5

\* An entry of a directory that is read leads on when the listing has it and it
\* has a name.
LEMMA EntryFacts ==
  ASSUME image \in Images, NEW r, NEW k \in Nat \ {0}, NEW n, n = Above(r, k),
         k = 1 \/ IsDir(n), HasInode(n), r[k] \in Nat \ {0}
  PROVE  /\ Leads(r, k) => r[k] <= Len(Listing(n))
         /\ r[k] <= Len(Listing(n)) =>
              /\ r[k] \in DOMAIN n.listing
              /\ Entry(r, k).ref = Listing(n)[r[k]].ref
              /\ NameOf(r, k) = Listing(n)[r[k]].name
              /\ Leads(r, k) <=> NameOf(r, k) \notin {<<".">>, <<".", ".">>, <<>>}
<1>1. n \in Inode
  BY AboveFacts
<1>2. n.listing \in Seq(DirEntry)
  BY <1>1, InodeFacts
<1>3. DOMAIN n.listing = 1 .. Len(n.listing) /\ Len(n.listing) \in Nat
  BY <1>2
<1>4. /\ Len(Listing(n)) \in Nat /\ Len(Listing(n)) <= Len(n.listing)
      /\ \A i \in 1 .. Len(n.listing) :
           i <= Len(Listing(n)) <=> EntryAt(n.listing, i) + 8 <= ListingBytes(n)
      /\ \A i \in 1 .. Len(Listing(n)) :
           /\ Listing(n)[i].ref = n.listing[i].ref
           /\ Listing(n)[i].name =
                SubSeq(n.listing[i].name, 1,
                       Min({Len(n.listing[i].name),
                            ListingBytes(n) - (EntryAt(n.listing, i) + 8)}))
  BY <1>1, ListingFacts
<1>5. PICK e \in Nat \ {0} : e = r[k]
  OBVIOUS
<1>6. Leads(r, k) => e <= Len(Listing(n))
  BY <1>3, <1>4, <1>5 DEF Leads
<1>7. ASSUME e <= Len(Listing(n))
      PROVE  /\ e \in DOMAIN n.listing
             /\ Entry(r, k).ref = Listing(n)[e].ref
             /\ NameOf(r, k) = Listing(n)[e].name
             /\ Leads(r, k) <=> NameOf(r, k) \notin {<<".">>, <<".", ".">>, <<>>}
  <2>1. e \in 1 .. Len(n.listing) /\ e \in 1 .. Len(Listing(n))
    BY <1>3, <1>4, <1>7
  <2>2. EntryAt(n.listing, e) + 8 <= ListingBytes(n)
    BY <1>4, <1>7, <2>1
  <2>3. Entry(r, k).ref = Listing(n)[e].ref
    BY <1>4, <1>5, <2>1 DEF Entry
  <2>4. NameOf(r, k) = Listing(n)[e].name
    BY <1>4, <1>5, <2>1 DEF NameOf, Entry
  <2>5. Leads(r, k) <=> NameOf(r, k) \notin {<<".">>, <<".", ".">>, <<>>}
    BY <1>3, <1>5, <2>1, <2>2 DEF Leads
  <2> QED
    BY <1>3, <2>1, <2>3, <2>4, <2>5
<1> QED
  BY <1>5, <1>6, <1>7

\* r takes the entry the innermost call has come to.
Here(r) ==
  /\ Len(stack) <= Len(r)
  /\ \A i \in 1 .. Len(stack) - 1 : r[i] = stack[i].next - 1
  /\ r[Len(stack)] = Top.next

\* Where the trail lies.
LEMMA TrailFacts ==
  ASSUME IInv
  PROVE  /\ Len(stack) \in Nat
         /\ \A i \in 1 .. Len(stack) : /\ Trail[i] = stack[i].next - 1
                                       /\ stack[i].next \in Nat \ {0}
                                       /\ stack[i] \in Frame
<1>1. stack \in Seq(Frame)
  BY DEF IInv, StackInv
<1>2. \A i \in 1 .. Len(stack) : stack[i] \in Frame
  BY <1>1
<1> QED
  BY <1>1, <1>2 DEF Trail, Frame

LEMMA HereFacts ==
  ASSUME WalkInv, AtEntry, NEW r, NEW M \in Nat \ {0}, M = Len(stack),
         \A i \in 1 .. M - 1 : r[i] = stack[i].next - 1, r[M] = Top.next
  PROVE  /\ (M = 1 \/ IsDir(Above(r, M))) /\ HasInode(Above(r, M))
         /\ r[M] \in DOMAIN Above(r, M).listing
         /\ Above(r, M + 1) = Child
         /\ Entry(r, M).ref = Item.ref /\ NameOf(r, M) = Item.name
         /\ Leads(r, M) <=> Named
         /\ \A k \in 1 .. M - 1 : Leads(r, k)
         /\ ItemPath = [k \in 1 .. M |-> NameOf(r, k)]
<1>1. IInv /\ OnTrail
  BY DEF WalkInv
<1>2. \A i \in 1 .. M : Trail[i] = stack[i].next - 1
  BY <1>1, TrailFacts
<1>3. Top = stack[M] /\ Top \in Frame /\ Top.next \in 1 .. Len(Top.listing) /\ image \in Images
  BY <1>1, AtEntryFacts DEF IInv
<1>4. /\ (M = 1 \/ IsDir(Above(Trail, M))) /\ HasInode(Above(Trail, M))
      /\ Top.listing = Listing(Above(Trail, M))
      /\ Top.prefix = [k \in 1 .. M - 1 |-> NameOf(Trail, k)]
      /\ \A k \in 1 .. M - 1 : Leads(Trail, k)
  BY <1>1, <1>3 DEF OnTrail
<1>5. Above(r, M) = Above(Trail, M)
  <2>1. \A i \in 1 .. M - 1 : r[i] = Trail[i]
    BY <1>2
  <2> QED
    BY <2>1, SameAbove
<1>6. \A k \in 1 .. M - 1 : Leads(r, k) /\ NameOf(r, k) = NameOf(Trail, k)
  <2> SUFFICES ASSUME NEW k \in 1 .. M - 1
               PROVE  Leads(r, k) /\ NameOf(r, k) = NameOf(Trail, k)
    OBVIOUS
  <2>1. k \in Nat \ {0} /\ \A i \in 1 .. k : r[i] = Trail[i]
    BY <1>2
  <2> QED
    BY <1>4, <2>1, SameNames
<1>7. PICK n : n = Above(r, M)
  OBVIOUS
<1>8. PICK e \in Nat \ {0} : e = Top.next /\ e <= Len(Top.listing)
  BY <1>3 DEF Frame
<1>9. Item = Listing(n)[e]
  BY <1>4, <1>5, <1>7, <1>8 DEF Item
<1>10. /\ r[M] \in DOMAIN n.listing
       /\ Entry(r, M).ref = Item.ref /\ NameOf(r, M) = Item.name
       /\ Leads(r, M) <=> NameOf(r, M) \notin {<<".">>, <<".", ".">>, <<>>}
  <2>1. r[M] \in Nat \ {0} /\ r[M] <= Len(Listing(n))
    BY <1>4, <1>5, <1>7, <1>8
  <2> QED
    BY <1>3, <1>4, <1>5, <1>7, <1>8, <1>9, <2>1, EntryFacts
<1>11. Above(r, M + 1) = Child
  BY <1>7, <1>10, AboveNext DEF Child, Entry
<1>12. Leads(r, M) <=> Named
  BY <1>10 DEF Named
<1>13. ItemPath = [k \in 1 .. M |-> NameOf(r, k)]
  <2> DEFINE p == [k \in 1 .. M - 1 |-> NameOf(r, k)]
  <2>1. Top.prefix = p
    BY <1>4, <1>6
  <2>2. p \in Paths /\ ItemPath = Append(p, NameOf(r, M))
    BY <1>3, <1>10, <2>1 DEF ItemPath, Frame
  <2>3. Item.name \in Seq(STRING)
    BY <1>1, AtEntryFacts DEF DirEntry
  <2>4. M - 1 \in Nat /\ DOMAIN p = 1 .. M - 1
    OBVIOUS
  <2>5. PICK q : q = p /\ q \in Seq(Seq(STRING)) /\ Len(q) = M - 1
    <3>1. p \in Seq(Seq(STRING))
      BY <2>2 DEF Paths
    <3>2. PICK j \in Nat : j = M - 1
      BY <2>4
    <3>3. DOMAIN p = 1 .. j
      BY <3>2
    <3> HIDE DEF p
    <3>4. Len(p) = j
      BY <3>1, <3>3
    <3> QED
      BY <3>1, <3>2, <3>4
  <2>6. PICK x : x = NameOf(r, M) /\ x \in Seq(STRING)
    BY <1>10, <2>3
  <2>7. Append(q, x) = [k \in 1 .. M |-> IF k = M THEN x ELSE q[k]]
    BY <2>5, <2>6
  <2>8. \A k \in 1 .. M : (IF k = M THEN x ELSE q[k]) = NameOf(r, k)
    BY <2>5, <2>6
  <2> HIDE DEF p
  <2> QED
    BY <2>2, <2>5, <2>6, <2>7, <2>8
<1> QED
  BY <1>4, <1>5, <1>6, <1>7, <1>10, <1>11, <1>12, <1>13

\* Of the routes through the current entry, those that lead to a file.
LEMMA HereLeads ==
  ASSUME WalkInv, AtEntry, NEW r \in FileRoutes, Here(r)
  PROVE  /\ Named /\ HasInode(Child)
         /\ \/ Len(r) = Len(stack) /\ IsFile(Child)
            \/ Len(r) > Len(stack) /\ IsDir(Child) /\ Len(stack) <= DepthLimit
<1>1. PICK M \in Nat \ {0} : M = Len(stack)
  BY AtEntryFacts DEF WalkInv
<1>2. image \in Images /\ r \in Routes /\ LeadsToFile(r)
  BY DEF WalkInv, IInv, FileRoutes
<1>3. DOMAIN r = 1 .. Len(r) /\ Len(r) \in 1 .. DepthLimit + 1 /\ DepthLimit \in Nat
  BY <1>2, RouteFacts, ImageAssumption
<1>4. /\ M <= Len(r) /\ r[M] = Top.next
      /\ \A i \in 1 .. M - 1 : r[i] = stack[i].next - 1
  BY <1>1 DEF Here
<1>5. Above(r, M + 1) = Child /\ Entry(r, M).ref = Item.ref /\ (Leads(r, M) <=> Named)
  BY <1>1, <1>4, HereFacts
<1>6. \A k \in 1 .. Len(r) : Leads(r, k)
  BY <1>2, <1>3 DEF LeadsToFile
<1>7. Named
  BY <1>1, <1>3, <1>4, <1>5, <1>6
<1>8. CASE Len(r) = M
  <2>1. image.inodes[Target(r)] = Child
    BY <1>5, <1>8 DEF Target, Child
  <2> QED
    BY <1>1, <1>2, <1>7, <1>8, <2>1 DEF LeadsToFile
<1>9. CASE Len(r) # M
  <2>1. M + 1 \in 1 .. Len(r)
    <3>1. PICK l : l = Len(r) /\ l \in Nat
      BY <1>3
    <3>2. M <= l /\ l # M
      BY <1>4, <1>9, <3>1
    <3>3. M + 1 <= l /\ M + 1 >= 1
      BY <3>1, <3>2
    <3> QED
      BY <3>1, <3>3
  <2>2. Leads(r, M + 1)
    BY <1>6, <2>1
  <2>3. IsDir(Child) /\ HasInode(Child)
    BY <1>5, <2>2 DEF Leads
  <2>4. Len(r) > M /\ M <= DepthLimit
    BY <1>3, <2>1
  <2> QED
    BY <1>1, <1>7, <2>3, <2>4
<1> QED
  BY <1>8, <1>9

\* The tree stays what it is.
LEMMA SameTree ==
  ASSUME image' = image
  PROVE  /\ FileRoutes' = FileRoutes
         /\ \A r, k : /\ Above(r, k)' = Above(r, k) /\ NameOf(r, k)' = NameOf(r, k)
                      /\ Leads(r, k)' <=> Leads(r, k)
         /\ \A r : RoutePath(r)' = RoutePath(r) /\ Target(r)' = Target(r)
         /\ \A n : Listing(n)' = Listing(n) /\ (HasInode(n)' <=> HasInode(n))
<1>1. \A r, k : Above(r, k)' = Above(r, k)
  BY DEF Above, Root
<1>2. \A r, k : Entry(r, k)' = Entry(r, k)
  BY <1>1 DEF Entry
<1>3. \A n : ListingBytes(n)' = ListingBytes(n) /\ (HasInode(n)' <=> HasInode(n))
  BY DEF ListingBytes, HasInode
<1>4. \A r, k : NameOf(r, k)' = NameOf(r, k)
  BY <1>1, <1>2, <1>3 DEF NameOf
<1>5. \A r, k : Leads(r, k)' <=> Leads(r, k)
  BY <1>1, <1>3, <1>4 DEF Leads
<1>6. \A r : Target(r)' = Target(r)
  BY <1>2 DEF Target
<1>7. \A r : LeadsToFile(r)' <=> LeadsToFile(r)
  BY <1>3, <1>5, <1>6 DEF LeadsToFile
<1>8. Routes' = Routes
  BY DEF Routes
<1>9. FileRoutes' = FileRoutes
  BY <1>7, <1>8 DEF FileRoutes
<1>10. \A r : RoutePath(r)' = RoutePath(r)
  BY <1>4 DEF RoutePath
<1>11. \A n : Listing(n)' = Listing(n)
  BY <1>3 DEF Listing
<1> QED
  BY <1>1, <1>3, <1>4, <1>5, <1>6, <1>9, <1>10, <1>11

\* Going on in the innermost call leaves ahead all routes but those through the
\* entry it had come to.
LEMMA AheadAfterEntry ==
  ASSUME WalkInv, AtEntry, pc' = pc, stack' = Advanced, NEW r \in Routes
  PROVE  /\ Ahead(r) <=> Ahead(r)' \/ Here(r)
         /\ Here(r) => ~(Ahead(r)')
<1>1. PICK M \in Nat \ {0} : M = Len(stack)
  BY AtEntryFacts DEF WalkInv
<1>2. IInv /\ image \in Images /\ pc # "start" /\ pc' # "start"
  BY DEF WalkInv, IInv, AtEntry
<1>3. Top.next \in Nat /\ Top = stack[M]
  BY <1>1, <1>2, AtEntryFacts
<1>4. Len(stack') = M
  BY <1>1, <1>2, AdvancedFacts
<1>5. \A i \in 1 .. M : stack'[i].next = IF i = M THEN Top.next + 1 ELSE stack[i].next
  BY <1>1, <1>2, AdvancedFacts
<1>6. \A i \in 1 .. M : stack[i].next \in Nat
  BY <1>1, <1>2, TrailFacts
<1>7. Len(r) \in Nat /\ \A k \in 1 .. Len(r) : r[k] \in Nat
  BY <1>2, RouteFacts
<1>8. \A m \in 1 .. M - 1 : Leaves(r, m) <=> Leaves(r, m)'
  BY <1>5 DEF Leaves
<1>9. Leaves(r, M) <=> Leaves(r, M)' \/ Here(r)
  <2>1. \A i \in 1 .. M - 1 : stack'[i].next = stack[i].next
    BY <1>5
  <2>2. stack'[M].next = Top.next + 1 /\ stack[M].next = Top.next
    BY <1>3, <1>5
  <2>3. CASE M <= Len(r)
    <3>1. r[M] \in Nat
      BY <1>7, <2>3
    <3>2. r[M] >= Top.next <=> r[M] >= Top.next + 1 \/ r[M] = Top.next
      BY <1>3, <3>1
    <3> QED
      BY <1>1, <2>1, <2>2, <3>2 DEF Leaves, Here
  <2>4. CASE ~(M <= Len(r))
    BY <1>1, <2>4 DEF Leaves, Here
  <2> QED
    BY <2>3, <2>4
<1>10. Here(r) => ~(Leaves(r, M)')
  <2>1. stack'[M].next = Top.next + 1
    BY <1>5
  <2> QED
    BY <1>1, <1>3, <2>1 DEF Leaves, Here
<1>11. \A m \in 1 .. M - 1 : Here(r) => ~Leaves(r, m)
  BY <1>1, <1>6 DEF Leaves, Here
<1>12. \A m \in 1 .. M : m \in 1 .. M - 1 \/ m = M
  OBVIOUS
<1>13. Ahead(r) <=> \E m \in 1 .. M : Leaves(r, m)
  BY <1>1, <1>2 DEF Ahead, Unopened
<1>14. Ahead(r)' <=> \E m \in 1 .. M : Leaves(r, m)'
  BY <1>2, <1>4 DEF Ahead, Unopened
<1>15. M \in 1 .. M /\ \A m \in 1 .. M - 1 : m \in 1 .. M
  OBVIOUS
<1> QED
  BY <1>8, <1>9, <1>10, <1>11, <1>12, <1>13, <1>14, <1>15

\* Opening the entry keeps ahead the routes that go further than it.
LEMMA AheadAfterOpening ==
  ASSUME NEW r \in Routes, NEW M \in Nat \ {0}, M = Len(stack),
         WalkInv, AtEntry, pc' = pc, Len(stack') = M + 1, stack'[M + 1].next = 1,
         \A i \in 1 .. M : stack'[i].next = IF i = M THEN Top.next + 1 ELSE stack[i].next
  PROVE  Ahead(r) <=> Ahead(r)' \/ (Here(r) /\ Len(r) = M)
<1>1. M = Len(stack)
  OBVIOUS
<1>2. IInv /\ image \in Images /\ pc # "start" /\ pc' # "start"
  BY DEF WalkInv, IInv, AtEntry
<1>3. Top.next \in Nat /\ Top = stack[M]
  BY <1>1, <1>2, AtEntryFacts
<1>6. \A i \in 1 .. M : stack'[i].next = IF i = M THEN Top.next + 1 ELSE stack[i].next
  OBVIOUS
<1>7. \A i \in 1 .. M : stack[i].next \in Nat
  BY <1>1, <1>2, TrailFacts
<1>8. Len(r) \in Nat /\ \A k \in 1 .. Len(r) : r[k] \in Nat \ {0}
  BY <1>2, RouteFacts
<1>9. \A m \in 1 .. M - 1 : Leaves(r, m) <=> Leaves(r, m)'
  <2> SUFFICES ASSUME NEW m \in 1 .. M - 1
               PROVE  Leaves(r, m) <=> Leaves(r, m)'
    OBVIOUS
  <2>1. \A i \in 1 .. m : i \in 1 .. M /\ i # M
    OBVIOUS
  <2>2. \A i \in 1 .. m : stack'[i].next = stack[i].next
    BY <1>6, <2>1
  <2>3. m \in 1 .. m /\ \A i \in 1 .. m - 1 : i \in 1 .. m
    OBVIOUS
  <2> QED
    BY <2>2, <2>3 DEF Leaves
<1>10. \A i \in 1 .. M - 1 : stack'[i].next = stack[i].next
  BY <1>6
<1>11. stack'[M].next = Top.next + 1 /\ stack[M].next = Top.next
  BY <1>3, <1>6
<1>12. Leaves(r, M) <=> Leaves(r, M)' \/ Here(r)
  <2>1. CASE M <= Len(r)
    <3>1. r[M] \in Nat
      BY <1>8, <2>1
    <3>2. r[M] >= Top.next <=> r[M] >= Top.next + 1 \/ r[M] = Top.next
      BY <1>3, <3>1
    <3> QED
      BY <1>1, <1>10, <1>11, <3>2 DEF Leaves, Here
  <2>2. CASE ~(M <= Len(r))
    BY <1>1, <2>2 DEF Leaves, Here
  <2> QED
    BY <2>1, <2>2
<1>13. PICK K \in Nat : K = M + 1
  OBVIOUS
<1>14. Leaves(r, K)' <=> Here(r) /\ Len(r) # M
  <2>1. stack'[K].next = 1
    BY <1>13
  <2>2. \A i \in 1 .. K - 1 : i \in 1 .. M - 1 \/ i = M
    BY <1>13
  <2>3. \A i \in 1 .. M - 1 : i \in 1 .. K - 1
    BY <1>13
  <2>4. M \in 1 .. K - 1
    BY <1>13
  <2>5. stack'[M].next - 1 = Top.next
    BY <1>3, <1>11
  <2>6. (\A i \in 1 .. K - 1 : r[i] = stack'[i].next - 1)
          <=> r[M] = Top.next /\ \A i \in 1 .. M - 1 : r[i] = stack[i].next - 1
    BY <1>10, <2>2, <2>3, <2>4, <2>5
  <2>7. K <= Len(r) => r[K] >= 1
    BY <1>8, <1>13
  <2>8. K <= Len(r) <=> M <= Len(r) /\ Len(r) # M
    BY <1>8, <1>13
  <2> QED
    BY <1>1, <2>1, <2>6, <2>7, <2>8 DEF Leaves, Here
<1>15. Ahead(r) <=> \E m \in 1 .. M : Leaves(r, m)
  BY <1>1, <1>2 DEF Ahead, Unopened
<1>16. Ahead(r)' <=> \E m \in 1 .. K : Leaves(r, m)'
  BY <1>2, <1>13 DEF Ahead, Unopened
<1>17. /\ \A m \in 1 .. M : m \in 1 .. M - 1 \/ m = M
       /\ \A m \in 1 .. K : m \in 1 .. M - 1 \/ m = M \/ m = K
       /\ M \in 1 .. M /\ M \in 1 .. K /\ K \in 1 .. K
       /\ \A m \in 1 .. M - 1 : m \in 1 .. M /\ m \in 1 .. K
  BY <1>13
<1>18. Here(r) => ~(Leaves(r, M)')
  BY <1>1, <1>3, <1>11 DEF Leaves, Here
<1>19. \A m \in 1 .. M - 1 : Here(r) => ~Leaves(r, m)
  BY <1>1, <1>7 DEF Leaves, Here
<1> QED
  BY <1>1, <1>9, <1>12, <1>14, <1>15, <1>16, <1>17, <1>18, <1>19

\* Returning loses no route: none goes on behind the end of a listing.
LEMMA AheadAfterReturn ==
  ASSUME NEW r \in FileRoutes, NEW M \in Nat \ {0}, M = Len(stack),
         WalkInv, pc = "walk", pc' = pc, Len(stack') = M - 1,
         \A i \in 1 .. M - 1 : stack'[i] = stack[i],
         stack[M].next > Len(stack[M].listing)
  PROVE  Ahead(r) <=> Ahead(r)'
<1>1. IInv /\ OnTrail /\ image \in Images /\ r \in Routes /\ LeadsToFile(r)
  BY DEF WalkInv, IInv, FileRoutes
<1>2. /\ DOMAIN r = 1 .. Len(r) /\ Len(r) \in Nat
      /\ \A k \in 1 .. Len(r) : r[k] \in Nat \ {0}
  BY <1>1, RouteFacts
<1>3. \A i \in 1 .. M : Trail[i] = stack[i].next - 1 /\ stack[i].next \in Nat \ {0}
  BY <1>1, TrailFacts
<1>4. ASSUME Leaves(r, M)
      PROVE  FALSE
  <2>1. M \in 1 .. Len(r) /\ Leads(r, M)
    BY <1>1, <1>2, <1>4 DEF Leaves, LeadsToFile
  <2>2. Above(r, M) = Above(Trail, M)
    <3>1. \A i \in 1 .. M - 1 : r[i] = Trail[i]
      BY <1>3, <1>4 DEF Leaves
    <3> QED
      BY <3>1, SameAbove
  <2>3. PICK n : n = Above(r, M)
    OBVIOUS
  <2>4. stack[M].listing = Listing(n) /\ (M = 1 \/ IsDir(n)) /\ HasInode(n)
    <3>1. M \in 1 .. Len(stack)
      OBVIOUS
    <3> QED
      BY <1>1, <2>2, <2>3, <3>1 DEF OnTrail
  <2>5. r[M] \in Nat \ {0}
    BY <1>2, <2>1
  <2>6. r[M] <= Len(Listing(n))
    BY <1>1, <2>1, <2>3, <2>4, <2>5, EntryFacts
  <2>7. Len(Listing(n)) \in Nat
    BY <1>1, <2>3, AboveFacts, ListingFacts
  <2>8. r[M] >= stack[M].next
    BY <1>4 DEF Leaves
  <2> QED
    BY <1>3, <2>4, <2>5, <2>6, <2>7, <2>8
<1>5. \A m \in 1 .. M - 1 : Leaves(r, m) <=> Leaves(r, m)'
  <2> SUFFICES ASSUME NEW m \in 1 .. M - 1
               PROVE  Leaves(r, m) <=> Leaves(r, m)'
    OBVIOUS
  <2>1. \A i \in 1 .. m : stack'[i] = stack[i]
    OBVIOUS
  <2>2. m \in 1 .. m /\ \A i \in 1 .. m - 1 : i \in 1 .. m
    OBVIOUS
  <2> QED
    BY <2>1, <2>2 DEF Leaves
<1>6. Ahead(r) <=> \E m \in 1 .. M : Leaves(r, m)
  BY DEF Ahead, Unopened
<1>7. Ahead(r)' <=> \E m \in 1 .. M - 1 : Leaves(r, m)'
  BY DEF Ahead, Unopened
<1>8. /\ \A m \in 1 .. M : m \in 1 .. M - 1 \/ m = M
      /\ \A m \in 1 .. M - 1 : m \in 1 .. M
  OBVIOUS
<1> QED
  BY <1>4, <1>5, <1>6, <1>7, <1>8

\* The trail after a step: where the calls are as they were, they are on it.
LEMMA TrailAgrees ==
  ASSUME NEW m \in Nat \ {0}, WalkInv, image' = image,
         m <= Len(stack), m <= Len(stack'), Len(stack') \in Nat,
         \A i \in 1 .. m - 1 : stack'[i].next = stack[i].next,
         stack'[m].listing = stack[m].listing, stack'[m].prefix = stack[m].prefix
  PROVE  (/\ (m = 1 \/ IsDir(Above(Trail, m))) /\ HasInode(Above(Trail, m))
          /\ stack[m].listing = Listing(Above(Trail, m))
          /\ stack[m].prefix = [k \in 1 .. m - 1 |-> NameOf(Trail, k)]
          /\ \A k \in 1 .. m - 1 : Leads(Trail, k))'
<1>1. IInv /\ OnTrail /\ Len(stack) \in Nat
  BY TrailFacts DEF WalkInv
<1>2. PICK t : t = Trail'
  OBVIOUS
<1>3. \A i \in 1 .. m - 1 : t[i] = Trail[i]
  <2>1. \A i \in 1 .. m - 1 : i \in 1 .. Len(stack) /\ i \in 1 .. Len(stack')
    BY <1>1
  <2> QED
    BY <1>2, <2>1 DEF Trail
<1>4. m \in 1 .. Len(stack)
  BY <1>1
<1>5. /\ (m = 1 \/ IsDir(Above(Trail, m))) /\ HasInode(Above(Trail, m))
      /\ stack[m].listing = Listing(Above(Trail, m))
      /\ stack[m].prefix = [k \in 1 .. m - 1 |-> NameOf(Trail, k)]
      /\ \A k \in 1 .. m - 1 : Leads(Trail, k)
  BY <1>1, <1>4 DEF OnTrail
<1>6. Above(t, m) = Above(Trail, m)
  BY <1>3, SameAbove
<1>7. \A k \in 1 .. m - 1 : NameOf(t, k) = NameOf(Trail, k) /\ Leads(t, k)
  <2> SUFFICES ASSUME NEW k \in 1 .. m - 1
               PROVE  NameOf(t, k) = NameOf(Trail, k) /\ Leads(t, k)
    OBVIOUS
  <2>1. k \in Nat \ {0} /\ \A i \in 1 .. k : t[i] = Trail[i]
    BY <1>3
  <2> QED
    BY <1>5, <2>1, SameNames
<1>8. /\ (m = 1 \/ IsDir(Above(t, m))) /\ HasInode(Above(t, m))
      /\ stack'[m].listing = Listing(Above(t, m))
      /\ stack'[m].prefix = [k \in 1 .. m - 1 |-> NameOf(t, k)]
      /\ \A k \in 1 .. m - 1 : Leads(t, k)
  BY <1>5, <1>6, <1>7
<1>9. /\ \A r, k : /\ Above(r, k)' = Above(r, k) /\ NameOf(r, k)' = NameOf(r, k)
                   /\ Leads(r, k)' <=> Leads(r, k)
      /\ \A n : Listing(n)' = Listing(n) /\ (HasInode(n)' <=> HasInode(n))
  BY SameTree
<1> QED
  BY <1>2, <1>8, <1>9 DEF IsDir

\* OnTrail after a step, from the tree as it was.
LEMMA TrailHolds ==
  ASSUME image' = image, NEW t, t = Trail',
         \A m \in 1 .. Len(stack') :
           /\ (m = 1 \/ IsDir(Above(t, m))) /\ HasInode(Above(t, m))
           /\ stack'[m].listing = Listing(Above(t, m))
           /\ stack'[m].prefix = [k \in 1 .. m - 1 |-> NameOf(t, k)]
           /\ \A k \in 1 .. m - 1 : Leads(t, k)
  PROVE  OnTrail'
<1>1. /\ \A r, k : /\ Above(r, k)' = Above(r, k) /\ NameOf(r, k)' = NameOf(r, k)
                   /\ Leads(r, k)' <=> Leads(r, k)
      /\ \A n : Listing(n)' = Listing(n) /\ (HasInode(n)' <=> HasInode(n))
  BY SameTree
<1> QED
  BY <1>1 DEF OnTrail, IsDir

\* The calls below the innermost one go on where they were, and stay on the trail.
LEMMA TrailKept ==
  ASSUME NEW K \in Nat, K = Len(stack'), WalkInv, image' = image, K <= Len(stack),
         \A i \in 1 .. K : /\ stack'[i].listing = stack[i].listing
                           /\ stack'[i].prefix = stack[i].prefix
                           /\ i # K => stack'[i].next = stack[i].next
  PROVE  OnTrail'
<1>1. ASSUME NEW m \in 1 .. K
      PROVE  (/\ (m = 1 \/ IsDir(Above(Trail, m))) /\ HasInode(Above(Trail, m))
              /\ stack[m].listing = Listing(Above(Trail, m))
              /\ stack[m].prefix = [k \in 1 .. m - 1 |-> NameOf(Trail, k)]
              /\ \A k \in 1 .. m - 1 : Leads(Trail, k))'
  <2>1. m \in Nat \ {0} /\ m <= K /\ m <= Len(stack) /\ Len(stack) \in Nat
    BY TrailFacts DEF WalkInv
  <2>2. \A i \in 1 .. m - 1 : i \in 1 .. K /\ i # K
    OBVIOUS
  <2>3. \A i \in 1 .. m - 1 : stack'[i].next = stack[i].next
    BY <2>2
  <2> QED
    BY <2>1, <2>3, TrailAgrees
<1> QED
  BY <1>1 DEF OnTrail

LEMMA KeepsReturned ==
  ASSUME WalkInv, image' = image, out' = out,
         \A r \in FileRoutes : Ahead(r)' <=> Ahead(r)
  PROVE  (\E f : Returned(f))'
<1>1. Passed' = Passed
  BY SameTree DEF Passed
<1>2. PICK f : Returned(f)
  BY DEF WalkInv
<1>3. \A r : RoutePath(r)' = RoutePath(r) /\ Target(r)' = Target(r)
  BY SameTree
<1>4. Returned(f)'
  BY <1>1, <1>2, <1>3 DEF Returned
<1> QED
  BY <1>4

LEMMA StepWalk ==
  ASSUME WalkInv, IInv', Walk
  PROVE  WalkInv'
<1>1. /\ image' = image /\ out' = out /\ pc = "start" /\ pc' = "walk"
      /\ image \in Images
  BY DEF Walk, WalkInv, IInv
<1> DEFINE root == Root
<1>2. root \in Inode /\ <<>> \in Paths
  BY <1>1, ImageFacts DEF Paths, Root
<1>3. CASE HasInode(root)
  <2>1. PICK f \in Frame : /\ f = Call(root, <<>>) /\ f.next = 1
                           /\ f.listing = Listing(root) /\ f.prefix = <<>>
    BY <1>1, <1>2, CallFacts
  <2>2. stack' = <<f>>
    BY <1>3, <2>1 DEF Walk
  <2>3. Len(stack') = 1 /\ stack'[1] = f
    BY <2>2
  <2>4. ASSUME NEW r \in FileRoutes
        PROVE  Ahead(r)' /\ Ahead(r)
    <3>1. Len(r) \in 1 .. DepthLimit + 1 /\ DepthLimit \in Nat
          /\ \A k \in 1 .. Len(r) : r[k] \in Nat \ {0}
      BY <1>1, RouteFacts, ImageAssumption DEF FileRoutes
    <3>2. 1 <= Len(r) /\ r[1] >= 1
      BY <3>1
    <3>3. Leaves(r, 1)'
      BY <2>1, <2>3, <3>2 DEF Leaves
    <3>4. 1 \in 1 .. Len(stack')
      BY <2>3
    <3>5. Ahead(r)'
      BY <3>3, <3>4 DEF Ahead
    <3>6. Unopened
      BY <1>1 DEF Unopened
    <3>7. Ahead(r)
      BY <3>6 DEF Ahead
    <3> QED
      BY <3>5, <3>7
  <2>5. OnTrail'
    <3>1. PICK t : t = Trail'
      OBVIOUS
    <3>2. Above(t, 1) = root
      BY AboveRoot
    <3>3. \A m \in 1 .. Len(stack') : m = 1
      BY <2>3
    <3>4. ASSUME NEW m \in 1 .. Len(stack')
          PROVE  /\ (m = 1 \/ IsDir(Above(t, m))) /\ HasInode(Above(t, m))
                 /\ stack'[m].listing = Listing(Above(t, m))
                 /\ stack'[m].prefix = [k \in 1 .. m - 1 |-> NameOf(t, k)]
                 /\ \A k \in 1 .. m - 1 : Leads(t, k)
      <4>1. m = 1
        BY <3>3
      <4>2. 1 .. m - 1 = {}
        BY <4>1
      <4>3. [k \in 1 .. m - 1 |-> NameOf(t, k)] = <<>>
        BY <4>2
      <4>4. (m = 1 \/ IsDir(Above(t, m))) /\ HasInode(Above(t, m))
        BY <1>2, <1>3, <3>2, <4>1
      <4>5. stack'[m].listing = Listing(Above(t, m))
        BY <2>1, <2>3, <3>2, <4>1
      <4>6. stack'[m].prefix = [k \in 1 .. m - 1 |-> NameOf(t, k)]
        BY <2>1, <2>3, <4>1, <4>3
      <4> HIDE DEF root
      <4> QED
        BY <4>2, <4>4, <4>5, <4>6
    <3>5. image' = image
      BY <1>1
    <3> HIDE DEF root
    <3> QED
      BY <3>1, <3>4, <3>5, TrailHolds
  <2> QED
    BY <1>1, <2>4, <2>5, KeepsReturned DEF WalkInv
<1>4. CASE ~HasInode(root)
  <2>1. stack' = <<>>
    BY <1>4 DEF Walk
  <2>2. ASSUME NEW r \in FileRoutes
        PROVE  FALSE
    <3>1. r \in Routes /\ LeadsToFile(r)
      BY DEF FileRoutes
    <3>2. DOMAIN r = 1 .. Len(r) /\ Len(r) \in 1 .. DepthLimit + 1 /\ DepthLimit \in Nat
      BY <1>1, <3>1, RouteFacts, ImageAssumption
    <3>3. 1 \in DOMAIN r
      BY <3>2
    <3>4. HasInode(Above(r, 1))
      BY <3>1, <3>3 DEF LeadsToFile, Leads
    <3> QED
      BY <1>4, <3>4, AboveRoot
  <2>3. OnTrail'
    BY <2>1 DEF OnTrail
  <2> QED
    BY <1>1, <2>2, <2>3, KeepsReturned DEF WalkInv
<1> QED
  BY <1>3, <1>4

LEMMA StepSkip ==
  ASSUME WalkInv, IInv', SkipEntry
  PROVE  WalkInv'
<1>1. /\ image' = image /\ out' = out /\ pc = "walk" /\ pc' = pc
      /\ AtEntry /\ Skipped /\ stack' = Advanced /\ image \in Images /\ IInv
  BY DEF SkipEntry, AtEntry, WalkInv, IInv
<1>2. ASSUME NEW r \in FileRoutes
      PROVE  Ahead(r)' <=> Ahead(r)
  <2>1. r \in Routes
    BY DEF FileRoutes
  <2>2. ~Here(r)
    <3> SUFFICES ASSUME Here(r)
                 PROVE  FALSE
      OBVIOUS
    <3>1. /\ Named /\ HasInode(Child)
          /\ \/ IsFile(Child)
             \/ IsDir(Child) /\ Len(stack) <= DepthLimit
      BY <1>1, HereLeads
    <3>2. IsFile(Child) => ~IsDir(Child)
      BY DEF IsFile, IsDir
    <3>3. Len(stack) \in Nat /\ DepthLimit \in Nat
      BY TrailFacts, ImageAssumption DEF WalkInv
    <3> QED
      BY <1>1, <3>1, <3>2, <3>3 DEF Skipped
  <2> QED
    BY <1>1, <2>1, <2>2, AheadAfterEntry
<1>3. /\ Len(stack') = Len(stack) /\ Len(stack) \in Nat
      /\ \A i \in 1 .. Len(stack) :
           /\ stack'[i].listing = stack[i].listing /\ stack'[i].prefix = stack[i].prefix
           /\ i # Len(stack) => stack'[i].next = stack[i].next
  BY <1>1, AdvancedFacts, TrailFacts
<1>4. OnTrail'
  BY <1>1, <1>3, TrailKept
<1> QED
  BY <1>1, <1>2, <1>4, KeepsReturned DEF WalkInv

LEMMA StepReturn ==
  ASSUME WalkInv, IInv', Return
  PROVE  WalkInv'
<1>1. /\ image' = image /\ out' = out /\ pc = "walk" /\ pc' = pc
      /\ stack # <<>> /\ stack' = Front(stack) /\ image \in Images /\ stack \in Seq(Frame)
      /\ Top.next > Len(Top.listing)
  BY DEF Return, WalkInv, IInv, StackInv
<1>2. PICK M \in Nat \ {0} : M = Len(stack) /\ Top = stack[M]
  BY <1>1 DEF Top, Last
<1>3. Len(stack') = M - 1 /\ \A i \in 1 .. M - 1 : stack'[i] = stack[i]
  BY <1>1, <1>2, PopFacts
<1>4. \A r \in FileRoutes : Ahead(r)' <=> Ahead(r)
  BY <1>1, <1>2, <1>3, AheadAfterReturn
<1>5. PICK K \in Nat : K = M - 1 /\ K <= M
  BY <1>2
<1>6. \A i \in 1 .. K : /\ stack'[i].listing = stack[i].listing
                        /\ stack'[i].prefix = stack[i].prefix
                        /\ i # K => stack'[i].next = stack[i].next
  BY <1>3, <1>5
<1>7. OnTrail'
  BY <1>1, <1>2, <1>3, <1>5, <1>6, TrailKept
<1> QED
  BY <1>1, <1>4, <1>7, KeepsReturned DEF WalkInv

LEMMA StepDescend ==
  ASSUME WalkInv, IInv', Descend
  PROVE  WalkInv'
<1>1. /\ image' = image /\ out' = out /\ pc = "walk" /\ pc' = pc
      /\ AtEntry /\ Named /\ IsDir(Child) /\ HasInode(Child)
      /\ stack' = Append(Advanced, Call(Child, ItemPath)) /\ image \in Images /\ IInv
  BY DEF Descend, AtEntry, WalkInv, IInv
<1>2. PICK M \in Nat \ {0} : M = Len(stack)
  BY <1>1, AtEntryFacts
<1>3. PICK f \in Frame : /\ f = Call(Child, ItemPath) /\ f.next = 1
                         /\ f.listing = Listing(Child) /\ f.prefix = ItemPath
  <2>1. Child \in Inode /\ ItemPath \in Paths
    BY <1>1, AtEntryFacts
  <2> QED
    BY <1>1, <2>1, CallFacts
<1>4. PICK s \in Seq(Frame) : s = Advanced /\ Len(s) = M
  BY <1>1, <1>2, AdvancedFacts
<1>5. Len(stack') = M + 1 /\ stack'[M + 1] = f /\ \A i \in 1 .. M : stack'[i] = s[i]
  <2>1. stack' = Append(s, f)
    BY <1>1, <1>3, <1>4
  <2> QED
    BY <1>4, <2>1, PushFacts
<1>6. \A i \in 1 .. M : /\ stack'[i].listing = stack[i].listing
                        /\ stack'[i].prefix = stack[i].prefix
                        /\ stack'[i].next = IF i = M THEN Top.next + 1 ELSE stack[i].next
  BY <1>1, <1>2, <1>4, <1>5, AdvancedFacts
<1>7. ASSUME NEW r \in FileRoutes
      PROVE  Ahead(r)' <=> Ahead(r)
  <2>1. r \in Routes
    BY DEF FileRoutes
  <2>2. ~(Here(r) /\ Len(r) = M)
    <3>1. Here(r) /\ Len(r) = M => IsFile(Child)
      BY <1>1, <1>2, HereLeads
    <3>2. IsFile(Child) => ~IsDir(Child)
      BY DEF IsFile, IsDir
    <3> QED
      BY <1>1, <3>1, <3>2
  <2>3. stack'[M + 1].next = 1
    BY <1>3, <1>5
  <2>4. Ahead(r) <=> Ahead(r)' \/ (Here(r) /\ Len(r) = M)
    BY <1>1, <1>2, <1>5, <1>6, <2>1, <2>3, AheadAfterOpening
  <2> QED
    BY <2>2, <2>4
<1>8. PICK t : t = Trail'
  OBVIOUS
<1>9. PICK K \in Nat \ {0} : K = M + 1
  OBVIOUS
<1>10. \A i \in 1 .. M : t[i] = stack'[i].next - 1
  <2>1. \A i \in 1 .. M : i \in 1 .. Len(stack')
    BY <1>5
  <2> QED
    BY <1>8, <2>1 DEF Trail
<1>11. (\A i \in 1 .. M - 1 : t[i] = stack[i].next - 1) /\ t[M] = Top.next
  <2>1. \A i \in 1 .. M - 1 : i \in 1 .. M /\ i # M
    OBVIOUS
  <2>2. M \in 1 .. M /\ Top.next \in Nat
    BY <1>1, AtEntryFacts
  <2> QED
    BY <1>6, <1>10, <2>1, <2>2
<1>12. /\ Above(t, K) = Child /\ Leads(t, M) /\ \A k \in 1 .. M - 1 : Leads(t, k)
       /\ ItemPath = [k \in 1 .. M |-> NameOf(t, k)]
  BY <1>1, <1>2, <1>9, <1>11, HereFacts
<1>13. (/\ (K = 1 \/ IsDir(Above(Trail, K))) /\ HasInode(Above(Trail, K))
        /\ stack[K].listing = Listing(Above(Trail, K))
        /\ stack[K].prefix = [k \in 1 .. K - 1 |-> NameOf(Trail, k)]
        /\ \A k \in 1 .. K - 1 : Leads(Trail, k))'
  <2>1. K - 1 = M /\ \A k \in 1 .. M : k \in 1 .. M - 1 \/ k = M
    BY <1>9
  <2>2. stack'[K].listing = Listing(Above(t, K)) /\ stack'[K].prefix = ItemPath
    BY <1>3, <1>5, <1>9, <1>12
  <2>3. \A k \in 1 .. K - 1 : Leads(t, k)
    BY <1>12, <2>1
  <2>4. ItemPath = [k \in 1 .. K - 1 |-> NameOf(t, k)]
    BY <1>12, <2>1
  <2>5. /\ \A r, k : /\ Above(r, k)' = Above(r, k) /\ NameOf(r, k)' = NameOf(r, k)
                     /\ Leads(r, k)' <=> Leads(r, k)
        /\ \A n : Listing(n)' = Listing(n) /\ (HasInode(n)' <=> HasInode(n))
    BY <1>1, SameTree
  <2>6. (K = 1 \/ IsDir(Above(t, K))) /\ HasInode(Above(t, K))
    BY <1>1, <1>12
  <2> QED
    BY <1>8, <2>2, <2>3, <2>4, <2>5, <2>6 DEF IsDir
<1>14. ASSUME NEW m \in 1 .. M
       PROVE  (/\ (m = 1 \/ IsDir(Above(Trail, m))) /\ HasInode(Above(Trail, m))
               /\ stack[m].listing = Listing(Above(Trail, m))
               /\ stack[m].prefix = [k \in 1 .. m - 1 |-> NameOf(Trail, k)]
               /\ \A k \in 1 .. m - 1 : Leads(Trail, k))'
  <2>1. m \in Nat \ {0} /\ m <= Len(stack) /\ m <= Len(stack') /\ Len(stack') \in Nat
    BY <1>2, <1>5
  <2>2. \A i \in 1 .. m - 1 : i \in 1 .. M /\ i # M
    OBVIOUS
  <2>3. \A i \in 1 .. m - 1 : stack'[i].next = stack[i].next
    BY <1>6, <2>2
  <2> QED
    BY <1>1, <1>6, <2>1, <2>3, TrailAgrees
<1>15. OnTrail'
  <2>1. \A m \in 1 .. Len(stack') : m \in 1 .. M \/ m = K
    BY <1>5, <1>9
  <2> QED
    BY <1>13, <1>14, <2>1 DEF OnTrail
<1> QED
  BY <1>1, <1>7, <1>15, KeepsReturned DEF WalkInv

\* The route the walk has come to, when it comes to a file.
LEMMA ReadRoute ==
  ASSUME WalkInv, AtEntry, Named, HasInode(Child), IsFile(Child)
  PROVE  \E h \in FileRoutes : /\ Here(h) /\ RoutePath(h) = ItemPath /\ Target(h) = Item.ref
                               /\ \A r \in FileRoutes : Here(r) => r = h
<1>1. IInv /\ image \in Images /\ DepthLimit \in Nat
  BY ImageAssumption DEF WalkInv, IInv
<1>2. PICK M \in Nat \ {0} : M = Len(stack)
  BY <1>1, AtEntryFacts
<1>3. M \in 1 .. DepthLimit + 1
  <2>1. Len(stack) <= DepthLimit + 1
    BY <1>1 DEF IInv, StackInv
  <2> QED
    BY <1>1, <1>2, <2>1
<1>4. Top.next \in Nat \ {0} /\ \A i \in 1 .. M : stack[i].next \in Nat \ {0}
  BY <1>1, <1>2, AtEntryFacts, TrailFacts
<1> DEFINE H == [i \in 1 .. M |-> IF i = M THEN Top.next ELSE stack[i].next - 1]
<1>5. PICK h : h = H
  OBVIOUS
<1>6. DOMAIN h = 1 .. M /\ h = [i \in 1 .. M |-> h[i]] /\ h \in Seq(Nat) /\ Len(h) = M
  <2>1. \A i \in 1 .. M : (IF i = M THEN Top.next ELSE stack[i].next - 1) \in Nat
    BY <1>4
  <2>2. h \in [1 .. M -> Nat]
    BY <1>5, <2>1
  <2> HIDE DEF H
  <2> QED
    BY <2>2
<1>7. h[M] = Top.next /\ \A i \in 1 .. M - 1 : h[i] = stack[i].next - 1
  <2>1. M \in 1 .. M /\ \A i \in 1 .. M - 1 : i \in 1 .. M /\ i # M
    OBVIOUS
  <2> QED
    BY <1>5, <2>1
<1> HIDE DEF H
<1>8. /\ h[M] \in DOMAIN Above(h, M).listing /\ Entry(h, M).ref = Item.ref
      /\ Leads(h, M) /\ \A k \in 1 .. M - 1 : Leads(h, k)
      /\ ItemPath = [k \in 1 .. M |-> NameOf(h, k)]
  BY <1>2, <1>7, HereFacts
<1>9. \A k \in 1 .. M : k \in 1 .. M - 1 \/ k = M
  OBVIOUS
<1>10. \A k \in 1 .. M : Leads(h, k)
  BY <1>8, <1>9
<1>11. h \in Routes
  <2>1. \A k \in 1 .. M : h[k] \in DOMAIN Above(h, k).listing
    BY <1>10 DEF Leads
  <2> QED
    BY <1>1, <1>3, <1>6, <2>1, IsRoute
<1>12. Target(h) = Item.ref
  BY <1>6, <1>8 DEF Target
<1>13. h \in FileRoutes
  BY <1>6, <1>10, <1>11, <1>12 DEF FileRoutes, LeadsToFile, Child
<1>14. Here(h)
  <2>1. M <= Len(h)
    BY <1>6
  <2>2. h[M] = Top.next
    BY <1>7
  <2>3. \A i \in 1 .. M - 1 : h[i] = stack[i].next - 1
    BY <1>7
  <2> QED
    BY <1>2, <2>1, <2>2, <2>3, Zenon DEF Here
<1>15. RoutePath(h) = ItemPath
  BY <1>6, <1>8 DEF RoutePath
<1>16. ASSUME NEW r \in FileRoutes, Here(r)
       PROVE  r = h
  <2>1. Len(r) = M
    <3>1. IsFile(Child) => ~IsDir(Child)
      BY DEF IsFile, IsDir
    <3> QED
      BY <1>2, <1>16, <3>1, HereLeads
  <2>2. r \in Seq(Nat) /\ DOMAIN r = 1 .. Len(r)
    BY <1>1, RouteFacts DEF FileRoutes
  <2>3. r[M] = Top.next /\ \A i \in 1 .. M - 1 : r[i] = stack[i].next - 1
    BY <1>2, <1>16 DEF Here
  <2>4. \A i \in 1 .. M : r[i] = h[i]
    BY <1>7, <1>9, <2>3
  <2>5. r = [i \in 1 .. M |-> r[i]]
    BY <2>1, <2>2
  <2> QED
    BY <1>6, <2>4, <2>5
<1> QED
  BY <1>12, <1>13, <1>14, <1>15, <1>16

LEMMA StepReadFile ==
  ASSUME WalkInv, IInv', ReadFile
  PROVE  WalkInv'
<1>1. /\ image' = image /\ pc = "walk" /\ pc' = pc
      /\ AtEntry /\ Named /\ IsFile(Child) /\ HasInode(Child)
      /\ stack' = Advanced /\ image \in Images /\ IInv
  BY DEF ReadFile, AtEntry, WalkInv, IInv
<1>2. PICK h \in FileRoutes : /\ Here(h) /\ RoutePath(h) = ItemPath /\ Target(h) = Item.ref
                              /\ \A r \in FileRoutes : Here(r) => r = h
  BY <1>1, ReadRoute
<1>3. \A r \in FileRoutes : /\ Ahead(r) <=> Ahead(r)' \/ r = h
                            /\ r = h => ~(Ahead(r)')
  BY <1>1, <1>2, AheadAfterEntry DEF FileRoutes
<1>4. FileRoutes' = FileRoutes
  BY <1>1, SameTree
<1>5. Passed' = Passed \cup {h} /\ h \notin Passed
  <2>1. Passed' = {r \in FileRoutes : ~(Ahead(r)')}
    BY <1>4 DEF Passed
  <2> QED
    BY <1>2, <1>3, <2>1 DEF Passed
<1>6. PICK e : /\ e = [path |-> ItemPath, data |-> FileData(Child), file |-> Item.ref]
               /\ e.path = RoutePath(h) /\ e.file = Target(h)
  <2> DEFINE e0 == [path |-> ItemPath, data |-> FileData(Child), file |-> Item.ref]
  <2>1. e0.path = ItemPath /\ e0.file = Item.ref
    OBVIOUS
  <2> HIDE DEF e0
  <2>2. \E e : e = e0 /\ e.path = RoutePath(h) /\ e.file = Target(h)
    BY <1>2, <2>1
  <2> QED
    BY <2>2 DEF e0
<1>7. out' = Append(out, e)
  BY <1>6 DEF ReadFile
<1>8. PICK f : Returned(f)
  BY DEF WalkInv
<1>9. PICK N \in Nat : N = Len(out)
  BY <1>1 DEF IInv, OutInv
<1>10. Len(out') = N + 1 /\ out'[N + 1] = e /\ \A i \in 1 .. N : out'[i] = out[i]
  <2>1. \E U : out \in Seq(U) /\ e \in U
    <3>1. PICK R : out \in Seq(R)
      BY <1>1 DEF IInv, OutInv
    <3>2. out = [i \in 1 .. N |-> out[i]] /\ \A i \in 1 .. N : out[i] \in R \cup {e}
      BY <1>9, <3>1
    <3>3. out \in Seq(R \cup {e})
      BY <3>2
    <3> QED
      BY <3>3
  <2>2. PICK U : out \in Seq(U) /\ e \in U
    BY <2>1
  <2> QED
    BY <1>7, <1>9, <2>2
<1>11. PICK K \in Nat \ {0} : K = N + 1
  BY <1>9
<1> DEFINE G == [i \in 1 .. K |-> IF i = K THEN h ELSE f[i]]
<1>12. PICK g : g = G
  OBVIOUS
<1>13. DOMAIN g = 1 .. K /\ g[K] = h /\ \A i \in 1 .. N : g[i] = f[i]
  <2>1. K \in 1 .. K /\ \A i \in 1 .. N : i \in 1 .. K /\ i # K
    BY <1>11
  <2> QED
    BY <1>12, <2>1
<1>14. g = [i \in 1 .. K |-> g[i]]
  BY <1>12
<1> HIDE DEF G
<1>15. \A i \in 1 .. K : i \in 1 .. N \/ i = K
  BY <1>11
<1>16. /\ \A i \in 1 .. N : f[i] \in Passed
       /\ \A i, j \in 1 .. N : f[i] = f[j] => i = j
       /\ \A r \in Passed : \E i \in 1 .. N : f[i] = r
       /\ \A i \in 1 .. N : out[i].path = RoutePath(f[i]) /\ out[i].file = Target(f[i])
  BY <1>8, <1>9 DEF Returned
<1>17. g \in [1 .. K -> Passed']
  <2>1. \A i \in 1 .. K : g[i] \in Passed'
    BY <1>5, <1>13, <1>15, <1>16
  <2> QED
    BY <1>14, <2>1
<1>18. \A i, j \in 1 .. K : g[i] = g[j] => i = j
  BY <1>5, <1>13, <1>15, <1>16
<1>19. \A r \in Passed' : \E i \in 1 .. K : g[i] = r
  <2>1. K \in 1 .. K /\ \A i \in 1 .. N : i \in 1 .. K
    BY <1>11
  <2> QED
    BY <1>5, <1>13, <1>16, <2>1
<1>20. \A i \in 1 .. K : out'[i].path = RoutePath(g[i]) /\ out'[i].file = Target(g[i])
  BY <1>6, <1>10, <1>11, <1>13, <1>15, <1>16
<1>21. Returned(g)'
  <2>1. \A r : RoutePath(r)' = RoutePath(r) /\ Target(r)' = Target(r)
    BY <1>1, SameTree
  <2>2. Len(out') = K
    BY <1>10, <1>11
  <2> QED
    BY <1>17, <1>18, <1>19, <1>20, <2>1, <2>2 DEF Returned
<1>22. (\E x : Returned(x))'
  BY <1>21
<1>23. OnTrail'
  <2>1. /\ Len(stack') = Len(stack) /\ Len(stack) \in Nat
        /\ \A i \in 1 .. Len(stack) :
             /\ stack'[i].listing = stack[i].listing /\ stack'[i].prefix = stack[i].prefix
             /\ i # Len(stack) => stack'[i].next = stack[i].next
    BY <1>1, AdvancedFacts, TrailFacts
  <2> QED
    BY <1>1, <2>1, TrailKept
<1> QED
  BY <1>1, <1>22, <1>23 DEF WalkInv

\* Nothing moves.
LEMMA StepStays ==
  ASSUME WalkInv, IInv', image' = image, stack' = stack, out' = out,
         Unopened <=> Unopened', pc' = "start" => pc = "start", pc' = "done" => stack = <<>>
  PROVE  WalkInv'
<1>1. Trail' = Trail
  BY DEF Trail
<1>2. OnTrail'
  <2>1. PICK t : t = Trail'
    OBVIOUS
  <2> QED
    BY <1>1, <2>1, TrailHolds DEF WalkInv, OnTrail
<1>3. \A r, m : Leaves(r, m)' <=> Leaves(r, m)
  BY DEF Leaves
<1>4. \A r \in FileRoutes : Ahead(r)' <=> Ahead(r)
  BY <1>3 DEF Ahead, Unopened
<1> QED
  BY <1>2, <1>4, KeepsReturned DEF WalkInv

LEMMA InitWalkInv ==
  Init => WalkInv
<1> SUFFICES ASSUME Init
             PROVE  WalkInv
  OBVIOUS
<1>1. stack = <<>> /\ out = <<>> /\ pc = "start"
  BY DEF Init
<1>2. OnTrail
  BY <1>1 DEF OnTrail
<1>3. Passed = {}
  BY <1>1 DEF Passed, Ahead, Unopened
<1>4. Returned(<<>>)
  BY <1>1, <1>3 DEF Returned
<1> QED
  BY <1>1, <1>2, <1>4, InitIInv DEF WalkInv

LEMMA NextWalkInv ==
  ASSUME WalkInv, [Next]_vars
  PROVE  WalkInv'
<1>1. IInv'
  BY NextIInv DEF WalkInv
<1>2. CASE Walk
  BY <1>1, <1>2, StepWalk
<1>3. CASE Crash
  <2>1. image' = image /\ stack' = stack /\ out' = out /\ pc' = "crashed"
    BY <1>3 DEF Crash
  <2>2. Unopened <=> Unopened'
    BY <1>3, <2>1 DEF Unopened, Crash, AtEntry, WalkInv
  <2> QED
    BY <1>1, <2>1, <2>2, StepStays
<1>4. CASE SkipEntry
  BY <1>1, <1>4, StepSkip
<1>5. CASE Descend
  BY <1>1, <1>5, StepDescend
<1>6. CASE ReadFile
  BY <1>1, <1>6, StepReadFile
<1>7. CASE Return
  BY <1>1, <1>7, StepReturn
<1>8. CASE Finish
  BY <1>1, <1>8, StepStays DEF Finish, Unopened
<1>9. CASE UNCHANGED vars
  BY <1>1, <1>9, StepStays DEF vars, WalkInv, Unopened
<1> QED
  BY <1>2, <1>3, <1>4, <1>5, <1>6, <1>7, <1>8, <1>9 DEF Next

\* At the end nothing is ahead.
LEMMA WalkInvImplies ==
  ASSUME WalkInv
  PROVE  WalkIsComplete
<1>1. IInv
  BY DEF WalkInv
<1>2. TypeOK
  <2>1. image.inodes \in [Ref -> Inode]
    BY <1>1, ImageAssumption DEF IInv
  <2>2. stack \in Seq(Frame) /\ Len(stack) \in Nat /\ DOMAIN stack = 1 .. Len(stack)
    BY <1>1 DEF IInv, StackInv
  <2>3. \A i \in DOMAIN stack : stack[i].next \in 1 .. Len(stack[i].listing) + 1
    <3> SUFFICES ASSUME NEW i \in DOMAIN stack
                 PROVE  stack[i].next \in 1 .. Len(stack[i].listing) + 1
      OBVIOUS
    <3>1. stack[i] \in Frame
      BY <2>2
    <3>2. stack[i].next \in Nat \ {0} /\ Len(stack[i].listing) \in Nat
      BY <3>1 DEF Frame
    <3>3. stack[i].next <= Len(stack[i].listing) + 1
      BY <1>1, <2>2 DEF IInv, StackInv
    <3> QED
      BY <3>2, <3>3
  <2>4. \A i \in DOMAIN out : out[i].file \in Ref /\ out[i].data \in Seq(Nat)
    <3> SUFFICES ASSUME NEW i \in DOMAIN out
                 PROVE  out[i].file \in Ref /\ out[i].data \in Seq(Nat)
      OBVIOUS
    <3>1. out[i] \in [path : Paths, data : Seq(Nat), file : Ref]
      <4>1. PICK R : R = [path : Paths, data : Seq(Nat), file : Ref]
        OBVIOUS
      <4>2. out \in Seq(R)
        BY <1>1, <4>1 DEF IInv, OutInv
      <4>3. out[i] \in R
        BY <4>2
      <4> QED
        BY <4>1, <4>3
    <3> QED
      BY <3>1
  <2> QED
    BY <1>1, <2>1, <2>3, <2>4 DEF TypeOK, IInv, StackInv
<1>3. ASSUME pc = "done"
      PROVE  /\ Len(out) = Cardinality(FileRoutes)
             /\ {[path |-> out[i].path, file |-> out[i].file] : i \in DOMAIN out}
                  = {[path |-> RoutePath(r), file |-> Target(r)] : r \in FileRoutes}
  <2>1. stack = <<>>
    BY <1>3 DEF WalkInv
  <2>2. Passed = FileRoutes
    BY <1>3, <2>1 DEF Passed, Ahead, Unopened
  <2>3. PICK f : Returned(f)
    BY DEF WalkInv
  <2>4. PICK N \in Nat : N = Len(out) /\ DOMAIN out = 1 .. N
    BY <1>1 DEF IInv, OutInv
  <2>5. /\ f \in [1 .. N -> FileRoutes]
        /\ \A i, j \in 1 .. N : f[i] = f[j] => i = j
        /\ \A r \in FileRoutes : \E i \in 1 .. N : f[i] = r
        /\ \A i \in 1 .. N : out[i].path = RoutePath(f[i]) /\ out[i].file = Target(f[i])
    BY <2>2, <2>3, <2>4 DEF Returned
  <2>6. ExistsBijection(1 .. N, FileRoutes)
    <3>1. IsInjective(f)
      <4>1. DOMAIN f = 1 .. N
        BY <2>5
      <4> QED
        BY <2>5, <4>1 DEF IsInjective
    <3>2. f \in Injection(1 .. N, FileRoutes)
      BY <2>5, <3>1 DEF Injection
    <3>3. f \in Surjection(1 .. N, FileRoutes)
      BY <2>5 DEF Surjection
    <3> QED
      BY <3>2, <3>3 DEF ExistsBijection, Bijection
  <2>7. IsFiniteSet(1 .. N) /\ Cardinality(1 .. N) = N
    <3>1. 1 \in Int /\ N \in Int
      OBVIOUS
    <3>2. IsFiniteSet(1 .. N)
      BY <3>1, FS_Interval
    <3>3. Cardinality(1 .. N) = N
      BY <3>1, FS_Interval
    <3> QED
      BY <3>2, <3>3
  <2>8. Cardinality(FileRoutes) = N
    BY <2>6, <2>7, FS_Bijection
  <2>9. ASSUME NEW i \in 1 .. N
        PROVE  [path |-> out[i].path, file |-> out[i].file]
                 \in {[path |-> RoutePath(r), file |-> Target(r)] : r \in FileRoutes}
    <3>1. f[i] \in FileRoutes
      BY <2>5
    <3> QED
      BY <2>5, <3>1
  <2>10. ASSUME NEW r \in FileRoutes
         PROVE  [path |-> RoutePath(r), file |-> Target(r)]
                  \in {[path |-> out[i].path, file |-> out[i].file] : i \in DOMAIN out}
    BY <2>4, <2>5
  <2> QED
    BY <2>4, <2>8, <2>9, <2>10
<1> QED
  BY <1>2, <1>3 DEF WalkIsComplete, FileRoutes

\* walk returns every file that a readable route leads to, once, under its path,
\* and no other: on every image, with every cycle and every unreadable part, and
\* down to the depth limit exactly.
THEOREM EveryReadableFileIsReturned ==
  Spec => []WalkIsComplete
<1>1. Init => WalkInv
  BY InitWalkInv
<1>2. WalkInv /\ [Next]_vars => WalkInv'
  BY NextWalkInv
<1>3. WalkInv => WalkIsComplete
  BY WalkInvImplies
<1> QED
  BY <1>1, <1>2, <1>3, PTL DEF Spec
=============================================================================
