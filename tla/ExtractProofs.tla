--------------------------- MODULE ExtractProofs ----------------------------
(***************************************************************************)
(* What extract leaves behind is the truth about the image: the files are  *)
(* those of the first filesystem that can be read, and the gaps are what   *)
(* was met and not read. The store under it implements a map from paths to *)
(* bytes.                                                                  *)
(*                                                                         *)
(* The properties speak of the end. What makes them inductive is           *)
(* PassedRightly: of the hits the loops have gone on from none can be read *)
(* and each that has no reader is declared; and that the hits a loop runs  *)
(* over are in the order of the image and leave out only what is not       *)
(* believable or crowded out. The latter is about find_filesystems, whose  *)
(* search by kind is a recursion and whose sort an induction: both go by   *)
(* the least element of a set of numbers (Least), as the induction         *)
(* theorems of the library cannot be instantiated.                         *)
(***************************************************************************)
EXTENDS Extract, FiniteSetTheorems, WellFoundedInduction, TLAPS

\* Every set of numbers that is not empty has a least one.
LEMMA Least ==
  ASSUME NEW S, S \subseteq Nat, S # {}
  PROVE  \E n \in S : \A m \in S : ~(m < n)
<1>1. IsWellFoundedOn(OpToRel(<, Nat), Nat)
  BY NatLessThanWellFounded
<1>2. PICK n \in S : \A m \in S : ~(<<m, n>> \in OpToRel(<, Nat))
  BY <1>1, WFMin
<1>3. \A m \in S : <<m, n>> \in OpToRel(<, Nat) <=> m < n
  BY DEF OpToRel
<1> QED
  BY <1>2, <1>3

\* Induction, over a set instead of a formula.
LEMMA EveryNumber ==
  ASSUME NEW S, 0 \in S, \A n \in Nat : n \in S => n + 1 \in S
  PROVE  Nat \subseteq S
<1> SUFFICES ASSUME Nat \ S # {}
             PROVE  FALSE
  OBVIOUS
<1>1. PICK n \in Nat \ S : \A m \in Nat \ S : ~(m < n)
  BY Least
<1>2. n # 0 /\ n - 1 \in Nat /\ n - 1 < n
  BY <1>1
<1>3. n - 1 + 1 \in S
  BY <1>1, <1>2
<1> QED
  BY <1>1, <1>2, <1>3

-----------------------------------------------------------------------------
\* The hits by kind, as the search adds them.
HitsBody(magics, f, k) ==
  IF k = 0 THEN {} ELSE f[k - 1] \cup HitsOfKind(magics, k, f[k - 1])

\* The search has a result for any number of kinds.
LEMMA SearchDefined ==
  ASSUME NEW magics, NEW K \in Nat
  PROVE  \E f : f = [k \in 0 .. K |-> HitsBody(magics, f, k)]
<1> DEFINE S == {n \in Nat : \E f : f = [k \in 0 .. n |-> HitsBody(magics, f, k)]}
<1>1. 0 \in S
  <2> DEFINE f == [k \in 0 .. 0 |-> {}]
  <2>1. f = [k \in 0 .. 0 |-> HitsBody(magics, f, k)]
    BY DEF HitsBody
  <2> QED
    BY <2>1
<1>2. ASSUME NEW n \in Nat, n \in S
      PROVE  n + 1 \in S
  <2>1. PICK f : f = [k \in 0 .. n |-> HitsBody(magics, f, k)]
    BY <1>2
  <2> DEFINE g == [k \in 0 .. n + 1 |-> IF k = n + 1 THEN HitsBody(magics, f, k) ELSE f[k]]
  <2>2. ASSUME NEW k \in 0 .. n + 1
        PROVE  g[k] = HitsBody(magics, g, k)
    <3>1. CASE k = 0
      BY <2>1, <3>1 DEF HitsBody
    <3>2. CASE k # 0
      <4>1. k - 1 \in 0 .. n /\ g[k - 1] = f[k - 1]
        BY <3>2
      <4>2. HitsBody(magics, g, k) = HitsBody(magics, f, k)
        BY <4>1, <3>2 DEF HitsBody
      <4> QED
        BY <4>2, <2>1
    <3> QED
      BY <3>1, <3>2
  <2>3. g = [k \in 0 .. n + 1 |-> HitsBody(magics, g, k)]
    BY <2>2
  <2>4. n + 1 \in Nat
    OBVIOUS
  <2> HIDE DEF g
  <2>5. \E h : h = [k \in 0 .. n + 1 |-> HitsBody(magics, h, k)]
    BY <2>3
  <2> QED
    BY <2>4, <2>5
<1> HIDE DEF S
<1>3. Nat \subseteq S
  BY <1>1, <1>2, EveryNumber
<1> QED
  BY <1>3 DEF S

\* The hits are those the search has when it has looked for every kind.
LEMMA HitsByKind ==
  ASSUME NEW magics
  PROVE  \E f : /\ f = [k \in 0 .. Len(Sigs) |-> HitsBody(magics, f, k)]
                /\ HitsAmong(magics) = f[Len(Sigs)]
<1> DEFINE f == CHOOSE g : g = [k \in 0 .. Len(Sigs) |->
                                  IF k = 0 THEN {}
                                  ELSE g[k - 1] \cup HitsOfKind(magics, k, g[k - 1])]
<1>1. HitsAmong(magics) = f[Len(Sigs)]
  BY DEF HitsAmong
<1>2. Len(Sigs) \in Nat
  BY DEF Sigs
<1>3. f = [k \in 0 .. Len(Sigs) |-> HitsBody(magics, f, k)]
  <2>1. \E g : g = [k \in 0 .. Len(Sigs) |->
                      IF k = 0 THEN {}
                      ELSE g[k - 1] \cup HitsOfKind(magics, k, g[k - 1])]
    BY <1>2, SearchDefined DEF HitsBody
  <2> QED
    BY <2>1 DEF HitsBody
<1> QED
  BY <1>1, <1>3

BelievableIn(magics) == {i \in DOMAIN magics : Believable(magics[i])}

\* The hits of each kind are found with those of some others in front.
LEMMA HitsFound ==
  ASSUME NEW magics
  PROVE  \E f :
           /\ \A k \in 1 .. 5 : /\ f[k - 1] \subseteq HitsAmong(magics)
                              /\ f[k - 1] \subseteq BelievableIn(magics)
                              /\ HitsOfKind(magics, k, f[k - 1]) \subseteq HitsAmong(magics)
           /\ HitsAmong(magics) \subseteq BelievableIn(magics)
<1>1. PICK f : /\ f = [k \in 0 .. Len(Sigs) |-> HitsBody(magics, f, k)]
               /\ HitsAmong(magics) = f[Len(Sigs)]
  BY HitsByKind
<1>2. Len(Sigs) = 5
  BY DEF Sigs
<1>3. f[0] = {} /\ HitsAmong(magics) = f[5]
  BY <1>1, <1>2 DEF HitsBody
<1>4. \A k \in 1 .. 5 : f[k] = f[k - 1] \cup HitsOfKind(magics, k, f[k - 1])
  BY <1>1, <1>2 DEF HitsBody
<1>5. \A k, X : HitsOfKind(magics, k, X) \subseteq BelievableIn(magics)
  BY DEF HitsOfKind, OfKind, BelievableIn
<1> DEFINE H(k) == HitsOfKind(magics, k, f[k - 1])
<1>6. /\ f[1] = f[0] \cup H(1) /\ f[2] = f[1] \cup H(2) /\ f[3] = f[2] \cup H(3)
      /\ f[4] = f[3] \cup H(4) /\ f[5] = f[4] \cup H(5)
  BY <1>4
<1>7. \A k : H(k) \subseteq BelievableIn(magics)
  BY <1>5
<1> HIDE DEF H
<1>8. \A k \in 1 .. 5 : k = 1 \/ k = 2 \/ k = 3 \/ k = 4 \/ k = 5
  OBVIOUS
<1>9. \A k \in 1 .. 5 : f[k - 1] \subseteq f[5] /\ f[k - 1] \subseteq BelievableIn(magics)
                     /\ H(k) \subseteq f[5]
  BY <1>3, <1>6, <1>7, <1>8
<1>10. f[5] \subseteq BelievableIn(magics)
  BY <1>3, <1>6, <1>7
<1> QED
  BY <1>3, <1>9, <1>10 DEF H

\* What is not a hit is not believable, or is crowded out by more hits than the
\* limit and one of its own kind; and something else is a hit then.
LEMMA Overlooked ==
  ASSUME NEW magics \in Seq(Magic), NEW i \in BelievableIn(magics), i \notin HitsAmong(magics)
  PROVE  /\ Cardinality(BelievableIn(magics)) > HitCap
         /\ \E j \in DOMAIN magics : j < i /\ magics[j].kind = magics[i].kind
         /\ HitsAmong(magics) # {}
<1>1. PICK f :
        /\ \A k \in 1 .. 5 : /\ f[k - 1] \subseteq HitsAmong(magics)
                           /\ f[k - 1] \subseteq BelievableIn(magics)
                           /\ HitsOfKind(magics, k, f[k - 1]) \subseteq HitsAmong(magics)
        /\ HitsAmong(magics) \subseteq BelievableIn(magics)
  BY HitsFound
<1>2. IsFiniteSet(BelievableIn(magics)) /\ DOMAIN magics = 1 .. Len(magics) /\ Len(magics) \in Nat
  <2>1. IsFiniteSet(1 .. Len(magics))
    BY FS_Interval
  <2>2. BelievableIn(magics) \subseteq 1 .. Len(magics)
    BY DEF BelievableIn
  <2> QED
    BY <2>1, <2>2, FS_Subset
<1>3. i \in DOMAIN magics /\ Believable(magics[i]) /\ magics[i] \in Magic
  BY DEF BelievableIn
<1>4. PICK k \in 1 .. 5 : magics[i].kind = Sigs[k]
  BY <1>3 DEF Magic, FsKind, Sigs
<1> DEFINE before(n) == {j \in OfKind(magics, k) : j < n}
           counted(n) == f[k - 1] \cup {j \in before(n) : Believable(magics[j])}
<1>5. ASSUME NEW n \in OfKind(magics, k), Believable(magics[n]), n \notin HitsAmong(magics)
      PROVE  before(n) # {} /\ ~ (Cardinality(counted(n)) <= HitCap)
  BY <1>1, <1>5 DEF HitsOfKind
<1>6. i \in OfKind(magics, k)
  BY <1>3, <1>4 DEF OfKind
<1>7. ASSUME NEW n
      PROVE  /\ counted(n) \subseteq BelievableIn(magics)
             /\ Cardinality(counted(n)) <= Cardinality(BelievableIn(magics))
             /\ Cardinality(counted(n)) \in Nat /\ Cardinality(BelievableIn(magics)) \in Nat
  <2>1. counted(n) \subseteq BelievableIn(magics)
    BY <1>1 DEF OfKind, BelievableIn
  <2> QED
    BY <2>1, <1>2, FS_Subset, FS_CardinalityType
<1>8. Cardinality(BelievableIn(magics)) > HitCap
  <2>1. /\ ~ (Cardinality(counted(i)) <= HitCap)
        /\ Cardinality(counted(i)) <= Cardinality(BelievableIn(magics))
        /\ Cardinality(counted(i)) \in Nat /\ Cardinality(BelievableIn(magics)) \in Nat
    BY <1>3, <1>5, <1>6, <1>7
  <2> HIDE DEF counted, before
  <2> QED
    BY <2>1, ImagesAssumption
<1>9. \E j \in DOMAIN magics : j < i /\ magics[j].kind = magics[i].kind
  BY <1>3, <1>4, <1>5, <1>6 DEF OfKind
<1>10. ASSUME HitsAmong(magics) = {}
       PROVE  FALSE
  <2> DEFINE B == {n \in OfKind(magics, k) : Believable(magics[n])}
  <2>1. B \subseteq Nat /\ B # {}
    BY <1>2, <1>3, <1>6 DEF OfKind
  <2>2. PICK n \in B : \A m \in B : ~ (m < n)
    BY <2>1, Least
  <2>3. counted(n) = {}
    BY <1>1, <1>10, <2>2
  <2>4. Cardinality(counted(n)) = 0
    BY <2>3, FS_EmptySet
  <2>5. ~ (0 <= HitCap)
    BY <2>2, <2>4, <1>5, <1>10
  <2> QED
    BY <2>5, ImagesAssumption
<1> QED
  BY <1>8, <1>9, <1>10

\* Numbers can be put in order.
Orderable(U) == \E s \in [1 .. Cardinality(U) -> U] : Sorted(s, U)

\* One larger than all the others goes to the end.
LEMMA OneMore ==
  ASSUME NEW V, NEW n \in Nat, V \subseteq 1 .. n, Orderable(V)
  PROVE  Orderable(V \cup {n + 1})
<1>1. PICK s \in [1 .. Cardinality(V) -> V] : Sorted(s, V)
  BY DEF Orderable
<1>2. IsFiniteSet(V)
  <2>1. IsFiniteSet(1 .. n)
    BY FS_Interval
  <2> QED
    BY <2>1, FS_Subset
<1>3. n + 1 \notin V
  OBVIOUS
<1>4. PICK c \in Nat : c = Cardinality(V) /\ c + 1 = Cardinality(V \cup {n + 1})
  <2>1. Cardinality(V) \in Nat
    BY <1>2, FS_CardinalityType
  <2>2. Cardinality(V \cup {n + 1}) = Cardinality(V) + 1
    BY <1>2, <1>3, FS_AddElement
  <2> QED
    BY <2>1, <2>2
<1> DEFINE t == [m \in 1 .. c + 1 |-> IF m = c + 1 THEN n + 1 ELSE s[m]]
<1>5. \A m \in 1 .. c : m \in 1 .. c + 1 /\ m # c + 1 /\ s[m] \in V /\ s[m] \in 1 .. n
  <2>1. s \in [1 .. c -> V]
    BY <1>1, <1>4
  <2>2. \A m \in 1 .. c : s[m] \in V
    BY <2>1
  <2>3. \A m \in 1 .. c : m \in 1 .. c + 1 /\ m # c + 1
    BY <1>4
  <2> QED
    BY <2>2, <2>3
<1>6. t[c + 1] = n + 1 /\ \A m \in 1 .. c : t[m] = s[m]
  BY <1>5
<1>7. \A m \in 1 .. c + 1 : m \in 1 .. c \/ m = c + 1
  OBVIOUS
<1>8. t \in [1 .. c + 1 -> V \cup {n + 1}]
  BY <1>5, <1>7
<1>9. DOMAIN t = 1 .. c + 1 /\ DOMAIN s = 1 .. c
  BY <1>1, <1>4
<1> HIDE DEF t
<1>10. \A m, k \in 1 .. c + 1 : m < k => t[m] < t[k]
  <2> SUFFICES ASSUME NEW m \in 1 .. c + 1, NEW k \in 1 .. c + 1, m < k
               PROVE  t[m] < t[k]
    OBVIOUS
  <2>1. m \in 1 .. c
    OBVIOUS
  <2>2. CASE k = c + 1
    BY <2>1, <2>2, <1>5, <1>6
  <2>3. CASE k \in 1 .. c
    BY <2>1, <2>3, <1>1, <1>6, <1>9 DEF Sorted
  <2> QED
    BY <2>2, <2>3
<1>11. \A i \in V \cup {n + 1} : \E m \in 1 .. c + 1 : t[m] = i
  <2>1. c + 1 \in 1 .. c + 1
    OBVIOUS
  <2>2. \A i \in V : \E m \in 1 .. c : s[m] = i
    BY <1>1, <1>9 DEF Sorted
  <2> QED
    BY <2>1, <2>2, <1>5, <1>6
<1>12. Sorted(t, V \cup {n + 1})
  BY <1>9, <1>10, <1>11 DEF Sorted
<1> QED
  BY <1>4, <1>8, <1>12 DEF Orderable

LEMMA SortedExists ==
  ASSUME NEW N \in Nat, NEW T, T \subseteq 1 .. N
  PROVE  Orderable(T)
<1> DEFINE S == {n \in Nat : \A U \in SUBSET (1 .. n) : Orderable(U)}
<1>1. 0 \in S
  <2>1. \A U \in SUBSET (1 .. 0) : U = {}
    OBVIOUS
  <2>2. Cardinality({}) = 0
    BY FS_EmptySet
  <2>3. <<>> \in [1 .. 0 -> {}] /\ Sorted(<<>>, {})
    BY DEF Sorted
  <2>4. Orderable({})
    BY <2>2, <2>3 DEF Orderable
  <2> QED
    BY <2>1, <2>4
<1>2. ASSUME NEW n \in Nat, n \in S
      PROVE  n + 1 \in S
  <2>1. ASSUME NEW U \in SUBSET (1 .. n + 1)
        PROVE  Orderable(U)
    <3>1. CASE n + 1 \notin U
      <4>1. U \in SUBSET (1 .. n)
        BY <3>1
      <4> QED
        BY <4>1, <1>2
    <3>2. CASE n + 1 \in U
      <4>1. U \ {n + 1} \in SUBSET (1 .. n) /\ U = (U \ {n + 1}) \cup {n + 1}
        BY <3>2
      <4>2. Orderable(U \ {n + 1})
        BY <4>1, <1>2
      <4>3. Orderable((U \ {n + 1}) \cup {n + 1})
        BY <4>1, <4>2, OneMore
      <4> QED
        BY <4>1, <4>3
    <3> QED
      BY <3>1, <3>2
  <2> QED
    BY <2>1
<1> HIDE DEF S
<1>3. Nat \subseteq S
  BY <1>1, <1>2, EveryNumber
<1> QED
  BY <1>3 DEF S

\* find_filesystems returns the hits, in the order of the image.
LEMMA FindSorts ==
  ASSUME NEW magics \in Seq(Magic)
  PROVE  /\ FindFilesystems(magics) \in Seq(Nat)
         /\ FindFilesystems(magics) \in Seq(HitsAmong(magics))
         /\ HitsAmong(magics) \subseteq BelievableIn(magics)
         /\ Sorted(FindFilesystems(magics), HitsAmong(magics))
<1>1. HitsAmong(magics) \subseteq BelievableIn(magics)
  BY HitsFound
<1>2. BelievableIn(magics) \subseteq 1 .. Len(magics) /\ Len(magics) \in Nat
  BY DEF BelievableIn
<1>3. IsFiniteSet(HitsAmong(magics)) /\ Cardinality(HitsAmong(magics)) \in Nat
  <2>1. IsFiniteSet(1 .. Len(magics))
    BY <1>2, FS_Interval
  <2> QED
    BY <2>1, <1>1, <1>2, FS_Subset, FS_CardinalityType
<1>4. Orderable(HitsAmong(magics))
  BY <1>1, <1>2, SortedExists
<1>5. /\ FindFilesystems(magics) \in [1 .. Cardinality(HitsAmong(magics)) -> HitsAmong(magics)]
      /\ Sorted(FindFilesystems(magics), HitsAmong(magics))
  BY <1>4 DEF Orderable, FindFilesystems
<1>6. HitsAmong(magics) \subseteq Nat
  BY <1>1, <1>2
<1> QED
  BY <1>1, <1>3, <1>5, <1>6

-----------------------------------------------------------------------------
\* A filesystem that can be read is at the index of the loop.
AtReadable ==
  /\ candidate \in DOMAIN image.peeled
  /\ signatures = FindFilesystems(Magics)
  /\ signature \in DOMAIN signatures
  /\ Readable(Current)

Loops ==
  /\ candidate \in Nat
  /\ candidate \in 1 .. Len(image.peeled) + 1
  /\ pc = "signature" =>
       /\ candidate \in DOMAIN image.peeled
       /\ signatures = FindFilesystems(Magics)
       /\ signature \in 1 .. Len(signatures) + 1
  /\ pc = "entry" => AtReadable /\ entry \in 1 .. Len(Current.entries) + 1

\* The last of the first n entries of a path.
LatestOf(entries, at) ==
  IF at = {} THEN Missing ELSE entries[CHOOSE i \in at : \A j \in at : j <= i].bytes

FinalAmong(entries, n, p) == LatestOf(entries, {i \in 1 .. n : entries[i].path = p})

Holds(n) == \A p \in Path : Get(p) = FinalAmong(Current.entries, n, p)

\* What the store holds at each point of the loops.
Stored ==
  /\ pc \in {"peeled", "signature"} => IsEmpty
  /\ pc = "entry" => Holds(entry - 1) /\ (IsEmpty <=> entry = 1)
  /\ pc \in {"ending", "done"} =>
       \/ IsEmpty /\ candidate = Len(image.peeled) + 1
       \/ ~ IsEmpty /\ AtReadable /\ Holds(Len(Current.entries))

\* A hit the loops have gone on from.
PassedOver(c, m) ==
  \/ c < candidate
  \/ c = candidate /\ pc # "peeled" /\ \E n \in DOMAIN signatures : n < signature /\ signatures[n] = m

DeclaredAt(c, m) == \E i \in DOMAIN gaps : gaps[i].candidate = c /\ gaps[i].magic = m

Declarable(m) == m.kind # "cpio" /\ (m.kind = "squashfs" => m.parses)

\* No hit that can be read is passed over, and none without a reader silently.
PassedRightly ==
  \A c \in DOMAIN image.peeled : \A m \in HitsAmong(image.peeled[c].magics) :
    PassedOver(c, m) =>
      /\ ~ Readable(image.peeled[c].magics[m])
      /\ Declarable(image.peeled[c].magics[m]) => DeclaredAt(c, m)

\* A gap that says what the code means by it.
GapIsTrue(reason, c, n) ==
  /\ n # 0 => ~ Readable(image.peeled[c].magics[n])
  /\ reason = "kernel only" =>
       \A m \in DOMAIN image.peeled[c].magics : ~ Believable(image.peeled[c].magics[m])

GapsSound ==
  /\ \A i \in DOMAIN gaps :
       /\ GapIsTrue(gaps[i].reason, gaps[i].candidate, gaps[i].magic)
       /\ gaps[i].reason = "not recognised" => pc = "done" /\ Len(gaps) = 1 /\ IsEmpty
  /\ EmptyIsDeclared

StoreInv == StoreTypeOK /\ Resolves

IInv ==
  /\ image \in Images
  /\ TypeOK
  /\ Resolves
  /\ Loops
  /\ Stored
  /\ PassedRightly
  /\ GapsSound

-----------------------------------------------------------------------------
\* An insert changes one path, never leaves it without its blob and never files
\* bytes under a digest of other bytes.
LEMMA InsertSets ==
  ASSUME StoreInv, NEW p \in Path, NEW b \in Bytes, Insert(p, b)
  PROVE  /\ StoreInv'
         /\ \A q \in Path : Get(q)' = IF q = p THEN b ELSE Get(q)
         /\ ~ IsEmpty'
<1>1. StoreInv'
  BY HashAssumption DEF StoreInv, StoreTypeOK, Resolves, Insert
<1>2. \A q \in Path : Get(q)' = IF q = p THEN b ELSE Get(q)
  BY HashAssumption DEF StoreInv, StoreTypeOK, Resolves, Insert, Get
<1>3. ~ IsEmpty'
  BY HashAssumption DEF StoreInv, StoreTypeOK, Insert, IsEmpty
<1> QED
  BY <1>1, <1>2, <1>3

LEMMA StoreStays ==
  ASSUME UNCHANGED storeVars
  PROVE  /\ IsEmpty' <=> IsEmpty
         /\ \A p : Get(p)' = Get(p)
         /\ StoreTypeOK' <=> StoreTypeOK
         /\ Resolves' <=> Resolves
BY DEF storeVars, IsEmpty, Get, StoreTypeOK, Resolves

LEMMA StoreBegins == StoreInit => StoreInv /\ IsEmpty
BY HashAssumption DEF StoreInit, StoreInv, StoreTypeOK, Resolves, IsEmpty

LEMMA StoreInvariant == StoreSpec => []StoreInv
<1>1. ASSUME StoreInv, [StoreNext]_storeVars
      PROVE  StoreInv'
  BY <1>1, InsertSets, StoreStays DEF StoreNext, StoreInv
<1> QED
  BY <1>1, StoreBegins, PTL DEF StoreSpec

\* Every path of the tree resolves to bytes filed under their own digest.
THEOREM StoreResolves == StoreSpec => []Resolves
<1>1. StoreInv => Resolves
  BY DEF StoreInv
<1> QED
  BY <1>1, StoreInvariant, PTL

\* An insert of the store is one of the map: the blob it keeps when there is one
\* is the same bytes, because digests agree only on equal bytes.
LEMMA InsertRefines ==
  ASSUME StoreInv, NEW p \in Path, NEW b \in Bytes, Insert(p, b)
  PROVE  Files!Insert(p, b)
BY InsertSets DEF Files!Insert

LEMMA InitRefines == StoreInit => Files!Init
BY DEF StoreInit, Files!Init, Get

\* The store behaves as a map from paths to bytes, whatever is inserted where.
THEOREM StoreImplementsFileMap == StoreSpec => ImplementsFileMap
<1>1. ASSUME StoreInv, [StoreNext]_storeVars
      PROVE  [Files!Next]_([p \in Path |-> Get(p)])
  <2>1. ASSUME NEW p \in Path, NEW b \in Bytes, Insert(p, b)
        PROVE  Files!Insert(p, b)
    BY <1>1, <2>1, InsertRefines
  <2>2. CASE UNCHANGED storeVars
    BY <2>2, StoreStays
  <2> QED
    BY <1>1, <2>1, <2>2 DEF StoreNext, Files!Next
<1> QED
  BY <1>1, InitRefines, StoreInvariant, PTL DEF StoreSpec, ImplementsFileMap, Files!Spec

-----------------------------------------------------------------------------
\* The parts of an image.
LEMMA ImageTypes ==
  ASSUME image \in Images
  PROVE  /\ image.wrapping \in Wrapping
         /\ Len(image.peeled) \in Nat /\ DOMAIN image.peeled = 1 .. Len(image.peeled)
         /\ \A c \in DOMAIN image.peeled : image.peeled[c].magics \in Seq(Magic)
<1>1. image.peeled \in Seq(Candidate) /\ image.wrapping \in Wrapping
  BY ImagesAssumption
<1>2. \A c \in DOMAIN image.peeled : image.peeled[c] \in Candidate
  BY <1>1
<1> QED
  BY <1>1, <1>2 DEF Candidate

LEMMA HitTypes ==
  ASSUME image \in Images, candidate \in DOMAIN image.peeled,
         signatures = FindFilesystems(Magics), signature \in DOMAIN signatures
  PROVE  /\ Magics \in Seq(Magic)
         /\ signatures[signature] \in BelievableIn(Magics)
         /\ signatures[signature] \in HitsAmong(Magics)
         /\ signatures[signature] \in Nat /\ signatures[signature] # 0
         /\ Current \in Magic /\ Current.kind \in FsKind
         /\ Current.entries \in Seq(Entry)
         /\ Believable(Current)
<1>1. Magics \in Seq(Magic)
  BY ImageTypes DEF Magics
<1>2. signatures[signature] \in HitsAmong(Magics) /\ HitsAmong(Magics) \subseteq BelievableIn(Magics)
  BY <1>1, FindSorts
<1>3. signatures[signature] \in 1 .. Len(Magics) /\ Len(Magics) \in Nat
  BY <1>1, <1>2 DEF BelievableIn
<1>4. Current \in Magic /\ Believable(Current)
  BY <1>1, <1>2, <1>3 DEF Current, BelievableIn
<1> QED
  BY <1>1, <1>2, <1>3, <1>4 DEF Magic

\* The entry after the first n replaces what they have at its path.
LEMMA FinalNext ==
  ASSUME NEW entries \in Seq(Entry), NEW n \in Nat, n + 1 \in DOMAIN entries, NEW p
  PROVE  FinalAmong(entries, n + 1, p) =
           IF p = entries[n + 1].path THEN entries[n + 1].bytes ELSE FinalAmong(entries, n, p)
<1> DEFINE at(k) == {i \in 1 .. k : entries[i].path = p}
<1>1. CASE p = entries[n + 1].path
  <2>1. n + 1 \in at(n + 1) /\ \A j \in at(n + 1) : j <= n + 1 /\ j \in Nat
    BY <1>1
  <2>2. (CHOOSE i \in at(n + 1) : \A j \in at(n + 1) : j <= i) = n + 1
    BY <2>1
  <2> QED
    BY <1>1, <2>1, <2>2 DEF FinalAmong, LatestOf
<1>2. CASE p # entries[n + 1].path
  <2>1. at(n + 1) = at(n)
    BY <1>2
  <2> QED
    BY <1>2, <2>1 DEF FinalAmong
<1> QED
  BY <1>1, <1>2

\* The places of the image, by candidate and magic.
LEMMA PlacesAre ==
  ASSUME NEW l
  PROVE  l \in Places <=> \E c \in DOMAIN image.peeled :
                           \E m \in DOMAIN image.peeled[c].magics : l = <<c, m>>
BY DEF Places

-----------------------------------------------------------------------------
\* An image before its search: nothing met, nothing stored.
THEOREM InitIInv == Init => IInv
<1> SUFFICES ASSUME Init
             PROVE  IInv
  OBVIOUS
<1>1. StoreInv /\ IsEmpty
  BY StoreBegins DEF Init
<1>2. TypeOK
  BY <1>1, ImageTypes DEF Init, TypeOK, StoreInv
<1>3. Loops /\ Stored
  BY <1>1, ImageTypes DEF Init, Loops, Stored
<1>4. PassedRightly
  BY ImageTypes DEF Init, PassedRightly, PassedOver
<1>5. GapsSound
  BY DEF Init, GapsSound, EmptyIsDeclared
<1> QED
  BY <1>1, <1>2, <1>3, <1>4, <1>5 DEF Init, IInv, StoreInv

\* Why a gap is added while the loops run.
LoopReason == Reason \ {"not recognised"}

\* The gap added when one is: what was declared stays so.
LEMMA GapAdded ==
  ASSUME IInv, UNCHANGED image, pc # "done", pc' # "done",
         NEW reason \in LoopReason, NEW m \in Nat,
         gaps' = GapHere(reason, m), GapIsTrue(reason, candidate, m)
  PROVE  /\ gaps' \in Seq(Gap)
         /\ GapsSound'
         /\ \A c, n : DeclaredAt(c, n) \/ (c = candidate /\ n = m) => DeclaredAt(c, n)'
<1>1. candidate \in Nat /\ gaps \in Seq(Gap)
  BY DEF IInv, Loops, TypeOK
<1>2. PICK g \in Gap :
        /\ gaps' = Append(gaps, g)
        /\ g.reason = reason /\ g.candidate = candidate /\ g.magic = m
  <2>1. [reason |-> reason, candidate |-> candidate, magic |-> m] \in Gap
    BY <1>1 DEF Gap, LoopReason
  <2> QED
    BY <2>1 DEF GapHere
<1>3. /\ gaps' \in Seq(Gap) /\ Len(gaps) + 1 \in DOMAIN gaps'
      /\ gaps'[Len(gaps) + 1] = g
      /\ \A i \in DOMAIN gaps' : i \in DOMAIN gaps \/ i = Len(gaps) + 1
      /\ \A i \in DOMAIN gaps : i \in DOMAIN gaps' /\ gaps'[i] = gaps[i]
  <2>1. DOMAIN gaps = 1 .. Len(gaps) /\ Len(gaps) \in Nat
    BY <1>1
  <2>2. gaps' \in Seq(Gap) /\ Len(gaps') = Len(gaps) + 1 /\ gaps'[Len(gaps) + 1] = g
    BY <1>1, <1>2
  <2>3. \A i \in DOMAIN gaps : gaps'[i] = gaps[i]
    BY <1>1, <1>2
  <2>4. DOMAIN gaps' = 1 .. Len(gaps) + 1
    BY <2>2
  <2> QED
    BY <2>1, <2>2, <2>3, <2>4
<1>4. \A i \in DOMAIN gaps : /\ GapIsTrue(gaps[i].reason, gaps[i].candidate, gaps[i].magic)
                            /\ gaps[i].reason # "not recognised"
  BY DEF IInv, GapsSound
<1>5. \A i \in DOMAIN gaps' : /\ GapIsTrue(gaps'[i].reason, gaps'[i].candidate, gaps'[i].magic)
                             /\ gaps'[i].reason # "not recognised"
  <2>1. g.reason # "not recognised"
    BY <1>2 DEF LoopReason
  <2> QED
    BY <1>2, <1>3, <1>4, <2>1
<1>6. \A r, c, n : GapIsTrue(r, c, n)' <=> GapIsTrue(r, c, n)
  BY DEF GapIsTrue
<1>7. GapsSound'
  BY <1>5, <1>6 DEF GapsSound, EmptyIsDeclared
<1>8. \A c, n : DeclaredAt(c, n) => DeclaredAt(c, n)'
  BY <1>3 DEF DeclaredAt
<1>9. \A c, n : c = candidate /\ n = m => DeclaredAt(c, n)'
  BY <1>2, <1>3 DEF DeclaredAt
<1> QED
  BY <1>3, <1>7, <1>8, <1>9

\* No gap is added before the end.
LEMMA GapsStay ==
  ASSUME IInv, UNCHANGED <<image, gaps>>, pc # "done", pc' # "done"
  PROVE  GapsSound' /\ \A c, n : DeclaredAt(c, n)' <=> DeclaredAt(c, n)
BY DEF IInv, GapsSound, GapIsTrue, EmptyIsDeclared, DeclaredAt

LEMMA OpenKeeps == IInv /\ OpenCandidate => IInv'
<1> SUFFICES ASSUME IInv, OpenCandidate
             PROVE  IInv'
  OBVIOUS
<1>1. /\ UNCHANGED <<image, candidate, entry, storeVars>> /\ UNCHANGED storeVars
      /\ pc = "peeled" /\ pc' = "signature" /\ signature' = 1
      /\ signatures' = FindFilesystems(Magics)
      /\ gaps' = IF signatures' = <<>> /\ image.peeled[candidate].uImage
                 THEN GapHere("kernel only", 0) ELSE gaps
  BY DEF OpenCandidate
<1>2. candidate \in DOMAIN image.peeled /\ image \in Images
  <2>1. candidate \in 1 .. Len(image.peeled) + 1 /\ candidate <= Len(image.peeled)
    BY DEF IInv, Loops, OpenCandidate
  <2> QED
    BY <2>1, ImageTypes DEF IInv
<1>3. /\ Magics \in Seq(Magic) /\ FindFilesystems(Magics) \in Seq(Nat)
      /\ FindFilesystems(Magics) \in Seq(HitsAmong(Magics))
      /\ Sorted(FindFilesystems(Magics), HitsAmong(Magics))
  BY <1>2, ImageTypes, FindSorts DEF Magics
<1>4. /\ gaps' \in Seq(Gap) /\ GapsSound'
      /\ \A c, m : DeclaredAt(c, m) => DeclaredAt(c, m)'
  <2>1. CASE gaps' = gaps
    BY <2>1, <1>1, GapsStay DEF IInv, TypeOK
  <2>2. CASE signatures' = <<>> /\ gaps' = GapHere("kernel only", 0)
    <3>1. \A m \in DOMAIN Magics : ~ Believable(Magics[m])
      <4> SUFFICES ASSUME NEW m \in DOMAIN Magics, Believable(Magics[m])
                   PROVE  FALSE
        OBVIOUS
      <4>1. HitsAmong(Magics) = {}
        <5>1. FindFilesystems(Magics) = <<>>
          BY <1>1, <2>2
        <5>2. DOMAIN FindFilesystems(Magics) = {}
          BY <5>1
        <5> QED
          BY <5>2, <1>3 DEF Sorted
      <4>2. m \in BelievableIn(Magics)
        BY DEF BelievableIn
      <4> QED
        BY <1>3, <4>1, <4>2, Overlooked
    <3>2. GapIsTrue("kernel only", candidate, 0)
      BY <3>1 DEF GapIsTrue, Magics
    <3> QED
      BY <1>1, <2>2, <3>2, GapAdded DEF Reason, LoopReason
  <2> QED
    BY <1>1, <2>1, <2>2
<1>5. TypeOK' /\ Resolves'
  BY <1>1, <1>3, <1>4, StoreStays DEF IInv, TypeOK
<1>6. Loops'
  <2>1. 1 \in 1 .. Len(FindFilesystems(Magics)) + 1
    BY <1>3
  <2>2. Magics' = Magics
    BY <1>1 DEF Magics
  <2> QED
    BY <1>1, <1>2, <2>1, <2>2 DEF IInv, Loops
<1>7. Stored'
  BY <1>1, StoreStays DEF IInv, Stored
<1>8. PassedRightly'
  <2> SUFFICES ASSUME NEW c \in DOMAIN image.peeled, NEW m \in HitsAmong(image.peeled[c].magics),
                      PassedOver(c, m)'
               PROVE  /\ ~ Readable(image.peeled[c].magics[m])
                      /\ Declarable(image.peeled[c].magics[m]) => DeclaredAt(c, m)'
    BY <1>1 DEF PassedRightly
  <2>1. c < candidate
    <3>1. \A n \in DOMAIN FindFilesystems(Magics) : ~ (n < 1)
      BY <1>3
    <3>2. \A n \in DOMAIN signatures' : ~ (n < signature')
      BY <1>1, <3>1
    <3> QED
      BY <1>1, <3>2 DEF PassedOver
  <2> QED
    BY <2>1, <1>4 DEF IInv, PassedRightly, PassedOver
<1> QED
  BY <1>1, <1>4, <1>5, <1>6, <1>7, <1>8 DEF IInv

LEMMA NoMoreSignaturesKeeps == IInv /\ NoMoreSignatures => IInv'
<1> SUFFICES ASSUME IInv, NoMoreSignatures
             PROVE  IInv'
  OBVIOUS
<1>1. /\ UNCHANGED <<image, signatures, signature, entry, gaps>> /\ UNCHANGED storeVars
      /\ pc = "signature" /\ pc' = "peeled" /\ candidate' = candidate + 1
      /\ signature > Len(signatures)
  BY DEF NoMoreSignatures
<1>2. /\ candidate \in DOMAIN image.peeled /\ image \in Images /\ candidate \in Nat
      /\ signatures = FindFilesystems(Magics) /\ signature \in Nat
  BY <1>1 DEF IInv, Loops, TypeOK
<1>3. candidate' \in Nat /\ candidate' \in 1 .. Len(image.peeled) + 1
  BY <1>1, <1>2, ImageTypes
<1>4. TypeOK' /\ Resolves' /\ GapsSound' /\ \A c, n : DeclaredAt(c, n)' <=> DeclaredAt(c, n)
  BY <1>1, <1>3, StoreStays, GapsStay DEF IInv, TypeOK
<1>5. Loops' /\ Stored'
  BY <1>1, <1>3, StoreStays DEF IInv, Loops, Stored
<1>6. PassedRightly'
  <2> SUFFICES ASSUME NEW c \in DOMAIN image.peeled, NEW m \in HitsAmong(image.peeled[c].magics),
                      c < candidate + 1
               PROVE  PassedOver(c, m)
    BY <1>1, <1>4 DEF IInv, PassedRightly, PassedOver
  <2>1. c \in Nat
    BY <1>2, ImageTypes
  <2>2. CASE c = candidate
    <3>1. Sorted(signatures, HitsAmong(Magics)) /\ signatures \in Seq(Nat)
      BY <1>2, ImageTypes, FindSorts DEF Magics
    <3>2. PICK n \in DOMAIN signatures : signatures[n] = m
      BY <2>2, <3>1 DEF Sorted, Magics
    <3>3. n < signature
      BY <1>1, <1>2, <3>1, <3>2
    <3> QED
      BY <1>1, <2>2, <3>2, <3>3 DEF PassedOver
  <2> QED
    BY <1>2, <2>1, <2>2 DEF PassedOver
<1> QED
  BY <1>1, <1>4, <1>5, <1>6 DEF IInv

LEMMA NoMoreCandidatesKeeps == IInv /\ NoMoreCandidates => IInv'
<1> SUFFICES ASSUME IInv, NoMoreCandidates
             PROVE  IInv'
  OBVIOUS
<1>1. /\ UNCHANGED <<image, candidate, signatures, signature, entry, gaps>>
      /\ UNCHANGED storeVars /\ pc = "peeled" /\ pc' = "ending"
      /\ candidate > Len(image.peeled)
  BY DEF NoMoreCandidates
<1>2. /\ candidate \in Nat /\ candidate \in 1 .. Len(image.peeled) + 1
      /\ Len(image.peeled) \in Nat /\ DOMAIN image.peeled = 1 .. Len(image.peeled)
  BY ImageTypes DEF IInv, Loops
<1>3. TypeOK' /\ Resolves' /\ GapsSound' /\ \A c, n : DeclaredAt(c, n)' <=> DeclaredAt(c, n)
  BY <1>1, StoreStays, GapsStay DEF IInv, TypeOK
<1>4. Loops'
  BY <1>1 DEF IInv, Loops
<1>5. Stored'
  <2>1. IsEmpty /\ candidate = Len(image.peeled) + 1
    BY <1>1, <1>2 DEF IInv, Stored
  <2> QED
    BY <1>1, <2>1, StoreStays DEF Stored
<1>6. PassedRightly'
  <2>1. \A c \in DOMAIN image.peeled : \A m : PassedOver(c, m)' => PassedOver(c, m)
    BY <1>1, <1>2 DEF PassedOver
  <2> QED
    BY <1>1, <1>3, <2>1 DEF IInv, PassedRightly
<1> QED
  BY <1>1, <1>3, <1>4, <1>5, <1>6 DEF IInv

\* Why a signature is passed over.
PassReason == {"not supported", "no files"}

\* A signature that is not a filesystem that can be read is passed over, with a
\* gap if it is one that has no reader.
LEMMA PassKeeps ==
  ASSUME IInv, pc = "signature", signature <= Len(signatures), ~ Readable(Current),
         NEW reason \in PassReason,
         NEW gapped, gapped = gaps \/ gapped = GapHere(reason, signatures[signature]),
         Declarable(Current) => gapped # gaps,
         Pass(gapped)
  PROVE  IInv'
<1>1. /\ UNCHANGED <<image, candidate, signatures, entry, pc>> /\ UNCHANGED storeVars
      /\ gaps' = gapped /\ signature' = signature + 1
  BY DEF Pass
<1>2. /\ image \in Images /\ candidate \in DOMAIN image.peeled
      /\ signatures = FindFilesystems(Magics)
      /\ signature \in Nat /\ signature \in 1 .. Len(signatures) + 1
      /\ signatures \in Seq(Nat)
  BY DEF IInv, Loops, TypeOK
<1>3. signature \in DOMAIN signatures
  BY <1>2
<1>4. signatures[signature] \in Nat
  BY <1>2, <1>3
<1>5. GapIsTrue(reason, candidate, signatures[signature])
  BY DEF GapIsTrue, Current, Magics, PassReason
<1>6. /\ gaps' \in Seq(Gap) /\ GapsSound'
      /\ \A c, n : DeclaredAt(c, n) => DeclaredAt(c, n)'
      /\ \A c, n : gapped # gaps /\ c = candidate /\ n = signatures[signature]
                 => DeclaredAt(c, n)'
  <2>1. CASE gapped = gaps
    BY <1>1, <2>1, GapsStay DEF IInv, TypeOK
  <2>2. CASE gapped = GapHere(reason, signatures[signature])
    <3>1. reason \in LoopReason
      BY DEF PassReason, LoopReason, Reason
    <3> QED
      BY <1>1, <1>4, <1>5, <2>2, <3>1, GapAdded
  <2> QED
    BY <2>1, <2>2
<1>7. TypeOK' /\ Resolves'
  BY <1>1, <1>2, <1>6, StoreStays DEF IInv, TypeOK
<1>8. Loops'
  <2>1. signature + 1 \in 1 .. Len(signatures) + 1
    BY <1>2
  <2>2. Magics' = Magics
    BY <1>1 DEF Magics
  <2> QED
    BY <1>1, <1>2, <2>1, <2>2 DEF IInv, Loops
<1>9. Stored'
  BY <1>1, StoreStays DEF IInv, Stored
<1>10. PassedRightly'
  <2> SUFFICES ASSUME NEW c \in DOMAIN image.peeled, NEW m \in HitsAmong(image.peeled[c].magics),
                      PassedOver(c, m)'
               PROVE  /\ ~ Readable(image.peeled[c].magics[m])
                      /\ Declarable(image.peeled[c].magics[m]) => DeclaredAt(c, m)'
    BY <1>1 DEF PassedRightly
  <2>1. PassedOver(c, m) \/ (c = candidate /\ m = signatures[signature])
    <3>1. \A n \in DOMAIN signatures : n < signature + 1 => n < signature \/ n = signature
      BY <1>2
    <3> QED
      BY <1>1, <3>1 DEF PassedOver
  <2>2. CASE PassedOver(c, m)
    BY <2>2, <1>6 DEF IInv, PassedRightly
  <2>3. CASE c = candidate /\ m = signatures[signature]
    <3>1. image.peeled[c].magics[m] = Current
      BY <2>3 DEF Current, Magics
    <3> QED
      BY <2>3, <3>1, <1>1, <1>6
  <2> QED
    BY <2>1, <2>2, <2>3
<1> QED
  BY <1>1, <1>2, <1>6, <1>7, <1>8, <1>9, <1>10 DEF IInv

\* A filesystem that can be read is at the index of the loop when it is taken.
LEMMA TakeKeeps ==
  ASSUME IInv, pc = "signature", signature <= Len(signatures), Readable(Current), Take
  PROVE  IInv'
<1>1. /\ UNCHANGED <<image, candidate, signatures, signature, gaps>> /\ UNCHANGED storeVars
      /\ pc' = "entry" /\ entry' = 1
  BY DEF Take
<1>2. /\ image \in Images /\ candidate \in DOMAIN image.peeled
      /\ signatures = FindFilesystems(Magics)
      /\ signature \in Nat /\ signature \in 1 .. Len(signatures) + 1
      /\ signatures \in Seq(Nat)
  BY DEF IInv, Loops, TypeOK
<1>3. signature \in DOMAIN signatures
  BY <1>2
<1>4. AtReadable
  BY <1>2, <1>3 DEF AtReadable
<1>5. Magics' = Magics /\ Current' = Current
  BY <1>1 DEF Magics, Current
<1>6. TypeOK' /\ Resolves' /\ GapsSound' /\ \A c, n : DeclaredAt(c, n)' <=> DeclaredAt(c, n)
  BY <1>1, StoreStays, GapsStay DEF IInv, TypeOK
<1>7. Loops'
  <2>1. AtReadable'
    BY <1>1, <1>4, <1>5 DEF AtReadable
  <2>2. Current.entries \in Seq(Entry)
    BY <1>2, <1>3, HitTypes
  <2>3. 1 \in 1 .. Len(Current.entries) + 1
    BY <2>2
  <2> QED
    BY <1>1, <1>5, <2>1, <2>3 DEF IInv, Loops
<1>8. Stored'
  <2>1. IsEmpty
    BY DEF IInv, Stored
  <2>2. \A p \in Path : Get(p) = FinalAmong(Current.entries, 0, p)
    <3>1. \A e, p : FinalAmong(e, 0, p) = Missing
      BY DEF FinalAmong, LatestOf
    <3> QED
      BY <2>1, <3>1 DEF IsEmpty, Get
  <2>3. Holds(entry - 1)'
    BY <1>1, <1>5, <2>2, StoreStays DEF Holds
  <2> QED
    BY <1>1, <2>1, <2>3, StoreStays DEF Stored
<1>9. PassedRightly'
  BY <1>1, <1>6 DEF IInv, PassedRightly, PassedOver
<1> QED
  BY <1>1, <1>2, <1>6, <1>7, <1>8, <1>9 DEF IInv

LEMMA CpioKeeps == IInv /\ Cpio => IInv'
<1> SUFFICES ASSUME IInv, Cpio
             PROVE  IInv'
  OBVIOUS
<1>1. pc = "signature" /\ signature <= Len(signatures) /\ Current.kind = "cpio"
  BY DEF Cpio, AtSignature
<1>2. Believable(Current)
  <2>1. /\ image \in Images /\ candidate \in DOMAIN image.peeled
        /\ signatures = FindFilesystems(Magics)
        /\ signature \in 1 .. Len(signatures) + 1 /\ signature \in Nat /\ signatures \in Seq(Nat)
    BY <1>1 DEF IInv, Loops, TypeOK
  <2>2. signature \in DOMAIN signatures
    BY <1>1, <2>1
  <2> QED
    BY <2>1, <2>2, HitTypes
<1>3. CASE CpioBelieved
  <2>1. Readable(Current) /\ Take
    BY <1>1, <1>2, <1>3 DEF Cpio, Readable, Believable, CpioBelieved
  <2> QED
    BY <1>1, <2>1, TakeKeeps
<1>4. CASE ~ CpioBelieved
  <2>1. ~ Readable(Current) /\ Pass(gaps) /\ ~ Declarable(Current)
    BY <1>1, <1>4 DEF Cpio, Readable, CpioBelieved, Declarable
  <2> QED
    BY <1>1, <2>1, PassKeeps DEF PassReason
<1> QED
  BY <1>3, <1>4

\* A gap is more than there was.
LEMMA GapIsMore ==
  ASSUME IInv, NEW reason, NEW m
  PROVE  GapHere(reason, m) # gaps
<1> DEFINE g == [reason |-> reason, candidate |-> candidate, magic |-> m]
<1>1. gaps \in Seq(Gap)
  BY DEF IInv, TypeOK
<1> HIDE DEF g
<1>2. Len(Append(gaps, g)) = Len(gaps) + 1 /\ Len(gaps) \in Nat
  BY <1>1
<1> QED
  BY <1>2 DEF GapHere, g

LEMMA NotSupportedKeeps == IInv /\ NotSupported => IInv'
<1> SUFFICES ASSUME IInv, NotSupported
             PROVE  IInv'
  OBVIOUS
<1>1. /\ pc = "signature" /\ signature <= Len(signatures)
      /\ Current.kind # "cpio" /\ Current.kind # "squashfs"
      /\ Pass(GapHere("not supported", signatures[signature]))
  BY DEF NotSupported, AtSignature
<1>2. ~ Readable(Current)
  BY <1>1 DEF Readable
<1>3. GapHere("not supported", signatures[signature]) # gaps
  BY GapIsMore
<1> QED
  BY <1>1, <1>2, <1>3, PassKeeps DEF PassReason

LEMMA SquashFsKeeps == IInv /\ SquashFs => IInv'
<1> SUFFICES ASSUME IInv, SquashFs
             PROVE  IInv'
  OBVIOUS
<1>1. pc = "signature" /\ signature <= Len(signatures) /\ Current.kind = "squashfs"
  BY DEF SquashFs, AtSignature
<1>2. CASE ~ Current.parses
  <2>1. ~ Readable(Current) /\ Pass(gaps) /\ ~ Declarable(Current)
    BY <1>1, <1>2 DEF SquashFs, Readable, Declarable
  <2> QED
    BY <1>1, <2>1, PassKeeps DEF PassReason
<1>3. CASE Current.parses /\ Current.entries = <<>>
  <2>1. ~ Readable(Current) /\ Pass(GapHere("no files", signatures[signature]))
    BY <1>1, <1>3 DEF SquashFs, Readable
  <2>2. GapHere("no files", signatures[signature]) # gaps
    BY GapIsMore
  <2> QED
    BY <1>1, <2>1, <2>2, PassKeeps DEF PassReason
<1>4. CASE Current.parses /\ Current.entries # <<>>
  <2>1. Readable(Current) /\ Take
    BY <1>1, <1>4 DEF SquashFs, Readable
  <2> QED
    BY <1>1, <2>1, TakeKeeps
<1> QED
  BY <1>2, <1>3, <1>4

\* What is known at a filesystem that is being read.
LEMMA ReadingTypes ==
  ASSUME IInv, AtReadable
  PROVE  /\ Current.entries \in Seq(Entry) /\ Len(Current.entries) \in Nat
         /\ Len(Current.entries) > 0
<1>1. Current.entries \in Seq(Entry) /\ Len(Current.entries) \in Nat
  BY HitTypes DEF IInv, AtReadable
<1>2. Readable(Current)
  BY DEF AtReadable
<1>3. CASE Len(Current.entries) > CpioMin
  BY <1>1, <1>3, ImagesAssumption
<1>4. CASE Current.entries # <<>>
  BY <1>1, <1>4
<1> QED
  BY <1>1, <1>2, <1>3, <1>4 DEF Readable

LEMMA InsertEntryKeeps == IInv /\ InsertEntry => IInv'
<1> SUFFICES ASSUME IInv, InsertEntry
             PROVE  IInv'
  OBVIOUS
<1> DEFINE e == Current.entries[entry]
<1>1. /\ UNCHANGED <<image, candidate, signatures, signature, gaps, pc>>
      /\ pc = "entry" /\ entry' = entry + 1 /\ entry <= Len(Current.entries)
      /\ Insert(e.path, e.bytes)
  BY DEF InsertEntry
<1>2. AtReadable /\ entry \in 1 .. Len(Current.entries) + 1 /\ entry \in Nat
  BY <1>1 DEF IInv, Loops, TypeOK
<1>3. Current.entries \in Seq(Entry) /\ Len(Current.entries) \in Nat
  BY <1>2, ReadingTypes
<1>4. entry \in DOMAIN Current.entries /\ entry - 1 \in Nat /\ (entry - 1) + 1 = entry
  BY <1>1, <1>2, <1>3
<1>5. e \in Entry /\ e.path \in Path /\ e.bytes \in Bytes
  <2>1. Current.entries[entry] \in Entry
    BY <1>3, <1>4
  <2> QED
    BY <2>1 DEF Entry
<1>6. Magics' = Magics /\ Current' = Current
  BY <1>1 DEF Magics, Current
<1>7. /\ StoreInv' /\ ~ IsEmpty'
      /\ \A q \in Path : Get(q)' = IF q = e.path THEN e.bytes ELSE Get(q)
  BY <1>1, <1>5, InsertSets DEF IInv, TypeOK, StoreInv
<1>8. GapsSound' /\ \A c, n : DeclaredAt(c, n)' <=> DeclaredAt(c, n)
  BY <1>1, GapsStay
<1>9. TypeOK' /\ Resolves'
  BY <1>1, <1>2, <1>7 DEF IInv, TypeOK, StoreInv
<1>10. Loops'
  <2>1. AtReadable'
    BY <1>1, <1>2, <1>6 DEF AtReadable
  <2>2. entry + 1 \in 1 .. Len(Current.entries) + 1
    BY <1>1, <1>2, <1>3
  <2> QED
    BY <1>1, <1>6, <2>1, <2>2 DEF IInv, Loops
<1>11. Stored'
  <2>1. \A p \in Path : Get(p) = FinalAmong(Current.entries, entry - 1, p)
    BY <1>1 DEF IInv, Stored, Holds
  <2>2. \A p \in Path : FinalAmong(Current.entries, entry, p) =
          IF p = e.path THEN e.bytes ELSE FinalAmong(Current.entries, entry - 1, p)
    BY <1>3, <1>4, FinalNext
  <2>3. \A p \in Path : Get(p)' = FinalAmong(Current.entries, entry, p)
    BY <1>7, <2>1, <2>2
  <2>4. entry' - 1 = entry /\ entry' # 1
    BY <1>1, <1>2
  <2>5. Holds(entry - 1)'
    BY <1>6, <2>3, <2>4 DEF Holds
  <2> QED
    BY <1>1, <1>7, <2>4, <2>5 DEF Stored
<1>12. PassedRightly'
  BY <1>1, <1>8 DEF IInv, PassedRightly, PassedOver
<1> QED
  BY <1>1, <1>8, <1>9, <1>10, <1>11, <1>12 DEF IInv

LEMMA InsertedKeeps == IInv /\ Inserted => IInv'
<1> SUFFICES ASSUME IInv, Inserted
             PROVE  IInv'
  OBVIOUS
<1>1. /\ UNCHANGED <<image, candidate, signatures, signature, entry, gaps>>
      /\ UNCHANGED storeVars
      /\ pc = "entry" /\ pc' = "ending" /\ entry > Len(Current.entries)
  BY DEF Inserted
<1>2. AtReadable /\ entry \in 1 .. Len(Current.entries) + 1 /\ entry \in Nat
  BY <1>1 DEF IInv, Loops, TypeOK
<1>3. entry - 1 = Len(Current.entries) /\ entry # 1
  BY <1>1, <1>2, ReadingTypes
<1>4. Magics' = Magics /\ Current' = Current
  BY <1>1 DEF Magics, Current
<1>5. TypeOK' /\ Resolves' /\ GapsSound' /\ \A c, n : DeclaredAt(c, n)' <=> DeclaredAt(c, n)
  BY <1>1, StoreStays, GapsStay DEF IInv, TypeOK
<1>6. Loops'
  BY <1>1 DEF IInv, Loops
<1>7. Stored'
  <2>1. Holds(entry - 1) /\ ~ IsEmpty
    BY <1>1, <1>3 DEF IInv, Stored
  <2>2. Holds(Len(Current.entries))
    BY <2>1, <1>3
  <2>3. Holds(Len(Current.entries))'
    BY <2>2, <1>4, StoreStays, <1>1 DEF Holds
  <2>4. AtReadable'
    BY <1>1, <1>2, <1>4 DEF AtReadable
  <2> QED
    BY <1>1, <2>1, <2>3, <2>4, StoreStays DEF Stored
<1>8. PassedRightly'
  BY <1>1, <1>5 DEF IInv, PassedRightly, PassedOver
<1> QED
  BY <1>1, <1>5, <1>6, <1>7, <1>8 DEF IInv

\* The verdict on the whole image is a gap of its own.
LEMMA VerdictAdded ==
  ASSUME IInv, IsEmpty, NEW r \in Verdict, pc = "ending",
         gaps' = Append(gaps, [reason |-> r, candidate |-> 0, magic |-> 0])
  PROVE  /\ gaps' \in Seq(Gap) /\ gaps' # <<>>
         /\ \A c, n : DeclaredAt(c, n) => DeclaredAt(c, n)'
         /\ \A i \in DOMAIN gaps' :
              /\ GapIsTrue(gaps'[i].reason, gaps'[i].candidate, gaps'[i].magic)
              /\ gaps'[i].reason = "not recognised" => Len(gaps') = 1
<1>1. gaps \in Seq(Gap)
  BY DEF IInv, TypeOK
<1>2. r \in Reason /\ r # "kernel only" /\ (r = "not recognised" => gaps = <<>>)
  BY DEF Verdict, Reason
<1>3. PICK g \in Gap : gaps' = Append(gaps, g) /\ g.reason = r /\ g.candidate = 0 /\ g.magic = 0
  <2>1. [reason |-> r, candidate |-> 0, magic |-> 0] \in Gap
    BY <1>2 DEF Gap
  <2> QED
    BY <2>1
<1>4. DOMAIN gaps = 1 .. Len(gaps) /\ Len(gaps) \in Nat
  BY <1>1
<1>5. gaps' \in Seq(Gap) /\ Len(gaps') = Len(gaps) + 1 /\ gaps'[Len(gaps) + 1] = g
  BY <1>1, <1>3
<1>6. \A i \in DOMAIN gaps : gaps'[i] = gaps[i]
  BY <1>1, <1>3
<1>7. DOMAIN gaps' = 1 .. Len(gaps) + 1
  BY <1>5
<1>8. \A i \in DOMAIN gaps : /\ GapIsTrue(gaps[i].reason, gaps[i].candidate, gaps[i].magic)
                            /\ gaps[i].reason # "not recognised"
  BY DEF IInv, GapsSound
<1>9. GapIsTrue(g.reason, g.candidate, g.magic)
  BY <1>2, <1>3 DEF GapIsTrue
<1>10. g.reason = "not recognised" => Len(gaps) = 0
  BY <1>2, <1>3
<1>11. \A i \in DOMAIN gaps' : i \in DOMAIN gaps \/ gaps'[i] = g
  BY <1>4, <1>5, <1>7
<1>12. \A i \in DOMAIN gaps :  i \in DOMAIN gaps'
  BY <1>4, <1>7
<1>13. \A c, n : DeclaredAt(c, n) => DeclaredAt(c, n)'
  BY <1>6, <1>12 DEF DeclaredAt
<1>14. gaps' # <<>>
  BY <1>4, <1>5
<1>15. ASSUME NEW i \in DOMAIN gaps'
       PROVE  /\ GapIsTrue(gaps'[i].reason, gaps'[i].candidate, gaps'[i].magic)
              /\ gaps'[i].reason = "not recognised" => Len(gaps') = 1
  <2>1. CASE i \in DOMAIN gaps
    BY <2>1, <1>6, <1>8
  <2>2. CASE gaps'[i] = g
    <3>1. Len(gaps) = 0 => Len(gaps') = 1
      BY <1>5
    <3> QED
      BY <2>2, <3>1, <1>9, <1>10
  <2> QED
    BY <2>1, <2>2, <1>11
<1> QED
  BY <1>5, <1>13, <1>14, <1>15

LEMMA FinishKeeps == IInv /\ Finish => IInv'
<1> SUFFICES ASSUME IInv, Finish
             PROVE  IInv'
  OBVIOUS
<1>1. /\ UNCHANGED <<image, candidate, signatures, signature, entry>> /\ UNCHANGED storeVars
      /\ pc = "ending" /\ pc' = "done"
  BY DEF Finish
<1>2. \A r, c, n : GapIsTrue(r, c, n)' <=> GapIsTrue(r, c, n)
  BY <1>1 DEF GapIsTrue
<1>3. /\ gaps' \in Seq(Gap) /\ GapsSound'
      /\ \A c, n : DeclaredAt(c, n) => DeclaredAt(c, n)'
  <2>1. CASE gaps' = gaps /\ (IsEmpty => gaps # <<>>)
    BY <1>1, <1>2, <2>1, StoreStays DEF IInv, TypeOK, GapsSound, EmptyIsDeclared, DeclaredAt
  <2>2. ASSUME IsEmpty, NEW r \in Verdict,
               gaps' = Append(gaps, [reason |-> r, candidate |-> 0, magic |-> 0])
        PROVE  /\ gaps' \in Seq(Gap) /\ GapsSound'
               /\ \A c, n : DeclaredAt(c, n) => DeclaredAt(c, n)'
    <3>1. IsEmpty'
      BY <1>1, <2>2, StoreStays
    <3>2. /\ gaps' \in Seq(Gap) /\ gaps' # <<>>
          /\ \A c, n : DeclaredAt(c, n) => DeclaredAt(c, n)'
          /\ \A i \in DOMAIN gaps' :
               /\ GapIsTrue(gaps'[i].reason, gaps'[i].candidate, gaps'[i].magic)
               /\ gaps'[i].reason = "not recognised" => Len(gaps') = 1
      BY <1>1, <2>2, VerdictAdded
    <3> QED
      BY <1>1, <1>2, <3>1, <3>2 DEF GapsSound, EmptyIsDeclared
  <2>3. IsEmpty /\ Verdict = {} => gaps # <<>>
    BY DEF Verdict
  <2> QED
    BY <2>1, <2>2, <2>3 DEF Finish
<1>4. TypeOK' /\ Resolves'
  BY <1>1, <1>3, StoreStays DEF IInv, TypeOK
<1>5. Magics' = Magics /\ Current' = Current
  BY <1>1 DEF Magics, Current
<1>6. Loops'
  BY <1>1 DEF IInv, Loops
<1>7. Stored'
  <2>1. AtReadable /\ Holds(Len(Current.entries)) => AtReadable' /\ Holds(Len(Current.entries))'
    BY <1>1, <1>5, StoreStays DEF AtReadable, Holds
  <2> QED
    BY <1>1, <2>1, StoreStays DEF IInv, Stored
<1>8. PassedRightly'
  BY <1>1, <1>3 DEF IInv, PassedRightly, PassedOver
<1> QED
  BY <1>1, <1>3, <1>4, <1>6, <1>7, <1>8 DEF IInv

\* Every step of the loops of extract accounts for what it leaves behind.
THEOREM NextIInv == IInv /\ [Next]_vars => IInv'
<1> SUFFICES ASSUME IInv, [Next]_vars
             PROVE  IInv'
  OBVIOUS
<1>1. CASE UNCHANGED vars
  <2>1. /\ UNCHANGED <<image, candidate, signatures, signature, entry, gaps, pc>>
        /\ UNCHANGED storeVars
    BY <1>1 DEF vars
  <2>2. /\ TypeOK' <=> TypeOK
        /\ Resolves' <=> Resolves
        /\ IsEmpty' <=> IsEmpty
    BY <2>1, StoreStays DEF TypeOK
  <2>3. Magics' = Magics /\ Current' = Current
    BY <2>1 DEF Magics, Current
  <2>4. (AtReadable' <=> AtReadable) /\ \A n : Holds(n)' <=> Holds(n)
    BY <2>1, <2>3, StoreStays DEF AtReadable, Holds
  <2>5. Loops'
    BY <2>1, <2>3, <2>4 DEF IInv, Loops
  <2>6. Stored'
    BY <2>1, <2>2, <2>3, <2>4 DEF IInv, Stored
  <2>7. PassedRightly'
    BY <2>1 DEF IInv, PassedRightly, PassedOver, DeclaredAt
  <2>8. GapsSound'
    BY <2>1, <2>2 DEF IInv, GapsSound, GapIsTrue, EmptyIsDeclared
  <2> QED
    BY <2>1, <2>2, <2>5, <2>6, <2>7, <2>8 DEF IInv
<1> QED
  BY <1>1, OpenKeeps, NoMoreSignaturesKeeps, NoMoreCandidatesKeeps, CpioKeeps,
     NotSupportedKeeps, SquashFsKeeps, InsertEntryKeeps, InsertedKeeps, FinishKeeps
  DEF Next

\* The loops of extract keep the invariant.
THEOREM ExtractInvariant == Spec => []IInv
BY InitIInv, NextIInv, PTL DEF Spec

-----------------------------------------------------------------------------
\* A believable magic number that is not a hit is crowded out.
LEMMA CrowdedOut ==
  ASSUME image \in Images, NEW c \in DOMAIN image.peeled,
         NEW m \in BelievableIn(image.peeled[c].magics),
         m \notin HitsAmong(image.peeled[c].magics)
  PROVE  Crowded(<<c, m>>)
<1>1. image.peeled[c].magics \in Seq(Magic)
  BY ImageTypes
<1>2. /\ Cardinality(BelievableIn(image.peeled[c].magics)) > HitCap
      /\ \E j \in DOMAIN image.peeled[c].magics :
           j < m /\ image.peeled[c].magics[j].kind = image.peeled[c].magics[m].kind
  BY <1>1, Overlooked
<1> QED
  BY <1>2 DEF Crowded, BelievableIn, At

\* Where the search ended.
Behind(c, m) ==
  \/ c < candidate
  \/ c = candidate /\ AtReadable /\ m < signatures[signature]

\* At the end the hits in front of where the search ended are passed over.
LEMMA HitsPassed ==
  ASSUME IInv, pc = "done", NEW c \in DOMAIN image.peeled,
         NEW m \in HitsAmong(image.peeled[c].magics), Behind(c, m)
  PROVE  PassedOver(c, m)
<1>1. CASE c < candidate
  BY <1>1 DEF PassedOver
<1>2. CASE c = candidate /\ AtReadable /\ m < signatures[signature]
  <2>1. /\ Sorted(signatures, HitsAmong(Magics)) /\ signatures \in Seq(Nat)
        /\ signature \in DOMAIN signatures
    BY <1>2, ImageTypes, FindSorts DEF IInv, AtReadable, Magics
  <2>2. PICK n \in DOMAIN signatures : signatures[n] = m
    BY <1>2, <2>1 DEF Sorted, Magics
  <2>3. n \in Nat /\ signature \in Nat /\ signatures[n] \in Nat /\ signatures[signature] \in Nat
    BY <2>1, <2>2
  <2>4. ~ (signature < n)
    BY <1>2, <2>1, <2>2, <2>3 DEF Sorted
  <2>5. n # signature
    BY <1>2, <2>2, <2>3
  <2>6. n < signature
    BY <2>3, <2>4, <2>5
  <2> QED
    BY <1>2, <2>2, <2>6 DEF PassedOver
<1> QED
  BY <1>1, <1>2 DEF Behind

LEMMA ReadableIsBelievable ==
  ASSUME NEW m, Readable(m)
  PROVE  Believable(m)
BY DEF Readable, Believable

\* What can be read in front of where the search ended is crowded out.
LEMMA ReadableBehind ==
  ASSUME IInv, pc = "done", NEW c \in DOMAIN image.peeled,
         NEW m \in DOMAIN image.peeled[c].magics, Readable(image.peeled[c].magics[m]), Behind(c, m)
  PROVE  Crowded(<<c, m>>)
<1>1. m \in BelievableIn(image.peeled[c].magics)
  BY ReadableIsBelievable DEF BelievableIn
<1>2. m \notin HitsAmong(image.peeled[c].magics)
  BY HitsPassed DEF IInv, PassedRightly
<1> QED
  BY <1>1, <1>2, CrowdedOut DEF IInv

LEMMA FirstAtEnd == IInv => FirstReadable
<1> SUFFICES ASSUME IInv, pc = "done"
             PROVE  FirstReadable
  BY DEF FirstReadable
<1>1. CASE IsEmpty /\ candidate = Len(image.peeled) + 1
  <2>1. \A l \in {k \in Places : Readable(At(k))} : Crowded(l)
    <3> SUFFICES ASSUME NEW l \in Places, Readable(At(l))
                 PROVE  Crowded(l)
      OBVIOUS
    <3>1. PICK c, m :
           /\ c \in DOMAIN image.peeled
           /\ m \in DOMAIN image.peeled[c].magics
           /\ l = <<c, m>>
      BY PlacesAre
    <3>2. Readable(image.peeled[c].magics[m])
      BY <3>1 DEF At
    <3>3. c < candidate
      BY <1>1, <3>1, ImageTypes DEF IInv
    <3> QED
      BY <3>1, <3>2, <3>3, ReadableBehind DEF Behind
  <2> QED
    BY <1>1, <2>1 DEF FirstReadable
<1>2. CASE AtReadable /\ Holds(Len(Current.entries))
  <2> DEFINE here == <<candidate, signatures[signature]>>
  <2>1. signatures[signature] \in DOMAIN Magics /\ candidate \in DOMAIN image.peeled
    BY <1>2, HitTypes DEF IInv, AtReadable, BelievableIn
  <2>2. here \in Places
    BY <2>1, PlacesAre DEF Magics
  <2>3. At(here) = Current
    BY DEF At, Current, Magics
  <2>4. \A p \in Path : Get(p) = Final(Current.entries, p)
    <3>1. DOMAIN Current.entries = 1 .. Len(Current.entries)
      BY <1>2, ReadingTypes
    <3>2. \A p : Final(Current.entries, p) =
                LatestOf(Current.entries, {i \in DOMAIN Current.entries : Current.entries[i].path = p})
      BY DEF Final, LatestOf
    <3> QED
      BY <1>2, <3>1, <3>2 DEF Holds, FinalAmong
  <2>5. \A m \in Places : Readable(At(m)) /\ Precedes(m, here) => Crowded(m)
    <3> SUFFICES ASSUME NEW l \in Places, Readable(At(l)), Precedes(l, here)
                 PROVE  Crowded(l)
      OBVIOUS
    <3>1. PICK c, m :
           /\ c \in DOMAIN image.peeled
           /\ m \in DOMAIN image.peeled[c].magics
           /\ l = <<c, m>>
      BY PlacesAre
    <3>2. Readable(image.peeled[c].magics[m]) /\ Behind(c, m)
      BY <1>2, <3>1 DEF At, Behind, Precedes
    <3> QED
      BY <3>1, <3>2, ReadableBehind
  <2>6. Readable(At(here))
    BY <1>2, <2>3 DEF AtReadable
  <2> HIDE DEF here
  <2> QED
    BY <2>2, <2>3, <2>4, <2>5, <2>6 DEF FirstReadable
<1> QED
  BY <1>1, <1>2 DEF IInv, Stored

LEMMA ExactAtEnd == IInv => GapsAreExact
<1> SUFFICES ASSUME IInv
             PROVE  GapsAreExact
  OBVIOUS
<1>1. UnsupportedIsDeclared
  <2> SUFFICES ASSUME pc = "done", NEW l \in Places, Passed(l), ~ Crowded(l),
                      At(l).kind # "cpio", At(l).kind = "squashfs" => At(l).parses
               PROVE  Declared(l)
    BY DEF UnsupportedIsDeclared
  <2>1. PICK c, m :
         /\ c \in DOMAIN image.peeled
         /\ m \in DOMAIN image.peeled[c].magics
         /\ l = <<c, m>>
    BY PlacesAre
  <2>2. Declarable(image.peeled[c].magics[m]) /\ Believable(image.peeled[c].magics[m])
    BY <2>1 DEF At, Declarable, Believable
  <2>3. m \in HitsAmong(image.peeled[c].magics)
    BY <2>1, <2>2, CrowdedOut DEF IInv, BelievableIn
  <2>4. Behind(c, m)
    <3>1. CASE IsEmpty
      <4>1. candidate = Len(image.peeled) + 1
        BY <3>1 DEF IInv, Stored
      <4> QED
        BY <2>1, <4>1, ImageTypes DEF IInv, Behind
    <3>2. CASE ~ IsEmpty
      BY <3>2, <2>1 DEF IInv, Stored, Behind, Passed, Precedes
    <3> QED
      BY <3>1, <3>2
  <2>5. DeclaredAt(c, m)
    BY <2>1, <2>2, <2>3, <2>4, HitsPassed DEF IInv, PassedRightly
  <2> QED
    BY <2>1, <2>5 DEF Declared, DeclaredAt
<1>2. GapsAreTrue
  <2>1. \A c, m : At(<<c, m>>) = image.peeled[c].magics[m]
    BY DEF At
  <2> QED
    BY <2>1 DEF IInv, GapsSound, GapIsTrue, GapsAreTrue
<1> QED
  BY <1>1, <1>2 DEF IInv, GapsSound, GapsAreExact

\* What the command line extracts is the first filesystem of the image that can
\* be read, whole and unmixed, or nothing where there is none.
THEOREM ExtractsFirstReadable == Spec => []FirstReadable
BY ExtractInvariant, FirstAtEnd, PTL

\* Every unsupported filesystem the search met is declared, nothing read is
\* called a gap, and an empty store never comes without a reason.
THEOREM GapsAreTheTruth == Spec => []GapsAreExact
BY ExtractInvariant, ExactAtEnd, PTL

\* The loops write to the store only by inserting: through get it is a map from
\* paths to bytes while the image is extracted.
THEOREM ExtractImplementsFileMap == Spec => ImplementsFileMap
<1>1. ASSUME IInv, [Next]_vars
      PROVE  [Files!Next]_([p \in Path |-> Get(p)])
  <2>1. CASE InsertEntry
    <3> DEFINE e == Current.entries[entry]
    <3>1. AtReadable /\ entry \in 1 .. Len(Current.entries) + 1 /\ entry <= Len(Current.entries)
      BY <1>1, <2>1 DEF InsertEntry, IInv, Loops
    <3>2. Current.entries \in Seq(Entry)
      BY <1>1, <3>1, ReadingTypes
    <3>3. e \in Entry
      BY <3>1, <3>2
    <3>4. e.path \in Path /\ e.bytes \in Bytes
      BY <3>3 DEF Entry
    <3>5. Insert(e.path, e.bytes)
      BY <2>1 DEF InsertEntry
    <3>6. Files!Insert(e.path, e.bytes)
      BY <1>1, <3>4, <3>5, InsertRefines DEF IInv, TypeOK, StoreInv
    <3> QED
      BY <3>4, <3>6 DEF Files!Next
  <2>2. CASE UNCHANGED storeVars
    BY <2>2, StoreStays
  <2> QED
    BY <1>1, <2>1, <2>2
    DEF Next, vars, OpenCandidate, NoMoreSignatures, NoMoreCandidates, Cpio, NotSupported,
        SquashFs, Pass, Take, Inserted, Finish
<1>2. Init => Files!Init
  BY InitRefines DEF Init
<1> QED
  BY <1>1, <1>2, ExtractInvariant, PTL DEF Spec, ImplementsFileMap, Files!Spec
=============================================================================
