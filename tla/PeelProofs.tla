----------------------------- MODULE PeelProofs -----------------------------
(***************************************************************************)
(* Peeling follows the largest members, keeps the filesystem it comes to,  *)
(* keeps the largest payload of the search, and fills the stack only with  *)
(* what CrashTakesDepth names, for any blobs nested in any way and a stack *)
(* of any size. What makes it inductive is that every call on the stack    *)
(* has taken a byte off, unless something was decompressed or the header   *)
(* was empty; that while the headers are taken off the signature of data   *)
(* shows at at; and the invariant of the search, which the calls before it *)
(* leave as it begins. That a largest member exists is by induction on the *)
(* members, for which a least element of a set of numbers stands.          *)
(***************************************************************************)
EXTENDS Peel, UImageProofs, WellFoundedInduction

Decompressed == \E k \in DOMAIN peeled : Has(peeled[k], {"gzip", "zip"})

EmptyHeader == Has(at, {"chk"}) /\ Inner(at)[1] = at

\* The search has not begun.
Fresh == pos = 0 /\ best = None

\* Every call of peel has taken a byte off, and every call of peel_headers too:
\* off data, or off the payload that is kept.
Spent ==
  /\ Decompressed \/ Len(peeled) + Size(data) <= Size(Raw)
  /\ pc \in {"search", "done"} => stripped = 0
  /\ pc \in {"peel", "raw"} \/ (pc = "crashed" /\ best = None) =>
       EmptyHeader \/ stripped + Size(at) <= Size(data)
  /\ pc = "payload" \/ (pc = "crashed" /\ best # None) =>
       best # None /\ (EmptyHeader \/ stripped + Size(at) <= Size(best.data))

\* A filesystem that shows in data shows where peel_headers has come to, and
\* then in what it has returned.
SignatureFollowed ==
  image[data].signature =>
    /\ pc \in {"peel", "raw"} => image[at].signature
    /\ pc \in {"search", "payload", "done"} => \E i \in DOMAIN out : image[out[i]].signature

IInv ==
  /\ TypeOK
  /\ SearchInv
  /\ pc \in {"peel", "raw"} => Fresh
  /\ pc = "peel" => at = data /\ stripped = 0
  /\ Spent
  /\ CrashTakesDepth
  /\ SignatureFollowed
  /\ LargestFollows

-----------------------------------------------------------------------------
\* Every set of numbers that is not empty has a least one.
LEMMA Least ==
  ASSUME NEW S, S \subseteq Nat, S # {}
  PROVE  \E n \in S : \A m \in S : ~(m < n)
<1>1. IsWellFoundedOn(OpToRel(<, Nat), Nat)
  BY NatLessThanWellFounded
<1>2. PICK n \in S : \A m \in S : ~(<<m, n>> \in OpToRel(<, Nat))
  BY <1>1, WFMin
<1>3. \A m \in S : <<m, n>> \in OpToRel(<, Nat) <=> m < n
  BY DEF OpToRel
<1> QED
  BY <1>2, <1>3

\* Induction, over a set instead of a formula.
LEMMA EveryNumber ==
  ASSUME NEW S, 0 \in S, \A n \in Nat : n \in S => n + 1 \in S
  PROVE  Nat \subseteq S
<1> SUFFICES ASSUME Nat \ S # {}
             PROVE  FALSE
  OBVIOUS
<1>1. PICK n \in Nat \ S : \A m \in Nat \ S : ~(m < n)
  BY Least
<1>2. n # 0 /\ n - 1 \in Nat /\ n - 1 < n
  BY <1>1
<1>3. n - 1 + 1 \in S
  BY <1>1, <1>2
<1> QED
  BY <1>1, <1>2, <1>3

\* The last of the largest members, as max_by_key finds it.
IsLargest(s, n, i) ==
  \A j \in 1 .. n : Size(s[j]) < Size(s[i]) \/ (Size(s[j]) = Size(s[i]) /\ j <= i)

\* Of members there is a last largest one.
LEMMA LargestExists ==
  ASSUME image \in Images, data \in Blob, NEW s \in Seq(Blob), s # <<>>
  PROVE  \E i \in 1 .. Len(s) : IsLargest(s, Len(s), i)
<1> DEFINE S == {n \in Nat : n # 0 /\ n <= Len(s) => \E i \in 1 .. n : IsLargest(s, n, i)}
<1>1. 0 \in S
  OBVIOUS
<1>2. ASSUME NEW n \in Nat, n \in S
      PROVE  n + 1 \in S
  <2> SUFFICES ASSUME n + 1 <= Len(s)
               PROVE  \E i \in 1 .. n + 1 : IsLargest(s, n + 1, i)
    OBVIOUS
  <2>1. \A j \in 1 .. n + 1 : Size(s[j]) \in Nat
    BY BlobTypes
  <2>2. CASE n = 0
    <3>1. IsLargest(s, 1, 1)
      BY <2>1, <2>2 DEF IsLargest
    <3> QED
      BY <2>2, <3>1
  <2>3. CASE n # 0
    <3>1. PICK i \in 1 .. n : IsLargest(s, n, i)
      BY <2>3, <1>2
    <3>2. CASE Size(s[i]) <= Size(s[n + 1])
      <4>1. IsLargest(s, n + 1, n + 1)
        BY <2>1, <3>1, <3>2 DEF IsLargest
      <4> QED
        BY <4>1
    <3>3. CASE Size(s[n + 1]) < Size(s[i])
      <4>1. IsLargest(s, n + 1, i)
        BY <2>1, <3>1, <3>3 DEF IsLargest
      <4> QED
        BY <4>1
    <3> QED
      BY <2>1, <3>2, <3>3
  <2> QED
    BY <2>2, <2>3
<1>3. Nat \subseteq S
  <2> HIDE DEF S
  <2> QED
    BY <1>1, <1>2, EveryNumber
<1>4. Len(s) \in Nat /\ Len(s) # 0
  OBVIOUS
<1> QED
  BY <1>3, <1>4

\* largest returns a member, and none is larger.
LEMMA LargestIsLargest ==
  ASSUME image \in Images, data \in Blob, NEW s \in Seq(Blob), s # <<>>
  PROVE  \E i \in DOMAIN s :
           s[i] = Largest(s) /\ \A j \in DOMAIN s : Size(s[j]) <= Size(Largest(s))
<1>1. DOMAIN s = 1 .. Len(s)
  OBVIOUS
<1>2. PICK i \in DOMAIN s :
        /\ \A j \in DOMAIN s : Size(s[j]) < Size(s[i]) \/ (Size(s[j]) = Size(s[i]) /\ j <= i)
        /\ s[i] = Largest(s)
  BY <1>1, LargestExists DEF IsLargest, Largest
<1>3. \A j \in DOMAIN s : Size(s[j]) \in Nat
  BY BlobTypes
<1> QED
  BY <1>2, <1>3

-----------------------------------------------------------------------------
\* What the image says of a blob.
LEMMA HeadTypes ==
  ASSUME image \in Images, NEW b \in Blob
  PROVE  /\ image[b].kind \in Kind /\ image[b].signature \in BOOLEAN
         /\ Inner(b) \in Seq(Blob) /\ Size(b) \in Nat
         /\ Has(b, {"gzip", "chk"}) => Len(Inner(b)) = 1
         /\ ~Has(b, {"none"}) => Inner(b) # <<>> /\ 1 \in DOMAIN Inner(b) /\ Size(b) > 0
         /\ \A i \in DOMAIN Inner(b) :
              /\ Inner(b)[i] \in Blob /\ Size(Inner(b)[i]) \in Nat
              /\ Has(b, {"trx", "tar"}) => Size(Inner(b)[i]) < Size(b)
              /\ Has(b, {"chk"}) => Size(Inner(b)[i]) < Size(b) \/ Inner(b)[i] = b
         /\ Has(b, {"chk", "trx"}) =>
              image[b].signature = \E i \in DOMAIN Inner(b) : image[Inner(b)[i]].signature
<1>1. /\ image \in [Blob -> Shape]
      /\ image[b].kind # "none" => image[b].inner # <<>> /\ image[b].size > 0
      /\ image[b].kind \in {"gzip", "chk"} => Len(image[b].inner) = 1
      /\ Shrinks(image, b) /\ ShowsThrough(image, b)
  BY PeelAssumption
<1>2. \A c \in Blob : image[c] \in Shape
  BY <1>1
<1>3. \A c \in Blob : image[c].size \in Nat
  BY <1>2 DEF Shape
<1>4. image[b].kind \in Kind /\ image[b].inner \in Seq(Blob) /\ image[b].signature \in BOOLEAN
  BY <1>2 DEF Shape
<1>5. \A i \in DOMAIN image[b].inner : image[b].inner[i] \in Blob
  BY <1>4
<1>6. \A i \in DOMAIN Inner(b) :
        /\ Inner(b)[i] \in Blob /\ Size(Inner(b)[i]) \in Nat
        /\ Has(b, {"trx", "tar"}) => Size(Inner(b)[i]) < Size(b)
        /\ Has(b, {"chk"}) => Size(Inner(b)[i]) < Size(b) \/ Inner(b)[i] = b
  BY <1>1, <1>3, <1>5 DEF Has, Inner, Size, Shrinks
<1>7. Has(b, {"chk", "trx"}) =>
        image[b].signature = \E i \in DOMAIN Inner(b) : image[Inner(b)[i]].signature
  BY <1>1, <1>4 DEF Has, Inner, ShowsThrough
<1>8. ~Has(b, {"none"}) => Inner(b) # <<>> /\ 1 \in DOMAIN Inner(b) /\ Size(b) > 0
  BY <1>1, <1>4 DEF Has, Inner, Size
<1>9. Has(b, {"gzip", "chk"}) => Len(Inner(b)) = 1
  BY <1>1 DEF Has, Inner
<1> QED
  BY <1>3, <1>4, <1>6, <1>7, <1>8, <1>9 DEF Inner, Size

\* Blobs and the calls on the stack.
LEMMA StateTypes ==
  ASSUME IInv
  PROVE  /\ image \in Images /\ data \in Blob /\ at \in Blob /\ Raw \in Blob
         /\ Size(data) \in Nat /\ Size(at) \in Nat /\ Size(Raw) \in Nat
         /\ peeled \in Seq(Blob) /\ Len(peeled) \in Nat /\ stripped \in Nat
         /\ out \in Seq(Blob)
         /\ StackLimit \in Nat /\ Len(peeled) + stripped <= StackLimit
         /\ best # None => best.data \in Blob /\ Size(best.data) \in Nat
BY PeelAssumption, BlobTypes, BestTypes DEF IInv, TypeOK, SearchTypeOK, SearchInv

\* The call of peel on the whole image.
LEMMA InitIInv == Init => IInv
<1> SUFFICES ASSUME Init
             PROVE  IInv
  OBVIOUS
<1>1. /\ image \in Images /\ data \in Blob /\ pos = 0 /\ best = None /\ data = Raw /\ at = Raw
      /\ peeled = <<>> /\ stripped = 0 /\ out = <<>> /\ pc = "peel"
  BY DEF Init, SearchInit
<1>2. SearchInv
  BY <1>1, FreshSearch
<1>3. Len(peeled) = 0 /\ StackLimit \in Nat /\ Size(Raw) \in Nat
  BY <1>1, BlobTypes, PeelAssumption
<1>4. TypeOK
  BY <1>1, <1>2, <1>3 DEF TypeOK, SearchInv
<1>5. Spent /\ CrashTakesDepth /\ SignatureFollowed /\ LargestFollows
  BY <1>1, <1>3 DEF Spent, CrashTakesDepth, SignatureFollowed, LargestFollows
<1> QED
  BY <1>1, <1>2, <1>4, <1>5 DEF IInv, Fresh

\* What is said of the blobs stays while the image does.
LEMMA SameImage ==
  ASSUME image' = image
  PROVE  /\ \A b : Size(b)' = Size(b) /\ Inner(b)' = Inner(b)
         /\ \A b, kinds : Has(b, kinds)' <=> Has(b, kinds)
         /\ \A b, c : IsLargestMember(c, b)' <=> IsLargestMember(c, b)
BY DEF Size, Inner, Has, IsLargestMember

\* One call of peel more.
LEMMA Pushed ==
  ASSUME NEW s \in Seq(Blob), NEW b \in Blob
  PROVE  /\ Append(s, b) \in Seq(Blob) /\ Len(Append(s, b)) = Len(s) + 1
         /\ DOMAIN Append(s, b) = 1 .. Len(s) + 1 /\ DOMAIN s = 1 .. Len(s)
         /\ \A k \in 1 .. Len(s) : Append(s, b)[k] = s[k]
         /\ Append(s, b)[Len(s) + 1] = b
OBVIOUS

\* A stack that is not full has room for one call.
LEMMA Room ==
  ASSUME NEW m \in Nat, NEW s \in Nat, NEW l \in Nat, m + s <= l, m + s # l
  PROVE  m + 1 + s <= l /\ m + (s + 1) <= l /\ s + 1 \in Nat
OBVIOUS

\* A call of peel with what is inside data, where an archive is entered at a
\* largest member.
LEMMA EnterKeeps ==
  ASSUME IInv, NEW b, Enter(b), pc = "peel",
         \E i \in DOMAIN Inner(data) : Inner(data)[i] = b,
         Has(data, {"gzip", "zip", "tar"}),
         Has(data, ArchiveKind) =>
           \A i \in DOMAIN Inner(data) : Size(Inner(data)[i]) <= Size(b)
  PROVE  IInv'
<1>1. /\ UNCHANGED <<image, pos, best, stripped, out, pc>>
      /\ data' = b /\ at' = b /\ peeled' = Append(peeled, data)
      /\ Len(peeled) + stripped # StackLimit
  BY DEF Enter, StackIsFull
<1>2. b \in Blob /\ Size(b) \in Nat /\ (Has(data, {"tar"}) => Size(b) < Size(data))
  BY StateTypes, HeadTypes DEF Has
<1>3. /\ peeled' \in Seq(Blob) /\ Len(peeled') = Len(peeled) + 1
      /\ DOMAIN peeled' = 1 .. Len(peeled) + 1 /\ DOMAIN peeled = 1 .. Len(peeled)
      /\ \A k \in 1 .. Len(peeled) : peeled'[k] = peeled[k]
      /\ peeled'[Len(peeled) + 1] = data
  BY <1>1, StateTypes, Pushed
<1>4. stripped = 0 /\ pos = 0 /\ best = None
  BY DEF IInv, Fresh
<1>5. SearchInv'
  <2>1. image' \in Images /\ data' \in Blob /\ pos' = 0 /\ best' = None
    BY <1>1, <1>2, <1>4, StateTypes
  <2>2. (image \in Images /\ data \in Blob /\ pos = 0 /\ best = None => SearchInv)'
    BY FreshSearch, PTL
  <2> QED
    BY <2>1, <2>2
<1>6. TypeOK'
  <2>1. Len(peeled') + stripped' <= StackLimit
    BY <1>1, <1>3, StateTypes, Room
  <2> QED
    BY <1>1, <1>2, <1>3, <1>5, <2>1 DEF IInv, TypeOK, SearchInv
<1>7. Spent'
  <2>1. Decompressed' \/ Len(peeled') + Size(b) <= Size(Raw)
    <3>1. CASE Decompressed
      <4>1. PICK k \in DOMAIN peeled : Has(peeled[k], {"gzip", "zip"})
        BY <3>1 DEF Decompressed
      <4>2. k \in DOMAIN peeled' /\ peeled'[k] = peeled[k]
        BY <1>3, <4>1, StateTypes
      <4> QED
        BY <1>1, <4>1, <4>2, SameImage DEF Decompressed
    <3>2. CASE Has(data, {"gzip", "zip"})
      <4>1. Len(peeled) + 1 \in DOMAIN peeled' /\ peeled'[Len(peeled) + 1] = data
        BY <1>3, StateTypes
      <4> QED
        BY <1>1, <3>2, <4>1, SameImage DEF Decompressed
    <3>3. CASE ~Decompressed /\ Has(data, {"tar"})
      BY <1>2, <1>3, <3>3, StateTypes DEF IInv, Spent
    <3> QED
      BY <3>1, <3>2, <3>3 DEF Has
  <2>2. 0 + Size(b) <= Size(b)
    BY <1>2
  <2> QED
    BY <1>1, <1>4, <2>1, <2>2, SameImage DEF Spent
<1>8. CrashTakesDepth' /\ SignatureFollowed'
  BY <1>1 DEF CrashTakesDepth, SignatureFollowed
<1>9. LargestFollows'
  <2> SUFFICES ASSUME NEW k \in DOMAIN peeled', Has(peeled'[k], ArchiveKind)
               PROVE  IsLargestMember(Append(peeled', b)[k + 1], peeled'[k])
    BY <1>1, SameImage DEF LargestFollows
  <2>1. /\ \A i \in 1 .. Len(peeled) + 1 : Append(peeled', b)[i] = peeled'[i]
        /\ Append(peeled', b)[Len(peeled) + 1 + 1] = b
    BY <1>2, <1>3, Pushed
  <2>2. CASE k = Len(peeled) + 1
    BY <1>3, <2>1, <2>2 DEF IsLargestMember
  <2>3. CASE k # Len(peeled) + 1
    <3>1. k \in 1 .. Len(peeled) /\ k + 1 \in 1 .. Len(peeled) + 1
      BY <1>3, <2>3, StateTypes
    <3>2. peeled'[k] = peeled[k] /\ k \in DOMAIN peeled
      BY <1>3, <3>1
    <3>3. Append(peeled', b)[k + 1] = Append(peeled, data)[k + 1]
      BY <1>1, <2>1, <3>1
    <3> QED
      BY <3>2, <3>3 DEF IInv, LargestFollows
  <2> QED
    BY <2>2, <2>3
<1> QED
  BY <1>1, <1>4, <1>5, <1>6, <1>7, <1>8, <1>9 DEF IInv, Fresh

LEMMA GunzipKeeps == IInv /\ Gunzip => IInv'
<1> SUFFICES ASSUME IInv, Gunzip
             PROVE  IInv'
  OBVIOUS
<1>1. pc = "peel" /\ Has(data, {"gzip"}) /\ Enter(Inner(data)[1])
  BY DEF Gunzip
<1>2. 1 \in DOMAIN Inner(data)
  BY <1>1, StateTypes, HeadTypes DEF Has
<1> QED
  BY <1>1, <1>2, EnterKeeps DEF Has, ArchiveKind

LEMMA UnarchiveKeeps == IInv /\ Unarchive => IInv'
<1> SUFFICES ASSUME IInv, Unarchive
             PROVE  IInv'
  OBVIOUS
<1>1. pc = "peel" /\ Has(data, ArchiveKind) /\ Enter(Largest(Inner(data)))
  BY DEF Unarchive
<1>2. Inner(data) \in Seq(Blob) /\ Inner(data) # <<>>
  BY <1>1, StateTypes, HeadTypes DEF Has, ArchiveKind
<1>3. Has(data, {"gzip", "zip", "tar"})
  BY <1>1 DEF Has, ArchiveKind
<1> QED
  BY <1>1, <1>2, <1>3, StateTypes, LargestIsLargest, EnterKeeps

LEMMA BeginRawKeeps == IInv /\ BeginRaw => IInv'
<1> SUFFICES ASSUME IInv, BeginRaw
             PROVE  IInv'
  OBVIOUS
<1>1. /\ UNCHANGED <<image, data, pos, best, at, peeled, stripped, out>>
      /\ pc = "peel" /\ pc' = "raw"
  BY DEF BeginRaw
<1>2. SearchInv'
  BY <1>1, SearchKeeps DEF IInv, searchVars
<1>3. TypeOK' /\ LargestFollows' /\ CrashTakesDepth'
  BY <1>1, SameImage DEF IInv, TypeOK, SearchTypeOK, LargestFollows, CrashTakesDepth
<1>4. Spent' /\ SignatureFollowed'
  BY <1>1, SameImage DEF IInv, Spent, SignatureFollowed, Decompressed, EmptyHeader
<1> QED
  BY <1>1, <1>2, <1>3, <1>4 DEF IInv, Fresh

LEMMA StripChkKeeps == IInv /\ StripChk => IInv'
<1> SUFFICES ASSUME IInv, StripChk
             PROVE  IInv'
  OBVIOUS
<1>1. /\ UNCHANGED <<image, data, pos, best, peeled, out, pc>>
      /\ pc \in {"raw", "payload"} /\ Has(at, {"chk"})
      /\ at' = Inner(at)[1] /\ stripped' = stripped + 1
      /\ Len(peeled) + stripped # StackLimit
  BY DEF StripChk, StackIsFull, InHeaders
<1>2. /\ at' \in Blob /\ Size(at') \in Nat
      /\ Size(at') < Size(at) \/ at' = at
      /\ DOMAIN Inner(at) = {1}
  <2>1. at \in Blob /\ Has(at, {"gzip", "chk"}) /\ image \in Images
    BY <1>1, StateTypes DEF Has
  <2>2. Inner(at) \in Seq(Blob) /\ Len(Inner(at)) = 1
    BY <2>1, HeadTypes
  <2>3. DOMAIN Inner(at) = {1}
    BY <2>2
  <2> QED
    BY <1>1, <2>1, <2>3, HeadTypes
<1>3. SearchInv'
  BY <1>1, SearchKeeps DEF IInv, searchVars
<1>4. TypeOK' /\ LargestFollows' /\ CrashTakesDepth'
  <2>1. Len(peeled) + stripped' <= StackLimit /\ stripped' \in Nat
    BY <1>1, StateTypes, Room
  <2> QED
    BY <1>1, <1>2, <2>1, SameImage DEF IInv, TypeOK, SearchTypeOK, LargestFollows, CrashTakesDepth
<1>5. Spent'
  <2>1. CASE at' = at
    <3>1. EmptyHeader'
      BY <1>1, <2>1, SameImage DEF EmptyHeader
    <3> QED
      BY <1>1, <3>1, SameImage DEF IInv, Spent, Decompressed
  <2>2. CASE Size(at') < Size(at)
    <3>1. ~EmptyHeader
      BY <1>1, <2>2, StateTypes DEF EmptyHeader
    <3>2. /\ stripped' + Size(at') <= stripped + Size(at)
          /\ stripped + Size(at) \in Nat /\ stripped' + Size(at') \in Nat
      BY <1>1, <1>2, <2>2, StateTypes
    <3>3. pc = "raw" => stripped' + Size(at') <= Size(data)
      BY <1>1, <3>1, <3>2, StateTypes DEF IInv, Spent
    <3>4. pc = "payload" => best # None /\ stripped' + Size(at') <= Size(best.data)
      BY <1>1, <3>1, <3>2, StateTypes DEF IInv, Spent
    <3> QED
      BY <1>1, <3>3, <3>4, SameImage DEF IInv, Spent, Decompressed
  <2> QED
    BY <1>2, <2>1, <2>2
<1>6. SignatureFollowed'
  <2>1. ASSUME pc = "raw", image[data].signature
        PROVE  image[at'].signature
    <3>1. image[at].signature
      BY <2>1 DEF IInv, SignatureFollowed
    <3>2. PICK i \in DOMAIN Inner(at) : image[Inner(at)[i]].signature
      BY <1>1, <3>1, StateTypes, HeadTypes DEF Has
    <3> QED
      BY <1>1, <1>2, <3>2
  <2> QED
    BY <1>1, <2>1 DEF IInv, SignatureFollowed
<1> QED
  BY <1>1, <1>3, <1>4, <1>5, <1>6 DEF IInv, Fresh

\* The stack is full where a byte was spent on every call.
LEMMA OverflowKeeps == IInv /\ Overflow => IInv'
<1> SUFFICES ASSUME IInv, Overflow
             PROVE  IInv'
  OBVIOUS
<1>1. /\ UNCHANGED <<image, data, pos, best, at, peeled, stripped, out>>
      /\ pc' = "crashed" /\ Len(peeled) + stripped = StackLimit
      /\ \/ pc = "peel" /\ Has(data, {"gzip", "zip", "tar"})
         \/ pc \in {"raw", "payload"} /\ Has(at, {"chk"})
  BY DEF Overflow, StackIsFull, InHeaders, Has, ArchiveKind
<1>2. SearchInv'
  BY <1>1, SearchKeeps DEF IInv, searchVars
<1>3. TypeOK' /\ LargestFollows' /\ SignatureFollowed'
  BY <1>1, SameImage DEF IInv, TypeOK, SearchTypeOK, LargestFollows, SignatureFollowed
<1>4. pc \in {"peel", "raw"} <=> best = None
  BY <1>1 DEF IInv, Fresh, Spent
<1>5. Spent'
  BY <1>1, <1>4, SameImage DEF IInv, Spent, Decompressed, EmptyHeader
<1>6. CrashTakesDepth'
  <2> SUFFICES ASSUME ~EmptyHeader, ~Decompressed
               PROVE  \/ StackLimit < Size(Raw)
                      \/ best # None /\ StackLimit < Len(peeled) + Size(best.data)
    BY <1>1, SameImage DEF CrashTakesDepth, EmptyHeader, Decompressed
  <2>1. Len(peeled) + Size(data) <= Size(Raw)
    BY DEF IInv, Spent
  <2>2. CASE pc = "peel"
    <3>1. Size(data) > 0 /\ stripped = 0
      BY <1>1, <2>2, StateTypes, HeadTypes DEF IInv, Has
    <3> QED
      BY <1>1, <2>1, <3>1, StateTypes
  <2>3. CASE pc \in {"raw", "payload"}
    <3>1. Size(at) > 0
      BY <1>1, <2>3, StateTypes, HeadTypes DEF Has
    <3>2. CASE pc = "raw"
      <4>1. stripped + Size(at) <= Size(data)
        BY <3>2 DEF IInv, Spent
      <4> QED
        BY <1>1, <2>1, <3>1, <4>1, StateTypes
    <3>3. CASE pc = "payload"
      <4>1. best # None /\ stripped + Size(at) <= Size(best.data)
        BY <3>3 DEF IInv, Spent
      <4> QED
        BY <1>1, <3>1, <4>1, StateTypes
    <3> QED
      BY <2>3, <3>2, <3>3
  <2> QED
    BY <1>1, <2>2, <2>3
<1> QED
  BY <1>1, <1>2, <1>3, <1>5, <1>6 DEF IInv

\* What peel_headers adds shows the signature its argument shows.
LEMMA UnwrappedShows ==
  ASSUME IInv, ~Has(at, {"chk"})
  PROVE  /\ Unwrapped(at) \in Seq(Blob)
         /\ image[at].signature => \E i \in DOMAIN Unwrapped(at) : image[Unwrapped(at)[i]].signature
<1>1. at \in Blob /\ Inner(at) \in Seq(Blob)
  BY StateTypes, HeadTypes
<1>2. CASE Has(at, {"trx"})
  BY <1>1, <1>2, StateTypes, HeadTypes DEF Unwrapped, Has
<1>3. CASE ~Has(at, {"trx"})
  <2>1. Unwrapped(at) = <<at>>
    BY <1>3 DEF Unwrapped
  <2> QED
    BY <1>1, <2>1
<1> QED
  BY <1>2, <1>3

\* What is in two sequences is in the one behind the other.
LEMMA Appended ==
  ASSUME NEW s \in Seq(Blob), NEW t \in Seq(Blob)
  PROVE  /\ s \o t \in Seq(Blob)
         /\ \A i \in DOMAIN s : i \in DOMAIN (s \o t) /\ (s \o t)[i] = s[i]
         /\ \A i \in DOMAIN t :
              Len(s) + i \in DOMAIN (s \o t) /\ (s \o t)[Len(s) + i] = t[i]
OBVIOUS

LEMMA FinishHeadersKeeps == IInv /\ FinishHeaders => IInv'
<1> SUFFICES ASSUME IInv, FinishHeaders
             PROVE  IInv'
  OBVIOUS
<1>1. /\ UNCHANGED <<image, data, pos, best, at, peeled>>
      /\ pc \in {"raw", "payload"} /\ ~Has(at, {"chk"})
      /\ out' = out \o Unwrapped(at) /\ stripped' = 0 /\ pc' \in {"search", "done"}
  BY DEF FinishHeaders, InHeaders
<1>2. SearchInv'
  BY <1>1, SearchKeeps DEF IInv, searchVars
<1>3. out' \in Seq(Blob)
  BY <1>1, StateTypes, UnwrappedShows, Appended
<1>4. TypeOK' /\ LargestFollows' /\ CrashTakesDepth'
  <2>1. Len(peeled) + stripped' <= StackLimit
    BY <1>1, StateTypes
  <2> QED
    BY <1>1, <1>3, <2>1, SameImage DEF IInv, TypeOK, SearchTypeOK, LargestFollows, CrashTakesDepth
<1>5. Spent'
  BY <1>1, SameImage DEF IInv, Spent, Decompressed
<1>6. SignatureFollowed'
  <2> SUFFICES ASSUME image[data].signature
               PROVE  \E i \in DOMAIN out' : image[out'[i]].signature
    BY <1>1 DEF SignatureFollowed
  <2>1. CASE pc = "raw"
    <3>1. PICK i \in DOMAIN Unwrapped(at) : image[Unwrapped(at)[i]].signature
      BY <1>1, <2>1, UnwrappedShows DEF IInv, SignatureFollowed
    <3>2. Len(out) + i \in DOMAIN out' /\ out'[Len(out) + i] = Unwrapped(at)[i]
      BY <1>1, <3>1, StateTypes, UnwrappedShows, Appended
    <3> QED
      BY <3>1, <3>2
  <2>2. CASE pc = "payload"
    <3>1. PICK i \in DOMAIN out : image[out[i]].signature
      BY <2>2 DEF IInv, SignatureFollowed
    <3>2. i \in DOMAIN out' /\ out'[i] = out[i]
      BY <1>1, <3>1, StateTypes, UnwrappedShows, Appended
    <3> QED
      BY <3>1, <3>2
  <2> QED
    BY <1>1, <2>1, <2>2
<1> QED
  BY <1>1, <1>2, <1>4, <1>5, <1>6 DEF IInv, Fresh

LEMMA SearchStepKeeps == IInv /\ Search => IInv'
<1> SUFFICES ASSUME IInv, Search
             PROVE  IInv'
  OBVIOUS
<1>1. /\ UNCHANGED <<image, data, at, peeled, stripped, out, pc>>
      /\ pc = "search" /\ SearchNext
  BY DEF Search, SearchNext, PassBy, SkipUndecodable, TakePayload
<1>2. SearchInv'
  BY <1>1, SearchKeeps DEF IInv
<1>3. TypeOK' /\ LargestFollows' /\ CrashTakesDepth' /\ SignatureFollowed' /\ Spent'
  BY <1>1, <1>2, SameImage
     DEF IInv, TypeOK, SearchInv, LargestFollows, CrashTakesDepth, SignatureFollowed, Spent,
         Decompressed
<1> QED
  BY <1>1, <1>2, <1>3 DEF IInv

LEMMA EndSearchKeeps == IInv /\ EndSearch => IInv'
<1> SUFFICES ASSUME IInv, EndSearch
             PROVE  IInv'
  OBVIOUS
<1>1. /\ UNCHANGED <<image, data, pos, best, peeled, stripped, out>>
      /\ pc = "search" /\ stripped = 0
      /\ \/ best = None /\ pc' = "done" /\ at' = at
         \/ best # None /\ pc' = "payload" /\ at' = best.data
  BY DEF EndSearch, IInv, Spent
<1>2. SearchInv'
  BY <1>1, SearchKeeps DEF IInv, searchVars
<1>3. at' \in Blob
  BY <1>1, StateTypes
<1>4. TypeOK' /\ LargestFollows' /\ CrashTakesDepth'
  BY <1>1, <1>3, SameImage
     DEF IInv, TypeOK, SearchTypeOK, LargestFollows, CrashTakesDepth
<1>5. Spent'
  <2>1. best # None => 0 + Size(best.data) <= Size(best.data)
    BY StateTypes
  <2> QED
    BY <1>1, <2>1, SameImage DEF IInv, Spent, Decompressed
<1>6. SignatureFollowed'
  BY <1>1 DEF IInv, SignatureFollowed
<1> QED
  BY <1>1, <1>2, <1>4, <1>5, <1>6 DEF IInv

\* Every call and every return of peel and peel_headers, and every turn of the
\* search, keeps the invariant.
LEMMA NextIInv == IInv /\ [Next]_vars => IInv'
<1> SUFFICES ASSUME IInv, [Next]_vars
             PROVE  IInv'
  OBVIOUS
<1>1. CASE UNCHANGED vars
  <2>1. UNCHANGED <<image, data, pos, best, at, peeled, stripped, out, pc>>
    BY <1>1 DEF vars
  <2>2. SearchInv'
    BY <2>1, SearchKeeps DEF IInv, searchVars
  <2>3. TypeOK' /\ LargestFollows' /\ CrashTakesDepth' /\ SignatureFollowed' /\ Spent'
    BY <2>1, SameImage
       DEF IInv, TypeOK, SearchTypeOK, LargestFollows, CrashTakesDepth, SignatureFollowed, Spent,
           Decompressed, EmptyHeader
  <2> QED
    BY <2>1, <2>2, <2>3 DEF IInv, Fresh
<1> QED
  BY <1>1, GunzipKeeps, UnarchiveKeeps, BeginRawKeeps, StripChkKeeps, OverflowKeeps,
     FinishHeadersKeeps, SearchStepKeeps, EndSearchKeeps
  DEF Next

\* The recursion of peel keeps the invariant.
LEMMA PeelInvariant == Spec => []IInv
BY InitIInv, NextIInv, PTL DEF Spec

\* Of every archive the layer entered is a largest member, and a filesystem
\* whose signature shows in the innermost layer shows in what peel returns.
THEOREM FilesystemIsKept == Spec => []LargestLayerKept
<1>1. IInv => LargestLayerKept
  BY DEF IInv, LargestLayerKept, LayerFilesystemKept, SignatureFollowed
<1> QED
  BY <1>1, PeelInvariant, PTL

\* The recursion of peel and peel_headers, whose depth nothing bounds, fills a
\* stack of any size only at a CHK header of length zero, behind something
\* decompressed, or with at least a byte for every call.
THEOREM DepthIsBought == Spec => []CrashTakesDepth
<1>1. IInv => CrashTakesDepth
  BY DEF IInv
<1> QED
  BY <1>1, PeelInvariant, PTL

\* The payload kept is the largest of the headers the search is to read and has
\* passed, and the earliest of that size, whatever the size fields claim.
THEOREM LargestIsFound == Spec => []LargestFound
<1>1. IInv => LargestFound
  BY DEF IInv, SearchInv
<1> QED
  BY <1>1, PeelInvariant, PTL

\* The payload kept is that of a header whose bytes lie inside the layer.
THEOREM PayloadIsInImage == Spec => []PayloadInImage
<1>1. IInv => PayloadInImage
  BY DEF IInv, SearchInv
<1> QED
  BY <1>1, PeelInvariant, PTL
=============================================================================
