---------------------------- MODULE UImageProofs ----------------------------
(***************************************************************************)
(* The search for a uImage payload keeps the largest one of the headers it *)
(* is to read, for bytes of any length with headers at any offsets and of  *)
(* any size. LargestFound says of the headers passed that none holds more  *)
(* than best; to be inductive it needs that the search is where the chain  *)
(* of headers goes on, without which it may step over the beginning of the *)
(* next one, and that best lies behind it.                                 *)
(***************************************************************************)
EXTENDS UImage, TLAPS

Chains == {M \in SUBSET {p \in Offsets : Plausible(p)} : IsChain(M)}

\* The search is where a header of the chain may be.
OnChain == \A M \in Chains : Reached(M, pos)

SearchInv ==
  /\ image \in Images
  /\ SearchTypeOK
  /\ PayloadInImage
  /\ best # None => best.at < pos
  /\ OnChain
  /\ LargestFound

\* Blobs have sizes, and what is at an offset is a header or nothing.
LEMMA BlobTypes ==
  ASSUME image \in Images, data \in Blob
  PROVE  /\ \A b \in Blob : Size(b) \in Nat
         /\ \A p \in Offsets : p \in Nat /\ At(p) \in Header \cup {None}
<1>1. \A b \in Blob : image[b].size \in Nat /\ image[b].header \in [Offsets -> Header \cup {None}]
  BY UImageAssumption
<1> QED
  BY <1>1, UImageAssumption DEF Size, At

\* A header has a size, and its end lies behind it.
LEMMA PlausibleTypes ==
  ASSUME image \in Images, data \in Blob, NEW p, Plausible(p)
  PROVE  /\ p \in Offsets /\ p \in Nat
         /\ At(p).size \in Nat /\ At(p).size > 0
         /\ At(p).payload \in Blob \cup {None}
         /\ At(p).payload # None => Size(At(p).payload) \in Nat
         /\ Size(data) \in Nat
         /\ End(p) = p + 64 + At(p).size
         /\ End(p) \in Nat /\ End(p) >= p + 64 /\ End(p) <= Size(data)
<1>1. p \in Offsets /\ At(p) # None /\ At(p).size # 0 /\ End(p) <= Size(data)
  BY DEF Plausible, HeaderAt
<1>2. At(p) \in Header /\ p \in Nat
  BY <1>1, BlobTypes
<1>3. At(p).size \in Nat /\ At(p).payload \in Blob \cup {None}
  BY <1>2 DEF Header
<1> QED
  BY <1>1, <1>2, <1>3, BlobTypes DEF End, HeaderLength

\* What is kept of a payload is a blob and where it stands.
LEMMA BestTypes ==
  ASSUME SearchInv, best # None
  PROVE  /\ best.at \in Offsets /\ best.at \in Nat
         /\ best.data \in Blob /\ Size(best.data) \in Nat
<1>1. best \in [at : Offsets, data : Blob]
  BY DEF SearchInv, SearchTypeOK
<1>2. best.at \in Offsets /\ best.data \in Blob
  BY <1>1
<1> QED
  BY <1>2, BlobTypes DEF SearchInv, SearchTypeOK

\* A header of the chain is plausible and reached.
LEMMA ChainFacts ==
  ASSUME SearchInv, NEW M \in Chains
  PROVE  \A p \in Offsets : p \in M <=> Plausible(p) /\ Reached(M, p)
BY DEF Chains, IsChain

LEMMA ChainTypes ==
  ASSUME SearchInv, NEW M \in Chains, NEW p \in M
  PROVE  /\ Plausible(p) /\ Reached(M, p) /\ p \in Offsets /\ p \in Nat
         /\ End(p) \in Nat /\ End(p) >= p + 64
<1>1. p \in Offsets
  BY DEF Chains
<1>2. Plausible(p) /\ Reached(M, p)
  BY <1>1, ChainFacts
<1> QED
  BY <1>1, <1>2, PlausibleTypes DEF SearchInv, SearchTypeOK

\* Where the words begin in which a place is reached.
LEMMA Origin ==
  ASSUME SearchInv, NEW M \in Chains, NEW p \in Nat, Reached(M, p)
  PROVE  \E e \in Nat : /\ e <= p /\ (p - e) % 4 = 0
                        /\ \A q \in M : q < p => End(q) <= e
                        /\ e = 0 \/ \E q \in M : End(q) = e /\ q < e
<1>1. PICK e \in {0} \cup {End(q) : q \in M} :
        /\ e <= p /\ (p - e) % 4 = 0
        /\ \A q \in M : q < p => End(q) <= e
  BY DEF Reached, Step
<1>2. CASE e = 0
  BY <1>1, <1>2
<1>3. CASE e # 0
  <2>1. PICK q \in M : End(q) = e
    BY <1>1, <1>3
  <2>2. e \in Nat /\ q < e
    BY <2>1, ChainTypes
  <2> QED
    BY <1>1, <2>1, <2>2
<1> QED
  BY <1>2, <1>3

\* Nothing of the chain is stepped over where no header is plausible.
LEMMA NothingBetween ==
  ASSUME SearchInv, NEW M \in Chains, ~Plausible(pos), NEW p \in M, p < pos + 4
  PROVE  p < pos
<1> SUFFICES ASSUME p >= pos
             PROVE  FALSE
  BY ChainTypes DEF SearchInv, SearchTypeOK
<1>1. pos \in Nat /\ p \in Nat /\ p > pos
  BY ChainTypes DEF SearchInv, SearchTypeOK
<1>2. PICK e \in Nat : /\ e <= pos /\ (pos - e) % 4 = 0
                       /\ \A q \in M : q < pos => End(q) <= e
                       /\ e = 0 \/ \E q \in M : End(q) = e /\ q < e
  BY <1>1, Origin DEF SearchInv, OnChain
<1>3. PICK d \in Nat : /\ d <= p /\ (p - d) % 4 = 0
                       /\ \A q \in M : q < p => End(q) <= d
                       /\ d = 0 \/ \E q \in M : End(q) = d /\ q < d
  BY <1>1, ChainTypes, Origin
<1>4. e <= d
  <2>1. CASE e = 0
    BY <1>3, <2>1
  <2>2. CASE e # 0
    <3>1. PICK q \in M : End(q) = e /\ q < e
      BY <1>2, <2>2
    <3>2. q \in Nat /\ q < p
      BY <1>1, <1>2, <3>1, ChainTypes
    <3> QED
      BY <1>3, <3>1, <3>2
  <2> QED
    BY <2>1, <2>2
<1>5. d <= e
  <2>1. CASE d = 0
    BY <1>2, <2>1
  <2>2. CASE d # 0
    <3>1. PICK q \in M : End(q) = d /\ q < d
      BY <1>3, <2>2
    <3>2. q \in Nat /\ Plausible(q) /\ End(q) \in Nat /\ End(q) >= q + 64
      BY <3>1, ChainTypes
    <3>3. q # pos
      BY <3>2
    <3>4. q < pos
      BY <1>1, <1>3, <3>1, <3>2, <3>3
    <3> QED
      BY <1>2, <3>1, <3>4
  <2> QED
    BY <2>1, <2>2
<1>6. (p - e) % 4 = 0 /\ (pos - e) % 4 = 0 /\ e <= pos
  BY <1>2, <1>3, <1>4, <1>5
<1> QED
  BY <1>1, <1>6

\* The header at the search is of the chain, and the next one lies behind it.
LEMMA NothingInside ==
  ASSUME SearchInv, NEW M \in Chains, Plausible(pos)
  PROVE  /\ pos \in M
         /\ \A p \in M : p < End(pos) => p <= pos
<1>1. pos \in M
  BY ChainFacts, PlausibleTypes DEF SearchInv, SearchTypeOK, OnChain
<1>2. ASSUME NEW p \in M, p < End(pos), p > pos
      PROVE  FALSE
  <2>1. p \in Nat /\ pos \in Nat /\ End(pos) \in Nat
    BY <1>1, ChainTypes
  <2>2. PICK d \in Nat : d <= p /\ \A q \in M : q < p => End(q) <= d
    BY <2>1, ChainTypes, Origin
  <2> QED
    BY <1>1, <1>2, <2>1, <2>2
<1> QED
  BY <1>1, <1>2, ChainTypes

\* Behind the payload the chain goes on.
LEMMA EndReached ==
  ASSUME SearchInv, NEW M \in Chains, Plausible(pos)
  PROVE  Reached(M, End(pos))
<1>1. pos \in M /\ pos \in Nat /\ End(pos) \in Nat /\ End(pos) >= pos + 64
  BY NothingInside, ChainTypes
<1>2. ASSUME NEW q \in M, q < End(pos)
      PROVE  End(q) <= End(pos)
  <2>1. q \in Nat /\ End(q) \in Nat /\ q <= pos
    BY <1>2, NothingInside, ChainTypes
  <2>2. CASE q = pos
    BY <1>1, <2>2
  <2>3. CASE q < pos
    <3>1. PICK e \in Nat : e <= pos /\ \A r \in M : r < pos => End(r) <= e
      BY <1>1, Origin DEF SearchInv, OnChain
    <3> QED
      BY <1>1, <2>1, <2>3, <3>1
  <2> QED
    BY <1>1, <2>1, <2>2, <2>3
<1>3. (End(pos) - End(pos)) % 4 = 0 /\ End(pos) <= End(pos)
  BY <1>1
<1>4. End(pos) \in {0} \cup {End(q) : q \in M}
  BY <1>1
<1> QED
  BY <1>2, <1>3, <1>4 DEF Reached, Step

\* The blobs stay, and with them everything that is said of them alone.
LEMMA SameBlobs ==
  ASSUME UNCHANGED <<image, data>>
  PROVE  /\ \A b : Size(b)' = Size(b)
         /\ \A p : At(p)' = At(p) /\ End(p)' = End(p) /\ (Plausible(p)' <=> Plausible(p))
         /\ \A M, p : Reached(M, p)' <=> Reached(M, p)
         /\ Chains' = Chains
<1>1. (\A b : Size(b)' = Size(b)) /\ \A p : At(p)' = At(p)
  BY DEF Size, At
<1>2. \A p : End(p)' = End(p)
  BY <1>1 DEF End
<1>3. \A p : Plausible(p)' <=> Plausible(p)
  BY <1>1, <1>2 DEF Plausible, HeaderAt
<1>4. \A M, p : Reached(M, p)' <=> Reached(M, p)
  BY <1>2 DEF Reached
<1>5. Chains' = Chains
  BY <1>3, <1>4 DEF Chains, IsChain
<1> QED
  BY <1>1, <1>2, <1>3, <1>4, <1>5

-----------------------------------------------------------------------------
\* A search that has not begun: nothing kept, and no header passed.
LEMMA FreshSearch ==
  image \in Images /\ data \in Blob /\ pos = 0 /\ best = None => SearchInv
<1> SUFFICES ASSUME image \in Images, data \in Blob, pos = 0, best = None
             PROVE  SearchInv
  OBVIOUS
<1>1. SearchTypeOK /\ PayloadInImage
  BY DEF SearchTypeOK, PayloadInImage
<1>2. ASSUME NEW M \in Chains, NEW p \in M
      PROVE  p \in Nat
  BY <1>2, UImageAssumption DEF Chains
<1>3. OnChain
  BY <1>2 DEF OnChain, Reached, Step
<1>4. LargestFound
  BY <1>2 DEF LargestFound, Chains
<1> QED
  BY <1>1, <1>3, <1>4 DEF SearchInv

LEMMA PassByKeeps == SearchInv /\ PassBy => SearchInv'
<1> SUFFICES ASSUME SearchInv, PassBy
             PROVE  SearchInv'
  OBVIOUS
<1>1. /\ pos \in Nat /\ pos' = pos + 4 /\ ~Plausible(pos)
      /\ UNCHANGED <<image, data, best>>
  BY DEF SearchInv, SearchTypeOK, PassBy, Step
<1>2. SearchTypeOK' /\ image' \in Images
  BY <1>1 DEF SearchInv, SearchTypeOK
<1>3. PayloadInImage'
  BY <1>1, SameBlobs DEF SearchInv, PayloadInImage
<1>4. (best # None => best.at < pos)'
  BY <1>1, BestTypes DEF SearchInv
<1>5. OnChain'
  <2> SUFFICES ASSUME NEW M \in Chains
               PROVE  Reached(M, pos + 4)
    BY <1>1, SameBlobs DEF OnChain
  <2>1. PICK e \in {0} \cup {End(q) : q \in M} :
          /\ e <= pos /\ (pos - e) % 4 = 0
          /\ \A q \in M : q < pos => End(q) <= e
    BY DEF SearchInv, OnChain, Reached, Step
  <2>2. e \in Nat
    BY ChainTypes
  <2>3. e <= pos + 4
    BY <1>1, <2>1, <2>2
  <2>4. ((pos + 4) - e) % Step = 0
    BY <1>1, <2>1, <2>2 DEF Step
  <2>5. \A q \in M : q < pos + 4 => End(q) <= e
    BY <1>1, <2>1, NothingBetween
  <2> QED
    BY <2>2, <2>3, <2>5, <2>4 DEF Reached
<1>6. LargestFound'
  <2> SUFFICES ASSUME NEW M \in Chains, NEW p \in M, p < pos + 4, At(p).payload # None
               PROVE  /\ best # None
                      /\ Size(best.data) >= Size(At(p).payload)
                      /\ Size(best.data) = Size(At(p).payload) => best.at <= p
    BY <1>1, SameBlobs DEF LargestFound, Chains, IsChain
  <2>1. p < pos
    BY <1>1, NothingBetween
  <2> QED
    BY <2>1 DEF SearchInv, LargestFound, Chains
<1> QED
  BY <1>2, <1>3, <1>4, <1>5, <1>6 DEF SearchInv

LEMMA SkipKeeps == SearchInv /\ SkipUndecodable => SearchInv'
<1> SUFFICES ASSUME SearchInv, SkipUndecodable
             PROVE  SearchInv'
  OBVIOUS
<1>1. /\ Plausible(pos) /\ At(pos).payload = None /\ pos' = End(pos)
      /\ UNCHANGED <<image, data, best>>
  BY DEF SkipUndecodable
<1>2. pos \in Nat /\ End(pos) \in Nat /\ End(pos) > pos
  BY <1>1, PlausibleTypes DEF SearchInv, SearchTypeOK
<1>3. SearchTypeOK' /\ image' \in Images
  BY <1>1, <1>2 DEF SearchInv, SearchTypeOK
<1>4. PayloadInImage'
  BY <1>1, SameBlobs DEF SearchInv, PayloadInImage
<1>5. (best # None => best.at < pos)'
  BY <1>1, <1>2, BestTypes DEF SearchInv
<1>6. OnChain'
  BY <1>1, EndReached, SameBlobs DEF OnChain
<1>7. LargestFound'
  <2> SUFFICES ASSUME NEW M \in Chains, NEW p \in M, p < End(pos), At(p).payload # None
               PROVE  /\ best # None
                      /\ Size(best.data) >= Size(At(p).payload)
                      /\ Size(best.data) = Size(At(p).payload) => best.at <= p
    BY <1>1, SameBlobs DEF LargestFound, Chains, IsChain
  <2>1. p \in Nat /\ p <= pos /\ p # pos
    BY <1>1, NothingInside, ChainTypes
  <2>2. p < pos
    BY <1>2, <2>1
  <2> QED
    BY <2>2 DEF SearchInv, LargestFound, Chains
<1> QED
  BY <1>3, <1>4, <1>5, <1>6, <1>7 DEF SearchInv

LEMMA TakeKeeps == SearchInv /\ TakePayload => SearchInv'
<1> SUFFICES ASSUME SearchInv, TakePayload
             PROVE  SearchInv'
  OBVIOUS
<1> DEFINE b == At(pos).payload
           new == [at |-> pos, data |-> b]
<1>1. Plausible(pos) /\ b # None /\ pos' = End(pos) /\ UNCHANGED <<image, data>>
  BY DEF TakePayload
<1>2. /\ pos \in Offsets /\ pos \in Nat /\ b \in Blob /\ Size(b) \in Nat
      /\ End(pos) \in Nat /\ End(pos) > pos /\ End(pos) <= Size(data)
      /\ End(pos) = pos + 64 + At(pos).size /\ At(pos).size > 0
  BY <1>1, PlausibleTypes DEF SearchInv, SearchTypeOK
<1>3. best' = IF best = None \/ Size(b) > Size(best.data) THEN new ELSE best
  BY DEF TakePayload, Better
<1>4. new \in [at : Offsets, data : Blob] /\ new.at = pos /\ new.data = b /\ new # None
  BY <1>2, UImageAssumption
<1>5. SearchTypeOK' /\ image' \in Images
  BY <1>1, <1>2, <1>3, <1>4 DEF SearchInv, SearchTypeOK
<1>6. PayloadInImage'
  <2>1. CASE best' = new
    BY <1>1, <1>2, <1>4, <2>1, SameBlobs DEF PayloadInImage, HeaderLength
  <2>2. CASE best' = best
    BY <1>1, <2>2, SameBlobs DEF SearchInv, PayloadInImage
  <2> QED
    BY <1>3, <2>1, <2>2
<1>7. (best # None => best.at < pos)'
  <2>1. best # None => best.at \in Nat /\ best.at < pos
    BY BestTypes DEF SearchInv
  <2> QED
    BY <1>1, <1>2, <1>3, <1>4, <2>1
<1>8. OnChain'
  BY <1>1, EndReached, SameBlobs DEF OnChain
<1>9. LargestFound'
  <2> SUFFICES ASSUME NEW M \in Chains, NEW p \in M, p < End(pos), At(p).payload # None
               PROVE  /\ best' # None
                      /\ Size(best'.data) >= Size(At(p).payload)
                      /\ Size(best'.data) = Size(At(p).payload) => best'.at <= p
    BY <1>1, SameBlobs DEF LargestFound, Chains, IsChain
  <2>1. p \in Nat /\ p <= pos /\ Size(At(p).payload) \in Nat
    BY <1>1, NothingInside, ChainTypes, PlausibleTypes DEF SearchInv, SearchTypeOK
  <2>2. best' # None
    BY <1>3, <1>4
  <2>3. best # None => /\ best.at \in Nat /\ Size(best.data) \in Nat /\ best.at < pos
    BY BestTypes DEF SearchInv
  <2>4. CASE p = pos
    <3> HIDE DEF new
    <3> QED
      BY <1>2, <1>3, <1>4, <2>2, <2>3, <2>4
  <2>5. CASE p < pos
    <3>1. /\ best # None
          /\ Size(best.data) >= Size(At(p).payload)
          /\ Size(best.data) = Size(At(p).payload) => best.at <= p
      BY <2>5 DEF SearchInv, LargestFound, Chains
    <3> HIDE DEF new, b
    <3> QED
      BY <1>2, <1>3, <1>4, <2>1, <2>2, <2>3, <3>1
  <2> QED
    BY <1>2, <2>1, <2>4, <2>5
<1> QED
  BY <1>5, <1>6, <1>7, <1>8, <1>9 DEF SearchInv

\* Every turn of the loop of uimage_payload keeps the invariant.
LEMMA SearchKeeps == SearchInv /\ [SearchNext]_searchVars => SearchInv'
<1> SUFFICES ASSUME SearchInv, [SearchNext]_searchVars
             PROVE  SearchInv'
  OBVIOUS
<1>1. CASE UNCHANGED searchVars
  <2>1. UNCHANGED <<image, data, pos, best>>
    BY <1>1 DEF searchVars
  <2>2. SearchTypeOK' /\ PayloadInImage' /\ (best # None => best.at < pos)' /\ image' \in Images
    BY <2>1, SameBlobs DEF SearchInv, SearchTypeOK, PayloadInImage
  <2>3. OnChain'
    BY <2>1, SameBlobs DEF SearchInv, OnChain
  <2>4. LargestFound'
    BY <2>1, SameBlobs DEF SearchInv, LargestFound, IsChain
  <2> QED
    BY <2>2, <2>3, <2>4 DEF SearchInv
<1> QED
  BY <1>1, PassByKeeps, SkipKeeps, TakeKeeps DEF SearchNext
=============================================================================
