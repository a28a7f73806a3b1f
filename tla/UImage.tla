------------------------------- MODULE UImage -------------------------------
(***************************************************************************)
(* uimage_payload (crates/unpack/src/container.rs): the search for the     *)
(* u-boot header whose payload is the largest. Bytes are a blob, of which  *)
(* the image says the size and where the magic number of a header stands,  *)
(* with the size field of the header and the blob its payload decodes to.  *)
(* peel calls the search: the actions are taken in module Peel.            *)
(***************************************************************************)
EXTENDS Integers

CONSTANTS
  Blob,
  Offsets,  \* where a magic number may stand
  Images,   \* what the blobs may be
  None

\* payload is None when it is of no known compression or does not decode.
Header == [size : Nat, payload : Blob \cup {None}]

ASSUME UImageAssumption ==
  /\ Offsets \subseteq Nat
  /\ None \notin Blob \cup Header \cup [at : Offsets, data : Blob]
  /\ \A m \in Images : \A b \in Blob :
       m[b].size \in Nat /\ m[b].header \in [Offsets -> Header \cup {None}]

HeaderLength == 64
Step == 4

VARIABLES
  image,  \* what every blob is; never changes
  data,   \* the bytes searched
  pos,    \* where the search is
  best    \* the largest payload so far: [at, data], or None

searchVars == <<image, data, pos, best>>

SearchTypeOK ==
  /\ data \in Blob
  /\ pos \in Nat
  /\ best \in [at : Offsets, data : Blob] \cup {None}

SearchInit ==
  /\ image \in Images
  /\ data \in Blob
  /\ pos = 0
  /\ best = None

Size(b) == image[b].size

\* The loop runs while a whole header fits.
Searching == pos + HeaderLength <= Size(data)

\* The header whose magic number stands at p.
At(p) == image[data].header[p]
HeaderAt(p) == p \in Offsets /\ At(p) # None

End(p) == p + HeaderLength + At(p).size

\* Mutant: the size field is trusted.
Bug_Plausible(p) == HeaderAt(p)

\* A header whose payload lies inside the bytes and is not empty.
Plausible(p) == HeaderAt(p) /\ At(p).size # 0 /\ End(p) <= Size(data)

\* Mutant: the search goes on from the same place.
Bug_PassBy == Searching /\ ~Plausible(pos) /\ UNCHANGED searchVars

PassBy ==
  /\ Searching
  /\ ~Plausible(pos)
  /\ pos' = pos + Step
  /\ UNCHANGED <<image, data, best>>

\* It does not decode: its bytes are skipped too.
SkipUndecodable ==
  /\ Searching
  /\ Plausible(pos)
  /\ At(pos).payload = None
  /\ pos' = End(pos)
  /\ UNCHANGED <<image, data, best>>

\* Mutant: the first payload is kept.
Bug_Better(b) == best = None

Better(b) == best = None \/ Size(b) > Size(best.data)

TakePayload ==
  /\ Searching
  /\ Plausible(pos)
  /\ At(pos).payload # None
  /\ best' = IF Better(At(pos).payload) THEN [at |-> pos, data |-> At(pos).payload] ELSE best
  /\ pos' = End(pos)
  /\ UNCHANGED <<image, data>>

SearchNext == PassBy \/ SkipUndecodable \/ TakePayload

-----------------------------------------------------------------------------
\* The headers the search is to read, given by what they are: plausible, and a
\* whole number of words behind the payload of the one before, or behind the
\* beginning when there is none. M says which it reads in front of p.
Reached(M, p) ==
  \E e \in {0} \cup {End(q) : q \in M} :
    /\ e <= p /\ (p - e) % Step = 0
    /\ \A q \in M : q < p => End(q) <= e

IsChain(M) == M = {p \in Offsets : Plausible(p) /\ Reached(M, p)}

\* The payload kept is the largest, "not the first": no header of the chain that
\* the search has passed holds a larger one, and it is the earliest of that
\* size. A size that is no whole number of words moves the chain off the words
\* of the image, and the search moves with it.
LargestFound ==
  \A M \in SUBSET {p \in Offsets : Plausible(p)} :
    IsChain(M) =>
      \A p \in M :
        p < pos /\ At(p).payload # None =>
          /\ best # None
          /\ Size(best.data) >= Size(At(p).payload)
          /\ Size(best.data) = Size(At(p).payload) => best.at <= p

\* What is kept is what the header at the reported offset holds, and its raw
\* bytes lie inside the image (the slice data[body..body + size]).
PayloadInImage ==
  best # None =>
    /\ At(best.at).payload = best.data
    /\ best.at + HeaderLength + At(best.at).size <= Size(data)
    /\ At(best.at).size > 0

\* container.rs:44, "The interesting payload is usually the largest one in the
\* image, not the first": no header holds a larger one than what is kept, of
\* those on a word of the image and inside no other payload. It does not hold:
\* a payload of no whole number of words moves the search off the words, and it
\* never gets back (UImageUnaligned.cfg).
LargestInImage ==
  ~Searching =>
    \A p \in Offsets :
      /\ Plausible(p) /\ At(p).payload # None /\ p % Step = 0
      /\ \A q \in Offsets : Plausible(q) /\ q < p => End(q) <= p
      => best # None /\ Size(best.data) >= Size(At(p).payload)
=============================================================================
