-------------------------------- MODULE Peel --------------------------------
(***************************************************************************)
(* peel and peel_headers (crates/unpack/src/container.rs): the wrappers in *)
(* front of a filesystem image are taken off, layer by layer, and then the *)
(* search of module UImage looks for a payload in the innermost layer.     *)
(* A layer is a blob: the image says what its first bytes are and what the *)
(* readers yield of it. What is inside a stream or a zip may be anything,  *)
(* the stream itself too; what is inside an uncompressed wrapper are its   *)
(* own bytes, and fewer.                                                   *)
(***************************************************************************)
EXTENDS UImage, Sequences

CONSTANTS
  Raw,        \* what peel is called with
  StackLimit  \* the recursive calls the stack holds

\* gzip: the stream decodes to inner[1]. zip, tar: the members read. chk: what
\* is left behind the header. trx: the partitions inside the image. none:
\* nothing known, or a gzip that does not decode, or an archive of no member.
ArchiveKind == {"zip", "tar"}
Kind == {"gzip", "chk", "trx", "none"} \cup ArchiveKind

\* signature: find_filesystems finds one in the bytes.
Shape == [size : Nat, header : [Offsets -> Header \cup {None}],
          kind : Kind, inner : Seq(Blob), signature : BOOLEAN]

\* A partition or a member of a tar is part of the bytes, and a CHK header is
\* taken off with the length it claims, which may be zero.
Shrinks(m, b) ==
  \A i \in DOMAIN m[b].inner :
    /\ m[b].kind \in {"chk", "trx", "tar"} =>
         \/ m[m[b].inner[i]].size < m[b].size
         \/ m[b].kind = "chk" /\ m[b].inner[i] = b

\* The bytes of an uncompressed wrapper are those of what is inside and a few
\* of its own, which hold no signature.
ShowsThrough(m, b) ==
  m[b].kind \in {"chk", "trx", "tar"} =>
    m[b].signature = \E i \in DOMAIN m[b].inner : m[m[b].inner[i]].signature

ASSUME PeelAssumption ==
  /\ Raw \in Blob /\ StackLimit \in Nat
  /\ \A m \in Images :
       /\ m \in [Blob -> Shape]
       /\ \A b \in Blob :
            /\ m[b].kind # "none" => m[b].inner # <<>> /\ m[b].size > 0
            /\ m[b].kind \in {"gzip", "chk"} => Len(m[b].inner) = 1
            /\ Shrinks(m, b) /\ ShowsThrough(m, b)

VARIABLES
  at,        \* what peel_headers was called with
  peeled,    \* the calls of peel on the stack, each by its bytes
  stripped,  \* the calls of peel_headers on the stack
  out,       \* what is returned
  pc         \* "peel", "raw", "search", "payload", "done", "crashed"

vars == <<image, data, pos, best, at, peeled, stripped, out, pc>>

TypeOK ==
  /\ SearchTypeOK
  /\ at \in Blob
  /\ peeled \in Seq(Blob)
  /\ stripped \in Nat
  /\ Len(peeled) + stripped <= StackLimit
  /\ out \in Seq(Blob)
  /\ pc \in {"peel", "raw", "search", "payload", "done", "crashed"}

Init ==
  /\ SearchInit /\ data = Raw
  /\ at = Raw
  /\ peeled = <<>> /\ stripped = 0
  /\ out = <<>>
  /\ pc = "peel"

-----------------------------------------------------------------------------
Has(b, kinds) == image[b].kind \in kinds
Inner(b) == image[b].inner

\* max_by_key: of several largest members the last.
Largest(s) ==
  s[CHOOSE i \in DOMAIN s :
      \A j \in DOMAIN s : Size(s[j]) < Size(s[i]) \/ (Size(s[j]) = Size(s[i]) /\ j <= i)]

StackIsFull == Len(peeled) + stripped = StackLimit

\* peel calls itself with what is inside.
Enter(b) ==
  /\ ~StackIsFull
  /\ data' = b /\ at' = b
  /\ peeled' = Append(peeled, data)
  /\ UNCHANGED <<image, pos, best, stripped, out, pc>>

Gunzip ==
  /\ pc = "peel" /\ Has(data, {"gzip"})
  /\ Enter(Inner(data)[1])

\* Mutant: the first member is taken for the image.
Bug_Unarchive ==
  /\ pc = "peel" /\ Has(data, ArchiveKind)
  /\ Enter(Inner(data)[1])

Unarchive ==
  /\ pc = "peel" /\ Has(data, ArchiveKind)
  /\ Enter(Largest(Inner(data)))

\* No archive: the headers in front of the raw image.
BeginRaw ==
  /\ pc = "peel" /\ ~Has(data, ArchiveKind \cup {"gzip"})
  /\ pc' = "raw"
  /\ UNCHANGED <<image, data, pos, best, at, peeled, stripped, out>>

InHeaders == pc \in {"raw", "payload"}

\* Mutant: the length is not taken off.
Bug_StripChk ==
  /\ InHeaders /\ Has(at, {"chk"}) /\ ~StackIsFull
  /\ stripped' = stripped + 1
  /\ UNCHANGED <<image, data, pos, best, at, peeled, out, pc>>

\* peel_headers calls itself with what is behind a CHK header.
StripChk ==
  /\ InHeaders /\ Has(at, {"chk"}) /\ ~StackIsFull
  /\ at' = Inner(at)[1]
  /\ stripped' = stripped + 1
  /\ UNCHANGED <<image, data, pos, best, peeled, out, pc>>

\* The call that finds the stack full.
Overflow ==
  /\ StackIsFull
  /\ \/ pc = "peel" /\ Has(data, ArchiveKind \cup {"gzip"})
     \/ InHeaders /\ Has(at, {"chk"})
  /\ pc' = "crashed"
  /\ UNCHANGED <<image, data, pos, best, at, peeled, stripped, out>>

\* Where peel_headers ends: the partitions of a TRX, or the bytes as they are.
Unwrapped(b) == IF Has(b, {"trx"}) THEN Inner(b) ELSE <<b>>

\* Mutant: a uImage payload takes the place of the raw image.
Bug_FinishHeaders ==
  /\ InHeaders /\ ~Has(at, {"chk"})
  /\ out' = Unwrapped(at)
  /\ stripped' = 0
  /\ pc' = IF pc = "raw" THEN "search" ELSE "done"
  /\ UNCHANGED <<image, data, pos, best, at, peeled>>

\* The raw image comes first, then a uImage payload found in it. The calls of
\* peel_headers have returned, those of peel have not.
FinishHeaders ==
  /\ InHeaders /\ ~Has(at, {"chk"})
  /\ out' = out \o Unwrapped(at)
  /\ stripped' = 0
  /\ pc' = IF pc = "raw" THEN "search" ELSE "done"
  /\ UNCHANGED <<image, data, pos, best, at, peeled>>

Search ==
  /\ pc = "search" /\ SearchNext
  /\ UNCHANGED <<at, peeled, stripped, out, pc>>

EndSearch ==
  /\ pc = "search" /\ ~Searching
  /\ IF best = None THEN pc' = "done" /\ at' = at
                    ELSE pc' = "payload" /\ at' = best.data
  /\ UNCHANGED <<image, data, pos, best, peeled, stripped, out>>

Next ==
  \/ Gunzip
  \/ Unarchive
  \/ BeginRaw
  \/ StripChk
  \/ Overflow
  \/ FinishHeaders
  \/ Search
  \/ EndSearch

Spec == Init /\ [][Next]_vars

\* One thread, which runs until peel returns.
FairSpec == Spec /\ WF_vars(Next)

-----------------------------------------------------------------------------
\* "substituting the payload loses the filesystem entirely": a filesystem whose
\* signature shows in the innermost layer also shows in something returned,
\* through CHK headers and TRX partitions, whether or not a uImage is there.
LayerFilesystemKept ==
  pc = "done" /\ image[data].signature => \E i \in DOMAIN out : image[out[i]].signature

IsLargestMember(c, b) ==
  /\ \E i \in DOMAIN Inner(b) : Inner(b)[i] = c
  /\ \A i \in DOMAIN Inner(b) : Size(Inner(b)[i]) <= Size(c)

\* Of every archive opened the layer that follows is a largest member.
LargestFollows ==
  \A k \in DOMAIN peeled :
    Has(peeled[k], ArchiveKind) => IsLargestMember(Append(peeled, data)[k + 1], peeled[k])

\* Peeling goes where the bytes are, and what it finds there is kept.
LargestLayerKept == TypeOK /\ LargestFollows /\ LayerFilesystemKept

\* What fills the stack: a CHK header of length zero, which alone does it with
\* any stack; or a stream or a zip, which may hold wrappers without end; or else
\* an image, or the payload of a uImage, of more bytes than the stack has room
\* for calls, for every other wrapper takes a byte off.
CrashTakesDepth ==
  pc = "crashed" =>
    \/ Has(at, {"chk"}) /\ Inner(at)[1] = at
    \/ \E k \in DOMAIN peeled : Has(peeled[k], {"gzip", "zip"})
    \/ StackLimit < Size(Raw)
    \/ best # None /\ StackLimit < Len(peeled) + Size(best.data)

\* peel returns or the stack is full, on every nesting of wrappers and whatever
\* the headers of the uImages claim.
Ends == <>(pc \in {"done", "crashed"})

-----------------------------------------------------------------------------
\* container.rs:13, "Peeling stops at the first layer that yields a filesystem
\* signature": when a tar that yields one is opened all the same, at least what
\* is returned yields one too. It does not hold: the largest member need not be
\* the filesystem (PeelSignature.cfg).
StopsAtSignature ==
  pc = "done" =>
    \A k \in DOMAIN peeled :
      Has(peeled[k], {"tar"}) /\ image[peeled[k]].signature =>
        \E i \in DOMAIN out : image[out[i]].signature

\* crates/unpack/tests/robustness.rs:1, "a malformed image must yield a wrong answer or no
\* answer, never a panic".
NeverCrashes == pc # "crashed"
=============================================================================
