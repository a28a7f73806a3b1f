------------------------------ MODULE Extract -------------------------------
(***************************************************************************)
(* extract of the command line (crates/cli/src/main.rs): the candidates    *)
(* that peeling the image yields are searched for the magic numbers of     *)
(* filesystems, the hits are tried in order of their offset, and the first *)
(* filesystem that can be read fills the store, file by file, and ends the *)
(* search. What could not be read is meant to leave a coverage gap.        *)
(*                                                                         *)
(* A candidate is the sequence of the magic numbers in it. Each carries    *)
(* what its reader would make of it: whether the header of a cpio behind   *)
(* it is plausible, whether its superblock parses, the files it yields.    *)
(***************************************************************************)
EXTENDS Store, Naturals, Sequences, FiniteSets

CONSTANTS
  CpioMin,  \* a cpio is believed with more members than this: 4
  HitCap,   \* the search for a magic number stops beyond this many hits: 64
  Images    \* the images considered

\* The magic numbers in the order they are searched for.
Sigs == <<"squashfs", "cramfs", "ubi", "jffs2", "cpio">>

FsKind == {Sigs[i] : i \in DOMAIN Sigs}

Entry == [path : Path, bytes : Bytes]

Magic == [kind : FsKind, plausible : BOOLEAN, parses : BOOLEAN, entries : Seq(Entry)]

\* The note of a candidate says "uImage" or not.
Candidate == [uImage : BOOLEAN, magics : Seq(Magic)]

\* How the bytes of the whole image look when nothing in it can be read.
Wrapping == {"marked", "random", "plain"}

ASSUME ImagesAssumption ==
  /\ CpioMin \in Nat /\ HitCap \in Nat
  /\ \A m \in Images : m.wrapping \in Wrapping /\ m.peeled \in Seq(Candidate)

VARIABLES
  image,
  candidate,   \* the index of the loop over the candidates
  signatures,  \* find_filesystems of it, as indices of its magic numbers
  signature,   \* the index of the loop over them
  entry,       \* the index of the loop over the entries of the filesystem
  gaps,        \* the CoverageGaps, in order: [reason, candidate, magic]
  pc           \* "peeled", "signature" and "entry", the loops; "ending"; "done"

vars == <<image, candidate, signatures, signature, entry, gaps, pc, storeVars>>

Reason == {"kernel only", "not supported", "no files",
           "encrypted", "high entropy", "not recognised"}

Gap == [reason : Reason, candidate : Nat, magic : Nat]

TypeOK ==
  /\ candidate \in 1 .. Len(image.peeled) + 1
  /\ signatures \in Seq(Nat) /\ signature \in Nat /\ entry \in Nat
  /\ gaps \in Seq(Gap)
  /\ pc \in {"peeled", "signature", "entry", "ending", "done"}
  /\ StoreTypeOK

Init ==
  /\ image \in Images
  /\ candidate = 1 /\ signatures = <<>> /\ signature = 1 /\ entry = 1
  /\ gaps = <<>>
  /\ pc = "peeled"
  /\ StoreInit

-----------------------------------------------------------------------------
OfKind(magics, k) == {i \in DOMAIN magics : magics[i].kind = Sigs[k]}

\* plausible_cpio stands behind the cpio's magic only.
Believable(m) == m.kind = "cpio" => m.plausible

\* The hits of the k-th kind, when those of the kinds before it were found. Its
\* first occurrence is always looked at, the next ones until there are too many
\* hits of all kinds so far.
HitsOfKind(magics, k, found) ==
  LET before(i) == {j \in OfKind(magics, k) : j < i}
      counted(i) == found \cup {j \in before(i) : Believable(magics[j])}
  IN  {i \in OfKind(magics, k) :
         /\ Believable(magics[i])
         /\ before(i) = {} \/ Cardinality(counted(i)) <= HitCap}

HitsAmong(magics) ==
  LET hits[k \in 0 .. Len(Sigs)] ==
        IF k = 0 THEN {} ELSE hits[k - 1] \cup HitsOfKind(magics, k, hits[k - 1])
  IN  hits[Len(Sigs)]

\* Mutant: the hits are left in the order they were found.
Bug_Unsorted(magics) ==
  LET rank(i) == CHOOSE k \in DOMAIN Sigs : Sigs[k] = magics[i].kind
      hits == HitsAmong(magics)
  IN  [n \in 1 .. Cardinality(hits) |->
         CHOOSE i \in hits :
           Cardinality({j \in hits : rank(j) < rank(i) \/ (rank(j) = rank(i) /\ j <= i)}) = n]

\* The elements of a set of numbers, in order.
Sorted(s, S) ==
  /\ \A m, n \in DOMAIN s : m < n => s[m] < s[n]
  /\ \A i \in S : \E n \in DOMAIN s : s[n] = i

\* find_filesystems: the hits, sorted by offset.
FindFilesystems(magics) ==
  LET hits == HitsAmong(magics)
  IN  CHOOSE s \in [1 .. Cardinality(hits) -> hits] : Sorted(s, hits)

Magics == image.peeled[candidate].magics
Current == Magics[signatures[signature]]

GapHere(reason, magic) ==
  Append(gaps, [reason |-> reason, candidate |-> candidate, magic |-> magic])

-----------------------------------------------------------------------------
\* The next candidate is searched. A decompressed kernel without a filesystem
\* in it is a gap.
OpenCandidate ==
  /\ pc = "peeled"
  /\ candidate <= Len(image.peeled)
  /\ signatures' = FindFilesystems(Magics)
  /\ signature' = 1
  /\ gaps' = IF signatures' = <<>> /\ image.peeled[candidate].uImage
             THEN GapHere("kernel only", 0) ELSE gaps
  /\ pc' = "signature"
  /\ UNCHANGED <<image, candidate, entry, storeVars>>

NoMoreSignatures ==
  /\ pc = "signature" /\ signature > Len(signatures)
  /\ candidate' = candidate + 1
  /\ pc' = "peeled"
  /\ UNCHANGED <<image, signatures, signature, entry, gaps, storeVars>>

NoMoreCandidates ==
  /\ pc = "peeled" /\ candidate > Len(image.peeled)
  /\ pc' = "ending"
  /\ UNCHANGED <<image, candidate, signatures, signature, entry, gaps, storeVars>>

AtSignature(kinds) ==
  pc = "signature" /\ signature <= Len(signatures) /\ Current.kind \in kinds

\* The signature is passed over, with a gap or without a word.
Pass(gapped) ==
  /\ signature' = signature + 1
  /\ gaps' = gapped
  /\ UNCHANGED <<image, candidate, signatures, entry, pc, storeVars>>

\* The filesystem is read and its entries are inserted.
Take ==
  /\ pc' = "entry" /\ entry' = 1
  /\ UNCHANGED <<image, candidate, signatures, signature, gaps, storeVars>>

CpioBelieved == Len(Current.entries) > CpioMin

Cpio ==
  /\ AtSignature({"cpio"})
  /\ IF CpioBelieved THEN Take ELSE Pass(gaps)

\* Mutant: the kind is passed over without a word.
Bug_NotSupported == AtSignature(FsKind \ {"cpio", "squashfs"}) /\ Pass(gaps)

NotSupported ==
  /\ AtSignature(FsKind \ {"cpio", "squashfs"})
  /\ Pass(GapHere("not supported", signatures[signature]))

\* SquashFs::parse fails when there is no room for a superblock behind the
\* magic. (A compressor without a decoder parses, and yields no file.)
SquashFs ==
  /\ AtSignature({"squashfs"})
  /\ IF ~Current.parses THEN Pass(gaps)
     ELSE IF Current.entries = <<>> THEN Pass(GapHere("no files", signatures[signature]))
     ELSE Take

InsertEntry ==
  /\ pc = "entry" /\ entry <= Len(Current.entries)
  /\ LET e == Current.entries[entry] IN Insert(e.path, e.bytes)
  /\ entry' = entry + 1
  /\ UNCHANGED <<image, candidate, signatures, signature, gaps, pc>>

\* Both loops are left.
Inserted ==
  /\ pc = "entry" /\ entry > Len(Current.entries)
  /\ pc' = "ending"
  /\ UNCHANGED <<image, candidate, signatures, signature, entry, gaps, storeVars>>

\* Why nothing was read: a vendor's encryption mark, high entropy, and
\* otherwise only when no gap says why.
Verdict ==
  IF image.wrapping = "marked" THEN {"encrypted"}
  ELSE IF image.wrapping = "random" THEN {"high entropy"}
  ELSE IF gaps = <<>> THEN {"not recognised"} ELSE {}

Finish ==
  /\ pc = "ending"
  /\ IF IsEmpty /\ Verdict # {}
     THEN \E r \in Verdict :
            gaps' = Append(gaps, [reason |-> r, candidate |-> 0, magic |-> 0])
     ELSE gaps' = gaps
  /\ pc' = "done"
  /\ UNCHANGED <<image, candidate, signatures, signature, entry, storeVars>>

Next ==
  \/ OpenCandidate \/ NoMoreSignatures \/ NoMoreCandidates
  \/ Cpio \/ NotSupported \/ SquashFs
  \/ InsertEntry \/ Inserted
  \/ Finish

Spec == Init /\ [][Next]_vars

-----------------------------------------------------------------------------
\* The magic numbers of the image, by place: candidate and magic.
Places == UNION {{c} \X DOMAIN image.peeled[c].magics : c \in DOMAIN image.peeled}

At(l) == image.peeled[l[1]].magics[l[2]]

Precedes(l, m) == l[1] < m[1] \/ (l[1] = m[1] /\ l[2] < m[2])

Readable(m) ==
  \/ m.kind = "cpio" /\ m.plausible /\ Len(m.entries) > CpioMin
  \/ m.kind = "squashfs" /\ m.parses /\ m.entries # <<>>

\* Overlooked for the sake of the limit: there are more hits than that, and
\* there is one of the same kind before it.
Crowded(l) ==
  LET magics == image.peeled[l[1]].magics
  IN  /\ Cardinality({i \in DOMAIN magics : Believable(magics[i])}) > HitCap
      /\ \E i \in DOMAIN magics : i < l[2] /\ magics[i].kind = At(l).kind

\* The last entry of the path.
Final(entries, p) ==
  LET at == {i \in DOMAIN entries : entries[i].path = p}
  IN  IF at = {} THEN Missing
      ELSE entries[CHOOSE i \in at : \A j \in at : j <= i].bytes

\* The store holds exactly the files of one filesystem, the first in the image
\* that can be read, and is empty only when there is none: two filesystems are
\* never mixed, and the search by kind, its limit and its sort pass over none
\* that can be read, unless it is crowded out by more hits than the limit.
FirstReadable ==
  pc = "done" =>
    LET readable == {l \in Places : Readable(At(l))}
        first(l) == \A m \in readable : Precedes(m, l) => Crowded(m)
    IN  \/ IsEmpty /\ \A l \in readable : Crowded(l)
        \/ \E l \in readable :
             first(l) /\ \A p \in Path : Get(p) = Final(At(l).entries, p)

\* "An image that cannot be opened still produces a document saying so"
\* (README): an empty store never comes without a gap.
EmptyIsDeclared == pc = "done" /\ IsEmpty => gaps # <<>>

Declared(l) == \E i \in DOMAIN gaps : gaps[i].candidate = l[1] /\ gaps[i].magic = l[2]

\* Where the search ended: behind everything, or at the filesystem it read.
Passed(l) == IsEmpty \/ Precedes(l, <<candidate, signatures[signature]>>)

\* Every filesystem the search passes and has no reader for, and every squashfs
\* without a file, is declared, whatever is read after it.
UnsupportedIsDeclared ==
  pc = "done" =>
    \A l \in {m \in Places : Passed(m) /\ ~Crowded(m)} :
      At(l).kind # "cpio" /\ (At(l).kind = "squashfs" => At(l).parses) => Declared(l)

\* A gap is about something the search passed over: what was read is not a
\* gap, and "no recognised filesystem" is never said next to another gap.
GapsAreTrue ==
  pc = "done" =>
    \A i \in DOMAIN gaps :
      /\ gaps[i].magic # 0 => ~Readable(At(<<gaps[i].candidate, gaps[i].magic>>))
      /\ gaps[i].reason = "kernel only" =>
           \A m \in DOMAIN image.peeled[gaps[i].candidate].magics :
             ~Believable(image.peeled[gaps[i].candidate].magics[m])
      /\ gaps[i].reason = "not recognised" => Len(gaps) = 1 /\ IsEmpty

\* The gaps are the whole truth about what was met and not read.
GapsAreExact == TypeOK /\ EmptyIsDeclared /\ UnsupportedIsDeclared /\ GapsAreTrue

\* README.md:143, "regions that could not be parsed are stated explicitly in
\* both the SBOM and the report": a squashfs the search met and could not
\* parse is declared.
UnparsedIsDeclared ==
  pc = "done" =>
    \A l \in Places : Passed(l) /\ At(l).kind = "squashfs" /\ ~At(l).parses => Declared(l)
=============================================================================
