------------------------------ MODULE Archive -------------------------------
(***************************************************************************)
(* The archive readers unzip, untar and uncpio                             *)
(* (crates/unpack/src/archive.rs): each walks the headers of an archive    *)
(* from the front, and takes the name and the bytes of the members.        *)
(*                                                                         *)
(* The archive is what a writer laid out, entry after entry, cut off at    *)
(* any byte. A reader that follows wrong sizes comes to bytes which are no *)
(* header of the writer's; what it takes them for is any header or none.   *)
(***************************************************************************)
EXTENDS Naturals, Sequences

CONSTANTS
  Entries,     \* the entries a writer may write
  Junk,        \* the headers other bytes may pass for
  MaxEntries,  \* bound on the entries of one archive
  Cuts         \* where, counted from a header, an archive may be cut off

\* size: the bytes of the body, as written. declared: the size the header is
\* read to say, which is zero for a zip entry streamed with a data descriptor
\* and for a tar field padded with blanks. regular: a file, no directory, link
\* or long name. decodes: zip stored or a deflate stream without error.
EntrySet ==
  [name : Nat, size : Nat, declared : Nat, regular : BOOLEAN, decodes : BOOLEAN]

ASSUME ArchiveAssumption ==
  /\ Entries \subseteq EntrySet
  /\ Junk \subseteq EntrySet
  /\ MaxEntries \in Nat
  /\ Cuts \subseteq Nat

Format == {"zip", "tar", "cpio"}

VARIABLES
  format, entries, length,  \* the archive; never change
  pos,   \* the offset of the next header
  out,   \* the members: the offsets of their bytes, from inclusive, to exclusive
  pc     \* "reading", "done"

vars == <<format, entries, length, pos, out, pc>>

HeaderLength(f) == CASE f = "zip" -> 30 [] f = "tar" -> 512 [] f = "cpio" -> 110

\* n rounded up to a multiple of k: div_ceil for tar, align4 for cpio.
Align(n, k) == ((n + k - 1) \div k) * k

\* Where the body of an entry at p begins: behind its name, unless that is a
\* field of the header.
Body(f, p, e) ==
  CASE f = "zip"  -> p + HeaderLength(f) + e.name
    [] f = "tar"  -> p + HeaderLength(f)
    [] f = "cpio" -> Align(p + HeaderLength(f) + e.name, 4)

\* Where the header behind a body of that size is.
After(f, body, size) ==
  CASE f = "zip"  -> body + size
    [] f = "tar"  -> body + Align(size, 512)
    [] f = "cpio" -> Align(body + size, 4)

\* Where the writer begins the entry behind e, which begins at p.
Behind(f, p, e) ==
  LET body == Body(f, p, e)
  IN  CASE f = "zip"  -> body + e.size
        [] f = "tar"  -> body + 512 * ((e.size + 511) \div 512)
        [] f = "cpio" -> 4 * ((body + e.size + 3) \div 4)

\* The layout of the writer: the first byte of entry i, one past the last
\* entry for the trailer.
Start(f, es) ==
  LET start[i \in 1 .. Len(es) + 1] ==
        IF i = 1 THEN 0 ELSE Behind(f, start[i - 1], es[i - 1])
  IN  start

TypeOK ==
  /\ format \in Format
  /\ entries \in Seq(Entries)
  /\ length \in Nat
  /\ pos \in Nat
  /\ out \in Seq([from : Nat, to : Nat])
  /\ pc \in {"reading", "done"}

Init ==
  /\ format \in Format
  /\ entries \in UNION {[1 .. n -> Entries] : n \in 0 .. MaxEntries}
  /\ \E i \in 1 .. Len(entries) + 1, c \in Cuts : length = Start(format, entries)[i] + c
  /\ pos = 0
  /\ out = <<>>
  /\ pc = "reading"

-----------------------------------------------------------------------------
Reading == pc = "reading" /\ pos + HeaderLength(format) <= length

Index == {i \in 1 .. Len(entries) : Start(format, entries)[i] = pos}

\* The zero block of a tar, TRAILER!!!, the directory of a zip.
AtTrailer == pos = Start(format, entries)[Len(entries) + 1]

\* The header the reader sees: the writer's, or whatever other bytes pass for.
Header(e) ==
  IF Index # {} THEN \E i \in Index : e = entries[i] ELSE ~AtTrailer /\ e \in Junk

\* Mutant: the end of the data is not looked at.
Bug_Fits(e) == TRUE

Fits(e) == Body(format, pos, e) + e.declared <= length

\* A zip entry is kept when it decodes; the others when they are plain files.
Kept(e) == IF format = "zip" THEN e.decodes ELSE e.regular

Member(e) ==
  [from |-> Body(format, pos, e), to |-> Body(format, pos, e) + e.declared]

\* Mutant: an entry without bytes ends the walk.
Bug_PassEmpty(e) ==
  /\ Reading
  /\ Header(e)
  /\ Fits(e)
  /\ e.declared = 0
  /\ pc' = "done"
  /\ UNCHANGED <<format, entries, length, pos, out>>

\* No bytes to take: a directory or an empty file is no end of the archive.
PassEmpty(e) ==
  /\ Reading
  /\ Header(e)
  /\ Fits(e)
  /\ e.declared = 0
  /\ pos' = After(format, Body(format, pos, e), 0)
  /\ UNCHANGED <<format, entries, length, out, pc>>

\* Mutant: a member that is passed over is not skipped.
Bug_ReadMember(e) ==
  /\ Reading
  /\ Header(e)
  /\ Fits(e)
  /\ e.declared # 0
  /\ out' = IF Kept(e) THEN Append(out, Member(e)) ELSE out
  /\ pos' = IF Kept(e) THEN After(format, Body(format, pos, e), e.declared) ELSE pos
  /\ UNCHANGED <<format, entries, length, pc>>

ReadMember(e) ==
  /\ Reading
  /\ Header(e)
  /\ Fits(e)
  /\ e.declared # 0
  /\ out' = IF Kept(e) THEN Append(out, Member(e)) ELSE out
  /\ pos' = After(format, Body(format, pos, e), e.declared)
  /\ UNCHANGED <<format, entries, length, pc>>

Done ==
  /\ pc' = "done"
  /\ UNCHANGED <<format, entries, length, pos, out>>

\* No room for a header, or an entry that runs past the end of the data.
StopAtEnd ==
  /\ pc = "reading"
  /\ \/ pos + HeaderLength(format) > length
     \/ \E e \in Entries \cup Junk : Header(e) /\ ~Fits(e)
  /\ Done

\* The trailer, or bytes without a magic number.
StopAtTrailer ==
  /\ Reading
  /\ Index = {}
  /\ Done

Next ==
  \/ \E e \in Entries \cup Junk : PassEmpty(e) \/ ReadMember(e)
  \/ StopAtEnd
  \/ StopAtTrailer

Spec == Init /\ [][Next]_vars

FairSpec == Spec /\ WF_vars(Next)

-----------------------------------------------------------------------------
\* The bytes of the members lie inside the data, in order, and no byte is in
\* two of them, whatever the headers say; the position stays a position.
MembersApart ==
  /\ TypeOK
  /\ \A i \in DOMAIN out : out[i].from < out[i].to /\ out[i].to <= length
  /\ \A i, j \in DOMAIN out : i < j => out[i].to <= out[j].from

\* What the writer wrote and the cut left whole.
Whole(i) ==
  LET e == entries[i] IN
  Body(format, Start(format, entries)[i], e) + e.size <= length

\* "tolerant of the truncated archives vendors sometimes publish": every member
\* that is whole is read, with exactly its bytes, as long as the headers before
\* it give the sizes of their bodies.
WholeMembersRead ==
  pc = "done" =>
    \A i \in DOMAIN entries :
      /\ \A j \in 1 .. i : entries[j].declared = entries[j].size
      /\ Whole(i) /\ Kept(entries[i]) /\ entries[i].size # 0
      => LET body == Body(format, Start(format, entries)[i], entries[i])
         IN  \E m \in DOMAIN out : out[m] = [from |-> body, to |-> body + entries[i].size]

\* Nothing is made up: when every header gives the size of its body, all that
\* is read was written.
NothingInvented ==
  (\A i \in DOMAIN entries : entries[i].declared = entries[i].size) =>
    \A m \in DOMAIN out : \E i \in DOMAIN entries :
      /\ out[m].from = Body(format, Start(format, entries)[i], entries[i])
      /\ out[m].to = out[m].from + entries[i].size

\* Of an archive cut off anywhere the members that are whole are read, and no
\* others.
MembersAreExact == WholeMembersRead /\ NothingInvented

\* Every walk comes to an end.
Terminates == <>(pc = "done")
=============================================================================
