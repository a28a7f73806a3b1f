----------------------------- MODULE MCExtract ------------------------------
(***************************************************************************)
(* Images of up to two candidates, the first with up to four magic         *)
(* numbers of every kind of outcome. A cpio is believed with two members   *)
(* instead of five, and the search stops beyond one hit instead of 64.     *)
(***************************************************************************)
EXTENDS Extract

MCPath == {"etc/passwd", "bin/sh"}
MCBytes == {"x", "y"}
MCHash == [b \in MCBytes |-> IF b = "x" THEN "dx" ELSE "dy"]
MCDigest == {"dx", "dy"}

File(p, b) == [path |-> p, bytes |-> b]

Fs(kind, plausible, parses, entries) ==
  [kind |-> kind, plausible |-> plausible, parses |-> parses, entries |-> entries]

Twice == <<File("bin/sh", "x"), File("etc/passwd", "x"), File("bin/sh", "y")>>

Outcomes ==
  {Fs("jffs2", TRUE, FALSE, <<>>),
   Fs("squashfs", TRUE, FALSE, <<>>),
   Fs("squashfs", TRUE, TRUE, <<>>),
   Fs("squashfs", TRUE, TRUE, <<File("bin/sh", "x")>>),
   Fs("cpio", FALSE, TRUE, <<>>),
   Fs("cpio", TRUE, TRUE, <<File("etc/passwd", "y")>>),
   Fs("cpio", TRUE, TRUE, Twice)}

UpTo(n, S) == UNION {[1 .. k -> S] : k \in 0 .. n}

Candidates(n) == [uImage : BOOLEAN, magics : UpTo(n, Outcomes)]

MCImages ==
  [wrapping : {"plain"}, peeled : [1 .. 1 -> Candidates(4)]]
  \cup [wrapping : Wrapping, peeled : {<<a, b>> : a \in Candidates(2), b \in Candidates(1)}]
=============================================================================
