---------------------------- MODULE MCReconcile -----------------------------
(***************************************************************************)
(* A tree with up to two archives of up to two members and up to two plain *)
(* files, scanned or compared with a manifest. Path 1 is the absolute "/x" *)
(* (a file of a cpio image, or of a member with an absolute name); 2 is a  *)
(* plain file; 3 and 6 are the archives, each followed by the paths of its *)
(* members "x" and "y". No other file is an archive, so that Join leads    *)
(* nowhere else. A version is the sequence of its parts: 1.0.2h, 1.0.2r,   *)
(* 1.0.2-beta and 1.0.2, which is the series of the three.                 *)
(***************************************************************************)
EXTENDS Reconcile, TLC, SequencesExt

MCName == {"libcrypto.so", "app.tar", "app.tgz", "abs.tgz", "inner.tgz", "plain.gz", "status"}
MCLib == {"openssl", "OpenSSL", "libcurl", "curl", "libssl1", "telnetd"}
MCCurated == {"openssl", "curl"}

Series == <<"1.0.2">>
H == <<"1.0.2", "h">>
R == <<"1.0.2", "r">>
Beta == <<"1.0.2", "-", "beta">>

MCVersion == {Series, H, R, Beta}
MCStartsWith == {<<a, b>> \in MCVersion \X MCVersion : IsPrefix(b, a)}
MCDigits == {"3"}
MCMarkers == <<".dfsg", "+dfsg", "~dfsg", ".orig">>
MCClassify ==
  [n \in MCName |-> IF n = "libcrypto.so" THEN "openssl" ELSE None]
MCLower == [n \in MCLib |-> IF n = "OpenSSL" THEN "openssl" ELSE n]
MCNormalizePkg == [n \in MCLib |-> IF n = "libcurl" THEN "curl" ELSE MCLower[n]]

File(n) ==
  [name |-> n, db |-> FALSE, stanzas |-> {}, pkg |-> {}, text |-> FALSE, paths |-> {},
   marker |-> None, soname |-> {}, filename |-> {}, strings |-> {}]

Built(n, V) ==
  [File(n) EXCEPT !.paths = {[name |-> "openssl", version |-> v, cargo |-> FALSE] : v \in V}]

Library(v) == Built("libcrypto.so", {v})

MCAbsent == File(None)

Member(n, f) == [name |-> n, facts |-> f]

-----------------------------------------------------------------------------
\* A status file: each stanza a package, of which the fields are given.
Stanza(pkg, source, version, state) ==
  <<Line(":", "Package", FALSE, pkg, NotGiven), Line(":", "Source", FALSE, source, NotGiven),
    Line(":", "Version", FALSE, NotGiven, version), Line(":", "Status", FALSE, state, NotGiven)>>

\* [epoch:]upstream[.dfsg][-revision], as Debian and opkg write it.
Debian(v) == <<"3", ":">> \o v \o <<".dfsg", "-", "3">>
OpenWrt(v) == v \o <<"-", "r", "3">>

RecordOne == <<Stanza("libssl1", "openssl", Debian(H), "installed"),
               Stanza("libcurl", NotGiven, OpenWrt(Series), "installed")>>
RecordTwo == <<Stanza("libssl1", "OpenSSL", Debian(Series), "installed"),
               Stanza("openssl", NotGiven, Debian(R), "half-installed")>>
RecordContradicts == <<Stanza("libssl1", "openssl", Debian(H), "installed"),
                       Stanza("openssl", NotGiven, OpenWrt(Beta), "installed")>>
RecordRemoved == <<Stanza("telnetd", NotGiven, Debian(R), "config-files"),
                   Stanza("curl", NotGiven, Debian(Series), "not-installed"),
                   Stanza("openssl", NotGiven, OpenWrt(H), "installed")
                     \o <<Line(":", "Description", FALSE, NotGiven, NotGiven),
                          Line(":", "Notes", TRUE, NotGiven, NotGiven)>>>>

MCRecords == {RecordOne, RecordTwo, RecordContradicts, RecordRemoved, <<>>}

MCStatusFile ==
  [t \in MCRecords |->
     [File("status") EXCEPT !.db = TRUE, !.stanzas = ToSet(PackageDatabase(t))]]

\* Manifests: the records themselves, and columns in both formats.
Dash(pkg, version) == Line("-", NotGiven, FALSE, pkg, version)
Column(pkg, version) == Line(" ", NotGiven, FALSE, pkg, version)
Comment(sep) == Line(sep, NotGiven, FALSE, NotGiven, NotGiven)

MCManifests ==
  MCRecords \cup
  {<<<<Comment("#"), Dash("OpenSSL", v), Dash("libcurl", Series)>>>> :
     v \in {Beta, OpenWrt(Beta), OpenWrt(H)}}
  \cup {<<<<Column("openssl", v), Column("telnetd", NotGiven)>>, <<Comment("#")>>>> :
          v \in {Series, R, NotGiven, Debian(H)}}
  \* The dash in a comment makes it OpenWrt: no entry is understood.
  \cup {<<<<Comment("#-"), Column("openssl", H)>>>>}

-----------------------------------------------------------------------------
\* An archive is a file that shows the build paths of its members when it is a
\* tar, and nothing when it is compressed. TgzPlain is a gzip of no tar.
TarTwo == Built("app.tar", {H, R})
TarAgain == Built("app.tar", {H, Series})
TgzTwo == Built("app.tgz", {})
TgzAbsolute == Built("abs.tgz", {})
TgzInner == Built("inner.tgz", {})
TgzPlain == Built("plain.gz", {})

MCMembers ==
  (TarTwo :> <<Member("x", Library(H)), Member("y", Library(R))>>) @@
  (TarAgain :> <<Member("x", Library(H)), Member("x", Library(Series))>>) @@
  (TgzTwo :> <<Member("/x", Library(R)), Member("y", Library(Series))>>) @@
  (TgzAbsolute :> <<Member("/x", Library(H))>>) @@
  (TgzInner :> <<Member("x", TgzAbsolute), Member("y", Library(R))>>) @@
  (TgzPlain :> <<>>)

MCNested == {TarTwo, TarAgain, TgzTwo, TgzAbsolute, TgzInner, TgzPlain}
MCFiles ==
  {MCAbsent, File("libcrypto.so")} \cup {Library(v) : v \in MCVersion} \cup MCNested
    \cup {MCStatusFile[t] : t \in MCRecords}
MCMemberName == {"x", "y", "/x"}

MCJoin ==
  [j \in Path \X MCMemberName |->
     CASE j[2] = "/x" -> 1
       [] j[2] = "x" /\ j[1] \in {3, 6} -> j[1] + 1
       [] j[2] = "y" /\ j[1] \in {3, 6} -> j[1] + 2
       [] OTHER -> 2]

Tree(abs, b, a1, a2) ==
  [p \in Path |-> CASE p = 1 -> abs [] p = 2 -> b [] p = 3 -> a1 [] p = 6 -> a2
                     [] OTHER -> MCAbsent]

\* Trees of archives, and trees with a package record.
MCImageTrees ==
  {Tree(abs, b, a1, a2) :
     abs \in {MCAbsent, TgzPlain, Library(Series)}, b \in {MCAbsent, Library(Series), Library(H)},
     a1 \in MCNested \cup {MCAbsent}, a2 \in {TarTwo, TgzAbsolute, MCAbsent}}
  \cup
  {Tree(abs, MCStatusFile[t], a1, MCAbsent) :
     abs \in {MCAbsent, File("libcrypto.so"), Library(Series), Library(R)}, t \in MCRecords,
     a1 \in {MCAbsent, TgzTwo}}

\* Leap days, ends of years and months, centuries with and without a leap day:
\* 1970, 1972, 2000, 2024, 2100, 2400, at the first and the last second.
MCClock ==
  {0, 30, 59, 364, 789, 790, 10956, 11015, 11016, 11322, 11323, 19781, 19782, 20088,
   47540, 47541, 157112, 157113}
    \X {0, 43199, 86399}
=============================================================================
