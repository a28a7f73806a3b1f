----------------------------- MODULE MCIdentify -----------------------------
(***************************************************************************)
(* Identify on small trees. Names, rules and versions are excerpts of      *)
(* rules.rs; every way of combining the sightings of a file that the       *)
(* properties tell apart is in Files.                                      *)
(***************************************************************************)
EXTENDS Identify

MCName ==
  {"libcrypto.so", "libz.so.1.0.1", "ld-uClibc-1.0.1.so", "libc.so", "status",
   "openssl_1.0.1_arm.ipk", "openssl_1.0.2r_arm.ipk", "app"}

MCLib == {"openssl", "zlib", "uclibc", "musl", "hndtools", "tmp"}

MCVersion == {"1.0.1", "1.0.1t", "1.0.2h", "1.0.2r"}

\* str::starts_with on these four strings.
MCStartsWith == {<<v, v>> : v \in MCVersion} \cup {<<"1.0.1t", "1.0.1">>}

\* The rows of FILENAME and BINARY these names match; the others match none.
MCClassify ==
  [n \in MCName |-> CASE n = "libcrypto.so" -> "openssl"
                      [] n = "libz.so.1.0.1" -> "zlib"
                      [] n = "ld-uClibc-1.0.1.so" -> "uclibc"
                      [] OTHER -> None]

MCCurated == {"openssl", "zlib", "uclibc", "musl"}
MCSkip == {"tmp"}
MCLibcs == {"uclibc", "musl"}
MCLibcNames == {"libc.so"}
MCNormalizePkg == [n \in MCLib |-> n]

File(n) ==
  [name |-> n, db |-> FALSE, stanzas |-> {}, pkg |-> {}, text |-> FALSE, paths |-> {},
   marker |-> None, soname |-> {}, filename |-> {}, strings |-> {}]

UpTo(k, S) == {T \in SUBSET S : Cardinality(T) <= k}

OpenSSL(V) == {<<"openssl", v>> : v \in V}

\* A library that holds the release strings of up to two versions.
Libraries ==
  {[File("libcrypto.so") EXCEPT !.strings = OpenSSL(V)] : V \in UpTo(2, MCVersion)}

\* A build path in a text or a binary, in the cargo registry or elsewhere.
Builds ==
  {[File(n) EXCEPT !.text = t,
                   !.paths = {[name |-> "openssl", version |-> v, cargo |-> c]}] :
     n \in {"app", "libcrypto.so"}, t \in BOOLEAN, v \in {"1.0.1", "1.0.2h"}, c \in BOOLEAN}

\* Directories that are no project: not curated, and on the skip list.
Noise ==
  {[File("app") EXCEPT !.paths =
      {[name |-> "hndtools", version |-> "1.0.1", cargo |-> FALSE],
       [name |-> "tmp", version |-> "1.0.1", cargo |-> TRUE]}]}

\* A version string of a libc contains the libc's marker.
Libc ==
  {[File("libc.so") EXCEPT !.marker = m] : m \in {None, "musl"}} \cup
  {[File("ld-uClibc-1.0.1.so") EXCEPT
      !.filename = {<<"uclibc", "1.0.1">>}, !.marker = x[1], !.strings = x[2]] :
     x \in {<<"uclibc", {}>>, <<"uclibc", {<<"uclibc", "1.0.2h">>}>>,
            <<"musl", {}>>, <<"musl", {<<"musl", "1.0.2h">>}>>}}

Zlib == {[File("libz.so.1.0.1") EXCEPT !.soname = {<<"zlib", "1.0.1">>}]}

Records ==
  {[File("status") EXCEPT !.db = TRUE, !.stanzas = OpenSSL(V)] : V \in UpTo(2, {"1.0.1t", "1.0.2r"})}
    \cup {[File("openssl_1.0.1_arm.ipk") EXCEPT !.pkg = OpenSSL({"1.0.1"})],
          [File("openssl_1.0.2r_arm.ipk") EXCEPT !.pkg = OpenSSL({"1.0.2r"})]}
    \cup {File(None), File("app")}

MCFiles == Libraries \cup Builds \cup Noise \cup Libc \cup Zlib \cup Records

-----------------------------------------------------------------------------
\* Two releases of zlib, of which one's string is a prefix of the other's.
ZlibVersion == {"1.2.1", "1.2.11"}

ZlibStartsWith == {<<v, v>> : v \in ZlibVersion} \cup {<<"1.2.11", "1.2.1">>}

ZlibFiles ==
  {[File("libz.so.1.0.1") EXCEPT !.strings = {<<"zlib", v>>}] : v \in ZlibVersion}

\* lib.rs:239, "One version refines the other when it is the same release
\* expressed more precisely": of two files that hold different releases, both
\* releases are reported.
DistinctReleasesKept ==
  pc = "done" =>
    \A v \in Seen(CProject("zlib")) :
      \E c \in components : c.project = CProject("zlib") /\ c.version \in {v, None}
=============================================================================
