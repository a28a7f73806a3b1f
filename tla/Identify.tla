------------------------------ MODULE Identify ------------------------------
(***************************************************************************)
(* The analyzer (crates/identify/src/lib.rs): one pass over the files of   *)
(* the extracted tree in path order, gathering for every project the       *)
(* versions seen, the files that yielded each, and the evidence; then one  *)
(* call of build_components that turns what was found into components.     *)
(*                                                                         *)
(* A file is reduced to what the regexes and markers of the rules find in  *)
(* it. A version is an opaque value; the only thing the code asks of two   *)
(* versions is whether one string starts with the other, the constant      *)
(* relation StartsWith.                                                    *)
(***************************************************************************)
EXTENDS Naturals, FiniteSets

CONSTANTS
  NumPaths,      \* the number of files; path i is the i-th in sort order
  Name,          \* file names
  Lib,           \* upstream project names
  Version,       \* version strings
  None,          \* no name, no version, no project
  StartsWith,    \* <<a, b>>: string a starts with string b
  Files,         \* the facts a file may present
  Classify,      \* file name -> project of FILENAME / BINARY, or None
  Curated,       \* the projects of the CPE table
  Skip,          \* directory names that are never a project
  Libcs,         \* uclibc, musl, glibc
  LibcNames,     \* file names starting with libc.so
  NormalizePkg   \* package name -> project name

Path == 1 .. NumPaths

Claim == Lib \X Version

\* What the rules extract from one file, each field the matches of one rule.
FileFacts ==
  [name     : Name \cup {None},         \* Path::file_name, None for ".."
   db       : BOOLEAN,                  \* is_package_database(path)
   stanzas  : SUBSET Claim,             \* package_database(data)
   pkg      : SUBSET Claim,             \* package_file on the name: at most one
   text     : BOOLEAN,                  \* is_text(data)
   paths    : SUBSET [name : Lib, version : Version, cargo : BOOLEAN],
   marker   : Lib \cup {None},          \* first LIBC_MARKER in the bytes
   soname   : SUBSET Claim,             \* SONAME_RELEASE of each project
   filename : SUBSET Claim,             \* FILENAME_VERSION of each project
   strings  : SUBSET Claim]             \* VERSION of each project

\* The versions a file shows by any rule.
VersionsIn(f) ==
  {b.version : b \in f.paths}
    \cup {c[2] : c \in f.stanzas \cup f.pkg \cup f.soname \cup f.filename \cup f.strings}

ASSUME PathsAssumption == NumPaths \in Nat

\* The bytes and the name of a file are finite, and so are the matches in them.
ASSUME MatchesAssumption == \A f \in Files : IsFiniteSet(VersionsIn(f))

ASSUME FilesAssumption ==
  /\ None \notin Version \cup Lib \cup Name
  /\ Files \subseteq FileFacts
  /\ Classify \in [Name -> Lib \cup {None}]
  /\ NormalizePkg \in [Lib -> Lib]

\* str::starts_with orders the versions by prefix.
ASSUME PrefixAssumption ==
  /\ \A a \in Version : <<a, a>> \in StartsWith
  /\ \A a, b \in Version :
        <<a, b>> \in StartsWith /\ <<b, a>> \in StartsWith => a = b
  /\ \A a, b, c \in Version :
        <<a, b>> \in StartsWith /\ <<b, c>> \in StartsWith => <<a, c>> \in StartsWith

VARIABLES
  tree,        \* the store: path -> facts; never changes
  next,        \* the path the loop of analyze is at
  versions,    \* Found::versions of every project: version -> files
  evidence,    \* Found::evidence of every project, as a set
  components,  \* the result of build_components
  pc           \* "reading", then "done"

vars == <<tree, next, versions, evidence, components, pc>>

\* The BTreeMap key: a project name, or "rust:" and a crate name.
Project == {"lib", "rust"} \X Lib
CProject(n) == <<"lib", n>>
Crate(n) == <<"rust", n>>

Kind == {"PackageDatabase", "PackageFilename", "VersionString", "BuildPath", "Soname"}

Evidence == [kind : Kind, path : Path, value : Version \cup {None}]

Confidence == {"possible", "likely", "confirmed"}

Component == [project : Project, version : Version \cup {None},
              confidence : Confidence, evidence : SUBSET Evidence]

TypeOK ==
  /\ tree \in [Path -> Files]
  /\ next \in 1 .. NumPaths + 1
  /\ versions \in [Project -> [Version -> SUBSET Path]]
  /\ evidence \in [Project -> SUBSET Evidence]
  /\ components \subseteq Component
  /\ pc \in {"reading", "done"}

-----------------------------------------------------------------------------
(***************************************************************************)
(* What one file contributes. Every rule calls evidence.push, which cites  *)
(* a sighting, and Found::record, which enters a version of a project; the *)
(* two sets of a rule are its two calls.                                   *)
(***************************************************************************)
Sighting(q, k, v) == [project |-> q, kind |-> k, value |-> v]

DatabaseSightings(f) ==
  {Sighting(CProject(NormalizePkg[c[1]]), "PackageDatabase", c[2]) : c \in f.stanzas}

DatabaseRecords(f) == {<<CProject(NormalizePkg[c[1]]), c[2]>> : c \in f.stanzas}

PackageSightings(f) ==
  {Sighting(CProject(NormalizePkg[c[1]]), "PackageFilename", c[2]) : c \in f.pkg}

PackageRecords(f) == {<<CProject(NormalizePkg[c[1]]), c[2]>> : c \in f.pkg}

\* Mutant: the cargo registry context is ignored.
Bug_MinedProject(b) == CProject(b.name)

\* A cargo registry path names a crate; any other path only a curated project.
MinedProject(b) == IF b.cargo THEN Crate(b.name) ELSE CProject(b.name)

MinedPaths(f) ==
  {b \in f.paths : ~f.text /\ b.name \notin Skip /\ (b.cargo \/ b.name \in Curated)}

MinedSightings(f) == {Sighting(MinedProject(b), "BuildPath", b.version) : b \in MinedPaths(f)}

MinedRecords(f) == {<<MinedProject(b), b.version>> : b \in MinedPaths(f)}

\* libc.so alone is ambiguous; the marker in the bytes decides.
ProjectOf(f) ==
  IF /\ Classify[f.name] \in Libcs \/ f.name \in LibcNames
     /\ f.marker # None
  THEN f.marker ELSE Classify[f.name]

ClassifiedSightings(f) ==
  LET n == ProjectOf(f)
      q == CProject(n)
      Of(S, k) == {Sighting(q, k, c[2]) : c \in {x \in S : x[1] = n}}
  IN  {Sighting(q, "Soname", None)}
        \cup Of(f.soname, "Soname")
        \cup Of(f.filename, "PackageFilename")
        \cup Of(f.strings, "VersionString")

\* The name alone is cited; only the three loops over the rules record.
ClassifiedRecords(f) ==
  LET n == ProjectOf(f)
      Of(S) == {<<CProject(n), c[2]>> : c \in {x \in S : x[1] = n}}
  IN  Of(f.soname) \cup Of(f.filename) \cup Of(f.strings)

Cite(s, p) == [kind |-> s.kind, path |-> p, value |-> s.value]

CiteAll(S, p, q) == {Cite(s, p) : s \in {x \in S : x.project = q}}

\* Found::record, for each of the pairs R.
Record(R, p) ==
  versions' = [q \in Project |-> [v \in Version |->
    versions[q][v] \cup IF <<q, v>> \in R THEN {p} ELSE {}]]

-----------------------------------------------------------------------------
(***************************************************************************)
(* build_components.                                                       *)
(***************************************************************************)
Refines(a, b) == a = b \/ <<a, b>> \in StartsWith \/ <<b, a>> \in StartsWith

Seen(q) == {v \in Version : versions[q][v] # {}}

\* Mutant: the series is kept and the release removed.
Bug_SurvivorsSwapped(q) ==
  {v \in Seen(q) : ~ \E w \in Seen(q) : w # v /\ <<v, w>> \in StartsWith}

\* collapse_refinements: a version another one extends is removed.
Survivors(q) ==
  {v \in Seen(q) : ~ \E w \in Seen(q) : w # v /\ <<w, v>> \in StartsWith}

\* contradictory: one file yields two surviving versions.
Contradictory(q) ==
  \E a, b \in Survivors(q) :
    versions[q][a] \cap versions[q][b] # {} /\ ~Refines(a, b)

Attributed(q) == UNION {versions[q][v] : v \in Survivors(q)}

\* Mutants: the whole evidence list is cloned onto every version; only what
\* belongs to no version is kept; only what belongs to this one is kept.
Bug_EvidenceOf(q, v) == evidence[q]

Bug_EvidenceShared(q, v) == {e \in evidence[q] : e.path \notin Attributed(q)}

Bug_EvidenceOwn(q, v) == {e \in evidence[q] : e.path \in versions[q][v]}

\* The evidence of the entry for v: what its own files yielded, and what no
\* surviving version's file yielded.
EvidenceOf(q, v) ==
  {e \in evidence[q] : e.path \in versions[q][v] \/ e.path \notin Attributed(q)}

Unversioned(q) ==
  [project |-> q, version |-> None, confidence |-> "possible", evidence |-> evidence[q]]

Versioned(q, v) ==
  [project |-> q, version |-> v,
   confidence |-> IF Survivors(q) = {v} THEN "confirmed" ELSE "likely",
   evidence |-> EvidenceOf(q, v)]

ComponentsOf(q) ==
  IF Survivors(q) = {} \/ Contradictory(q) THEN {Unversioned(q)}
  ELSE {Versioned(q, v) : v \in Survivors(q)}

-----------------------------------------------------------------------------
\* The analyzer starts with an empty map at the first path.
NothingFound ==
  /\ next = 1
  /\ versions = [q \in Project |-> [v \in Version |-> {}]]
  /\ evidence = [q \in Project |-> {}]
  /\ components = {}
  /\ pc = "reading"

Init == tree \in [Path -> Files] /\ NothingFound

\* One turn of the loop over the paths, which cites S and records R.
Read(S, R) ==
  /\ pc = "reading"
  /\ evidence' = [q \in Project |-> evidence[q] \cup CiteAll(S, next, q)]
  /\ Record(R, next)
  /\ next' = next + 1
  /\ UNCHANGED <<tree, components, pc>>

\* The name is not valid text: the file is passed over.
SkipUnnamed ==
  /\ next \in Path
  /\ tree[next].name = None
  /\ Read({}, {})

\* The package manager's own record; nothing else is asked of the file.
ReadDatabase ==
  /\ next \in Path
  /\ tree[next].name # None
  /\ tree[next].db
  /\ Read(DatabaseSightings(tree[next]), DatabaseRecords(tree[next]))

\* An .ipk or .deb: its name is the claim, its bytes are compressed.
ReadPackage ==
  /\ next \in Path
  /\ tree[next].name # None
  /\ ~tree[next].db
  /\ tree[next].pkg # {}
  /\ Read(PackageSightings(tree[next]), PackageRecords(tree[next]))

Plain(f) == f.name # None /\ ~f.db /\ f.pkg = {}

\* Any other file is mined for build paths; a name no rule knows ends there.
ReadUnclassified ==
  /\ next \in Path
  /\ Plain(tree[next])
  /\ Classify[tree[next].name] = None
  /\ Read(MinedSightings(tree[next]), MinedRecords(tree[next]))

ReadClassified ==
  /\ next \in Path
  /\ Plain(tree[next])
  /\ Classify[tree[next].name] # None
  /\ Read(MinedSightings(tree[next]) \cup ClassifiedSightings(tree[next]),
          MinedRecords(tree[next]) \cup ClassifiedRecords(tree[next]))

\* A project is in the map once something was cited for it.
BuildComponents ==
  /\ pc = "reading"
  /\ next = NumPaths + 1
  /\ components' = UNION {ComponentsOf(q) : q \in {x \in Project : evidence[x] # {}}}
  /\ pc' = "done"
  /\ UNCHANGED <<tree, next, versions, evidence>>

Next ==
  \/ SkipUnnamed
  \/ ReadDatabase
  \/ ReadPackage
  \/ ReadUnclassified
  \/ ReadClassified
  \/ BuildComponents

Spec == Init /\ [][Next]_vars

-----------------------------------------------------------------------------
(***************************************************************************)
(* Properties.                                                             *)
(***************************************************************************)
\* The promise of the SBOM (tests/conflict.rs): every version reported cites a
\* file that yielded exactly that version, although the evidence was filtered
\* by file and the version table was collapsed in between.
ClaimSupported ==
  \A c \in components :
    c.version # None => \E e \in c.evidence : e.value = c.version

\* Two copies of one project are told apart: neither cites a sighting of the
\* other's version, "without this the 1.0.2r entry cites 1.0.2h's bytes".
NoCrossCitation ==
  \A c, d \in components :
    c.project = d.project /\ c.version # d.version /\ d.version # None =>
      \A e \in c.evidence : e.value # d.version

\* Filtering the evidence per version loses none of it: whatever was gathered
\* for a project is cited by one of the project's components.
NothingDropped ==
  pc = "done" =>
    \A q \in Project : \A e \in evidence[q] :
      \E c \in components : c.project = q /\ e \in c.evidence

\* What a file shows of project q at version v, by any rule.
Shows(f, q, v) ==
  \/ \E b \in f.paths : v = b.version /\ q = MinedProject(b)
  \/ \E c \in f.stanzas \cup f.pkg : v = c[2] /\ q = CProject(NormalizePkg[c[1]])
  \/ \E c \in f.soname \cup f.filename \cup f.strings : v = c[2] /\ q = CProject(c[1])

\* Collapsing never loses a release: a version some file yielded is reported,
\* or a more specific one is, or the project is reported without a version.
EveryReleaseAccounted ==
  pc = "done" =>
    \A q \in Project : \A v \in Seen(q) :
      \E c \in components :
        /\ c.project = q
        /\ c.version = None \/ <<c.version, v>> \in StartsWith

\* A build path vouches for a C project only when a compiler put it into a
\* binary outside the cargo registry ("curl 0.4.25 is the crate").
BuildPathsWarranted ==
  \A c \in components : \A e \in c.evidence :
    e.kind = "BuildPath" /\ c.project[1] = "lib" =>
      /\ c.project[2] \in Curated
      /\ ~tree[e.path].text
      /\ \E b \in tree[e.path].paths :
            ~b.cargo /\ b.name = c.project[2] /\ b.version = e.value

-----------------------------------------------------------------------------
(***************************************************************************)
(* What comments of the source say and the code does not do.               *)
(***************************************************************************)
\* lib.rs:35, "A file that yields more than one version for the same project
\* is not evidence of two components" and has no version to report. (Versions
\* that refine each other are one release.)
NoVersionFromContradiction ==
  \A c \in components : \A a, b \in Version, p \in Path :
    /\ c.version = a
    /\ p \in versions[c.project][a] \cap versions[c.project][b]
    => Refines(a, b)

\* lib.rs:110, "libc.so alone is ambiguous; the bytes are not": a libc.so that
\* holds a marker is evidence of the project the marker names.
LibcFromBytes ==
  \A p \in Path :
    /\ p < next
    /\ Plain(tree[p])
    /\ tree[p].name \in LibcNames
    /\ tree[p].marker # None
    => \E e \in evidence[CProject(tree[p].marker)] : e.path = p
=============================================================================
