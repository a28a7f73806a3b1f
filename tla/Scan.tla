-------------------------------- MODULE Scan --------------------------------
(***************************************************************************)
(* The scan command (crates/cli/src/main.rs) after extraction: the         *)
(* archives found inside the tree are expanded in place, then the analyzer *)
(* of module Identify reads the tree, and the inventory is written as a    *)
(* CycloneDX document (crates/emit/src). The store is the variable tree; a *)
(* path that holds nothing has the facts Absent, which say nothing.        *)
(***************************************************************************)
EXTENDS Identify, Sequences, Calendar

CONSTANTS
  Absent,      \* no file at this path
  Nested,      \* contents over 4096 bytes that look like tar, zip or gzip
  MemberName,
  MaxMembers,  \* bound on the members of one archive
  Members,     \* Nested -> what its reader yields: [name, facts], in order
  Join,        \* PathBuf::join of a path and a member name
  ImageTrees,  \* the trees extract may deliver
  Clock        \* the moments the command may run at: <<day, second of it>>

ASSUME ScanAssumption ==
  /\ Absent \in Files /\ Absent \notin Nested /\ Absent.name = None
  /\ Nested \subseteq Files
  /\ ImageTrees \subseteq [Path -> Files]

\* A reader yields a list of members, and a path is joined with their names.
ASSUME MembersAssumption ==
  /\ MaxMembers \in Nat
  /\ DOMAIN Members = Nested
  /\ \A f \in Nested : Members[f] \in Seq([name : MemberName, facts : Files \ {Absent}])
  /\ \A f \in Nested : Len(Members[f]) <= MaxMembers
  /\ Join \in [Path \X MemberName -> Path]

ASSUME ClockAssumption ==
  /\ None \notin Clock
  /\ \A now \in Clock : now[1] \in Nat /\ now[2] \in Nat /\ now[2] < 86400

VARIABLES
  image,  \* the tree as extracted; no step of the program reads it
  todo,   \* the archives not yet expanded: path and bytes, cloned
  stage,  \* "extracted", "expanding", "analyzing", "reported"
  clock,  \* the system clock when it was read
  sbom    \* the document, None before it is written

scanVars == <<vars, image, todo, stage, clock, sbom>>

\* What the document says of one component.
SbomEntry ==
  [name : Project, version : Version \cup {None},
   methods : SUBSET [technique : {"manifest-analysis", "filename", "binary-analysis"},
                     evidence : Evidence],
   occurrences : SUBSET Path]

ScanTypeOK ==
  /\ TypeOK
  /\ image \in ImageTrees
  /\ todo \subseteq Path \X Nested
  /\ stage \in {"extracted", "expanding", "analyzing", "reported"}
  /\ clock \in Clock \cup {None}
  /\ sbom # None =>
       /\ stage = "reported" /\ clock # None
       /\ sbom.entries \subseteq SbomEntry

ScanInit ==
  /\ tree \in ImageTrees
  /\ NothingFound
  /\ image = tree
  /\ todo = {}
  /\ stage = "extracted"
  /\ clock = None
  /\ sbom = None

output == <<clock, sbom>>

Analyzer == <<next, versions, evidence, components, pc>>

\* What expand_nested collects before it changes the store.
Candidates == {<<p, tree[p]>> : p \in {x \in Path : tree[x] \in Nested}}

CollectArchives ==
  /\ stage = "extracted"
  /\ todo' = Candidates
  /\ stage' = "expanding"
  /\ UNCHANGED <<tree, Analyzer, image, output>>

Target(p, m) == Join[<<p, m.name>>]

\* Inserting the members of archive f, found at p, into the tree t, in order.
Expanded(t, p, f) ==
  [x \in Path |->
    LET at == {i \in DOMAIN Members[f] : Target(p, Members[f][i]) = x}
    IN  IF at = {} THEN t[x]
        ELSE Members[f][CHOOSE i \in at : \A j \in at : j <= i].facts]

\* Mutant: the tree is replaced by what the archive holds.
Bug_ExpandArchive(c) ==
  /\ stage = "expanding"
  /\ c \in todo
  /\ tree' = Expanded([p \in Path |-> Absent], c[1], c[2])
  /\ todo' = todo \ {c}
  /\ UNCHANGED <<Analyzer, image, stage, output>>

\* The candidates come out of a HashMap: in any order.
ExpandArchive(c) ==
  /\ stage = "expanding"
  /\ c \in todo
  /\ tree' = Expanded(tree, c[1], c[2])
  /\ todo' = todo \ {c}
  /\ UNCHANGED <<Analyzer, image, stage, output>>

BeginAnalysis ==
  /\ stage = "expanding"
  /\ todo = {}
  /\ stage' = "analyzing"
  /\ UNCHANGED <<tree, Analyzer, image, todo, output>>

Analyze ==
  /\ stage = "analyzing"
  /\ Next
  /\ UNCHANGED <<image, todo, stage, output>>

\* The calls the scan and the reconcile command have in common.
TakeInventory ==
  \/ CollectArchives
  \/ \E c \in todo : ExpandArchive(c)
  \/ BeginAnalysis
  \/ Analyze

Technique(kind) ==
  CASE kind = "PackageDatabase" -> "manifest-analysis"
    [] kind \in {"PackageFilename", "Soname"} -> "filename"
    [] OTHER -> "binary-analysis"

\* Methods and locations are written without repetitions.
Entry(c) ==
  [name |-> c.project, version |-> c.version,
   methods |-> {[technique |-> Technique(e.kind), evidence |-> e] : e \in c.evidence},
   occurrences |-> {e.path : e \in c.evidence}]

Report(now) ==
  /\ stage = "analyzing"
  /\ pc = "done"
  /\ clock' = now
  /\ sbom' = [entries |-> {Entry(c) : c \in components},
              stamp |-> Timestamp(now[1], now[2])]
  /\ stage' = "reported"
  /\ UNCHANGED <<tree, Analyzer, image, todo>>

ScanNext == TakeInventory \/ \E now \in Clock : Report(now)

ScanSpec == ScanInit /\ [][ScanNext]_scanVars

-----------------------------------------------------------------------------
Archives == {p \in Path : image[p] \in Nested}

\* The members whose name leads to path x, as archive and position.
Writers(x) ==
  {w \in Archives \X (1 .. MaxMembers) :
     LET held == Members[image[w[1]]]
     IN  w[2] \in DOMAIN held /\ Join[<<w[1], held[w[2]].name>>] = x}

\* What the analyzer reads is the image with the members laid over it: a path
\* no member leads to is as extracted, any other holds the last such member of
\* one of the archives. It holds although absolute names overwrite files, an
\* archive among them, while other archives still wait to be expanded.
ExpansionIsOverlay ==
  stage = "analyzing" =>
    \A x \in Path :
      IF Writers(x) = {} THEN tree[x] = image[x]
      ELSE \E w \in Writers(x) :
             /\ tree[x] = Members[image[w[1]]][w[2]].facts
             /\ \A u \in Writers(x) : u[1] = w[1] => u[2] <= w[2]

\* One file shows two releases of project q, of which neither refines the other.
ShowsTwo(q) ==
  \E p \in Path : \E u, v \in Version :
    Shows(tree[p], q, u) /\ Shows(tree[p], q, v) /\ ~Refines(u, v)

\* A release named in an archive is reported with its version or a finer one,
\* also when the archive is compressed and says nothing itself: the member that
\* has a path of its own is found, its build paths are read like those of any
\* binary, and its release is not lost when series are collapsed. Only a file
\* that shows two releases, which may be the archive itself, takes the version.
NestedReleasesReported ==
  pc = "done" =>
    \A x \in Path : \A w \in Writers(x) :
      LET member == Members[image[w[1]]][w[2]].facts IN
      Writers(x) = {w} /\ Plain(member) /\ ~member.text =>
        \A b \in member.paths :
          ~b.cargo /\ b.name \in Curated \ Skip =>
            \E c \in components :
              /\ c.project = CProject(b.name)
              /\ \/ c.version # None /\ <<c.version, b.version>> \in StartsWith
                 \/ c.version = None /\ ShowsTwo(c.project)

\* Every version in the document is read from a file it points to: among the
\* locations of the entry is one whose bytes or name show that version of that
\* project. What was gathered per file was collapsed and filtered since.
VersionsAreLocated ==
  /\ ScanTypeOK
  /\ sbom # None =>
       \A e \in sbom.entries :
         e.version # None =>
           \E p \in e.occurrences : Shows(tree[p], e.name, e.version)

\* Howard Hinnant's arithmetic gives the date of the calendar, over leap days,
\* centuries that have none and the year 2000 that has.
StampIsDate == sbom # None => Names(sbom.stamp, clock[1], clock[2])

-----------------------------------------------------------------------------
\* The image with the archives at the first n paths expanded, in path order.
ExpandedInOrder[n \in 0 .. NumPaths] ==
  IF n = 0 THEN image
  ELSE IF image[n] \in Nested THEN Expanded(ExpandedInOrder[n - 1], n, image[n])
  ELSE ExpandedInOrder[n - 1]

\* emit/lib.rs:30, "reruns over the same image produce the same serial, so two
\* reports can be diffed without spurious churn": what is analyzed does not
\* depend on the order in which a HashMap delivers the archives.
RerunsAgree == stage = "analyzing" => tree = ExpandedInOrder[NumPaths]

\* main.rs:173, treating an archive as one artifact "makes the several versions
\* it contains look like contradictory evidence about one binary": when every
\* file but the archives names at most one release of a project, the project is
\* reported with its releases.
ArchiveIsNoArtifact ==
  pc = "done" =>
    \A c \in components :
      (\A p \in Path, a, b \in Version :
         tree[p] \notin Nested /\ p \in versions[c.project][a] \cap versions[c.project][b]
         => a = b)
      /\ Seen(c.project) # {}
      => c.version # None
=============================================================================
