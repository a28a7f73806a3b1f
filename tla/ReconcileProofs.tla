--------------------------- MODULE ReconcileProofs --------------------------
(***************************************************************************)
(* What the analyzer and the two commands promise. The reconcile command   *)
(* is the scan command with steps of its own (ReconcileScans), and the     *)
(* scan command the analyzer on a tree that was laid out before, so that   *)
(* the invariant of the analyzer, IInv, carries over; ScanIInv adds how    *)
(* far the archives are expanded, and ReconcileIInv what the lists of the  *)
(* comparison hold.                                                        *)
(*                                                                         *)
(* First the analyzer, for every tree, rule table and set of versions.     *)
(* IInv is: the types, that the evidence is what the rules yield for the   *)
(* files read so far, that the version table agrees with it, and that      *)
(* components is empty or what build_components makes of the two.          *)
(***************************************************************************)
EXTENDS Reconcile, FiniteSetTheorems, WellFoundedInduction, SequenceTheorems, TLAPS

\* What a turn of the loop may contribute.
SightingSet == SUBSET [project : Project, kind : Kind, value : Version \cup {None}]

\* The components are written once, by build_components, from what was read.
Built ==
  \/ pc = "reading" /\ components = {}
  \/ /\ pc = "done"
     /\ components = UNION {ComponentsOf(q) : q \in {x \in Project : evidence[x] # {}}}

\* What the rules yield for one file, by the order of their questions.
Yield(f) ==
  IF f.name = None THEN {}
  ELSE IF f.db THEN DatabaseSightings(f)
  ELSE IF f.pkg # {} THEN PackageSightings(f)
  ELSE MinedSightings(f) \cup IF Classify[f.name] = None THEN {} ELSE ClassifiedSightings(f)

\* What the rules record of it.
Recorded(f) ==
  IF f.name = None THEN {}
  ELSE IF f.db THEN DatabaseRecords(f)
  ELSE IF f.pkg # {} THEN PackageRecords(f)
  ELSE MinedRecords(f) \cup IF Classify[f.name] = None THEN {} ELSE ClassifiedRecords(f)

\* The version table and the evidence agree, although the two are written by
\* separate calls at every rule.
VersionsMatchEvidence ==
  \A q \in Project, v \in Version, p \in Path :
    p \in versions[q][v] <=> \E e \in evidence[q] : e.path = p /\ e.value = v

\* The evidence is what the files read so far have yielded.
Gathered ==
  \A q \in Project : \A e \in Evidence :
    e \in evidence[q]
      <=> \E p \in Path : p < next /\ \E s \in Yield(tree[p]) : s.project = q /\ e = Cite(s, p)

IInv ==
  /\ TypeOK
  /\ Gathered
  /\ VersionsMatchEvidence
  /\ Built
  /\ pc = "done" => next = NumPaths + 1

-----------------------------------------------------------------------------
\* Every rule yields sightings of the declared shape.
LEMMA SightingTypes ==
  ASSUME NEW f \in FileFacts
  PROVE  /\ DatabaseSightings(f) \in SightingSet
         /\ PackageSightings(f) \in SightingSet
         /\ MinedSightings(f) \in SightingSet
         /\ f.name # None /\ Classify[f.name] # None => ClassifiedSightings(f) \in SightingSet
<1>1. DatabaseSightings(f) \in SightingSet /\ PackageSightings(f) \in SightingSet
  <2>1. ASSUME NEW c \in Claim
        PROVE  c[1] \in Lib /\ c[2] \in Version /\ NormalizePkg[c[1]] \in Lib
    BY FilesAssumption DEF Claim
  <2>2. f.stanzas \subseteq Claim /\ f.pkg \subseteq Claim
    BY DEF FileFacts
  <2> QED
    BY <2>1, <2>2 DEF DatabaseSightings, PackageSightings, SightingSet, Sighting,
                      CProject, Project, Kind
<1>2. MinedSightings(f) \in SightingSet
  <2>1. f.paths \subseteq [name : Lib, version : Version, cargo : BOOLEAN]
    BY DEF FileFacts
  <2>2. ASSUME NEW b \in [name : Lib, version : Version, cargo : BOOLEAN]
        PROVE  Sighting(MinedProject(b), "BuildPath", b.version)
                 \in [project : Project, kind : Kind, value : Version \cup {None}]
    BY DEF Sighting, MinedProject, Crate, CProject, Project, Kind
  <2> QED
    BY <2>1, <2>2 DEF MinedSightings, MinedPaths, SightingSet
<1>3. ASSUME f.name # None, Classify[f.name] # None
      PROVE  ClassifiedSightings(f) \in SightingSet
  <2>1. ProjectOf(f) \in Lib
    BY <1>3, FilesAssumption DEF ProjectOf, FileFacts
  <2>2. CProject(ProjectOf(f)) \in Project
    BY <2>1 DEF CProject, Project
  <2>3. \A c \in Claim : c[2] \in Version
    BY DEF Claim
  <2>4. f.soname \subseteq Claim /\ f.filename \subseteq Claim /\ f.strings \subseteq Claim
    BY DEF FileFacts
  <2> QED
    BY <2>2, <2>3, <2>4 DEF ClassifiedSightings, Sighting, SightingSet, Kind
<1> QED
  BY <1>1, <1>2, <1>3

LEMMA YieldTypes ==
  ASSUME NEW f \in FileFacts
  PROVE  Yield(f) \in SightingSet
BY SightingTypes DEF Yield, SightingSet

\* The file at hand has the facts Files declares.
LEMMA CurrentFile ==
  ASSUME TypeOK, NEW p \in Path
  PROVE  tree[p] \in FileFacts
BY FilesAssumption DEF TypeOK

\* No rule records a version it does not cite, or cites one it does not record.
LEMMA RecordedIsYielded ==
  ASSUME NEW f \in FileFacts, NEW q, NEW v, v # None
  PROVE  <<q, v>> \in Recorded(f) <=> \E s \in Yield(f) : s.project = q /\ s.value = v
<1>0. ASSUME NEW p, NEW k, NEW w
      PROVE  Sighting(p, k, w).project = p /\ Sighting(p, k, w).value = w
  BY DEF Sighting
<1> DEFINE Yields(S) == \E s \in S : s.project = q /\ s.value = v
<1>1. <<q, v>> \in DatabaseRecords(f) <=> Yields(DatabaseSightings(f))
  <2>1. \A c \in f.stanzas :
           Sighting(CProject(NormalizePkg[c[1]]), "PackageDatabase", c[2]) \in DatabaseSightings(f)
    BY DEF DatabaseSightings
  <2>2. <<q, v>> \in DatabaseRecords(f) => Yields(DatabaseSightings(f))
    BY <1>0, <2>1 DEF DatabaseRecords
  <2>3. Yields(DatabaseSightings(f)) => <<q, v>> \in DatabaseRecords(f)
    BY <1>0 DEF DatabaseRecords, DatabaseSightings
  <2> QED
    BY <2>2, <2>3
<1>2. <<q, v>> \in PackageRecords(f) <=> Yields(PackageSightings(f))
  <2>1. \A c \in f.pkg :
           Sighting(CProject(NormalizePkg[c[1]]), "PackageFilename", c[2]) \in PackageSightings(f)
    BY DEF PackageSightings
  <2>2. <<q, v>> \in PackageRecords(f) => Yields(PackageSightings(f))
    BY <1>0, <2>1 DEF PackageRecords
  <2>3. Yields(PackageSightings(f)) => <<q, v>> \in PackageRecords(f)
    BY <1>0 DEF PackageRecords, PackageSightings
  <2> QED
    BY <2>2, <2>3
<1>3. <<q, v>> \in MinedRecords(f) <=> Yields(MinedSightings(f))
  <2>1. \A b \in MinedPaths(f) :
           Sighting(MinedProject(b), "BuildPath", b.version) \in MinedSightings(f)
    BY DEF MinedSightings
  <2>2. <<q, v>> \in MinedRecords(f) => Yields(MinedSightings(f))
    BY <1>0, <2>1 DEF MinedRecords
  <2>3. Yields(MinedSightings(f)) => <<q, v>> \in MinedRecords(f)
    BY <1>0 DEF MinedRecords, MinedSightings
  <2> QED
    BY <2>2, <2>3
<1>4. <<q, v>> \in ClassifiedRecords(f) <=> Yields(ClassifiedSightings(f))
  <2> DEFINE n == ProjectOf(f)
             Of(S, k) == {Sighting(CProject(n), k, c[2]) : c \in {x \in S : x[1] = n}}
             RecordsOf(S) == {<<CProject(n), c[2]>> : c \in {x \in S : x[1] = n}}
  <2>1. ASSUME NEW S, NEW k
        PROVE  <<q, v>> \in RecordsOf(S) <=> Yields(Of(S, k))
    <3>1. \A c \in {x \in S : x[1] = n} : Sighting(CProject(n), k, c[2]) \in Of(S, k)
      OBVIOUS
    <3>2. <<q, v>> \in RecordsOf(S) => Yields(Of(S, k))
      BY <1>0, <3>1
    <3>3. Yields(Of(S, k)) => <<q, v>> \in RecordsOf(S)
      BY <1>0
    <3> QED
      BY <3>2, <3>3
  <2>2. ~Yields({Sighting(CProject(n), "Soname", None)})
    BY <1>0
  <2>3. ClassifiedRecords(f)
          = RecordsOf(f.soname) \cup RecordsOf(f.filename) \cup RecordsOf(f.strings)
    BY DEF ClassifiedRecords
  <2>4. ClassifiedSightings(f)
          = {Sighting(CProject(n), "Soname", None)} \cup Of(f.soname, "Soname")
              \cup Of(f.filename, "PackageFilename") \cup Of(f.strings, "VersionString")
    BY DEF ClassifiedSightings
  <2> HIDE DEF n, Of, RecordsOf
  <2> QED
    BY <2>1, <2>2, <2>3, <2>4
<1> QED
  BY <1>1, <1>2, <1>3, <1>4 DEF Recorded, Yield

-----------------------------------------------------------------------------
\* Every turn of the loop cites and records what its file yields.
LEMMA TurnReads ==
  ASSUME TypeOK,
         SkipUnnamed \/ ReadDatabase \/ ReadPackage \/ ReadUnclassified \/ ReadClassified
  PROVE  next \in Path /\ Read(Yield(tree[next]), Recorded(tree[next]))
<1>1. CASE SkipUnnamed
  BY <1>1 DEF SkipUnnamed, Yield, Recorded
<1>2. CASE ReadDatabase
  BY <1>2 DEF ReadDatabase, Yield, Recorded
<1>3. CASE ReadPackage
  BY <1>3 DEF ReadPackage, Yield, Recorded
<1>4. CASE ReadUnclassified
  <2>1. /\ MinedSightings(tree[next]) \cup {} = MinedSightings(tree[next])
        /\ MinedRecords(tree[next]) \cup {} = MinedRecords(tree[next])
    OBVIOUS
  <2> QED
    BY <1>4, <2>1 DEF ReadUnclassified, Plain, Yield, Recorded
<1>5. CASE ReadClassified
  BY <1>5 DEF ReadClassified, Plain, Yield, Recorded
<1> QED
  BY <1>1, <1>2, <1>3, <1>4, <1>5

\* A turn of the loop keeps the invariant, whatever it sights.
LEMMA ReadKeepsIInv ==
  ASSUME IInv, next \in Path, Read(Yield(tree[next]), Recorded(tree[next]))
  PROVE  IInv'
<1> DEFINE S == Yield(tree[next])
           R == Recorded(tree[next])
<1>0. /\ S \in SightingSet
      /\ \A q \in Project, v \in Version :
           <<q, v>> \in R <=> \E s \in S : s.project = q /\ s.value = v
  BY CurrentFile, YieldTypes, RecordedIsYielded, FilesAssumption DEF IInv
<1> HIDE DEF S, R
<1>1. /\ pc = "reading" /\ pc' = pc /\ tree' = tree /\ components' = components
      /\ next' = next + 1
      /\ versions' = [q \in Project |-> [v \in Version |->
            versions[q][v] \cup IF <<q, v>> \in R THEN {next} ELSE {}]]
      /\ evidence' = [q \in Project |-> evidence[q] \cup CiteAll(S, next, q)]
  BY DEF Read, Record, S, R
<1> USE PathsAssumption DEF IInv
<1>2. TypeOK'
  <2>1. next' \in 1 .. NumPaths + 1
    BY <1>1 DEF Path
  <2>2. versions' \in [Project -> [Version -> SUBSET Path]]
    BY <1>1 DEF TypeOK
  <2>3. \A q \in Project : CiteAll(S, next, q) \subseteq Evidence
    BY <1>0 DEF CiteAll, Cite, SightingSet, Evidence
  <2>4. evidence' \in [Project -> SUBSET Evidence]
    BY <1>1, <2>3 DEF TypeOK
  <2> QED
    BY <1>1, <2>1, <2>2, <2>4 DEF TypeOK
<1>3. \A q \in Project : evidence'[q] = evidence[q] \cup CiteAll(S, next, q)
  BY <1>1 DEF TypeOK
<1>4. Gathered'
  <2>0. \A p \in Path : Yield(tree[p])' = Yield(tree[p])
    BY <1>1 DEF Yield, MinedSightings, MinedPaths, ClassifiedSightings, ProjectOf,
                DatabaseSightings, PackageSightings
  <2> SUFFICES ASSUME NEW q \in Project, NEW e \in Evidence
               PROVE  e \in evidence'[q]
                        <=> \E p \in Path : p < next' /\ \E s \in Yield(tree[p]) :
                                              s.project = q /\ e = Cite(s, p)
    BY <2>0 DEF Gathered, Cite
  <2>1. e \in CiteAll(S, next, q) <=> \E s \in Yield(tree[next]) : s.project = q /\ e = Cite(s, next)
    BY DEF CiteAll, S
  <2>2. \A p \in Path : p < next' <=> p < next \/ p = next
    BY <1>1 DEF Path, TypeOK
  <2> QED
    BY <1>3, <2>1, <2>2 DEF Gathered
<1>5. VersionsMatchEvidence'
  <2> SUFFICES ASSUME NEW q \in Project, NEW v \in Version, NEW p \in Path
               PROVE  p \in versions'[q][v]
                        <=> \E e \in evidence'[q] : e.path = p /\ e.value = v
    BY DEF VersionsMatchEvidence
  <2>1. p \in versions'[q][v] <=>
          p \in versions[q][v] \/ (p = next /\ \E s \in S : s.project = q /\ s.value = v)
    <3>1. versions'[q][v] = versions[q][v] \cup IF <<q, v>> \in R THEN {next} ELSE {}
      BY <1>1 DEF TypeOK
    <3>2. <<q, v>> \in R <=> \E s \in S : s.project = q /\ s.value = v
      BY <1>0
    <3> QED
      BY <3>1, <3>2
  <2>2. (\E e \in CiteAll(S, next, q) : e.path = p /\ e.value = v)
          <=> (p = next /\ \E s \in S : s.project = q /\ s.value = v)
    <3>1. ASSUME NEW s \in S
          PROVE  Cite(s, next).path = next /\ Cite(s, next).value = s.value
      BY DEF Cite
    <3> HIDE DEF IInv
    <3>2. CiteAll(S, next, q) = {Cite(s, next) : s \in {x \in S : x.project = q}}
      BY DEF CiteAll
    <3> QED
      BY <3>1, <3>2
  <2> QED
    BY <1>3, <2>1, <2>2 DEF VersionsMatchEvidence
<1>6. Built' /\ pc' # "done"
  BY <1>1 DEF Built
<1> QED
  BY <1>2, <1>4, <1>5, <1>6

\* The analyzer may start on any tree.
Fresh == tree \in [Path -> Files] /\ NothingFound

LEMMA StartIInv == Fresh => IInv
<1> SUFFICES ASSUME Fresh PROVE IInv
  OBVIOUS
<1> USE DEF Fresh
<1>1. TypeOK /\ VersionsMatchEvidence /\ Built
  BY PathsAssumption DEF NothingFound, TypeOK, VersionsMatchEvidence, Built, Path
<1>2. Gathered
  BY DEF NothingFound, Gathered, Path
<1> QED
  BY <1>1, <1>2 DEF NothingFound, IInv

\* The empty map of evidence is what no file has yielded.
THEOREM InitIInv == Init => IInv
BY StartIInv DEF Init, Fresh

LEMMA ComponentTypes ==
  ASSUME TypeOK, NEW q \in Project
  PROVE  ComponentsOf(q) \subseteq Component
<1>1. evidence[q] \subseteq Evidence /\ Survivors(q) \subseteq Version
  BY DEF TypeOK, Survivors, Seen
<1>2. Unversioned(q) \in Component
  BY <1>1 DEF Unversioned, Component, Confidence
<1>3. ASSUME NEW v \in Survivors(q)
      PROVE  Versioned(q, v) \in Component
  BY <1>1 DEF Versioned, Component, Confidence, EvidenceOf
<1> QED
  BY <1>2, <1>3 DEF ComponentsOf

\* What one file yields is added to both tables; the last step reads them.
THEOREM NextIInv == IInv /\ [Next]_vars => IInv'
<1> SUFFICES ASSUME IInv, [Next]_vars PROVE IInv'
  OBVIOUS
<1>1. CASE SkipUnnamed \/ ReadDatabase \/ ReadPackage \/ ReadUnclassified \/ ReadClassified
  BY <1>1, TurnReads, ReadKeepsIInv DEF IInv
<1>2. CASE BuildComponents \/ UNCHANGED vars
  <2>1. UNCHANGED <<tree, next, versions, evidence>>
    BY <1>2 DEF BuildComponents, vars
  <2>2. TypeOK'
    BY <1>2, ComponentTypes DEF BuildComponents, vars, IInv, TypeOK
  <2>3. Gathered'
    <3>1. \A p \in Path : Yield(tree[p])' = Yield(tree[p])
      BY <2>1 DEF Yield, MinedSightings, MinedPaths, ClassifiedSightings, ProjectOf,
                  DatabaseSightings, PackageSightings
    <3> QED
      BY <2>1, <3>1 DEF IInv, Gathered, Cite
  <2>4. VersionsMatchEvidence'
    BY <2>1 DEF IInv, VersionsMatchEvidence
  <2>5. Built'
    <3>1. \A q \in Project : ComponentsOf(q)' = ComponentsOf(q)
      BY <2>1 DEF ComponentsOf, Unversioned, Versioned, Survivors, Seen, Contradictory,
                  EvidenceOf, Attributed
    <3>2. CASE BuildComponents
      BY <3>1, <3>2 DEF BuildComponents, Built
    <3>3. CASE UNCHANGED vars
      BY <3>1, <3>3 DEF vars, IInv, Built
    <3> QED
      BY <1>2, <3>2, <3>3
  <2>6. (pc = "done" => next = NumPaths + 1)'
    BY <1>2 DEF BuildComponents, vars, IInv
  <2> QED
    BY <2>2, <2>3, <2>4, <2>5, <2>6 DEF IInv
<1> QED
  BY <1>1, <1>2 DEF Next

\* The analyzer keeps its two tables in step over all files.
THEOREM InvariantHolds == Spec => []IInv
BY InitIInv, NextIInv, PTL DEF Spec

-----------------------------------------------------------------------------
\* What a component of the finished report is.
LEMMA ComponentShape ==
  ASSUME IInv, NEW c \in components
  PROVE  /\ c.project \in Project
         /\ evidence[c.project] # {}
         /\ \/ /\ Survivors(c.project) = {} \/ Contradictory(c.project)
               /\ c = Unversioned(c.project)
            \/ /\ ~Contradictory(c.project)
               /\ c.version \in Survivors(c.project)
               /\ c = Versioned(c.project, c.version)
<1>1. PICK q \in Project : evidence[q] # {} /\ c \in ComponentsOf(q)
  BY DEF IInv, Built
<1>2. CASE Survivors(q) = {} \/ Contradictory(q)
  BY <1>1, <1>2 DEF Unversioned, ComponentsOf
<1>3. CASE ~(Survivors(q) = {} \/ Contradictory(q))
  <2>1. PICK v \in Survivors(q) : c = Versioned(q, v)
    BY <1>1, <1>3 DEF ComponentsOf
  <2>2. ~Contradictory(q)
    BY <1>3
  <2>3. c.project = q /\ c.version = v
    BY <2>1 DEF Versioned
  <2> QED
    BY <1>1, <2>1, <2>2, <2>3
<1> QED
  BY <1>2, <1>3

\* A surviving version was seen in some file, and no other one extends it.
LEMMA SurvivorFacts ==
  ASSUME NEW q \in Project, NEW v \in Survivors(q)
  PROVE  /\ v \in Version
         /\ versions[q][v] # {}
         /\ \A w \in Survivors(q) : w # v => <<w, v>> \notin StartsWith
BY DEF Survivors, Seen

\* Every version in a report is backed by a file that yielded just that
\* version (the test each_version_carries_only_its_own_evidence, for one).
THEOREM ClaimsAreSupported == Spec => []ClaimSupported
<1>1. IInv => ClaimSupported
  <2> SUFFICES ASSUME IInv, NEW c \in components, c.version # None
               PROVE  \E e \in c.evidence : e.value = c.version
    BY DEF ClaimSupported
  <2> DEFINE q == c.project  v == c.version
  <2>1. q \in Project /\ v \in Survivors(q) /\ c = Versioned(q, v)
    BY ComponentShape DEF Unversioned
  <2>2. v \in Version /\ versions[q][v] # {}
    BY <2>1, SurvivorFacts
  <2>3. PICK p \in Path : p \in versions[q][v]
    BY <2>1, <2>2 DEF IInv, TypeOK
  <2>4. PICK e \in evidence[q] : e.path = p /\ e.value = v
    BY <2>1, <2>2, <2>3 DEF IInv, VersionsMatchEvidence
  <2>5. e \in EvidenceOf(q, v)
    BY <2>3, <2>4 DEF EvidenceOf
  <2>6. c.evidence = EvidenceOf(q, v)
    BY <2>1 DEF Versioned
  <2> QED
    BY <2>4, <2>5, <2>6
<1> QED
  BY <1>1, InvariantHolds, PTL

\* Of two copies of one project, neither cites the bytes of the other: a file
\* that yields both would make the project contradictory.
THEOREM CopiesAreToldApart == Spec => []NoCrossCitation
<1>1. IInv => NoCrossCitation
  <2> SUFFICES ASSUME IInv, NEW c \in components, NEW d \in components,
                      c.project = d.project, c.version # d.version, d.version # None,
                      NEW e \in c.evidence, e.value = d.version
               PROVE  FALSE
    BY DEF NoCrossCitation
  <2> DEFINE q == c.project  v == c.version  w == d.version
  <2>1. q \in Project /\ w \in Survivors(q) /\ ~Contradictory(q)
    BY ComponentShape DEF Unversioned
  <2>2. v \in Survivors(q) /\ c = Versioned(q, v)
    BY <2>1, ComponentShape
  <2>3. e \in evidence[q] /\ (e.path \in versions[q][v] \/ e.path \notin Attributed(q))
    BY <2>2 DEF Versioned, EvidenceOf
  <2>4. e \in Evidence /\ v \in Version /\ w \in Version
    BY <2>1, <2>2, <2>3, SurvivorFacts DEF IInv, TypeOK
  <2>5. e.path \in versions[q][w]
    BY <2>1, <2>3, <2>4 DEF IInv, VersionsMatchEvidence, Evidence
  <2>6. e.path \in versions[q][v]
    BY <2>1, <2>3, <2>5 DEF Attributed
  <2>7. Refines(v, w)
    BY <2>1, <2>2, <2>5, <2>6 DEF Contradictory
  <2> QED
    BY <2>1, <2>2, <2>7, SurvivorFacts DEF Refines
<1> QED
  BY <1>1, InvariantHolds, PTL

LEMMA InvariantDropsNothing == IInv => NothingDropped
<1> SUFFICES ASSUME IInv, pc = "done", NEW q \in Project, NEW e \in evidence[q]
             PROVE  \E c \in components : c.project = q /\ e \in c.evidence
  BY DEF NothingDropped
<1>1. ComponentsOf(q) \subseteq components
  BY DEF IInv, Built
<1>2. CASE Survivors(q) = {} \/ Contradictory(q)
  BY <1>1, <1>2 DEF ComponentsOf, Unversioned
<1>3. CASE Survivors(q) # {} /\ ~Contradictory(q)
  <2>1. PICK v \in Survivors(q) : e \in EvidenceOf(q, v)
    BY <1>3 DEF EvidenceOf, Attributed
  <2>2. Versioned(q, v) \in components
    BY <1>1, <1>3 DEF ComponentsOf
  <2>3. Versioned(q, v).project = q /\ e \in Versioned(q, v).evidence
    BY <2>1 DEF Versioned
  <2> QED
    BY <2>2, <2>3
<1> QED
  BY <1>2, <1>3

\* Filtering the evidence by file drops none of it: a sighting belongs to a
\* surviving version's file or is kept on every version.
THEOREM EvidenceIsNotDropped == Spec => []NothingDropped
BY InvariantHolds, InvariantDropsNothing, PTL

-----------------------------------------------------------------------------
\* A citation goes back to a sighting in its file.
LEMMA EvidenceIsYielded ==
  ASSUME IInv, NEW q \in Project, NEW e \in evidence[q]
  PROVE  /\ e.path \in Path /\ e.path < next
         /\ tree[e.path] \in FileFacts
         /\ \E s \in Yield(tree[e.path]) :
              s.project = q /\ s.kind = e.kind /\ s.value = e.value
<1>1. PICK p \in Path : p < next /\ \E s \in Yield(tree[p]) : s.project = q /\ e = Cite(s, p)
  BY DEF IInv, TypeOK, Gathered
<1>2. tree[p] \in FileFacts
  BY CurrentFile DEF IInv
<1> QED
  BY <1>1, <1>2 DEF Cite

\* A sighting in a file that was read is cited.
LEMMA YieldIsCited ==
  ASSUME IInv, NEW p \in Path, p < next, NEW s \in Yield(tree[p])
  PROVE  /\ s.project \in Project /\ s.value \in Version \cup {None}
         /\ Cite(s, p) \in evidence[s.project]
<1>1. s.project \in Project /\ s.kind \in Kind /\ s.value \in Version \cup {None}
  BY CurrentFile, YieldTypes DEF IInv, SightingSet
<1>2. Cite(s, p) \in Evidence
  BY <1>1 DEF Cite, Evidence
<1> QED
  BY <1>1, <1>2 DEF IInv, Gathered

\* Only the mining of a binary yields build paths, and crates are kept apart.
LEMMA MinedAreWarranted ==
  ASSUME NEW f \in FileFacts, NEW s \in Yield(f), s.kind = "BuildPath", s.project[1] = "lib"
  PROVE  /\ s.project[2] \in Curated
         /\ ~f.text
         /\ \E b \in f.paths : ~b.cargo /\ b.name = s.project[2] /\ b.version = s.value
<1>1. s \in MinedSightings(f)
  BY DEF Yield, DatabaseSightings, PackageSightings, ClassifiedSightings, Sighting
<1>2. PICK b \in f.paths : /\ ~f.text
                           /\ b.cargo \/ b.name \in Curated
                           /\ s = Sighting(MinedProject(b), "BuildPath", b.version)
  BY <1>1 DEF MinedSightings, MinedPaths
<1>3. ~b.cargo /\ s.project = <<"lib", b.name>> /\ s.value = b.version
  BY <1>2 DEF Sighting, MinedProject, Crate, CProject
<1> QED
  BY <1>2, <1>3

\* The crate named curl is never reported as the C project curl, and a path
\* quoted in a text file is no evidence at all.
THEOREM BuildPathsAreWarranted == Spec => []BuildPathsWarranted
<1>1. IInv => BuildPathsWarranted
  <2> SUFFICES ASSUME IInv, NEW c \in components, NEW e \in c.evidence,
                      e.kind = "BuildPath", c.project[1] = "lib"
               PROVE  /\ c.project[2] \in Curated
                      /\ ~tree[e.path].text
                      /\ \E b \in tree[e.path].paths :
                            ~b.cargo /\ b.name = c.project[2] /\ b.version = e.value
    BY DEF BuildPathsWarranted
  <2>1. c.project \in Project /\ e \in evidence[c.project]
    BY ComponentShape DEF Unversioned, Versioned, EvidenceOf
  <2> QED
    BY <2>1, EvidenceIsYielded, MinedAreWarranted
<1> QED
  BY <1>1, InvariantHolds, PTL

-----------------------------------------------------------------------------
LEMMA YieldIsShown ==
  ASSUME NEW f \in FileFacts, NEW s \in Yield(f), s.value # None
  PROVE  Shows(f, s.project, s.value)
<1>1. CASE s \in DatabaseSightings(f) \cup PackageSightings(f)
  BY <1>1 DEF DatabaseSightings, PackageSightings, Sighting, Shows
<1>2. CASE s \in MinedSightings(f)
  BY <1>2 DEF MinedSightings, MinedPaths, Sighting, Shows
<1>3. CASE s \in ClassifiedSightings(f)
  BY <1>3 DEF ClassifiedSightings, Sighting, Shows
<1> QED
  BY <1>1, <1>2, <1>3 DEF Yield

\* Every version in the table is shown by the files listed for it.
LEMMA VersionsAreShown ==
  ASSUME IInv, NEW q \in Project, NEW v \in Version, NEW p \in versions[q][v]
  PROVE  p \in Path /\ tree[p] \in FileFacts /\ Shows(tree[p], q, v)
<1>1. p \in Path
  BY DEF IInv, TypeOK
<1>2. PICK e \in evidence[q] : e.path = p /\ e.value = v
  BY <1>1 DEF IInv, VersionsMatchEvidence
<1> QED
  BY <1>1, <1>2, EvidenceIsYielded, YieldIsShown, FilesAssumption

-----------------------------------------------------------------------------
\* Every set of numbers that is not empty has a least one.
LEMMA Least ==
  ASSUME NEW S, S \subseteq Nat, S # {}
  PROVE  \E n \in S : \A m \in S : ~(m < n)
<1>1. IsWellFoundedOn(OpToRel(<, Nat), Nat)
  BY NatLessThanWellFounded
<1>2. PICK n \in S : \A m \in S : ~(<<m, n>> \in OpToRel(<, Nat))
  BY <1>1, WFMin
<1>3. \A m \in S : <<m, n>> \in OpToRel(<, Nat) <=> m < n
  BY DEF OpToRel
<1> QED
  BY <1>2, <1>3

LEMMA FiniteImage ==
  ASSUME NEW S, IsFiniteSet(S), NEW f, f = [x \in S |-> f[x]]
  PROVE  IsFiniteSet({f[x] : x \in S})
<1> DEFINE T == {f[x] : x \in S}
<1>1. f \in Surjection(S, T)
  BY DEF Surjection
<1> QED
  BY <1>1, FS_Surjection

\* Finitely many files show finitely many versions.
LEMMA SeenIsFinite ==
  ASSUME IInv, NEW q \in Project
  PROVE  IsFiniteSet(Seen(q))
<1> DEFINE found == [p \in Path |-> VersionsIn(tree[p])]
           S == {found[p] : p \in Path}
<1>1. IsFiniteSet(Path)
  BY PathsAssumption, FS_Interval DEF Path
<1>2. IsFiniteSet(S)
  BY <1>1, FiniteImage
<1>3. \A T \in S : IsFiniteSet(T)
  BY MatchesAssumption DEF IInv, TypeOK
<1>4. IsFiniteSet(UNION S)
  BY <1>2, <1>3, FS_UNION
<1>5. ASSUME NEW v \in Seen(q)
      PROVE  v \in UNION S
  <2>1. PICK p \in Path : Shows(tree[p], q, v)
    BY VersionsAreShown DEF IInv, TypeOK, Seen
  <2>2. v \in VersionsIn(tree[p])
    BY <2>1 DEF Shows, VersionsIn
  <2> QED
    BY <2>2
<1> QED
  BY <1>4, <1>5, FS_Subset

\* Of the versions that extend one that was seen, the one extended by fewest
\* survives.
LEMMA SurvivorExists ==
  ASSUME IInv, NEW q \in Project, NEW v \in Seen(q)
  PROVE  \E s \in Survivors(q) : <<s, v>> \in StartsWith
<1> DEFINE Up(w) == {x \in Seen(q) : <<x, w>> \in StartsWith}
           Size(w) == Cardinality(Up(w))
           Sizes == {Size(w) : w \in Up(v)}
<1>0. Seen(q) \subseteq Version
  BY DEF Seen
<1>1. \A w : IsFiniteSet(Up(w)) /\ Size(w) \in Nat
  BY SeenIsFinite, FS_Subset, FS_CardinalityType
<1>2. v \in Up(v)
  BY <1>0, PrefixAssumption
<1>3. PICK s \in Up(v) : \A w \in Up(v) : ~(Size(w) < Size(s))
  <2>1. Sizes \subseteq Nat /\ Sizes # {}
    BY <1>1, <1>2
  <2>2. PICK n \in Sizes : \A m \in Sizes : ~(m < n)
    <3> HIDE DEF Sizes
    <3> QED
      BY <2>1, Least
  <2> QED
    BY <2>2
<1>4. ASSUME NEW w \in Seen(q), w # s, <<w, s>> \in StartsWith
      PROVE  FALSE
  <2>1. Up(w) \subseteq Up(s) /\ w \in Up(v)
    BY <1>0, <1>3, <1>4, PrefixAssumption
  <2>2. s \in Up(s) /\ s \notin Up(w)
    BY <1>0, <1>3, <1>4, PrefixAssumption
  <2>3. Size(w) <= Size(s) /\ Size(w) # Size(s)
    <3> HIDE DEF Up
    <3> QED
      BY <1>1, <2>1, <2>2, FS_Subset
  <2>4. Size(w) \in Nat /\ Size(s) \in Nat /\ ~(Size(w) < Size(s))
    BY <1>1, <1>3, <2>1
  <2> QED
    <3> HIDE DEF Size
    <3> QED
      BY <2>3, <2>4
<1> QED
  BY <1>3, <1>4 DEF Survivors

LEMMA InvariantAccounts == IInv => EveryReleaseAccounted
<1> SUFFICES ASSUME IInv, pc = "done", NEW q \in Project, NEW v \in Seen(q)
             PROVE  \E c \in components :
                      /\ c.project = q
                      /\ c.version = None \/ <<c.version, v>> \in StartsWith
  BY DEF EveryReleaseAccounted
<1>1. evidence[q] # {}
  BY DEF IInv, TypeOK, VersionsMatchEvidence, Seen
<1>2. ComponentsOf(q) \subseteq components
  BY <1>1 DEF IInv, Built
<1>3. CASE Survivors(q) = {} \/ Contradictory(q)
  BY <1>2, <1>3 DEF ComponentsOf, Unversioned
<1>4. CASE ~(Survivors(q) = {} \/ Contradictory(q))
  <2>1. PICK s \in Survivors(q) : <<s, v>> \in StartsWith
    BY SurvivorExists DEF IInv
  <2>2. Versioned(q, s) \in components
    BY <1>2, <1>4, <2>1 DEF ComponentsOf
  <2>3. Versioned(q, s).project = q /\ Versioned(q, s).version = s
    BY DEF Versioned
  <2> QED
    BY <2>1, <2>2, <2>3
<1> QED
  BY <1>3, <1>4

\* Collapsing refinements loses no release: what a file yielded is reported in
\* its most specific form, or the project is reported without a version.
THEOREM ReleasesAreAccounted == Spec => []EveryReleaseAccounted
BY InvariantHolds, InvariantAccounts, PTL

-----------------------------------------------------------------------------
(***************************************************************************)
(* The calendar: civil_from_days names every day since 1970 as the         *)
(* calendar does, and timestamp every second of it. An era of 400 years    *)
(* has 97 leap days; a day in it is the t-th of the q-th four years of the *)
(* c-th century, years beginning in March, so that leap days come last.    *)
(* The divisions of YearOfEra are shown to find c, q and the year among    *)
(* the four.                                                               *)
(***************************************************************************)
\* A day of an era by century, four years and day among them. A century ends a
\* day early, but for the last one of an era.
Century(doe) == IF doe = 146096 THEN 3 ELSE doe \div 36524
FourYears(doe) == (doe - 36524 * Century(doe)) \div 1461
DayOfFour(doe) == doe - 36524 * Century(doe) - 1461 * FourYears(doe)

LEMMA DayOfEra ==
  ASSUME NEW doe \in Nat, doe <= 146096
  PROVE  /\ Century(doe) \in 0 .. 3
         /\ FourYears(doe) \in 0 .. 24
         /\ DayOfFour(doe) \in 0 .. 1460
         /\ FourYears(doe) = 24 /\ Century(doe) < 3 => DayOfFour(doe) < 1460
<1>1. /\ Century(doe) \in 0 .. 3
      /\ doe - 36524 * Century(doe) \in Nat
      /\ doe - 36524 * Century(doe) <= 36524
      /\ Century(doe) # 3 => doe - 36524 * Century(doe) < 36524
  BY DEF Century
<1> DEFINE n == doe - 36524 * Century(doe)
<1>2. n \in Nat /\ n <= 36524 /\ FourYears(doe) = n \div 1461
      /\ DayOfFour(doe) = n - 1461 * FourYears(doe)
  BY <1>1 DEF FourYears, DayOfFour
<1> HIDE DEF n
<1>4. FourYears(doe) \in 0 .. 24
  BY <1>2
<1>5. DayOfFour(doe) \in 0 .. 1460
  BY <1>2
<1> USE DEF n
<1>3. FourYears(doe) = 24 /\ Century(doe) < 3 => DayOfFour(doe) < 1460
  BY <1>1, <1>2, <1>4, <1>5
<1> QED BY <1>1, <1>3, <1>4, <1>5

\* Of four years the last one is a day longer.
YearOfFour(t) == IF t = 1460 THEN 3 ELSE t \div 365

YearIsRight(c, q, t, doe) ==
  /\ YearOfFour(t) \in 0 .. 3
  /\ YearOfEra(doe) = 100 * c + 4 * q + YearOfFour(t)
  /\ DayOfYear(doe) = t - 365 * YearOfFour(t)
  /\ DayOfYear(doe) \in 0 .. 365
  /\ DayOfYear(doe) = 365 => t = 1460

DayIsAt(c, q, t, doe) ==
  /\ c \in 0 .. 3 /\ q \in 0 .. 24 /\ t \in 0 .. 1460
  /\ t = 1460 => q < 24 \/ c = 3
  /\ doe = 36524 * c + 1461 * q + t

LEMMA YearFound ==
  ASSUME NEW c, NEW q, NEW t, NEW doe, DayIsAt(c, q, t, doe)
  PROVE  YearIsRight(c, q, t, doe)
<1> USE DEF YearIsRight, DayIsAt
<1> DEFINE f == YearOfFour(t)
<1>1. f \in 0 .. 3 /\ t - 365 * f \in 0 .. 365 /\ (t - 365 * f = 365 => t = 1460)
  BY DEF YearOfFour
<1>2. YearOfEra(doe) = 100 * c + 4 * q + f
  BY SMTT(60) DEF YearOfEra, YearOfFour
<1>3. DayOfYear(doe) = t - 365 * f
  <2>1. DayOfYear(doe) = doe - (365 * (100 * c + 4 * q + f)
                           + (100 * c + 4 * q + f) \div 4 - (100 * c + 4 * q + f) \div 100)
    BY <1>2 DEF DayOfYear
  <2>2. (100 * c + 4 * q + f) \div 4 = 25 * c + q /\ (100 * c + 4 * q + f) \div 100 = c
    <3> HIDE DEF f
    <3> QED BY <1>1
  <2> HIDE DEF f
  <2> QED BY <1>1, <2>1, <2>2
<1> QED BY <1>1, <1>2, <1>3

\* The month and its day; the 29 of February is the last day of the year.
MonthIsRight(doy, m, d) ==
  /\ m \in 1 .. 12
  /\ d \in 1 .. 31
  /\ m \in {4, 6, 9, 11} => d <= 30
  /\ m = 2 => d <= 29 /\ (d = 29 => doy = 365)
  /\ MonthStart(m) + d - 1 = IF m > 2 THEN doy + 59 ELSE doy - 306

LEMMA MonthFound ==
  ASSUME NEW doy \in 0 .. 365
  PROVE  MonthIsRight(doy, Month(doy), DayOfMonth(doy))
<1> USE DEF MonthIsRight
<1> DEFINE mp == MonthFromMarch(doy)
<1>1. mp \in 0 .. 11 /\ 153 * mp <= 5 * doy + 2 /\ 5 * doy + 2 < 153 * mp + 153
  BY DEF MonthFromMarch
<1>2. /\ Month(doy) = IF mp < 10 THEN mp + 3 ELSE mp - 9
      /\ DayOfMonth(doy) = doy - (153 * mp + 2) \div 5 + 1
  BY DEF Month, DayOfMonth
<1> HIDE DEF mp
<1>m0. CASE mp = 0
  <2>1. Month(doy) = 3 /\ DayOfMonth(doy) = doy - 0 + 1
    BY <1>2, <1>m0
  <2>2. MonthStart(3) = 59
    BY DEF MonthStart
  <2> QED BY <2>1, <2>2, <1>1, <1>m0
<1>m1. CASE mp = 1
  <2>1. Month(doy) = 4 /\ DayOfMonth(doy) = doy - 31 + 1
    BY <1>2, <1>m1
  <2>2. MonthStart(4) = 90
    BY DEF MonthStart
  <2> QED BY <2>1, <2>2, <1>1, <1>m1
<1>m2. CASE mp = 2
  <2>1. Month(doy) = 5 /\ DayOfMonth(doy) = doy - 61 + 1
    BY <1>2, <1>m2
  <2>2. MonthStart(5) = 120
    BY DEF MonthStart
  <2> QED BY <2>1, <2>2, <1>1, <1>m2
<1>m3. CASE mp = 3
  <2>1. Month(doy) = 6 /\ DayOfMonth(doy) = doy - 92 + 1
    BY <1>2, <1>m3
  <2>2. MonthStart(6) = 151
    BY DEF MonthStart
  <2> QED BY <2>1, <2>2, <1>1, <1>m3
<1>m4. CASE mp = 4
  <2>1. Month(doy) = 7 /\ DayOfMonth(doy) = doy - 122 + 1
    BY <1>2, <1>m4
  <2>2. MonthStart(7) = 181
    BY DEF MonthStart
  <2> QED BY <2>1, <2>2, <1>1, <1>m4
<1>m5. CASE mp = 5
  <2>1. Month(doy) = 8 /\ DayOfMonth(doy) = doy - 153 + 1
    BY <1>2, <1>m5
  <2>2. MonthStart(8) = 212
    BY DEF MonthStart
  <2> QED BY <2>1, <2>2, <1>1, <1>m5
<1>m6. CASE mp = 6
  <2>1. Month(doy) = 9 /\ DayOfMonth(doy) = doy - 184 + 1
    BY <1>2, <1>m6
  <2>2. MonthStart(9) = 243
    BY DEF MonthStart
  <2> QED BY <2>1, <2>2, <1>1, <1>m6
<1>m7. CASE mp = 7
  <2>1. Month(doy) = 10 /\ DayOfMonth(doy) = doy - 214 + 1
    BY <1>2, <1>m7
  <2>2. MonthStart(10) = 273
    BY DEF MonthStart
  <2> QED BY <2>1, <2>2, <1>1, <1>m7
<1>m8. CASE mp = 8
  <2>1. Month(doy) = 11 /\ DayOfMonth(doy) = doy - 245 + 1
    BY <1>2, <1>m8
  <2>2. MonthStart(11) = 304
    BY DEF MonthStart
  <2> QED BY <2>1, <2>2, <1>1, <1>m8
<1>m9. CASE mp = 9
  <2>1. Month(doy) = 12 /\ DayOfMonth(doy) = doy - 275 + 1
    BY <1>2, <1>m9
  <2>2. MonthStart(12) = 334
    BY DEF MonthStart
  <2> QED BY <2>1, <2>2, <1>1, <1>m9
<1>m10. CASE mp = 10
  <2>1. Month(doy) = 1 /\ DayOfMonth(doy) = doy - 306 + 1
    BY <1>2, <1>m10
  <2>2. MonthStart(1) = 0
    BY DEF MonthStart
  <2> QED BY <2>1, <2>2, <1>1, <1>m10
<1>m11. CASE mp = 11
  <2>1. Month(doy) = 2 /\ DayOfMonth(doy) = doy - 337 + 1
    BY <1>2, <1>m11
  <2>2. MonthStart(2) = 31
    BY DEF MonthStart
  <2> QED BY <2>1, <2>2, <1>1, <1>m11
<1> QED BY <1>1, <1>m0, <1>m1, <1>m2, <1>m3, <1>m4, <1>m5, <1>m6, <1>m7, <1>m8, <1>m9, <1>m10, <1>m11
\* A year that ends with a 366th day is a leap year, counted from January.
LEMMA LeapDay ==
  ASSUME NEW c \in 0 .. 3, NEW q \in 0 .. 24, NEW era \in Nat,
         q = 24 => c = 3
  PROVE  Leap(100 * c + 4 * q + 3 + era * 400 + 1)
<1> DEFINE y == 100 * c + 4 * q + 3 + era * 400 + 1
<1>1. y % 4 = 0
  OBVIOUS
<1>2. CASE q = 24
  <2>1. y % 400 = 0
    BY <1>2
  <2> QED BY <1>1, <2>1 DEF Leap
<1>3. CASE q # 24
  <2>1. y % 100 = 4 * q + 4
    BY <1>3
  <2> QED BY <1>1, <1>3, <2>1 DEF Leap
<1> QED BY <1>2, <1>3

\* The leap years up to a year of an era.
LEMMA LeapsOfEra ==
  ASSUME NEW c \in 0 .. 3, NEW q \in 0 .. 24, NEW f \in 0 .. 3, NEW era \in Nat
  PROVE  Leaps(100 * c + 4 * q + f + era * 400) = 24 * c + q + 97 * era
<1> DEFINE y == 100 * c + 4 * q + f + era * 400
<1>1. y \div 4 = 25 * c + q + 100 * era
  OBVIOUS
<1>2. y \div 100 = c + 4 * era
  OBVIOUS
<1>3. y \div 400 = era
  OBVIOUS
<1> HIDE DEF y
<1>4. Leaps(y) = 24 * c + q + 97 * era
  BY <1>1, <1>2, <1>3 DEF Leaps
<1> QED BY <1>4 DEF y
LEMMA LeapsStep ==
  ASSUME NEW y \in Nat, y > 0
  PROVE  Leaps(y) = Leaps(y - 1) + (IF Leap(y) THEN 1 ELSE 0)
<1>1. y \div 4 = (y - 1) \div 4 + (IF y % 4 = 0 THEN 1 ELSE 0)
  OBVIOUS
<1>2. y \div 100 = (y - 1) \div 100 + (IF y % 100 = 0 THEN 1 ELSE 0)
  OBVIOUS
<1>3. y \div 400 = (y - 1) \div 400 + (IF y % 400 = 0 THEN 1 ELSE 0)
  OBVIOUS
<1>4. (y % 100 = 0 => y % 4 = 0) /\ (y % 400 = 0 => y % 100 = 0)
  OBVIOUS
<1> QED BY <1>1, <1>2, <1>3, <1>4 DEF Leaps, Leap

\* Every day since 1970 has the date the calendar gives it.
THEOREM DateOfDay ==
  ASSUME NEW days \in Nat
  PROVE  IsDate(CivilFromDays(days)) /\ DayNumber(CivilFromDays(days)) = days
<1> DEFINE z   == days + 719468
           era == z \div 146097
           doe == z % 146097
           c   == Century(doe)
           q   == FourYears(doe)
           t   == DayOfFour(doe)
           f   == YearOfFour(t)
           doy == DayOfYear(doe)
           y   == 100 * c + 4 * q + f + era * 400
           m   == Month(doy)
           d   == DayOfMonth(doy)
<1>1. era \in Nat /\ era > 0 /\ doe \in Nat /\ doe <= 146096 /\ z = 146097 * era + doe
  OBVIOUS
<1>2. CivilFromDays(days)
        = Date(IF m <= 2 THEN YearOfEra(doe) + era * 400 + 1 ELSE YearOfEra(doe) + era * 400, m, d)
  BY DEF CivilFromDays
<1> HIDE DEF era, doe
<1>3. /\ c \in 0 .. 3 /\ q \in 0 .. 24 /\ t \in 0 .. 1460
      /\ q = 24 /\ c < 3 => t < 1460
  BY <1>1, DayOfEra
<1>4. doe = 36524 * c + 1461 * q + t
  BY <1>1, <1>3 DEF DayOfFour
<1> HIDE DEF c, q, t
<1>5. /\ f \in 0 .. 3 /\ YearOfEra(doe) = 100 * c + 4 * q + f
      /\ doy = t - 365 * f /\ doy \in 0 .. 365 /\ (doy = 365 => t = 1460)
  <2>1. DayIsAt(c, q, t, doe)
    BY <1>3, <1>4 DEF DayIsAt
  <2>2. YearIsRight(c, q, t, doe)
    BY <2>1, YearFound
  <2> QED BY <2>2 DEF YearIsRight
<1>6. t = 1460 => f = 3
  BY DEF YearOfFour
<1> HIDE DEF f, doy
<1>7. /\ m \in 1 .. 12 /\ d \in 1 .. 31
      /\ m \in {4, 6, 9, 11} => d <= 30
      /\ m = 2 => d <= 29 /\ (d = 29 => doy = 365)
      /\ MonthStart(m) + d - 1 = IF m > 2 THEN doy + 59 ELSE doy - 306
  <2>1. MonthIsRight(doy, m, d)
    BY <1>5, MonthFound
  <2> QED BY <2>1 DEF MonthIsRight
<1> HIDE DEF m, d
<1>8. y \in Nat /\ y > 0 /\ YearOfEra(doe) + era * 400 = y
  BY <1>1, <1>3, <1>5
<1>9. Leaps(y) = 24 * c + q + 97 * era
  BY <1>1, <1>3, <1>5, LeapsOfEra
<1>10. t = 1460 => Leap(y + 1)
  <2> SUFFICES ASSUME t = 1460 PROVE Leap(y + 1)
    OBVIOUS
  <2>1. f = 3 /\ (q = 24 => c = 3)
    BY <1>3, <1>6
  <2>2. Leap(100 * c + 4 * q + 3 + era * 400 + 1)
    BY <1>1, <1>3, <2>1, LeapDay
  <2> QED BY <2>1, <2>2
<1>11. days = 365 * y + Leaps(y) + doy - 719468
  BY <1>1, <1>3, <1>4, <1>5, <1>9
<1> HIDE DEF y, z
<1>12. Leaps(1969) = 477
  BY DEF Leaps
<1>13. CASE m <= 2
  <2> DEFINE yr == y + 1
  <2>1. CivilFromDays(days) = Date(yr, m, d)
    BY <1>2, <1>8, <1>13
  <2>2. yr \in Nat /\ yr - 1 = y /\ (t = 1460 => Leap(yr))
    BY <1>8, <1>10
  <2> HIDE DEF yr
  <2>3. IsDate(Date(yr, m, d))
    <3>1. CASE m = 1
      BY <1>7, <3>1 DEF IsDate, Date, MonthLength
    <3>2. CASE m = 2
      <4>1. d = 29 => Leap(yr)
        BY <1>5, <1>7, <2>2, <3>2
      <4>2. MonthLength(yr, m) = IF Leap(yr) THEN 29 ELSE 28
        BY <3>2 DEF MonthLength
      <4>3. d \in 1 .. MonthLength(yr, m)
        BY <1>7, <3>2, <4>1, <4>2
      <4> QED BY <1>7, <4>3 DEF IsDate, Date
    <3> QED BY <1>7, <1>13, <3>1, <3>2
  <2> DEFINE D == Date(yr, m, d)
             L == Leaps(y)
             M == MonthStart(m)
  <2>4. DayNumber(D) = 365 * (yr - 1970) + L - 477 + M + 0 + d - 1
    <3>1. ~ (m > 2)
      BY <1>7, <1>13
    <3>2. D.year = yr /\ D.month = m /\ D.day = d
      BY DEF Date
    <3>3. Leaps(D.year - 1) = L /\ MonthStart(D.month) = M
      BY <2>2, <3>2
    <3> HIDE DEF D, L, M
    <3> QED BY <1>12, <3>1, <3>2, <3>3 DEF DayNumber
  <2>5. M \in Int /\ M + d - 1 = doy - 306
    BY <1>7, <1>13 DEF MonthStart
  <2>6. L = 24 * c + q + 97 * era
    BY <1>9
  <2> HIDE DEF L, M, D
  <2>7. DayNumber(D) = days
    BY <1>1, <1>3, <1>5, <1>7, <1>8, <1>9, <1>11, <2>2, <2>4, <2>5, <2>6
  <2> QED BY <2>1, <2>3, <2>7 DEF D
<1>14. CASE m > 2
  <2>1. CivilFromDays(days) = Date(y, m, d)
    BY <1>2, <1>7, <1>8, <1>14
  <2>2. IsDate(Date(y, m, d))
    <3>1. MonthLength(y, m) = IF m \in {4, 6, 9, 11} THEN 30 ELSE 31
      BY <1>7, <1>14 DEF MonthLength
    <3>2. d \in 1 .. MonthLength(y, m)
      BY <1>7, <3>1
    <3> QED BY <1>7, <3>2 DEF IsDate, Date
  <2> DEFINE L == Leaps(y - 1)
             M == MonthStart(m)
             E == IF Leap(y) THEN 1 ELSE 0
  <2>3. DayNumber(Date(y, m, d)) = 365 * (y - 1970) + L - 477 + M + E + d - 1
    BY <1>12, <1>14 DEF DayNumber, Date
  <2>4. Leaps(y) = L + E
    BY <1>8, LeapsStep
  <2>5. L \in Int /\ E \in Int
    BY <1>8 DEF Leaps
  <2>6. M \in Int /\ M + d - 1 = doy + 59
    BY <1>7, <1>14 DEF MonthStart
  <2> HIDE DEF L, M, E
  <2>7. DayNumber(Date(y, m, d)) = 365 * (y - 1970) + Leaps(y) - 477 + doy + 59
    BY <1>5, <1>7, <1>8, <2>3, <2>4, <2>5, <2>6
  <2> QED BY <1>1, <1>3, <1>5, <1>8, <1>9, <1>11, <2>1, <2>2, <2>7
<1> QED BY <1>7, <1>13, <1>14

\* And every second of it has its hour, minute and second.
THEOREM TimestampNames ==
  ASSUME NEW days \in Nat, NEW secs \in Nat, secs <= 86399
  PROVE  Names(Timestamp(days, secs), days, secs)
<1> DEFINE h == secs \div 3600
           mi == (secs % 3600) \div 60
           s == secs % 60
<1>1. h \in 0 .. 23 /\ mi \in 0 .. 59 /\ s \in 0 .. 59 /\ h * 3600 + mi * 60 + s = secs
  OBVIOUS
<1>2. Timestamp(days, secs) = [date |-> CivilFromDays(days), h |-> h, m |-> mi, s |-> s]
  BY DEF Timestamp
<1> HIDE DEF h, mi, s
<1> QED BY <1>1, <1>2, DateOfDay DEF Names

-----------------------------------------------------------------------------
\* The archives still to be expanded, and the members inserted into the tree.
Waiting == {c[1] : c \in todo}

Inserted(x) == {w \in Writers(x) : w[1] \notin Waiting}

\* w is the last member of its archive among W.
LastOf(w, W) == \A u \in W : u[1] = w[1] => u[2] <= w[2]

FactsOf(w) == Members[image[w[1]]][w[2]].facts

\* The tree is the image with the members inserted so far laid over it.
LaidOver ==
  \A x \in Path :
    IF Inserted(x) = {} THEN tree[x] = image[x]
    ELSE \E w \in Inserted(x) : tree[x] = FactsOf(w) /\ LastOf(w, Inserted(x))

\* The document says what was found, and bears the stamp of the clock.
DocumentIsTrue ==
  /\ stage = "reported"
  /\ pc = "done"
  /\ clock \in Clock
  /\ sbom = [entries |-> {Entry(c) : c \in components},
             stamp |-> Timestamp(clock[1], clock[2])]

ScanIInv ==
  /\ IInv
  /\ image \in ImageTrees
  /\ stage \in {"extracted", "expanding", "analyzing", "reported"}
  /\ clock \in Clock \cup {None}
  /\ \A c \in todo : c[1] \in Archives /\ c = <<c[1], image[c[1]]>>
  /\ stage # "expanding" => todo = {}
  /\ stage \in {"extracted", "expanding"} => NothingFound
  /\ IF stage = "extracted" THEN tree = image ELSE LaidOver
  /\ sbom # None => DocumentIsTrue

\* The reconcile command takes the steps of the scan command, and steps of its
\* own that touch neither the tree nor the inventory.
THEOREM ReconcileScans == ReconcileSpec => ScanSpec
<1>1. ReconcileInit => ScanInit
  BY DEF ReconcileInit
<1>2. [ReconcileNext]_reconcileVars => [ScanNext]_scanVars
  <2>1. Inventory \/ WriteReport => ScanNext
    BY DEF Inventory, WriteReport, ScanNext
  <2>2. ParseManifest \/ NothingToCompare \/ Compare \/ UNCHANGED reconcileVars
          => UNCHANGED scanVars
    BY DEF ParseManifest, NothingToCompare, Compare, reconcileVars
  <2> QED
    BY <2>1, <2>2 DEF ReconcileNext
<1> QED
  BY <1>1, <1>2, PTL DEF ReconcileSpec, ScanSpec

\* Of some of the numbers up to n there is a largest one.
LEMMA Largest ==
  ASSUME NEW n \in Nat, NEW S \in SUBSET (1 .. n), S # {}
  PROVE  \E i \in S : \A j \in S : j <= i
<1> DEFINE T == {n - i : i \in S}
<1>1. T \subseteq Nat /\ T # {}
  <2>1. ASSUME NEW i \in S
        PROVE  n - i \in Nat
    <3>1. i \in 1 .. n
      OBVIOUS
    <3> QED
      BY <3>1
  <2> QED
    BY <2>1
<1>2. PICK m \in T : \A k \in T : ~(k < m)
  <2> HIDE DEF T
  <2> QED
    BY <1>1, Least
<1>3. PICK i \in S : m = n - i
  BY <1>2
<1>4. ASSUME NEW j \in S
      PROVE  j <= i
  <2>1. ~(n - j < n - i)
    BY <1>2, <1>3
  <2>2. i \in Nat /\ j \in Nat
    OBVIOUS
  <2> QED
    BY <2>1, <2>2
<1> QED
  BY <1>4

LEMMA ScanInitIInv == ScanInit => ScanIInv
<1> SUFFICES ASSUME ScanInit PROVE ScanIInv
  OBVIOUS
<1>1. IInv
  BY StartIInv, ScanAssumption DEF ScanInit, Fresh
<1> QED
  BY <1>1 DEF ScanInit, ScanIInv

LEMMA MembersOf ==
  ASSUME NEW f \in Nested
  PROVE  /\ Len(Members[f]) \in Nat /\ Len(Members[f]) <= MaxMembers
         /\ DOMAIN Members[f] = 1 .. Len(Members[f])
         /\ \A i \in DOMAIN Members[f] :
              Members[f][i].name \in MemberName /\ Members[f][i].facts \in Files
<1> DEFINE M == [name : MemberName, facts : Files \ {Absent}]
<1>1. Members[f] \in Seq(M) /\ Len(Members[f]) <= MaxMembers
  BY MembersAssumption
<1>2. \A m \in M : m.name \in MemberName /\ m.facts \in Files
  OBVIOUS
<1> HIDE DEF M
<1>3. /\ Len(Members[f]) \in Nat
      /\ DOMAIN Members[f] = 1 .. Len(Members[f])
      /\ \A i \in DOMAIN Members[f] : Members[f][i] \in M
  BY <1>1
<1> QED
  BY <1>1, <1>2, <1>3

\* What the step that expands archive c does at path x.
LEMMA ExpansionAt ==
  ASSUME ScanIInv, NEW c \in todo, ExpandArchive(c), NEW x \in Path
  PROVE  LET written == {w \in Writers(x) : w[1] = c[1]} IN
         /\ Inserted(x)' = Inserted(x) \cup written
         /\ written = {} => tree'[x] = tree[x]
         /\ written # {} => \E w \in written : tree'[x] = FactsOf(w) /\ LastOf(w, written)
         /\ tree'[x] \in Files
<1> DEFINE written == {w \in Writers(x) : w[1] = c[1]}
           f == image[c[1]]
           at == {i \in DOMAIN Members[f] : Target(c[1], Members[f][i]) = x}
<1>1. /\ c[1] \in Archives /\ c[2] = f /\ f \in Nested
      /\ image' = image /\ todo' = todo \ {c}
  BY DEF ScanIInv, Archives, ExpandArchive
<1>2. /\ Len(Members[f]) \in Nat /\ Len(Members[f]) <= MaxMembers
      /\ DOMAIN Members[f] = 1 .. Len(Members[f])
      /\ \A i \in DOMAIN Members[f] : Members[f][i].facts \in Files
  BY <1>1, MembersOf
<1>3. Writers(x)' = Writers(x)
  BY <1>1 DEF Writers, Archives
<1>4. Inserted(x)' = Inserted(x) \cup written
  <2>1. Waiting' = Waiting \ {c[1]} /\ c[1] \in Waiting
    BY <1>1 DEF Waiting, ScanIInv
  <2> QED
    BY <1>3, <2>1 DEF Inserted
<1>5. \A i : i \in at <=> <<c[1], i>> \in written
  <2> SUFFICES ASSUME NEW i
               PROVE  i \in at <=> <<c[1], i>> \in Writers(x)
    OBVIOUS
  <2>1. i \in DOMAIN Members[f] => i \in 1 .. MaxMembers
    BY <1>2, MembersAssumption
  <2>2. <<c[1], i>> \in Writers(x)
          <=> /\ i \in 1 .. MaxMembers /\ i \in DOMAIN Members[f]
              /\ Join[<<c[1], Members[f][i].name>>] = x
    BY <1>1 DEF Writers
  <2> QED
    BY <2>1, <2>2 DEF Target
<1>6. tree'[x] = IF at = {} THEN tree[x]
                ELSE Members[f][CHOOSE i \in at : \A j \in at : j <= i].facts
  BY <1>1 DEF ExpandArchive, Expanded
<1>7. CASE at = {}
  <2>1. written = {}
    BY <1>5, <1>7 DEF Writers
  <2> QED
    BY <1>4, <1>6, <1>7, <2>1 DEF ScanIInv, IInv, TypeOK
<1>8. CASE at # {}
  <2>1. PICK i \in at : (\A j \in at : j <= i) /\ tree'[x] = Members[f][i].facts
    <3>1. \E i \in at : \A j \in at : j <= i
      <4> HIDE DEF at
      <4>1. at \in SUBSET (1 .. Len(Members[f]))
        BY <1>2 DEF at
      <4> QED
        BY <1>2, <1>8, <4>1, Largest
    <3> QED
      BY <1>6, <1>8, <3>1
  <2>2. <<c[1], i>> \in written /\ FactsOf(<<c[1], i>>) = Members[f][i].facts
    BY <1>5, <2>1 DEF FactsOf
  <2>3. LastOf(<<c[1], i>>, written)
    <3> SUFFICES ASSUME NEW u \in written
                 PROVE  u[2] <= i
      BY DEF LastOf
    <3>1. u = <<c[1], u[2]>>
      BY DEF Writers
    <3> QED
      BY <1>5, <2>1, <3>1
  <2>4. tree'[x] \in Files
    BY <1>2, <2>1
  <2> QED
    BY <1>4, <2>1, <2>2, <2>3, <2>4
<1> QED
  BY <1>7, <1>8

\* Expanding one archive lays its members over the tree.
LEMMA ExpandKeepsLaidOver ==
  ASSUME ScanIInv, NEW c \in todo, ExpandArchive(c)
  PROVE  LaidOver' /\ tree' \in [Path -> Files]
<1>1. stage = "expanding" /\ image' = image
  BY DEF ExpandArchive
<1>2. LaidOver
  BY <1>1 DEF ScanIInv
<1>3. ASSUME NEW x \in Path
      PROVE  IF Inserted(x)' = {} THEN tree'[x] = image[x]
             ELSE \E w \in Inserted(x)' : tree'[x] = FactsOf(w) /\ LastOf(w, Inserted(x)')
  <2> DEFINE written == {w \in Writers(x) : w[1] = c[1]}
  <2>1. Inserted(x)' = Inserted(x) \cup written
    BY ExpansionAt
  <2>2. \A w \in Inserted(x) : w[1] # c[1]
    BY DEF Inserted, Waiting
  <2>3. CASE written = {}
    <3>1. tree'[x] = tree[x]
      BY <2>3, ExpansionAt
    <3> QED
      BY <1>2, <2>1, <2>3, <3>1 DEF LaidOver
  <2>4. CASE written # {}
    <3>1. PICK w \in written : tree'[x] = FactsOf(w) /\ LastOf(w, written)
      BY <2>4, ExpansionAt
    <3>2. LastOf(w, Inserted(x)')
      BY <2>1, <2>2, <3>1 DEF LastOf
    <3> QED
      BY <2>1, <3>1, <3>2
  <2> QED
    BY <2>3, <2>4
<1>4. LaidOver'
  BY <1>1, <1>3 DEF LaidOver, FactsOf
<1>5. tree' \in [Path -> Files]
  <2>1. tree' = [x \in Path |-> tree'[x]]
    BY DEF ExpandArchive, Expanded
  <2>2. \A x \in Path : tree'[x] \in Files
    BY ExpansionAt
  <2> QED
    BY <2>1, <2>2
<1> QED
  BY <1>4, <1>5

LEMMA SameLaidOver ==
  ASSUME LaidOver, UNCHANGED <<tree, image, todo>>
  PROVE  LaidOver'
<1>1. \A x : Inserted(x)' = Inserted(x)
  BY DEF Inserted, Waiting, Writers, Archives
<1>2. \A w : FactsOf(w)' = FactsOf(w)
  BY DEF FactsOf
<1> QED
  BY <1>1, <1>2 DEF LaidOver, LastOf

LEMMA ScanNextIInv == ScanIInv /\ [ScanNext]_scanVars => ScanIInv'
<1> SUFFICES ASSUME ScanIInv, [ScanNext]_scanVars PROVE ScanIInv'
  OBVIOUS
<1>1. CASE CollectArchives
  <2>1. /\ stage = "extracted" /\ stage' = "expanding" /\ todo' = Candidates
        /\ UNCHANGED <<vars, image, clock, sbom>> /\ tree = image
    BY <1>1 DEF CollectArchives, output, Analyzer, vars, ScanIInv
  <2>2. IInv' /\ NothingFound'
    <3>1. IInv'
      BY <2>1, NextIInv DEF ScanIInv
    <3> QED
      BY <2>1, <3>1 DEF ScanIInv, NothingFound, vars
  <2>3. \A c \in todo' : c[1] \in Archives /\ c = <<c[1], image[c[1]]>>
    BY <2>1 DEF Candidates, Archives
  <2>4. ASSUME NEW p \in Archives
        PROVE  p \in Waiting'
    <3>1. <<p, tree[p]>> \in todo' /\ <<p, tree[p]>>[1] = p
      BY <2>1 DEF Candidates, Archives
    <3> QED
      BY <3>1 DEF Waiting
  <2>5. LaidOver'
    <3>1. \A x \in Path : Inserted(x)' = {}
      BY <2>1, <2>4 DEF Inserted, Writers, Archives
    <3> QED
      BY <2>1, <3>1 DEF LaidOver, vars
  <2> QED
    BY <2>1, <2>2, <2>3, <2>5 DEF ScanIInv, Archives, DocumentIsTrue
<1>2. ASSUME NEW c \in todo, ExpandArchive(c)
      PROVE  ScanIInv'
  <2>1. /\ stage = "expanding" /\ stage' = stage /\ todo' = todo \ {c}
        /\ UNCHANGED <<next, versions, evidence, components, pc, image, clock, sbom>>
    BY <1>2 DEF ExpandArchive, output, Analyzer
  <2>2. NothingFound /\ NothingFound'
    BY <2>1 DEF ScanIInv, NothingFound
  <2>3. IInv'
    <3>1. Fresh'
      BY <1>2, <2>2, ExpandKeepsLaidOver DEF Fresh
    <3> QED
      BY <3>1, StartIInv, PTL
  <2> QED
    BY <1>2, <2>1, <2>2, <2>3, ExpandKeepsLaidOver DEF ScanIInv, Archives, DocumentIsTrue
<1>3. CASE BeginAnalysis
  <2>1. /\ stage = "expanding" /\ stage' = "analyzing" /\ todo = {}
        /\ UNCHANGED <<vars, image, todo, clock, sbom>>
    BY <1>3 DEF BeginAnalysis, output, Analyzer, vars
  <2>2. IInv'
    BY <2>1, NextIInv DEF ScanIInv
  <2>3. LaidOver'
    BY <2>1, SameLaidOver DEF ScanIInv, vars
  <2> QED
    BY <2>1, <2>2, <2>3 DEF ScanIInv, Archives, DocumentIsTrue
<1>4. CASE Analyze
  <2>1. /\ stage = "analyzing" /\ Next
        /\ UNCHANGED <<image, todo, stage, clock, sbom>>
    BY <1>4 DEF Analyze, output
  <2>2. IInv'
    BY <2>1, NextIInv DEF ScanIInv
  <2>3. tree' = tree
    BY <2>1 DEF Next, SkipUnnamed, ReadDatabase, ReadPackage, ReadUnclassified,
                ReadClassified, BuildComponents, Read
  <2>4. LaidOver'
    BY <2>1, <2>3, SameLaidOver DEF ScanIInv
  <2> QED
    BY <2>1, <2>2, <2>4 DEF ScanIInv, Archives, DocumentIsTrue
<1>5. ASSUME NEW now \in Clock, Report(now)
      PROVE  ScanIInv'
  <2>1. /\ stage = "analyzing" /\ stage' = "reported" /\ pc = "done" /\ clock' = now
        /\ sbom' = [entries |-> {Entry(c) : c \in components},
                    stamp |-> Timestamp(now[1], now[2])]
        /\ UNCHANGED <<vars, image, todo>>
    BY <1>5 DEF Report, Analyzer, vars
  <2>2. IInv'
    BY <2>1, NextIInv DEF ScanIInv
  <2>3. LaidOver'
    BY <2>1, SameLaidOver DEF ScanIInv, vars
  <2>4. DocumentIsTrue'
    BY <2>1 DEF DocumentIsTrue, vars
  <2> QED
    BY <2>1, <2>2, <2>3, <2>4 DEF ScanIInv, Archives
<1>6. CASE UNCHANGED scanVars
  <2>1. UNCHANGED <<vars, image, todo, stage, clock, sbom>>
    BY <1>6 DEF scanVars
  <2>2. IInv'
    BY <2>1, NextIInv DEF ScanIInv
  <2>3. LaidOver => LaidOver'
    BY <2>1, SameLaidOver DEF vars
  <2>4. NothingFound' <=> NothingFound
    BY <2>1 DEF NothingFound, vars
  <2>5. DocumentIsTrue' <=> DocumentIsTrue
    BY <2>1 DEF DocumentIsTrue, vars
  <2> QED
    BY <2>1, <2>2, <2>3, <2>4, <2>5 DEF ScanIInv, Archives, vars
<1> QED
  BY <1>1, <1>2, <1>3, <1>4, <1>5, <1>6 DEF ScanNext, TakeInventory

\* The scan command keeps the invariant, from the extracted tree to the report.
THEOREM ScanInvariant == ScanSpec => []ScanIInv
BY ScanInitIInv, ScanNextIInv, PTL DEF ScanSpec

-----------------------------------------------------------------------------
\* What the analyzer reads is the image with the members of all archives laid
\* over it, in whatever order expand_nested takes them.
THEOREM ExpansionLaysOver == ScanSpec => []ExpansionIsOverlay
<1>1. ScanIInv => ExpansionIsOverlay
  <2> SUFFICES ASSUME ScanIInv, stage = "analyzing", NEW x \in Path
               PROVE  IF Writers(x) = {} THEN tree[x] = image[x]
                      ELSE \E w \in Writers(x) :
                             /\ tree[x] = Members[image[w[1]]][w[2]].facts
                             /\ \A u \in Writers(x) : u[1] = w[1] => u[2] <= w[2]
    BY DEF ExpansionIsOverlay
  <2>1. Inserted(x) = Writers(x)
    BY DEF ScanIInv, Inserted, Waiting
  <2>2. LaidOver
    BY DEF ScanIInv
  <2> QED
    BY <2>1, <2>2 DEF LaidOver, FactsOf, LastOf
<1> QED
  BY <1>1, ScanInvariant, PTL

\* The stamp of the document names the moment the clock showed, for every set of
\* clock readings: civil_from_days and timestamp are right from 1970 on.
THEOREM StampsAreDates == ScanSpec => []StampIsDate
<1>1. ScanIInv => StampIsDate
  <2> SUFFICES ASSUME ScanIInv, sbom # None PROVE Names(sbom.stamp, clock[1], clock[2])
    BY DEF StampIsDate
  <2>1. clock \in Clock /\ sbom.stamp = Timestamp(clock[1], clock[2])
    BY DEF ScanIInv, DocumentIsTrue
  <2>2. clock[1] \in Nat /\ clock[2] \in Nat /\ clock[2] <= 86399
    BY <2>1, ClockAssumption
  <2> QED
    BY <2>1, <2>2, TimestampNames
<1> QED
  BY <1>1, ScanInvariant, PTL

\* A version that is reported is cited from a file that shows it.
LEMMA ReportedIsShown ==
  ASSUME IInv, NEW c \in components, c.version # None
  PROVE  \E e \in c.evidence :
           e.path \in Path /\ Shows(tree[e.path], c.project, c.version)
<1>1. /\ c.project \in Project
      /\ c.version \in Survivors(c.project)
      /\ c = Versioned(c.project, c.version)
  BY ComponentShape DEF Unversioned
<1>2. c.version \in Version /\ versions[c.project][c.version] # {}
  BY <1>1, SurvivorFacts
<1>3. PICK p \in versions[c.project][c.version] : TRUE
  BY <1>2
<1>4. p \in Path /\ Shows(tree[p], c.project, c.version)
  BY <1>1, <1>2, VersionsAreShown
<1>5. PICK e \in evidence[c.project] : e.path = p /\ e.value = c.version
  BY <1>1, <1>2, <1>3, <1>4 DEF IInv, VersionsMatchEvidence
<1>6. e \in EvidenceOf(c.project, c.version)
  BY <1>5 DEF EvidenceOf
<1>7. c.evidence = EvidenceOf(c.project, c.version)
  BY <1>1 DEF Versioned
<1> QED
  BY <1>4, <1>5, <1>6, <1>7

LEMMA EntryTypes ==
  ASSUME TypeOK, NEW c \in components
  PROVE  Entry(c) \in SbomEntry
<1>1. /\ c.project \in Project /\ c.version \in Version \cup {None}
      /\ c.evidence \subseteq Evidence
  BY DEF TypeOK, Component
<1>2. \A e \in c.evidence : e \in Evidence /\ e.path \in Path
  BY <1>1 DEF Evidence
<1>3. \A kind : Technique(kind) \in {"manifest-analysis", "filename", "binary-analysis"}
  BY DEF Technique
<1> QED
  BY <1>1, <1>2, <1>3 DEF Entry, SbomEntry

\* Every version of the document is shown by a file among the locations of its
\* entry, although the evidence was filtered and the table collapsed.
THEOREM VersionsAreAtTheirLocations == ScanSpec => []VersionsAreLocated
<1>1. ScanIInv => ScanTypeOK
  <2> SUFFICES ASSUME ScanIInv PROVE ScanTypeOK
    OBVIOUS
  <2>1. todo \subseteq Path \X Nested
    BY DEF ScanIInv, Archives
  <2>2. sbom # None =>
          /\ stage = "reported" /\ clock # None
          /\ sbom.entries \subseteq SbomEntry
    <3> SUFFICES ASSUME sbom # None
                 PROVE  /\ stage = "reported" /\ clock # None
                        /\ sbom.entries \subseteq SbomEntry
      OBVIOUS
    <3>1. sbom.entries = {Entry(c) : c \in components}
      BY DEF ScanIInv, DocumentIsTrue
    <3>2. \A c \in components : Entry(c) \in SbomEntry
      BY EntryTypes DEF ScanIInv, IInv
    <3>3. stage = "reported" /\ clock # None
      BY ClockAssumption DEF ScanIInv, DocumentIsTrue
    <3> QED
      BY <3>1, <3>2, <3>3
  <2> QED
    BY <2>1, <2>2 DEF ScanIInv, IInv, ScanTypeOK
<1>2. ScanIInv /\ sbom # None =>
        \A e \in sbom.entries :
          e.version # None => \E p \in e.occurrences : Shows(tree[p], e.name, e.version)
  <2> SUFFICES ASSUME ScanIInv, sbom # None, NEW c \in components, c.version # None
               PROVE  \E p \in Entry(c).occurrences :
                        Shows(tree[p], Entry(c).name, Entry(c).version)
    <3>1. ScanIInv /\ sbom # None => sbom.entries = {Entry(c) : c \in components}
      BY DEF ScanIInv, DocumentIsTrue
    <3> QED
      BY <3>1 DEF Entry
  <2>1. PICK e \in c.evidence : Shows(tree[e.path], c.project, c.version)
    BY ReportedIsShown DEF ScanIInv
  <2> QED
    BY <2>1 DEF Entry
<1>3. ScanIInv => VersionsAreLocated
  BY <1>1, <1>2 DEF VersionsAreLocated
<1> QED
  BY <1>3, ScanInvariant, PTL

\* A release that was seen keeps a version, unless a file shows two.
LEMMA SeenIsReported ==
  ASSUME IInv, pc = "done", NEW q \in Project, NEW v \in Seen(q)
  PROVE  \E c \in components :
           /\ c.project = q
           /\ \/ c.version # None /\ <<c.version, v>> \in StartsWith
              \/ c.version = None /\ ShowsTwo(c.project)
<1>1. evidence[q] # {}
  BY DEF IInv, TypeOK, VersionsMatchEvidence, Seen
<1>2. ComponentsOf(q) \subseteq components
  BY <1>1 DEF IInv, Built
<1>3. PICK s \in Survivors(q) : <<s, v>> \in StartsWith
  BY SurvivorExists
<1>4. CASE Contradictory(q)
  <2>1. PICK a, b \in Survivors(q) :
          versions[q][a] \cap versions[q][b] # {} /\ ~Refines(a, b)
    BY <1>4 DEF Contradictory
  <2>2. a \in Version /\ b \in Version
    BY SurvivorFacts
  <2>3. PICK p : p \in versions[q][a] /\ p \in versions[q][b]
    BY <2>1
  <2>4. p \in Path /\ Shows(tree[p], q, a) /\ Shows(tree[p], q, b)
    BY <2>2, <2>3, VersionsAreShown
  <2>5. ShowsTwo(q)
    BY <2>1, <2>2, <2>4 DEF ShowsTwo
  <2>6. Unversioned(q) \in components
    BY <1>2, <1>4 DEF ComponentsOf
  <2>7. Unversioned(q).project = q /\ Unversioned(q).version = None
    BY DEF Unversioned
  <2> QED
    BY <2>5, <2>6, <2>7
<1>5. CASE ~Contradictory(q)
  <2>1. Versioned(q, s) \in components
    BY <1>2, <1>3, <1>5 DEF ComponentsOf
  <2>2. Versioned(q, s).project = q /\ Versioned(q, s).version = s
    BY DEF Versioned
  <2>3. s # None
    BY <1>3, SurvivorFacts, FilesAssumption
  <2> QED
    BY <1>3, <2>1, <2>2, <2>3
<1> QED
  BY <1>4, <1>5

\* A release that the build paths of a nested binary name is in the report, with
\* its version unless one file shows two.
THEOREM NestedReleasesAreReported == ScanSpec => []NestedReleasesReported
<1>1. ScanIInv => NestedReleasesReported
  <2> SUFFICES ASSUME ScanIInv, pc = "done", NEW x \in Path, NEW w \in Writers(x),
                      Writers(x) = {w}, Plain(FactsOf(w)), ~FactsOf(w).text,
                      NEW b \in FactsOf(w).paths, ~b.cargo, b.name \in Curated \ Skip
               PROVE  \E c \in components :
                        /\ c.project = CProject(b.name)
                        /\ \/ c.version # None /\ <<c.version, b.version>> \in StartsWith
                           \/ c.version = None /\ ShowsTwo(c.project)
    BY DEF NestedReleasesReported, FactsOf
  <2> DEFINE s == Sighting(CProject(b.name), "BuildPath", b.version)
  <2>1. tree[x] = FactsOf(w)
    <3>1. LaidOver /\ todo = {}
      BY DEF ScanIInv, NothingFound
    <3>2. Inserted(x) = Writers(x)
      BY <3>1 DEF Inserted, Waiting
    <3> QED
      BY <3>1, <3>2 DEF LaidOver
  <2>2. IInv /\ next = NumPaths + 1 /\ x < next
    BY PathsAssumption DEF ScanIInv, IInv, Path
  <2>3. s \in Yield(tree[x])
    <3>1. s \in MinedSightings(tree[x])
      BY <2>1 DEF MinedSightings, MinedPaths, MinedProject
    <3> QED
      BY <2>1, <3>1 DEF Yield, Plain
  <2>4. s.project = CProject(b.name) /\ s.value = b.version
    BY DEF Sighting
  <2>5. CProject(b.name) \in Project /\ b.version \in Version
    <3>1. tree[x] \in FileFacts
      BY <2>2, CurrentFile DEF IInv
    <3> QED
      BY <2>1, <3>1 DEF FileFacts, CProject, Project
  <2>6. x \in versions[CProject(b.name)][b.version]
    <3>1. Cite(s, x) \in evidence[CProject(b.name)]
      BY <2>2, <2>3, <2>4, YieldIsCited
    <3>2. Cite(s, x).path = x /\ Cite(s, x).value = b.version
      BY <2>4 DEF Cite
    <3> QED
      BY <2>2, <2>5, <3>1, <3>2 DEF IInv, VersionsMatchEvidence
  <2>7. b.version \in Seen(CProject(b.name))
    BY <2>5, <2>6 DEF Seen
  <2> QED
    BY <2>2, <2>5, <2>7, SeenIsReported
<1> QED
  BY <1>1, ScanInvariant, PTL

-----------------------------------------------------------------------------
\* Induction, over a set instead of a formula.
LEMMA EveryNumber ==
  ASSUME NEW S, 0 \in S, \A n \in Nat : n \in S => n + 1 \in S
  PROVE  Nat \subseteq S
<1> SUFFICES ASSUME Nat \ S # {}
             PROVE  FALSE
  OBVIOUS
<1>1. PICK n \in Nat \ S : \A m \in Nat \ S : ~(m < n)
  BY Least
<1>2. n # 0 /\ n - 1 \in Nat /\ n - 1 < n
  BY <1>1
<1>3. n - 1 + 1 \in S
  BY <1>1, <1>2
<1> QED
  BY <1>1, <1>2, <1>3

\* The lists after i entries, from those after one entry less.
ListsStep(lists, i) ==
  IF i = 0 THEN [corroborated |-> <<>>, uncorroborated |-> <<>>]
  ELSE Listed(lists[i - 1], declared[i])

LEMMA ListsDefined ==
  ASSUME NEW N \in Nat
  PROVE  \E l : l = [i \in 0 .. N |-> ListsStep(l, i)]
<1> DEFINE S == {n \in Nat : \E l : l = [i \in 0 .. n |-> ListsStep(l, i)]}
<1>1. 0 \in S
  <2> DEFINE l == [i \in 0 .. 0 |-> [corroborated |-> <<>>, uncorroborated |-> <<>>]]
  <2>1. l = [i \in 0 .. 0 |-> ListsStep(l, i)]
    BY DEF ListsStep
  <2> QED
    BY <2>1
<1>2. ASSUME NEW n \in Nat, n \in S
      PROVE  n + 1 \in S
  <2>1. PICK l : l = [i \in 0 .. n |-> ListsStep(l, i)]
    BY <1>2
  <2> DEFINE g == [i \in 0 .. n + 1 |-> IF i = n + 1 THEN ListsStep(l, i) ELSE l[i]]
  <2>2. ASSUME NEW i \in 0 .. n + 1
        PROVE  g[i] = ListsStep(g, i)
    <3>1. CASE i = 0
      BY <2>1, <3>1 DEF ListsStep
    <3>2. CASE i # 0
      <4>1. i - 1 \in 0 .. n /\ g[i - 1] = l[i - 1]
        BY <3>2
      <4>2. ListsStep(g, i) = ListsStep(l, i)
        <5> HIDE DEF g
        <5> QED
          BY <4>1, <3>2 DEF ListsStep
      <4> QED
        BY <4>2, <2>1
    <3> QED
      BY <3>1, <3>2
  <2>3. g = [i \in 0 .. n + 1 |-> ListsStep(g, i)]
    BY <2>2
  <2> HIDE DEF g
  <2>4. \E h : h = [i \in 0 .. n + 1 |-> ListsStep(h, i)]
    BY <2>3
  <2> QED
    BY <2>4
<1> HIDE DEF S
<1>3. Nat \subseteq S
  BY <1>1, <1>2, EveryNumber
<1> QED
  BY <1>3 DEF S

Corroborations == {Corroborated(declared[i]) : i \in {k \in DOMAIN declared : Matched(declared[k])}}

Unmatched == {declared[i] : i \in {k \in DOMAIN declared : ~Matched(declared[k])}}

\* Two lists that hold n entries.
AreLists(l, n) ==
  /\ l \in [corroborated : Seq(Corroborations), uncorroborated : Seq(Unmatched)]
  /\ Len(l.corroborated) + Len(l.uncorroborated) = n

LEMMA PairOfLists ==
  ASSUME NEW n, NEW a \in Seq(Corroborations), NEW b \in Seq(Unmatched), Len(a) + Len(b) = n
  PROVE  AreLists([corroborated |-> a, uncorroborated |-> b], n)
BY DEF AreLists

\* An entry goes to the end of one list.
LEMMA EntryIsListed ==
  ASSUME NEW n \in Nat, NEW l, AreLists(l, n), NEW entry,
         Matched(entry) => Corroborated(entry) \in Corroborations,
         ~Matched(entry) => entry \in Unmatched
  PROVE  AreLists(Listed(l, entry), n + 1)
<1>1. PICK a \in Seq(Corroborations), b \in Seq(Unmatched) :
        /\ l = [corroborated |-> a, uncorroborated |-> b]
        /\ Len(a) + Len(b) = n
  BY DEF AreLists
<1>2. Len(a) \in Nat /\ Len(b) \in Nat
  BY <1>1
<1>3. CASE Matched(entry)
  <2> DEFINE x == Corroborated(entry)
  <2>1. x \in Corroborations
    BY <1>3
  <2>2. Listed(l, entry) = [l EXCEPT !.corroborated = Append(@, x)]
    BY <1>3 DEF Listed
  <2> HIDE DEF x
  <2>3. Listed(l, entry) = [corroborated |-> Append(a, x), uncorroborated |-> b]
    BY <1>1, <2>2
  <2>4. Append(a, x) \in Seq(Corroborations) /\ Len(Append(a, x)) = Len(a) + 1
    BY <1>1, <2>1
  <2>5. Len(Append(a, x)) + Len(b) = n + 1
    BY <1>1, <1>2, <2>4
  <2> QED
    BY <1>1, <2>3, <2>4, <2>5, PairOfLists
<1>4. CASE ~Matched(entry)
  <2>1. entry \in Unmatched
    BY <1>4
  <2>2. Listed(l, entry) = [l EXCEPT !.uncorroborated = Append(@, entry)]
    BY <1>4 DEF Listed
  <2>3. Listed(l, entry) = [corroborated |-> a, uncorroborated |-> Append(b, entry)]
    BY <1>1, <2>2
  <2>4. Append(b, entry) \in Seq(Unmatched) /\ Len(Append(b, entry)) = Len(b) + 1
    BY <1>1, <2>1
  <2>5. Len(a) + Len(Append(b, entry)) = n + 1
    BY <1>1, <1>2, <2>4
  <2> QED
    BY <1>1, <2>3, <2>4, <2>5, PairOfLists
<1> QED
  BY <1>3, <1>4

\* Every entry of the manifest is in one of the lists.
LEMMA ListsHoldEntries ==
  ASSUME Len(declared) \in Nat, DOMAIN declared = 1 .. Len(declared)
  PROVE  AreLists(Lists, Len(declared))
<1> DEFINE N == Len(declared)
           l == CHOOSE f : f = [i \in 0 .. N |->
                  IF i = 0 THEN [corroborated |-> <<>>, uncorroborated |-> <<>>]
                  ELSE Listed(f[i - 1], declared[i])]
<1>1. Lists = l[N]
  BY DEF Lists
<1>2. l = [i \in 0 .. N |-> ListsStep(l, i)]
  <2>1. \E f : f = [i \in 0 .. N |->
                  IF i = 0 THEN [corroborated |-> <<>>, uncorroborated |-> <<>>]
                  ELSE Listed(f[i - 1], declared[i])]
    BY ListsDefined DEF ListsStep
  <2> QED
    BY <2>1 DEF ListsStep
<1> HIDE DEF l
<1> DEFINE S == {i \in Nat : i <= N => AreLists(l[i], i)}
<1>3. 0 \in S
  <2>1. l[0] = [corroborated |-> <<>>, uncorroborated |-> <<>>]
    BY <1>2 DEF ListsStep
  <2>2. AreLists([corroborated |-> <<>>, uncorroborated |-> <<>>], 0)
    BY DEF AreLists
  <2> QED
    BY <2>1, <2>2
<1>4. ASSUME NEW i \in Nat, i \in S
      PROVE  i + 1 \in S
  <2> SUFFICES ASSUME i + 1 <= N
               PROVE  AreLists(l[i + 1], i + 1)
    OBVIOUS
  <2>1. AreLists(l[i], i) /\ i + 1 \in DOMAIN declared
    BY <1>4
  <2>2. l[i + 1] = Listed(l[i], declared[i + 1])
    BY <1>2 DEF ListsStep
  <2>3. /\ Matched(declared[i + 1]) => Corroborated(declared[i + 1]) \in Corroborations
        /\ ~Matched(declared[i + 1]) => declared[i + 1] \in Unmatched
    BY <2>1 DEF Corroborations, Unmatched
  <2> QED
    BY <2>1, <2>2, <2>3, EntryIsListed
<1>5. Nat \subseteq S
  <2> HIDE DEF S
  <2> QED
    BY <1>3, <1>4, EveryNumber
<1> QED
  BY <1>1, <1>5
-----------------------------------------------------------------------------
\* What a manifest declares: a list of projects and releases.
Entries ==
  /\ Len(declared) \in Nat /\ DOMAIN declared = 1 .. Len(declared)
  /\ \A i \in DOMAIN declared :
       /\ declared[i].project \in Project
       /\ declared[i].version = NotGiven \/ declared[i].version \in Seq(ToSet(declared[i].version))

\* The lists of the comparison hold the entries of the manifest, each judged by
\* the components found.
ListsHeld ==
  /\ corroborated \in Seq(Corroborations)
  /\ uncorroborated \in Seq(Unmatched)
  /\ Len(corroborated) + Len(uncorroborated) = Len(declared)

ReconcileIInv ==
  /\ manifest \in Manifests \cup {None}
  /\ Entries
  /\ phase = "parsing" => manifest # None
  /\ IF manifest = None \/ phase = "parsing" THEN declared = <<>>
     ELSE declared = Parse(manifest)
  /\ phase = "compared" => manifest # None /\ pc = "done" /\ ListsHeld

LEMMA ParsedEntries ==
  ASSUME NEW text \in Manifests
  PROVE  /\ Len(Parse(text)) \in Nat /\ DOMAIN Parse(text) = 1 .. Len(Parse(text))
         /\ \A i \in DOMAIN Parse(text) :
              /\ Parse(text)[i].project \in Project
              /\ \/ Parse(text)[i].version = NotGiven
                 \/ Parse(text)[i].version \in Seq(ToSet(Parse(text)[i].version))
<1> DEFINE claims == ManifestClaims(text)
<1>1. /\ claims \in Seq(ToSet(claims))
      /\ \A claim \in ToSet(claims) :
           claim[1] \in Lib /\ (claim[2] = NotGiven \/ claim[2] \in Seq(ToSet(claim[2])))
  BY ReconcileAssumption
<1>2. Parse(text) = [i \in DOMAIN claims |-> Declared(claims[i])]
  BY DEF Parse
<1> HIDE DEF claims
<1>3. Len(claims) \in Nat /\ DOMAIN claims = 1 .. Len(claims)
  BY <1>1
<1>4. Len(Parse(text)) = Len(claims)
  BY <1>2, <1>3
<1>5. ASSUME NEW i \in DOMAIN claims
      PROVE  /\ Declared(claims[i]).project \in Project
             /\ \/ Declared(claims[i]).version = NotGiven
                \/ Declared(claims[i]).version \in Seq(ToSet(Declared(claims[i]).version))
  <2>1. claims[i] \in ToSet(claims)
    BY DEF ToSet
  <2>2. NormalizePkg[Lower[claims[i][1]]] \in Lib
    BY <1>1, <2>1, FilesAssumption, LowerAssumption
  <2>3. Declared(claims[i]).project = <<"lib", NormalizePkg[Lower[claims[i][1]]]>>
    BY DEF Declared, CProject
  <2>4. Declared(claims[i]).version = claims[i][2]
    BY DEF Declared
  <2> QED
    BY <1>1, <2>1, <2>2, <2>3, <2>4 DEF Project
<1> QED
  BY <1>2, <1>3, <1>4, <1>5

LEMMA SameLists ==
  ASSUME UNCHANGED <<components, declared>>
  PROVE  Corroborations' = Corroborations /\ Unmatched' = Unmatched
<1>1. \A q : Found(q)' = Found(q)
  BY DEF Found
<1>2. \A q : Observed(q)' = Observed(q)
  BY <1>1 DEF Observed
<1>3. \A i : Corroborated(declared[i])' = Corroborated(declared[i])
  BY <1>1, <1>2 DEF Corroborated, Agrees
<1>4. \A i : Matched(declared[i])' = Matched(declared[i])
  BY <1>1 DEF Matched
<1> QED
  BY <1>3, <1>4 DEF Corroborations, Unmatched

LEMMA ReconcileInitIInv == ReconcileInit => ReconcileIInv
BY DEF ReconcileInit, ReconcileIInv, Entries

LEMMA ReconcileNextIInv ==
  ReconcileIInv /\ [ReconcileNext]_reconcileVars => ReconcileIInv'
<1> SUFFICES ASSUME ReconcileIInv, [ReconcileNext]_reconcileVars
             PROVE  ReconcileIInv'
  OBVIOUS
<1>1. CASE ParseManifest
  <2>1. /\ manifest' = manifest /\ declared' = Parse(manifest)
        /\ phase = "parsing" /\ phase' \notin {"compared", "parsing"}
    BY <1>1 DEF ParseManifest
  <2>2. manifest \in Manifests
    BY <2>1 DEF ReconcileIInv
  <2> QED
    BY <2>1, <2>2, ParsedEntries DEF ReconcileIInv, Entries
<1>2. CASE NothingToCompare \/ Inventory \/ WriteReport
  <2>1. /\ manifest' = manifest /\ declared' = declared
        /\ phase # "parsing" /\ phase' # "parsing"
        /\ phase' = "compared" => phase = "compared" /\ manifest = None
    BY <1>2 DEF NothingToCompare, Inventory, WriteReport, ReconcileIInv
  <2> QED
    BY <2>1 DEF ReconcileIInv, Entries
<1>3. CASE Compare
  <2>1. /\ manifest' = manifest /\ manifest # None /\ pc = "done"
        /\ corroborated' = Lists.corroborated /\ uncorroborated' = Lists.uncorroborated
        /\ phase = "inventory" /\ phase' = "compared"
        /\ UNCHANGED <<components, declared, pc>>
    BY <1>3 DEF Compare, scanVars, vars
  <2>2. AreLists(Lists, Len(declared))
    BY ListsHoldEntries DEF ReconcileIInv, Entries
  <2>3. /\ Lists.corroborated \in Seq(Corroborations)
        /\ Lists.uncorroborated \in Seq(Unmatched)
        /\ Len(Lists.corroborated) + Len(Lists.uncorroborated) = Len(declared)
    BY <2>2 DEF AreLists
  <2>4. ListsHeld'
    BY <2>1, <2>3, SameLists DEF ListsHeld
  <2> QED
    BY <2>1, <2>4 DEF ReconcileIInv, Entries
<1>4. CASE UNCHANGED reconcileVars
  <2>1. UNCHANGED <<components, declared, pc, manifest, phase, corroborated, uncorroborated>>
    BY <1>4 DEF reconcileVars, scanVars, vars, comparison
  <2>2. ListsHeld => ListsHeld'
    BY <2>1, SameLists DEF ListsHeld
  <2> QED
    BY <2>1, <2>2 DEF ReconcileIInv, Entries
<1> QED
  BY <1>1, <1>2, <1>3, <1>4 DEF ReconcileNext

\* The comparison is made of the inventory it was made from: both invariants
\* hold of the command as a whole.
THEOREM ReconcileInvariant == ReconcileSpec => [](ScanIInv /\ ReconcileIInv)
<1>1. ReconcileSpec => []ReconcileIInv
  BY ReconcileInitIInv, ReconcileNextIInv, PTL DEF ReconcileSpec
<1> QED
  BY <1>1, ReconcileScans, ScanInvariant, PTL

-----------------------------------------------------------------------------
\* A package record, and no other file, yields the kind of a package record.
LEMMA DatabaseKind ==
  ASSUME NEW f \in FileFacts, NEW s \in Yield(f)
  PROVE  s.kind = "PackageDatabase" <=> f.db
BY DEF Yield, DatabaseSightings, PackageSightings, MinedSightings, ClassifiedSightings,
       Sighting

\* A component cites what was gathered for its project, and something was.
LEMMA CitedIsGathered ==
  ASSUME IInv, NEW c \in components
  PROVE  /\ c.project \in Project /\ evidence[c.project] # {}
         /\ c.evidence \subseteq evidence[c.project]
BY ComponentShape DEF Unversioned, Versioned, EvidenceOf

\* A project is found exactly when some file yielded something for it.
LEMMA FoundIsSupported ==
  ASSUME IInv, pc = "done", NEW q \in Project
  PROVE  Found(q) # {} <=> Supporting(q) # {}
<1>1. ASSUME NEW c \in Found(q)
      PROVE  Supporting(q) # {}
  <2>1. c \in components /\ c.project = q
    BY DEF Found
  <2>2. PICK e \in evidence[q] : TRUE
    BY <2>1, CitedIsGathered
  <2> QED
    BY <2>2, EvidenceIsYielded DEF Supporting
<1>2. ASSUME NEW p \in Supporting(q)
      PROVE  Found(q) # {}
  <2>1. PICK e \in evidence[q] : TRUE
    BY DEF Supporting
  <2>2. PICK c \in components : c.project = q
    BY <2>1, InvariantDropsNothing DEF NothingDropped
  <2> QED
    BY <2>2 DEF Found
<1> QED
  BY <1>1, <1>2

\* What is listed as corroborated is an entry whose project was found.
LEMMA ListedIsFound ==
  ASSUME Entries, ListsHeld, NEW c \in ToSet(corroborated)
  PROVE  \E i \in DOMAIN declared :
           /\ declared[i].project \in Project
           /\ Found(declared[i].project) # {}
           /\ c = Corroborated(declared[i])
<1>1. c \in Corroborations
  BY DEF ListsHeld, ToSet
<1> QED
  BY <1>1 DEF Corroborations, Matched, Entries

LEMMA UnlistedIsNot ==
  ASSUME Entries, ListsHeld, NEW entry \in ToSet(uncorroborated)
  PROVE  entry.project \in Project /\ Found(entry.project) = {}
<1>1. entry \in Unmatched
  BY DEF ListsHeld, ToSet
<1> QED
  BY <1>1 DEF Unmatched, Matched, Entries

\* tests/manifest.rs:2: what is listed as not found is a project no file of the
\* tree speaks for, every other entry is listed as found, and it is said to be
\* recovered from the bytes exactly when a file that is no record speaks for it.
THEOREM ListsSayWhatTheTreeShows == ReconcileSpec => []ListsAreTrue
<1>1. ASSUME ScanIInv, ReconcileIInv, phase = "compared"
      PROVE  /\ IInv /\ pc = "done" /\ Entries /\ ListsHeld
             /\ next = NumPaths + 1
  BY <1>1 DEF ScanIInv, ReconcileIInv, IInv
<1>2. ScanIInv /\ ReconcileIInv => AbsenceNotClaimed
  <2> SUFFICES ASSUME ScanIInv, ReconcileIInv, phase = "compared"
               PROVE  /\ \A entry \in ToSet(uncorroborated) : Supporting(entry.project) = {}
                      /\ \A c \in ToSet(corroborated) : Supporting(c.project) # {}
                      /\ Len(corroborated) + Len(uncorroborated) = Len(declared)
    BY DEF AbsenceNotClaimed
  <2>1. ASSUME NEW entry \in ToSet(uncorroborated)
        PROVE  Supporting(entry.project) = {}
    BY <1>1, UnlistedIsNot, FoundIsSupported
  <2>2. ASSUME NEW c \in ToSet(corroborated)
        PROVE  Supporting(c.project) # {}
    <3>1. PICK i \in DOMAIN declared : /\ declared[i].project \in Project
                                       /\ Found(declared[i].project) # {}
                                       /\ c = Corroborated(declared[i])
      BY <1>1, ListedIsFound
    <3>2. c.project = declared[i].project
      BY <3>1 DEF Corroborated
    <3> QED
      BY <1>1, <3>1, <3>2, FoundIsSupported
  <2> QED
    BY <1>1, <2>1, <2>2 DEF ListsHeld
<1>3. ScanIInv /\ ReconcileIInv => FromBytesIsTrue
  <2> SUFFICES ASSUME ScanIInv, ReconcileIInv, phase = "compared",
                      NEW c \in ToSet(corroborated)
               PROVE  FromBytes(c) <=> \E p \in Supporting(c.project) : ~tree[p].db
    BY DEF FromBytesIsTrue
  <2>1. PICK i \in DOMAIN declared : /\ declared[i].project \in Project
                                     /\ c = Corroborated(declared[i])
    BY <1>1, ListedIsFound
  <2> DEFINE q == declared[i].project
  <2>2. /\ c.project = q /\ q \in Project
        /\ c.evidence = UNION {{e.kind : e \in x.evidence} : x \in Found(q)}
    BY <2>1 DEF Corroborated
  <2> HIDE DEF q
  <2>3. \A e \in evidence[q] :
          /\ e.path \in Supporting(q)
          /\ e.kind = "PackageDatabase" <=> tree[e.path].db
    <3> SUFFICES ASSUME NEW e \in evidence[q]
                 PROVE  /\ e.path \in Supporting(q)
                        /\ e.kind = "PackageDatabase" <=> tree[e.path].db
      OBVIOUS
    <3>1. /\ e.path \in Path /\ tree[e.path] \in FileFacts
          /\ \E s \in Yield(tree[e.path]) : s.kind = e.kind
      BY <1>1, <2>2, EvidenceIsYielded
    <3> QED
      BY <3>1, DatabaseKind DEF Supporting
  <2>4. ASSUME FromBytes(c)
        PROVE  \E p \in Supporting(q) : ~tree[p].db
    <3>1. PICK x, e : /\ x \in Found(q) /\ e \in x.evidence
                      /\ e.kind # "PackageDatabase"
      BY <2>2, <2>4 DEF FromBytes
    <3>2. e \in evidence[q]
      BY <1>1, <3>1, CitedIsGathered DEF Found
    <3> QED
      BY <2>3, <3>1, <3>2
  <2>5. ASSUME NEW p \in Supporting(q), ~tree[p].db
        PROVE  FromBytes(c)
    <3>1. PICK e \in evidence[q] : e.path = p
      BY DEF Supporting
    <3>2. PICK x \in Found(q) : e \in x.evidence
      BY <1>1, <2>2, InvariantDropsNothing DEF NothingDropped, Found
    <3>3. e.kind # "PackageDatabase"
      BY <2>3, <2>5, <3>1
    <3>4. e.kind \in c.evidence
      BY <2>2, <3>2
    <3> QED
      BY <3>3, <3>4 DEF FromBytes
  <2> QED
    BY <2>2, <2>4, <2>5
<1> QED
  BY <1>2, <1>3, ReconcileInvariant, PTL DEF ListsAreTrue

\* A prefix of a prefix is one.
LEMMA PrefixOfPrefix ==
  ASSUME NEW a, a \in Seq(ToSet(a)), NEW b \in Version, NEW c \in Version,
         IsPrefix(a, b), IsPrefix(b, c)
  PROVE  IsPrefix(a, c)
<1>1. /\ b \in Seq(UNION {ToSet(v) : v \in Version})
      /\ c \in Seq(UNION {ToSet(v) : v \in Version})
  BY ReconcileAssumption
<1>2. /\ Len(a) \in Nat /\ Len(b) \in Nat /\ Len(c) \in Nat
      /\ DOMAIN a = 1 .. Len(a) /\ DOMAIN b = 1 .. Len(b) /\ DOMAIN c = 1 .. Len(c)
  BY <1>1
<1>3. Len(a) <= Len(b) /\ Len(b) <= Len(c)
  BY DEF IsPrefix
<1>4. \A i \in 1 .. Len(a) : SubSeq(a, 1, Len(a))[i] = SubSeq(b, 1, Len(a))[i]
  BY DEF IsPrefix
<1>5. \A i \in 1 .. Len(b) : SubSeq(b, 1, Len(b))[i] = SubSeq(c, 1, Len(b))[i]
  BY DEF IsPrefix
<1>6. \A i \in 1 .. Len(a) : a[i] = b[i]
  <2>1. \A i \in 1 .. Len(a) : SubSeq(a, 1, Len(a))[i] = a[i]
    BY <1>2
  <2>2. \A i \in 1 .. Len(a) : SubSeq(b, 1, Len(a))[i] = b[i]
    BY <1>1, <1>2, <1>3
  <2> QED
    BY <1>4, <2>1, <2>2
<1>7. \A i \in 1 .. Len(b) : b[i] = c[i]
  BY <1>1, <1>2, <1>3, <1>5
<1>8. \A i \in 1 .. Len(a) : a[i] = c[i]
  BY <1>2, <1>3, <1>6, <1>7
<1>9. SubSeq(a, 1, Len(a)) = SubSeq(c, 1, Len(a))
  BY <1>1, <1>2, <1>3, <1>8
<1> QED
  BY <1>2, <1>3, <1>9 DEF IsPrefix

\* Collapsing the versions of a project hides no agreement.
LEMMA NoHiddenAgreement ==
  ASSUME ScanIInv, ReconcileIInv, phase = "compared",
         NEW c \in ToSet(corroborated), c.agrees = FALSE, NEW v \in Seen(c.project)
  PROVE  \E w \in Seen(c.project) : IsPrefix(v, w) /\ ~Alike(c.declared, w)
<1>1. IInv /\ pc = "done" /\ Entries /\ ListsHeld
  BY DEF ScanIInv, ReconcileIInv
<1>2. PICK i \in DOMAIN declared : /\ declared[i].project \in Project
                                   /\ c = Corroborated(declared[i])
  BY <1>1, ListedIsFound
<1> DEFINE q == declared[i].project
           want == declared[i].version
<1>3. /\ c.project = q /\ q \in Project /\ c.declared = want
      /\ Agrees(declared[i]) = FALSE
  BY <1>2 DEF Corroborated
<1>4. /\ want # NotGiven /\ Observed(q) # {}
      /\ \A got \in Observed(q) : ~Agree(want, got)
  BY <1>3, ReconcileAssumption DEF Agrees
<1> HIDE DEF q, want
<1>5. PICK s \in Survivors(q) : <<s, v>> \in StartsWith
  BY <1>1, <1>3, SurvivorExists
<1>6. v \in Version /\ s \in Version /\ s \in Seen(q)
  BY <1>3, <1>5 DEF Seen, Survivors
<1>7. s \in Observed(q)
  <2>1. PICK d \in components : d.project = q /\ d.version # None
    BY <1>4 DEF Observed, Found
  <2>2. ~Contradictory(q) /\ Survivors(q) # {} /\ evidence[q] # {}
    BY <1>1, <2>1, ComponentShape DEF Unversioned
  <2>3. Versioned(q, s) \in components
    BY <1>1, <1>3, <1>5, <2>2 DEF IInv, Built, ComponentsOf
  <2>4. Versioned(q, s).project = q /\ Versioned(q, s).version = s /\ s # None
    BY <1>6, FilesAssumption DEF Versioned
  <2> QED
    BY <2>3, <2>4 DEF Observed, Found
<1>8. IsPrefix(v, s)
  BY <1>5, ReconcileAssumption
<1> QED
  BY <1>3, <1>4, <1>6, <1>7, <1>8 DEF Agree, Alike

\* An entry is said to disagree with the image only when every release any file
\* shows is, in its finest form, unlike the one declared.
THEOREM DisagreementsHaveNoWitness == ReconcileSpec => []DisagreementsAreReal
<1>1. ScanIInv /\ ReconcileIInv => DisagreementsAreReal
  BY NoHiddenAgreement DEF DisagreementsAreReal
<1> QED
  BY <1>1, ReconcileInvariant, PTL

\* An entry is said to agree only when a file shows a release like it, and none
\* makes that release one unlike it.
THEOREM AgreementsHaveAWitness == ReconcileSpec => []AgreementsAreReal
<1>1. ASSUME ScanIInv, ReconcileIInv, phase = "compared",
             NEW c \in ToSet(corroborated), c.agrees = TRUE
      PROVE  \E v \in Version :
               /\ \E p \in Path : Shows(tree[p], c.project, v)
               /\ Alike(c.declared, v)
               /\ \A w \in Seen(c.project) : IsPrefix(v, w) => Alike(c.declared, w)
  <2>1. IInv /\ pc = "done" /\ Entries /\ ListsHeld
    BY <1>1 DEF ScanIInv, ReconcileIInv
  <2>2. PICK i \in DOMAIN declared : /\ declared[i].project \in Project
                                     /\ c = Corroborated(declared[i])
    BY <2>1, ListedIsFound
  <2> DEFINE q == declared[i].project
             want == declared[i].version
  <2>3. /\ c.project = q /\ q \in Project /\ c.declared = want
        /\ Agrees(declared[i]) = TRUE
    BY <1>1, <2>2 DEF Corroborated
  <2>4. PICK got \in Observed(q) : Agree(want, got)
    BY <2>3, ReconcileAssumption DEF Agrees
  <2> HIDE DEF q, want
  <2>5. PICK d \in components : d.project = q /\ d.version = got /\ got # None
    BY <2>4 DEF Observed, Found
  <2>6. got \in Survivors(q)
    BY <2>1, <2>5, ComponentShape DEF Unversioned
  <2>7. got \in Version /\ \E p \in Path : p \in versions[q][got]
    BY <2>1, <2>3, <2>6, SurvivorFacts DEF IInv, TypeOK
  <2>8. \E p \in Path : Shows(tree[p], q, got)
    BY <2>1, <2>3, <2>7, VersionsAreShown
  <2>9. ASSUME NEW w \in Seen(q), IsPrefix(got, w)
        PROVE  w = got
    <3>1. w \in Version /\ <<w, got>> \in StartsWith
      BY <2>7, <2>9, ReconcileAssumption DEF Seen
    <3> QED
      BY <2>6, <2>9, <3>1 DEF Survivors
  <2> QED
    BY <2>3, <2>4, <2>7, <2>8, <2>9 DEF Agree, Alike
<1>2. ScanIInv /\ ReconcileIInv => AgreementsAreReal
  BY <1>1 DEF AgreementsAreReal
<1> QED
  BY <1>2, ReconcileInvariant, PTL

-----------------------------------------------------------------------------
\* What FlattenSeq computes, from what it computed for one sequence less.
JoinStep(joined, ss, i) == IF i = 1 THEN ss[i] ELSE joined[i - 1] \o ss[i]

LEMMA JoinDefined ==
  ASSUME NEW ss, NEW N \in Nat
  PROVE  \E f : f = [i \in 1 .. N |-> JoinStep(f, ss, i)]
<1> DEFINE S == {n \in Nat : \E f : f = [i \in 1 .. n |-> JoinStep(f, ss, i)]}
<1>1. 0 \in S
  <2> DEFINE f == [i \in 1 .. 0 |-> <<>>]
  <2>1. f = [i \in 1 .. 0 |-> JoinStep(f, ss, i)]
    OBVIOUS
  <2> QED
    BY <2>1
<1>2. ASSUME NEW n \in Nat, n \in S
      PROVE  n + 1 \in S
  <2>1. PICK f : f = [i \in 1 .. n |-> JoinStep(f, ss, i)]
    BY <1>2
  <2> DEFINE g == [i \in 1 .. n + 1 |-> IF i = n + 1 THEN JoinStep(f, ss, i) ELSE f[i]]
  <2>2. ASSUME NEW i \in 1 .. n + 1
        PROVE  g[i] = JoinStep(g, ss, i)
    <3>1. CASE i = 1
      BY <2>1, <3>1 DEF JoinStep
    <3>2. CASE i # 1
      <4>1. i - 1 \in 1 .. n /\ g[i - 1] = f[i - 1]
        BY <3>2
      <4>2. JoinStep(g, ss, i) = JoinStep(f, ss, i)
        <5> HIDE DEF g
        <5> QED
          BY <4>1, <3>2 DEF JoinStep
      <4> QED
        BY <4>2, <2>1
    <3> QED
      BY <3>1, <3>2
  <2>3. g = [i \in 1 .. n + 1 |-> JoinStep(g, ss, i)]
    BY <2>2
  <2> HIDE DEF g
  <2>4. \E h : h = [i \in 1 .. n + 1 |-> JoinStep(h, ss, i)]
    BY <2>3
  <2> QED
    BY <2>4
<1> HIDE DEF S
<1>3. Nat \subseteq S
  BY <1>1, <1>2, EveryNumber
<1> QED
  BY <1>3 DEF S

\* Joining sequences adds nothing to what they hold.
LEMMA JoinedFrom ==
  ASSUME NEW U, NEW ss \in Seq(Seq(U))
  PROVE  FlattenSeq(ss) \in Seq(U)
<1> DEFINE N == Len(ss)
           f == CHOOSE h : h = [i \in 1 .. N |-> IF i = 1 THEN ss[i] ELSE h[i - 1] \o ss[i]]
<1>1. N \in Nat /\ DOMAIN ss = 1 .. N /\ \A i \in 1 .. N : ss[i] \in Seq(U)
  OBVIOUS
<1>2. CASE N = 0
  <2>1. ss = <<>>
    BY <1>2
  <2>2. FlattenSeq(ss) = ss
    BY <1>2 DEF FlattenSeq
  <2>3. <<>> \in Seq(U)
    OBVIOUS
  <2> QED
    BY <2>1, <2>2, <2>3
<1>3. CASE N # 0
  <2>1. FlattenSeq(ss) = f[N]
    BY <1>3 DEF FlattenSeq
  <2>2. f = [i \in 1 .. N |-> JoinStep(f, ss, i)]
    <3>1. \E h : h = [i \in 1 .. N |-> IF i = 1 THEN ss[i] ELSE h[i - 1] \o ss[i]]
      BY <1>1, JoinDefined DEF JoinStep
    <3> QED
      BY <3>1 DEF JoinStep
  <2> HIDE DEF f, N
  <2> DEFINE S == {i \in Nat : i + 1 \in 1 .. N => f[i + 1] \in Seq(U)}
  <2>3. 0 \in S
    BY <1>1, <2>2 DEF JoinStep
  <2>4. ASSUME NEW i \in Nat, i \in S
        PROVE  i + 1 \in S
    <3> SUFFICES ASSUME i + 1 + 1 \in 1 .. N
                 PROVE  f[i + 1 + 1] \in Seq(U)
      OBVIOUS
    <3>1. PICK k \in 1 .. N : k = i + 1 + 1
      OBVIOUS
    <3>2. i + 1 \in 1 .. N /\ k # 1 /\ k - 1 = i + 1
      BY <1>1, <3>1
    <3>3. f[k] = JoinStep(f, ss, k)
      BY <2>2
    <3>4. f[k] = f[k - 1] \o ss[k]
      BY <3>2, <3>3 DEF JoinStep
    <3>5. f[k - 1] \in Seq(U) /\ ss[k] \in Seq(U)
      BY <1>1, <2>4, <3>2
    <3> QED
      BY <3>1, <3>4, <3>5
  <2>5. Nat \subseteq S
    <3> HIDE DEF S
    <3> QED
      BY <2>3, <2>4, EveryNumber
  <2>6. N - 1 \in Nat /\ N - 1 + 1 = N /\ N \in 1 .. N
    BY <1>1, <1>3
  <2>7. f[N - 1 + 1] \in Seq(U)
    BY <2>5, <2>6
  <2> QED
    BY <2>1, <2>6, <2>7
<1> QED
  BY <1>2, <1>3

\* What a record claims, a stanza of it claims that counts.
LEMMA ClaimOfStanza ==
  ASSUME NEW t, t \in Seq(ToSet(t)), NEW claim \in ToSet(PackageDatabase(t))
  PROVE  \E i \in DOMAIN t :
           /\ Counts(t[i])
           /\ Field(t[i], "Version") # NotGiven
           /\ claim = <<StanzaName(t[i]), UpstreamVersion(Field(t[i], "Version"), "Control")>>
<1> DEFINE U == {x \in UNION {ToSet(StanzaClaims(t[i])) : i \in DOMAIN t} : TRUE}
           ss == [i \in DOMAIN t |-> StanzaClaims(t[i])]
<1>1. ASSUME NEW i \in DOMAIN t
      PROVE  /\ StanzaClaims(t[i]) \in Seq(ToSet(StanzaClaims(t[i])))
             /\ \A x \in ToSet(StanzaClaims(t[i])) :
                  /\ Counts(t[i])
                  /\ Field(t[i], "Version") # NotGiven
                  /\ x = <<StanzaName(t[i]), UpstreamVersion(Field(t[i], "Version"), "Control")>>
  <2>1. CASE StanzaClaims(t[i]) = <<>>
    BY <2>1 DEF ToSet
  <2>2. CASE StanzaClaims(t[i]) # <<>>
    <3>1. /\ Counts(t[i])
          /\ Field(t[i], "Version") # NotGiven
          /\ StanzaClaims(t[i])
               = <<<<StanzaName(t[i]), UpstreamVersion(Field(t[i], "Version"), "Control")>>>>
      BY <2>2 DEF StanzaClaims
    <3> QED
      BY <3>1 DEF ToSet
  <2> QED
    BY <2>1, <2>2
<1>2. ss \in Seq(Seq(U))
  <2>1. Len(t) \in Nat /\ DOMAIN t = 1 .. Len(t)
    OBVIOUS
  <2>2. \A i \in DOMAIN t : StanzaClaims(t[i]) \in Seq(U)
    BY <1>1
  <2> HIDE DEF U
  <2> QED
    BY <2>1, <2>2
<1>3. PackageDatabase(t) = FlattenSeq(ss)
  BY DEF PackageDatabase
<1> HIDE DEF U, ss
<1>4. PackageDatabase(t) \in Seq(U)
  BY <1>2, <1>3, JoinedFrom
<1>5. claim \in U
  BY <1>4 DEF ToSet
<1> QED
  BY <1>1, <1>5 DEF U

\* A stanza of a removed package claims nothing: one word of its status says
\* installed only for the packages that were never installed, of which dpkg
\* knows no version.
\* No record is cited for a project of which it holds only packages that were
\* removed and have left their configuration behind.
THEOREM RemovedAreNotReported == ReconcileSpec => []RemovedNotReported
<1>1. IInv => RemovedNotReported
  <2> SUFFICES ASSUME IInv, NEW c \in components, NEW e \in c.evidence,
                      e.kind = "PackageDatabase"
               PROVE  \E t \in Records :
                        /\ tree[e.path] = StatusFile[t]
                        /\ \E i \in DOMAIN t :
                             /\ Field(t[i], "Status") \notin {"config-files"}
                             /\ CProject(NormalizePkg[StanzaName(t[i])]) = c.project
    BY DEF RemovedNotReported, InRecordUnlike
  <2>1. e \in evidence[c.project] /\ c.project \in Project
    BY CitedIsGathered
  <2> DEFINE f == tree[e.path]
  <2>2. /\ f \in Files /\ f \in FileFacts
        /\ \E s \in Yield(f) : s.project = c.project /\ s.kind = "PackageDatabase"
    BY <2>1, EvidenceIsYielded DEF IInv, TypeOK
  <2> HIDE DEF f
  <2>3. PICK s \in Yield(f) : s.project = c.project /\ s.kind = "PackageDatabase"
    BY <2>2
  <2>4. f.db /\ s \in DatabaseSightings(f)
    BY <2>2, <2>3, DatabaseKind DEF Yield
  <2>5. PICK claim \in f.stanzas : c.project = CProject(NormalizePkg[claim[1]])
    BY <2>3, <2>4 DEF DatabaseSightings, Sighting
  <2>6. PICK t \in Records : f = StatusFile[t]
    BY <2>2, <2>4, ReconcileAssumption
  <2>7. claim \in ToSet(PackageDatabase(t)) /\ t \in Seq(ToSet(t))
    BY <2>5, <2>6, ReconcileAssumption
  <2>8. PICK i \in DOMAIN t : /\ Counts(t[i])
                              /\ Field(t[i], "Version") # NotGiven
                              /\ claim[1] = StanzaName(t[i])
    BY <2>7, ClaimOfStanza
  <2>9. Field(t[i], "Status") # "config-files"
    BY <2>8, ReconcileAssumption DEF Counts, SaysInstalled, State
  <2> QED
    BY <2>5, <2>6, <2>8, <2>9 DEF f
<1>2. ScanIInv => IInv
  BY DEF ScanIInv
<1> QED
  BY <1>1, <1>2, ReconcileInvariant, PTL

\* Of a record, the manifest parser takes nothing but what package_database
\* takes.
LEMMA RecordClaims ==
  ASSUME NEW t \in Records, NEW i \in DOMAIN ManifestClaims(t)
  PROVE  ManifestClaims(t)[i] \in StatusFile[t].stanzas
<1>1. StatusFile[t].stanzas = ToSet(PackageDatabase(t)) /\ (t = <<>> \/ Detect(t) = "Control")
  BY ReconcileAssumption
<1>2. CASE Detect(t) = "Control"
  BY <1>1, <1>2 DEF ManifestClaims, ToSet
<1>3. CASE t = <<>> /\ Detect(t) # "Control"
  <2>1. Lines(t) = <<>>
    BY <1>3 DEF Lines, FlattenSeq
  <2> DEFINE ss == [k \in DOMAIN Lines(t) |-> ColumnClaims(Lines(t)[k], Detect(t))]
  <2>2. ss = <<>> /\ ManifestClaims(t) = FlattenSeq(ss)
    BY <1>3, <2>1 DEF ManifestClaims
  <2> HIDE DEF ss
  <2>3. ManifestClaims(t) = <<>>
    BY <2>2 DEF FlattenSeq
  <2> QED
    BY <2>3
<1> QED
  BY <1>1, <1>2, <1>3

\* What the image's own record claims was found, and its release was seen.
LEMMA RecordIsSeen ==
  ASSUME IInv, pc = "done", NEW p \in Path, NEW t \in Records, tree[p] = StatusFile[t],
         NEW claim \in StatusFile[t].stanzas
  PROVE  LET q == CProject(NormalizePkg[claim[1]]) IN
         /\ q \in Project
         /\ Found(q) # {}
         /\ claim[2] \in Seen(q)
<1> DEFINE q == CProject(NormalizePkg[claim[1]])
           s == Sighting(q, "PackageDatabase", claim[2])
<1>1. tree[p] \in FileFacts /\ tree[p].db /\ tree[p].name # None
  BY CurrentFile, ReconcileAssumption DEF IInv
<1>2. claim[1] \in Lib /\ claim[2] \in Version
  BY <1>1 DEF FileFacts, Claim
<1>3. s \in Yield(tree[p])
  BY <1>1 DEF Yield, DatabaseSightings
<1>4. p < next
  BY PathsAssumption DEF IInv, Path
<1>5. s.project = q /\ s.value = claim[2] /\ Cite(s, p).path = p /\ Cite(s, p).value = claim[2]
  BY DEF Sighting, Cite
<1>6. q \in Project /\ Cite(s, p) \in evidence[q]
  BY <1>3, <1>4, <1>5, YieldIsCited
<1> HIDE DEF q, s
<1>7. Found(q) # {}
  BY <1>6, <1>5, FoundIsSupported DEF Supporting
<1>8. p \in versions[q][claim[2]]
  BY <1>2, <1>5, <1>6 DEF IInv, VersionsMatchEvidence
<1> QED
  BY <1>2, <1>6, <1>7, <1>8 DEF Seen, q

\* The image agrees with its own package record: the two readings of it, by the
\* analyzer and as the manifest, take the same packages and releases from it.
THEOREM OwnRecordIsAgreedWith == ReconcileSpec => []OwnRecordAgrees
<1>1. ASSUME ScanIInv, ReconcileIInv, phase = "compared", manifest \in Records,
             NEW p \in Path, tree[p] = StatusFile[manifest]
      PROVE  uncorroborated = <<>> /\ \A c \in ToSet(corroborated) : c.agrees # FALSE
  <2>1. IInv /\ pc = "done" /\ Entries /\ ListsHeld /\ declared = Parse(manifest)
    BY <1>1 DEF ScanIInv, ReconcileIInv
  <2>2. ASSUME NEW i \in DOMAIN declared
        PROVE  /\ Found(declared[i].project) # {}
               /\ declared[i].version \in Seen(declared[i].project)
    <3> DEFINE claim == ManifestClaims(manifest)[i]
    <3>1. i \in DOMAIN ManifestClaims(manifest) /\ declared[i] = Declared(claim)
      BY <2>1 DEF Parse
    <3>2. claim \in StatusFile[manifest].stanzas
      BY <1>1, <3>1, RecordClaims
    <3>3. /\ declared[i].project = CProject(NormalizePkg[Lower[claim[1]]])
          /\ declared[i].version = claim[2]
      BY <3>1 DEF Declared
    <3>4. claim[1] \in Lib
      <4>1. StatusFile[manifest] \in FileFacts
        BY <1>1, ReconcileAssumption, FilesAssumption
      <4> QED
        BY <3>2, <4>1 DEF FileFacts, Claim
    <3>5. NormalizePkg[Lower[claim[1]]] = NormalizePkg[claim[1]]
      BY <3>4, LowerAssumption
    <3> HIDE DEF claim
    <3> QED
      BY <1>1, <2>1, <3>2, <3>3, <3>5, RecordIsSeen
  <2>3. uncorroborated = <<>>
    <3>1. Unmatched = {}
      BY <2>2 DEF Unmatched, Matched
    <3> QED
      BY <2>1, <3>1 DEF ListsHeld
  <2>4. ASSUME NEW c \in ToSet(corroborated), c.agrees = FALSE
        PROVE  FALSE
    <3>1. PICK i \in DOMAIN declared : c = Corroborated(declared[i])
      BY <2>1, ListedIsFound
    <3>2. c.project = declared[i].project /\ c.declared = declared[i].version
      BY <3>1 DEF Corroborated
    <3>3. c.declared \in Seen(c.project)
      BY <2>2, <3>2
    <3> QED
      BY <1>1, <2>4, <3>3, NoHiddenAgreement DEF Alike
  <2> QED
    BY <2>3, <2>4
<1>2. ScanIInv /\ ReconcileIInv => OwnRecordAgrees
  BY <1>1 DEF OwnRecordAgrees
<1> QED
  BY <1>2, ReconcileInvariant, PTL

-----------------------------------------------------------------------------
LEMMA MinIs ==
  ASSUME NEW I \in SUBSET Nat, NEW k \in I, \A j \in I : k <= j
  PROVE  Min(I) = k
<1>1. Min(I) \in I /\ \A j \in I : Min(I) <= j
  BY DEF Min
<1>2. Min(I) <= k /\ k <= Min(I)
  BY <1>1
<1>3. Min(I) \in Nat /\ k \in Nat
  BY <1>1
<1> QED
  BY <1>2, <1>3

LEMMA MaxIs ==
  ASSUME NEW I \in SUBSET Nat, NEW k \in I, \A j \in I : j <= k
  PROVE  Max(I) = k
<1>1. Max(I) \in I /\ \A j \in I : j <= Max(I)
  BY DEF Max
<1>2. Max(I) <= k /\ k <= Max(I)
  BY <1>1
<1>3. Max(I) \in Nat /\ k \in Nat
  BY <1>1
<1> QED
  BY <1>2, <1>3

\* The first or the last of the positions of a sequence.
LEMMA MinMaxIn ==
  ASSUME NEW n \in Nat, NEW I \in SUBSET (1 .. n), I # {}
  PROVE  Min(I) \in I /\ Max(I) \in I
<1>1. \E i \in I : \A j \in I : i <= j
  <2>1. I \in SUBSET Nat
    OBVIOUS
  <2>2. PICK i \in I : \A j \in I : ~(j < i)
    BY <2>1, Least
  <2> QED
    BY <2>1, <2>2
<1>2. \E i \in I : \A j \in I : j <= i
  BY Largest
<1> QED
  BY <1>1, <1>2 DEF Min, Max

LEMMA NotEmpty ==
  ASSUME NEW U, NEW s \in Seq(U), Len(s) # 0
  PROVE  s # <<>>
OBVIOUS

LEMMA NoEpoch ==
  ASSUME NEW v, Len(v) \in Nat, \A i \in 1 .. Len(v) : v[i] # ":"
  PROVE  WithoutEpoch(v) = v
<1>1. SelectInSeq(v, LAMBDA part : part = ":") = 0
  BY DEF SelectInSeq
<1> QED
  BY <1>1 DEF WithoutEpoch

LEMMA EpochCut ==
  ASSUME NEW U, NEW v \in Seq(U), Len(v) >= 2, v[1] \in Digits, v[1] # ":", v[2] = ":"
  PROVE  WithoutEpoch(v) = SubSeq(v, 3, Len(v))
<1>1. SelectInSeq(v, LAMBDA part : part = ":") = 2
  <2> DEFINE I == {i \in 1 .. Len(v) : v[i] = ":"}
  <2>1. I \in SUBSET Nat /\ 2 \in I /\ \A j \in I : 2 <= j
    OBVIOUS
  <2> HIDE DEF I
  <2>2. Min(I) = 2
    BY <2>1, MinIs
  <2> QED
    BY <2>1, <2>2 DEF SelectInSeq, I
<1>2. AllDigits(Before(v, 2))
  <2>1. Before(v, 2) = SubSeq(v, 1, 1)
    BY DEF Before
  <2>2. DOMAIN SubSeq(v, 1, 1) = 1 .. 1 /\ SubSeq(v, 1, 1)[1] = v[1]
    OBVIOUS
  <2> QED
    BY <2>1, <2>2 DEF AllDigits
<1>3. After(v, 2) = SubSeq(v, 3, Len(v))
  BY DEF After
<1> QED
  BY <1>1, <1>2, <1>3 DEF WithoutEpoch

LEMMA NoRevision ==
  ASSUME NEW v, Len(v) \in Nat, NEW style,
         \A i \in 1 .. Len(v) : v[i] = "-" => ~IsRevision(After(v, i), style)
  PROVE  WithoutRevision(v, style) = v
<1> DEFINE I == {i \in 1 .. Len(v) : v[i] = "-"}
<1>1. SelectLastInSeq(v, LAMBDA part : part = "-") = IF I # {} THEN Max(I) ELSE 0
  BY DEF SelectLastInSeq
<1>2. CASE I = {}
  BY <1>1, <1>2 DEF WithoutRevision
<1>3. CASE I # {}
  <2>1. Max(I) \in I
    <3>1. I \in SUBSET (1 .. Len(v))
      OBVIOUS
    <3> HIDE DEF I
    <3> QED
      BY <1>3, <3>1, MinMaxIn
  <2>2. ~IsRevision(After(v, Max(I)), style)
    BY <2>1
  <2> HIDE DEF I
  <2> QED
    BY <1>1, <1>3, <2>2 DEF WithoutRevision
<1> QED
  BY <1>2, <1>3

LEMMA RevisionCut ==
  ASSUME NEW U, NEW v \in Seq(U), NEW style, NEW k \in 2 .. Len(v),
         v[k] = "-", \A j \in k + 1 .. Len(v) : v[j] # "-",
         IsRevision(After(v, k), style)
  PROVE  WithoutRevision(v, style) = SubSeq(v, 1, k - 1)
<1>1. SelectLastInSeq(v, LAMBDA part : part = "-") = k
  <2> DEFINE I == {i \in 1 .. Len(v) : v[i] = "-"}
  <2>1. I \in SUBSET Nat /\ k \in I /\ \A j \in I : j <= k
    OBVIOUS
  <2> HIDE DEF I
  <2>2. Max(I) = k
    BY <2>1, MaxIs
  <2> QED
    BY <2>1, <2>2 DEF SelectLastInSeq, I
<1>2. Before(v, k) = SubSeq(v, 1, k - 1)
  BY DEF Before
<1> QED
  BY <1>1, <1>2 DEF WithoutRevision

\* The position of the first m in v, as WithoutRepack looks for it.
MarkerAt(v, m) == SelectInSeq(v, LAMBDA part : part = m)

LEMMA NoRepack ==
  ASSUME NEW v, Len(v) \in Nat, \A i \in 1 .. Len(v) : v[i] \notin ToSet(Markers)
  PROVE  WithoutRepack(v) = v
<1>1. \A m \in ToSet(Markers) : MarkerAt(v, m) = 0
  BY DEF MarkerAt, SelectInSeq
<1>2. \A i \in 1 .. Len(Markers) : MarkerAt(v, Markers[i]) = 0
  BY <1>1, ReleaseAssumption DEF ToSet
<1>3. SelectInSeq(Markers, LAMBDA m : MarkerAt(v, m) # 0) = 0
  BY <1>2 DEF SelectInSeq
<1> QED
  BY <1>3 DEF WithoutRepack, MarkerAt

LEMMA RepackCut ==
  ASSUME NEW U, NEW v \in Seq(U), NEW k \in 1 .. Len(v), v[k] \in ToSet(Markers),
         \A j \in 1 .. Len(v) : j # k => v[j] \notin ToSet(Markers)
  PROVE  WithoutRepack(v) = SubSeq(v, 1, k - 1)
<1>1. MarkerAt(v, v[k]) = k
  <2> DEFINE I == {i \in 1 .. Len(v) : v[i] = v[k]}
  <2>1. I \in SUBSET Nat /\ k \in I /\ \A j \in I : k <= j
    OBVIOUS
  <2> HIDE DEF I
  <2>2. Min(I) = k
    BY <2>1, MinIs
  <2> QED
    BY <2>1, <2>2 DEF MarkerAt, SelectInSeq, I
<1>2. \A m \in ToSet(Markers) : m # v[k] => MarkerAt(v, m) = 0
  BY DEF MarkerAt, SelectInSeq
<1> DEFINE I == {i \in 1 .. Len(Markers) : MarkerAt(v, Markers[i]) # 0}
<1>3. I \in SUBSET (1 .. Len(Markers)) /\ I # {} /\ Len(Markers) \in Nat
  <2>1. PICK i \in DOMAIN Markers : v[k] = Markers[i]
    BY DEF ToSet
  <2>2. i \in 1 .. Len(Markers) /\ Len(Markers) \in Nat
    BY ReleaseAssumption
  <2>3. i \in I
    BY <1>1, <2>1, <2>2
  <2> QED
    BY <2>2, <2>3
<1>4. Min(I) \in 1 .. Len(Markers) /\ MarkerAt(v, Markers[Min(I)]) # 0
  <2>1. Min(I) \in I
    <3> HIDE DEF I
    <3> QED
      BY <1>3, MinMaxIn
  <2> QED
    BY <2>1
<1>5. Markers[Min(I)] = v[k]
  <2>1. \A i \in 1 .. Len(Markers) : Markers[i] \in ToSet(Markers)
    BY ReleaseAssumption DEF ToSet
  <2> QED
    BY <1>2, <1>4, <2>1
<1>6. SelectInSeq(Markers, LAMBDA m : MarkerAt(v, m) # 0) = Min(I)
  BY <1>3 DEF SelectInSeq
<1>7. Min(I) # 0
  BY <1>3, <1>4
<1>8. Before(v, k) = SubSeq(v, 1, k - 1)
  BY DEF Before
<1> HIDE DEF I
<1>9. WithoutRepack(v)
        = LET hit == SelectInSeq(Markers, LAMBDA m : MarkerAt(v, m) # 0)
          IN  IF hit = 0 THEN v ELSE Before(v, MarkerAt(v, Markers[hit]))
  BY Zenon DEF WithoutRepack, MarkerAt
<1> QED
  BY <1>1, <1>5, <1>6, <1>7, <1>8, <1>9

\* What packagers know of a release.
LEMMA ReleaseFacts ==
  ASSUME NEW v \in Version
  PROVE  /\ v \in Seq(ToSet(v)) /\ Len(v) \in Nat /\ Len(v) >= 1 /\ DOMAIN v = 1 .. Len(v)
         /\ \A i \in 1 .. Len(v) : v[i] # ":" /\ v[i] \notin ToSet(Markers)
         /\ \A i \in 1 .. Len(v) : v[i] = "-" => ~IsRevision(After(v, i), "Revision")
<1>1. v \in Seq(UNION {ToSet(w) : w \in Version})
  BY ReconcileAssumption
<1>2. Len(v) \in Nat /\ DOMAIN v = 1 .. Len(v)
  BY <1>1
<1>3. Len(v) # 0
  BY <1>1, ReleaseAssumption
<1>4. v \in Seq(ToSet(v))
  BY <1>1 DEF ToSet
<1> QED
  BY <1>2, <1>3, <1>4, ReleaseAssumption

\* A sequence that has the parts of v, and no more, is v.
LEMMA SameParts ==
  ASSUME NEW v \in Version, NEW U, NEW w \in Seq(U), Len(w) = Len(v),
         \A i \in 1 .. Len(v) : w[i] = v[i]
  PROVE  w = v
BY ReleaseFacts

\* Debian's additions are taken off again.
LEMMA ControlCut ==
  ASSUME NEW v \in Version, NEW U, NEW raw \in Seq(U), NEW n \in {0, 2}, NEW r \in {0, 1},
         Len(raw) = n + Len(v) + r + 2,
         n = 2 => raw[1] \in Digits /\ raw[2] = ":",
         \A i \in 1 .. Len(v) : raw[n + i] = v[i],
         r = 1 => raw[n + Len(v) + 1] \in ToSet(Markers),
         raw[n + Len(v) + r + 1] = "-",
         raw[n + Len(v) + r + 2] \in Digits
  PROVE  UpstreamVersion(raw, "Control") = v
<1> DEFINE L == Len(v)
           x == WithoutEpoch(raw)
           y == WithoutRevision(x, "Control")
<1>1. /\ L \in Nat /\ L >= 1
      /\ \A i \in 1 .. L : v[i] # ":" /\ v[i] \notin ToSet(Markers)
  BY ReleaseFacts
<1>2. \A d \in Digits : d \notin {":", "-"} /\ d \notin ToSet(Markers)
  BY ReleaseAssumption
<1>3. \A m \in ToSet(Markers) : m \notin {":", "-"}
  BY ReleaseAssumption
<1> HIDE DEF L
<1>4. /\ x \in Seq(U) /\ Len(x) = L + r + 2
      /\ \A i \in 1 .. L + r + 2 : x[i] = raw[n + i]
  <2>1. CASE n = 0
    <3>1. \A i \in 1 .. Len(raw) : raw[i] # ":"
      <4> SUFFICES ASSUME NEW i \in 1 .. L + r + 2
                   PROVE  raw[i] # ":"
        BY <2>1 DEF L
      <4>1. CASE i <= L
        BY <1>1, <2>1, <4>1 DEF L
      <4>2. CASE i = L + 1 /\ r = 1
        BY <1>3, <2>1, <4>2 DEF L
      <4>3. CASE i = L + r + 1
        BY <2>1, <4>3 DEF L
      <4>4. CASE i = L + r + 2
        BY <1>2, <2>1, <4>4 DEF L
      <4> QED
        BY <1>1, <4>1, <4>2, <4>3, <4>4
    <3>2. x = raw
      BY <3>1, NoEpoch
    <3> QED
      BY <2>1, <3>2 DEF L
  <2>2. CASE n = 2
    <3>1. x = SubSeq(raw, 3, Len(raw))
      BY <1>1, <1>2, <2>2, EpochCut DEF L
    <3> QED
      BY <1>1, <2>2, <3>1 DEF L
  <2> QED
    BY <2>1, <2>2
<1> HIDE DEF x
<1>5. /\ \A i \in 1 .. L : x[i] = v[i]
      /\ r = 1 => x[L + 1] \in ToSet(Markers)
      /\ x[L + r + 1] = "-"
      /\ x[L + r + 2] \in Digits
  BY <1>1, <1>4 DEF L
<1>6. y = SubSeq(x, 1, L + r)
  <2> DEFINE k == L + r + 1
  <2>1. k \in 2 .. Len(x) /\ x[k] = "-" /\ k - 1 = L + r
    BY <1>1, <1>4, <1>5
  <2>2. \A j \in k + 1 .. Len(x) : x[j] # "-"
    BY <1>1, <1>2, <1>4, <1>5
  <2>3. IsRevision(After(x, k), "Control")
    <3> DEFINE rev == After(x, k)
    <3>1. rev \in Seq(U) /\ Len(rev) # 0
      BY <1>1, <1>4 DEF After
    <3> HIDE DEF rev
    <3>2. rev # <<>>
      BY <3>1
    <3> QED
      BY <3>2 DEF IsRevision, rev
  <2> HIDE DEF k
  <2>4. WithoutRevision(x, "Control") = SubSeq(x, 1, k - 1)
    BY <1>4, <2>1, <2>2, <2>3, RevisionCut
  <2> QED
    BY <2>1, <2>4
<1> HIDE DEF y
<1>7. y \in Seq(U) /\ Len(y) = L + r /\ \A i \in 1 .. L + r : y[i] = x[i]
  BY <1>1, <1>4, <1>6
<1>8. WithoutRepack(y) = v
  <2>1. CASE r = 0
    <3>1. \A i \in 1 .. Len(y) : y[i] = v[i]
      BY <1>1, <1>5, <1>7, <2>1
    <3>2. WithoutRepack(y) = y
      BY <1>1, <1>7, <2>1, <3>1, NoRepack
    <3> QED
      BY <1>7, <2>1, <3>1, <3>2, SameParts DEF L
  <2>2. CASE r = 1
    <3>1. PICK k \in 1 .. Len(y) : k = L + 1 /\ k - 1 = L
      BY <1>1, <1>7, <2>2
    <3>2. /\ y[k] \in ToSet(Markers)
          /\ \A j \in 1 .. Len(y) : j # k => y[j] = v[j] /\ y[j] \notin ToSet(Markers)
      BY <1>1, <1>5, <1>7, <2>2, <3>1
    <3>3. WithoutRepack(y) = SubSeq(y, 1, L)
      <4>1. WithoutRepack(y) = SubSeq(y, 1, k - 1)
        BY <1>7, <3>2, RepackCut
      <4> QED
        BY <3>1, <4>1
    <3>4. /\ SubSeq(y, 1, L) \in Seq(U) /\ Len(SubSeq(y, 1, L)) = L
          /\ \A i \in 1 .. L : SubSeq(y, 1, L)[i] = v[i]
      BY <1>1, <1>7, <2>2, <3>1, <3>2
    <3> QED
      BY <3>3, <3>4, SameParts DEF L
  <2> QED
    BY <2>1, <2>2
<1> QED
  BY <1>8 DEF UpstreamVersion, x, y

\* A release as it stands has nothing to be taken off, and a revision of OpenWrt
\* is taken off.
LEMMA RevisionStyleCut ==
  ASSUME NEW v \in Version, NEW raw,
         \/ raw = v
         \/ /\ Len(raw) = Len(v) + 3 /\ \E U : raw \in Seq(U)
            /\ \A i \in 1 .. Len(v) : raw[i] = v[i]
            /\ raw[Len(v) + 1] = "-" /\ raw[Len(v) + 2] = "r" /\ raw[Len(v) + 3] \in Digits
  PROVE  UpstreamVersion(raw, "Revision") = v
<1> DEFINE L == Len(v)
<1>1. /\ L \in Nat /\ L >= 1
      /\ \A i \in 1 .. L : v[i] # ":" /\ v[i] \notin ToSet(Markers)
      /\ \A i \in 1 .. L : v[i] = "-" => ~IsRevision(After(v, i), "Revision")
  BY ReleaseFacts
<1>2. WithoutRepack(v) = v
  BY <1>1, NoRepack
<1>3. CASE raw = v
  <2>1. WithoutEpoch(v) = v /\ WithoutRevision(v, "Revision") = v
    BY <1>1, NoEpoch, NoRevision
  <2> QED
    BY <1>2, <1>3, <2>1 DEF UpstreamVersion
<1>4. ASSUME NEW U, raw \in Seq(U), Len(raw) = L + 3,
             \A i \in 1 .. L : raw[i] = v[i],
             raw[L + 1] = "-", raw[L + 2] = "r", raw[L + 3] \in Digits
      PROVE  UpstreamVersion(raw, "Revision") = v
  <2> HIDE DEF L
  <2>1. WithoutEpoch(raw) = raw
    <3>1. ":" \notin Digits
      BY ReleaseAssumption
    <3> SUFFICES \A i \in 1 .. Len(raw) : raw[i] # ":"
      BY <1>4, NoEpoch
    <3>2. \A i \in 1 .. L + 3 : i <= L \/ i = L + 1 \/ i = L + 2 \/ i = L + 3
      BY <1>1
    <3> QED
      BY <1>1, <1>4, <3>1, <3>2
  <2>2. PICK k \in 2 .. Len(raw) : k = L + 1 /\ k - 1 = L
    BY <1>1, <1>4
  <2>3. \A j \in k + 1 .. Len(raw) : raw[j] # "-"
    <3>1. "-" \notin Digits
      BY ReleaseAssumption
    <3> QED
      BY <1>1, <1>4, <2>2, <3>1
  <2>4. IsRevision(After(raw, k), "Revision")
    <3> DEFINE rev == After(raw, k)
    <3>1. /\ rev \in Seq(U) /\ Len(rev) >= 2 /\ rev[1] = "r"
          /\ \A i \in 2 .. Len(rev) : rev[i] \in Digits
      BY <1>1, <1>4, <2>2 DEF After
    <3> HIDE DEF rev
    <3>2. rev # <<>> /\ Head(rev) = "r"
      BY <3>1
    <3>3. /\ Tail(rev) \in Seq(U) /\ Len(Tail(rev)) = Len(rev) - 1 /\ Len(rev) \in Nat
          /\ \A i \in 1 .. Len(Tail(rev)) : Tail(rev)[i] = rev[i + 1]
      BY <3>1, <3>2, HeadTailProperties
    <3>4. AllDigits(Tail(rev))
      <4>1. Tail(rev) # <<>>
        <5>1. Tail(rev) \in Seq(U) /\ Len(Tail(rev)) # 0
          BY <3>1, <3>3
        <5> QED
          BY <5>1, NotEmpty, Zenon
      <4>2. \A i \in DOMAIN Tail(rev) : Tail(rev)[i] \in Digits
        BY <3>1, <3>3
      <4> QED
        BY <4>1, <4>2 DEF AllDigits
    <3> QED
      BY <3>2, <3>4 DEF IsRevision, rev
  <2>5. WithoutRevision(raw, "Revision") = SubSeq(raw, 1, k - 1)
    BY <1>4, <2>2, <2>3, <2>4, RevisionCut
  <2>6. /\ SubSeq(raw, 1, L) \in Seq(U) /\ Len(SubSeq(raw, 1, L)) = L
        /\ \A i \in 1 .. L : SubSeq(raw, 1, L)[i] = v[i]
    BY <1>1, <1>4
  <2>7. SubSeq(raw, 1, L) = v
    BY <2>6, SameParts DEF L
  <2> QED
    BY <1>2, <2>1, <2>2, <2>5, <2>7 DEF UpstreamVersion
<1> QED
  BY <1>3, <1>4

LEMMA Joined ==
  ASSUME NEW U, NEW s \in Seq(U), NEW t \in Seq(U)
  PROVE  /\ s \o t \in Seq(U) /\ Len(s \o t) = Len(s) + Len(t)
         /\ \A i \in 1 .. Len(s) : (s \o t)[i] = s[i]
         /\ \A i \in 1 .. Len(t) : (s \o t)[Len(s) + i] = t[i]
OBVIOUS

\* A dash and Debian's revision.
RevisionOf(d) == <<"-", d>>

\* Reading what was packed gives the release back, in every style.
LEMMA PackedIsUnpacked ==
  ASSUME NEW v \in Version, NEW style \in Style, NEW raw \in Packed(v, style)
  PROVE  UpstreamVersion(raw, style) = v
<1> DEFINE U == ToSet(v) \cup Digits \cup ToSet(Markers) \cup {":", "-", "r"}
<1>1. v \in Seq(U) /\ Len(v) \in Nat /\ Len(v) >= 1
  <2>1. v \in Seq(ToSet(v)) /\ Len(v) \in Nat /\ Len(v) >= 1
    BY ReleaseFacts
  <2> QED
    BY <2>1
<1>2. CASE style = "Verbatim"
  BY <1>2 DEF Packed, UpstreamVersion
<1>3. CASE style = "Revision"
  <2>1. CASE raw = v
    BY <1>3, <2>1, RevisionStyleCut
  <2>2. CASE raw # v
    <3>1. PICK d \in Digits : raw = v \o <<"-", "r", d>>
      <4>1. Packed(v, style) = {v} \cup {v \o <<"-", "r", d>> : d \in Digits}
        BY <1>3 DEF Packed
      <4> QED
        BY <2>2, <4>1
    <3>2. <<"-", "r", d>> \in Seq(U)
      OBVIOUS
    <3> HIDE DEF U
    <3>3. /\ raw \in Seq(U) /\ Len(raw) = Len(v) + 3
          /\ \A i \in 1 .. Len(v) : raw[i] = v[i]
          /\ raw[Len(v) + 1] = "-" /\ raw[Len(v) + 2] = "r" /\ raw[Len(v) + 3] = d
      BY <1>1, <3>1, <3>2
    <3> QED
      BY <1>3, <3>3, RevisionStyleCut
  <2> QED
    BY <2>1, <2>2
<1>4. CASE style = "Control"
  <2>1. PICK epoch, repack, d :
          /\ epoch = <<>> \/ \E e \in Digits : epoch = <<e, ":">>
          /\ repack = <<>> \/ \E m \in ToSet(Markers) : repack = <<m>>
          /\ d \in Digits
          /\ raw = epoch \o v \o repack \o <<"-", d>>
    <3>1. Packed(v, style)
            = {epoch \o v \o repack \o RevisionOf(d) :
                 epoch \in Epochs, repack \in Repacks, d \in Digits}
      BY <1>4 DEF Packed, RevisionOf
    <3>2. PICK epoch \in Epochs, repack \in Repacks, d \in Digits :
                 raw = epoch \o v \o repack \o RevisionOf(d)
      BY <3>1
    <3> QED
      BY <3>2, Zenon DEF RevisionOf, Epochs, Repacks
  <2>2. epoch \in Seq(U) /\ repack \in Seq(U) /\ <<"-", d>> \in Seq(U)
    <3>1. \A e \in Digits : <<e, ":">> \in Seq(U) /\ <<"-", e>> \in Seq(U)
      OBVIOUS
    <3>2. \A m \in ToSet(Markers) : <<m>> \in Seq(U)
      OBVIOUS
    <3>3. <<>> \in Seq(U)
      OBVIOUS
    <3> HIDE DEF U
    <3> QED
      BY <2>1, <3>1, <3>2, <3>3
  <2> HIDE DEF U
  <2>3. /\ Len(epoch) \in {0, 2} /\ Len(repack) \in {0, 1}
        /\ Len(epoch) = 2 => epoch[1] \in Digits /\ epoch[2] = ":"
        /\ Len(repack) = 1 => repack[1] \in ToSet(Markers)
    BY <2>1
  <2> DEFINE n == Len(epoch)
             r == Len(repack)
             ev == epoch \o v
             evr == ev \o repack
  <2>4. /\ ev \in Seq(U) /\ Len(ev) = n + Len(v)
        /\ \A i \in 1 .. n : ev[i] = epoch[i]
        /\ \A i \in 1 .. Len(v) : ev[n + i] = v[i]
    BY <1>1, <2>2, <2>3
  <2> HIDE DEF ev
  <2>5. /\ evr \in Seq(U) /\ Len(evr) = n + Len(v) + r
        /\ \A i \in 1 .. n : evr[i] = epoch[i]
        /\ \A i \in 1 .. Len(v) : evr[n + i] = v[i]
        /\ r = 1 => evr[n + Len(v) + 1] = repack[1]
    <3>1. /\ evr \in Seq(U) /\ Len(evr) = Len(ev) + r
          /\ \A i \in 1 .. Len(ev) : evr[i] = ev[i]
          /\ \A i \in 1 .. r : evr[Len(ev) + i] = repack[i]
      <4>1. ev \in Seq(U) /\ repack \in Seq(U)
        BY <2>2, <2>4
      <4> QED
        BY <4>1 DEF evr
    <3> QED
      BY <1>1, <2>3, <2>4, <3>1
  <2> HIDE DEF evr
  <2>6. raw = evr \o <<"-", d>>
    BY <2>1 DEF ev, evr
  <2>7. /\ raw \in Seq(U) /\ Len(raw) = n + Len(v) + r + 2
        /\ \A i \in 1 .. n : raw[i] = epoch[i]
        /\ \A i \in 1 .. Len(v) : raw[n + i] = v[i]
        /\ r = 1 => raw[n + Len(v) + 1] = repack[1]
        /\ raw[n + Len(v) + r + 1] = "-"
        /\ raw[n + Len(v) + r + 2] = d
    <3> DEFINE tail == <<"-", d>>
    <3>1. Len(tail) = 2 /\ tail[1] = "-" /\ tail[2] = d /\ tail \in Seq(U) /\ raw = evr \o tail
      BY <2>2, <2>6
    <3> HIDE DEF tail
    <3>2. /\ raw \in Seq(U) /\ Len(raw) = Len(evr) + Len(tail)
          /\ \A i \in 1 .. Len(evr) : raw[i] = evr[i]
          /\ \A i \in 1 .. Len(tail) : raw[Len(evr) + i] = tail[i]
      <4>1. tail \in Seq(U) /\ raw = evr \o tail
        BY <3>1
      <4>2. evr \in Seq(U)
        BY <2>5
      <4> QED
        BY <4>1, <4>2
    <3> QED
      BY <1>1, <2>3, <2>5, <3>1, <3>2
  <2>8. n = 2 => raw[1] \in Digits /\ raw[2] = ":"
    BY <2>3, <2>7
  <2> HIDE DEF n, r
  <2>9. n \in {0, 2} /\ r \in {0, 1} /\ (r = 1 => raw[n + Len(v) + 1] \in ToSet(Markers))
    BY <2>3, <2>7 DEF n, r
  <2>10. UpstreamVersion(raw, "Control") = v
    BY <2>1, <2>7, <2>8, <2>9, ControlCut
  <2> QED
    BY <1>4, <2>10
<1> QED
  BY <1>2, <1>3, <1>4 DEF Style

\* An entry of a manifest is written in it, and its version is what is left when
\* the packager's additions are taken off.
LEMMA ClaimIsWritten ==
  ASSUME NEW t \in Manifests, NEW claim \in ToSet(ManifestClaims(t)), claim[2] # NotGiven
  PROVE  \E w \in Written(t) :
           /\ w[1] = claim[1]
           /\ claim[2] = UpstreamVersion(w[2], VersionStyle(Detect(t)))
<1>1. CASE Detect(t) = "Control"
  <2>1. claim \in ToSet(PackageDatabase(t))
    BY <1>1 DEF ManifestClaims
  <2>2. PICK i \in DOMAIN t :
          claim = <<StanzaName(t[i]), UpstreamVersion(Field(t[i], "Version"), "Control")>>
    BY <2>1, ClaimOfStanza, ReleaseAssumption
  <2>3. <<StanzaName(t[i]), Field(t[i], "Version")>> \in Written(t)
    BY <1>1 DEF Written, ToSet
  <2> QED
    BY <1>1, <2>2, <2>3 DEF VersionStyle
<1>2. CASE Detect(t) # "Control"
  <2> DEFINE lines == Lines(t)
             Of(i) == ColumnClaims(lines[i], Detect(t))
             U == UNION {ToSet(Of(i)) : i \in DOMAIN lines}
             ss == [i \in DOMAIN lines |-> Of(i)]
  <2>1. ASSUME NEW i \in DOMAIN lines
        PROVE  /\ Of(i) \in Seq(ToSet(Of(i)))
               /\ \A x \in ToSet(Of(i)) :
                    /\ x[1] = lines[i].word
                    /\ \/ x[2] = NotGiven
                       \/ x[2] = UpstreamVersion(lines[i].version, VersionStyle(Detect(t)))
    <3>1. CASE Of(i) = <<>>
      BY <3>1 DEF ToSet
    <3>2. CASE Of(i) # <<>>
      BY <3>2 DEF ColumnClaims, ToSet
    <3> QED
      BY <3>1, <3>2
  <2>2. ss \in Seq(Seq(U))
    <3>1. Len(lines) \in Nat /\ DOMAIN lines = 1 .. Len(lines)
      BY ReleaseAssumption
    <3>2. \A i \in DOMAIN lines : Of(i) \in Seq(U)
      BY <2>1
    <3> HIDE DEF U, lines, Of
    <3> QED
      BY <3>1, <3>2
  <2>3. ManifestClaims(t) = FlattenSeq(ss)
    BY <1>2 DEF ManifestClaims
  <2> HIDE DEF ss, U, Of
  <2>4. ManifestClaims(t) \in Seq(U)
    BY <2>2, <2>3, JoinedFrom
  <2>5. claim \in U
    BY <2>4 DEF ToSet
  <2>6. PICK i \in DOMAIN lines : claim \in ToSet(Of(i))
    BY <2>5 DEF U
  <2>7. <<lines[i].word, lines[i].version>> \in Written(t)
    BY <1>2 DEF Written, ToSet
  <2> QED
    BY <2>1, <2>6, <2>7
<1> QED
  BY <1>1, <1>2

\* An entry that has a version has the release that was packed, with all of its
\* dashes and without any of the packager's additions.
THEOREM DeclaredReleases == ReconcileSpec => []DeclaredIsTheRelease
<1>1. ASSUME ReconcileIInv, NEW entry \in ToSet(declared), entry.version # NotGiven,
             manifest # None, phase # "parsing"
      PROVE  \E w \in Written(manifest) :
               /\ w[1] = entry.raw
               /\ \A v \in Version :
                    w[2] \in Packed(v, VersionStyle(Detect(manifest))) => entry.version = v
  <2> DEFINE style == VersionStyle(Detect(manifest))
  <2>1. manifest \in Manifests /\ declared = Parse(manifest)
    BY <1>1 DEF ReconcileIInv
  <2>2. PICK i \in DOMAIN ManifestClaims(manifest) : entry = Declared(ManifestClaims(manifest)[i])
    BY <1>1, <2>1 DEF Parse, ToSet
  <2> DEFINE claim == ManifestClaims(manifest)[i]
  <2>3. /\ claim \in ToSet(ManifestClaims(manifest))
        /\ entry.raw = claim[1] /\ entry.version = claim[2]
    BY <2>2 DEF ToSet, Declared
  <2> HIDE DEF claim
  <2>4. PICK w \in Written(manifest) :
          w[1] = claim[1] /\ claim[2] = UpstreamVersion(w[2], style)
    BY <1>1, <2>1, <2>3, ClaimIsWritten
  <2>5. style \in Style
    BY DEF Detect, VersionStyle, Style
  <2> HIDE DEF style
  <2>6. \A v \in Version : w[2] \in Packed(v, style) => UpstreamVersion(w[2], style) = v
    BY <2>5, PackedIsUnpacked
  <2> QED
    BY <2>3, <2>4, <2>6 DEF style
<1>2. ReconcileIInv => DeclaredIsTheRelease
  <2>1. ReconcileIInv /\ ToSet(declared) # {} => manifest # None /\ phase # "parsing"
    BY DEF ReconcileIInv, ToSet
  <2> QED
    BY <1>1, <2>1 DEF DeclaredIsTheRelease
<1> QED
  BY <1>2, ReconcileInvariant, PTL

=============================================================================
