----------------------------- MODULE Reconcile ------------------------------
(***************************************************************************)
(* The reconcile command (crates/cli/src/main.rs, crates/identify/src/     *)
(* manifest.rs): a build manifest is parsed, the image is inventoried as   *)
(* the scan command does it, and the two are compared entry by entry.      *)
(* Without a manifest the command is scan. What Packages finds in a text   *)
(* ties the module to Identify: a status file of the image has as stanzas  *)
(* what package_database makes of its text.                                *)
(***************************************************************************)
EXTENDS Scan, Packages

CONSTANTS
  Manifests,   \* the texts given to the command
  Records,     \* the texts of the status files images hold
  StatusFile   \* text -> the facts of the status file with that text

ASSUME ReconcileAssumption ==
  /\ Version \subseteq Seq(UNION {ToSet(v) : v \in Version})
  /\ StartsWith = {s \in Version \X Version : IsPrefix(s[2], s[1])}
  /\ None \notin Manifests /\ None \notin BOOLEAN
  /\ NotGiven \notin State
  /\ DOMAIN StatusFile = Records
  /\ \A t \in Records :
       /\ StatusFile[t] \in Files
       /\ StatusFile[t].db
       /\ StatusFile[t].stanzas = ToSet(PackageDatabase(t))
       /\ StatusFile[t].name # None
       /\ t \in Seq(ToSet(t))
       /\ t = <<>> \/ Detect(t) = "Control"
  /\ \A f \in Files : f.db => \E t \in Records : f = StatusFile[t]
  /\ \A t \in Manifests :
       /\ ManifestClaims(t) \in Seq(ToSet(ManifestClaims(t)))
       /\ \A claim \in ToSet(ManifestClaims(t)) :
            claim[1] \in Lib /\ (claim[2] = NotGiven \/ claim[2] \in Seq(ToSet(claim[2])))
  \* A text with fields has a stanza of a package, and only fields of such a
  \* text are continued on indented lines.
  /\ \A t \in Manifests : \A i \in DOMAIN Lines(t) :
       Lines(t)[i].sep = ":" => Detect(t) = "Control"
  /\ \A t \in Manifests : \A i \in DOMAIN Lines(t) :
       Lines(t)[i].indented => Lines(t)[i].sep = ":"

\* normalize_pkg takes a name to lower case before it looks it up.
ASSUME LowerAssumption ==
  /\ Lower \in [Lib -> Lib]
  /\ \A n \in Lib : Lower[Lower[n]] = Lower[n] /\ NormalizePkg[Lower[n]] = NormalizePkg[n]

\* How packagers write releases: the parts they add are told apart, and an
\* upstream release has none of them, nor an end like a revision of OpenWrt.
ASSUME ReleaseAssumption ==
  /\ Digits \cap ({":", "-", "r"} \cup ToSet(Markers)) = {}
  /\ ToSet(Markers) \cap {":", "-", "r"} = {}
  /\ Markers \in Seq(ToSet(Markers))
  /\ \A v \in Version :
       /\ v # <<>>
       /\ \A i \in DOMAIN v : v[i] # ":" /\ v[i] \notin ToSet(Markers)
       /\ \A i \in DOMAIN v : v[i] = "-" => ~IsRevision(After(v, i), "Revision")
  /\ \A t \in Manifests : t \in Seq(ToSet(t)) /\ Lines(t) \in Seq(ToSet(Lines(t)))

VARIABLES
  manifest,        \* the manifest given, None for the scan command
  phase,           \* "parsing", "inventory", "compared", "bailed"
  declared,        \* Vec<Declared>
  corroborated,    \* the three lists of Reconciliation
  uncorroborated,
  unmatched

comparison == <<corroborated, uncorroborated, unmatched>>

reconcileVars == <<scanVars, manifest, phase, declared, comparison>>

ReconcileInit ==
  /\ ScanInit
  /\ manifest \in Manifests \cup {None}
  /\ phase = IF manifest = None THEN "inventory" ELSE "parsing"
  /\ declared = <<>>
  /\ corroborated = <<>>
  /\ uncorroborated = <<>>
  /\ unmatched = {}

\* Mutant: the name is compared as the manifest wrote it.
Bug_Declared(claim) ==
  [project |-> CProject(claim[1]), raw |-> claim[1], version |-> claim[2]]

\* Package names are normalized as those of a package database are.
Declared(claim) ==
  [project |-> CProject(NormalizePkg[Lower[claim[1]]]), raw |-> claim[1],
   version |-> claim[2]]

Parse(text) ==
  LET claims == ManifestClaims(text)
  IN  [i \in DOMAIN claims |-> Declared(claims[i])]

\* A manifest of which nothing is understood ends the command.
ParseManifest ==
  /\ phase = "parsing"
  /\ declared' = Parse(manifest)
  /\ phase' = IF declared' = <<>> THEN "bailed" ELSE "inventory"
  /\ UNCHANGED <<scanVars, manifest, comparison>>

\* An image without a filesystem ends it as well.
NothingToCompare ==
  /\ phase = "inventory"
  /\ manifest # None
  /\ stage = "extracted"
  /\ \A p \in Path : tree[p] = Absent
  /\ phase' = "bailed"
  /\ UNCHANGED <<scanVars, manifest, declared, comparison>>

Inventory ==
  /\ phase = "inventory"
  /\ manifest # None /\ stage = "extracted" => \E p \in Path : tree[p] # Absent
  /\ TakeInventory
  /\ UNCHANGED <<manifest, phase, declared, comparison>>

WriteReport ==
  /\ manifest = None
  /\ \E now \in Clock : Report(now)
  /\ UNCHANGED <<manifest, phase, declared, comparison>>

-----------------------------------------------------------------------------
\* Mutant: only the very version declared agrees.
Bug_Agree(want, got) == want = got

\* refines, on any two versions.
Agree(want, got) == IsPrefix(want, got) \/ IsPrefix(got, want)

Found(q) == {c \in components : c.project = q}

Observed(q) == {c.version : c \in Found(q)} \ {None}

\* Mutant: whatever can be compared agrees.
Bug_Agrees(entry) ==
  IF entry.version = NotGiven \/ Observed(entry.project) = {} THEN None ELSE TRUE

\* None when either side has no version.
Agrees(entry) ==
  IF entry.version = NotGiven \/ Observed(entry.project) = {} THEN None
  ELSE \E got \in Observed(entry.project) : Agree(entry.version, got)

Corroborated(entry) ==
  [project |-> entry.project, declared |-> entry.version,
   observed |-> Observed(entry.project), agrees |-> Agrees(entry),
   evidence |-> UNION {{e.kind : e \in c.evidence} : c \in Found(entry.project)}]

FromBytes(c) == \E kind \in c.evidence : kind # "PackageDatabase"

\* Mutant: only what has a version is observed.
Bug_Matched(entry) == Observed(entry.project) # {}

Matched(entry) == Found(entry.project) # {}

\* The two lists with one more entry, which goes to the end of one of them.
Listed(lists, entry) ==
  IF Matched(entry)
  THEN [lists EXCEPT !.corroborated = Append(@, Corroborated(entry))]
  ELSE [lists EXCEPT !.uncorroborated = Append(@, entry)]

\* The entries of the manifest are taken in order.
Lists ==
  LET lists[i \in 0 .. Len(declared)] ==
        IF i = 0 THEN [corroborated |-> <<>>, uncorroborated |-> <<>>]
        ELSE Listed(lists[i - 1], declared[i])
  IN  lists[Len(declared)]

Compare ==
  /\ phase = "inventory"
  /\ manifest # None
  /\ pc = "done"
  /\ corroborated' = Lists.corroborated
  /\ uncorroborated' = Lists.uncorroborated
  /\ unmatched' = {c.project : c \in components} \ {entry.project : entry \in ToSet(declared)}
  /\ phase' = "compared"
  /\ UNCHANGED <<scanVars, manifest, declared>>

ReconcileNext ==
  \/ ParseManifest
  \/ NothingToCompare
  \/ Inventory
  \/ WriteReport
  \/ Compare

ReconcileSpec == ReconcileInit /\ [][ReconcileNext]_reconcileVars

-----------------------------------------------------------------------------
(***************************************************************************)
(* Properties.                                                             *)
(***************************************************************************)
\* The files of the analyzed tree that yielded something for project q.
Supporting(q) == {p \in Path : \E e \in evidence[q] : e.path = p}

\* tests/manifest.rs:2, "the one thing the comparison must never do: claim
\* absence": an entry is listed as uncorroborated exactly when no file of the
\* tree says anything of the project, versioned or not, contradictory or not.
AbsenceNotClaimed ==
  phase = "compared" =>
    /\ \A entry \in ToSet(uncorroborated) : Supporting(entry.project) = {}
    /\ \A c \in ToSet(corroborated) : Supporting(c.project) # {}
    /\ Len(corroborated) + Len(uncorroborated) = Len(declared)

\* One of two versions is the other one told more precisely.
Alike(a, b) == IsPrefix(a, b) \/ IsPrefix(b, a)

\* "... or claim agreement it did not establish": an entry agrees only when a
\* file shows a release like the one declared, and like it also in the finest
\* form any file gives that release. 1.0.2 in one file is no agreement with
\* 1.0.2r when another file makes it 1.0.2h.
AgreementsAreReal ==
  phase = "compared" =>
    \A c \in ToSet(corroborated) :
      c.agrees = TRUE =>
        \E v \in Version :
          /\ \E p \in Path : Shows(tree[p], c.project, v)
          /\ Alike(c.declared, v)
          /\ \A w \in Seen(c.project) : IsPrefix(v, w) => Alike(c.declared, w)

\* Nor a disagreement: of an entry that disagrees every release seen has a form,
\* the same one or a finer one, that the declared one neither refines nor is
\* refined by. So no file shows the release declared or a finer one, although
\* the shorter versions of a project were collapsed before.
DisagreementsAreReal ==
  phase = "compared" =>
    \A c \in ToSet(corroborated) :
      c.agrees = FALSE =>
        \A v \in Seen(c.project) :
          \E w \in Seen(c.project) : IsPrefix(v, w) /\ ~Alike(c.declared, w)

\* What the packagers of Debian put before and behind a release.
Epochs == {<<>>} \cup {<<d, ":">> : d \in Digits}
Repacks == {<<>>} \cup {<<m>> : m \in ToSet(Markers)}

\* How the packagers of each style write the release v.
Packed(v, style) ==
  CASE style = "Control" ->
         {epoch \o v \o repack \o <<"-", d>> :
            epoch \in Epochs, repack \in Repacks, d \in Digits}
    [] style = "Revision" -> {v} \cup {v \o <<"-", "r", d>> : d \in Digits}
    [] style = "Verbatim" -> {v}

\* The names and versions a text gives its packages, as they are written.
Written(text) ==
  IF Detect(text) = "Control"
  THEN {<<StanzaName(s), Field(s, "Version")>> : s \in ToSet(text)}
  ELSE {<<l.word, l.version>> : l \in ToSet(Lines(text))}

\* lib.rs:361, stripping too much "would turn 1.0.2-beta1 into a claim about
\* 1.0.2, which shipped different code": what is declared is the release the
\* packager packed, with all of its dashes and without any of his additions.
DeclaredIsTheRelease ==
  \A entry \in ToSet(declared) :
    entry.version # NotGiven =>
      \E w \in Written(manifest) :
        /\ w[1] = entry.raw
        /\ \A v \in Version :
             w[2] \in Packed(v, VersionStyle(Detect(manifest))) => entry.version = v

\* A manifest that is the image's own package record agrees with the image:
\* the record is read twice, by the analyzer and as the manifest, and both
\* readings take the same packages, names and releases from it.
OwnRecordAgrees ==
  /\ phase = "compared"
  /\ manifest \in Records
  /\ \E p \in Path : tree[p] = StatusFile[manifest]
  =>
      /\ uncorroborated = <<>>
      /\ \A c \in ToSet(corroborated) : c.agrees # FALSE

\* manifest.rs:66, "the difference between reading a manifest and recovering a
\* component from bytes": an entry counts as recovered from the bytes exactly
\* when a file other than a package record speaks for the project.
FromBytesIsTrue ==
  phase = "compared" =>
    \A c \in ToSet(corroborated) :
      FromBytes(c) <=> \E p \in Supporting(c.project) : ~tree[p].db

\* Both lists of the comparison say what the tree supports.
ListsAreTrue == AbsenceNotClaimed /\ FromBytesIsTrue

\* Whatever cites a package record is in it with another status than these.
InRecordUnlike(states) ==
  pc = "done" =>
    \A c \in components : \A e \in c.evidence :
      e.kind = "PackageDatabase" =>
        \E t \in Records :
          /\ tree[e.path] = StatusFile[t]
          /\ \E i \in DOMAIN t :
               /\ Field(t[i], "Status") \notin states
               /\ CProject(NormalizePkg[StanzaName(t[i])]) = c.project

\* "dpkg keeps entries for packages that were removed but left config behind":
\* a project that only such packages of a record speak for is not found there.
RemovedNotReported == InRecordUnlike({"config-files"})

-----------------------------------------------------------------------------
(***************************************************************************)
(* What comments of the source say and the code does not do.               *)
(***************************************************************************)
\* lib.rs:314, a package database is "the device's own record of what was
\* installed": a project of which it says that it is not installed is not
\* found. "not-installed" holds the word the status is searched for.
NotInstalledNotReported == InRecordUnlike({"config-files", "not-installed"})

\* manifest.rs:116-117, "one well-formed line is enough to tell the two column
\* formats apart": a comment is no such line, and a manifest says the same
\* with its comments and without.
CommentsDecideNothing ==
  phase # "parsing" /\ manifest # None =>
    declared =
      Parse([i \in DOMAIN manifest |-> SelectSeq(manifest[i], LAMBDA l : l.sep \notin {"#", "#-"})])
=============================================================================
