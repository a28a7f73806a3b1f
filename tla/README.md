# A specification of felf

felf reads a firmware image and writes a software bill of materials: it takes
the wrappers off the image, finds a filesystem, extracts it, recognises the
open-source projects whose files it holds, and reports each with the evidence
for it. It is a single-threaded command. What is hard in it is not concurrency
but long sequences of legal steps over hostile bytes: sizes that move a search,
wrappers inside wrappers, a decoder that copies from its own output, results
that are filtered and collapsed after they were gathered, and the promise that
everything reported is warranted and everything not read is declared.

This directory holds TLA+ modules of these parts, TLC configurations which
check them on small instances, and proofs checked by TLAPS.

## 1. Inventory

Data flows in one direction, by calls and by the store, which is the only state
shared between the parts:

    peel -> find_filesystems -> (squashfs | cpio) -> Store
         -> expand_nested (archive readers -> Store) -> Analyzer -> build_components
         -> Inventory -> emit (CycloneDX, report)

| component | source | state | operations | what is hard | what makes it correct |
|---|---|---|---|---|---|
| store | core/src/store.rs | paths -> digests, digests -> bytes | insert, get, iter, len, unique_blobs | contents shared by paths, overwritten paths | it is a map; equal bytes are held once |
| inventory types | core/src/lib.rs | components, gaps | gap, push | none, plain data | none |
| byte access | core/src/bytes.rs | none | u16/u32 reads, find | bounds | never reads outside |
| container peeling | unpack/src/container.rs | recursion only | peel, peel_headers | recursion over image data; which bytes go on | keeps a filesystem that is there; ends, or fills the stack only at the price of depth |
| uImage search | unpack/src/container.rs | position, best payload | uimage_payload | a size field moves the position | finds the largest of the headers it is to read; stays inside the image; ends |
| filesystem search | unpack/src/lib.rs | hits | find_filesystems, encrypted_marker, entropy | a limit on the hits of all kinds, a sort by offset | no hit below the limit hides another |
| archive readers | unpack/src/archive.rs | position, members | unzip, untar, uncpio, gunzip | cut-off archives, missing sizes, padding | members apart, whole ones read, none made up |
| LZMA decoder | unpack/src/lzma.rs | output, four distances, state, range coder | decode, decode_alone | a copy reads what is being written; wrapping subtraction; end of input inside a symbol | no reference outside the output; bound kept; ends |
| SquashFS reader | unpack/src/squashfs.rs | fragment cache, metadata cache, tables | parse, walk, file_data | references in cycles, tables and blocks that do not decompress, fragments shared by files | ends, without a panic; every readable file under its path; an undamaged file byte for byte |
| extraction | cli/src/main.rs | store, gaps, two loop positions | extract | two loops left from the inside; reasons depend on earlier gaps | first readable filesystem; the rest declared |
| nested archives | cli/src/main.rs | store, cloned archives | expand_nested, scan | the order of a HashMap; absolute member names overwrite files | what is analyzed is the image with the members laid over |
| analyzer | identify/src/lib.rs | version table and evidence per project | analyze, build_components | filtering and contradictions after collapsing | every version warranted by evidence of its own, nothing lost |
| rule tables | identify/src/rules.rs | constants | none | none | none |
| manifests, reconciliation | identify/src/manifest.rs, identify/src/lib.rs | none | detect, parse, package_database, upstream_version, reconcile | one line decides the format; versions are stripped by style, then compared with collapsed ones | no absence, agreement or disagreement is claimed that the tree does not show |
| SBOM and report | emit/src/*.rs | none | cyclonedx, report, serial | dates without a library, duplicate evidence | the date of the calendar; a version points at a file that shows it |

`PROJECT.json` has the same list with the status of every part, and under
`hazards` the places where these parts may go wrong in ways a unit test would
hardly reach, with the properties that look at each.

## 2. Modules

| module | what it models | state and actions, and the code they stand for |
|---|---|---|
| `Store` | `Store` | `paths`, `blobs` are the two maps; `Insert` is `insert`, `Get` is `get`, `IsEmpty` is `is_empty` |
| `FileMap` | what the store promises: a map from paths to bytes | abstract; `Store` implements it |
| `Extract` | `extract` of an image, with `find_filesystems`; EXTENDS `Store` | the three loop indices, the hits of the search and the gaps; one action per branch of the loops, `InsertEntry` inserts one file, `Finish` gives the reason at the end |
| `SquashFs` | `SquashFs::walk` and what it reads with | `stack` holds the calls of `walk_from`, `cache` is `frag_cache`, `out` the entries; one action per way a turn of the loop ends (`SkipEntry`, `Descend`, `ReadFile`, and `Crash` where `block_sizes` divides by zero), `Return` from a directory; `read_meta`, `dir_entries`, `block_sizes`, `fragment` and `file_data` are operators |
| `Identify` | `Analyzer::analyze`, `Found`, `build_components` | `versions` and `evidence` are the fields of `Found` per project, filled by `Record` and by citing; each rule has a set for its call of `record` (`...Records`) and one for its `evidence.push` (`...Sightings`); one action per way a turn of the loop over the paths ends (`SkipUnnamed`, `ReadDatabase`, `ReadPackage`, `ReadUnclassified`, `ReadClassified`), then `BuildComponents` |
| `Packages` | `package_database`, `upstream_version`, `manifest::parse` | pure functions of a text |
| `Calendar` | `civil_from_days`, `timestamp`, and the calendar they are to agree with | pure functions |
| `Scan` | the `scan` command behind `extract`; EXTENDS `Identify`, `Calendar` | `tree` is the store; `CollectArchives` clones the candidates, `ExpandArchive` inserts the members of one, in any order, `Analyze` is a step of `Identify`, `Report` writes the document |
| `Reconcile` | the `reconcile` command; EXTENDS `Scan`, `Packages` | `ParseManifest`, then the steps of `Scan` as `Inventory`, then `Compare`; the two ways the command bails out |
| `UImage` | `uimage_payload` | `data`, `pos`, `best`; one action per way a turn of the loop ends, over byte offsets. It has no specification of its own: `Peel` takes its actions |
| `Peel` | `peel`, `peel_headers`; EXTENDS `UImage` | `data` and `at` are what `peel` and `peel_headers` were called with, `peeled` and `stripped` their calls on the stack, `out` what is returned; `pc` is where `peel` is: unwrapping, at the raw image, in the search, at its payload |
| `Archive` | `unzip`, `untar`, `uncpio` | `pos`, `out` over byte offsets of the three layouts |
| `Lzma` | the symbol loop of `decode` | `out`, `state`, `rep0`..`rep3`, `exhausted`; one action per symbol, `CopyByte` for a turn of the copy loop, `pc = "dangling"` for the exits at a failed `out.get` |
| `Window` | what any LZ decoder may do to its output | abstract; `Lzma` implements it |
| `Range` | `RangeDecoder` under the symbol loop | `range`, `code`, `exhausted`, the probabilities; `Bit`, `BitOutside` and `DirectBit` with `Normalize` and `NextByte` inside them; `exact` is the number without wrapping that `code` is compared with |
| `ArchiveProofs`, `ExtractProofs`, `LzmaProofs`, `PeelProofs`, `RangeProofs`, `ReconcileProofs`, `SquashFsProofs`, `UImageProofs` | theorems about the module they extend, and about those it extends in turn | |
| `MC...` | instances for TLC | small files, archives, images, texts; one sentence in each says what its inputs cover |

The modules compose where the code does. `Extract` fills the store of `Store`
file by file, and the refinement of `FileMap` is checked on the behaviours of
`Extract`. `Reconcile` is the two commands from the extracted tree to their
output: it runs the steps of `Scan`, which runs the whole of `Identify` on a tree
that it changed, and compares the components with what `Packages` makes of a
manifest; what `Packages` makes of a status file in turn are the facts `Identify`
has of it. `Peel` runs the search of `UImage` in the innermost layer and goes on with
the payload it keeps; `Lzma` takes from `Range` that the input runs out.

### Abstractions

* A file is what the rules match in it (`FileFacts`); regular expressions are not
  evaluated. In `Identify` a version is a value and the prefix order of strings,
  the one thing asked of versions, is the constant relation `StartsWith`, assumed
  to be a partial order. In `Packages` and `Reconcile` a version is the sequence
  of its parts (separators, runs of digits, `r`, repack markers, the rest), of
  which none is the beginning of another, so that prefixes of strings are prefixes
  of sequences; `ReconcileAssumption` ties the two views. A text is a sequence of
  stanzas of lines, a line its separator, key, word and version.
* `ReconcileAssumption` and `ReleaseAssumption` say of the texts what their
  writers keep to: a status file has the control format; an upstream release holds
  no colon, no repack marker and no hyphen before something that reads like a
  revision. The properties that rest on them say nothing about a text written
  otherwise.
* The value an `Evidence` carries in the code is a file name or "package version";
  in the model it is the version it names, `None` when it names none. The order of
  evidence in a list is left out. Confidence is kept, wording, CPE and purl strings
  are not.
* BLAKE3 is injective.
* A candidate of `Extract` is the sequence of the magic numbers in it, each with
  what its reader makes of it. `find_filesystems` computes on these: which hits
  are looked at before the limit, and their sort.
* An image of `SquashFs` says where its inodes lie, to how many bytes each metadata
  block decompresses, and what each data block and fragment decompresses to. Cutting
  a table at any byte cuts the inodes, listings and names in it at that byte. The
  cache of metadata blocks does not show, since an image does not change while it is
  read and failures are cached like successes.
* In `Lzma` the range coder may answer any bit, and its input may run out at any
  symbol. A byte of the output is named by where it was first written. In `Range`
  the caller may ask for any bit, with any probability of the tables or none.
* `Lower` is the lower case of a name, which `package_database` and `declared` take
  and `normalize_pkg` does not see (`LowerAssumption`).
* An archive member and a filesystem are what their decoders
  yield. `Archive` works with the real layouts (header sizes, names, padding)
  over offsets; bytes that are no header of the writer's may pass for any header
  of `Junk`. Octal and hexadecimal fields are the declared size they are read to.
* A layer of `Peel` is a blob with a size, a kind, what is inside, and the uImage
  headers in it. Nothing is assumed of how layers nest, except what bytes force
  (`Shrinks`): a partition of a TRX and a member of a tar are shorter than what
  they are part of, and so is what is behind a CHK header, unless its length field
  is zero. A gzip stream or a zip may hold more bytes than it has, and may hold
  itself. `ShowsThrough` restricts the images: the bytes of an uncompressed wrapper
  hold the signatures of what is inside, and none of their own.
* The clock is a day and a second of it. The count of seconds the code starts from
  has 64 bits; the quotient and the remainder it takes first are the two numbers.

## 3. Runs

No run needs symmetry. `CHECK_DEADLOCK FALSE` stands in every configuration of
a command or function that returns (its last state has no step), and in that of
the range coder, which is not asked any more when its caller has seen `exhausted`.

The type invariant of a module is the first part of one of its properties where
the run does not state it alone (`GapsAreExact`, `WalkIsComplete`,
`VersionsAreLocated`, `LargestLayerKept`, `MembersApart`); two or three
properties that say one thing about a result together are one conjunction with
named parts (`GapsAreExact`, `ListsAreTrue`, `LargestLayerKept`,
`MembersAreExact`).

| run | instance | question |
|---|---|---|
| `identify` | 3 files, each any of some 40 sets of facts; 6 projects, 4 versions of which one is the series of another | is every reported version cited from its own file, no copy cited by another, no evidence lost, no release lost; is a build path warranted |
| `identify_contradiction` | 2 of these files | violation: see section 6 |
| `reconcile` | two archives of up to two members, one possibly overwriting a file or the other archive by an absolute name, plain files and status files; no manifest (then it is `scan`) or one of three formats, the image's own record among them; 54 moments of the clock | is the analyzed tree the image with members laid over; is a release in an archive reported with its version, unless one file shows two; does every version in the document point at a file that shows it; is the stamp the date; does the comparison claim an absence, an agreement, a disagreement or a recovery from bytes only when the tree shows it; is the declared version the release that was packed; does a record agree with its own image; are packages left out of which only the configuration remains |
| `nested` | the same | violation: see section 6 |
| `extract` | a candidate of up to four magic numbers of seven outcomes, or two candidates and three kinds of wrapping | is the store the first readable filesystem and nothing else, despite the limit, the sort and the order of the kinds; is it a map throughout; is each gap true and everything met and not read declared |
| `squashfs` | a tree of two directories and two files with a cycle; either table cut in a header, a name, a block list, or lost; files with holes, lost and short blocks; four fragment tables; roots that are no directory; a block size of zero | does the walk return each file that a readable route leads to, once, under its path; is what precedes a bad block intact; is an undamaged file exact; does the walk end, unless the block size is zero |
| `squashfs_crash` | the same | violation |
| `lzma` | 10 bytes of output, dictionary of 4, distances in, at the edge of and past the window, lengths that end in, at and past the limit | does a distance ever point outside the output; are copies periodic; is the queue of distances in order of use; does it write as a window of that reach and limit does; does it end |
| `range` | digits to the base four, probabilities in eighths, up to seven digits | is one normalization enough; does the wrapping code stay the exact difference; does the input run out |
| `peel` | three layers nested in every way over a stack of two calls; two layers small enough for it; chains of headers; 240 bytes with uImage headers at four offsets, on and off the word boundary, in another's payload, at the end, with six size and payload pairs; payloads that are wrapped themselves | is the largest member the next layer, and a filesystem in the innermost layer kept; what can fill the stack; is the largest payload of the headers to be read kept, at any alignment; does it lie inside the image; does peeling end |
| `peel_crash` | of these, the two small layers without gzip and zip | violation |
| `archive` | up to three entries of five sorts in three formats, cut at eight places after a header | are members apart and inside the data; is every whole member read and nothing invented; does the walk end |

### Bounds, and why they are enough

* `NumPaths = 3` in `identify`: the properties relate at most two versions of one
  project, each with a file of its own, and a third file that belongs to neither
  or refines one of them. The theorems hold for every number. In `reconcile` the 8
  paths are two archives with the places of two members each, and two plain files.
* `MaxMembers = 2`: two members of one name, and two of different ones.
* `MCClock`: leap days and the days around them, ends of months and years,
  1970, 1972, 2000, 2024, 2100 and 2400, at the first, a middle and the last
  second. The theorem holds for every day.
* `HitCap = 1` for the code's 64, and `CpioMin = 1` for its 4: with four magic
  numbers the limit is reached within one kind, between kinds and not at all, and a
  cpio has as many members as the bound or more.
* `DepthLimit = 2` for the code's 64: the cycle of the tree reaches it on any image
  whose tables are whole, and a file lies above, at and below it.
* `Byte = 4`, `Total = 8`, `Move = 4`, `Least = 3` in `range`: the ratios satisfy
  `RangeAssumption`, as 256, 2048, 32 and 31 do. One context is enough, since
  contexts do not touch each other's probabilities. `MaxInput = 7` is two digits
  more than the five read at the start, `MaxOverrun = 2` the bits of one symbol
  behind the end.
* `MaxEntries = 3`, `Cuts`: an error in one entry shows in the next, and a third
  shows whether the walk is back in step. The cuts are 0 (at a header), 29 (one
  byte short of a zip header), 37/38, 120/121, 516/517 (one byte short of, and at,
  the end of a body in zip, cpio and tar).
* `StackLimit = 2` in `peel`: less than some nests need and enough for others, so
  that the stack fills for the reasons `CrashTakesDepth` names, or does not. (The
  last one alone, a payload longer than an image the stack has room for, needs a
  stack of more than 64 calls and is left to the theorem.) The real stack holds
  thousands of frames; the theorem holds for any number.
* Offsets 0, 66, 68 and 176 in 240 bytes: one header may follow the payload of
  another at a word (68) or off it (66), lie inside it, or end where the image ends.
  Four blobs: an image, the layer in it, a payload, and what is in that.
* `Limit = 10`, `DictSize = 4`: room for copies that overlap themselves, cross
  the limit, and refer further back than the dictionary.

### Fairness

`Lzma`, `Peel` (with the search), `Archive`, `SquashFs` and `Range` assume weak
fairness of `Next`: each is a loop or a recursion in one thread, which takes its next step
as long as there is one. Nothing more is assumed; in particular the input of the
decoder need never run out in `Lzma`, and that it does is what `InputRunsOut` of
`Range` shows, by the digits that each bit uses up at the latest.

## 4. Proofs

Every invariant and every action property that a run checks, both refinements of an
abstract specification, and that `Reconcile` implements `Scan`, are theorems. They
hold for all values of the constants that satisfy the assumptions of the module,
and the assumptions are evaluated by TLC on each instance. Most properties speak of
an end; each proof module has an inductive invariant, `IInv` unless named
otherwise, that says what the steps before it have achieved so far.

* **`ReconcileProofs`** is about the three specifications that contain each other.
  *The analyzer* (from `PathsAssumption`, `MatchesAssumption`, `FilesAssumption`,
  `PrefixAssumption`): `TypeOK`, `ClaimSupported`, `NoCrossCitation`,
  `NothingDropped`, `BuildPathsWarranted` and `EveryReleaseAccounted`. The
  properties speak about `components`, which one step sets; `IInv` carries what
  that step reads: the types, that the evidence is what the rules yield for the
  files read (`Gathered`), that the version table has a file under a version
  exactly when the evidence names the two (the two sets of each rule say the
  same), and that the components are empty until `build_components` has run and
  afterwards what it makes of the two (`Built`). A surviving version has a file,
  that file an evidence with this value, and that evidence passes the filter of
  its own component and not that of another version unless the file yielded both,
  which is a contradiction. `EveryReleaseAccounted` asks for the end of a chain of
  refinements: among the finitely many versions that refine the one a file shows,
  one that the fewest others refine survives.
  *The scan* (adding `ScanAssumption`, `MembersAssumption`, `ClockAssumption`):
  `ExpansionIsOverlay`, `VersionsAreLocated`, `NestedReleasesReported` and
  `StampIsDate`. `ScanIInv` is `IInv` with the tree in place of the image: while
  archives are expanded nothing has been found, and the tree is what was extracted
  with the members of the expanded archives laid over it (`LaidOver`).
  *The calendar* (no assumption): `DateOfDay`, that `civil_from_days` of every
  natural number of days is a date of the Gregorian calendar with that day number,
  counted by the rule of leap years; and `TimestampNames`, the same of date and
  time. A day of an era is split into centuries, four-year cycles and years
  (`DayOfEra`); `YearFound` shows that the arithmetic finds these again, although it
  divides once by 365.
  *The reconciliation* (adding `ReconcileAssumption`, `LowerAssumption`,
  `ReleaseAssumption`): `ReconcileScans`, that the command implements the scan, so
  that `ScanIInv` holds of it; with `ReconcileIInv`, what the lists of the
  comparison hold, follow `ListsAreTrue`, `AgreementsAreReal`,
  `DisagreementsAreReal`, `OwnRecordAgrees`, `RemovedNotReported` and
  `DeclaredIsTheRelease`. The last goes through `upstream_version` cut by cut: no
  epoch, revision or repack marker of a release is mistaken for one of the
  packaging, and each of the packaging's is found.
* **`ExtractProofs`** (from `HashAssumption`, `ImagesAssumption`): of the store
  alone, to which any file is inserted at any time, `Resolves` and that it
  implements `FileMap`: `insert` keeps the blob that is there, and that this is the
  blob of the new bytes follows from the invariant and the injective hash. Of the
  loops, `FirstReadable`, `GapsAreExact`, and that the store implements the map
  throughout (`ImplementsFileMap`). The invariant says that of the hits passed over
  none can be read and each without a reader is declared (`PassedRightly`), and what
  the store holds in the middle of a filesystem (`Stored`). That the hits are in
  order and leave out only what is not believable or crowded out is shown of
  `find_filesystems` itself, kind by kind.
* **`SquashFsProofs`** (from `ImageAssumption`): `PrefixIsIntact`,
  `WholeFilesAreExact` and `WalkIsComplete`, for every image, and
  `OnlyBlockSizeZeroPanics`, that nothing else ends the walk early. For the bytes,
  `IInv` says that what the cache holds under a start is what the table has of some
  fragment of that start (`CacheIsTrue`), and of every file returned what its inode
  promises (`IsRead`). For the files, `WalkInv` adds that the calls on the stack read
  the directories along one route (`OnTrail`), and that the files returned are in
  one-to-one correspondence with the routes passed: those that lead to a file and
  that no call still has ahead of it (`Returned`, `Ahead`). A step to the next entry
  takes exactly the routes through that entry from those ahead; opening a directory
  keeps those that go further; returning loses none, since no route goes on behind
  the end of a listing.
* **`ArchiveProofs`** (from `ArchiveAssumption`): `MembersApart` and
  `MembersAreExact`. The reader only goes forward (`Ahead`), so that members lie
  apart whatever the headers say. As long as headers give the true sizes it stands
  where the writer began an entry (`OnTrack`), and every entry passed that is whole
  was taken (`At`); the first header that gives another size ends what is promised
  (`Misled`).
* **`PeelProofs`** (from `UImageAssumption`, `PeelAssumption`): `LargestLayerKept`,
  `CrashTakesDepth`, `LargestFound` and `PayloadInImage`. The invariant counts: as
  long as no stream and no zip was opened, the calls on the stack and the bytes
  left are together no more than the image had, since every wrapper taken off was
  longer than what it held; a header of length zero, entered once more, stays
  where it is and is the other way to fill the stack. The signature of a layer shows
  where `peel_headers` has come to (`SignatureFollowed`). The search keeps what the
  lemmas of **`UImageProofs`** say it keeps: whatever chain of headers is to be read,
  the position is a whole number of words behind the end of the last one passed, so
  that none is stepped over, and `best` is the largest so far. There is at most one
  such chain, but the proof does not need it.
* **`LzmaProofs`** (from `LimitAssumption`, `SymbolAssumption`): `TypeOK`,
  `NoDanglingReference`, `OutputBounded`, `CopiesAtDistance`, `RecentlyUsedFirst`
  and `ImplementsWindow`. The decoder checks a distance only when it is new. The
  invariant says why this is enough: either nothing was written, the state is that
  after a literal and no distance is used, or all four distances lie inside the
  output, which only grows (`Inside`); and during a copy the source is exactly the
  last distance behind the end (`Source`). After the function has decided to
  return, a distance it refused may stay in the queue.
* **`RangeProofs`** (from `RangeAssumption`, which the constants of the code
  satisfy): `RangeNormalized` and `InStep`, for every base, scale and input. The
  argument is the lemma `BoundSplits`: the probability never leaves
  `Least .. Total - Least`, so neither part of a normalized range is smaller than
  its `Least`-th share, and one digit brings either back above `Top`
  (`NormalizeRestores`). `InStep` follows: a code below the range stays below its
  part of it, the product with the base stays below `Word`, and the wrap drops
  nothing. In `DirectBit` the difference is read as a signed number; it is negative
  exactly when the code lies in the lower half, since no range exceeds `Word` and
  both halves are below half of it. The exception, `corrupt`, is in the invariant:
  four digits of ones at the start, and the last number of an odd range, which a
  direct bit leaves outside of either half. No encoder writes them.

What a recursive function of the model computes (`EntryAt`, `ReadMeta`, `Above`,
`Start`, the search by kind, the folds over a manifest) is not known to the provers
before the function is shown to exist: lemmas named `...Defined` do so once each, by
the least number for which it would not. The same least number (`Least`) stands for
induction elsewhere, since the library's induction theorems take an operator as
parameter, which the installed provers cannot instantiate.

Only model-checked: liveness (`Terminates` of two modules, `Ends`, `WalkEnds`,
`InputRunsOut`), which is out of the prover's reach. No theorem uses fairness.

## 5. Not modelled

* `bytes.rs`: bounds-checked reads and a substring search, without state.
* `rules.rs`: constant data, of which the instances hold excerpts.
* `load_dir`, the `unpack` command, printing and the writing of files: I/O.
* `report.rs`: an HTML page made of the same inventory; and CPE and purl strings.
* `Superblock::parse`, the decompressors, `gunzip`, BLAKE3 and the regular
  expressions: a library, or a fact about the bytes, which the models take as given.
* The tables of probabilities `decode` asks for, by state and position: they decide
  what a stream means, not whether the decoder is safe; `Range` holds for any choice.
* Memory: a member or a block may be as large as its header says. The readers bound
  it by the bytes that are there, which `Archive` and `SquashFs` have; allocation
  that fails is not modelled.
* Continuation lines whose key is a field that is read (`hazards`, lib.rs:330).
* Sizes near the end of 64 bits: `block_sizes` multiplies the number of blocks a size
  asks for and loops over it, where `SquashFs` takes the blocks that are there.

## 6. Where the code and its words differ

Each is the counterexample of a `violation` run and a finding in `PROJECT.json`:

* `peel_crash`: a CHK header whose length field is zero makes `peel_headers` call
  itself with the same bytes until the stack is full; the tests promise a wrong
  answer or none, never a crash.
* `identify_contradiction`: series are collapsed before contradictions are looked
  for, so that a file which yields two versions may still have one reported.
* `squashfs_crash`: `block_sizes` divides by the block size of the superblock, which
  may be zero; the same tests promise no panic.
* `nested`: an archive that was expanded stays in the tree and is still read as one
  file. When it is not compressed, it shows the releases of all its members, and a
  project with two of them loses its version, which expanding was to prevent.

More of the kind are stated and can be run by hand with the configurations of
these names:

* of `MCIdentify`, `IdentifyReleases` (1.2.1 is taken for the series of 1.2.11) and
  `IdentifyLibc` (a libc known by its bytes alone is not evidence);
* of `MCPeel`, `UImageUnaligned` (after a payload whose size is no multiple of four
  the search steps past every later header on a word boundary) and `PeelSignature`
  (a tar with a filesystem next to a larger file loses it);
* of `MCExtract`, `ExtractUnparsed` (a squashfs signature that does not parse leaves
  no gap for that filesystem; if nothing else is read there is still the general one);
* of `MCReconcile`, `ScanRerun` (two archives that write one path leave it to the
  order of a HashMap), `ReconcileRemoved` (the status not-installed holds the word
  installed, so that a package with this status and a version is reported) and
  `ReconcileComment` (a comment with a dash makes a generic manifest an OpenWrt one,
  of which nothing is understood).

## 7. Plan

Written, in this order: `Identify`, `Store` over `FileMap`, `Lzma` over `Window`,
`Extract`, `Scan`, `UImage` under `Peel`, `Archive`, `SquashFs`, `Range`, `Packages`,
`Calendar`, `Reconcile`; then the proofs of all of them (section 4).

Left: of the refinements, that the members which `Archive` reads are what `Scan`
lays over the tree, and that the walk of `SquashFs` is an `Insert` of `Extract` for
every entry, which join modules that now meet in their constants only.
