------------------------------ MODULE SquashFs ------------------------------
(***************************************************************************)
(* The SquashFS reader of crates/unpack/src/squashfs.rs: walk reads the    *)
(* tree from the root inode, depth first, and returns the files it finds.  *)
(* Whatever cannot be read is left out without a word: an inode, the end   *)
(* of a directory, a block of a file, a fragment.                          *)
(*                                                                         *)
(* An image says what lies where: the lengths to which the metadata blocks *)
(* of the two tables decompress (0: not at all), the position of every     *)
(* inode in its table, and what every data block decompresses to.          *)
(***************************************************************************)
EXTENDS Naturals, Sequences, SequencesExt, FiniteSetsExt

CONSTANTS
  Ref,         \* references of inodes
  DepthLimit,  \* no directory below this depth is opened: 64
  NoBytes,     \* what a block that cannot be decompressed gives
  Images       \* the images considered

Kind == {"dir", "xdir", "file", "xfile", "symlink", "other"}

\* A name is the sequence of its letters; opens says that a header of the
\* directory precedes the entry.
DirEntry == [name : Seq(STRING), ref : Ref, opens : BOOLEAN]

\* What a word of a block list stands for: a hole, or bytes, or NoBytes.
Block == [hole : BOOLEAN, bytes : Seq(Nat) \cup {NoBytes}]

\* at and listAt are positions <<block, offset>> in the inode and the
\* directory table, listing the entries that lie at listAt: of a file too, whose
\* start is taken for one if it is the root. frag is an index of the fragment
\* table, 0 for none.
Inode == [kind : Kind, at : (Nat \ {0}) \X Nat, size : Nat,
          listAt : (Nat \ {0}) \X Nat, listing : Seq(DirEntry),
          blocks : Seq(Block), frag : Nat, fragOffset : Nat]

Fragment == [start : Nat, bytes : Seq(Nat) \cup {NoBytes}]

\* fragments holds the metadata blocks of the fragment table, <<>> for one
\* that does not decompress.
ASSUME ImageAssumption ==
  /\ DepthLimit \in Nat /\ IsFiniteSet(Ref)
  /\ \A m \in Images :
       /\ m.root \in Ref /\ m.inodes \in [Ref -> Inode] /\ m.blockSize \in Nat
       /\ m.inodeTable \in Seq(Nat) /\ m.dirTable \in Seq(Nat)
       /\ m.fragments \in Seq(Seq(Fragment))

VARIABLES
  image,
  stack,  \* the calls of walk_from, the innermost last
  out,    \* the files read; file is the reference each was read from
  cache,  \* frag_cache: the start of a fragment -> its bytes
  pc      \* "start", "walk", "done", "crashed"

vars == <<image, stack, out, cache, pc>>

Starts(m) == {f.start : f \in ToSet(FlattenSeq(m.fragments))}

TypeOK ==
  /\ image.inodes \in [Ref -> Inode]
  /\ Len(stack) <= DepthLimit + 1
  /\ \A i \in DOMAIN stack : stack[i].next \in 1 .. Len(stack[i].listing) + 1
  /\ \A i \in DOMAIN out : out[i].file \in Ref /\ out[i].data \in Seq(Nat)
  /\ DOMAIN cache \subseteq Starts(image)
  /\ pc \in {"start", "walk", "done", "crashed"}

Init ==
  /\ image \in Images
  /\ stack = <<>> /\ out = <<>> /\ cache = <<>>
  /\ pc = "start"

-----------------------------------------------------------------------------
\* read_meta: how many of len bytes at a position of a table there are. Blocks
\* are read one behind the other until one is empty; meta, the cache of blocks
\* by position, does not show, for the image never changes.
ReadMeta(table, at, len) ==
  LET readable[i \in 1 .. Len(table) + 1] ==
        IF i > Len(table) THEN 0
        ELSE IF table[i] = 0 THEN 0 ELSE table[i] + readable[i + 1]
      buf == IF at[1] > Len(table) THEN 0 ELSE readable[at[1]]
  IN  IF at[2] > buf THEN 0 ELSE Min({at[2] + len, buf}) - at[2]

\* The bytes of an inode that inode reads, and where its block list begins.
Header == [dir |-> 28, xdir |-> 36, file |-> 32, xfile |-> 52,
           symlink |-> 24, other |-> 16]
BlockList == [file |-> 32, xfile |-> 56]

IsDir(n) == n.kind \in {"dir", "xdir"}
IsFile(n) == n.kind \in {"file", "xfile"}

\* inode returns Some; what it would return is the node itself.
HasInode(n) == ReadMeta(image.inodeTable, n.at, 128) >= Header[n.kind]

\* block_sizes: how many blocks the size asks for, and those that are there.
BlockCount(n) ==
  LET b == image.blockSize
  IN  IF n.frag = 0 THEN (n.size + b - 1) \div b ELSE n.size \div b

Blocks(n) ==
  LET listAt == <<n.at[1], n.at[2] + BlockList[n.kind]>>
      there == ReadMeta(image.inodeTable, listAt, 4 * BlockCount(n)) \div 4
  IN  SubSeq(n.blocks, 1, Min({BlockCount(n), there, Len(n.blocks)}))

\* dir_entries: an entry counts when its eight bytes are there, and its name
\* ends where the bytes do. A header takes twelve bytes.
EntryAt(listing, i) ==
  LET header(j) == IF listing[j].opens THEN 12 ELSE 0
      at[j \in 1 .. i] == IF j = 1 THEN header(j)
                          ELSE at[j - 1] + 8 + Len(listing[j - 1].name) + header(j)
  IN  at[i]

\* inode gives a size to directories and files alone.
ListingBytes(n) ==
  IF n.size <= 3 \/ ~(IsDir(n) \/ IsFile(n)) THEN 0 ELSE ReadMeta(image.dirTable, n.listAt, n.size - 3)

\* Mutant: the eight bytes of the entry are taken for granted.
Bug_Listing(n) ==
  LET data == ListingBytes(n)
      shown == {i \in DOMAIN n.listing : EntryAt(n.listing, i) <= data}
  IN  SubSeq(n.listing, 1, Cardinality(shown))

Listing(n) ==
  LET data == ListingBytes(n)
      p(i) == EntryAt(n.listing, i) + 8
      shown == {i \in DOMAIN n.listing : p(i) <= data}
  IN  [i \in 1 .. Cardinality(shown) |->
         [n.listing[i] EXCEPT !.name = SubSeq(@, 1, Min({Len(@), data - p(i)}))]]

\* Mutant: a hole adds nothing.
Bug_Decoded(b) == IF b.hole \/ b.bytes = NoBytes THEN <<>> ELSE b.bytes

\* The bytes a block adds to a file: one that is lost adds none.
Decoded(b) ==
  IF b.hole THEN [i \in 1 .. image.blockSize |-> 0]
  ELSE IF b.bytes = NoBytes THEN <<>> ELSE b.bytes

\* fragment: the table is its metadata blocks end to end, so that one that is
\* lost moves those behind it forward.
HasFragment(n) == n.frag \in DOMAIN FlattenSeq(image.fragments)
FragmentOf(n) == FlattenSeq(image.fragments)[n.frag]

\* Mutant: whatever is in the cache serves every fragment.
Bug_FragmentBytes(n) ==
  IF ~HasFragment(n) THEN NoBytes
  ELSE IF cache # <<>> THEN cache[CHOOSE s \in DOMAIN cache : TRUE] ELSE FragmentOf(n).bytes

\* The fragment's bytes: from the cache by its start, or decompressed.
FragmentBytes(n) ==
  LET f == FragmentOf(n)
  IN  IF ~HasFragment(n) THEN NoBytes
      ELSE IF f.start \in DOMAIN cache THEN cache[f.start] ELSE f.bytes

\* file_data: the blocks end to end, then from the fragment what is missing.
FileData(n) ==
  LET body == FlattenSeq([i \in DOMAIN Blocks(n) |-> Decoded(Blocks(n)[i])])
      want == n.size - Min({Len(body), n.size})
      fragment == FragmentBytes(n)
      tail == IF n.frag = 0 \/ fragment = NoBytes THEN <<>>
              ELSE SubSeq(fragment, n.fragOffset + 1,
                          Min({n.fragOffset + want, Len(fragment)}))
  IN  SubSeq(body \o tail, 1, Min({n.size, Len(body \o tail)}))

\* frag_cache keeps what was decompressed, under the start of the fragment.
CacheAfter(n) ==
  IF n.frag = 0 \/ FragmentBytes(n) = NoBytes THEN cache
  ELSE LET start == FragmentOf(n).start
       IN  [s \in DOMAIN cache \cup {start} |->
              IF s = start THEN FragmentBytes(n) ELSE cache[s]]

-----------------------------------------------------------------------------
Call(n, prefix) == [listing |-> Listing(n), next |-> 1, prefix |-> prefix]

Root == image.inodes[image.root]

\* block_sizes divides by the block size of the superblock.
Crashes(n) == HasInode(n) /\ IsFile(n) /\ image.blockSize = 0

\* walk: the call for the root, whatever its kind.
Walk ==
  /\ pc = "start" /\ ~Crashes(Root)
  /\ stack' = IF HasInode(Root) THEN <<Call(Root, <<>>)>> ELSE <<>>
  /\ pc' = "walk"
  /\ UNCHANGED <<image, out, cache>>

Top == Last(stack)
Advanced == [stack EXCEPT ![Len(stack)].next = @ + 1]

AtEntry == pc = "walk" /\ stack # <<>> /\ Top.next <= Len(Top.listing)

Item == Top.listing[Top.next]
Child == image.inodes[Item.ref]
ItemPath == Append(Top.prefix, Item.name)

Named == Item.name \notin {<<".">>, <<".", ".">>, <<>>}

Crash ==
  /\ \/ pc = "start" /\ Crashes(Root)
     \/ AtEntry /\ Named /\ Crashes(Child)
  /\ pc' = "crashed"
  /\ UNCHANGED <<image, stack, out, cache>>

\* The entries walk_from passes over: names of no child, inodes that cannot be
\* read, what is neither file nor directory, directories too deep.
Skipped ==
  \/ ~Named
  \/ ~HasInode(Child)
  \/ ~IsDir(Child) /\ ~IsFile(Child)
  \/ IsDir(Child) /\ Len(stack) > DepthLimit

\* Mutant: the loop is not advanced.
Bug_SkipEntry == AtEntry /\ Skipped /\ UNCHANGED vars

SkipEntry ==
  /\ AtEntry /\ Skipped
  /\ stack' = Advanced
  /\ UNCHANGED <<image, out, cache, pc>>

\* walk_from of the child directory, from inside the loop of its parent.
Descend ==
  /\ AtEntry /\ Named /\ HasInode(Child)
  /\ IsDir(Child) /\ Len(stack) <= DepthLimit
  /\ stack' = Append(Advanced, Call(Child, ItemPath))
  /\ UNCHANGED <<image, out, cache, pc>>

ReadFile ==
  /\ AtEntry /\ Named /\ HasInode(Child)
  /\ IsFile(Child) /\ ~Crashes(Child)
  /\ out' = Append(out, [path |-> ItemPath, data |-> FileData(Child), file |-> Item.ref])
  /\ cache' = CacheAfter(Child)
  /\ stack' = Advanced
  /\ UNCHANGED <<image, pc>>

Return ==
  /\ pc = "walk" /\ stack # <<>>
  /\ Top.next > Len(Top.listing)
  /\ stack' = Front(stack)
  /\ UNCHANGED <<image, out, cache, pc>>

Finish ==
  /\ pc = "walk" /\ stack = <<>>
  /\ pc' = "done"
  /\ UNCHANGED <<image, stack, out, cache>>

Next == Walk \/ Crash \/ SkipEntry \/ Descend \/ ReadFile \/ Return \/ Finish

\* The walk is one thread that runs until it returns.
Spec == Init /\ [][Next]_vars /\ WF_vars(Next)

-----------------------------------------------------------------------------
\* The tree as the image has it, without the walk: a route is a sequence of
\* entries, each of the directory its predecessor leads to.
Routes ==
  LET widest == Max({Len(image.inodes[r].listing) : r \in Ref})
  IN  UNION {[1 .. k -> 1 .. widest] : k \in 1 .. DepthLimit + 1}

Above(route, k) ==
  LET at[i \in 1 .. k] ==
        IF i = 1 THEN Root
        ELSE IF route[i - 1] \in DOMAIN at[i - 1].listing
             THEN image.inodes[at[i - 1].listing[route[i - 1]].ref]
             ELSE at[i - 1]
  IN  at[k]

\* The k-th entry of the route lies in its directory, with its whole name or
\* with some of it, and leads on.
Entry(route, k) == Above(route, k).listing[route[k]]

NameOf(route, k) ==
  LET dir == Above(route, k)
      room == ListingBytes(dir) - (EntryAt(dir.listing, route[k]) + 8)
  IN  SubSeq(Entry(route, k).name, 1, Min({Len(Entry(route, k).name), room}))

Leads(route, k) ==
  /\ k = 1 \/ IsDir(Above(route, k))
  /\ HasInode(Above(route, k))
  /\ route[k] \in DOMAIN Above(route, k).listing
  /\ EntryAt(Above(route, k).listing, route[k]) + 8 <= ListingBytes(Above(route, k))
  /\ NameOf(route, k) \notin {<<".">>, <<".", ".">>, <<>>}

Target(route) == Entry(route, Len(route)).ref

LeadsToFile(route) ==
  /\ \A k \in DOMAIN route : Leads(route, k)
  /\ IsFile(image.inodes[Target(route)]) /\ HasInode(image.inodes[Target(route)])

RoutePath(route) == [k \in DOMAIN route |-> NameOf(route, k)]

\* The walk returns every file that a readable route leads to, under its path,
\* once, and nothing else: neither an unreadable neighbour nor the end of a
\* listing nor a cycle costs a file that can be read, and the limit on the
\* depth is met exactly.
WalkIsComplete ==
  /\ TypeOK
  /\ pc = "done" =>
       LET files == {r \in Routes : LeadsToFile(r)}
       IN  /\ Len(out) = Cardinality(files)
           /\ {[path |-> out[i].path, file |-> out[i].file] : i \in DOMAIN out}
                = {[path |-> RoutePath(r), file |-> Target(r)] : r \in files}

\* Byte k of the file by its place, where walk concatenates.
InBlocks(n) == IF n.frag = 0 THEN n.size
  ELSE (n.size \div image.blockSize) * image.blockSize

ByteAt(n, k) ==
  LET b == n.blocks[(k - 1) \div image.blockSize + 1]
      offset == ((k - 1) % image.blockSize) + 1
  IN  IF k > InBlocks(n) THEN FragmentOf(n).bytes[n.fragOffset + offset]
      ELSE IF b.hole THEN 0 ELSE b.bytes[offset]

\* The b-th block is there and gives its share of the file and not more.
Good(n, b) ==
  LET rest == InBlocks(n) - (b - 1) * image.blockSize
  IN  /\ b <= Len(Blocks(n))
      /\ \/ n.blocks[b].hole
         \/ /\ n.blocks[b].bytes # NoBytes
            /\ \/ Len(n.blocks[b].bytes) = image.blockSize
               \/ rest < image.blockSize /\ Len(n.blocks[b].bytes) >= rest

\* The bytes before the first bad block are the file's, and there are never
\* more bytes than its size says.
PrefixIsIntact ==
  \A i \in DOMAIN out :
    LET n == image.inodes[out[i].file]
        intact == {k \in 1 .. InBlocks(n) :
                     \A b \in 1 .. (k - 1) \div image.blockSize + 1 : Good(n, b)}
    IN  /\ Len(out[i].data) \in Cardinality(intact) .. n.size
        /\ \A k \in intact : out[i].data[k] = ByteAt(n, k)

\* The fragment table is whole and no start stands for two fragments.
TableIsSound ==
  /\ \A b \in DOMAIN image.fragments : image.fragments[b] # <<>>
  /\ LET table == FlattenSeq(image.fragments)
     IN  \A i, j \in DOMAIN table : table[i].start = table[j].start => table[i] = table[j]

Undamaged(n) ==
  /\ \A b \in 1 .. BlockCount(n) : Good(n, b)
  /\ n.frag # 0 =>
       /\ TableIsSound /\ HasFragment(n) /\ FragmentOf(n).bytes # NoBytes
       /\ n.fragOffset + (n.size % image.blockSize) <= Len(FragmentOf(n).bytes)

\* A file that is not damaged comes back byte for byte, whatever the files read
\* before it are: the cache of fragments, which many files share, never gives
\* one of them the bytes of another.
WholeFilesAreExact ==
  \A i \in DOMAIN out :
    LET n == image.inodes[out[i].file]
    IN  Undamaged(n) =>
          /\ Len(out[i].data) = n.size
          /\ \A k \in 1 .. n.size : out[i].data[k] = ByteAt(n, k)

\* The walk returns, on a tree whose directories contain themselves too and
\* whatever is cut or lost, if the superblock has a block size.
WalkEnds == image.blockSize # 0 => <>(pc = "done")

\* robustness.rs: a malformed image yields a wrong answer or no answer, never
\* a panic. A superblock whose block size is zero does: see SquashFsCrash.cfg.
WalkNeverPanics == pc # "crashed"
=============================================================================
