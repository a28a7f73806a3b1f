----------------------------- MODULE MCSquashFs -----------------------------
(***************************************************************************)
(* A tree of two directories and two files, with a cycle; either table may *)
(* be cut or lost in parts, a file may have any shape within two blocks of *)
(* two bytes, and the fragments may be bad in every way. The root may be a *)
(* file or a link.                                                         *)
(***************************************************************************)
EXTENDS SquashFs

MCRef == {"root", "sub", "link", "f", "g"}

To(name, ref, opens) == [name |-> name, ref |-> ref, opens |-> opens]

Directory(kind, at, size, listAt, listing) ==
  [kind |-> kind, at |-> at, size |-> size, listAt |-> listAt, listing |-> listing,
   blocks |-> <<>>, frag |-> 0, fragOffset |-> 0]

File(kind, at, size, blocks, frag, fragOffset) ==
  [kind |-> kind, at |-> at, size |-> size, listAt |-> <<1, 0>>, listing |-> <<>>,
   blocks |-> blocks, frag |-> frag, fragOffset |-> fragOffset]

Hole == [hole |-> TRUE, bytes |-> <<>>]
Holds(bytes) == [hole |-> FALSE, bytes |-> bytes]

\* Sizes with and without a short last block, a lost block, one too short.
Shapes ==
  {File("file", <<2, 0>>, 3, <<Holds(<<1, 2>>), Holds(<<3>>)>>, 0, 0),
   File("file", <<2, 0>>, 4, <<Hole, Holds(<<3, 4>>)>>, 0, 0),
   File("file", <<2, 0>>, 3, <<Hole, Holds(<<3, 4>>)>>, 1, 1),
   File("file", <<2, 0>>, 4, <<Holds(NoBytes), Holds(<<3, 4>>)>>, 0, 0),
   File("file", <<2, 0>>, 3, <<Holds(NoBytes), Hole>>, 1, 0),
   File("file", <<2, 0>>, 5, <<Holds(<<1, 2>>), Holds(<<3, 4>>)>>, 2, 0),
   File("file", <<2, 0>>, 5, <<Holds(<<1>>), Holds(<<3, 4>>)>>, 2, 0),
   File("file", <<2, 0>>, 0, <<Hole, Hole>>, 0, 0)}

RootListing ==
  <<To(<<".">>, "root", TRUE), To(<<"b", "i", "n">>, "sub", FALSE),
    To(<<"e", "t", "c">>, "f", FALSE), To(<<"x">>, "link", FALSE)>>

SubListing == <<To(<<"s", "h">>, "g", TRUE), To(<<"u", "p">>, "root", TRUE)>>

Tree(shape) ==
  [root |-> Directory("dir", <<1, 0>>, 55, <<1, 0>>, RootListing),
   sub |-> Directory("xdir", <<1, 28>>, 47, <<2, 0>>, SubListing),
   link |-> Directory("symlink", <<1, 64>>, 0, <<1, 0>>, <<>>),
   f |-> shape,
   g |-> File("xfile", <<2, 40>>, 1, <<>>, 1, 0)]

\* Cut in the block list of f, in the header of g, and lost altogether.
InodeTables == {<<88, 96>>, <<88, 91>>, <<88, 36>>, <<88, 0>>, <<0, 96>>}

\* Cut in a name, before a name, behind a header, and lost altogether.
DirTables == {<<52, 44>>, <<52, 43>>, <<52, 42>>, <<52, 34>>, <<52, 0>>, <<30, 0>>, <<0, 44>>}

At(start, bytes) == [start |-> start, bytes |-> bytes]

FragmentTables ==
  {<<<<At(10, <<5, 6, 7>>), At(20, <<8, 9>>)>>>>,
   <<<<At(10, <<5, 6, 7>>)>>, <<At(20, NoBytes)>>>>,
   <<<<>>, <<At(20, <<8, 9>>)>>>>,
   <<<<At(10, <<5>>), At(10, <<5, 6, 7>>)>>>>}

Image(size, shape, inodes, dirs, fragments) ==
  [root |-> "root", blockSize |-> size, inodes |-> Tree(shape), inodeTable |-> inodes,
   dirTable |-> dirs, fragments |-> fragments]

Whole == CHOOSE t \in FragmentTables : Len(t) = 1 /\ Len(t[1][1].bytes) = 3

\* A root that is no directory: a file, whose bytes may pass for a listing, and
\* a link.
OddRoots ==
  {[File("file", <<1, 0>>, 55, blocks, 0, 0) EXCEPT !.listing = listing] :
     blocks \in {<<>>, <<Holds(<<1, 2>>)>>}, listing \in {<<>>, RootListing}}
  \cup {[Directory("symlink", <<1, 0>>, 0, <<1, 0>>, <<>>) EXCEPT !.listing = RootListing]}

WithRoot(m, root) == [m EXCEPT !.inodes.root = root]

\* Every damage of the tables, with every block size, on one file; every file
\* on every damage of the inodes and the fragments.
MCImages ==
  {Image(size, shape, inodes, dirs, Whole) :
     size \in {0, 2}, shape \in {s \in Shapes : s.frag = 1},
     inodes \in InodeTables, dirs \in DirTables}
  \cup
  {Image(2, shape, inodes, <<52, 44>>, fragments) :
     shape \in Shapes, inodes \in InodeTables, fragments \in FragmentTables}
  \cup
  {WithRoot(Image(size, shape, inodes, dirs, Whole), root) :
     size \in {0, 2}, shape \in {s \in Shapes : s.frag = 2},
     inodes \in {<<88, 96>>, <<20, 0>>}, dirs \in {<<52, 44>>, <<30, 0>>},
     root \in OddRoots}
=============================================================================
