------------------------- MODULE MCResourceCompiler -------------------------
(* Small trees: a directory with a file and a subdirectory on both sides of *)
(* the recursion, an entry that is neither, files of 0 to 5 bytes, an empty *)
(* directory, two levels, a name longer than what it names; every maxSize   *)
(* from the header's size to beyond what the largest tree needs.            *)
EXTENDS ResourceCompiler, TLC

Empty == [parent |-> <<>>, kind |-> "root" :> "dir", size |-> "root" :> 0, nameLength |-> "root" :> 0]
AddNode(t, dir, n, kind, size, len) ==
    [parent |-> t.parent @@ n :> dir, kind |-> t.kind @@ n :> kind,
     size |-> t.size @@ n :> size, nameLength |-> t.nameLength @@ n :> len]

Small(x, y) == AddNode(AddNode(AddNode(AddNode(Empty, "root", "a", "file", x, 1),
                   "root", "d", "dir", 0, 2), "d", "b", "file", y, 1), "root", "fifo", "other", 0, 4)
Nested == AddNode(AddNode(AddNode(AddNode(Empty, "root", "d", "dir", 0, 1),
              "d", "e", "dir", 0, 3), "e", "c", "file", 3, 1), "d", "f", "file", 1, 2)

LongName == AddNode(Empty, "root", "a", "file", 1, 12)

MCTrees == {Empty, Nested, LongName} \union {Small(x, y) : x \in {0, 5}, y \in {0, 4}}
MCMaxSizes == 14..140
=============================================================================
