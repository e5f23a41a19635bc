-------------------------- MODULE ResourceCompiler --------------------------
(***************************************************************************)
(* The resource compiler (src/utils/ResourceCompiler/main.c) lays out a     *)
(* directory tree in one buffer of maxSize bytes: every directory is a      *)
(* table of entries, every file is copied, and entries refer to data by     *)
(* offset and length.  addDirectory calls itself for every subdirectory;    *)
(* the C stack is the variable `frames'.                                    *)
(*                                                                          *)
(* A node of the tree stands for its path: an entry is written with the     *)
(* name and later opened under that name.  Offsets, lengths and checks are  *)
(* the program's own, in bytes; only names (but for their lengths) and file *)
(* contents are abstract.                                                   *)
(***************************************************************************)
EXTENDS Naturals, Sequences, FiniteSetsExt

CONSTANTS
    Trees,      \* the directory trees to compile: [parent, kind, size, nameLength]
    MaxSizes,   \* the values of the program's third argument
    Root        \* the directory named on the command line

HeaderSize == 14    \* sizeof(tResHeader)
EntrySize  == 10    \* sizeof(tResEntry), without the name
RootEntry  == 4     \* offset of rootEntry in tResHeader

(***************************************************************************)
(* A directory tree: everything but the root is in one directory, and       *)
(* going up from anything ends at the root.  No file is called `.' or `..'. *)
(***************************************************************************)
IsTree(t) ==
    LET nodes == DOMAIN t.kind IN
    /\ IsFiniteSet(nodes) /\ Root \in nodes /\ "." \notin nodes /\ ".." \notin nodes
    /\ t.kind \in [nodes -> {"dir", "file", "other"}] /\ t.kind[Root] = "dir"
    /\ t.size \in [nodes -> Nat] /\ t.nameLength \in [nodes -> Nat]
    /\ t.parent \in [nodes \ {Root} -> {n \in nodes : t.kind[n] = "dir"}]
    /\ \A S \in SUBSET (nodes \ {Root}) : S # {} => \E n \in S : t.parent[n] \notin S

(***************************************************************************)
(* main does not check that the header itself fits, nor does anything check *)
(* that 32-bit sizes do not wrap.                                           *)
(***************************************************************************)
ASSUME SizeAssumption ==
    /\ MaxSizes \subseteq {n \in Nat : n >= HeaderSize}
    /\ \A t \in Trees : IsTree(t)

VARIABLES
    tree,       \* what is on the disk
    maxSize,
    totalSize,  \* totalSize of the header
    image,      \* the entries written, by offset
    contents,   \* the files copied, by offset
    frames,     \* the calls of addDirectory under way, innermost first
    status      \* what main has come to

vars == <<tree, maxSize, totalSize, image, contents, frames, status>>

Top == Head(frames)
Self == "."
Parent == ".."

EntryAt(n, t, len) == [name |-> n, type |-> t, nameLength |-> len, dataOffset |-> 0, dataLength |-> 0]
SizeOf(e) == EntrySize + e.nameLength
Align(n) == ((n + 3) \div 4) * 4
Written(f, at, x) == [a \in DOMAIN f \union {at} |-> IF a = at THEN x ELSE f[a]]

(***************************************************************************)
(* A call of addDirectory.  `owner' is the entry whose dataLength is the    *)
(* output parameter `length', `pos' where the table starts.                 *)
(***************************************************************************)
Call(dir, owner, up, upSize, at) ==
    [dir |-> dir, owner |-> owner, parentOffset |-> up, parentSize |-> upSize,
     pos |-> at, step |-> "self", i |-> 0, listed |-> {}]

Length == image[Top.owner].dataLength

Init ==
    /\ tree \in Trees
    /\ maxSize \in MaxSizes
    /\ totalSize = HeaderSize
    /\ image = [at \in {RootEntry} |-> [EntryAt(Root, "dir", 0) EXCEPT !.dataOffset = HeaderSize]]
    /\ contents = <<>>
    /\ frames = <<Call(Root, RootEntry, 0, 0, HeaderSize)>>
    /\ status = "running"

Stop(why) ==
    /\ status' = why
    /\ frames' = <<>>
    /\ UNCHANGED <<tree, maxSize, totalSize, image, contents>>

(***************************************************************************)
(* The check every entry goes through, and its writing.                     *)
(***************************************************************************)
Fits_NameForgotten(len) == Top.pos + Length + EntrySize < maxSize
Fits_NameTwice(len) == Top.pos + Length + EntrySize + 2 * len < maxSize
Fits(len) == Top.pos + Length + EntrySize + len < maxSize

AddEntry(e, top) ==
    IF Fits(e.nameLength)
    THEN /\ image' = Written([image EXCEPT ![Top.owner].dataLength = @ + SizeOf(e)], Top.pos + Length, e)
         /\ frames' = <<top>> \o Tail(frames)
         /\ UNCHANGED <<tree, maxSize, totalSize, contents, status>>
    ELSE Stop("too large")

OpenDirectory ==
    /\ status = "running"
    /\ Top.step = "self"
    /\ \/ Stop("failed")
       \/ AddEntry(EntryAt(Self, "dir", 1),
              [Top EXCEPT !.step = IF Top.parentOffset # 0 /\ Top.parentSize # 0 THEN "parent" ELSE "list"])

AddParentLink ==
    /\ status = "running"
    /\ Top.step = "parent"
    /\ AddEntry(EntryAt(Parent, "dir", 2), [Top EXCEPT !.step = "list"])

Children(dir) == {n \in DOMAIN tree.parent : tree.parent[n] = dir}

(***************************************************************************)
(* readdir, in any order; what is neither a directory nor a regular file is *)
(* left out.                                                                *)
(***************************************************************************)
ReadDirectory(n) ==
    /\ status = "running"
    /\ Top.step = "list"
    /\ n \in Children(Top.dir) \ Top.listed
    /\ LET top == [Top EXCEPT !.listed = @ \union {n}] IN
       IF tree.kind[n] \in {"dir", "file"}
       THEN AddEntry(EntryAt(n, tree.kind[n], tree.nameLength[n]), top)
       ELSE frames' = <<top>> \o Tail(frames)
            /\ UNCHANGED <<tree, maxSize, totalSize, image, contents, status>>

EndOfDirectory_NotCounted ==
    /\ status = "running"
    /\ Top.step = "list"
    /\ Children(Top.dir) = Top.listed
    /\ frames' = <<[Top EXCEPT !.step = "parse"]>> \o Tail(frames)
    /\ UNCHANGED <<tree, maxSize, totalSize, image, contents, status>>

EndOfDirectory ==
    /\ status = "running"
    /\ Top.step = "list"
    /\ Children(Top.dir) = Top.listed
    /\ totalSize' = totalSize + Length
    /\ frames' = <<[Top EXCEPT !.step = "parse"]>> \o Tail(frames)
    /\ UNCHANGED <<tree, maxSize, image, contents, status>>

(***************************************************************************)
(* The second loop: give every entry of the table its data.                 *)
(***************************************************************************)
Current == Top.pos + Top.i
Next1(top) == <<[top EXCEPT !.i = @ + SizeOf(image[Current])]>> \o Tail(frames)

Parsing == status = "running" /\ Top.step = "parse" /\ Top.i < Length

LinkTo(offset, length) ==
    /\ image' = [image EXCEPT ![Current].dataOffset = offset, ![Current].dataLength = length]
    /\ frames' = Next1(Top)
    /\ UNCHANGED <<tree, maxSize, totalSize, contents, status>>

ParseLink_ParentIsSelf ==
    /\ Parsing
    /\ image[Current].name \in {Self, Parent}
    /\ LinkTo(Top.pos, Length)

ParseLink ==
    /\ Parsing
    /\ \/ image[Current].name = Self /\ LinkTo(Top.pos, Length)
       \/ image[Current].name = Parent /\ LinkTo(Top.parentOffset, Top.parentSize)

(***************************************************************************)
(* addFile: opening, seeking and reading may fail; the check counts what    *)
(* the alignment has skipped.                                               *)
(***************************************************************************)
FileFits_LengthForgotten(at, size) == at <= maxSize
FileFits(at, size) == at + size <= maxSize

ParseFile ==
    /\ Parsing
    /\ image[Current].type = "file"
    /\ LET n == image[Current].name
           at == Align(totalSize)
       IN  \/ Stop("failed")
           \/ /\ ~FileFits(at, tree.size[n])
              /\ Stop("too large")
           \/ /\ FileFits(at, tree.size[n])
              /\ image' = [image EXCEPT ![Current].dataOffset = at, ![Current].dataLength = tree.size[n]]
              /\ contents' = IF tree.size[n] = 0 THEN contents ELSE Written(contents, at, n)
              /\ totalSize' = at + tree.size[n]
              /\ frames' = Next1(Top)
              /\ UNCHANGED <<tree, maxSize, status>>

ParseDirectory ==
    /\ Parsing
    /\ image[Current].type = "dir"
    /\ image[Current].name \notin {Self, Parent}
    /\ LET at == Align(totalSize) IN
       /\ totalSize' = at
       /\ image' = [image EXCEPT ![Current].dataOffset = at]
       /\ frames' = <<Call(image[Current].name, Current, Top.pos, Length, at)>> \o Next1(Top)
    /\ UNCHANGED <<tree, maxSize, contents, status>>

Return ==
    /\ status = "running"
    /\ Top.step = "parse"
    /\ Top.i = Length
    /\ frames' = Tail(frames)
    /\ status' = IF Len(frames) = 1 THEN "compiled" ELSE "running"
    /\ UNCHANGED <<tree, maxSize, totalSize, image, contents>>

(***************************************************************************)
(* main writes the first totalSize bytes, or cannot open its output.        *)
(***************************************************************************)
WriteOutput ==
    /\ status = "compiled"
    /\ status' \in {"written", "failed"}
    /\ UNCHANGED <<tree, maxSize, totalSize, image, contents, frames>>

Next ==
    \/ OpenDirectory
    \/ AddParentLink
    \/ \E n \in DOMAIN tree.kind : ReadDirectory(n)
    \/ EndOfDirectory
    \/ ParseLink
    \/ ParseFile
    \/ ParseDirectory
    \/ Return
    \/ WriteOutput

Spec == Init /\ [][Next]_vars

(***************************************************************************)
(* dumpDirectory: the lines it prints for a directory entry and everything  *)
(* below it.  It only follows offsets and lengths, as the target's resource *)
(* manager does.  `under' is the directory whose loop prints the line.       *)
(***************************************************************************)
Invalid == {[under |-> "invalid", entry |-> EntryAt("invalid", "file", 0)]}

DumpDirectory ==
    LET dump[at \in DOMAIN image] ==
          LET dir == image[at]
              loop[n \in 0..dir.dataLength] ==
                LET here == dir.dataOffset + dir.dataLength - n IN
                IF n = 0 THEN {}
                ELSE IF here \notin DOMAIN image \/ n < EntrySize THEN Invalid
                ELSE IF n < SizeOf(image[here]) THEN Invalid
                ELSE {[under |-> dir.name, entry |-> image[here]]}
                     \union (IF image[here].type = "dir" /\ image[here].name \notin {Self, Parent}
                             THEN dump[here] ELSE {})
                     \union loop[n - SizeOf(image[here])]
          IN loop[dir.dataLength]
    IN dump[RootEntry]

-----------------------------------------------------------------------------
Kept == {n \in DOMAIN tree.parent : tree.kind[n] \in {"dir", "file"}}
Table(dir) == MapThenSumSet(LAMBDA n : EntrySize + tree.nameLength[n], Children(dir) \intersect Kept)
              + EntrySize + 1 + (IF dir = Root THEN 0 ELSE EntrySize + 2)
SizeIn(n) == IF tree.kind[n] = "dir" THEN Table(n) ELSE tree.size[n]
IsLink(e) == e.name \in {Self, Parent}

(***************************************************************************)
(* The types of the compiler's state.                                       *)
(***************************************************************************)
Nodes == DOMAIN tree.kind
Entries == [name : Nodes \union {Self, Parent}, type : {"dir", "file"},
            nameLength : Nat, dataOffset : Nat, dataLength : Nat]
Calls == [dir : Nodes, owner : Nat, parentOffset : Nat, parentSize : Nat, pos : Nat,
          step : {"self", "parent", "list", "parse"}, i : Nat, listed : SUBSET Nodes]

TypeOK ==
    /\ tree \in Trees /\ maxSize \in MaxSizes /\ totalSize \in Nat
    /\ RootEntry \in DOMAIN image /\ DOMAIN image \subseteq Nat
    /\ image \in [DOMAIN image -> Entries]
    /\ DOMAIN contents \subseteq Nat /\ contents \in [DOMAIN contents -> Nodes]
    /\ frames \in Seq(Calls)
    /\ status \in {"running", "compiled", "written", "failed", "too large"}

(***************************************************************************)
(* The regions of the buffer in use: tables, however much of them is        *)
(* written, and copied files.                                               *)
(***************************************************************************)
Regions ==
    {<<image[at].dataOffset, image[at].dataLength>> :
        at \in {a \in DOMAIN image : image[a].type = "dir" /\ ~IsLink(image[a]) /\ image[a].dataLength > 0}}
    \union {<<at, tree.size[contents[at]]>> : at \in DOMAIN contents}

(***************************************************************************)
(* At every moment, whatever was written lies behind the header and inside  *)
(* the allocated buffer, and no table or file runs into another: the checks *)
(* of addDirectory and addFile look at totalSize and *length, which two     *)
(* levels of the recursion advance at different times.                      *)
(***************************************************************************)
NothingOverlaps ==
    /\ \A r \in Regions : HeaderSize <= r[1] /\ r[1] + r[2] <= maxSize
    /\ \A r, s \in Regions : r # s => r[1] + r[2] <= s[1] \/ s[1] + s[2] <= r[1]

(***************************************************************************)
(* What is written is the tree: a reader that starts from the root entry    *)
(* and follows offsets, as dumpDirectory does, meets every kept file and    *)
(* directory once, in its directory, with its own bytes at an aligned       *)
(* offset; `.' leads to the directory itself and `..' to the one above.     *)
(***************************************************************************)
ImageIsTheTree ==
    status \in {"compiled", "written"} =>
      LET lines == DumpDirectory
          EntryOf(d) == IF d = Root THEN image[RootEntry]
                        ELSE (CHOOSE l \in lines : l.entry.name = d).entry
          SameData(e, f) == e.dataOffset = f.dataOffset /\ e.dataLength = f.dataLength
      IN  /\ {<<l.under, l.entry.name, l.entry.type>> : l \in {l \in lines : ~IsLink(l.entry)}}
                = {<<tree.parent[n], n, tree.kind[n]>> : n \in Kept}
          /\ \A l \in lines :
               CASE l.entry.name = Self -> SameData(l.entry, EntryOf(l.under))
                 [] l.entry.name = Parent -> SameData(l.entry, EntryOf(tree.parent[l.under]))
                 [] OTHER -> /\ l.entry.dataOffset % 4 = 0
                             /\ l.entry.dataOffset + l.entry.dataLength <= totalSize
                             /\ l.entry.dataLength = SizeIn(l.entry.name)
                             /\ l.entry.type = "file" /\ l.entry.dataLength > 0 =>
                                   contents[l.entry.dataOffset] = l.entry.name

(***************************************************************************)
(* "Maximum size exceeded" is only said of a tree that does not fit in less *)
(* than maxSize bytes, padding included.  (One that fits exactly may be     *)
(* refused: an entry may not end at maxSize, a file may.)                   *)
(***************************************************************************)
Padded == Align(HeaderSize + Table(Root)) + MapThenSumSet(LAMBDA n : Align(SizeIn(n)), Kept)
RefusedIsTooLarge == status = "too large" => Padded >= maxSize
=============================================================================
