----------------------- MODULE ResourceCompilerProofs -----------------------
(***************************************************************************)
(* Proofs about the resource compiler, for any set of trees, any limits    *)
(* and any order in which readdir returns the names.                       *)
(***************************************************************************)
EXTENDS ResourceCompiler, FiniteSetTheorems, SequenceTheorems, WellFoundedInduction, TLAPS

-----------------------------------------------------------------------------
(***************************************************************************)
(* The stack of calls.                                                     *)
(***************************************************************************)
\* The innermost call is the first of the stack.
LEMMA TopIs ==
  ASSUME NEW S, NEW s \in Seq(S), s # <<>>
  PROVE  /\ Head(s) = s[1] /\ Head(s) \in S /\ Len(s) \in Nat /\ Len(s) >= 1
         /\ DOMAIN s = 1 .. Len(s) /\ \A k \in 1 .. Len(s) : s[k] \in S
         /\ Tail(s) \in Seq(S) /\ Len(Tail(s)) = Len(s) - 1
         /\ \A k \in 1 .. Len(s) - 1 : Tail(s)[k] = s[k + 1]
  OBVIOUS

\* No call.
LEMMA NoCall == (\A S : <<>> \in Seq(S)) /\ Len(<<>>) = 0 /\ DOMAIN <<>> = {}
<1>1. (\A S : <<>> \in Seq(S)) /\ Len(<<>>) = 0
  OBVIOUS
<1>2. DOMAIN <<>> = {}
  <2>1. DOMAIN <<>> = 1 .. 0
    OBVIOUS
  <2> QED
    BY <2>1
<1> QED
  BY <1>1, <1>2

\* A sequence with one more element at its head.
LEMMA Cons ==
  ASSUME NEW S, NEW u \in Seq(S), NEW t \in S
  PROVE  /\ <<t>> \o u \in Seq(S) /\ Len(<<t>> \o u) = 1 + Len(u) /\ (<<t>> \o u)[1] = t
         /\ \A k \in 2 .. 1 + Len(u) : (<<t>> \o u)[k] = u[k - 1]
  OBVIOUS

\* The innermost call goes on.
LEMMA TopChanges ==
  ASSUME NEW S, NEW s \in Seq(S), s # <<>>, NEW t \in S
  PROVE  LET r == <<t>> \o Tail(s) IN
         /\ r \in Seq(S) /\ r # <<>> /\ Len(r) = Len(s) /\ DOMAIN r = 1 .. Len(s)
         /\ r[1] = t /\ Head(r) = t /\ \A k \in 2 .. Len(s) : r[k] = s[k]
<1>1. Len(s) \in Nat /\ Len(s) >= 1 /\ Tail(s) \in Seq(S) /\ Len(Tail(s)) = Len(s) - 1
      /\ \A k \in 1 .. Len(s) - 1 : Tail(s)[k] = s[k + 1]
  BY TopIs
<1> DEFINE u == Tail(s)
           r == <<t>> \o u
<1>2. u \in Seq(S) /\ Len(u) = Len(s) - 1
  BY <1>1
<1>3. \A k \in 1 .. Len(s) - 1 : u[k] = s[k + 1]
  BY <1>1
<1> HIDE DEF u
<1>4. /\ r \in Seq(S) /\ Len(r) = 1 + Len(u) /\ r[1] = t
      /\ \A k \in 2 .. 1 + Len(u) : r[k] = u[k - 1]
  BY <1>2, Cons
<1> HIDE DEF r
<1>5. r \in Seq(S) /\ Len(r) = Len(s) /\ r[1] = t
  BY <1>1, <1>2, <1>4
<1>6. ASSUME NEW k \in 2 .. Len(s) PROVE r[k] = s[k]
  <2>1. k - 1 \in 1 .. Len(s) - 1 /\ (k - 1) + 1 = k /\ k \in 2 .. 1 + Len(u)
    BY <1>1, <1>2
  <2> QED
    BY <1>3, <1>4, <2>1
<1>7. r # <<>> /\ DOMAIN r = 1 .. Len(s) /\ Head(r) = t
  BY <1>1, <1>5
<1> QED
  BY <1>5, <1>6, <1>7 DEF r, u

\* A call of addDirectory starts while the one below it goes on.
LEMMA CallStarts ==
  ASSUME NEW S, NEW s \in Seq(S), s # <<>>, NEW t \in S, NEW c \in S
  PROVE  LET r == <<c>> \o (<<t>> \o Tail(s)) IN
         /\ r \in Seq(S) /\ r # <<>> /\ Len(r) = Len(s) + 1 /\ DOMAIN r = 1 .. Len(s) + 1
         /\ r[1] = c /\ r[2] = t /\ Head(r) = c /\ \A k \in 3 .. Len(s) + 1 : r[k] = s[k - 1]
<1> DEFINE u == <<t>> \o Tail(s)
           r == <<c>> \o u
<1>1. u \in Seq(S) /\ Len(u) = Len(s) /\ u[1] = t /\ Len(s) \in Nat /\ Len(s) >= 1
  BY TopChanges, TopIs
<1>2. \A k \in 2 .. Len(s) : u[k] = s[k]
  BY TopChanges
<1> HIDE DEF u
<1>3. /\ r \in Seq(S) /\ Len(r) = 1 + Len(u) /\ r[1] = c
      /\ \A k \in 2 .. 1 + Len(u) : r[k] = u[k - 1]
  BY <1>1, Cons
<1> HIDE DEF r
<1>4. r \in Seq(S) /\ Len(r) = Len(s) + 1 /\ r[1] = c
  BY <1>1, <1>3
<1>5. r[2] = t
  <2>1. 2 \in 2 .. 1 + Len(u) /\ 2 - 1 = 1
    BY <1>1
  <2> QED
    BY <1>1, <1>3, <2>1
<1>6. ASSUME NEW k \in 3 .. Len(s) + 1 PROVE r[k] = s[k - 1]
  <2>1. k - 1 \in 2 .. Len(s) /\ k \in 2 .. 1 + Len(u)
    BY <1>1
  <2> QED
    BY <1>2, <1>3, <2>1
<1>7. r # <<>> /\ DOMAIN r = 1 .. Len(s) + 1 /\ Head(r) = c
  BY <1>1, <1>4
<1> QED
  BY <1>4, <1>5, <1>6, <1>7 DEF r, u

-----------------------------------------------------------------------------
(***************************************************************************)
(* Typing.                                                                 *)
(***************************************************************************)
\* The tree is one, whatever is being compiled.
LEMMA TheTree ==
  ASSUME tree \in Trees
  PROVE  /\ IsFiniteSet(Nodes) /\ Root \in Nodes /\ Self \notin Nodes /\ Parent \notin Nodes
         /\ tree.kind \in [Nodes -> {"dir", "file", "other"}] /\ tree.kind[Root] = "dir"
         /\ tree.size \in [Nodes -> Nat] /\ tree.nameLength \in [Nodes -> Nat]
         /\ tree.parent \in [Nodes \ {Root} -> {n \in Nodes : tree.kind[n] = "dir"}]
         /\ \A S \in SUBSET (Nodes \ {Root}) : S # {} => \E n \in S : tree.parent[n] \notin S
         /\ Self # Parent
  BY SizeAssumption DEF IsTree, Nodes, Self, Parent

\* The limit leaves room for the header.
LEMMA TheLimit == ASSUME maxSize \in MaxSizes PROVE maxSize \in Nat /\ maxSize >= HeaderSize
  BY SizeAssumption

\* The fields of an entry.
LEMMA EntryIs ==
  /\ \A n \in Nodes \union {Self, Parent}, t \in {"dir", "file"}, l \in Nat :
       /\ EntryAt(n, t, l) \in Entries
       /\ EntryAt(n, t, l).name = n /\ EntryAt(n, t, l).type = t /\ EntryAt(n, t, l).nameLength = l
       /\ EntryAt(n, t, l).dataOffset = 0 /\ EntryAt(n, t, l).dataLength = 0
  /\ \A e \in Entries :
       /\ e.name \in Nodes \union {Self, Parent} /\ e.type \in {"dir", "file"} /\ e.nameLength \in Nat
       /\ e.dataOffset \in Nat /\ e.dataLength \in Nat
       /\ SizeOf(e) \in Nat /\ SizeOf(e) >= 10 /\ SizeOf(e) = 10 + e.nameLength
  BY DEF EntryAt, Entries, SizeOf, EntrySize

-----------------------------------------------------------------------------
(***************************************************************************)
(* The layout.  Addresses stand for the entries written there.  While a    *)
(* call lists its directory the buffer ends with its table and totalSize   *)
(* is where that table starts; later it ends at totalSize.                 *)
(***************************************************************************)
Off(a) == image[a].dataOffset
Ln(a) == image[a].dataLength
After(a) == a + SizeOf(image[a])
Dirs == {a \in DOMAIN image : image[a].type = "dir" /\ ~IsLink(image[a])}
TableEnd(d) == Off(d) + Ln(d)
Inside(a, d) == Off(d) <= a /\ a < TableEnd(d)
FileEnd(c) == c + tree.size[contents[c]]
Listing == frames # <<>> /\ Top.step # "parse"
Good == status \notin {"failed", "too large"}

Running == status = "running" <=> frames # <<>>

\* Tables and files lie behind the header and inside the buffer.
Bounded ==
    /\ \A d \in Dirs : Ln(d) > 0 => HeaderSize <= Off(d) /\ TableEnd(d) <= maxSize
    /\ \A c \in DOMAIN contents : HeaderSize <= c /\ FileEnd(c) <= maxSize /\ c < FileEnd(c)

\* None runs into another.
Separate ==
    /\ \A d, e \in Dirs : d # e /\ Ln(d) > 0 /\ Ln(e) > 0 => TableEnd(d) <= Off(e) \/ TableEnd(e) <= Off(d)
    /\ \A d \in Dirs, c \in DOMAIN contents : Ln(d) > 0 => TableEnd(d) <= c \/ FileEnd(c) <= Off(d)
    /\ \A b, c \in DOMAIN contents : b # c => FileEnd(b) <= c \/ FileEnd(c) <= b

\* All but the table being listed end at totalSize or before.
Ended ==
    Good =>
      /\ \A d \in Dirs : Ln(d) > 0 /\ ~(Listing /\ d = Top.owner) => TableEnd(d) <= totalSize
      /\ \A c \in DOMAIN contents : FileEnd(c) <= totalSize
      /\ Listing => totalSize = Top.pos
      /\ totalSize >= HeaderSize

\* Entries are in tables, and tables are entries without gaps.
Housed == \A a \in DOMAIN image : a # RootEntry => \E d \in Dirs : Inside(a, d)
Tiled ==
    \A d \in Dirs : Ln(d) > 0 =>
      /\ Off(d) \in DOMAIN image
      /\ \A a \in DOMAIN image : Inside(a, d) =>
           After(a) <= TableEnd(d) /\ (After(a) \in DOMAIN image \/ After(a) = TableEnd(d))

\* Every call fills the table of its directory's entry and stands at an entry
\* of it, or at its end; the data of the entries from there on is not set.
OwnerIsPlaced(c) ==
    c.owner \in Dirs /\ Off(c.owner) = c.pos /\ image[c.owner].name = c.dir /\ c.pos >= HeaderSize
StandsAtEntry(c) ==
    /\ c.i <= Ln(c.owner)
    /\ c.i < Ln(c.owner) => c.pos + c.i \in DOMAIN image
    /\ c.step # "parse" => c.i = 0
    /\ c.step = "self" => Ln(c.owner) = 0
BlankFrom(c) == \A a \in DOMAIN image : c.pos + c.i <= a /\ a < TableEnd(c.owner) => Ln(a) = 0 /\ Off(a) = 0
Owned == \A k \in DOMAIN frames : OwnerIsPlaced(frames[k])
Standing == \A k \in DOMAIN frames : StandsAtEntry(frames[k])
Blank == \A k \in DOMAIN frames : BlankFrom(frames[k])

\* A call stands just behind the entry of the call it has made, and its
\* table ends before that call's starts.
Waits(c) == c.step = "parse" /\ Ln(c.owner) > 0
MadeBy(c, d) == Inside(c.owner, d.owner) /\ After(c.owner) = d.pos + d.i
EndsBefore(c, d) == TableEnd(c.owner) <= d.pos
Nested ==
    \A k \in DOMAIN frames :
      /\ k > 1 => Waits(frames[k])
      /\ k = Len(frames) <=> frames[k].owner = RootEntry
      /\ k < Len(frames) => MadeBy(frames[k], frames[k + 1])
Apart == \A k, j \in DOMAIN frames : j < k => EndsBefore(frames[k], frames[j])

\* An entry says what it was written for.
NamedAs(e) ==
    IF e.name \in {Self, Parent} THEN e.type = "dir"
    ELSE e.name \in Kept /\ e.type = tree.kind[e.name] /\ e.nameLength = tree.nameLength[e.name]
Named ==
    /\ image[RootEntry].name = Root /\ image[RootEntry].type = "dir" /\ image[RootEntry].nameLength = 0
    /\ \A a \in DOMAIN image : a # RootEntry => NamedAs(image[a])

Layout ==
    /\ TypeOK /\ Running /\ Bounded /\ Separate /\ Ended /\ Housed /\ Tiled
    /\ Owned /\ Standing /\ Blank /\ Nested /\ Apart

\* An entry's fields, its end, and the call at the top.
LEMMA EntryFields ==
  ASSUME TypeOK
  PROVE  \A a \in DOMAIN image :
           /\ a \in Nat /\ image[a] \in Entries /\ Off(a) \in Nat /\ Ln(a) \in Nat /\ TableEnd(a) \in Nat
           /\ image[a].name \in Nodes \union {Self, Parent} /\ image[a].type \in {"dir", "file"}
           /\ image[a].nameLength \in Nat /\ SizeOf(image[a]) \in Nat /\ SizeOf(image[a]) >= 10
           /\ After(a) \in Nat /\ After(a) > a /\ TableEnd(a) = Off(a) + Ln(a)
<1>1. \A a \in DOMAIN image : a \in Nat /\ image[a] \in Entries
  BY DEF TypeOK
<1>2. \A a \in DOMAIN image : Off(a) \in Nat /\ Ln(a) \in Nat
  BY <1>1, EntryIs DEF Off, Ln
<1>3. \A a \in DOMAIN image : SizeOf(image[a]) \in Nat /\ SizeOf(image[a]) >= 10
  BY <1>1, EntryIs
<1>4. \A a \in DOMAIN image : /\ image[a].name \in Nodes \union {Self, Parent}
                              /\ image[a].type \in {"dir", "file"} /\ image[a].nameLength \in Nat
  BY <1>1, EntryIs
<1> QED
  BY <1>1, <1>2, <1>3, <1>4 DEF After, TableEnd

\* The calls under way.
LEMMA CallsAre ==
  ASSUME TypeOK
  PROVE  \A k \in DOMAIN frames :
           /\ k \in Nat /\ k >= 1 /\ frames[k] \in Calls /\ frames[k].dir \in Nodes
           /\ frames[k].pos \in Nat /\ frames[k].i \in Nat /\ frames[k].owner \in Nat
           /\ frames[k].parentOffset \in Nat /\ frames[k].parentSize \in Nat
           /\ frames[k].step \in {"self", "parent", "list", "parse"} /\ frames[k].listed \subseteq Nodes
<1>1. frames \in Seq(Calls)
  BY DEF TypeOK
<1>2. DOMAIN frames = 1 .. Len(frames) /\ Len(frames) \in Nat /\ \A k \in DOMAIN frames : frames[k] \in Calls
  BY <1>1
<1>3. ASSUME NEW c \in Calls
      PROVE  /\ c.dir \in Nodes /\ c.pos \in Nat /\ c.i \in Nat /\ c.owner \in Nat
             /\ c.parentOffset \in Nat /\ c.parentSize \in Nat
             /\ c.step \in {"self", "parent", "list", "parse"} /\ c.listed \subseteq Nodes
  BY DEF Calls
<1> QED
  BY <1>2, <1>3

\* The innermost call.
LEMMA TheTop ==
  ASSUME TypeOK, frames # <<>>
  PROVE  /\ Top = frames[1] /\ 1 \in DOMAIN frames /\ Top \in Calls /\ frames \in Seq(Calls)
         /\ Len(frames) \in Nat /\ Len(frames) >= 1 /\ DOMAIN frames = 1 .. Len(frames)
<1>1. frames \in Seq(Calls)
  BY DEF TypeOK
<1>2. /\ Head(frames) = frames[1] /\ Len(frames) \in Nat /\ Len(frames) >= 1 /\ DOMAIN frames = 1 .. Len(frames)
      /\ Head(frames) \in Calls
  BY <1>1, TopIs
<1> QED
  BY <1>1, <1>2 DEF Top

\* The table of the innermost call starts behind the entry it belongs to.
LEMMA TopTable ==
  ASSUME Layout, frames # <<>>
  PROVE  /\ Top.owner \in Dirs /\ Top.owner \in DOMAIN image /\ Off(Top.owner) = Top.pos
         /\ Length = Ln(Top.owner) /\ Length \in Nat /\ TableEnd(Top.owner) = Top.pos + Length
         /\ Top.pos >= HeaderSize /\ Top.owner < Top.pos
         /\ Top.i <= Length
<1>1. Top = frames[1] /\ 1 \in DOMAIN frames /\ Len(frames) \in Nat /\ Len(frames) >= 1
      /\ DOMAIN frames = 1 .. Len(frames)
  BY TheTop DEF Layout
<1>2. Top.owner \in Dirs /\ Off(Top.owner) = Top.pos /\ Top.pos >= HeaderSize /\ Top.i <= Ln(Top.owner)
  BY <1>1 DEF Layout, Owned, OwnerIsPlaced, Standing, StandsAtEntry
<1>3. Top.owner \in DOMAIN image
  BY <1>2 DEF Dirs
<1>4. Length = Ln(Top.owner) /\ Ln(Top.owner) \in Nat /\ TableEnd(Top.owner) = Top.pos + Length
  BY <1>2, <1>3, EntryFields DEF Layout, Length, Ln, TableEnd
<1>5. Top.owner < Top.pos
  <2>1. CASE Top.owner = RootEntry
    BY <2>1, <1>2, <1>3, EntryFields DEF Layout, RootEntry, HeaderSize
  <2>2. CASE Top.owner # RootEntry
    <3>1. 1 < Len(frames) /\ 2 \in DOMAIN frames
      BY <1>1, <2>2 DEF Layout, Nested
    <3>2. Inside(Top.owner, frames[2].owner)
      BY <1>1, <3>1 DEF Layout, Nested, MadeBy
    <3>3. TableEnd(frames[2].owner) <= Top.pos
      BY <1>1, <3>1 DEF Layout, Apart, EndsBefore
    <3>4. frames[2].owner \in DOMAIN image /\ Top.owner \in Nat /\ Top.pos \in Nat
      BY <1>1, <1>3, <3>1, EntryFields, CallsAre DEF Layout, Owned, OwnerIsPlaced, Dirs
    <3> QED
      BY <3>2, <3>3, <3>4, EntryFields DEF Inside, Layout
  <2> QED
    BY <2>1, <2>2
<1> QED
  BY <1>2, <1>3, <1>4, <1>5

\* Whatever has been written starts before the end.
LEMMA BeforeTheEnd ==
  ASSUME Layout, Good, Listing, NEW a \in DOMAIN image
  PROVE  /\ a < Top.pos + Length
         /\ a # RootEntry => After(a) <= Top.pos + Length
<1>1. frames # <<>> /\ Top.pos \in Nat /\ Length \in Nat /\ totalSize = Top.pos /\ TypeOK /\ Top.pos >= HeaderSize
  BY TopTable, TheTop, CallsAre DEF Layout, Listing, Ended
<1>2. CASE a = RootEntry
  BY <1>1, <1>2 DEF RootEntry, HeaderSize
<1>3. CASE a # RootEntry
  <2>1. PICK d \in Dirs : Inside(a, d)
    BY <1>3 DEF Layout, Housed
  <2>2. d \in DOMAIN image
    BY DEF Dirs
  <2>3. TableEnd(d) <= Top.pos + Length /\ Ln(d) > 0
    <3>1. Ln(d) > 0
      BY <1>1, <2>1, <2>2, EntryFields DEF Inside
    <3>2. CASE d = Top.owner
      BY <1>1, <3>1, <3>2, TopTable
    <3>3. CASE d # Top.owner
      BY <1>1, <3>1, <3>3, <2>2, EntryFields, SMTT(30) DEF Layout, Ended
    <3> QED
      BY <3>1, <3>2, <3>3
  <2>4. After(a) <= TableEnd(d)
    BY <2>1, <2>3 DEF Layout, Tiled
  <2> QED
    BY <1>1, <2>2, <2>3, <2>4, EntryFields, SMTT(30)
<1> QED
  BY <1>2, <1>3

-----------------------------------------------------------------------------
(***************************************************************************)
(* What adding an entry does, in the terms of the invariant.               *)
(***************************************************************************)
Free == Top.pos + Length
SameCall(c, d) ==
    /\ c.dir = d.dir /\ c.owner = d.owner /\ c.pos = d.pos
    /\ c.parentOffset = d.parentOffset /\ c.parentSize = d.parentSize /\ c.i = d.i

Grows(e) ==
    /\ DOMAIN image' = DOMAIN image \union {Free} /\ image'[Free] = e /\ image' \in [DOMAIN image' -> Entries]
    /\ \A a \in DOMAIN image : /\ image'[a].name = image[a].name /\ image'[a].type = image[a].type
                               /\ image'[a].nameLength = image[a].nameLength
                               /\ image'[a].dataOffset = image[a].dataOffset
                               /\ a # Top.owner => image'[a].dataLength = image[a].dataLength
    /\ image'[Top.owner].dataLength = image[Top.owner].dataLength + SizeOf(e)
    /\ frames' \in Seq(Calls) /\ Len(frames') = Len(frames) /\ SameCall(frames'[1], frames[1])
    /\ frames'[1].step \in {"parent", "list"}
    /\ \A k \in 2 .. Len(frames) : frames'[k] = frames[k]
    /\ tree' = tree /\ maxSize' = maxSize /\ totalSize' = totalSize /\ contents' = contents /\ status' = status
    /\ Free + SizeOf(e) < maxSize

\* An entry that fits is written at the end, which nothing uses yet.
LEMMA EntryAdded ==
  ASSUME Layout, Good, Listing, NEW e \in Entries, NEW top \in Calls, Fits(e.nameLength), AddEntry(e, top),
         SameCall(top, Top), top.step \in {"parent", "list"}
  PROVE  Grows(e) /\ Free \notin DOMAIN image /\ frames'[1] = top
<1>1. frames # <<>> /\ frames \in Seq(Calls) /\ Top = frames[1] /\ Len(frames) >= 1
  BY TheTop DEF Layout, Listing
<1>2. Free \notin DOMAIN image
  BY BeforeTheEnd, TopTable, <1>1, EntryFields, CallsAre, TheTop DEF Free, Layout
<1>3. image \in [DOMAIN image -> Entries] /\ Top.owner \in DOMAIN image
  BY <1>1, TopTable DEF Layout, TypeOK
<1>4. SizeOf(e) \in Nat /\ SizeOf(e) = EntrySize + e.nameLength
  BY EntryIs DEF SizeOf
<1> DEFINE h == [image EXCEPT ![Top.owner].dataLength = @ + SizeOf(e)]
<1>5. image' = Written(h, Free, e) /\ frames' = <<top>> \o Tail(frames)
      /\ UNCHANGED <<tree, maxSize, totalSize, contents, status>>
  BY DEF AddEntry, Free
<1>6. /\ DOMAIN image' = DOMAIN image \union {Free} /\ image' \in [DOMAIN image' -> Entries] /\ image'[Free] = e
      /\ \A a \in DOMAIN image : /\ image'[a].name = image[a].name /\ image'[a].type = image[a].type
                                 /\ image'[a].nameLength = image[a].nameLength
                                 /\ image'[a].dataOffset = image[a].dataOffset
                                 /\ a # Top.owner => image'[a].dataLength = image[a].dataLength
      /\ image'[Top.owner].dataLength = image[Top.owner].dataLength + SizeOf(e)
  <2>1. /\ DOMAIN h = DOMAIN image /\ h \in [DOMAIN h -> Entries]
        /\ \A a \in DOMAIN image : /\ h[a].name = image[a].name /\ h[a].type = image[a].type
                                   /\ h[a].nameLength = image[a].nameLength
                                   /\ h[a].dataOffset = image[a].dataOffset
                                   /\ a # Top.owner => h[a].dataLength = image[a].dataLength
        /\ h[Top.owner].dataLength = image[Top.owner].dataLength + SizeOf(e)
    <3>1. SizeOf(e) \in Nat
      BY <1>4
    <3>2. \A a \in DOMAIN image : image[a] \in Entries
      BY <1>3
    <3> QED
      BY <1>3, <3>1, <3>2 DEF Entries
  <2> HIDE DEF h
  <2>3. image' = Written(h, Free, e) /\ Free \notin DOMAIN h
    BY <1>2, <1>5, <2>1
  <2>2. /\ DOMAIN image' = DOMAIN h \union {Free} /\ image' \in [DOMAIN image' -> Entries] /\ image'[Free] = e
        /\ \A a \in DOMAIN h : image'[a] = h[a]
    <3>1. DOMAIN image' = DOMAIN h \union {Free} /\ image'[Free] = e /\ \A a \in DOMAIN h : image'[a] = h[a]
      BY <2>3 DEF Written
    <3>2. image' = [a \in DOMAIN image' |-> image'[a]]
      BY <2>3 DEF Written
    <3>3. \A a \in DOMAIN h : h[a] \in Entries
      BY <2>1
    <3> QED
      BY <3>1, <3>2, <3>3
  <2> QED
    BY <1>3, <2>1, <2>2
<1>7. /\ frames' \in Seq(Calls) /\ Len(frames') = Len(frames) /\ frames'[1] = top
      /\ \A k \in 2 .. Len(frames) : frames'[k] = frames[k]
  BY <1>1, <1>5, TopChanges
<1>8. Free + SizeOf(e) < maxSize
  <2>1. Top.pos \in Nat /\ Length \in Nat /\ e.nameLength \in Nat
    BY <1>1, CallsAre, TopTable, TheTop, EntryIs DEF Layout
  <2> QED
    BY <1>4, <2>1 DEF Fits, Free, EntrySize
<1> QED
  BY <1>1, <1>2, <1>5, <1>6, <1>7, <1>8 DEF Grows

\* The invariant's view of it.
LEMMA GrowsTypes ==
  ASSUME TypeOK, NEW e \in Entries, Grows(e), Free \in Nat
  PROVE  TypeOK'
<1>1. tree' \in Trees /\ maxSize' \in MaxSizes /\ totalSize' \in Nat
      /\ DOMAIN contents' \subseteq Nat /\ contents' \in [DOMAIN contents' -> Nodes']
      /\ status' \in {"running", "compiled", "written", "failed", "too large"}
  BY DEF TypeOK, Grows, Nodes
<1>2. RootEntry \in DOMAIN image' /\ DOMAIN image' \subseteq Nat
  BY DEF TypeOK, Grows
<1>3. image' \in [DOMAIN image' -> Entries'] /\ frames' \in Seq(Calls')
  BY DEF Grows, Entries, Calls, Nodes
<1> QED
  BY <1>1, <1>2, <1>3 DEF TypeOK

\* What an added entry changes of the tables.
LEMMA GrowsView ==
  ASSUME Layout, Listing, NEW e \in Entries, e.dataOffset = 0, e.dataLength = 0, Grows(e), Free \notin DOMAIN image,
         NEW o, o = Top.owner, NEW p, p = Free
  PROVE  /\ TypeOK' /\ Listing' /\ frames' # <<>> /\ DOMAIN frames' = DOMAIN frames /\ Len(frames') = Len(frames)
         /\ SizeOf(e) \in Nat /\ SizeOf(e) >= 10 /\ p \in Nat /\ p = TableEnd(o) /\ o \in Dirs /\ p \in DOMAIN image'
         /\ Top' = frames'[1] /\ SameCall(Top', Top) /\ Top'.step \in {"parent", "list"}
         /\ Dirs \subseteq Dirs' /\ Dirs' \subseteq Dirs \union {p} /\ Dirs \subseteq DOMAIN image
         /\ \A a \in DOMAIN image : /\ Off(a)' = Off(a) /\ After(a)' = After(a)
                                    /\ a # o => Ln(a)' = Ln(a) /\ TableEnd(a)' = TableEnd(a)
         /\ \A d \in DOMAIN image : d # o => \A a \in Nat : Inside(a, d)' <=> Inside(a, d)
         /\ Ln(o)' = Ln(o) + SizeOf(e) /\ TableEnd(o)' = p + SizeOf(e)
         /\ \A a \in Nat : Inside(a, o)' <=> Off(o) <= a /\ a < p + SizeOf(e)
         /\ Off(p)' = 0 /\ Ln(p)' = 0 /\ After(p)' = p + SizeOf(e)
         /\ \A c \in DOMAIN contents : FileEnd(c)' = FileEnd(c)
<1>1. frames # <<>> /\ o \in DOMAIN image /\ Top.pos \in Nat /\ Length \in Nat /\ p = Top.pos + Length
      /\ Length = Ln(o) /\ Off(o) = Top.pos /\ o \in Dirs
      /\ TypeOK /\ p = TableEnd(o) /\ Top = frames[1] /\ frames \in Seq(Calls) /\ Len(frames) >= 1
  BY TopTable, TheTop, CallsAre DEF Layout, Listing, Free
<1>2. TypeOK'
  BY <1>1, GrowsTypes
<1>3. SizeOf(e) \in Nat /\ SizeOf(e) >= 10
  BY EntryIs
<1>4. frames' # <<>> /\ Top' = frames'[1] /\ DOMAIN frames' = DOMAIN frames /\ Len(frames') = Len(frames)
  <2>1. frames' \in Seq(Calls) /\ Len(frames') = Len(frames) /\ Len(frames') >= 1
    BY <1>1 DEF Grows
  <2>2. frames' # <<>> /\ DOMAIN frames' = 1 .. Len(frames') /\ DOMAIN frames = 1 .. Len(frames)
    BY <1>1, <2>1
  <2> QED
    BY <2>1, <2>2, TopIs DEF Top
<1>5. SameCall(Top', Top) /\ Top'.step \in {"parent", "list"} /\ Listing'
  BY <1>1, <1>4 DEF Grows, Listing
<1>6. Dirs \subseteq Dirs' /\ Dirs' \subseteq Dirs \union {p} /\ Dirs \subseteq DOMAIN image
  BY DEF Grows, Dirs, IsLink
<1>7. \A a \in DOMAIN image : /\ Off(a)' = Off(a) /\ After(a)' = After(a)
                              /\ a # o => Ln(a)' = Ln(a) /\ TableEnd(a)' = TableEnd(a)
  BY DEF Grows, Off, After, Ln, TableEnd, SizeOf
<1>8. \A d \in DOMAIN image : d # o => \A a \in Nat : Inside(a, d)' <=> Inside(a, d)
  BY <1>7 DEF Inside
<1>9. Ln(o)' = Ln(o) + SizeOf(e)
  BY DEF Grows, Ln
<1>10. TableEnd(o)' = p + SizeOf(e)
  BY <1>1, <1>3, <1>7, <1>9 DEF TableEnd
<1>11. \A a \in Nat : Inside(a, o)' <=> Off(o) <= a /\ a < p + SizeOf(e)
  BY <1>1, <1>7, <1>10 DEF Inside
<1>12. Off(p)' = 0 /\ Ln(p)' = 0 /\ After(p)' = p + SizeOf(e) /\ p \in DOMAIN image'
  BY DEF Grows, Off, Ln, After
<1>13. \A c \in DOMAIN contents : FileEnd(c)' = FileEnd(c)
  BY DEF Grows, FileEnd
<1> QED
  BY <1>1, <1>2, <1>3, <1>4, <1>5, <1>6, <1>7, <1>8, <1>9, <1>10, <1>11, <1>12, <1>13

\* The layout when an entry is added.
LEMMA GrowsLayout ==
  ASSUME Layout, Good, Listing, NEW e \in Entries, e.dataOffset = 0, e.dataLength = 0, Grows(e),
         Free \notin DOMAIN image
  PROVE  Layout'
<1>1. PICK o : o = Top.owner
  OBVIOUS
<1>2. PICK p : p = Free
  OBVIOUS
<1>3. /\ TypeOK' /\ Listing' /\ frames' # <<>> /\ DOMAIN frames' = DOMAIN frames /\ Len(frames') = Len(frames)
      /\ SizeOf(e) \in Nat /\ SizeOf(e) >= 10 /\ p \in Nat /\ p = TableEnd(o) /\ o \in Dirs /\ p \in DOMAIN image'
      /\ Top' = frames'[1] /\ SameCall(Top', Top) /\ Top'.step \in {"parent", "list"}
  BY <1>1, <1>2, GrowsView
<1>4. Dirs \subseteq Dirs' /\ Dirs' \subseteq Dirs \union {p} /\ Dirs \subseteq DOMAIN image
  BY <1>1, <1>2, GrowsView
<1>5. \A a \in DOMAIN image : /\ Off(a)' = Off(a) /\ After(a)' = After(a)
                              /\ a # o => Ln(a)' = Ln(a) /\ TableEnd(a)' = TableEnd(a)
  BY <1>1, <1>2, GrowsView
<1>6. \A d \in DOMAIN image : d # o => \A a \in Nat : Inside(a, d)' <=> Inside(a, d)
  BY <1>1, <1>2, GrowsView
<1>7. /\ Ln(o)' = Ln(o) + SizeOf(e) /\ TableEnd(o)' = p + SizeOf(e)
      /\ \A a \in Nat : Inside(a, o)' <=> Off(o) <= a /\ a < p + SizeOf(e)
      /\ Off(p)' = 0 /\ Ln(p)' = 0 /\ After(p)' = p + SizeOf(e)
  BY <1>1, <1>2, GrowsView
<1>8. \A c \in DOMAIN contents : FileEnd(c)' = FileEnd(c)
  BY <1>1, <1>2, GrowsView
<1>9. /\ p = Top.pos + Length /\ DOMAIN image' = DOMAIN image \union {p} /\ p \notin DOMAIN image
      /\ \A a \in DOMAIN image : image'[a].name = image[a].name
      /\ tree' = tree /\ maxSize' = maxSize /\ totalSize' = totalSize /\ contents' = contents /\ status' = status
      /\ p + SizeOf(e) < maxSize
  BY <1>2 DEF Grows, Free
<1>10. /\ SameCall(frames'[1], frames[1]) /\ frames'[1].step \in {"parent", "list"}
       /\ \A k \in 2 .. Len(frames) : frames'[k] = frames[k]
  BY DEF Grows
<1>11. /\ TypeOK /\ Top = frames[1] /\ 1 \in DOMAIN frames /\ Len(frames) \in Nat /\ Len(frames) >= 1
       /\ DOMAIN frames = 1 .. Len(frames) /\ frames # <<>>
  BY TheTop DEF Layout, Listing
<1>12. /\ o \in DOMAIN image /\ Off(o) = Top.pos /\ Length = Ln(o) /\ Top.pos >= HeaderSize /\ o < Top.pos
       /\ Top.pos \in Nat /\ Top.i = 0 /\ totalSize = Top.pos /\ maxSize \in Nat
  BY <1>1, <1>11, TopTable, CallsAre, TheLimit DEF Layout, Standing, StandsAtEntry, Listing, Ended, TypeOK
<1>13. \A a \in DOMAIN image : a < p /\ (a # RootEntry => After(a) <= p)
  BY <1>9, BeforeTheEnd
<1>14. Running'
  BY <1>3, <1>9, <1>11 DEF Running, Layout
<1>15. \A d \in Dirs : d # o /\ Ln(d) > 0 => TableEnd(d) <= Off(o)
  BY <1>1, <1>12 DEF Layout, Ended
<1>16. \A c \in DOMAIN contents : FileEnd(c) <= Off(o)
  BY <1>12 DEF Layout, Ended
<1>17. Bounded'
  <2>1. ASSUME NEW d \in Dirs', Ln(d)' > 0 PROVE Off(d)' >= HeaderSize /\ TableEnd(d)' <= maxSize'
    <3>1. CASE d = o
      BY <3>1, <1>3, <1>5, <1>7, <1>9, <1>12
    <3>2. CASE d # o
      BY <2>1, <3>2, <1>4, <1>5, <1>7, <1>9 DEF Layout, Bounded
    <3> QED
      BY <3>1, <3>2
  <2>2. \A c \in DOMAIN contents' : HeaderSize <= c /\ FileEnd(c)' <= maxSize' /\ c < FileEnd(c)'
    BY <1>8, <1>9 DEF Layout, Bounded
  <2> QED
    BY <2>1, <2>2 DEF Bounded
<1>18. \A d \in Dirs' : Ln(d)' > 0 => d \in Dirs /\ (d # o => Ln(d) > 0)
  BY <1>4, <1>5, <1>7
<1>19. Separate'
  <2>1. ASSUME NEW d \in Dirs', NEW f \in Dirs', d # f, Ln(d)' > 0, Ln(f)' > 0
        PROVE TableEnd(d)' <= Off(f)' \/ TableEnd(f)' <= Off(d)'
    <3>1. d \in DOMAIN image /\ f \in DOMAIN image /\ d \in Dirs /\ f \in Dirs
      BY <2>1, <1>4, <1>18
    <3>2. CASE d # o /\ f # o
      BY <2>1, <3>1, <3>2, <1>5, <1>18 DEF Layout, Separate
    <3>3. CASE d = o
      BY <2>1, <3>1, <3>3, <1>5, <1>15, <1>18
    <3>4. CASE f = o
      BY <2>1, <3>1, <3>4, <1>5, <1>15, <1>18
    <3> QED
      BY <3>2, <3>3, <3>4
  <2>2. ASSUME NEW d \in Dirs', NEW c \in DOMAIN contents', Ln(d)' > 0
        PROVE TableEnd(d)' <= c \/ FileEnd(c)' <= Off(d)'
    <3>1. d \in DOMAIN image /\ d \in Dirs /\ c \in DOMAIN contents
      BY <2>2, <1>4, <1>9, <1>18
    <3>2. CASE d # o
      BY <2>2, <3>1, <3>2, <1>5, <1>8, <1>18 DEF Layout, Separate
    <3>3. CASE d = o
      BY <3>1, <3>3, <1>5, <1>8, <1>16
    <3> QED
      BY <3>2, <3>3
  <2>3. \A b, c \in DOMAIN contents' : b # c => FileEnd(b)' <= c \/ FileEnd(c)' <= b
    BY <1>8, <1>9 DEF Layout, Separate
  <2> QED
    BY <2>1, <2>2, <2>3 DEF Separate
<1>20. Ended'
  <2>1. Top'.owner = o /\ Top'.pos = Top.pos
    BY <1>1, <1>3 DEF SameCall
  <2>2. ASSUME NEW d \in Dirs', Ln(d)' > 0, d # o PROVE TableEnd(d)' <= totalSize'
    BY <2>2, <1>4, <1>5, <1>9, <1>12, <1>15, <1>18
  <2>3. \A c \in DOMAIN contents' : FileEnd(c)' <= totalSize'
    BY <1>8, <1>9, <1>12, <1>16
  <2>4. totalSize' = Top'.pos /\ totalSize' >= HeaderSize
    BY <2>1, <1>9, <1>12
  <2> QED
    BY <1>3, <2>1, <2>2, <2>3, <2>4 DEF Ended
<1>21. Housed'
  <2> SUFFICES ASSUME NEW a \in DOMAIN image', a # RootEntry PROVE \E d \in Dirs' : Inside(a, d)'
    BY DEF Housed
  <2>1. CASE a = p
    <3>1. Off(o) <= p
      BY <1>9, <1>11, <1>12, EntryFields
    <3> QED
      BY <2>1, <3>1, <1>3, <1>4, <1>7
  <2>2. CASE a # p
    <3>1. a \in DOMAIN image /\ a \in Nat
      BY <2>2, <1>9, <1>11, EntryFields
    <3>2. PICK d \in Dirs : Inside(a, d)
      BY <3>1 DEF Layout, Housed
    <3>3. CASE d = o
      BY <3>1, <3>2, <3>3, <1>3, <1>4, <1>7, <1>12, <1>13 DEF Inside
    <3>4. CASE d # o
      BY <3>1, <3>2, <3>4, <1>4, <1>6
    <3> QED
      BY <3>3, <3>4
  <2> QED
    BY <2>1, <2>2
<1>22. ASSUME NEW d \in Dirs', Ln(d)' > 0
       PROVE  /\ Off(d)' \in DOMAIN image'
              /\ \A a \in DOMAIN image' : Inside(a, d)' =>
                   After(a)' <= TableEnd(d)' /\ (After(a)' \in DOMAIN image' \/ After(a)' = TableEnd(d)')
  <2>1. d \in DOMAIN image /\ d \in Dirs /\ (d # o => Ln(d) > 0) /\ \A a \in DOMAIN image : a \in Nat
    BY <1>4, <1>11, <1>18, <1>22, EntryFields
  <2>2. CASE d = o
    <3>1. Off(o)' \in DOMAIN image'
      <4>1. CASE Ln(o) = 0
        BY <4>1, <1>3, <1>5, <1>9, <1>12
      <4>2. CASE Ln(o) > 0
        BY <4>2, <2>1, <2>2, <1>3, <1>5, <1>9, <1>12 DEF Layout, Tiled
      <4> QED
        BY <4>1, <4>2, <1>11, <1>12, EntryFields
    <3>2. ASSUME NEW a \in DOMAIN image', Inside(a, o)'
          PROVE  After(a)' <= TableEnd(o)' /\ (After(a)' \in DOMAIN image' \/ After(a)' = TableEnd(o)')
      <4>1. CASE a = p
        BY <4>1, <1>3, <1>7
      <4>2. CASE a # p
        <5>1. a \in DOMAIN image /\ a \in Nat /\ a < p
          BY <4>2, <2>1, <1>9, <1>13
        <5>2. Inside(a, o) /\ Ln(o) > 0
          <6>1. Inside(a, o)
            BY <3>2, <5>1, <1>3, <1>7 DEF Inside
          <6> QED
            BY <6>1, <5>1, <1>11, <1>12, EntryFields DEF Inside
        <5>3. After(a) <= p /\ (After(a) \in DOMAIN image \/ After(a) = p)
          BY <5>1, <5>2, <1>3 DEF Layout, Tiled
        <5>4. After(a)' = After(a) /\ After(a) \in Nat /\ TableEnd(o)' = p + SizeOf(e)
          BY <5>1, <1>5, <1>7, <1>11, EntryFields
        <5> QED
          BY <5>3, <5>4, <1>3, <1>9
      <4> QED
        BY <4>1, <4>2
    <3> QED
      BY <2>2, <3>1, <3>2
  <2>3. CASE d # o
    <3>1. Off(d)' = Off(d) /\ TableEnd(d)' = TableEnd(d) /\ Off(d) \in DOMAIN image'
      BY <2>1, <2>3, <1>5, <1>9 DEF Layout, Tiled
    <3>2. ASSUME NEW a \in DOMAIN image', Inside(a, d)'
          PROVE  After(a)' <= TableEnd(d)' /\ (After(a)' \in DOMAIN image' \/ After(a)' = TableEnd(d)')
      <4>0. a \in Nat /\ Inside(a, d)
        BY <2>1, <2>3, <3>2, <1>3, <1>6, <1>9
      <4>1. a # p
        <5>1. TableEnd(d) <= Off(o) /\ Off(o) <= p /\ TableEnd(d) \in Nat /\ Off(o) \in Nat
          BY <2>1, <2>3, <1>9, <1>11, <1>12, <1>15, EntryFields, SMTT(30)
        <5> QED
          BY <4>0, <5>1, <1>3 DEF Inside
      <4>2. a \in DOMAIN image
        BY <4>1, <1>9
      <4>3. After(a) <= TableEnd(d) /\ (After(a) \in DOMAIN image \/ After(a) = TableEnd(d))
        BY <4>0, <4>2, <2>1, <2>3 DEF Layout, Tiled
      <4> QED
        BY <4>2, <4>3, <3>1, <1>5, <1>9
    <3> QED
      BY <3>1, <3>2
  <2> QED
    BY <2>2, <2>3
<1>23. Tiled'
  BY <1>22 DEF Tiled
<1>24. \A k \in DOMAIN frames' : SameCall(frames'[k], frames[k])
  <2> SUFFICES ASSUME NEW k \in DOMAIN frames' PROVE SameCall(frames'[k], frames[k])
    OBVIOUS
  <2>1. k = 1 \/ k \in 2 .. Len(frames)
    BY <1>3, <1>11
  <2> QED
    BY <2>1, <1>10 DEF SameCall
<1>25. \A k \in DOMAIN frames : /\ k \in 1 .. Len(frames) /\ frames[k].owner \in DOMAIN image /\ frames[k].owner \in Dirs
                                /\ frames[k].pos \in Nat /\ frames[k].i \in Nat /\ k \in Nat
  BY <1>11, CallsAre DEF Layout, Owned, OwnerIsPlaced, Dirs
<1>26. \A k \in DOMAIN frames : k > 1 => frames[k].owner # o /\ k \in 2 .. Len(frames) /\ TableEnd(frames[k].owner) <= Top.pos
  <2> SUFFICES ASSUME NEW k \in DOMAIN frames, k > 1
               PROVE  frames[k].owner # o /\ k \in 2 .. Len(frames) /\ TableEnd(frames[k].owner) <= Top.pos
    OBVIOUS
  <2>1. Ln(frames[k].owner) > 0 /\ TableEnd(frames[k].owner) <= Top.pos
    BY <1>11, <1>25 DEF Layout, Nested, Waits, Apart, EndsBefore
  <2>2. frames[k].owner # o
    BY <2>1, <1>11, <1>12, <1>25, EntryFields, SMTT(30)
  <2> QED
    BY <2>1, <2>2, <1>25
<1>27. Owned'
  <2> SUFFICES ASSUME NEW k \in DOMAIN frames', NEW c, c = frames'[k] PROVE OwnerIsPlaced(c)'
    BY DEF Owned, OwnerIsPlaced, Off, Dirs, IsLink
  <2>1. k \in DOMAIN frames /\ SameCall(c, frames[k]) /\ OwnerIsPlaced(frames[k]) /\ c.owner \in DOMAIN image
    BY <1>3, <1>24, <1>25 DEF Layout, Owned, SameCall
  <2> QED
    BY <2>1, <1>4, <1>5, <1>9 DEF OwnerIsPlaced, SameCall
<1>28. Standing'
  <2> SUFFICES ASSUME NEW k \in DOMAIN frames', NEW c, c = frames'[k] PROVE StandsAtEntry(c)'
    BY DEF Standing, StandsAtEntry, Ln
  <2>1. CASE k = 1
    <3>1. c.owner = o /\ c.i = 0 /\ c.pos = Off(o) /\ c.step # "self"
      BY <2>1, <1>1, <1>10, <1>11, <1>12 DEF SameCall
    <3>2. Off(o) \in DOMAIN image' /\ Ln(o)' >= 0
      BY <1>3, <1>4, <1>5, <1>7, <1>11, <1>12, <1>22, EntryFields
    <3> QED
      BY <3>1, <3>2, <1>12 DEF StandsAtEntry
  <2>2. CASE k # 1
    <3>1. k \in DOMAIN frames /\ c = frames[k] /\ Ln(c.owner)' = Ln(c.owner)
      BY <2>2, <1>3, <1>5, <1>10, <1>25, <1>26
    <3>2. StandsAtEntry(c)
      BY <3>1 DEF Layout, Standing
    <3> QED
      BY <3>1, <3>2, <1>9 DEF StandsAtEntry
  <2> QED
    BY <2>1, <2>2
<1>29. ASSUME NEW k \in DOMAIN frames, frames[k].pos + frames[k].i <= o, o < TableEnd(frames[k].owner)
       PROVE  FALSE
  <2>1. CASE k = 1
    BY <1>29, <2>1, <1>11, <1>12, <1>25, EntryFields
  <2>2. CASE k > 1
    <3>1. 1 < Len(frames) /\ 2 \in DOMAIN frames /\ 1 + 1 = 2
      BY <2>2, <1>11, <1>25
    <3>2. Inside(o, frames[2].owner) /\ After(o) = frames[2].pos + frames[2].i
      BY <3>1, <1>1, <1>11 DEF Layout, Nested, MadeBy
    <3>3. CASE k = 2
      BY <1>29, <3>2, <3>3, <1>11, <1>12, EntryFields
    <3>4. CASE k > 2
      <4>1. TableEnd(frames[k].owner) <= frames[2].pos
        BY <3>1, <3>4 DEF Layout, Apart, EndsBefore
      <4>2. frames[2].pos <= o
        BY <3>1, <3>2 DEF Layout, Owned, OwnerIsPlaced, Inside
      <4>3. o \in Nat /\ frames[2].pos \in Nat /\ TableEnd(frames[k].owner) \in Nat
        BY <3>1, <1>11, <1>12, <1>25, EntryFields
      <4> QED
        BY <1>29, <4>1, <4>2, <4>3
    <3> QED
      BY <2>2, <3>3, <3>4, <1>25
  <2> QED
    BY <2>1, <2>2, <1>25
<1>30. Blank'
  <2> SUFFICES ASSUME NEW k \in DOMAIN frames', NEW c, c = frames'[k], NEW a \in DOMAIN image',
                      c.pos + c.i <= a, a < TableEnd(c.owner)'
               PROVE  Ln(a)' = 0 /\ Off(a)' = 0
    BY DEF Blank, BlankFrom, TableEnd, Ln, Off
  <2>1. k \in DOMAIN frames /\ SameCall(c, frames[k]) /\ c.owner \in DOMAIN image /\ BlankFrom(frames[k])
    BY <1>3, <1>24, <1>25 DEF SameCall, Layout, Blank
  <2>2. CASE a = p
    BY <2>2, <1>7
  <2>3. CASE a # p
    <3>1. a \in DOMAIN image /\ a \in Nat /\ a < p
      BY <2>3, <1>9, <1>11, <1>13, EntryFields
    <3>2. a < TableEnd(c.owner)
      <4>1. CASE c.owner = o
        BY <4>1, <3>1, <1>3
      <4>2. CASE c.owner # o
        BY <4>2, <2>1, <1>5
      <4> QED
        BY <4>1, <4>2
    <3>3. Ln(a) = 0 /\ Off(a) = 0
      BY <2>1, <3>1, <3>2 DEF BlankFrom, SameCall
    <3>4. a # o
      BY <2>1, <3>2, <1>29 DEF SameCall
    <3> QED
      BY <3>1, <3>3, <3>4, <1>5
  <2> QED
    BY <2>2, <2>3
<1>31. Nested'
  <2>1. ASSUME NEW k \in DOMAIN frames', NEW c, c = frames'[k], k > 1 PROVE Waits(c)'
    <3>1. k \in DOMAIN frames /\ c = frames[k] /\ Ln(c.owner)' = Ln(c.owner)
      BY <2>1, <1>3, <1>5, <1>10, <1>25, <1>26
    <3> QED
      BY <2>1, <3>1 DEF Layout, Nested, Waits
  <2>2. ASSUME NEW k \in DOMAIN frames' PROVE k = Len(frames') <=> frames'[k].owner = RootEntry
    BY <1>3, <1>24 DEF Layout, Nested, SameCall
  <2>3. ASSUME NEW k \in DOMAIN frames', NEW c, c = frames'[k], k < Len(frames'), NEW d, d = frames'[k + 1]
        PROVE  MadeBy(c, d)'
    <3>1. k \in DOMAIN frames /\ k + 1 \in DOMAIN frames /\ k + 1 > 1 /\ k < Len(frames)
      BY <2>3, <1>3, <1>11, <1>25
    <3>2. d = frames[k + 1] /\ d.owner # o /\ d.owner \in DOMAIN image /\ d.owner \in Nat
      BY <2>3, <3>1, <1>10, <1>11, <1>25, <1>26, EntryFields
    <3>3. c.owner = frames[k].owner /\ c.owner \in DOMAIN image /\ c.owner \in Nat
      BY <2>3, <3>1, <1>11, <1>24, <1>25, EntryFields DEF SameCall
    <3>4. MadeBy(frames[k], d)
      BY <3>1, <3>2 DEF Layout, Nested
    <3> QED
      BY <3>2, <3>3, <3>4, <1>5, <1>6 DEF MadeBy
  <2> QED
    BY <2>1, <2>2, <2>3 DEF Nested, Waits, MadeBy, Inside, After, TableEnd, Off, Ln
<1>32. Apart'
  <2> SUFFICES ASSUME NEW k \in DOMAIN frames', NEW j \in DOMAIN frames', j < k, NEW c, c = frames'[k], NEW d, d = frames'[j]
               PROVE EndsBefore(c, d)'
    BY DEF Apart, EndsBefore, TableEnd, Off, Ln
  <2>1. k \in DOMAIN frames /\ j \in DOMAIN frames /\ k > 1
    BY <1>3, <1>25
  <2>2. TableEnd(frames[k].owner) <= frames[j].pos
    BY <2>1 DEF Layout, Apart, EndsBefore
  <2>3. c.owner = frames[k].owner /\ d.pos = frames[j].pos /\ c.owner # o /\ c.owner \in DOMAIN image
    BY <2>1, <1>24, <1>25, <1>26 DEF SameCall
  <2> QED
    BY <2>2, <2>3, <1>5 DEF EndsBefore
<1> QED
  BY <1>3, <1>14, <1>17, <1>19, <1>20, <1>21, <1>23, <1>27, <1>28, <1>30, <1>31, <1>32 DEF Layout

-----------------------------------------------------------------------------
(***************************************************************************)
(* What setting the data of the current entry does.                        *)
(***************************************************************************)
\* Where the second loop stands.
LEMMA AtEntry ==
  ASSUME Layout, Parsing, NEW c, c = Current
  PROVE  /\ c \in DOMAIN image /\ c \in Nat /\ c # RootEntry /\ Ln(c) = 0 /\ Off(c) = 0
         /\ Inside(c, Top.owner) /\ Top.owner # c /\ Length > 0 /\ Good /\ ~Listing /\ frames # <<>>
         /\ c = Top.pos + Top.i /\ After(c) <= TableEnd(Top.owner)
         /\ After(c) \in DOMAIN image \/ After(c) = TableEnd(Top.owner)
<1>1. /\ TypeOK /\ Top = frames[1] /\ 1 \in DOMAIN frames /\ Top.step = "parse" /\ Top.i < Length /\ status = "running"
      /\ frames # <<>> /\ Good /\ ~Listing
  BY TheTop DEF Layout, Running, Parsing, Listing, Good
<1>2. Top.pos \in Nat /\ Top.i \in Nat /\ Length \in Nat /\ Length = Ln(Top.owner) /\ Off(Top.owner) = Top.pos
      /\ TableEnd(Top.owner) = Top.pos + Length /\ Top.pos >= HeaderSize /\ Top.owner \in DOMAIN image
      /\ Top.owner \in Dirs
  BY <1>1, TopTable, CallsAre DEF Layout
<1>3. c \in DOMAIN image /\ c = Top.pos + Top.i /\ c \in Nat /\ c # RootEntry
  BY <1>1, <1>2 DEF Current, Layout, Standing, StandsAtEntry, RootEntry, HeaderSize
<1>4. Inside(c, Top.owner)
  BY <1>1, <1>2, <1>3 DEF Inside
<1>5. Ln(c) = 0 /\ Off(c) = 0
  BY <1>1, <1>2, <1>3 DEF Layout, Blank, BlankFrom
<1>6. After(c) <= TableEnd(Top.owner) /\ (After(c) \in DOMAIN image \/ After(c) = TableEnd(Top.owner))
  BY <1>1, <1>2, <1>3, <1>4 DEF Layout, Tiled
<1> QED
  BY <1>1, <1>2, <1>3, <1>4, <1>5, <1>6

Sets(c, o, n) ==
    /\ DOMAIN image' = DOMAIN image /\ image' \in [DOMAIN image' -> Entries]
    /\ \A a \in DOMAIN image : /\ image'[a].name = image[a].name /\ image'[a].type = image[a].type
                               /\ image'[a].nameLength = image[a].nameLength
                               /\ a # c => /\ image'[a].dataOffset = image[a].dataOffset
                                           /\ image'[a].dataLength = image[a].dataLength
    /\ image'[c].dataOffset = o /\ image'[c].dataLength = n
    /\ tree' = tree /\ maxSize' = maxSize

\* No table that has entries is touched.
LEMMA SetsView ==
  ASSUME Layout, Parsing, NEW c, c = Current, NEW o \in Nat, NEW n \in Nat, Sets(c, o, n), c \in Dirs => n = 0
  PROVE  /\ Dirs' = Dirs /\ Dirs \subseteq DOMAIN image
         /\ \A a \in DOMAIN image : /\ After(a)' = After(a)
                                    /\ a # c => Ln(a)' = Ln(a) /\ Off(a)' = Off(a) /\ TableEnd(a)' = TableEnd(a)
         /\ \A d \in Dirs : /\ Ln(d)' = Ln(d)
                            /\ Ln(d) > 0 => d # c /\ Off(d)' = Off(d) /\ TableEnd(d)' = TableEnd(d)
         /\ \A d \in Dirs : Ln(d) > 0 => \A a \in Nat : Inside(a, d)' <=> Inside(a, d)
         /\ Off(c)' = o /\ Ln(c)' = n
<1>1. c \in DOMAIN image /\ Ln(c) = 0
  BY AtEntry
<1>2. Dirs' = Dirs /\ Dirs \subseteq DOMAIN image
  BY DEF Sets, Dirs, IsLink
<1>3. \A a \in DOMAIN image : /\ After(a)' = After(a)
                              /\ a # c => Ln(a)' = Ln(a) /\ Off(a)' = Off(a) /\ TableEnd(a)' = TableEnd(a)
  BY DEF Sets, After, Ln, Off, TableEnd, SizeOf
<1>4. Off(c)' = o /\ Ln(c)' = n
  BY DEF Sets, Off, Ln
<1>5. \A d \in Dirs : /\ Ln(d)' = Ln(d)
                      /\ Ln(d) > 0 => d # c /\ Off(d)' = Off(d) /\ TableEnd(d)' = TableEnd(d)
  BY <1>1, <1>2, <1>3, <1>4
<1>6. \A d \in Dirs : Ln(d) > 0 => \A a \in Nat : Inside(a, d)' <=> Inside(a, d)
  BY <1>5 DEF Inside
<1> QED
  BY <1>2, <1>3, <1>4, <1>5, <1>6

\* The tables stay as they are.
LEMMA SetsTables ==
  ASSUME Layout, Parsing, NEW c, c = Current, NEW o \in Nat, NEW n \in Nat, Sets(c, o, n), c \in Dirs => n = 0
  PROVE  /\ Housed' /\ Tiled'
         /\ \A d \in Dirs' : Ln(d)' > 0 => HeaderSize <= Off(d)' /\ TableEnd(d)' <= maxSize'
         /\ \A d, e \in Dirs' : d # e /\ Ln(d)' > 0 /\ Ln(e)' > 0 => TableEnd(d)' <= Off(e)' \/ TableEnd(e)' <= Off(d)'
         /\ \A d \in Dirs' : Ln(d)' > 0 => TableEnd(d)' <= totalSize
<1>1. Dirs' = Dirs /\ Dirs \subseteq DOMAIN image /\ DOMAIN image' = DOMAIN image /\ maxSize' = maxSize
      /\ \A a \in DOMAIN image : After(a)' = After(a)
  BY SetsView DEF Sets
<1>2. \A d \in Dirs : /\ Ln(d)' = Ln(d)
                      /\ Ln(d) > 0 => d # c /\ Off(d)' = Off(d) /\ TableEnd(d)' = TableEnd(d)
  BY SetsView
<1>3. \A d \in Dirs : Ln(d) > 0 => \A a \in Nat : Inside(a, d)' <=> Inside(a, d)
  BY SetsView
<1>4. \A a \in DOMAIN image : a \in Nat /\ Off(a) \in Nat /\ Ln(a) \in Nat /\ TableEnd(a) = Off(a) + Ln(a)
  BY EntryFields DEF Layout
<1>5. Housed'
  <2> SUFFICES ASSUME NEW a \in DOMAIN image', a # RootEntry PROVE \E d \in Dirs' : Inside(a, d)'
    BY DEF Housed
  <2>1. PICK d \in Dirs : Inside(a, d)
    BY <1>1 DEF Layout, Housed
  <2>2. Ln(d) > 0
    BY <2>1, <1>1, <1>4 DEF Inside
  <2> QED
    BY <2>1, <2>2, <1>1, <1>3, <1>4
<1>6. Tiled'
  <2> SUFFICES ASSUME NEW d \in Dirs', Ln(d)' > 0
               PROVE  /\ Off(d)' \in DOMAIN image'
                      /\ \A a \in DOMAIN image' : Inside(a, d)' =>
                           After(a)' <= TableEnd(d)' /\ (After(a)' \in DOMAIN image' \/ After(a)' = TableEnd(d)')
    BY DEF Tiled
  <2>1. d \in Dirs /\ Ln(d) > 0 /\ Off(d)' = Off(d) /\ TableEnd(d)' = TableEnd(d)
    BY <1>1, <1>2
  <2>2. /\ Off(d) \in DOMAIN image
        /\ \A a \in DOMAIN image : Inside(a, d) =>
             After(a) <= TableEnd(d) /\ (After(a) \in DOMAIN image \/ After(a) = TableEnd(d))
    BY <2>1 DEF Layout, Tiled
  <2>3. \A a \in DOMAIN image : Inside(a, d)' <=> Inside(a, d)
    BY <2>1, <1>3, <1>4
  <2> QED
    BY <2>1, <2>2, <2>3, <1>1
<1>7. \A d \in Dirs' : Ln(d)' > 0 => HeaderSize <= Off(d)' /\ TableEnd(d)' <= maxSize'
  BY <1>1, <1>2 DEF Layout, Bounded
<1>8. \A d, e \in Dirs' : d # e /\ Ln(d)' > 0 /\ Ln(e)' > 0 => TableEnd(d)' <= Off(e)' \/ TableEnd(e)' <= Off(d)'
  BY <1>1, <1>2 DEF Layout, Separate
<1>9. \A d \in Dirs' : Ln(d)' > 0 => TableEnd(d)' <= totalSize
  BY <1>1, <1>2, AtEntry DEF Layout, Ended
<1> QED
  BY <1>5, <1>6, <1>7, <1>8, <1>9

\* The call that goes on stands behind the entry.
LEMMA TopAdvances ==
  ASSUME Layout, Parsing, NEW c, c = Current, NEW t, t = [Top EXCEPT !.i = @ + SizeOf(image[Current])]
  PROVE  /\ t \in Calls /\ t.dir = Top.dir /\ t.owner = Top.owner /\ t.pos = Top.pos /\ t.step = Top.step
         /\ t.parentOffset = Top.parentOffset /\ t.parentSize = Top.parentSize /\ t.listed = Top.listed
         /\ t.pos + t.i = After(c) /\ t.i = Top.i + SizeOf(image[c])
<1>1. c \in DOMAIN image /\ SizeOf(image[c]) \in Nat /\ c = Top.pos + Top.i /\ Top \in Calls /\ Top.pos \in Nat /\ Top.i \in Nat
  BY AtEntry, TheTop, EntryFields, CallsAre DEF Layout
<1>2. t = [Top EXCEPT !.i = Top.i + SizeOf(image[c])]
  OBVIOUS
<1>3. /\ t \in Calls /\ t.dir = Top.dir /\ t.owner = Top.owner /\ t.pos = Top.pos /\ t.step = Top.step
      /\ t.parentOffset = Top.parentOffset /\ t.parentSize = Top.parentSize /\ t.listed = Top.listed
      /\ t.i = Top.i + SizeOf(image[c])
  BY <1>1, <1>2 DEF Calls
<1>4. t.pos + t.i = After(c)
  BY <1>1, <1>3 DEF After
<1> QED
  BY <1>3, <1>4

\* The calls under way stay as they should be.
LEMMA SetsTop ==
  ASSUME Layout, Parsing, NEW c, c = Current, NEW o \in Nat, NEW n \in Nat, Sets(c, o, n), c \in Dirs => n = 0,
         NEW t, t = [Top EXCEPT !.i = @ + SizeOf(image[Current])]
  PROVE  OwnerIsPlaced(t)' /\ StandsAtEntry(t)' /\ BlankFrom(t)' /\ Waits(t)'
<1>1. /\ t.owner = Top.owner /\ t.pos = Top.pos /\ t.step = "parse" /\ t.dir = Top.dir
      /\ t.pos + t.i = After(c) /\ t.i = Top.i + SizeOf(image[c])
  BY TopAdvances DEF Parsing
<1>2. PICK w : w = Top.owner
  OBVIOUS
<1>3. /\ Dirs' = Dirs /\ DOMAIN image' = DOMAIN image
      /\ \A a \in DOMAIN image : a # c => Ln(a)' = Ln(a) /\ Off(a)' = Off(a) /\ TableEnd(a)' = TableEnd(a)
      /\ \A d \in Dirs : /\ Ln(d)' = Ln(d)
                         /\ Ln(d) > 0 => d # c /\ Off(d)' = Off(d) /\ TableEnd(d)' = TableEnd(d)
  BY SetsView DEF Sets
<1>4. /\ w \in Dirs /\ w \in DOMAIN image /\ Ln(w) > 0 /\ Off(w) = Top.pos /\ TableEnd(w) = Top.pos + Length
      /\ Length = Ln(w) /\ Length \in Nat /\ TypeOK /\ Top = frames[1] /\ 1 \in DOMAIN frames /\ frames # <<>>
      /\ Top.pos \in Nat /\ Top.i \in Nat /\ Top.pos >= HeaderSize
  BY <1>2, TopTable, AtEntry, TheTop, CallsAre DEF Layout
<1>5. /\ c \in DOMAIN image /\ c \in Nat /\ c = Top.pos + Top.i /\ After(c) \in Nat /\ After(c) > c
      /\ After(c) <= TableEnd(w) /\ (After(c) \in DOMAIN image \/ After(c) = TableEnd(w)) /\ SizeOf(image[c]) \in Nat
  BY <1>2, <1>4, AtEntry, EntryFields
<1>6. OwnerIsPlaced(t)'
  <2>1. image'[w].name = image[w].name /\ image[w].name = Top.dir
    BY <1>2, <1>4 DEF Sets, Layout, Owned, OwnerIsPlaced
  <2> QED
    BY <1>1, <1>2, <1>3, <1>4, <2>1 DEF OwnerIsPlaced
<1>7. StandsAtEntry(t)'
  BY <1>1, <1>2, <1>3, <1>4, <1>5 DEF StandsAtEntry
<1>8. BlankFrom(t)'
  <2> SUFFICES ASSUME NEW a \in DOMAIN image', t.pos + t.i <= a, a < TableEnd(t.owner)'
               PROVE Ln(a)' = 0 /\ Off(a)' = 0
    BY DEF BlankFrom
  <2>1. a \in DOMAIN image /\ a \in Nat /\ a # c /\ Top.pos + Top.i <= a /\ a < TableEnd(w)
    <3>1. t.owner = w /\ TableEnd(w)' = TableEnd(w) /\ After(c) <= a
      BY <1>1, <1>2, <1>3, <1>4
    <3>2. a \in DOMAIN image /\ a \in Nat
      BY <1>3, <1>4, EntryFields
    <3>3. a < TableEnd(w)
      BY <3>1
    <3>4. Top.pos + Top.i <= a /\ a # c
      BY <1>5, <3>1, <3>2
    <3> QED
      BY <3>2, <3>3, <3>4
  <2>2. Ln(a) = 0 /\ Off(a) = 0
    BY <1>2, <1>4, <2>1 DEF Layout, Blank, BlankFrom
  <2> QED
    BY <1>3, <2>1, <2>2
<1>9. Waits(t)'
  BY <1>1, <1>2, <1>3, <1>4 DEF Waits
<1> QED
  BY <1>6, <1>7, <1>8, <1>9

\* The calls that wait stay as they are.
LEMMA SetsBelow ==
  ASSUME Layout, Parsing, NEW c, c = Current, NEW o \in Nat, NEW n \in Nat, Sets(c, o, n), c \in Dirs => n = 0,
         NEW k \in DOMAIN frames, k > 1, NEW b, b = frames[k]
  PROVE  OwnerIsPlaced(b)' /\ StandsAtEntry(b)' /\ BlankFrom(b)' /\ Waits(b)'
<1>1. /\ Dirs' = Dirs /\ DOMAIN image' = DOMAIN image
      /\ \A a \in DOMAIN image : a # c => Ln(a)' = Ln(a) /\ Off(a)' = Off(a) /\ TableEnd(a)' = TableEnd(a)
      /\ \A d \in Dirs : /\ Ln(d)' = Ln(d)
                         /\ Ln(d) > 0 => d # c /\ Off(d)' = Off(d) /\ TableEnd(d)' = TableEnd(d)
  BY SetsView DEF Sets
<1>2. TypeOK /\ Top = frames[1] /\ 1 \in DOMAIN frames /\ frames # <<>> /\ Top.pos \in Nat /\ Top.i \in Nat
  BY AtEntry, TheTop, CallsAre DEF Layout
<1>3. /\ OwnerIsPlaced(b) /\ StandsAtEntry(b) /\ BlankFrom(b) /\ Waits(b) /\ TableEnd(b.owner) <= Top.pos
      /\ b.owner \in Dirs /\ b.owner \in DOMAIN image /\ Ln(b.owner) > 0
  BY <1>2 DEF Layout, Owned, Standing, Blank, Nested, Apart, EndsBefore, OwnerIsPlaced, Waits, Dirs
<1>4. c \in DOMAIN image /\ c \in Nat /\ c = Top.pos + Top.i
  BY AtEntry
<1>5. Ln(b.owner)' = Ln(b.owner) /\ Off(b.owner)' = Off(b.owner) /\ TableEnd(b.owner)' = TableEnd(b.owner)
  BY <1>1, <1>3
<1>6. OwnerIsPlaced(b)'
  BY <1>1, <1>3, <1>5 DEF OwnerIsPlaced, Sets
<1>7. StandsAtEntry(b)' /\ Waits(b)'
  BY <1>1, <1>3, <1>5 DEF StandsAtEntry, Waits
<1>8. BlankFrom(b)'
  <2> SUFFICES ASSUME NEW a \in DOMAIN image', b.pos + b.i <= a, a < TableEnd(b.owner)'
               PROVE Ln(a)' = 0 /\ Off(a)' = 0
    BY DEF BlankFrom
  <2>1. a \in DOMAIN image /\ a \in Nat /\ a < TableEnd(b.owner) /\ TableEnd(b.owner) \in Nat
    BY <1>1, <1>2, <1>3, <1>5, EntryFields
  <2>2. a # c
    BY <2>1, <1>2, <1>3, <1>4
  <2> QED
    BY <1>1, <1>3, <2>1, <2>2 DEF BlankFrom
<1> QED
  BY <1>6, <1>7, <1>8

\* How two calls stand to each other stays too.
LEMMA SetsPair ==
  ASSUME Layout, Parsing, NEW c, c = Current, NEW o \in Nat, NEW n \in Nat, Sets(c, o, n), c \in Dirs => n = 0,
         NEW a \in Dirs, Ln(a) > 0, NEW b \in DOMAIN image, NEW x, NEW y, x.owner = b, y.owner = a
  PROVE  /\ MadeBy(x, y) => MadeBy(x, y)'
         /\ b \in Dirs /\ Ln(b) > 0 /\ EndsBefore(x, y) => EndsBefore(x, y)'
<1>1. /\ \A d \in DOMAIN image : After(d)' = After(d)
      /\ \A d \in Dirs : Ln(d) > 0 => TableEnd(d)' = TableEnd(d)
  BY SetsView
<1>2. \A d \in Dirs : Ln(d) > 0 => \A w \in Nat : Inside(w, d)' <=> Inside(w, d)
  BY SetsView
<1>3. b \in Nat
  BY EntryFields DEF Layout
<1>4. MadeBy(x, y) => MadeBy(x, y)'
  BY <1>1, <1>2, <1>3 DEF MadeBy
<1>5. b \in Dirs /\ Ln(b) > 0 /\ EndsBefore(x, y) => EndsBefore(x, y)'
  BY <1>1 DEF EndsBefore
<1> QED
  BY <1>4, <1>5

\* The layout when the data of a link or a file is set.
LEMMA FillsLayout ==
  ASSUME Layout, Parsing, NEW c, c = Current, NEW o \in Nat, NEW n \in Nat, Sets(c, o, n), c \notin Dirs,
         NEW t, t = [Top EXCEPT !.i = @ + SizeOf(image[Current])], frames' = <<t>> \o Tail(frames),
         status' = status, totalSize' \in Nat, totalSize' >= totalSize,
         DOMAIN contents' \subseteq Nat, contents' \in [DOMAIN contents' -> Nodes],
         \A b \in DOMAIN contents' : \/ b \in DOMAIN contents /\ contents'[b] = contents[b]
                                     \/ /\ b = o /\ n > 0 /\ tree.size[contents'[b]] = n
                                        /\ o >= totalSize /\ o + n <= maxSize /\ o + n <= totalSize'
  PROVE  Layout'
<1>1. /\ TypeOK /\ Top = frames[1] /\ 1 \in DOMAIN frames /\ Len(frames) \in Nat /\ Len(frames) >= 1
      /\ DOMAIN frames = 1 .. Len(frames) /\ frames # <<>> /\ frames \in Seq(Calls) /\ Good /\ status = "running"
  BY AtEntry, TheTop DEF Layout, Parsing
<1>2. /\ t \in Calls /\ t.owner = Top.owner /\ t.pos = Top.pos /\ t.step = "parse"
  BY TopAdvances DEF Parsing
<1>3. /\ frames' \in Seq(Calls) /\ frames' # <<>> /\ Len(frames') = Len(frames) /\ DOMAIN frames' = DOMAIN frames
      /\ frames'[1] = t /\ Top' = t /\ \A k \in 2 .. Len(frames) : frames'[k] = frames[k]
  BY <1>1, <1>2, TopChanges DEF Top
<1>4. TypeOK'
  <2>1. tree' = tree /\ maxSize' = maxSize /\ DOMAIN image' = DOMAIN image /\ image' \in [DOMAIN image' -> Entries]
    BY DEF Sets
  <2>2. Nodes' = Nodes /\ Entries' = Entries /\ Calls' = Calls
    BY <2>1 DEF Nodes, Entries, Calls
  <2> QED
    BY <1>1, <1>3, <2>1, <2>2 DEF TypeOK
<1>5. Running' /\ ~Listing' /\ tree' = tree /\ maxSize' = maxSize
  BY <1>1, <1>2, <1>3 DEF Running, Listing, Sets
<1>6. Housed' /\ Tiled'
  BY SetsTables
<1>7. \A d \in Dirs' : Ln(d)' > 0 => d \in DOMAIN image /\ TableEnd(d)' \in Nat /\ Off(d)' \in Nat /\ TableEnd(d)' <= totalSize
  <2> SUFFICES ASSUME NEW d \in Dirs', Ln(d)' > 0
               PROVE  d \in DOMAIN image /\ TableEnd(d)' \in Nat /\ Off(d)' \in Nat /\ TableEnd(d)' <= totalSize
    OBVIOUS
  <2>1. TableEnd(d)' <= totalSize
    BY SetsTables
  <2>2. d \in Dirs /\ d \in DOMAIN image /\ Ln(d) > 0 /\ TableEnd(d)' = TableEnd(d) /\ Off(d)' = Off(d)
    BY SetsView
  <2> QED
    BY <1>1, <2>1, <2>2, EntryFields
<1>8. \A b \in DOMAIN contents' :
        \/ b \in DOMAIN contents /\ contents'[b] = contents[b] /\ FileEnd(b)' = FileEnd(b)
        \/ b = o /\ n > 0 /\ FileEnd(b)' = o + n /\ o >= totalSize /\ o + n <= maxSize /\ o + n <= totalSize'
  BY <1>5 DEF FileEnd
<1>9. totalSize \in Nat /\ totalSize >= HeaderSize /\ maxSize \in Nat /\ \A b \in DOMAIN contents : FileEnd(b) <= totalSize
  BY <1>1, TheLimit DEF TypeOK, Layout, Ended
<1>10. \A b \in DOMAIN contents : b \in Nat /\ FileEnd(b) \in Nat
  <2> SUFFICES ASSUME NEW b \in DOMAIN contents PROVE b \in Nat /\ FileEnd(b) \in Nat
    OBVIOUS
  <2>1. b \in Nat /\ contents[b] \in Nodes /\ tree \in Trees
    BY <1>1 DEF TypeOK
  <2>2. tree.size[contents[b]] \in Nat
    BY <2>1, TheTree
  <2> QED
    BY <2>1, <2>2 DEF FileEnd
<1>11. Bounded'
  <2>1. \A b \in DOMAIN contents' : HeaderSize <= b /\ FileEnd(b)' <= maxSize' /\ b < FileEnd(b)'
    BY <1>5, <1>8, <1>9 DEF Layout, Bounded, HeaderSize
  <2> QED
    BY <2>1, SetsTables DEF Bounded
<1>12. Separate'
  <2>1. ASSUME NEW d \in Dirs', NEW b \in DOMAIN contents', Ln(d)' > 0
        PROVE TableEnd(d)' <= b \/ FileEnd(b)' <= Off(d)'
    <3>1. CASE b \in DOMAIN contents /\ FileEnd(b)' = FileEnd(b)
      <4>1. d \in Dirs /\ Ln(d) > 0 /\ TableEnd(d)' = TableEnd(d) /\ Off(d)' = Off(d)
        BY <2>1, SetsView
      <4> QED
        BY <3>1, <4>1 DEF Layout, Separate
    <3>2. CASE b = o /\ o >= totalSize
      BY <2>1, <3>2, <1>7, <1>9
    <3> QED
      BY <3>1, <3>2, <1>8
  <2>2. ASSUME NEW a \in DOMAIN contents', NEW b \in DOMAIN contents', a # b
        PROVE  FileEnd(a)' <= b \/ FileEnd(b)' <= a
    <3>1. CASE a = o /\ o >= totalSize
      <4>1. b \in DOMAIN contents /\ FileEnd(b)' = FileEnd(b)
        BY <2>2, <3>1, <1>8
      <4> QED
        BY <3>1, <4>1, <1>9, <1>10
    <3>2. CASE b = o /\ o >= totalSize
      <4>1. a \in DOMAIN contents /\ FileEnd(a)' = FileEnd(a)
        BY <2>2, <3>2, <1>8
      <4> QED
        BY <3>2, <4>1, <1>9, <1>10
    <3>3. CASE a \in DOMAIN contents /\ FileEnd(a)' = FileEnd(a) /\ b \in DOMAIN contents /\ FileEnd(b)' = FileEnd(b)
      BY <2>2, <3>3 DEF Layout, Separate
    <3> QED
      BY <3>1, <3>2, <3>3, <1>8
  <2> QED
    BY <2>1, <2>2, SetsTables DEF Separate
<1>13. Ended'
  <2>1. \A d \in Dirs' : Ln(d)' > 0 => TableEnd(d)' <= totalSize'
    BY <1>7, <1>9
  <2>2. \A b \in DOMAIN contents' : FileEnd(b)' <= totalSize'
    BY <1>8, <1>9, <1>10
  <2>3. totalSize' >= HeaderSize
    BY <1>9 DEF HeaderSize
  <2> QED
    BY <2>1, <2>2, <2>3, <1>5 DEF Ended
<1>14. \A k \in DOMAIN frames : k \in Nat /\ (k = 1 \/ (k > 1 /\ k \in 2 .. Len(frames) /\ frames'[k] = frames[k]))
  BY <1>1, <1>3
<1>15. ASSUME NEW k \in DOMAIN frames', NEW b, b = frames'[k]
       PROVE  OwnerIsPlaced(b)' /\ StandsAtEntry(b)' /\ BlankFrom(b)' /\ Waits(b)'
  <2>1. CASE k = 1
    BY <2>1, <1>3, <1>15, SetsTop
  <2>2. CASE k > 1
    BY <2>2, <1>3, <1>14, <1>15, SetsBelow
  <2> QED
    BY <2>1, <2>2, <1>3, <1>14
<1>16. Owned'
  BY <1>15 DEF Owned, OwnerIsPlaced, Off, Dirs, IsLink
<1>17. Standing'
  BY <1>15 DEF Standing, StandsAtEntry, Ln
<1>18. Blank'
  BY <1>15 DEF Blank, BlankFrom, TableEnd, Ln, Off
<1>19. \A k \in DOMAIN frames : frames[k].owner \in Dirs /\ frames[k].owner \in DOMAIN image /\ Ln(frames[k].owner) > 0
  <2> SUFFICES ASSUME NEW k \in DOMAIN frames
               PROVE  frames[k].owner \in Dirs /\ frames[k].owner \in DOMAIN image /\ Ln(frames[k].owner) > 0
    OBVIOUS
  <2>1. frames[k].owner \in Dirs
    BY DEF Layout, Owned, OwnerIsPlaced
  <2>2. Ln(frames[k].owner) > 0
    BY <1>1, <1>14, AtEntry, TopTable DEF Layout, Nested, Waits
  <2> QED
    BY <2>1, <2>2 DEF Dirs
<1>20. \A k \in DOMAIN frames : frames'[k].owner = frames[k].owner /\ frames'[k].pos = frames[k].pos
  BY <1>1, <1>2, <1>3, <1>14
<1>21. Nested'
  <2>1. ASSUME NEW k \in DOMAIN frames' PROVE k = Len(frames') <=> frames'[k].owner = RootEntry
    BY <1>3, <1>20 DEF Layout, Nested
  <2>2. ASSUME NEW k \in DOMAIN frames', NEW x, x = frames'[k], k < Len(frames'), NEW y, y = frames'[k + 1]
        PROVE  MadeBy(x, y)'
    <3>1. k \in DOMAIN frames /\ k + 1 \in DOMAIN frames /\ k + 1 > 1 /\ k < Len(frames) /\ k + 1 # 1
      <4>1. k \in DOMAIN frames /\ k < Len(frames) /\ k \in Nat /\ k >= 1
        BY <2>2, <1>1, <1>3
      <4> QED
        BY <4>1, <1>1
    <3>2. y = frames[k + 1] /\ x.owner = frames[k].owner
      BY <2>2, <3>1, <1>14, <1>20
    <3>3. MadeBy(frames[k], y)
      BY <3>1, <3>2 DEF Layout, Nested
    <3>4. MadeBy(x, y)
      BY <3>2, <3>3 DEF MadeBy
    <3> QED
      BY <3>1, <3>2, <3>4, <1>19, SetsPair
  <2>3. ASSUME NEW k \in DOMAIN frames', NEW x, x = frames'[k], k > 1 PROVE Waits(x)'
    BY <1>15, <2>3
  <2>4. \A k \in DOMAIN frames' : k > 1 => Waits(frames[k])'
    BY <2>3 DEF Waits, Ln
  <2>5. ASSUME NEW k \in DOMAIN frames', k < Len(frames') PROVE MadeBy(frames[k], frames[k + 1])'
    <3>1. PICK x : x = frames'[k]
      OBVIOUS
    <3>2. PICK y : y = frames'[k + 1]
      OBVIOUS
    <3>3. MadeBy(x, y)'
      BY <2>2, <2>5, <3>1, <3>2
    <3> QED
      BY <3>1, <3>2, <3>3 DEF MadeBy, Inside, After, TableEnd, Off, Ln, SizeOf
  <2> QED
    BY <2>1, <2>4, <2>5 DEF Nested
<1>22. Apart'
  <2> SUFFICES ASSUME NEW k \in DOMAIN frames', NEW j \in DOMAIN frames', j < k, NEW x, x = frames'[k], NEW y, y = frames'[j]
               PROVE EndsBefore(x, y)'
    BY ZenonT(60) DEF Apart, EndsBefore, TableEnd, Off, Ln
  <2>1. k \in DOMAIN frames /\ j \in DOMAIN frames
    BY <1>3
  <2>2. EndsBefore(frames[k], frames[j]) /\ x.owner = frames[k].owner /\ y.pos = frames[j].pos /\ y.owner = frames[j].owner
    BY <2>1, <1>20 DEF Layout, Apart
  <2>3. EndsBefore(x, y)
    BY <2>2 DEF EndsBefore
  <2> QED
    BY <2>1, <2>2, <2>3, <1>19, SetsPair
<1> QED
  BY <1>4, <1>5, <1>6, <1>11, <1>12, <1>13, <1>16, <1>17, <1>18, <1>21, <1>22 DEF Layout

\* The layout when the table of a subdirectory is placed and its call made.
LEMMA OpensLayout ==
  ASSUME Layout, Parsing, NEW c, c = Current, NEW o \in Nat, Sets(c, o, 0), c \in Dirs,
         NEW t, t = [Top EXCEPT !.i = @ + SizeOf(image[Current])],
         NEW f, f = Call(image[c].name, c, Top.pos, Length, o), frames' = <<f>> \o (<<t>> \o Tail(frames)),
         status' = status, totalSize' = o, o >= totalSize, contents' = contents
  PROVE  Layout'
<1>1. /\ TypeOK /\ Top = frames[1] /\ 1 \in DOMAIN frames /\ Len(frames) \in Nat /\ Len(frames) >= 1
      /\ DOMAIN frames = 1 .. Len(frames) /\ frames # <<>> /\ frames \in Seq(Calls) /\ Good /\ status = "running"
  BY AtEntry, TheTop DEF Layout, Parsing
<1>2. /\ t \in Calls /\ t.owner = Top.owner /\ t.pos = Top.pos /\ t.step = "parse" /\ t.pos + t.i = After(c)
  BY TopAdvances DEF Parsing
<1>3. /\ c \in DOMAIN image /\ c \in Nat /\ c # RootEntry /\ Ln(c) = 0 /\ Inside(c, Top.owner)
      /\ image[c].name \in Nodes /\ Top.pos \in Nat /\ Length \in Nat /\ Length > 0
  <2>1. image[c].name \in Nodes
    BY <1>1, EntryFields DEF Dirs, IsLink
  <2> QED
    BY <2>1, <1>1, AtEntry, TopTable, CallsAre
<1>4. /\ f \in Calls /\ f.owner = c /\ f.pos = o /\ f.step = "self" /\ f.i = 0 /\ f.dir = image[c].name
      /\ f.listed = {} /\ f.parentOffset = Top.pos /\ f.parentSize = Length
  BY <1>3 DEF Call, Calls
<1>5. /\ frames' \in Seq(Calls) /\ frames' # <<>> /\ Len(frames') = Len(frames) + 1
      /\ DOMAIN frames' = 1 .. Len(frames) + 1
      /\ frames'[1] = f /\ Top' = f /\ frames'[2] = t /\ \A k \in 3 .. Len(frames) + 1 : frames'[k] = frames[k - 1]
  BY <1>1, <1>2, <1>4, CallStarts DEF Top
<1>6. TypeOK'
  <2>1. tree' = tree /\ maxSize' = maxSize /\ DOMAIN image' = DOMAIN image /\ image' \in [DOMAIN image' -> Entries]
    BY DEF Sets
  <2>2. Nodes' = Nodes /\ Entries' = Entries /\ Calls' = Calls
    BY <2>1 DEF Nodes, Entries, Calls
  <2> QED
    BY <1>1, <1>5, <2>1, <2>2 DEF TypeOK
<1>7. Running' /\ Listing' /\ tree' = tree /\ maxSize' = maxSize /\ \A b \in DOMAIN contents : FileEnd(b)' = FileEnd(b)
  BY <1>1, <1>4, <1>5 DEF Running, Listing, Sets, FileEnd
<1>8. Housed' /\ Tiled'
  BY SetsTables
<1>9. totalSize \in Nat /\ totalSize >= HeaderSize /\ \A b \in DOMAIN contents : FileEnd(b) <= totalSize
  BY <1>1 DEF TypeOK, Layout, Ended, AtEntry
<1>10. \A b \in DOMAIN contents : b \in Nat /\ FileEnd(b) \in Nat
  <2> SUFFICES ASSUME NEW b \in DOMAIN contents PROVE b \in Nat /\ FileEnd(b) \in Nat
    OBVIOUS
  <2>1. b \in Nat /\ contents[b] \in Nodes /\ tree \in Trees
    BY <1>1 DEF TypeOK
  <2>2. tree.size[contents[b]] \in Nat
    BY <2>1, TheTree
  <2> QED
    BY <2>1, <2>2 DEF FileEnd
<1>11. \A d \in Dirs' : Ln(d)' > 0 => d \in Dirs /\ Ln(d) > 0 /\ TableEnd(d)' = TableEnd(d) /\ Off(d)' = Off(d)
                                      /\ TableEnd(d)' <= totalSize /\ TableEnd(d) \in Nat
  <2> SUFFICES ASSUME NEW d \in Dirs', Ln(d)' > 0
               PROVE  d \in Dirs /\ Ln(d) > 0 /\ TableEnd(d)' = TableEnd(d) /\ Off(d)' = Off(d)
                      /\ TableEnd(d)' <= totalSize /\ TableEnd(d) \in Nat
    OBVIOUS
  <2>1. TableEnd(d)' <= totalSize
    BY SetsTables
  <2>2. d \in Dirs /\ d \in DOMAIN image /\ Ln(d) > 0 /\ TableEnd(d)' = TableEnd(d) /\ Off(d)' = Off(d)
    BY SetsView
  <2> QED
    BY <1>1, <2>1, <2>2, EntryFields
<1>12. Bounded'
  <2>1. \A b \in DOMAIN contents' : HeaderSize <= b /\ FileEnd(b)' <= maxSize' /\ b < FileEnd(b)'
    BY <1>7 DEF Layout, Bounded
  <2> QED
    BY <2>1, SetsTables DEF Bounded
<1>13. Separate'
  <2>1. ASSUME NEW d \in Dirs', NEW b \in DOMAIN contents', Ln(d)' > 0
        PROVE TableEnd(d)' <= b \/ FileEnd(b)' <= Off(d)'
    BY <2>1, <1>7, <1>11 DEF Layout, Separate
  <2>2. \A a, b \in DOMAIN contents' : a # b => FileEnd(a)' <= b \/ FileEnd(b)' <= a
    BY <1>7 DEF Layout, Separate
  <2> QED
    BY <2>1, <2>2, SetsTables DEF Separate
<1>14. Ended'
  <2>1. \A d \in Dirs' : Ln(d)' > 0 => TableEnd(d)' <= totalSize'
    BY <1>9, <1>11
  <2>2. \A b \in DOMAIN contents' : FileEnd(b)' <= totalSize'
    BY <1>7, <1>9, <1>10
  <2>3. totalSize' >= HeaderSize /\ totalSize' = Top'.pos
    BY <1>4, <1>5, <1>9 DEF HeaderSize
  <2> QED
    BY <2>1, <2>2, <2>3 DEF Ended
<1>15. /\ \A j \in DOMAIN frames : /\ j \in Nat /\ j + 1 \in DOMAIN frames' /\ (j = 1 \/ j > 1)
                                   /\ frames'[j + 1].owner = frames[j].owner /\ frames'[j + 1].pos = frames[j].pos
                                   /\ j > 1 => frames'[j + 1] = frames[j]
       /\ \A k \in DOMAIN frames' : k \in Nat /\ (k = 1 \/ \E j \in DOMAIN frames : k = j + 1)
  <2>1. ASSUME NEW k \in DOMAIN frames', k # 1 PROVE \E j \in DOMAIN frames : k = j + 1
    <3>1. k - 1 \in DOMAIN frames /\ k = (k - 1) + 1
      BY <2>1, <1>1, <1>5
    <3> QED
      BY <3>1
  <2>2. ASSUME NEW j \in DOMAIN frames
        PROVE  j \in Nat /\ j + 1 \in DOMAIN frames' /\ (j = 1 \/ j > 1) /\ (j > 1 => frames'[j + 1] = frames[j])
    <3>1. j \in Nat /\ j + 1 \in DOMAIN frames' /\ (j = 1 \/ j > 1)
      BY <1>1, <1>5
    <3>2. ASSUME j > 1 PROVE frames'[j + 1] = frames[j]
      <4>1. j + 1 \in 3 .. Len(frames) + 1 /\ (j + 1) - 1 = j
        BY <1>1, <3>2
      <4> QED
        BY <1>5, <4>1
    <3> QED
      BY <3>1, <3>2
  <2>3. \A j \in DOMAIN frames : frames'[j + 1].owner = frames[j].owner /\ frames'[j + 1].pos = frames[j].pos
    <3> SUFFICES ASSUME NEW j \in DOMAIN frames
                 PROVE frames'[j + 1].owner = frames[j].owner /\ frames'[j + 1].pos = frames[j].pos
      OBVIOUS
    <3>1. CASE j = 1
      <4>1. frames'[j + 1] = t
        BY <3>1, <1>5
      <4> QED
        BY <3>1, <4>1, <1>1, <1>2
    <3> QED
      BY <3>1, <2>2
  <2>4. \A k \in DOMAIN frames' : k \in Nat
    BY <1>1, <1>5
  <2> QED
    BY <2>1, <2>2, <2>3, <2>4
<1>16. OwnerIsPlaced(f)' /\ StandsAtEntry(f)' /\ BlankFrom(f)' /\ TableEnd(c)' = o /\ Off(c)' = o /\ Ln(c)' = 0 /\ c \in Dirs'
  <2>1. Off(c)' = o /\ Ln(c)' = 0 /\ c \in Dirs' /\ image'[c].name = image[c].name
    BY <1>3, SetsView DEF Sets
  <2>2. TableEnd(c)' = o
    BY <2>1 DEF TableEnd
  <2>3. OwnerIsPlaced(f)'
    BY <1>4, <1>9, <2>1 DEF OwnerIsPlaced, HeaderSize
  <2>4. StandsAtEntry(f)'
    BY <1>4, <2>1 DEF StandsAtEntry
  <2>5. BlankFrom(f)'
    <3> SUFFICES ASSUME NEW a \in DOMAIN image', f.pos + f.i <= a, a < TableEnd(f.owner)' PROVE FALSE
      BY DEF BlankFrom
    <3>1. f.pos + f.i = o /\ f.owner = c
      BY <1>4
    <3>2. a \in Nat
      BY <1>6 DEF TypeOK
    <3>3. o <= a /\ a < TableEnd(c)'
      BY <3>1
    <3> QED
      BY <2>2, <3>2, <3>3
  <2> QED
    BY <2>1, <2>2, <2>3, <2>4, <2>5
<1>17. ASSUME NEW k \in DOMAIN frames', NEW b, b = frames'[k]
       PROVE  OwnerIsPlaced(b)' /\ StandsAtEntry(b)' /\ BlankFrom(b)' /\ (k > 1 => Waits(b)')
  <2>1. CASE k = 1
    BY <2>1, <1>5, <1>17, <1>16
  <2>2. ASSUME NEW j \in DOMAIN frames, k = j + 1
        PROVE  OwnerIsPlaced(b)' /\ StandsAtEntry(b)' /\ BlankFrom(b)' /\ Waits(b)'
    <3>1. CASE j = 1
      <4>1. b = t
        BY <2>2, <3>1, <1>5, <1>17
      <4> QED
        BY <4>1, SetsTop
    <3>2. CASE j > 1
      <4>1. b = frames[j]
        BY <2>2, <3>2, <1>15, <1>17
      <4> QED
        BY <3>2, <4>1, SetsBelow
    <3> QED
      BY <3>1, <3>2, <1>15
  <2> QED
    BY <2>1, <2>2, <1>15
<1>18. Owned' /\ Standing' /\ Blank'
  <2>1. ASSUME NEW k \in DOMAIN frames', NEW b, b = frames'[k]
        PROVE  OwnerIsPlaced(b)' /\ StandsAtEntry(b)' /\ BlankFrom(b)'
    BY <1>17, <2>1
  <2>2. Owned'
    <3> SUFFICES ASSUME NEW k \in DOMAIN frames' PROVE OwnerIsPlaced(frames[k])'
      BY DEF Owned
    <3>1. PICK b : b = frames'[k]
      OBVIOUS
    <3>2. OwnerIsPlaced(b)'
      BY <2>1, <3>1
    <3> QED
      BY <3>1, <3>2 DEF OwnerIsPlaced, Off
  <2>3. Standing'
    BY <2>1, SMTT(30) DEF Standing, StandsAtEntry, Ln
  <2>4. Blank'
    BY <2>1 DEF Blank, BlankFrom, TableEnd, Ln, Off
  <2> QED
    BY <2>2, <2>3, <2>4
<1>21. \A k \in DOMAIN frames : frames[k].owner \in Dirs /\ frames[k].owner \in DOMAIN image /\ Ln(frames[k].owner) > 0
  <2> SUFFICES ASSUME NEW k \in DOMAIN frames
               PROVE  frames[k].owner \in Dirs /\ frames[k].owner \in DOMAIN image /\ Ln(frames[k].owner) > 0
    OBVIOUS
  <2>1. frames[k].owner \in Dirs
    BY DEF Layout, Owned, OwnerIsPlaced
  <2>2. k = 1 \/ k > 1
    BY <1>1
  <2>3. Ln(frames[k].owner) > 0
    BY <1>1, <2>2, AtEntry, TopTable DEF Layout, Nested, Waits
  <2> QED
    BY <2>1, <2>3 DEF Dirs
<1>23. Nested'
  <2>1. ASSUME NEW k \in DOMAIN frames' PROVE k = Len(frames') <=> frames'[k].owner = RootEntry
    <3>1. CASE k = 1
      BY <3>1, <1>1, <1>3, <1>4, <1>5
    <3>2. ASSUME NEW j \in DOMAIN frames, k = j + 1 PROVE k = Len(frames') <=> frames'[k].owner = RootEntry
      <4>1. j = Len(frames) <=> frames[j].owner = RootEntry
        BY DEF Layout, Nested
      <4>2. j = Len(frames) <=> k = Len(frames')
        BY <3>2, <1>1, <1>5, <1>15
      <4> QED
        BY <3>2, <4>1, <4>2, <1>15
    <3> QED
      BY <3>1, <3>2, <1>15
  <2>2. ASSUME NEW k \in DOMAIN frames', NEW x, x = frames'[k], k < Len(frames'), NEW y, y = frames'[k + 1]
        PROVE  MadeBy(x, y)'
    <3>1. CASE k = 1
      <4>1. x = f /\ y = t
        BY <2>2, <3>1, <1>5
      <4>2. After(c)' = After(c) /\ t.pos + t.i = After(c)
        BY <1>2, <1>3, SetsView
      <4>3. Inside(c, t.owner)'
        <5>1. PICK w : w = Top.owner
          OBVIOUS
        <5>2. w \in Dirs /\ Ln(w) > 0 /\ Inside(c, w)
          BY <5>1, <1>1, <1>3, TopTable
        <5>3. Inside(c, w)'
          BY <5>2, <1>3, SetsView
        <5> QED
          BY <5>1, <5>3, <1>2
      <4> QED
        BY <4>1, <4>2, <4>3, <1>4 DEF MadeBy
    <3>2. ASSUME NEW j \in DOMAIN frames, k = j + 1 PROVE MadeBy(x, y)'
      <4>1. k \in DOMAIN frames /\ k > 1 /\ j < Len(frames)
        BY <2>2, <3>2, <1>1, <1>5, <1>15
      <4>2. y = frames[j + 1] /\ x.owner = frames[j].owner
        BY <2>2, <3>2, <4>1, <1>15
      <4>3. MadeBy(frames[j], y)
        BY <4>1, <4>2 DEF Layout, Nested
      <4>4. MadeBy(x, y)
        BY <4>2, <4>3 DEF MadeBy
      <4>5. y.owner \in Dirs /\ Ln(y.owner) > 0 /\ x.owner \in DOMAIN image
        BY <3>2, <4>1, <4>2, <1>21
      <4> QED
        BY <4>4, <4>5, SetsPair
    <3> QED
      BY <3>1, <3>2, <1>15
  <2>3. ASSUME NEW k \in DOMAIN frames', NEW x, x = frames'[k], k > 1 PROVE Waits(x)'
    BY <1>17, <2>3
  <2>4. \A k \in DOMAIN frames' : k > 1 => Waits(frames[k])'
    BY <2>3 DEF Waits, Ln
  <2>5. ASSUME NEW k \in DOMAIN frames', k < Len(frames') PROVE MadeBy(frames[k], frames[k + 1])'
    <3>1. PICK x : x = frames'[k]
      OBVIOUS
    <3>2. PICK y : y = frames'[k + 1]
      OBVIOUS
    <3>3. MadeBy(x, y)'
      BY <2>2, <2>5, <3>1, <3>2
    <3> QED
      BY <3>1, <3>2, <3>3 DEF MadeBy, Inside, After, TableEnd, Off, Ln, SizeOf
  <2> QED
    BY <2>1, <2>4, <2>5, ZenonT(60) DEF Nested
<1>24. Apart'
  <2>1. ASSUME NEW k \in DOMAIN frames', NEW j \in DOMAIN frames', j < k, NEW x, x = frames'[k], NEW y, y = frames'[j]
        PROVE EndsBefore(x, y)'
    <3>1. PICK m \in DOMAIN frames : k = m + 1
      BY <2>1, <1>15
    <3>2. x.owner = frames[m].owner /\ x.owner \in Dirs /\ x.owner \in DOMAIN image /\ Ln(x.owner) > 0
      BY <2>1, <3>1, <1>15, <1>21
    <3>3. CASE j = 1
      <4>1. y.pos = o
        BY <2>1, <3>3, <1>4, <1>5
      <4>2. x.owner \in Dirs' /\ Ln(x.owner)' > 0
        BY <3>2, SetsView
      <4> QED
        BY <4>1, <4>2, <1>9, <1>11 DEF EndsBefore
    <3>4. ASSUME NEW l \in DOMAIN frames, j = l + 1 PROVE EndsBefore(x, y)'
      <4>1. l < m /\ y.pos = frames[l].pos /\ y.owner = frames[l].owner
        <5>1. l \in Nat /\ m \in Nat
          BY <1>15
        <5>2. frames'[l + 1].pos = frames[l].pos /\ frames'[l + 1].owner = frames[l].owner
          BY <1>15
        <5> QED
          BY <2>1, <3>1, <3>4, <5>1, <5>2
      <4>2. EndsBefore(frames[m], frames[l])
        BY <4>1 DEF Layout, Apart
      <4>3. EndsBefore(x, y)
        BY <3>2, <4>1, <4>2 DEF EndsBefore
      <4>4. y.owner \in Dirs /\ Ln(y.owner) > 0
        BY <4>1, <1>21
      <4> QED
        BY <3>2, <4>3, <4>4, SetsPair
    <3> QED
      BY <3>3, <3>4, <1>15
  <2>2. ASSUME NEW k \in DOMAIN frames', NEW j \in DOMAIN frames', j < k PROVE EndsBefore(frames[k], frames[j])'
    <3>1. PICK x : x = frames'[k]
      OBVIOUS
    <3>2. PICK y : y = frames'[j]
      OBVIOUS
    <3>3. EndsBefore(x, y)'
      BY <2>1, <2>2, <3>1, <3>2
    <3> QED
      BY <3>1, <3>2, <3>3 DEF EndsBefore, TableEnd, Off, Ln
  <2> QED
    BY <2>2 DEF Apart
<1> QED
  BY <1>6, <1>7, <1>8, <1>12, <1>13, <1>14, <1>18, <1>23, <1>24 DEF Layout

-----------------------------------------------------------------------------
(***************************************************************************)
(* The steps that leave the image as it is.                                *)
(***************************************************************************)
\* What does not depend on the calls.
LEMMA SameImage ==
  ASSUME Layout, UNCHANGED <<tree, maxSize, image, contents>>
  PROVE  /\ Bounded' /\ Separate' /\ Housed' /\ Tiled' /\ Dirs' = Dirs /\ Nodes' = Nodes /\ Entries' = Entries /\ Calls' = Calls
         /\ tree' \in Trees /\ maxSize' \in MaxSizes /\ RootEntry \in DOMAIN image' /\ DOMAIN image' \subseteq Nat
         /\ image' \in [DOMAIN image' -> Entries']
         /\ DOMAIN contents' \subseteq Nat /\ contents' \in [DOMAIN contents' -> Nodes']
         /\ \A d \in DOMAIN image : Ln(d)' = Ln(d) /\ Off(d)' = Off(d) /\ TableEnd(d)' = TableEnd(d) /\ After(d)' = After(d)
         /\ \A c \in DOMAIN contents : FileEnd(c)' = FileEnd(c)
<1>1. Bounded'
  BY DEF Layout, Bounded, Dirs, IsLink, Ln, Off, TableEnd, FileEnd
<1>2. Separate'
  BY DEF Layout, Separate, Dirs, IsLink, Ln, Off, TableEnd, FileEnd
<1>3. Housed' /\ Dirs' = Dirs
  BY DEF Layout, Housed, Dirs, IsLink, Ln, Off, TableEnd, Inside
<1>4. Tiled'
  BY DEF Layout, Tiled, Dirs, IsLink, Ln, Off, TableEnd, Inside, After
<1>5. Nodes' = Nodes /\ Entries' = Entries /\ Calls' = Calls
  BY DEF Nodes, Entries, Calls
<1>6. /\ \A d \in DOMAIN image : Ln(d)' = Ln(d) /\ Off(d)' = Off(d) /\ TableEnd(d)' = TableEnd(d) /\ After(d)' = After(d)
      /\ \A c \in DOMAIN contents : FileEnd(c)' = FileEnd(c)
  BY DEF Ln, Off, TableEnd, FileEnd, After
<1> QED
  BY <1>1, <1>2, <1>3, <1>4, <1>5, <1>6 DEF Layout, TypeOK

\* The compiler gives up, or has written its output.
LEMMA StopLayout ==
  ASSUME Layout, UNCHANGED <<tree, maxSize, totalSize, image, contents>>, frames' = <<>>,
         status' \in {"written", "failed", "too large"}, Good' => frames = <<>> /\ Good
  PROVE  Layout'
<1>1. TypeOK'
  <2>1. tree' \in Trees /\ maxSize' \in MaxSizes /\ RootEntry \in DOMAIN image' /\ DOMAIN image' \subseteq Nat
        /\ image' \in [DOMAIN image' -> Entries']
        /\ DOMAIN contents' \subseteq Nat /\ contents' \in [DOMAIN contents' -> Nodes']
    BY SameImage
  <2>2. totalSize' \in Nat /\ frames' \in Seq(Calls')
    BY NoCall DEF Layout, TypeOK
  <2> QED
    BY <2>1, <2>2 DEF TypeOK
<1>2. Running' /\ ~Listing'
  BY DEF Running, Listing
<1>3. Bounded' /\ Separate' /\ Housed' /\ Tiled'
  BY SameImage
<1>4. Ended'
  <2> SUFFICES ASSUME Good' PROVE /\ \A d \in Dirs' : Ln(d)' > 0 => TableEnd(d)' <= totalSize'
                                  /\ \A c \in DOMAIN contents' : FileEnd(c)' <= totalSize'
                                  /\ totalSize' >= HeaderSize
    BY <1>2 DEF Ended
  <2>1. ~Listing /\ Good
    BY DEF Listing
  <2> QED
    BY <2>1, SameImage DEF Layout, Ended, Dirs, Ln, Off, TableEnd, FileEnd, IsLink
<1>5. Owned' /\ Standing' /\ Blank' /\ Nested' /\ Apart'
  <2>1. DOMAIN frames' = {}
    BY NoCall
  <2> QED
    BY <2>1 DEF Owned, Standing, Blank, Nested, Apart
<1> QED
  BY <1>1, <1>2, <1>3, <1>4, <1>5 DEF Layout

\* The innermost call goes on with its list, or to its second loop.
LEMMA TopStepLayout ==
  ASSUME Layout, Good, Listing, NEW top \in Calls, SameCall(top, Top), frames' = <<top>> \o Tail(frames),
         UNCHANGED <<tree, maxSize, image, contents, status>>,
         \/ top.step = "list" /\ totalSize' = totalSize
         \/ top.step = "parse" /\ totalSize' = totalSize + Length
  PROVE  Layout'
<1>1. /\ TypeOK /\ Top = frames[1] /\ 1 \in DOMAIN frames /\ Len(frames) \in Nat /\ Len(frames) >= 1
      /\ DOMAIN frames = 1 .. Len(frames) /\ frames # <<>> /\ frames \in Seq(Calls)
  BY TheTop DEF Layout, Listing
<1>2. /\ top.owner = Top.owner /\ top.pos = Top.pos /\ top.i = Top.i /\ top.dir = Top.dir /\ Top.i = 0
      /\ Top.pos \in Nat /\ Length \in Nat /\ totalSize = Top.pos /\ totalSize >= HeaderSize
      /\ TableEnd(Top.owner) = Top.pos + Length
  BY <1>1, TopTable, CallsAre DEF SameCall, Layout, Standing, StandsAtEntry, Listing, Ended
<1>3. /\ frames' \in Seq(Calls) /\ frames' # <<>> /\ Len(frames') = Len(frames) /\ DOMAIN frames' = DOMAIN frames
      /\ frames'[1] = top /\ Top' = top /\ \A k \in 2 .. Len(frames) : frames'[k] = frames[k]
  BY <1>1, <1>2, TopChanges DEF Top
<1>4. TypeOK'
  <2>1. tree' \in Trees /\ maxSize' \in MaxSizes /\ RootEntry \in DOMAIN image' /\ DOMAIN image' \subseteq Nat
        /\ image' \in [DOMAIN image' -> Entries'] /\ Calls' = Calls
        /\ DOMAIN contents' \subseteq Nat /\ contents' \in [DOMAIN contents' -> Nodes']
    BY SameImage
  <2>2. totalSize' \in Nat /\ frames' \in Seq(Calls') /\ status' \in {"running", "compiled", "written", "failed", "too large"}
    <3>1. totalSize' \in Nat
      BY <1>2
    <3>2. frames' \in Seq(Calls')
      BY <1>3, <2>1
    <3> QED
      BY <1>1, <3>1, <3>2 DEF TypeOK
  <2> QED
    BY <2>1, <2>2 DEF TypeOK
<1>5. Running' /\ (Listing' <=> top.step = "list")
  BY <1>1, <1>3 DEF Layout, Running, Listing
<1>6. Bounded' /\ Separate' /\ Housed' /\ Tiled' /\ Dirs' = Dirs
  BY SameImage
<1>7. Ended'
  <2>1. ASSUME NEW d \in Dirs', Ln(d)' > 0, ~(Listing' /\ d = Top'.owner) PROVE TableEnd(d)' <= totalSize'
    <3>1. d \in Dirs /\ d \in DOMAIN image /\ Ln(d) > 0 /\ TableEnd(d)' = TableEnd(d) /\ TableEnd(d) \in Nat
      BY <2>1, <1>1, SameImage, EntryFields DEF Dirs
    <3>2. CASE d = Top.owner
      BY <2>1, <3>1, <3>2, <1>2, <1>3, <1>5
    <3>3. CASE d # Top.owner
      <4>1. TableEnd(d) <= totalSize
        BY <3>1, <3>3 DEF Layout, Ended
      <4> QED
        BY <3>1, <4>1, <1>2
    <3> QED
      BY <3>2, <3>3
  <2>2. ASSUME NEW c \in DOMAIN contents' PROVE FileEnd(c)' <= totalSize'
    <3>1. FileEnd(c)' = FileEnd(c) /\ FileEnd(c) <= totalSize /\ c \in DOMAIN contents
      BY SameImage DEF Layout, Ended
    <3>2. FileEnd(c) \in Nat
      <4>1. c \in Nat /\ contents[c] \in Nodes /\ tree \in Trees
        BY <1>1, <3>1 DEF TypeOK
      <4>2. tree.size[contents[c]] \in Nat
        BY <4>1, TheTree
      <4> QED
        BY <4>1, <4>2 DEF FileEnd
    <3> QED
      BY <3>1, <3>2, <1>2
  <2>3. (Listing' => totalSize' = Top'.pos) /\ totalSize' >= HeaderSize
    BY <1>2, <1>3, <1>5 DEF HeaderSize
  <2> QED
    BY <2>1, <2>2, <2>3 DEF Ended
<1>8. \A k \in DOMAIN frames : k \in Nat /\ (k = 1 \/ (k > 1 /\ frames'[k] = frames[k])) /\ SameCall(frames'[k], frames[k])
  <2> SUFFICES ASSUME NEW k \in DOMAIN frames
               PROVE k \in Nat /\ (k = 1 \/ (k > 1 /\ frames'[k] = frames[k])) /\ SameCall(frames'[k], frames[k])
    OBVIOUS
  <2>1. k = 1 \/ k \in 2 .. Len(frames)
    BY <1>1
  <2> QED
    BY <2>1, <1>1, <1>3 DEF SameCall
<1>9. ASSUME NEW k \in DOMAIN frames', NEW b, b = frames'[k]
      PROVE  OwnerIsPlaced(b)' /\ StandsAtEntry(b)' /\ BlankFrom(b)' /\ (k > 1 => Waits(b)')
  <2>1. OwnerIsPlaced(frames[k]) /\ StandsAtEntry(frames[k]) /\ BlankFrom(frames[k]) /\ (k > 1 => Waits(frames[k]))
    BY <1>3 DEF Layout, Owned, Standing, Blank, Nested
  <2>2. SameCall(b, frames[k]) /\ frames[k].owner \in DOMAIN image
    BY <1>8, <1>9, <1>3, <2>1 DEF OwnerIsPlaced, Dirs
  <2>3. OwnerIsPlaced(b)' /\ BlankFrom(b)'
    BY <2>1, <2>2, SameImage DEF OwnerIsPlaced, BlankFrom, SameCall
  <2>4. StandsAtEntry(b)' /\ (k > 1 => Waits(b)')
    <3>1. CASE k = 1
      <4>1. b = top /\ b.i = 0 /\ b.step # "self" /\ b.pos = Top.pos /\ b.owner = Top.owner
        BY <3>1, <1>2, <1>3, <1>9
      <4>2. 0 <= Ln(Top.owner) /\ (0 < Ln(Top.owner) => Top.pos + 0 \in DOMAIN image)
        BY <2>1, <3>1, <1>1, <1>2 DEF StandsAtEntry
      <4>3. Ln(b.owner)' = Ln(b.owner)
        BY <2>2, SameImage DEF SameCall
      <4> QED
        BY <3>1, <4>1, <4>2, <4>3 DEF StandsAtEntry
    <3>2. CASE k > 1
      <4>1. b = frames[k]
        BY <3>2, <1>3, <1>8, <1>9
      <4>2. Ln(b.owner)' = Ln(b.owner)
        BY <2>2, <4>1, SameImage
      <4> QED
        BY <2>1, <4>1, <4>2 DEF StandsAtEntry, Waits
    <3> QED
      BY <3>1, <3>2, <1>3, <1>8
  <2> QED
    BY <2>3, <2>4
<1>10. ASSUME NEW k \in DOMAIN frames' PROVE OwnerIsPlaced(frames[k])' /\ StandsAtEntry(frames[k])' /\ BlankFrom(frames[k])'
  <2>1. PICK b : b = frames'[k]
    OBVIOUS
  <2>2. OwnerIsPlaced(b)' /\ StandsAtEntry(b)' /\ BlankFrom(b)'
    BY <1>9, <2>1
  <2> QED
    BY <2>1, <2>2 DEF OwnerIsPlaced, StandsAtEntry, BlankFrom, Off, Ln, TableEnd
<1>11. Owned' /\ Standing' /\ Blank'
  BY <1>10 DEF Owned, Standing, Blank
<1>12. Nested'
  <2>1. ASSUME NEW k \in DOMAIN frames', k > 1 PROVE Waits(frames[k])'
    <3>1. PICK b : b = frames'[k]
      OBVIOUS
    <3>2. Waits(b)'
      BY <1>9, <2>1, <3>1
    <3> QED
      BY <3>1, <3>2 DEF Waits, Ln
  <2>2. ASSUME NEW k \in DOMAIN frames' PROVE k = Len(frames') <=> frames'[k].owner = RootEntry
    BY <1>3, <1>8 DEF Layout, Nested, SameCall
  <2>3. ASSUME NEW k \in DOMAIN frames', k < Len(frames') PROVE MadeBy(frames[k], frames[k + 1])'
    <3>1. k \in DOMAIN frames /\ k + 1 \in DOMAIN frames /\ k < Len(frames)
      BY <2>3, <1>1, <1>3, <1>8
    <3>2. MadeBy(frames[k], frames[k + 1])
      BY <3>1 DEF Layout, Nested
    <3> QED
      BY <3>1, <3>2, <1>8 DEF MadeBy, Inside, After, TableEnd, Off, Ln, SizeOf, SameCall
  <2> QED
    BY <2>1, <2>2, <2>3 DEF Nested
<1>13. Apart'
  <2> SUFFICES ASSUME NEW k \in DOMAIN frames', NEW j \in DOMAIN frames', j < k PROVE EndsBefore(frames[k], frames[j])'
    BY DEF Apart
  <2>1. EndsBefore(frames[k], frames[j])
    BY <1>3 DEF Layout, Apart
  <2> QED
    BY <2>1, <1>3, <1>8 DEF EndsBefore, TableEnd, Off, Ln, SameCall
<1> QED
  BY <1>4, <1>5, <1>6, <1>7, <1>11, <1>12, <1>13 DEF Layout

\* A call returns to the second loop of the one that made it.
LEMMA ReturnLayout == ASSUME Layout, Return PROVE Layout'
<1>1. /\ TypeOK /\ Top = frames[1] /\ 1 \in DOMAIN frames /\ Len(frames) \in Nat /\ Len(frames) >= 1
      /\ DOMAIN frames = 1 .. Len(frames) /\ frames # <<>> /\ frames \in Seq(Calls) /\ status = "running"
      /\ Top.step = "parse" /\ ~Listing /\ Good
  BY TheTop DEF Layout, Running, Return, Listing, Good
<1>2. UNCHANGED <<tree, maxSize, totalSize, image, contents>> /\ frames' = Tail(frames)
  BY DEF Return
<1>3. /\ frames' \in Seq(Calls) /\ Len(frames') = Len(frames) - 1 /\ DOMAIN frames' = 1 .. Len(frames) - 1
      /\ \A k \in 1 .. Len(frames) - 1 : frames'[k] = frames[k + 1]
  <2>1. /\ Tail(frames) \in Seq(Calls) /\ Len(Tail(frames)) = Len(frames) - 1
        /\ \A k \in 1 .. Len(frames) - 1 : Tail(frames)[k] = frames[k + 1]
    BY <1>1, TopIs
  <2> DEFINE u == Tail(frames)
  <2>2. u \in Seq(Calls) /\ Len(u) = Len(frames) - 1 /\ Len(frames) \in Nat
    BY <1>1, <2>1
  <2> HIDE DEF u
  <2>3. DOMAIN u = 1 .. Len(u)
    BY <2>2
  <2> QED
    BY <1>2, <2>1, <2>2, <2>3 DEF u
<1>4. \A k \in DOMAIN frames' : k \in Nat /\ k + 1 \in DOMAIN frames /\ k + 1 > 1 /\ frames'[k] = frames[k + 1]
  BY <1>1, <1>3
<1>5. frames' = <<>> <=> Len(frames) = 1
  BY <1>1, <1>3, NoCall
<1>6. Running' /\ Good'
  BY <1>5 DEF Running, Return, Good
<1>7. ~Listing'
  <2> SUFFICES ASSUME frames' # <<>> PROVE Top'.step = "parse"
    BY DEF Listing
  <2>1. 1 \in DOMAIN frames' /\ Top' = frames'[1]
    BY <1>1, <1>3, <1>5, TopIs DEF Top
  <2>2. Top' = frames[1 + 1] /\ Waits(frames[1 + 1])
    BY <1>4, <2>1 DEF Layout, Nested
  <2> QED
    BY <2>2 DEF Waits
<1>8. TypeOK'
  <2>1. tree' \in Trees /\ maxSize' \in MaxSizes /\ RootEntry \in DOMAIN image' /\ DOMAIN image' \subseteq Nat
        /\ image' \in [DOMAIN image' -> Entries'] /\ Calls' = Calls
        /\ DOMAIN contents' \subseteq Nat /\ contents' \in [DOMAIN contents' -> Nodes']
    BY <1>2, SameImage
  <2>2. totalSize' \in Nat /\ status' \in {"running", "compiled", "written", "failed", "too large"}
    BY <1>1 DEF TypeOK, Return
  <2>3. frames' \in Seq(Calls')
    BY <1>3, <2>1
  <2> QED
    BY <2>1, <2>2, <2>3 DEF TypeOK
<1>9. Bounded' /\ Separate' /\ Housed' /\ Tiled'
  BY <1>2, SameImage
<1>10. Ended'
  <2>1. ASSUME NEW d \in Dirs', Ln(d)' > 0 PROVE TableEnd(d)' <= totalSize'
    BY <2>1, <1>1, <1>2 DEF Layout, Ended, Dirs, IsLink, Ln, Off, TableEnd
  <2>2. ASSUME NEW c \in DOMAIN contents' PROVE FileEnd(c)' <= totalSize'
    BY <2>2, <1>1, <1>2 DEF Layout, Ended, FileEnd
  <2>3. totalSize' >= HeaderSize
    BY <1>1, <1>2 DEF Layout, Ended
  <2> QED
    BY <2>1, <2>2, <2>3, <1>7 DEF Ended
<1>11. ASSUME NEW k \in DOMAIN frames' PROVE OwnerIsPlaced(frames[k])' /\ StandsAtEntry(frames[k])' /\ BlankFrom(frames[k])'
  <2>1. OwnerIsPlaced(frames[k + 1]) /\ StandsAtEntry(frames[k + 1]) /\ BlankFrom(frames[k + 1])
    BY <1>4 DEF Layout, Owned, Standing, Blank
  <2>2. frames'[k] = frames[k + 1]
    BY <1>4
  <2> QED
    BY <2>1, <2>2, <1>2 DEF OwnerIsPlaced, StandsAtEntry, BlankFrom, Off, Ln, TableEnd, Dirs, IsLink
<1>12. Owned' /\ Standing' /\ Blank'
  BY <1>11 DEF Owned, Standing, Blank
<1>13. Nested'
  <2>1. ASSUME NEW k \in DOMAIN frames', k > 1 PROVE Waits(frames[k])'
    <3>1. Waits(frames[k + 1]) /\ frames'[k] = frames[k + 1]
      BY <1>4 DEF Layout, Nested
    <3> QED
      BY <3>1, <1>2 DEF Waits, Ln
  <2>2. ASSUME NEW k \in DOMAIN frames' PROVE k = Len(frames') <=> frames'[k].owner = RootEntry
    <3>1. k + 1 = Len(frames) <=> frames[k + 1].owner = RootEntry
      BY <1>4 DEF Layout, Nested
    <3>2. k + 1 = Len(frames) <=> k = Len(frames')
      BY <1>1, <1>3, <1>4
    <3> QED
      BY <3>1, <3>2, <1>4
  <2>3. ASSUME NEW k \in DOMAIN frames', k < Len(frames') PROVE MadeBy(frames[k], frames[k + 1])'
    <3>1. k + 1 \in DOMAIN frames' /\ k + 1 < Len(frames)
      BY <2>3, <1>1, <1>3, <1>4
    <3>2. frames'[k] = frames[k + 1] /\ frames'[k + 1] = frames[(k + 1) + 1] /\ MadeBy(frames[k + 1], frames[(k + 1) + 1])
      BY <3>1, <1>4 DEF Layout, Nested
    <3> QED
      BY <3>2, <1>2 DEF MadeBy, Inside, After, TableEnd, Off, Ln, SizeOf
  <2> QED
    BY <2>1, <2>2, <2>3 DEF Nested
<1>14. Apart'
  <2> SUFFICES ASSUME NEW k \in DOMAIN frames', NEW j \in DOMAIN frames', j < k PROVE EndsBefore(frames[k], frames[j])'
    BY DEF Apart
  <2>1. k + 1 \in DOMAIN frames /\ j + 1 \in DOMAIN frames /\ j + 1 < k + 1
    BY <1>4
  <2>2. EndsBefore(frames[k + 1], frames[j + 1]) /\ frames'[k] = frames[k + 1] /\ frames'[j] = frames[j + 1]
    BY <2>1, <1>4 DEF Layout, Apart
  <2> QED
    BY <2>2, <1>2 DEF EndsBefore, TableEnd, Off, Ln
<1> QED
  BY <1>6, <1>8, <1>9, <1>10, <1>12, <1>13, <1>14 DEF Layout

\* The layout before the first entry is written.
LEMMA InitLayout == Init => Layout
<1> SUFFICES ASSUME Init PROVE Layout
  OBVIOUS
<1>1. tree \in Trees /\ maxSize \in MaxSizes /\ totalSize = HeaderSize /\ contents = <<>> /\ status = "running"
  BY DEF Init
<1>2. Root \in Nodes /\ Root # Self /\ Root # Parent
  BY <1>1, TheTree
<1> DEFINE e == [EntryAt(Root, "dir", 0) EXCEPT !.dataOffset = HeaderSize]
           c == Call(Root, RootEntry, 0, 0, HeaderSize)
<1>3. /\ e \in Entries /\ e.name = Root /\ e.type = "dir" /\ e.nameLength = 0
      /\ e.dataOffset = 14 /\ e.dataLength = 0
  BY <1>2 DEF EntryAt, Entries, HeaderSize
<1>4. /\ c \in Calls /\ c.dir = Root /\ c.owner = 4 /\ c.pos = 14 /\ c.step = "self" /\ c.i = 0
  BY <1>2 DEF Call, Calls, HeaderSize, RootEntry
<1>5. image = [a \in {RootEntry} |-> e] /\ frames = <<c>>
  BY DEF Init
<1> HIDE DEF e, c
<1>6. DOMAIN image = {4} /\ image[4] = e /\ image \in [DOMAIN image -> Entries]
  BY <1>3, <1>5 DEF RootEntry
<1>7. frames \in Seq(Calls) /\ Len(frames) = 1 /\ DOMAIN frames = {1} /\ frames[1] = c /\ frames # <<>> /\ Top = c
  BY <1>4, <1>5 DEF Top
<1>8. Off(4) = 14 /\ Ln(4) = 0 /\ TableEnd(4) = 14 /\ Dirs = {4} /\ DOMAIN contents = {}
  <2>1. Off(4) = 14 /\ Ln(4) = 0
    BY <1>3, <1>6 DEF Off, Ln
  <2>2. Dirs = {4}
    BY <1>2, <1>3, <1>6 DEF Dirs, IsLink
  <2> QED
    BY <2>1, <2>2, <1>1, NoCall DEF TableEnd
<1>9. TypeOK
  <2>1. contents \in [DOMAIN contents -> Nodes]
    <3>1. contents = [x \in {} |-> 0]
      BY <1>1
    <3> QED
      BY <3>1
  <2> QED
    BY <2>1, <1>1, <1>6, <1>7, <1>8 DEF TypeOK, HeaderSize, RootEntry
<1>10. Running /\ Good
  BY <1>1, <1>7 DEF Running, Good
<1>11. Bounded /\ Separate
  BY <1>8 DEF Bounded, Separate
<1>12. Ended
  BY <1>1, <1>4, <1>7, <1>8 DEF Ended, HeaderSize
<1>13. Housed /\ Tiled
  BY <1>6, <1>8 DEF Housed, Tiled, RootEntry
<1>14. Owned
  BY <1>3, <1>4, <1>6, <1>7, <1>8 DEF Owned, OwnerIsPlaced, HeaderSize
<1>15. Standing /\ Blank
  BY <1>4, <1>6, <1>7, <1>8 DEF Standing, StandsAtEntry, Blank, BlankFrom
<1>16. Nested /\ Apart
  BY <1>4, <1>7 DEF Nested, Apart, RootEntry
<1> QED
  BY <1>9, <1>10, <1>11, <1>12, <1>13, <1>14, <1>15, <1>16 DEF Layout

-----------------------------------------------------------------------------
(***************************************************************************)
(* Every step, in the terms of the invariants.                             *)
(***************************************************************************)
\* The entry an innermost call that lists its directory writes next, and what
\* becomes of the call.
WritesNext(e, top) ==
    /\ Listing /\ Good /\ e.dataOffset = 0 /\ e.dataLength = 0 /\ NamedAs(e) /\ SameCall(top, Top)
    /\ \/ /\ Top.step = "self" /\ e.name = Self /\ e.nameLength = 1 /\ top.listed = Top.listed
          /\ top.step = IF Top.parentOffset # 0 /\ Top.parentSize # 0 THEN "parent" ELSE "list"
       \/ /\ Top.step = "parent" /\ e.name = Parent /\ e.nameLength = 2 /\ top.listed = Top.listed
          /\ top.step = "list"
       \/ /\ Top.step = "list" /\ e.name \in Kept /\ e.name \in Children(Top.dir) \ Top.listed
          /\ e.nameLength = tree.nameLength[e.name] /\ top.listed = Top.listed \union {e.name}
          /\ top.step = "list"
Adds(e, top) == WritesNext(e, top) /\ Grows(e) /\ Free \notin DOMAIN image /\ frames'[1] = top
Refuses ==
    /\ Stop("too large")
    /\ \/ \E e \in Entries, top \in Calls : WritesNext(e, top) /\ ~Fits(e.nameLength)
       \/ Parsing /\ image[Current].type = "file" /\ ~FileFits(Align(totalSize), tree.size[image[Current].name])

\* The call passes over what is neither file nor directory, or has seen all.
Skips(n, top) ==
    /\ Listing /\ Good /\ Top.step = "list" /\ n \in Children(Top.dir) \ Top.listed /\ n \notin Kept
    /\ SameCall(top, Top) /\ top.step = "list" /\ top.listed = Top.listed \union {n}
    /\ frames' = <<top>> \o Tail(frames) /\ UNCHANGED <<tree, maxSize, totalSize, image, contents, status>>
HasListed(top) ==
    /\ Listing /\ Good /\ Top.step = "list" /\ Children(Top.dir) = Top.listed
    /\ SameCall(top, Top) /\ top.step = "parse" /\ top.listed = Top.listed
    /\ frames' = <<top>> \o Tail(frames) /\ UNCHANGED <<tree, maxSize, image, contents, status>>
    /\ totalSize' = totalSize + Length

\* The data of a link or a file is set, or that of a directory placed.
GoesOn(t) == t = [Top EXCEPT !.i = @ + SizeOf(image[Current])]
SetsLink(c, o, n, t) ==
    /\ Parsing /\ c = Current /\ c \notin Dirs /\ Sets(c, o, n) /\ GoesOn(t) /\ frames' = <<t>> \o Tail(frames)
    /\ UNCHANGED <<totalSize, contents, status>>
    /\ \/ image[c].name = Self /\ o = Top.pos /\ n = Length
       \/ image[c].name = Parent /\ o = Top.parentOffset /\ n = Top.parentSize
SetsFile(c, o, n, t) ==
    /\ Parsing /\ c = Current /\ c \notin Dirs /\ Sets(c, o, n) /\ GoesOn(t) /\ frames' = <<t>> \o Tail(frames)
    /\ status' = status /\ image[c].type = "file" /\ image[c].name \in Kept /\ n = tree.size[image[c].name]
    /\ o = Align(totalSize) /\ o + n <= maxSize /\ totalSize' = o + n
    /\ contents' = IF n = 0 THEN contents ELSE Written(contents, o, image[c].name)
Opens(c, o, t, f) ==
    /\ Parsing /\ c = Current /\ c \in Dirs /\ Sets(c, o, 0) /\ GoesOn(t)
    /\ f = Call(image[c].name, c, Top.pos, Length, o) /\ frames' = <<f>> \o (<<t>> \o Tail(frames))
    /\ status' = status /\ contents' = contents /\ o = Align(totalSize) /\ totalSize' = o

Step ==
    \/ Stop("failed")
    \/ Refuses
    \/ \E e \in Entries, top \in Calls : Adds(e, top)
    \/ \E n \in Nodes, top \in Calls : Skips(n, top)
    \/ \E top \in Calls : HasListed(top)
    \/ \E c, o, n \in Nat, t \in Calls : SetsLink(c, o, n, t)
    \/ \E c, o, n \in Nat, t \in Calls : SetsFile(c, o, n, t)
    \/ \E c, o \in Nat, t, f \in Calls : Opens(c, o, t, f)
    \/ Return
    \/ WriteOutput

\* The innermost call while it lists its directory.
LEMMA WhileListing ==
  ASSUME Layout, status = "running", Top.step # "parse"
  PROVE  Listing /\ Good /\ TypeOK /\ frames # <<>> /\ Top \in Calls /\ Top = frames[1] /\ 1 \in DOMAIN frames
         /\ frames \in Seq(Calls) /\ Top.listed \subseteq Nodes
<1>1. frames # <<>> /\ TypeOK
  BY DEF Layout, Running
<1> QED
  BY <1>1, TheTop, CallsAre DEF Listing, Good

\* What the next state of the innermost call may be.
LEMMA TopSteps ==
  ASSUME NEW c \in Calls
  PROVE  /\ \A x \in {"parent", "list", "parse"} :
              LET d == [c EXCEPT !.step = x] IN d \in Calls /\ SameCall(d, c) /\ d.step = x /\ d.listed = c.listed
         /\ \A n \in Nodes :
              LET d == [c EXCEPT !.listed = @ \union {n}] IN
              d \in Calls /\ SameCall(d, c) /\ d.step = c.step /\ d.listed = c.listed \union {n}
  BY DEF Calls, SameCall

\* An entry is written or the tree refused.
LEMMA AddIs ==
  ASSUME Layout, NEW e \in Entries, NEW top \in Calls, WritesNext(e, top), AddEntry(e, top)
  PROVE  Step
<1>1. Listing /\ Good /\ SameCall(top, Top) /\ top.step \in {"parent", "list"}
  BY DEF WritesNext
<1>2. CASE Fits(e.nameLength)
  BY <1>1, <1>2, EntryAdded DEF Adds, Step
<1>3. CASE ~Fits(e.nameLength)
  BY <1>3 DEF AddEntry, Refuses, Step
<1> QED
  BY <1>2, <1>3

\* A call starts: it writes the link to the directory itself.
LEMMA OpenDirectoryIs == ASSUME Layout, OpenDirectory PROVE Step
<1>1. status = "running" /\ Top.step = "self" /\ Top \in Calls /\ Listing /\ Good
  BY WhileListing DEF OpenDirectory
<1> DEFINE x == IF Top.parentOffset # 0 /\ Top.parentSize # 0 THEN "parent" ELSE "list"
           top == [Top EXCEPT !.step = x]
           e == EntryAt(Self, "dir", 1)
<1>2. CASE Stop("failed")
  BY <1>2 DEF Step
<1>3. CASE AddEntry(e, top)
  <2>1. e \in Entries /\ e.dataOffset = 0 /\ e.dataLength = 0 /\ e.name = Self /\ e.nameLength = 1 /\ e.type = "dir"
    BY EntryIs, SMTT(30)
  <2>2. top \in Calls /\ SameCall(top, Top) /\ top.step = x /\ top.listed = Top.listed
    <3>1. x \in {"parent", "list"}
      OBVIOUS
    <3>2. \A y \in {"parent", "list", "parse"} :
            LET d == [Top EXCEPT !.step = y] IN
            d \in Calls /\ SameCall(d, Top) /\ d.step = y /\ d.listed = Top.listed
      BY <1>1, TopSteps
    <3> HIDE DEF x
    <3> QED
      BY <3>1, <3>2
  <2> HIDE DEF e, top
  <2>3. WritesNext(e, top)
    BY <1>1, <2>1, <2>2 DEF WritesNext, NamedAs
  <2> QED
    BY <1>3, <2>1, <2>2, <2>3, AddIs
<1> QED
  BY <1>2, <1>3 DEF OpenDirectory

\* The link to the directory above.
LEMMA AddParentLinkIs == ASSUME Layout, AddParentLink PROVE Step
<1>1. status = "running" /\ Top.step = "parent" /\ Top \in Calls /\ Listing /\ Good
  BY WhileListing DEF AddParentLink
<1> DEFINE top == [Top EXCEPT !.step = "list"]
           e == EntryAt(Parent, "dir", 2)
<1>2. AddEntry(e, top)
  BY DEF AddParentLink
<1>3. e \in Entries /\ e.dataOffset = 0 /\ e.dataLength = 0 /\ e.name = Parent /\ e.nameLength = 2 /\ e.type = "dir"
  BY EntryIs
<1>4. top \in Calls /\ SameCall(top, Top) /\ top.step = "list" /\ top.listed = Top.listed
  BY <1>1, TopSteps
<1> HIDE DEF e, top
<1>5. WritesNext(e, top)
  BY <1>1, <1>3, <1>4 DEF WritesNext, NamedAs
<1> QED
  BY <1>2, <1>3, <1>4, <1>5, AddIs

\* A name from readdir.
LEMMA ReadDirectoryIs == ASSUME Layout, NEW n \in DOMAIN tree.kind, ReadDirectory(n) PROVE Step
<1>1. status = "running" /\ Top.step = "list" /\ Top \in Calls /\ Listing /\ Good /\ n \in Nodes /\ tree \in Trees
      /\ n \in Children(Top.dir) \ Top.listed /\ n \in DOMAIN tree.parent
  BY WhileListing DEF ReadDirectory, Nodes, TypeOK, Children
<1> DEFINE top == [Top EXCEPT !.listed = @ \union {n}]
           e == EntryAt(n, tree.kind[n], tree.nameLength[n])
<1>2. top \in Calls /\ SameCall(top, Top) /\ top.step = "list" /\ top.listed = Top.listed \union {n}
  BY <1>1, TopSteps
<1>3. CASE tree.kind[n] \in {"dir", "file"}
  <2>1. AddEntry(e, top)
    BY <1>3 DEF ReadDirectory
  <2>2. tree.nameLength[n] \in Nat /\ n # Self /\ n # Parent /\ n \in Kept
    BY <1>1, <1>3, TheTree DEF Kept
  <2>3. /\ e \in Entries /\ e.dataOffset = 0 /\ e.dataLength = 0
        /\ e.name = n /\ e.type = tree.kind[n] /\ e.nameLength = tree.nameLength[n]
    BY <1>1, <1>3, <2>2, EntryIs
  <2> HIDE DEF e, top
  <2>4. WritesNext(e, top)
    BY <1>1, <1>2, <2>2, <2>3 DEF WritesNext, NamedAs
  <2> QED
    BY <1>2, <2>1, <2>3, <2>4, AddIs
<1>4. CASE tree.kind[n] \notin {"dir", "file"}
  <2>1. frames' = <<top>> \o Tail(frames) /\ UNCHANGED <<tree, maxSize, totalSize, image, contents, status>>
    BY <1>4 DEF ReadDirectory
  <2>2. n \notin Kept
    BY <1>4 DEF Kept
  <2> HIDE DEF top
  <2> QED
    BY <1>1, <1>2, <2>1, <2>2 DEF Skips, Step
<1> QED
  BY <1>3, <1>4

\* readdir has no more names.
LEMMA EndOfDirectoryIs == ASSUME Layout, EndOfDirectory PROVE Step
<1>1. status = "running" /\ Top.step = "list" /\ Top \in Calls /\ Listing /\ Good /\ Children(Top.dir) = Top.listed
  BY WhileListing DEF EndOfDirectory
<1> DEFINE top == [Top EXCEPT !.step = "parse"]
<1>2. top \in Calls /\ SameCall(top, Top) /\ top.step = "parse" /\ top.listed = Top.listed
  BY <1>1, TopSteps
<1>3. frames' = <<top>> \o Tail(frames) /\ UNCHANGED <<tree, maxSize, image, contents, status>>
      /\ totalSize' = totalSize + Length
  BY DEF EndOfDirectory
<1> HIDE DEF top
<1> QED
  BY <1>1, <1>2, <1>3 DEF HasListed, Step

\* Align goes up to a multiple of four.
LEMMA AlignIs == ASSUME NEW n \in Nat PROVE Align(n) \in Nat /\ Align(n) >= n /\ Align(n) % 4 = 0 /\ Align(n) < n + 4
  BY DEF Align

\* The data of a link.
LEMMA ParseLinkIs == ASSUME Layout, ParseLink PROVE Step
<1>1. Parsing
  BY DEF ParseLink
<1>2. PICK c : c = Current
  OBVIOUS
<1>3. PICK t : GoesOn(t)
  BY DEF GoesOn
<1>4. /\ c \in DOMAIN image /\ c \in Nat /\ frames # <<>> /\ TypeOK /\ Top.pos \in Nat /\ Length \in Nat
      /\ Top.parentOffset \in Nat /\ Top.parentSize \in Nat /\ t \in Calls
  BY <1>1, <1>2, <1>3, AtEntry, TheTop, CallsAre, TopTable, TopAdvances DEF Layout, GoesOn
<1>5. ASSUME NEW o \in Nat, NEW n \in Nat, LinkTo(o, n), \/ image[c].name = Self /\ o = Top.pos /\ n = Length
                                                         \/ image[c].name = Parent /\ o = Top.parentOffset /\ n = Top.parentSize
      PROVE Step
  <2>1. Sets(c, o, n)
    <3>1. image' = [image EXCEPT ![c].dataOffset = o, ![c].dataLength = n] /\ tree' = tree /\ maxSize' = maxSize
      BY <1>2, <1>5 DEF LinkTo
    <3>2. image \in [DOMAIN image -> Entries]
      BY <1>4 DEF TypeOK
    <3>3. \A a \in DOMAIN image : image[a] \in Entries
      BY <3>2
    <3> QED
      BY <1>4, <3>1, <3>2, <3>3 DEF Sets, Entries
  <2>2. c \notin Dirs
    BY <1>5 DEF Dirs, IsLink
  <2>3. frames' = <<t>> \o Tail(frames) /\ UNCHANGED <<totalSize, contents, status>>
    BY <1>3, <1>5 DEF LinkTo, Next1, GoesOn
  <2>4. SetsLink(c, o, n, t)
    BY <1>1, <1>2, <1>3, <1>5, <2>1, <2>2, <2>3 DEF SetsLink
  <2> QED
    BY <1>4, <2>4 DEF Step
<1> QED
  BY <1>2, <1>4, <1>5 DEF ParseLink

\* The data of a file.
LEMMA ParseFileIs == ASSUME Layout, Named, ParseFile PROVE Step
<1>1. Parsing /\ image[Current].type = "file"
  BY DEF ParseFile
<1>2. PICK c : c = Current
  OBVIOUS
<1>3. PICK t : GoesOn(t)
  BY DEF GoesOn
<1>4. /\ c \in DOMAIN image /\ c \in Nat /\ TypeOK /\ totalSize \in Nat /\ c # RootEntry /\ t \in Calls
  BY <1>1, <1>2, <1>3, AtEntry, TopAdvances DEF Layout, TypeOK, GoesOn
<1>5. c \notin Dirs
  BY <1>1, <1>2 DEF Dirs
<1> DEFINE n == image[c].name
           at == Align(totalSize)
           size == tree.size[n]
<1>6. at \in Nat /\ n \in Kept /\ size \in Nat
  <2>1. n \in Kept
    BY <1>1, <1>2, <1>4 DEF Named, NamedAs
  <2>2. n \in Nodes
    BY <2>1, <1>4, TheTree DEF Kept, TypeOK
  <2> QED
    BY <2>1, <2>2, <1>4, TheTree, AlignIs DEF TypeOK
<1>7. CASE Stop("failed") \/ (Stop("too large") /\ ~FileFits(at, size))
  BY <1>1, <1>2, <1>7 DEF Refuses, Step
<1>8. ASSUME at + size <= maxSize,
             image' = [image EXCEPT ![c].dataOffset = at, ![c].dataLength = size],
             contents' = IF size = 0 THEN contents ELSE Written(contents, at, n),
             totalSize' = at + size, frames' = Next1(Top), UNCHANGED <<tree, maxSize, status>>
      PROVE  Step
  <2>1. Sets(c, at, size)
    <3> HIDE DEF n, at, size
    <3>1. image \in [DOMAIN image -> Entries]
      BY <1>4 DEF TypeOK
    <3>2. \A a \in DOMAIN image : image[a] \in Entries
      BY <3>1
    <3> QED
      BY <1>4, <1>6, <1>8, <3>1, <3>2 DEF Sets, Entries
  <2>2. frames' = <<t>> \o Tail(frames)
    BY <1>3, <1>8 DEF Next1, GoesOn
  <2>3. SetsFile(c, at, size, t)
    BY <1>1, <1>2, <1>3, <1>5, <1>6, <1>8, <2>1, <2>2 DEF SetsFile
  <2> QED
    BY <1>4, <1>6, <2>3 DEF Step
<1> QED
  BY <1>2, <1>7, <1>8 DEF ParseFile, FileFits

\* The data of a directory: the call for it.
LEMMA ParseDirectoryIs == ASSUME Layout, ParseDirectory PROVE Step
<1>1. Parsing /\ image[Current].type = "dir" /\ image[Current].name \notin {Self, Parent}
  BY DEF ParseDirectory
<1>2. PICK c : c = Current
  OBVIOUS
<1>3. PICK t : GoesOn(t)
  BY DEF GoesOn
<1>4. PICK at : at = Align(totalSize)
  OBVIOUS
<1>5. PICK f : f = Call(image[c].name, c, Top.pos, Length, at)
  OBVIOUS
<1>6. /\ c \in DOMAIN image /\ c \in Nat /\ Ln(c) = 0 /\ TypeOK /\ totalSize \in Nat /\ t \in Calls /\ frames # <<>>
  BY <1>1, <1>2, <1>3, AtEntry, TopAdvances DEF Layout, TypeOK, GoesOn
<1>7. c \in Dirs /\ at \in Nat
  BY <1>1, <1>2, <1>4, <1>6, AlignIs DEF Dirs, IsLink
<1>8. Sets(c, at, 0)
  <2>1. image' = [image EXCEPT ![c].dataOffset = at] /\ tree' = tree /\ maxSize' = maxSize
    BY <1>2, <1>4 DEF ParseDirectory
  <2>2. image \in [DOMAIN image -> Entries]
    BY <1>6 DEF TypeOK
  <2>3. \A a \in DOMAIN image : image[a] \in Entries
    BY <2>2
  <2>4. image[c].dataLength = 0
    BY <1>6 DEF Ln
  <2> QED
    BY <1>6, <1>7, <2>1, <2>2, <2>3, <2>4 DEF Sets, Entries
<1>9. frames' = <<f>> \o (<<t>> \o Tail(frames)) /\ status' = status /\ totalSize' = at /\ contents' = contents
  BY <1>2, <1>3, <1>4, <1>5 DEF ParseDirectory, Next1, GoesOn
<1>10. f \in Calls
  <2>1. image[c].name \in Nodes /\ Top.pos \in Nat /\ Length \in Nat
    BY <1>1, <1>2, <1>6, EntryFields, TheTop, CallsAre, TopTable
  <2> QED
    BY <1>5, <1>6, <1>7, <2>1 DEF Call, Calls
<1>11. Opens(c, at, t, f)
  BY <1>1, <1>2, <1>3, <1>4, <1>5, <1>7, <1>8, <1>9 DEF Opens
<1> QED
  BY <1>6, <1>7, <1>10, <1>11 DEF Step

\* Every step of the compiler is one of these.
LEMMA StepIs == ASSUME Layout, Named, Next PROVE Step
<1>1. CASE \E n \in DOMAIN tree.kind : ReadDirectory(n)
  BY <1>1, ReadDirectoryIs
<1>2. CASE Return \/ WriteOutput
  BY <1>2 DEF Step
<1> QED
  BY <1>1, <1>2, OpenDirectoryIs, AddParentLinkIs, EndOfDirectoryIs, ParseLinkIs, ParseFileIs, ParseDirectoryIs DEF Next

-----------------------------------------------------------------------------
(***************************************************************************)
(* Nothing overlaps.                                                       *)
(***************************************************************************)
\* The layout is kept by every step.
LEMMA StepLayout == ASSUME Layout, Step PROVE Layout'
<1>1. CASE Stop("failed") \/ Refuses
  BY <1>1, StopLayout DEF Refuses, Stop, Good
<1>2. ASSUME NEW e \in Entries, NEW top \in Calls, Adds(e, top) PROVE Layout'
  BY <1>2, GrowsLayout DEF Adds, WritesNext
<1>3. ASSUME NEW n \in Nodes, NEW top \in Calls, Skips(n, top) PROVE Layout'
  BY <1>3, TopStepLayout DEF Skips
<1>4. ASSUME NEW top \in Calls, HasListed(top) PROVE Layout'
  BY <1>4, TopStepLayout DEF HasListed
<1>5. ASSUME NEW c \in Nat, NEW o \in Nat, NEW n \in Nat, NEW t \in Calls, SetsLink(c, o, n, t) PROVE Layout'
  <2>1. /\ totalSize \in Nat /\ totalSize' = totalSize /\ DOMAIN contents' \subseteq Nat
        /\ contents' \in [DOMAIN contents' -> Nodes]
        /\ \A b \in DOMAIN contents' : b \in DOMAIN contents /\ contents'[b] = contents[b]
    BY <1>5 DEF SetsLink, Layout, TypeOK
  <2> QED
    BY <1>5, <2>1, FillsLayout DEF SetsLink, GoesOn
<1>6. ASSUME NEW c \in Nat, NEW o \in Nat, NEW n \in Nat, NEW t \in Calls, SetsFile(c, o, n, t) PROVE Layout'
  <2>1. TypeOK /\ totalSize \in Nat /\ o >= totalSize /\ totalSize' \in Nat /\ totalSize' >= totalSize
    <3>1. TypeOK /\ totalSize \in Nat
      BY DEF Layout, TypeOK
    <3>2. o = Align(totalSize) /\ totalSize' = o + n
      BY <1>6 DEF SetsFile
    <3>3. o >= totalSize
      BY <3>1, <3>2, AlignIs
    <3> QED
      BY <3>1, <3>2, <3>3
  <2>2. image[c].name \in Nodes
    BY <1>6, <2>1, TheTree DEF SetsFile, Kept, TypeOK
  <2>3. DOMAIN contents' \subseteq Nat /\ contents' \in [DOMAIN contents' -> Nodes]
    BY <1>6, <2>1, <2>2 DEF SetsFile, TypeOK, Written
  <2>4. ASSUME NEW b \in DOMAIN contents'
        PROVE  \/ b \in DOMAIN contents /\ contents'[b] = contents[b]
               \/ /\ b = o /\ n > 0 /\ tree.size[contents'[b]] = n
                  /\ o >= totalSize /\ o + n <= maxSize /\ o + n <= totalSize'
    <3>1. CASE n = 0
      BY <1>6, <3>1 DEF SetsFile
    <3>2. CASE n # 0
      BY <1>6, <2>1, <3>2 DEF SetsFile, Written
    <3> QED
      BY <3>1, <3>2
  <2> QED
    BY <1>6, <2>1, <2>3, <2>4, FillsLayout, SMTT(30) DEF SetsFile, GoesOn
<1>7. ASSUME NEW c \in Nat, NEW o \in Nat, NEW t \in Calls, NEW f \in Calls, Opens(c, o, t, f) PROVE Layout'
  <2>1. o >= totalSize
    BY <1>7, AlignIs DEF Opens, Layout, TypeOK
  <2> QED
    BY <1>7, <2>1, OpensLayout DEF Opens, GoesOn
<1>8. CASE Return
  BY <1>8, ReturnLayout
<1>9. CASE WriteOutput
  <2>1. status = "compiled" /\ status' \in {"written", "failed"} /\ UNCHANGED <<tree, maxSize, totalSize, image, contents, frames>>
    BY <1>9 DEF WriteOutput
  <2>2. frames = <<>> /\ Good
    BY <2>1 DEF Layout, Running, Good
  <2> QED
    BY <2>1, <2>2, StopLayout
<1> QED
  BY <1>1, <1>2, <1>3, <1>4, <1>5, <1>6, <1>7, <1>8, <1>9 DEF Step

\* The names of the entries are kept, and a new one is what it was read as.
LEMMA StepNames == ASSUME Layout, Named, Step PROVE Named'
<1>1. RootEntry \in DOMAIN image
  BY DEF Layout, TypeOK
<1>2. CASE UNCHANGED <<tree, image>>
  BY <1>2 DEF Named, NamedAs, Kept
<1>3. ASSUME NEW e \in Entries, NEW top \in Calls, Adds(e, top) PROVE Named'
  <2>1. tree' = tree /\ DOMAIN image' = DOMAIN image \union {Free} /\ image'[Free] = e /\ NamedAs(e)
    BY <1>3 DEF Adds, Grows, WritesNext
  <2>2. \A a \in DOMAIN image : /\ image'[a].name = image[a].name /\ image'[a].type = image[a].type
                                /\ image'[a].nameLength = image[a].nameLength
    BY <1>3 DEF Adds, Grows
  <2> QED
    BY <1>1, <2>1, <2>2 DEF Named, NamedAs, Kept
<1>4. ASSUME NEW c, NEW o, NEW n, Sets(c, o, n) PROVE Named'
  BY <1>1, <1>4 DEF Sets, Named, NamedAs, Kept
<1> QED
  BY <1>2, <1>3, <1>4 DEF Step, Stop, Refuses, Skips, HasListed, SetsLink, SetsFile, Opens, Return, WriteOutput

\* The root entry is that of the root.
LEMMA InitNames == ASSUME Init PROVE Named
<1>1. image = [at \in {RootEntry} |-> [EntryAt(Root, "dir", 0) EXCEPT !.dataOffset = HeaderSize]]
  BY DEF Init
<1>2. DOMAIN image = {RootEntry} /\ image[RootEntry] = [EntryAt(Root, "dir", 0) EXCEPT !.dataOffset = HeaderSize]
  BY <1>1
<1> QED
  BY <1>2 DEF Named, EntryAt

\* Nothing that happens leaves the layout.
LEMMA StutterKeeps == ASSUME Layout, Named, UNCHANGED vars PROVE Layout' /\ Named'
<1>1. Named'
  BY DEF Named, NamedAs, Kept, vars
<1>2. TypeOK' /\ Running' /\ Bounded' /\ Separate' /\ Housed' /\ Tiled'
  <2>1. TypeOK' /\ Running'
    BY DEF Layout, TypeOK, Running, vars, Nodes, Entries, Calls
  <2> QED
    BY <2>1, SameImage DEF vars
<1>3. Ended'
  BY DEF Layout, Ended, vars, Good, Listing, Top, Dirs, IsLink, Ln, Off, TableEnd, FileEnd
<1>4. Owned' /\ Standing' /\ Blank'
  BY DEF Layout, Owned, OwnerIsPlaced, Standing, StandsAtEntry, Blank, BlankFrom, vars, Dirs, IsLink, Ln, Off, TableEnd
<1>5. Nested' /\ Apart'
  BY DEF Layout, Nested, Waits, MadeBy, Apart, EndsBefore, vars, Ln, Off, TableEnd, Inside, After
<1> QED
  BY <1>1, <1>2, <1>3, <1>4, <1>5 DEF Layout

\* The layout and the names, at every moment.
THEOREM LayoutHolds == Spec => [](Layout /\ Named)
<1>1. Init => Layout /\ Named
  BY InitLayout, InitNames
<1>2. Layout /\ Named /\ [Next]_vars => (Layout /\ Named)'
  BY StepIs, StepLayout, StepNames, StutterKeeps
<1> QED
  BY <1>1, <1>2, PTL DEF Spec

\* The state of the compiler is always of the types it should be.
THEOREM TypeCorrect == Spec => []TypeOK
<1>1. Layout => TypeOK
  BY DEF Layout
<1> QED
  BY <1>1, LayoutHolds, PTL

\* No table or file leaves the buffer or runs into another.
LEMMA LayoutIsSafe == ASSUME Layout PROVE NothingOverlaps
<1>1. TypeOK /\ tree \in Trees /\ maxSize \in Nat
  BY TheLimit DEF Layout, TypeOK
<1>2. ASSUME NEW r \in Regions
      PROVE  \/ \E d \in Dirs : Ln(d) > 0 /\ r[1] = Off(d) /\ r[1] + r[2] = TableEnd(d) /\ r = <<Off(d), Ln(d)>>
             \/ \E c \in DOMAIN contents : r[1] = c /\ r[1] + r[2] = FileEnd(c) /\ r = <<c, tree.size[contents[c]]>>
  BY DEF Regions, Dirs, Off, Ln, TableEnd, FileEnd
<1>3. ASSUME NEW r \in Regions PROVE HeaderSize <= r[1] /\ r[1] + r[2] <= maxSize
  BY <1>2 DEF Layout, Bounded
<1>4. ASSUME NEW r \in Regions, NEW s \in Regions, r # s PROVE r[1] + r[2] <= s[1] \/ s[1] + s[2] <= r[1]
  <2>1. CASE \E d \in Dirs : Ln(d) > 0 /\ r[1] = Off(d) /\ r[1] + r[2] = TableEnd(d) /\ r = <<Off(d), Ln(d)>>
    <3>1. PICK d \in Dirs : Ln(d) > 0 /\ r[1] = Off(d) /\ r[1] + r[2] = TableEnd(d) /\ r = <<Off(d), Ln(d)>>
      BY <2>1
    <3>2. CASE \E f \in Dirs : Ln(f) > 0 /\ s[1] = Off(f) /\ s[1] + s[2] = TableEnd(f) /\ s = <<Off(f), Ln(f)>>
      BY <1>4, <3>1, <3>2 DEF Layout, Separate
    <3>3. CASE \E c \in DOMAIN contents : s[1] = c /\ s[1] + s[2] = FileEnd(c)
      BY <3>1, <3>3 DEF Layout, Separate
    <3> QED
      BY <1>2, <3>2, <3>3
  <2>2. CASE \E c \in DOMAIN contents : r[1] = c /\ r[1] + r[2] = FileEnd(c) /\ r = <<c, tree.size[contents[c]]>>
    <3>1. PICK c \in DOMAIN contents : r[1] = c /\ r[1] + r[2] = FileEnd(c) /\ r = <<c, tree.size[contents[c]]>>
      BY <2>2
    <3>2. CASE \E f \in Dirs : Ln(f) > 0 /\ s[1] = Off(f) /\ s[1] + s[2] = TableEnd(f) /\ s = <<Off(f), Ln(f)>>
      BY <3>1, <3>2 DEF Layout, Separate
    <3>3. CASE \E b \in DOMAIN contents : s[1] = b /\ s[1] + s[2] = FileEnd(b) /\ s = <<b, tree.size[contents[b]]>>
      BY <1>4, <3>1, <3>3 DEF Layout, Separate
    <3> QED
      BY <1>2, <3>2, <3>3
  <2> QED
    BY <1>2, <2>1, <2>2
<1> QED
  BY <1>3, <1>4 DEF NothingOverlaps

\* Whatever is written lies behind the header, inside the buffer and apart
\* from everything else, for every tree and every limit, at every moment.
THEOREM WritesStayApart == Spec => []NothingOverlaps
<1>1. Layout => NothingOverlaps
  BY LayoutIsSafe
<1> QED
  BY <1>1, LayoutHolds, PTL

-----------------------------------------------------------------------------
(***************************************************************************)
(* Sums.  A sum over a finite set counts as many units for every element   *)
(* as its number says.                                                     *)
(***************************************************************************)
\* Every set of numbers has a least one.
LEMMA Least ==
  ASSUME NEW T \in SUBSET Nat, T # {}
  PROVE  \E n \in T : \A m \in T : n <= m
<1> DEFINE R == OpToRel(<, Nat)
<1>1. IsWellFoundedOn(R, Nat)
  BY NatLessThanWellFounded
<1>2. \A n, m \in Nat : m < n => <<m, n>> \in R
  BY DEF OpToRel
<1> HIDE DEF R
<1>3. PICK n \in T : \A m \in T : <<m, n>> \notin R
  BY <1>1, WFMin
<1>4. ASSUME NEW m \in T PROVE n <= m
  <2>1. m \in Nat /\ n \in Nat /\ <<m, n>> \notin R
    BY <1>3
  <2>2. ~(m < n)
    BY <1>2, <2>1
  <2> QED
    BY <2>1, <2>2
<1> QED
  BY <1>4

\* What holds of a finite set when it holds of the set without one of its
\* elements, whichever, holds of all its subsets.
LEMMA SubsetInduction ==
  ASSUME NEW N, IsFiniteSet(N), NEW C,
         \A s \in SUBSET N : (\A x \in s : s \ {x} \in C) => s \in C
  PROVE  SUBSET N \subseteq C
<1> SUFFICES ASSUME NEW r \in SUBSET N, r \notin C PROVE FALSE
  OBVIOUS
<1> DEFINE T == {n \in Nat : \E s \in SUBSET N : s \notin C /\ Cardinality(s) = n}
<1>1. \A s \in SUBSET N : IsFiniteSet(s) /\ Cardinality(s) \in Nat
  BY FS_Subset, FS_CardinalityType
<1>2. T # {} /\ T \in SUBSET Nat
  BY <1>1
<1>3. PICK n \in T : \A m \in T : n <= m
  BY <1>2, Least
<1>4. PICK s \in SUBSET N : s \notin C /\ Cardinality(s) = n
  BY <1>3
<1>5. PICK x \in s : s \ {x} \notin C
  BY <1>4
<1>6. s \ {x} \in SUBSET N /\ Cardinality(s \ {x}) = n - 1 /\ Cardinality(s \ {x}) \in Nat
  BY <1>1, <1>4, <1>5, FS_RemoveElement
<1>7. n - 1 \in T
  BY <1>5, <1>6
<1>8. n <= n - 1 /\ n \in Nat
  BY <1>3, <1>7
<1> QED
  BY <1>8

Units(f, S) == {p \in S \X Nat : p[2] \in 1 .. f[p[1]]}
Total(f, S) == Cardinality(Units(f, S))

\* The units of one more element.
LEMMA UnitsGrow ==
  ASSUME NEW f, NEW S, IsFiniteSet(Units(f, S)), NEW x, x \notin S, f[x] \in Nat
  PROVE  IsFiniteSet(Units(f, S \union {x})) /\ Total(f, S \union {x}) = Total(f, S) + f[x]
<1> DEFINE A == Units(f, S)
           B == Units(f, {x})
           g == [k \in 1 .. f[x] |-> <<x, k>>]
<1>1. g \in Bijection(1 .. f[x], B)
  <2>1. \A k \in 1 .. f[x] : g[k] = <<x, k>> /\ g[k] \in B
    BY DEF Units
  <2>2. \A p \in B : p[2] \in 1 .. f[x] /\ p = <<x, p[2]>>
    BY DEF Units
  <2>3. g \in [1 .. f[x] -> B] /\ \A j, k \in 1 .. f[x] : g[j] = g[k] => j = k
    BY <2>1
  <2>4. \A p \in B : \E k \in 1 .. f[x] : g[k] = p
    BY <2>1, <2>2
  <2> HIDE DEF g
  <2> QED
    BY <2>3, <2>4 DEF Bijection, Injection, IsInjective, Surjection
<1>2. IsFiniteSet(B) /\ Cardinality(B) = f[x]
  <2>1. IsFiniteSet(1 .. f[x]) /\ Cardinality(1 .. f[x]) = f[x]
    BY FS_Interval
  <2>2. ExistsBijection(1 .. f[x], B)
    BY <1>1 DEF ExistsBijection
  <2> QED
    BY <2>1, <2>2, FS_Bijection
<1>3. Units(f, S \union {x}) = A \union B /\ A \cap B = {}
  BY DEF Units
<1>4. IsFiniteSet(A \union B) /\ Cardinality(A \union B) = Cardinality(A) + Cardinality(B) - Cardinality(A \cap B)
  BY <1>2, FS_Union
<1>5. Cardinality(A \cap B) = 0 /\ Cardinality(A) \in Nat
  BY <1>3, FS_EmptySet, FS_CardinalityType
<1> HIDE DEF A, B
<1>6. Cardinality(A \union B) = Cardinality(A) + f[x]
  BY <1>2, <1>4, <1>5
<1>7. Total(f, S \union {x}) = Cardinality(A \union B) /\ Total(f, S) = Cardinality(A)
  BY <1>3 DEF Total, A
<1> QED
  BY <1>3, <1>4, <1>6, <1>7

\* Totals over subsets of a finite set.
LEMMA Totals ==
  ASSUME NEW N, IsFiniteSet(N), NEW f, \A x \in N : f[x] \in Nat
  PROVE  /\ Total(f, {}) = 0
         /\ \A S \in SUBSET N : IsFiniteSet(Units(f, S)) /\ Total(f, S) \in Nat
         /\ \A S \in SUBSET N, x \in N : x \notin S => Total(f, S \union {x}) = Total(f, S) + f[x]
         /\ \A S \in SUBSET N : \A x \in S : Total(f, S) = Total(f, S \ {x}) + f[x]
         /\ \A S, R \in SUBSET N : R \subseteq S => Total(f, R) <= Total(f, S)
<1> DEFINE C == {s \in SUBSET N : IsFiniteSet(Units(f, s))}
<1>1. Units(f, {}) = {}
  BY DEF Units
<1>2. Total(f, {}) = 0 /\ {} \in C
  BY <1>1, FS_EmptySet DEF Total
<1>3. SUBSET N \subseteq C
  <2>1. ASSUME NEW s \in SUBSET N, \A x \in s : s \ {x} \in C PROVE s \in C
    <3>1. CASE s = {}
      BY <1>2, <3>1
    <3>2. CASE s # {}
      <4>1. PICK x \in s : TRUE
        BY <3>2
      <4>2. (s \ {x}) \union {x} = s /\ IsFiniteSet(Units(f, s \ {x})) /\ f[x] \in Nat
        BY <2>1, <4>1
      <4>3. IsFiniteSet(Units(f, (s \ {x}) \union {x}))
        BY <4>2, UnitsGrow
      <4> QED
        BY <4>2, <4>3
    <3> QED
      BY <3>1, <3>2
  <2> HIDE DEF C
  <2> QED
    BY <2>1, SubsetInduction
<1>4. \A S \in SUBSET N : IsFiniteSet(Units(f, S)) /\ Total(f, S) \in Nat
  BY <1>3, FS_CardinalityType DEF Total
<1>5. ASSUME NEW S \in SUBSET N, NEW x \in N, x \notin S PROVE Total(f, S \union {x}) = Total(f, S) + f[x]
  BY <1>4, <1>5, UnitsGrow
<1>6. ASSUME NEW S \in SUBSET N, NEW x \in S PROVE Total(f, S) = Total(f, S \ {x}) + f[x]
  <2>1. (S \ {x}) \union {x} = S /\ S \ {x} \in SUBSET N /\ x \in N
    OBVIOUS
  <2>2. Total(f, (S \ {x}) \union {x}) = Total(f, S \ {x}) + f[x]
    BY <1>5, <2>1
  <2> QED
    BY <2>1, <2>2
<1>7. ASSUME NEW S \in SUBSET N, NEW R \in SUBSET N, R \subseteq S PROVE Total(f, R) <= Total(f, S)
  <2>1. Units(f, R) \in SUBSET Units(f, S)
    BY <1>7 DEF Units
  <2> QED
    BY <1>4, <2>1, FS_Subset DEF Total
<1> QED
  BY <1>2, <1>4, <1>5, <1>6, <1>7

\* What the library's sum is defined from, and what that is.
SumOf(g, f, S) ==
  g = [s \in SUBSET S |-> IF s = {} THEN 0 ELSE f[CHOOSE x \in s : TRUE] + g[s \ {CHOOSE x \in s : TRUE}]]

\* There is such a sum, and it is the total.
LEMMA SumIsTotal ==
  ASSUME NEW S, IsFiniteSet(S), NEW f, \A x \in S : f[x] \in Nat
  PROVE  /\ \E g : SumOf(g, f, S)
         /\ \A g : SumOf(g, f, S) => g[S] = Total(f, S)
<1>1. \A s \in SUBSET S : s # {} => (CHOOSE x \in s : TRUE) \in s
  OBVIOUS
<1>2. /\ Total(f, {}) = 0
      /\ \A s \in SUBSET S : Total(f, s) \in Nat
      /\ \A s \in SUBSET S : \A x \in s : Total(f, s) = Total(f, s \ {x}) + f[x]
  BY Totals
<1>3. \E g : SumOf(g, f, S)
  <2> DEFINE g == [s \in SUBSET S |-> Total(f, s)]
             h == [s \in SUBSET S |-> IF s = {} THEN 0
                       ELSE f[CHOOSE x \in s : TRUE] + g[s \ {CHOOSE x \in s : TRUE}]]
  <2>1. ASSUME NEW s \in SUBSET S PROVE g[s] = h[s]
    <3>1. CASE s = {}
      BY <1>2, <3>1
    <3>2. CASE s # {}
      <4>1. PICK y : y = CHOOSE x \in s : TRUE
        OBVIOUS
      <4>2. y \in s /\ s \ {y} \in SUBSET S /\ f[y] \in Nat
        BY <1>1, <3>2, <4>1
      <4>3. g[s] = Total(f, s \ {y}) + f[y] /\ Total(f, s \ {y}) \in Nat /\ g[s \ {y}] = Total(f, s \ {y})
        BY <1>2, <4>2
      <4>4. h[s] = f[y] + g[s \ {y}]
        BY <3>2, <4>1
      <4> HIDE DEF g, h
      <4> QED
        BY <4>2, <4>3, <4>4
    <3> QED
      BY <3>1, <3>2
  <2>2. g = h
    BY <2>1
  <2>3. SumOf(g, f, S)
    BY <2>2 DEF SumOf
  <2> QED
    BY <2>3
<1>4. ASSUME NEW g, SumOf(g, f, S) PROVE g[S] = Total(f, S)
  <2> DEFINE C == {s \in SUBSET S : g[s] = Total(f, s)}
  <2>1. ASSUME NEW s \in SUBSET S, \A x \in s : s \ {x} \in C PROVE s \in C
    <3>1. CASE s = {}
      BY <1>2, <1>4, <3>1 DEF SumOf
    <3>2. CASE s # {}
      <4>1. PICK y : y = CHOOSE x \in s : TRUE
        OBVIOUS
      <4>2. y \in s /\ s \ {y} \in SUBSET S /\ f[y] \in Nat
        BY <1>1, <3>2, <4>1
      <4>3. g[s] = f[y] + g[s \ {y}]
        BY <1>4, <3>2, <4>1 DEF SumOf
      <4>4. g[s \ {y}] = Total(f, s \ {y})
        BY <2>1, <4>2
      <4> QED
        BY <1>2, <4>2, <4>3, <4>4
    <3> QED
      BY <3>1, <3>2
  <2> HIDE DEF C
  <2>2. SUBSET S \subseteq C
    BY <2>1, SubsetInduction
  <2>3. S \in C
    BY <2>2
  <2> QED
    BY <2>3 DEF C
<1> QED
  BY <1>3, <1>4

\* The sizes of the names' entries, and what each node takes with its padding.
NameSize == [n \in Nodes |-> EntrySize + tree.nameLength[n]]
Taken == [n \in Nodes |-> Align(SizeIn(n))]
Links(dir) == EntrySize + 1 + (IF dir = Root THEN 0 ELSE EntrySize + 2)

\* The library's sum over names.
LEMMA SumOfNames ==
  ASSUME NEW S, S \subseteq Nodes
  PROVE  MapThenSumSet(LAMBDA n : EntrySize + tree.nameLength[n], S)
           = (CHOOSE g : SumOf(g, NameSize, S))[S]
<1> DEFINE Fold(g) == g = [s \in SUBSET S |-> IF s = {} THEN 0
                             ELSE (EntrySize + tree.nameLength[CHOOSE x \in s : TRUE])
                                  + g[s \ {CHOOSE x \in s : TRUE}]]
<1>1. MapThenSumSet(LAMBDA n : EntrySize + tree.nameLength[n], S) = (CHOOSE g : Fold(g))[S]
  BY DEF MapThenSumSet, MapThenFoldSet
<1>2. ASSUME NEW s \in SUBSET S, s # {}
      PROVE  NameSize[CHOOSE x \in s : TRUE] = EntrySize + tree.nameLength[CHOOSE x \in s : TRUE]
  <2>1. (CHOOSE x \in s : TRUE) \in Nodes
    BY <1>2
  <2> QED
    BY <2>1 DEF NameSize
<1>3. ASSUME NEW g PROVE Fold(g) <=> SumOf(g, NameSize, S)
  BY <1>2 DEF SumOf
<1>4. (CHOOSE g : Fold(g)) = (CHOOSE g : SumOf(g, NameSize, S))
  <2> HIDE DEF Fold
  <2> QED
    BY <1>3, Zenon
<1> QED
  BY <1>1, <1>4

\* The library's sum over padded sizes.
LEMMA SumOfSizes ==
  ASSUME NEW S, S \subseteq Nodes
  PROVE  MapThenSumSet(LAMBDA n : Align(SizeIn(n)), S) = (CHOOSE g : SumOf(g, Taken, S))[S]
<1> DEFINE Fold(g) == g = [s \in SUBSET S |-> IF s = {} THEN 0
                             ELSE Align(SizeIn(CHOOSE x \in s : TRUE)) + g[s \ {CHOOSE x \in s : TRUE}]]
<1>1. MapThenSumSet(LAMBDA n : Align(SizeIn(n)), S) = (CHOOSE g : Fold(g))[S]
  BY DEF MapThenSumSet, MapThenFoldSet
<1>2. ASSUME NEW s \in SUBSET S, s # {}
      PROVE  Taken[CHOOSE x \in s : TRUE] = Align(SizeIn(CHOOSE x \in s : TRUE))
  <2>1. (CHOOSE x \in s : TRUE) \in Nodes
    BY <1>2
  <2> QED
    BY <2>1 DEF Taken
<1>3. ASSUME NEW g PROVE Fold(g) <=> SumOf(g, Taken, S)
  BY <1>2 DEF SumOf
<1>4. (CHOOSE g : Fold(g)) = (CHOOSE g : SumOf(g, Taken, S))
  <2> HIDE DEF Fold
  <2> QED
    BY <1>3, Zenon
<1> QED
  BY <1>1, <1>4

\* How long the table of a directory becomes.
LEMMA TableIs ==
  ASSUME tree \in Trees
  PROVE  /\ IsFiniteSet(Nodes) /\ \A n \in Nodes : NameSize[n] \in Nat /\ NameSize[n] = EntrySize + tree.nameLength[n]
         /\ \A dir \in Nodes :
              /\ Children(dir) \subseteq Nodes /\ Links(dir) \in Nat
              /\ Total(NameSize, Children(dir) \intersect Kept) \in Nat
              /\ Table(dir) = Total(NameSize, Children(dir) \intersect Kept) + Links(dir)
              /\ Table(dir) \in Nat
<1>1. IsFiniteSet(Nodes) /\ \A n \in Nodes : NameSize[n] \in Nat /\ NameSize[n] = EntrySize + tree.nameLength[n]
  BY TheTree DEF NameSize, EntrySize
<1>2. ASSUME NEW dir \in Nodes
      PROVE  /\ Children(dir) \subseteq Nodes /\ Links(dir) \in Nat
             /\ Total(NameSize, Children(dir) \intersect Kept) \in Nat
             /\ Table(dir) = Total(NameSize, Children(dir) \intersect Kept) + Links(dir)
             /\ Table(dir) \in Nat
  <2> DEFINE S == Children(dir) \intersect Kept
  <2>1. Children(dir) \subseteq Nodes /\ S \subseteq Nodes
    BY TheTree DEF Children
  <2>2. Links(dir) \in Nat
    BY DEF Links, EntrySize
  <2> DEFINE m == MapThenSumSet(LAMBDA n : EntrySize + tree.nameLength[n], S)
  <2>3. Table(dir) = m + EntrySize + 1 + (IF dir = Root THEN 0 ELSE EntrySize + 2)
    BY DEF Table
  <2>4. m = Total(NameSize, S) /\ m \in Nat
    <3> HIDE DEF S
    <3>1. IsFiniteSet(S) /\ \A x \in S : NameSize[x] \in Nat
      BY <1>1, <2>1, FS_Subset
    <3>2. m = (CHOOSE g : SumOf(g, NameSize, S))[S]
      BY <2>1, SumOfNames
    <3>3. (CHOOSE g : SumOf(g, NameSize, S))[S] = Total(NameSize, S)
      BY <3>1, SumIsTotal
    <3>4. Total(NameSize, S) \in Nat
      BY <3>1, Totals
    <3> QED
      BY <3>2, <3>3, <3>4
  <2> HIDE DEF m
  <2>5. Table(dir) = m + Links(dir) /\ Table(dir) \in Nat
    BY <2>2, <2>3, <2>4 DEF Links, EntrySize
  <2> QED
    BY <2>1, <2>2, <2>4, <2>5
<1> QED
  BY <1>1, <1>2

\* What the whole tree takes.
LEMMA PaddedIs ==
  ASSUME tree \in Trees
  PROVE  /\ Kept \subseteq Nodes \ {Root} /\ \A n \in Nodes : SizeIn(n) \in Nat /\ Taken[n] = Align(SizeIn(n)) /\ Taken[n] \in Nat
         /\ Total(Taken, Kept) \in Nat /\ Padded = Align(HeaderSize + Table(Root)) + Total(Taken, Kept)
<1>1. Kept \subseteq Nodes \ {Root}
  BY TheTree DEF Kept
<1>2. \A n \in Nodes : SizeIn(n) \in Nat
  BY TheTree, TableIs DEF SizeIn
<1>3. \A n \in Nodes : Taken[n] = Align(SizeIn(n)) /\ Taken[n] \in Nat
  BY <1>2, AlignIs DEF Taken
<1>4. IsFiniteSet(Kept) /\ \A x \in Kept : Taken[x] \in Nat
  BY <1>1, <1>3, TableIs, FS_Subset
<1>5. Total(Taken, Kept) \in Nat
  BY <1>4, Totals
<1>6. MapThenSumSet(LAMBDA n : Align(SizeIn(n)), Kept) = Total(Taken, Kept)
  <2>1. MapThenSumSet(LAMBDA n : Align(SizeIn(n)), Kept) = (CHOOSE g : SumOf(g, Taken, Kept))[Kept]
    <3>1. Kept \subseteq Nodes
      BY <1>1
    <3> QED
      BY <3>1, SumOfSizes
  <2>2. (CHOOSE g : SumOf(g, Taken, Kept))[Kept] = Total(Taken, Kept)
    BY <1>4, SumIsTotal
  <2> QED
    BY <2>1, <2>2
<1> QED
  BY <1>1, <1>2, <1>3, <1>5, <1>6 DEF Padded

\* Padding, when sizes are added.
LEMMA AlignAdds ==
  ASSUME NEW m \in Nat, NEW n \in Nat
  PROVE  Align(m + n) <= Align(m) + Align(n) /\ Align(Align(m) + n) <= Align(m) + Align(n) /\ Align(Align(m)) = Align(m)
  BY DEF Align

-----------------------------------------------------------------------------
(***************************************************************************)
(* The accounts: what was written is of different nodes, each in the table *)
(* of its directory, and totalSize is no more than what those nodes take.  *)
(***************************************************************************)
Reals == {a \in DOMAIN image : ~IsLink(image[a])}

\* A node has one entry, in the table of its directory.
Unique == \A a, b \in Reals : image[a].name = image[b].name => a = b
Homed == \A d \in Dirs, a \in Reals : Inside(a, d) => tree.parent[image[a].name] = image[d].name

\* A call that lists its directory has written the names it has seen, and
\* the links: to the directory itself, and to the one above unless it is the root.
LinksSoFar(c) == IF c.step = "self" THEN 0 ELSE IF c.step = "parent" THEN EntrySize + 1 ELSE Links(c.dir)
SeenBy(c) ==
    /\ c.listed \subseteq Children(c.dir)
    /\ c.step # "list" => c.listed = {}
    /\ \A a \in Reals : Inside(a, c.owner) => image[a].name \in c.listed
    /\ (c.parentOffset # 0 /\ c.parentSize # 0) <=> c.dir # Root
    /\ c.step = "parent" => c.dir # Root
    /\ Ln(c.owner) = Total(NameSize, c.listed \intersect Kept) + LinksSoFar(c)
Seen == Listing => SeenBy(Top)

\* Nodes that have their data, and what totalSize owes to them.
Done == {n \in Kept : \E a \in DOMAIN image : image[a].name = n /\ Off(a) # 0 /\ ~(Listing /\ a = Top.owner)}
Budget ==
    Good =>
      IF Listing /\ Top.owner = RootEntry THEN totalSize = HeaderSize
      ELSE Align(totalSize) <= Align(HeaderSize + Table(Root)) + Total(Taken, Done)

Accounts == Unique /\ Homed /\ Seen /\ Budget

\* The facts about tables and totals, in the next state.
LEMMA TablesNext ==
  (tree \in Trees =>
     /\ \A dir \in Nodes : Table(dir) = Total(NameSize, Children(dir) \intersect Kept) + Links(dir)
     /\ Padded = Align(HeaderSize + Table(Root)) + Total(Taken, Kept)
     /\ \A n \in Nodes : Taken[n] = Align(SizeIn(n)))'
<1>1. tree \in Trees =>
        /\ \A dir \in Nodes : Table(dir) = Total(NameSize, Children(dir) \intersect Kept) + Links(dir)
        /\ Padded = Align(HeaderSize + Table(Root)) + Total(Taken, Kept)
        /\ \A n \in Nodes : Taken[n] = Align(SizeIn(n))
  BY TableIs, PaddedIs
<1> QED
  BY <1>1, PTL

\* As long as the tree is the same, so is what it takes.
LEMMA SameTree ==
  ASSUME tree \in Trees, tree' = tree
  PROVE  /\ Nodes' = Nodes /\ Kept' = Kept /\ NameSize' = NameSize /\ Taken' = Taken
         /\ \A dir : Children(dir)' = Children(dir) /\ Links(dir)' = Links(dir)
         /\ Table(Root)' = Table(Root) /\ Padded' = Padded
         /\ \A dir \in Nodes : Table(dir)' = Table(dir)
<1>1. Nodes' = Nodes /\ Kept' = Kept /\ \A dir : Children(dir)' = Children(dir) /\ Links(dir)' = Links(dir)
  BY DEF Nodes, Kept, Children, Links
<1>2. NameSize' = NameSize
  BY <1>1 DEF NameSize
<1>3. \A dir \in Nodes : Table(dir)' = Table(dir)
  <2>1. \A dir \in Nodes : Table(dir)' = Total(NameSize', Children(dir)' \intersect Kept') + Links(dir)'
    BY <1>1, TablesNext DEF Total, Units
  <2>2. \A dir \in Nodes : Table(dir) = Total(NameSize, Children(dir) \intersect Kept) + Links(dir)
    BY TableIs
  <2> QED
    BY <1>1, <1>2, <2>1, <2>2
<1>4. Taken' = Taken
  <2>1. \A n \in Nodes : SizeIn(n)' = SizeIn(n)
    BY <1>3 DEF SizeIn
  <2> QED
    BY <1>1, <2>1 DEF Taken, Align
<1>5. Root \in Nodes
  BY TheTree
<1>6. Padded' = Padded
  <2>1. Padded' = Align(HeaderSize + Table(Root))' + Total(Taken, Kept)'
    BY TablesNext
  <2>2. Total(Taken, Kept)' = Total(Taken, Kept)
    BY <1>1, <1>4 DEF Total, Units
  <2>3. Align(HeaderSize + Table(Root))' = Align(HeaderSize + Table(Root))
    BY <1>3, <1>5 DEF Align
  <2> QED
    BY <2>1, <2>2, <2>3, PaddedIs
<1> QED
  BY <1>1, <1>2, <1>3, <1>4, <1>5, <1>6

\* What an entry of a node is.
LEMMA RealIs ==
  ASSUME TypeOK, Named
  PROVE  /\ Reals \subseteq DOMAIN image /\ Dirs \subseteq Reals
         /\ \A a \in Reals : a # RootEntry => image[a].name \in Kept
         /\ \A a \in DOMAIN image : image[a].name \in Nodes => a \in Reals
         /\ \A a \in Reals : image[a].name \in Nodes /\ (image[a].name = Root <=> a = RootEntry)
<1>1. Self \notin Nodes /\ Parent \notin Nodes /\ Kept \subseteq Nodes \ {Root} /\ Root \in Nodes
  BY TheTree, PaddedIs DEF TypeOK
<1>2. Reals \subseteq DOMAIN image /\ Dirs \subseteq Reals
  BY DEF Reals, Dirs
<1>3. \A a \in Reals : a # RootEntry => image[a].name \in Kept
  BY DEF Reals, IsLink, Named, NamedAs
<1>4. \A a \in DOMAIN image : image[a].name \in Nodes => a \in Reals
  BY <1>1 DEF Reals, IsLink
<1>5. image[RootEntry].name = Root
  BY DEF Named
<1>6. \A a \in Reals : image[a].name \in Nodes /\ (image[a].name = Root <=> a = RootEntry)
  BY <1>1, <1>3, <1>5
<1> QED
  BY <1>2, <1>3, <1>4, <1>6

\* The name readdir gives is not in the image yet: it would be in the table
\* of its directory, where the call has seen all there is.
LEMMA NameIsNew ==
  ASSUME Layout, Named, Unique, Homed, Seen, Listing,
         NEW n \in Kept, n \in Children(Top.dir) \ Top.listed
  PROVE  \A a \in Reals : image[a].name # n
<1>1. TypeOK /\ frames # <<>> /\ Top.owner \in Dirs /\ image[Top.owner].name = Top.dir
  BY TopTable, TheTop DEF Layout, Owned, OwnerIsPlaced, Listing
<1>2. SUFFICES ASSUME NEW a \in Reals, image[a].name = n PROVE FALSE
  OBVIOUS
<1>3. a # RootEntry /\ a \in DOMAIN image
  <2>1. Kept \subseteq Nodes \ {Root}
    BY <1>1, PaddedIs DEF TypeOK
  <2> QED
    BY <1>1, <1>2, <2>1, RealIs
<1>4. PICK d \in Dirs : Inside(a, d)
  BY <1>3 DEF Layout, Housed
<1>5. tree.parent[n] = image[d].name /\ tree.parent[n] = Top.dir
  BY <1>2, <1>4 DEF Homed, Children
<1>6. d = Top.owner
  BY <1>1, <1>4, <1>5, RealIs DEF Unique
<1>7. n \in Top.listed
  BY <1>2, <1>4, <1>6 DEF Seen, SeenBy
<1> QED
  BY <1>7

\* Behind the end there is no table.
LEMMA NoTableAtTheEnd ==
  ASSUME Layout, Listing, Good, NEW d \in Dirs, d # Top.owner
  PROVE  ~Inside(Free, d)
<1>1. TypeOK /\ frames # <<>> /\ Top.pos \in Nat /\ Length \in Nat
  BY TheTop, TopTable, CallsAre DEF Layout, Listing
<1>2. Ln(d) \in Nat /\ Off(d) \in Nat /\ TableEnd(d) = Off(d) + Ln(d) /\ d \in DOMAIN image
  BY <1>1, EntryFields DEF Dirs
<1>3. Ln(d) > 0 => TableEnd(d) <= Top.pos
  BY DEF Layout, Ended
<1> QED
  BY <1>1, <1>2, <1>3 DEF Inside, Free

\* Names are kept apart, each in its directory.
LEMMA StepNodes ==
  ASSUME Layout, Named, Unique, Homed, Seen, Step
  PROVE  Unique' /\ Homed'
<1>0. TypeOK
  BY DEF Layout
<1>1. CASE UNCHANGED <<tree, image>>
  BY <1>1 DEF Unique, Homed, Reals, Dirs, IsLink, Inside, Off, TableEnd, Ln
<1>2. ASSUME NEW e \in Entries, NEW top \in Calls, Adds(e, top) PROVE Unique' /\ Homed'
  <2>1. PICK p, o : p = Free /\ o = Top.owner
    OBVIOUS
  <2>2. /\ Listing /\ Good /\ e.dataOffset = 0 /\ e.dataLength = 0 /\ Grows(e) /\ Free \notin DOMAIN image /\ WritesNext(e, top)
    BY <1>2 DEF Adds, WritesNext
  <2>3. /\ p \in Nat /\ o \in Dirs /\ Dirs' \subseteq Dirs \union {p} /\ Dirs \subseteq DOMAIN image
        /\ \A d \in DOMAIN image : d # o => \A a \in Nat : Inside(a, d)' <=> Inside(a, d)
        /\ Off(p)' = 0 /\ Ln(p)' = 0 /\ TypeOK' /\ SizeOf(e) \in Nat
        /\ \A a \in Nat : Inside(a, o)' <=> Off(o) <= a /\ a < p + SizeOf(e)
        /\ p = TableEnd(o)
    BY <2>1, <2>2, GrowsView
  <2>4. /\ DOMAIN image' = DOMAIN image \union {p} /\ image'[p] = e /\ p \notin DOMAIN image /\ tree' = tree
        /\ \A a \in DOMAIN image : image'[a].name = image[a].name
    BY <2>1, <2>2 DEF Grows
  <2>5. /\ Reals' \subseteq Reals \union {p} /\ Reals \subseteq DOMAIN image
    BY <2>4 DEF Reals, IsLink
  <2>6. p \in Reals' => e.name \in Kept /\ e.name \in Children(Top.dir) \ Top.listed
    <3>1. p \in Reals' => e.name # Self /\ e.name # Parent
      BY <2>4 DEF Reals, IsLink
    <3> QED
      BY <2>2, <3>1 DEF WritesNext
  <2>7. p \in Reals' => \A a \in Reals : image[a].name # e.name
    BY <2>2, <2>6, NameIsNew
  <2>8. Unique'
    <3> SUFFICES ASSUME NEW a \in Reals', NEW b \in Reals', image'[a].name = image'[b].name PROVE a = b
      BY DEF Unique
    <3> QED
      BY <2>4, <2>5, <2>7 DEF Unique
  <2>9. Homed'
    <3> SUFFICES ASSUME NEW d \in Dirs', NEW a \in Reals', Inside(a, d)'
                 PROVE tree'.parent[image'[a].name] = image'[d].name
      BY DEF Homed
    <3>1. a \in Nat /\ a \in DOMAIN image'
      BY <2>3, <2>4, <2>5, <1>0, EntryFields
    <3>2. d # p
      <4>1. ~Inside(a, p)'
        <5>1. TableEnd(p)' = 0
          BY <2>3 DEF TableEnd
        <5> QED
          BY <3>1, <5>1 DEF Inside
      <4> QED
        BY <4>1
    <3>3. d \in Dirs /\ d \in DOMAIN image
      BY <2>3, <3>2
    <3>4. CASE a = p
      <4>1. d = o
        <5>1. d # o => Inside(p, d)
          BY <2>3, <3>3, <3>4
        <5> QED
          BY <2>1, <2>2, <3>3, <5>1, NoTableAtTheEnd
      <4>2. image[o].name = Top.dir
        BY <2>1, <2>2, TheTop DEF Layout, Owned, OwnerIsPlaced, Listing
      <4> QED
        BY <2>3, <2>4, <2>6, <3>4, <4>1, <4>2 DEF Children
    <3>5. CASE a # p
      <4>1. a \in Reals /\ a \in DOMAIN image
        BY <2>5, <3>5
      <4>2. Inside(a, d)
        <5>1. CASE d = o
          <6>1. Off(o) <= a /\ a < p
            <7>1. Off(o) <= a
              BY <2>3, <3>1, <5>1
            <7>2. a < Free
              <8>1. a < Top.pos + Length
                BY <2>2, <4>1, BeforeTheEnd
              <8> QED
                BY <8>1 DEF Free
            <7> QED
              BY <2>1, <7>1, <7>2
          <6> QED
            BY <2>3, <5>1, <6>1 DEF Inside
        <5>2. CASE d # o
          BY <2>3, <3>1, <3>3, <5>2
        <5> QED
          BY <5>1, <5>2
      <4> QED
        BY <2>4, <3>3, <4>1, <4>2 DEF Homed
    <3> QED
      BY <3>4, <3>5
  <2> QED
    BY <2>8, <2>9
<1>3. ASSUME NEW c, NEW o \in Nat, NEW n \in Nat, Sets(c, o, n), Parsing, c = Current, c \in Dirs => n = 0
      PROVE  Unique' /\ Homed'
  <2>1. Reals' = Reals /\ Reals \subseteq DOMAIN image
    BY <1>3 DEF Sets, Reals, IsLink
  <2>2. /\ Dirs' = Dirs /\ Dirs \subseteq DOMAIN image /\ \A d \in Dirs : Ln(d)' = Ln(d)
        /\ \A d \in Dirs : Ln(d) > 0 => \A a \in Nat : Inside(a, d)' <=> Inside(a, d)
    BY <1>3, SetsView
  <2>3. Unique'
    BY <1>3, <2>1 DEF Sets, Unique
  <2>4. Homed'
    <3> SUFFICES ASSUME NEW d \in Dirs', NEW a \in Reals', Inside(a, d)'
                 PROVE tree'.parent[image'[a].name] = image'[d].name
      BY DEF Homed
    <3>1. a \in Nat /\ a \in DOMAIN image /\ d \in DOMAIN image /\ d \in Dirs /\ a \in Reals
      BY <1>0, <2>1, <2>2, EntryFields
    <3>2. Ln(d) > 0
      <4>1. d \in DOMAIN image' /\ image'[d].dataOffset \in Nat /\ image'[d].dataLength \in Nat
        BY <1>3, <3>1, EntryIs DEF Sets
      <4>2. Ln(d)' \in Nat /\ Off(d)' \in Nat /\ TableEnd(d)' = Off(d)' + Ln(d)'
        BY <4>1 DEF Ln, Off, TableEnd
      <4>3. Off(d)' <= a /\ a < TableEnd(d)'
        BY DEF Inside
      <4> QED
        BY <2>2, <3>1, <4>2, <4>3
    <3>3. Inside(a, d)
      BY <2>2, <3>1, <3>2
    <3> QED
      BY <1>3, <3>1, <3>3 DEF Homed, Sets
  <2> QED
    BY <2>3, <2>4
<1>4. ASSUME NEW c \in Nat, NEW o \in Nat, NEW n \in Nat, NEW t \in Calls, SetsLink(c, o, n, t) PROVE Unique' /\ Homed'
  BY <1>3, <1>4 DEF SetsLink
<1>5. ASSUME NEW c \in Nat, NEW o \in Nat, NEW n \in Nat, NEW t \in Calls, SetsFile(c, o, n, t) PROVE Unique' /\ Homed'
  BY <1>3, <1>5 DEF SetsFile
<1>6. ASSUME NEW c \in Nat, NEW o \in Nat, NEW t \in Calls, NEW f \in Calls, Opens(c, o, t, f) PROVE Unique' /\ Homed'
  BY <1>3, <1>6 DEF Opens
<1> QED
  BY <1>1, <1>2, <1>4, <1>5, <1>6 DEF Step, Stop, Refuses, Skips, HasListed, Return, WriteOutput

\* What the next call at the top has seen.
LEMMA SeenNext == ASSUME NEW x, x = Top', SeenBy(x)' PROVE Seen'
<1>1. Top' = x
  OBVIOUS
<1> QED
  BY <1>1 DEF Seen, SeenBy, LinksSoFar, Links, Children, Inside, TableEnd, Ln, Off

\* A call in its second loop stays there.
LEMMA ParsesOn ==
  ASSUME Layout, Parsing, NEW c, c = Current, NEW t \in Calls, GoesOn(t), frames' = <<t>> \o Tail(frames)
  PROVE  ~Listing /\ ~Listing'
<1>1. frames # <<>> /\ ~Listing /\ frames \in Seq(Calls)
  BY AtEntry DEF Layout, TypeOK
<1>2. t.step = "parse"
  BY TopAdvances DEF GoesOn, Parsing
<1>3. Head(frames') = t
  BY <1>1, TopChanges
<1> QED
  BY <1>1, <1>2, <1>3 DEF Listing, Top

\* A call that has listed its directory goes to its second loop.
LEMMA ParsesNext ==
  ASSUME Layout, NEW top \in Calls, HasListed(top)
  PROVE  ~Listing'
<1>1. frames # <<>> /\ frames' = <<top>> \o Tail(frames) /\ top.step = "parse" /\ frames \in Seq(Calls)
  BY DEF HasListed, Listing, Layout, TypeOK
<1>2. Head(frames') = top
  BY <1>1, TopChanges
<1> QED
  BY <1>1, <1>2 DEF Listing, Top

\* A call returns to one that is in its second loop.
LEMMA ReturnsToParse ==
  ASSUME Layout, Return
  PROVE  ~Listing /\ ~Listing'
<1>1. frames # <<>> /\ frames' = Tail(frames) /\ ~Listing /\ frames \in Seq(Calls)
  BY DEF Return, Layout, Running, Listing, TypeOK
<1>2. /\ Tail(frames) \in Seq(Calls) /\ Len(Tail(frames)) = Len(frames) - 1 /\ Len(frames) \in Nat /\ Len(frames) >= 1
      /\ DOMAIN frames = 1 .. Len(frames)
      /\ \A k \in 1 .. Len(frames) - 1 : Tail(frames)[k] = frames[k + 1]
  BY <1>1, TopIs
<1>3. CASE Tail(frames) = <<>>
  BY <1>1, <1>3 DEF Listing
<1>4. CASE Tail(frames) # <<>>
  <2>1. Head(Tail(frames)) = Tail(frames)[1] /\ Len(Tail(frames)) >= 1
    BY <1>2, <1>4, TopIs
  <2>2. Tail(frames)[1] = frames[2] /\ 2 \in DOMAIN frames
    <3>1. 1 \in 1 .. Len(frames) - 1 /\ 1 + 1 = 2
      BY <1>2, <2>1
    <3> QED
      BY <1>2, <3>1
  <2>3. frames[2].step = "parse"
    BY <2>2 DEF Layout, Nested, Waits
  <2> QED
    BY <1>1, <2>1, <2>2, <2>3 DEF Listing, Top
<1> QED
  BY <1>3, <1>4

\* Which steps leave a call that lists its directory.
LEMMA StillListing ==
  ASSUME Layout, Step
  PROVE  \/ ~Listing'
         \/ \E e \in Entries, top \in Calls : Adds(e, top)
         \/ \E n \in Nodes, top \in Calls : Skips(n, top)
         \/ \E c, o \in Nat, t, f \in Calls : Opens(c, o, t, f)
<1>1. CASE Stop("failed") \/ Refuses
  BY <1>1 DEF Refuses, Stop, Listing
<1>2. CASE WriteOutput
  BY <1>2 DEF WriteOutput, Layout, Running, Listing
<1>3. ASSUME NEW c \in Nat, NEW o \in Nat, NEW n \in Nat, NEW t \in Calls, SetsLink(c, o, n, t) \/ SetsFile(c, o, n, t)
      PROVE  ~Listing'
  BY <1>3, ParsesOn DEF SetsLink, SetsFile
<1> QED
  BY <1>1, <1>2, <1>3, ParsesNext, ReturnsToParse DEF Step

\* The entry the call at the top writes next has its place in the table.
LEMMA SeenSoFar ==
  ASSUME Layout, Named, Seen, Listing, NEW e \in Entries, NEW top \in Calls, WritesNext(e, top)
  PROVE  /\ top.listed \subseteq Children(Top.dir) /\ (top.step # "list" => top.listed = {})
         /\ Top.listed \subseteq top.listed
         /\ ((top.parentOffset # 0 /\ top.parentSize # 0) <=> top.dir # Root)
         /\ (top.step = "parent" => top.dir # Root)
         /\ ~IsLink(e) => e.name \in top.listed
         /\ Total(NameSize, top.listed \intersect Kept) \in Nat /\ LinksSoFar(top) \in Nat
         /\ Ln(Top.owner) + SizeOf(e) = Total(NameSize, top.listed \intersect Kept) + LinksSoFar(top)
<1>1. TypeOK /\ Top \in Calls /\ Top.dir \in Nodes /\ Top.listed \subseteq Nodes /\ SameCall(top, Top)
      /\ frames # <<>> /\ Top.step \in {"self", "parent", "list"}
  BY TheTop, CallsAre DEF Layout, WritesNext, Listing
<1>2. tree \in Trees /\ Top.owner \in DOMAIN image /\ Ln(Top.owner) \in Nat
  BY <1>1, TopTable, EntryFields DEF TypeOK
<1>3. SeenBy(Top)
  BY DEF Seen
<1>4. /\ IsFiniteSet(Nodes) /\ \A n \in Nodes : NameSize[n] \in Nat /\ NameSize[n] = EntrySize + tree.nameLength[n]
      /\ Kept \subseteq Nodes
  BY <1>2, TableIs, PaddedIs
<1>5. /\ Total(NameSize, {}) = 0
      /\ \A S \in SUBSET Nodes : Total(NameSize, S) \in Nat
      /\ \A S \in SUBSET Nodes, x \in Nodes : x \notin S => Total(NameSize, S \union {x}) = Total(NameSize, S) + NameSize[x]
  <2>1. IsFiniteSet(Nodes) /\ \A x \in Nodes : NameSize[x] \in Nat
    BY <1>4
  <2> QED
    BY <2>1, Totals
<1>6. Total(NameSize, Top.listed \intersect Kept) \in Nat
  BY <1>4, <1>5
<1>7. SizeOf(e) \in Nat /\ SizeOf(e) = 10 + e.nameLength /\ e.nameLength \in Nat
  BY EntryIs
<1>8. Links(Top.dir) = IF Top.dir = Root THEN 11 ELSE 23
  BY DEF Links, EntrySize
<1>9. top.dir = Top.dir /\ top.parentOffset = Top.parentOffset /\ top.parentSize = Top.parentSize
  BY <1>1 DEF SameCall
<1>10. CASE Top.step = "self"
  <2>1. /\ e.name = Self /\ e.nameLength = 1 /\ top.listed = Top.listed /\ Top.listed = {}
        /\ top.step = IF Top.parentOffset # 0 /\ Top.parentSize # 0 THEN "parent" ELSE "list"
    BY <1>3, <1>10 DEF WritesNext, SeenBy
  <2>2. top.step = IF Top.dir # Root THEN "parent" ELSE "list"
    BY <1>3, <2>1 DEF SeenBy
  <2>3. LinksSoFar(top) = 11
    BY <1>8, <1>9, <2>2 DEF LinksSoFar, EntrySize
  <2>4. Ln(Top.owner) = 0
    BY <1>1, <1>10, TheTop DEF Layout, Standing, StandsAtEntry
  <2>5. top.listed \intersect Kept = {}
    BY <2>1
  <2>6. Ln(Top.owner) + SizeOf(e) = Total(NameSize, top.listed \intersect Kept) + LinksSoFar(top)
    BY <1>5, <1>7, <2>1, <2>3, <2>4, <2>5
  <2>7. IsLink(e)
    BY <2>1 DEF IsLink
  <2>8. Total(NameSize, top.listed \intersect Kept) = 0
    BY <1>5, <2>5
  <2> QED
    BY <1>3, <1>9, <2>1, <2>2, <2>3, <2>6, <2>7, <2>8 DEF SeenBy
<1>11. CASE Top.step = "parent"
  <2>1. /\ e.name = Parent /\ e.nameLength = 2 /\ top.listed = Top.listed /\ Top.listed = {}
        /\ top.step = "list" /\ Top.dir # Root
    BY <1>3, <1>11 DEF WritesNext, SeenBy
  <2>2. LinksSoFar(top) = 23 /\ LinksSoFar(Top) = 11
    BY <1>8, <1>9, <1>11, <2>1 DEF LinksSoFar, EntrySize
  <2>3. Ln(Top.owner) = Total(NameSize, Top.listed \intersect Kept) + LinksSoFar(Top)
    BY <1>3 DEF SeenBy
  <2>4. Ln(Top.owner) + SizeOf(e) = Total(NameSize, top.listed \intersect Kept) + LinksSoFar(top)
    BY <1>6, <1>7, <2>1, <2>2, <2>3
  <2>5. IsLink(e)
    BY <2>1 DEF IsLink
  <2> QED
    BY <1>3, <1>6, <1>9, <2>1, <2>2, <2>4, <2>5 DEF SeenBy
<1>12. CASE Top.step = "list"
  <2>1. /\ e.name \in Kept /\ e.name \in Children(Top.dir) /\ e.name \notin Top.listed
        /\ e.nameLength = tree.nameLength[e.name] /\ top.listed = Top.listed \union {e.name} /\ top.step = "list"
    BY <1>12 DEF WritesNext
  <2>2. LinksSoFar(top) = Links(Top.dir) /\ LinksSoFar(Top) = Links(Top.dir) /\ Links(Top.dir) \in Nat
    BY <1>8, <1>9, <1>12, <2>1 DEF LinksSoFar
  <2>3. Ln(Top.owner) = Total(NameSize, Top.listed \intersect Kept) + LinksSoFar(Top)
    BY <1>3 DEF SeenBy
  <2> DEFINE S == Top.listed \intersect Kept
  <2>4. top.listed \intersect Kept = S \union {e.name}
    BY <2>1
  <2>5. S \in SUBSET Nodes /\ e.name \in Nodes /\ e.name \notin S
    BY <1>4, <2>1
  <2> HIDE DEF S
  <2>6. Total(NameSize, S \union {e.name}) = Total(NameSize, S) + NameSize[e.name] /\ Total(NameSize, S) \in Nat
    BY <1>5, <2>5
  <2>7. NameSize[e.name] = SizeOf(e)
    BY <1>4, <1>7, <2>1, <2>5 DEF EntrySize
  <2>8. Ln(Top.owner) = Total(NameSize, S) + LinksSoFar(Top)
    BY <2>3 DEF S
  <2>9. Ln(Top.owner) + SizeOf(e) = Total(NameSize, top.listed \intersect Kept) + LinksSoFar(top)
        /\ Total(NameSize, top.listed \intersect Kept) \in Nat
    <3>1. LinksSoFar(top) = LinksSoFar(Top) /\ LinksSoFar(Top) \in Nat /\ NameSize[e.name] \in Nat
      BY <1>7, <2>2, <2>7
    <3>2. Total(NameSize, top.listed \intersect Kept) = Total(NameSize, S) + SizeOf(e)
      BY <2>4, <2>6, <2>7
    <3> QED
      BY <1>7, <2>6, <2>8, <3>1, <3>2
  <2> QED
    BY <1>3, <1>9, <2>1, <2>2, <2>9 DEF SeenBy
<1> QED
  BY <1>1, <1>10, <1>11, <1>12

\* A call keeps track of what it has written.
LEMMA StepSeen ==
  ASSUME Layout, Named, Seen, Step
  PROVE  Seen'
<1>0. TypeOK /\ tree \in Trees /\ frames \in Seq(Calls)
  BY DEF Layout, TypeOK
<1>1. CASE ~Listing'
  BY <1>1 DEF Seen
<1>2. ASSUME NEW e \in Entries, NEW top \in Calls, Adds(e, top) PROVE Seen'
  <2>1. PICK p, o : p = Free /\ o = Top.owner
    OBVIOUS
  <2>2. /\ Listing /\ Good /\ e.dataOffset = 0 /\ e.dataLength = 0 /\ Grows(e) /\ Free \notin DOMAIN image
        /\ WritesNext(e, top) /\ frames'[1] = top
    BY <1>2 DEF Adds, WritesNext
  <2>3. /\ p \in Nat /\ o \in Dirs /\ o \in DOMAIN image /\ Top' = top /\ SameCall(top, Top)
        /\ \A a \in Nat : Inside(a, o)' <=> Off(o) <= a /\ a < p + SizeOf(e)
        /\ p = TableEnd(o) /\ Ln(o)' = Ln(o) + SizeOf(e)
    BY <2>1, <2>2, GrowsView DEF Dirs
  <2>4. /\ DOMAIN image' = DOMAIN image \union {p} /\ image'[p] = e /\ tree' = tree
        /\ \A a \in DOMAIN image : image'[a].name = image[a].name
    BY <2>1, <2>2 DEF Grows
  <2>5. Reals' \subseteq Reals \union {p} /\ Reals \subseteq DOMAIN image /\ (p \in Reals' => ~IsLink(e))
    BY <2>4 DEF Reals, IsLink
  <2>6. top.owner = o /\ top.dir = Top.dir
    BY <2>1, <2>3 DEF SameCall
  <2>7. /\ top.listed \subseteq Children(Top.dir) /\ (top.step # "list" => top.listed = {})
        /\ Top.listed \subseteq top.listed
        /\ ((top.parentOffset # 0 /\ top.parentSize # 0) <=> top.dir # Root)
        /\ (top.step = "parent" => top.dir # Root)
        /\ ~IsLink(e) => e.name \in top.listed
        /\ Ln(o) + SizeOf(e) = Total(NameSize, top.listed \intersect Kept) + LinksSoFar(top)
    BY <2>1, <2>2, SeenSoFar
  <2>8. Children(top.dir)' = Children(Top.dir) /\ Kept' = Kept /\ NameSize' = NameSize /\ LinksSoFar(top)' = LinksSoFar(top)
    <3>1. Children(top.dir)' = Children(top.dir) /\ Kept' = Kept /\ NameSize' = NameSize
      BY <1>0, <2>4, SameTree
    <3> QED
      BY <2>6, <3>1 DEF LinksSoFar, Links
  <2>9. Total(NameSize, top.listed \intersect Kept)' = Total(NameSize, top.listed \intersect Kept)
    BY <2>8 DEF Total, Units
  <2>10. ASSUME NEW a \in Reals', Inside(a, o)' PROVE image'[a].name \in top.listed
    <3>1. CASE a = p
      BY <2>4, <2>5, <2>7, <3>1
    <3>2. CASE a # p
      <4>1. a \in Reals /\ a \in DOMAIN image /\ a \in Nat
        BY <1>0, <2>5, <3>2, EntryFields
      <4>2. a < p
        <5>1. a < Top.pos + Length
          BY <2>2, <4>1, BeforeTheEnd
        <5> QED
          BY <2>1, <5>1 DEF Free
      <4>3. Off(o) <= a
        BY <2>3, <2>10, <4>1
      <4>4. Inside(a, Top.owner)
        BY <2>1, <2>3, <4>2, <4>3 DEF Inside
      <4>5. image[a].name \in Top.listed
        BY <2>2, <4>1, <4>4 DEF Seen, SeenBy
      <4> QED
        BY <2>4, <2>7, <4>1, <4>5
    <3> QED
      BY <3>1, <3>2
  <2>11. SeenBy(top)'
    <3>1. Ln(top.owner)' = Ln(o) + SizeOf(e) /\ \A a \in Nat : Inside(a, top.owner)' <=> Inside(a, o)'
      BY <2>3, <2>6 DEF Inside, Ln, Off, TableEnd
    <3>2. \A a \in Reals' : a \in Nat
      BY <1>0, <2>3, <2>5, EntryFields
    <3>3. \A a \in Reals' : Inside(a, top.owner)' => image'[a].name \in top.listed
      BY <2>10, <3>1, <3>2
    <3> QED
      BY <2>7, <2>8, <2>9, <3>1, <3>3 DEF SeenBy
  <2> QED
    BY <2>3, <2>11, SeenNext
<1>3. ASSUME NEW n \in Nodes, NEW top \in Calls, Skips(n, top) PROVE Seen'
  <2>1. /\ Listing /\ Top.step = "list" /\ n \in Children(Top.dir) /\ n \notin Kept /\ SameCall(top, Top) /\ top.step = "list"
        /\ top.listed = Top.listed \union {n} /\ frames' = <<top>> \o Tail(frames) /\ image' = image /\ tree' = tree
    BY <1>3 DEF Skips
  <2>2. Top' = top
    BY <1>0, <2>1, TopChanges DEF Top, Listing
  <2>3. SeenBy(Top)
    BY <2>1 DEF Seen
  <2>4. top.listed \intersect Kept = Top.listed \intersect Kept
    BY <2>1
  <2>5. /\ Kept' = Kept /\ NameSize' = NameSize /\ Children(top.dir)' = Children(top.dir)
        /\ LinksSoFar(top)' = LinksSoFar(top) /\ LinksSoFar(top) = LinksSoFar(Top)
    <3>1. Kept' = Kept /\ NameSize' = NameSize /\ Children(top.dir)' = Children(top.dir)
      BY <1>0, <2>1, SameTree
    <3> QED
      BY <2>1, <3>1 DEF LinksSoFar, Links, SameCall
  <2>6. Total(NameSize, top.listed \intersect Kept)' = Total(NameSize, Top.listed \intersect Kept)
    BY <2>4, <2>5 DEF Total, Units
  <2>7. Reals' = Reals /\ Ln(top.owner)' = Ln(Top.owner) /\ \A a \in Reals : Inside(a, top.owner)' <=> Inside(a, Top.owner)
    BY <2>1 DEF Reals, IsLink, Ln, Inside, Off, TableEnd, SameCall
  <2>8. SeenBy(top)'
    BY <2>1, <2>3, <2>5, <2>6, <2>7 DEF SeenBy, SameCall
  <2> QED
    BY <2>2, <2>8, SeenNext
<1>4. ASSUME NEW c \in Nat, NEW o \in Nat, NEW t \in Calls, NEW f \in Calls, Opens(c, o, t, f) PROVE Seen'
  <2>1. /\ Parsing /\ c = Current /\ c \in Dirs /\ Sets(c, o, 0) /\ tree' = tree
        /\ f = Call(image[c].name, c, Top.pos, Length, o) /\ frames' = <<f>> \o (<<t>> \o Tail(frames))
    BY <1>4 DEF Opens, Sets
  <2>2. /\ f.owner = c /\ f.step = "self" /\ f.dir = image[c].name /\ f.listed = {}
        /\ f.parentOffset = Top.pos /\ f.parentSize = Length
    BY <2>1 DEF Call
  <2>3. /\ frames # <<>> /\ c # RootEntry /\ c \in DOMAIN image /\ Top.pos >= HeaderSize /\ Length > 0
        /\ Top.pos \in Nat /\ Length \in Nat
    BY <2>1, AtEntry, TopTable, TheTop, CallsAre DEF Layout
  <2>4. Top' = f
    BY <1>0, <2>1, <2>3, CallStarts DEF Top
  <2>5. f.parentOffset # 0 /\ f.parentSize # 0 /\ f.dir # Root
    BY <1>0, <2>1, <2>2, <2>3, RealIs DEF HeaderSize
  <2>6. Ln(c)' = 0 /\ Off(c)' = o /\ TableEnd(c)' = o
    BY <2>1 DEF Sets, Ln, Off, TableEnd
  <2>7. \A a \in Reals' : ~Inside(a, f.owner)'
    <3>1. Reals' \subseteq DOMAIN image
      BY <2>1 DEF Reals, Sets
    <3> QED
      BY <1>0, <2>2, <2>6, <3>1, EntryFields DEF Inside
  <2>8. Total(NameSize, f.listed \intersect Kept)' = 0
    <3>1. Units(NameSize', f.listed \intersect Kept') = {}
      BY <2>2 DEF Units
    <3> QED
      BY <3>1, FS_EmptySet DEF Total
  <2>9. Ln(f.owner)' = 0 /\ LinksSoFar(f)' = 0
    BY <2>2, <2>6 DEF LinksSoFar
  <2>10. SeenBy(f)'
    BY <2>2, <2>5, <2>7, <2>8, <2>9 DEF SeenBy
  <2> QED
    BY <2>4, <2>10, SeenNext
<1> QED
  BY <1>1, <1>2, <1>3, <1>4, StillListing

\* Sums of what the nodes take.
LEMMA TakenAre ==
  ASSUME TypeOK
  PROVE  /\ tree \in Trees /\ Kept \subseteq Nodes \ {Root} /\ Done \subseteq Kept
         /\ \A n \in Nodes : SizeIn(n) \in Nat /\ Taken[n] = Align(SizeIn(n)) /\ Taken[n] \in Nat
         /\ Table(Root) \in Nat /\ Align(HeaderSize + Table(Root)) \in Nat
         /\ HeaderSize + Table(Root) <= Align(HeaderSize + Table(Root))
         /\ \A S \in SUBSET Kept : Total(Taken, S) \in Nat
         /\ \A S \in SUBSET Kept, n \in Kept : n \notin S => Total(Taken, S \union {n}) = Total(Taken, S) + Taken[n]
         /\ \A S, R \in SUBSET Kept : R \subseteq S => Total(Taken, R) <= Total(Taken, S)
<1>1. tree \in Trees /\ Done \subseteq Kept
  BY DEF TypeOK, Done
<1>2. /\ Kept \subseteq Nodes \ {Root}
      /\ \A n \in Nodes : SizeIn(n) \in Nat /\ Taken[n] = Align(SizeIn(n)) /\ Taken[n] \in Nat
  BY <1>1, PaddedIs
<1>3. Root \in Nodes /\ Table(Root) \in Nat /\ IsFiniteSet(Nodes)
  BY <1>1, TheTree, TableIs
<1>4. Align(HeaderSize + Table(Root)) \in Nat /\ HeaderSize + Table(Root) <= Align(HeaderSize + Table(Root))
  BY <1>3, AlignIs DEF HeaderSize
<1>5. IsFiniteSet(Kept) /\ \A x \in Kept : Taken[x] \in Nat
  BY <1>2, <1>3, FS_Subset
<1>6. /\ \A S \in SUBSET Kept : Total(Taken, S) \in Nat
      /\ \A S \in SUBSET Kept, n \in Kept : n \notin S => Total(Taken, S \union {n}) = Total(Taken, S) + Taken[n]
      /\ \A S, R \in SUBSET Kept : R \subseteq S => Total(Taken, R) <= Total(Taken, S)
  BY <1>5, Totals
<1> QED
  BY <1>1, <1>2, <1>3, <1>4, <1>6

\* The budget of the next state, from nodes known to be done by then.
LEMMA BudgetNext ==
  ASSUME TypeOK, tree' = tree, NEW E \in SUBSET Kept, E \subseteq Done', NEW s \in Nat, s = totalSize',
         Good' => IF Listing' /\ Top'.owner = RootEntry THEN s = HeaderSize
                  ELSE Align(s) <= Align(HeaderSize + Table(Root)) + Total(Taken, E)
  PROVE  Budget'
<1>1. tree \in Trees /\ Table(Root) \in Nat
  BY TakenAre
<1>2. Kept' = Kept /\ Taken' = Taken /\ Table(Root)' = Table(Root)
  BY <1>1, SameTree
<1>3. PICK D : D = Done'
  OBVIOUS
<1>4. D \subseteq Kept /\ E \subseteq D
  BY <1>2, <1>3 DEF Done
<1>5. Total(Taken, E) <= Total(Taken, D) /\ Total(Taken, E) \in Nat /\ Total(Taken, D) \in Nat
  BY <1>4, TakenAre
<1>6. Total(Taken, Done)' = Total(Taken, D)
  BY <1>2, <1>3 DEF Total, Units
<1>7. Align(HeaderSize + Table(Root))' = Align(HeaderSize + Table(Root)) /\ Align(totalSize)' = Align(s)
      /\ Align(s) \in Nat /\ Align(HeaderSize + Table(Root)) \in Nat
  <2>1. Align(HeaderSize + Table(Root))' = Align(HeaderSize + Table(Root)) /\ Align(totalSize)' = Align(s)
    BY <1>2 DEF Align, HeaderSize
  <2> QED
    BY <2>1, AlignIs, TakenAre
<1>8. SUFFICES ASSUME Good', ~(Listing' /\ Top'.owner = RootEntry)
               PROVE  Align(totalSize)' <= Align(HeaderSize + Table(Root))' + Total(Taken, Done)'
  BY DEF Budget
<1>9. Align(s) <= Align(HeaderSize + Table(Root)) + Total(Taken, E)
  BY <1>8
<1> QED
  BY <1>5, <1>6, <1>7, <1>9

\* A node whose entry has no data yet is not done.
LEMMA NotDone ==
  ASSUME TypeOK, Named, Unique, NEW c \in Reals, image[c].name \in Kept, Off(c) = 0 \/ (Listing /\ c = Top.owner)
  PROVE  image[c].name \notin Done
<1> SUFFICES ASSUME image[c].name \in Done PROVE FALSE
  OBVIOUS
<1>1. PICK a \in DOMAIN image : image[a].name = image[c].name /\ Off(a) # 0 /\ ~(Listing /\ a = Top.owner)
  BY DEF Done
<1>2. a \in Reals
  BY <1>1, RealIs, TakenAre
<1>3. a = c
  BY <1>1, <1>2 DEF Unique
<1> QED
  BY <1>1, <1>3

\* What a directory that is being listed will take.
LEMMA OwnerTakes ==
  ASSUME Layout, Named, Unique, Listing, Top.owner # RootEntry
  PROVE  /\ Top.dir \in Kept \ Done /\ Taken[Top.dir] = Align(Table(Top.dir)) /\ Table(Top.dir) \in Nat
         /\ Top.owner \in DOMAIN image /\ image[Top.owner].name = Top.dir /\ Off(Top.owner) # 0
<1>1. TypeOK /\ frames # <<>> /\ Top.owner \in Dirs /\ Off(Top.owner) = Top.pos /\ Top.pos >= HeaderSize /\ Top.owner \in DOMAIN image
  BY TopTable DEF Layout, Listing
<1>2. image[Top.owner].name = Top.dir
  BY <1>1, TheTop DEF Layout, Owned, OwnerIsPlaced
<1>3. Top.owner \in Reals /\ Top.dir \in Kept
  BY <1>1, <1>2, RealIs
<1>4. Top.dir \notin Done
  BY <1>1, <1>2, <1>3, NotDone
<1>5. tree.kind[Top.dir] = "dir"
  BY <1>1, <1>2 DEF Dirs, Named, NamedAs, IsLink
<1>6. Top.dir \in Nodes /\ tree \in Trees
  BY <1>1, <1>3, TakenAre
<1>7. Taken[Top.dir] = Align(Table(Top.dir)) /\ Table(Top.dir) \in Nat
  BY <1>1, <1>5, <1>6, TakenAre, TableIs DEF SizeIn
<1> QED
  BY <1>1, <1>2, <1>3, <1>4, <1>7 DEF HeaderSize

\* A node that has its data keeps it.
LEMMA DoneStays ==
  ASSUME tree \in Trees, tree' = tree, DOMAIN image \subseteq DOMAIN image',
         \A a \in DOMAIN image : /\ image'[a].name = image[a].name
                                 /\ Off(a) # 0 /\ ~(Listing /\ a = Top.owner) =>
                                      Off(a)' # 0 /\ ~(Listing' /\ a = Top'.owner)
  PROVE  Done \subseteq Done'
<1>1. Kept' = Kept
  BY SameTree
<1> SUFFICES ASSUME NEW n \in Done PROVE n \in Done'
  OBVIOUS
<1>2. PICK a \in DOMAIN image : image[a].name = n /\ Off(a) # 0 /\ ~(Listing /\ a = Top.owner)
  BY DEF Done
<1>3. a \in DOMAIN image' /\ image'[a].name = n /\ Off(a)' # 0 /\ ~(Listing' /\ a = Top'.owner)
  BY <1>2
<1>4. n \in Kept'
  BY <1>1 DEF Done
<1> QED
  BY <1>3, <1>4 DEF Done, Off

\* A node gets its data.
LEMMA DoneNow ==
  ASSUME tree \in Trees, tree' = tree, NEW n \in Kept, NEW a \in DOMAIN image', image'[a].name = n,
         NEW o, o = Off(a)', o # 0, ~(Listing' /\ a = Top'.owner)
  PROVE  n \in Done'
<1>1. n \in Kept'
  BY SameTree
<1> QED
  BY <1>1 DEF Done, Off

\* When all names have been seen the table is as long as it gets.
LEMMA TableListed ==
  ASSUME Layout, Seen, Listing, Top.step = "list", Children(Top.dir) = Top.listed
  PROVE  Length = Table(Top.dir) /\ Top.dir \in Nodes
<1>1. TypeOK /\ tree \in Trees /\ frames # <<>>
  BY DEF Layout, TypeOK, Listing
<1>2. Top.dir \in Nodes /\ Length = Ln(Top.owner)
  BY <1>1, TheTop, CallsAre, TopTable
<1>3. Ln(Top.owner) = Total(NameSize, Children(Top.dir) \intersect Kept) + Links(Top.dir)
  BY DEF Seen, SeenBy, LinksSoFar
<1> QED
  BY <1>1, <1>2, <1>3, TableIs

\* The call for the root fills the root's table.
LEMMA RootCall ==
  ASSUME Layout, Named, frames # <<>>
  PROVE  Top.owner = RootEntry <=> Top.dir = Root
<1>1. TypeOK /\ Top.owner \in Reals /\ image[Top.owner].name = Top.dir
  BY TopTable, TheTop, RealIs DEF Layout, Owned, OwnerIsPlaced
<1> QED
  BY <1>1, RealIs

\* What the end of a listing adds was allowed for.
LEMMA ListedBudget ==
  ASSUME Layout, Named, Unique, Seen, Budget, NEW top \in Calls, HasListed(top), NEW s \in Nat, s = totalSize'
  PROVE  Budget'
<1>1. /\ TypeOK /\ Listing /\ Good /\ Top.step = "list" /\ Children(Top.dir) = Top.listed /\ frames # <<>>
      /\ tree' = tree /\ image' = image /\ s = totalSize + Length /\ tree \in Trees /\ totalSize \in Nat
  BY DEF HasListed, Layout, Listing, TypeOK
<1>2. ~Listing' /\ Length = Table(Top.dir) /\ Length \in Nat
  BY <1>1, ParsesNext, TableListed, TopTable
<1>3. Done \subseteq Done' /\ Done \in SUBSET Kept
  <2>1. /\ DOMAIN image \subseteq DOMAIN image'
        /\ \A a \in DOMAIN image : /\ image'[a].name = image[a].name
                                   /\ Off(a) # 0 /\ ~(Listing /\ a = Top.owner) =>
                                        Off(a)' # 0 /\ ~(Listing' /\ a = Top'.owner)
    BY <1>1, <1>2 DEF Off
  <2> QED
    BY <1>1, <2>1, DoneStays, TakenAre
<1>4. CASE Top.owner = RootEntry
  <2>1. s = HeaderSize + Table(Root)
    BY <1>1, <1>2, <1>4, RootCall DEF Budget
  <2>2. Total(Taken, Done) \in Nat /\ Align(HeaderSize + Table(Root)) \in Nat
    BY <1>1, <1>3, TakenAre
  <2>3. Align(s) <= Align(HeaderSize + Table(Root)) + Total(Taken, Done)
    BY <2>1, <2>2
  <2> QED
    BY <1>1, <1>2, <1>3, <2>3, BudgetNext
<1>5. CASE Top.owner # RootEntry
  <2>1. PICK d : d = Top.dir
    OBVIOUS
  <2>2. /\ d \in Kept \ Done /\ Taken[d] = Align(Table(d)) /\ Table(d) \in Nat
        /\ Top.owner \in DOMAIN image /\ image[Top.owner].name = d /\ Off(Top.owner) # 0
    BY <1>1, <1>5, <2>1, OwnerTakes
  <2>3. PICK o : o = Top.owner
    OBVIOUS
  <2>4. d \in Done'
    <3>1. o \in DOMAIN image' /\ image'[o].name = d /\ Off(o)' = Off(o) /\ Off(o) # 0
      BY <1>1, <2>2, <2>3 DEF Off
    <3> QED
      BY <1>1, <1>2, <2>2, <3>1, DoneNow
  <2>5. PICK E : E = Done \union {d}
    OBVIOUS
  <2>6. E \in SUBSET Kept /\ E \subseteq Done'
    BY <1>3, <2>2, <2>4, <2>5
  <2>7. Total(Taken, E) = Total(Taken, Done) + Taken[d] /\ Total(Taken, Done) \in Nat
    BY <1>1, <1>3, <2>2, <2>5, TakenAre
  <2>8. Align(totalSize) <= Align(HeaderSize + Table(Root)) + Total(Taken, Done)
    BY <1>1, <1>5 DEF Budget
  <2>9. Align(s) <= Align(totalSize) + Align(Table(d))
    BY <1>1, <1>2, <2>1, <2>2, AlignAdds
  <2>10. Align(s) \in Nat /\ Align(totalSize) \in Nat /\ Align(Table(d)) \in Nat /\ Align(HeaderSize + Table(Root)) \in Nat
    BY <1>1, <2>2, AlignIs, TakenAre
  <2>11. Align(s) <= Align(HeaderSize + Table(Root)) + Total(Taken, E)
    BY <2>2, <2>7, <2>8, <2>9, <2>10
  <2> QED
    BY <1>1, <1>2, <2>6, <2>11, BudgetNext
<1> QED
  BY <1>4, <1>5

\* What a file adds is what it takes.
LEMMA FileBudget ==
  ASSUME Layout, Named, Unique, Budget, NEW c \in Nat, NEW o \in Nat, NEW n \in Nat, NEW t \in Calls,
         SetsFile(c, o, n, t), NEW s \in Nat, s = totalSize'
  PROVE  Budget'
<1>1. /\ TypeOK /\ Parsing /\ c = Current /\ Sets(c, o, n) /\ GoesOn(t) /\ frames' = <<t>> \o Tail(frames)
      /\ tree \in Trees /\ totalSize \in Nat /\ tree' = tree /\ o = Align(totalSize) /\ s = o + n
      /\ image[c].type = "file" /\ image[c].name \in Kept /\ n = tree.size[image[c].name]
  BY DEF SetsFile, Sets, Layout, TypeOK
<1>2. ~Listing /\ ~Listing' /\ c \in DOMAIN image /\ c # RootEntry /\ Off(c) = 0 /\ Good
  BY <1>1, AtEntry, ParsesOn
<1>3. PICK m : m = image[c].name
  OBVIOUS
<1>4. m \in Kept /\ m \in Nodes /\ m \notin Done /\ c \in Reals
  <2>1. m \in Kept /\ m \in Nodes
    BY <1>1, <1>3, TakenAre
  <2>2. c \in Reals
    BY <1>1, <1>2, <1>3, <2>1, RealIs
  <2>3. m \notin Done
    BY <1>1, <1>2, <1>3, <2>1, <2>2, NotDone
  <2> QED
    BY <2>1, <2>2, <2>3
<1>5. Taken[m] = Align(n) /\ Taken[m] \in Nat
  <2>1. tree.kind[m] = "file"
    BY <1>1, <1>2, <1>3, <1>4 DEF Named, NamedAs, Reals, IsLink
  <2> QED
    BY <1>1, <1>3, <1>4, <2>1, TakenAre DEF SizeIn
<1>6. o # 0
  <2>1. totalSize >= HeaderSize
    BY <1>2 DEF Layout, Ended
  <2> QED
    BY <1>1, <2>1, AlignIs DEF HeaderSize
<1>7. Done \subseteq Done' /\ Done \in SUBSET Kept
  <2>1. /\ DOMAIN image \subseteq DOMAIN image'
        /\ \A a \in DOMAIN image : /\ image'[a].name = image[a].name
                                   /\ Off(a) # 0 /\ ~(Listing /\ a = Top.owner) =>
                                        Off(a)' # 0 /\ ~(Listing' /\ a = Top'.owner)
    BY <1>1, <1>2 DEF Sets, Off
  <2> QED
    BY <1>1, <2>1, DoneStays, TakenAre
<1>8. m \in Done'
  <2>1. c \in DOMAIN image' /\ image'[c].name = m /\ Off(c)' = o
    BY <1>1, <1>2, <1>3 DEF Sets, Off
  <2> QED
    BY <1>1, <1>2, <1>4, <1>6, <2>1, DoneNow
<1>9. PICK E : E = Done \union {m}
  OBVIOUS
<1>10. E \in SUBSET Kept /\ E \subseteq Done'
  BY <1>4, <1>7, <1>8, <1>9
<1>11. Total(Taken, E) = Total(Taken, Done) + Taken[m] /\ Total(Taken, Done) \in Nat
  BY <1>1, <1>4, <1>7, <1>9, TakenAre
<1>12. Align(totalSize) <= Align(HeaderSize + Table(Root)) + Total(Taken, Done)
  BY <1>2 DEF Budget
<1>13. Align(s) <= Align(totalSize) + Align(n)
  BY <1>1, AlignAdds
<1>14. Align(s) \in Nat /\ Align(totalSize) \in Nat /\ Align(HeaderSize + Table(Root)) \in Nat
  BY <1>1, AlignIs, TakenAre
<1>15. Align(s) <= Align(HeaderSize + Table(Root)) + Total(Taken, E)
  BY <1>5, <1>11, <1>12, <1>13, <1>14
<1> QED
  BY <1>1, <1>2, <1>10, <1>15, BudgetNext

\* A step after which the size, but for its padding, is what it was, and the
\* same nodes have their data.
LEMMA SameBudget ==
  ASSUME TypeOK, Budget, Good, tree' = tree, NEW s \in Nat, s = totalSize',
         s = totalSize \/ s = Align(totalSize), Done \subseteq Done',
         (Listing' /\ Top'.owner = RootEntry) <=> (Listing /\ Top.owner = RootEntry),
         Listing /\ Top.owner = RootEntry => s = totalSize
  PROVE  Budget'
<1>1. Done \in SUBSET Kept /\ totalSize \in Nat
  BY TakenAre DEF TypeOK
<1>2. Align(s) = Align(totalSize)
  BY <1>1, AlignAdds
<1> QED
  BY <1>1, <1>2, BudgetNext DEF Budget

\* The accounts hold whatever happens.
LEMMA StepBudget ==
  ASSUME Layout, Layout', Named, Unique, Seen, Budget, Step
  PROVE  Budget'
<1>0. TypeOK /\ tree \in Trees /\ frames \in Seq(Calls) /\ totalSize \in Nat
  BY DEF Layout, TypeOK
<1>1. PICK s \in Nat : s = totalSize'
  BY DEF Layout, TypeOK
<1>2. CASE Stop("failed") \/ Refuses
  <2>1. ~Good'
    BY <1>2 DEF Refuses, Stop, Good
  <2> QED
    BY <2>1 DEF Budget
<1>3. ASSUME NEW e \in Entries, NEW top \in Calls, Adds(e, top) PROVE Budget'
  <2>1. PICK p, o : p = Free /\ o = Top.owner
    OBVIOUS
  <2>2. /\ Listing /\ Good /\ e.dataOffset = 0 /\ e.dataLength = 0 /\ Grows(e) /\ Free \notin DOMAIN image
    BY <1>3 DEF Adds, WritesNext
  <2>3. Listing' /\ SameCall(Top', Top) /\ \A a \in DOMAIN image : Off(a)' = Off(a)
    BY <2>1, <2>2, GrowsView
  <2>4. Top'.owner = Top.owner
    BY <2>3 DEF SameCall
  <2>5. /\ DOMAIN image \subseteq DOMAIN image' /\ tree' = tree /\ totalSize' = totalSize
        /\ \A a \in DOMAIN image : image'[a].name = image[a].name
    BY <2>2 DEF Grows
  <2>6. Done \subseteq Done'
    <3>1. \A a \in DOMAIN image : /\ image'[a].name = image[a].name
                                  /\ Off(a) # 0 /\ ~(Listing /\ a = Top.owner) =>
                                       Off(a)' # 0 /\ ~(Listing' /\ a = Top'.owner)
      BY <2>2, <2>3, <2>4, <2>5
    <3> QED
      BY <1>0, <2>5, <3>1, DoneStays
  <2> QED
    BY <1>0, <1>1, <2>2, <2>3, <2>4, <2>5, <2>6, SameBudget
<1>4. ASSUME NEW n \in Nodes, NEW top \in Calls, Skips(n, top) PROVE Budget'
  <2>1. /\ Listing /\ Good /\ SameCall(top, Top) /\ top.step = "list"
        /\ frames' = <<top>> \o Tail(frames) /\ image' = image /\ tree' = tree /\ totalSize' = totalSize
    BY <1>4 DEF Skips
  <2>2. Top' = top /\ Listing'
    <3>1. Head(frames') = top /\ frames' # <<>>
      BY <1>0, <2>1, TopChanges DEF Listing
    <3> QED
      BY <2>1, <3>1 DEF Top, Listing
  <2>3. Top'.owner = Top.owner
    BY <2>1, <2>2 DEF SameCall
  <2>4. Done \subseteq Done'
    <3>1. \A a \in DOMAIN image : /\ image'[a].name = image[a].name
                                  /\ Off(a) # 0 /\ ~(Listing /\ a = Top.owner) =>
                                       Off(a)' # 0 /\ ~(Listing' /\ a = Top'.owner)
      BY <2>1, <2>3 DEF Off
    <3>2. DOMAIN image \subseteq DOMAIN image'
      BY <2>1
    <3> QED
      BY <1>0, <2>1, <3>1, <3>2, DoneStays
  <2> QED
    BY <1>0, <1>1, <2>1, <2>2, <2>3, <2>4, SameBudget
<1>5. ASSUME NEW top \in Calls, HasListed(top) PROVE Budget'
  BY <1>1, <1>5, ListedBudget
<1>6. ASSUME NEW c \in Nat, NEW o \in Nat, NEW n \in Nat, NEW t \in Calls, SetsLink(c, o, n, t) PROVE Budget'
  <2>1. /\ Parsing /\ c = Current /\ Sets(c, o, n) /\ GoesOn(t) /\ frames' = <<t>> \o Tail(frames)
        /\ tree' = tree /\ totalSize' = totalSize
    BY <1>6 DEF SetsLink, Sets
  <2>2. ~Listing /\ ~Listing' /\ c \in DOMAIN image /\ Off(c) = 0 /\ Good
    BY <2>1, AtEntry, ParsesOn
  <2>3. Done \subseteq Done'
    <3>1. /\ DOMAIN image \subseteq DOMAIN image'
          /\ \A a \in DOMAIN image : /\ image'[a].name = image[a].name
                                     /\ Off(a) # 0 /\ ~(Listing /\ a = Top.owner) =>
                                          Off(a)' # 0 /\ ~(Listing' /\ a = Top'.owner)
      BY <2>1, <2>2 DEF Sets, Off
    <3> QED
      BY <1>0, <2>1, <3>1, DoneStays
  <2> QED
    BY <1>0, <1>1, <2>1, <2>2, <2>3, SameBudget
<1>7. ASSUME NEW c \in Nat, NEW o \in Nat, NEW n \in Nat, NEW t \in Calls, SetsFile(c, o, n, t) PROVE Budget'
  BY <1>1, <1>7, FileBudget
<1>8. ASSUME NEW c \in Nat, NEW o \in Nat, NEW t \in Calls, NEW f \in Calls, Opens(c, o, t, f) PROVE Budget'
  <2>1. /\ Parsing /\ c = Current /\ Sets(c, o, 0) /\ tree' = tree /\ totalSize' = Align(totalSize)
        /\ f = Call(image[c].name, c, Top.pos, Length, o) /\ frames' = <<f>> \o (<<t>> \o Tail(frames))
    BY <1>8 DEF Opens, Sets
  <2>2. ~Listing /\ c \in DOMAIN image /\ c # RootEntry /\ Off(c) = 0 /\ Good /\ frames # <<>>
    BY <2>1, AtEntry
  <2>3. Top' = f /\ f.owner = c
    BY <1>0, <2>1, <2>2, CallStarts DEF Top, Call
  <2>4. Done \subseteq Done'
    <3>1. /\ DOMAIN image \subseteq DOMAIN image'
          /\ \A a \in DOMAIN image : /\ image'[a].name = image[a].name
                                     /\ Off(a) # 0 /\ ~(Listing /\ a = Top.owner) =>
                                          Off(a)' # 0 /\ ~(Listing' /\ a = Top'.owner)
      BY <2>1, <2>2, <2>3 DEF Sets, Off
    <3> QED
      BY <1>0, <2>1, <3>1, DoneStays
  <2> QED
    BY <1>0, <1>1, <2>1, <2>2, <2>3, <2>4, SameBudget
<1>9. ASSUME ~Listing, ~Listing', Good, UNCHANGED <<tree, totalSize, image>> PROVE Budget'
  <2>1. Done \subseteq Done'
    <3>1. /\ DOMAIN image \subseteq DOMAIN image'
          /\ \A a \in DOMAIN image : /\ image'[a].name = image[a].name
                                     /\ Off(a) # 0 /\ ~(Listing /\ a = Top.owner) =>
                                          Off(a)' # 0 /\ ~(Listing' /\ a = Top'.owner)
      BY <1>9 DEF Off
    <3> QED
      BY <1>0, <1>9, <3>1, DoneStays
  <2> QED
    BY <1>0, <1>1, <1>9, <2>1, SameBudget
<1>10. CASE Return
  BY <1>9, <1>10, ReturnsToParse DEF Return, Good
<1>11. CASE WriteOutput
  <2>1. ~Listing /\ ~Listing' /\ Good
    BY <1>11 DEF WriteOutput, Layout, Running, Listing, Good
  <2> QED
    BY <1>9, <1>11, <2>1 DEF WriteOutput
<1> QED
  BY <1>2, <1>3, <1>4, <1>5, <1>6, <1>7, <1>8, <1>10, <1>11 DEF Step

\* A table that is being listed is no longer than it will be.
LEMMA NotLonger ==
  ASSUME Layout, Named, Seen, Listing, NEW e \in Entries, NEW top \in Calls, WritesNext(e, top)
  PROVE  Length + SizeOf(e) <= Table(Top.dir)
<1>1. TypeOK /\ tree \in Trees /\ frames # <<>>
  BY DEF Layout, TypeOK, Listing
<1>2. /\ Top.dir \in Nodes /\ Length = Ln(Top.owner) /\ Length \in Nat /\ SizeOf(e) \in Nat /\ top.dir = Top.dir
  BY <1>1, TheTop, CallsAre, TopTable, EntryIs DEF WritesNext, SameCall
<1>3. /\ top.listed \subseteq Children(Top.dir) /\ Total(NameSize, top.listed \intersect Kept) \in Nat
      /\ LinksSoFar(top) \in Nat
      /\ Length + SizeOf(e) = Total(NameSize, top.listed \intersect Kept) + LinksSoFar(top)
  BY <1>2, SeenSoFar
<1>4. LinksSoFar(top) <= Links(Top.dir) /\ Links(Top.dir) \in Nat
  BY <1>2 DEF LinksSoFar, Links, EntrySize
<1>5. /\ IsFiniteSet(Nodes) /\ \A x \in Nodes : NameSize[x] \in Nat
  BY <1>1, TableIs
<1>6. /\ Children(Top.dir) \subseteq Nodes /\ Total(NameSize, Children(Top.dir) \intersect Kept) \in Nat
      /\ Table(Top.dir) = Total(NameSize, Children(Top.dir) \intersect Kept) + Links(Top.dir)
  BY <1>1, <1>2, TableIs
<1>7. Total(NameSize, top.listed \intersect Kept) <= Total(NameSize, Children(Top.dir) \intersect Kept)
  <2>1. PICK R, S : R = top.listed \intersect Kept /\ S = Children(Top.dir) \intersect Kept
    OBVIOUS
  <2>2. R \in SUBSET Nodes /\ S \in SUBSET Nodes /\ R \subseteq S
    BY <1>3, <1>6, <2>1
  <2>3. Total(NameSize, R) <= Total(NameSize, S)
    BY <1>5, <2>2, Totals
  <2> QED
    BY <2>1, <2>3
<1> QED
  BY <1>3, <1>4, <1>6, <1>7

\* A tree is refused when an entry or a file would go beyond the limit: all
\* of it would, as what is written is no more than what was allowed for.
LEMMA RefusedFor ==
  ASSUME Layout, Named, Unique, Seen, Budget, Refuses
  PROVE  Padded >= maxSize
<1>0. TypeOK /\ tree \in Trees /\ maxSize \in Nat /\ totalSize \in Nat
  BY TheLimit DEF Layout, TypeOK
<1>1. /\ Kept \subseteq Nodes \ {Root} /\ Total(Taken, Kept) \in Nat /\ Done \in SUBSET Kept
      /\ Padded = Align(HeaderSize + Table(Root)) + Total(Taken, Kept)
      /\ Align(HeaderSize + Table(Root)) \in Nat /\ HeaderSize + Table(Root) <= Align(HeaderSize + Table(Root))
      /\ Total(Taken, Done) \in Nat /\ Table(Root) \in Nat
  BY <1>0, PaddedIs, TakenAre
<1>2. ASSUME NEW d \in Kept \ Done, Align(totalSize) <= Align(HeaderSize + Table(Root)) + Total(Taken, Done)
      PROVE  Align(totalSize) + Taken[d] <= Padded
  <2>1. PICK E : E = Done \union {d}
    OBVIOUS
  <2>2. E \in SUBSET Kept /\ Kept \in SUBSET Kept /\ d \in Nodes
    BY <1>1, <2>1
  <2>3. Total(Taken, E) = Total(Taken, Done) + Taken[d] /\ Taken[d] \in Nat
    BY <1>0, <1>1, <2>1, <2>2, TakenAre
  <2>4. Total(Taken, E) <= Total(Taken, Kept)
    BY <1>0, <2>2, TakenAre
  <2>5. Align(totalSize) \in Nat
    BY <1>0, AlignIs
  <2> QED
    BY <1>1, <1>2, <2>3, <2>4, <2>5
<1>3. ASSUME NEW e \in Entries, NEW top \in Calls, WritesNext(e, top), ~Fits(e.nameLength) PROVE Padded >= maxSize
  <2>1. Listing /\ Good /\ frames # <<>>
    BY <1>3 DEF WritesNext, Listing
  <2>2. totalSize = Top.pos /\ Length \in Nat /\ SizeOf(e) \in Nat /\ SizeOf(e) = 10 + e.nameLength
    BY <2>1, TopTable, EntryIs DEF Layout, Ended
  <2>3. Length + SizeOf(e) <= Table(Top.dir) /\ Table(Top.dir) \in Nat
    <3>1. Top.dir \in Nodes
      BY <1>0, <2>1, TheTop, CallsAre
    <3> QED
      BY <1>0, <1>3, <2>1, <3>1, NotLonger, TableIs
  <2>4. totalSize + (Length + SizeOf(e)) >= maxSize
    <3>1. ~(totalSize + Length + 10 + e.nameLength < maxSize)
      BY <1>3, <2>2 DEF Fits, EntrySize
    <3>2. e.nameLength \in Nat
      BY EntryIs
    <3> QED
      BY <1>0, <2>2, <3>1, <3>2
  <2>5. totalSize + Table(Top.dir) >= maxSize
    BY <1>0, <2>2, <2>3, <2>4
  <2>6. CASE Top.owner = RootEntry
    <3>1. totalSize = HeaderSize /\ Top.dir = Root
      BY <2>1, <2>6, RootCall DEF Budget
    <3> QED
      BY <1>0, <1>1, <2>5, <3>1 DEF HeaderSize
  <2>7. CASE Top.owner # RootEntry
    <3>1. PICK d : d = Top.dir
      OBVIOUS
    <3>2. d \in Kept \ Done /\ Taken[d] = Align(Table(d)) /\ Table(d) \in Nat
      BY <2>1, <2>7, <3>1, OwnerTakes
    <3>3. Align(totalSize) <= Align(HeaderSize + Table(Root)) + Total(Taken, Done)
      BY <2>1, <2>7 DEF Budget
    <3>4. Align(totalSize) + Align(Table(d)) <= Padded
      BY <1>2, <3>2, <3>3
    <3>5. Align(totalSize) >= totalSize /\ Align(Table(d)) >= Table(d) /\ Align(totalSize) \in Nat /\ Align(Table(d)) \in Nat
      BY <1>0, <3>2, AlignIs
    <3>6. Padded \in Nat /\ totalSize + Table(d) >= maxSize
      BY <1>1, <2>5, <3>1
    <3> QED
      BY <1>0, <3>2, <3>4, <3>5, <3>6
  <2> QED
    BY <2>6, <2>7
<1>4. ASSUME Parsing, image[Current].type = "file", ~FileFits(Align(totalSize), tree.size[image[Current].name])
      PROVE  Padded >= maxSize
  <2>1. PICK c, m : c = Current /\ m = image[c].name
    OBVIOUS
  <2>2. ~Listing /\ Good /\ c \in DOMAIN image /\ c # RootEntry /\ Off(c) = 0
    BY <1>4, <2>1, AtEntry
  <2>3. image[c].type = "file" /\ m \in Kept /\ tree.kind[m] = "file"
    BY <1>4, <2>1, <2>2 DEF Named, NamedAs
  <2>4. m \in Nodes /\ c \in Reals /\ m \in Kept \ Done
    <3>1. m \in Nodes
      BY <1>1, <2>3
    <3>2. c \in Reals
      BY <1>0, <2>1, <2>2, <3>1, RealIs
    <3>3. m \notin Done
      BY <1>0, <2>1, <2>2, <2>3, <3>2, NotDone
    <3> QED
      BY <2>3, <3>1, <3>2, <3>3
  <2>5. PICK n : n = tree.size[m]
    OBVIOUS
  <2>6. n \in Nat /\ Taken[m] = Align(n)
    BY <1>0, <2>3, <2>4, <2>5, TheTree, TakenAre DEF SizeIn
  <2>7. Align(totalSize) <= Align(HeaderSize + Table(Root)) + Total(Taken, Done)
    BY <2>2 DEF Budget
  <2>8. Align(totalSize) + Align(n) <= Padded
    BY <1>2, <2>4, <2>6, <2>7
  <2>9. ~(Align(totalSize) + n <= maxSize)
    BY <1>4, <2>1, <2>5 DEF FileFits
  <2>10. Align(n) >= n /\ Align(n) \in Nat /\ Align(totalSize) \in Nat /\ Padded \in Nat
    BY <1>0, <1>1, <2>6, AlignIs, SMTT(30)
  <2> QED
    BY <1>0, <2>6, <2>8, <2>9, <2>10
<1> QED
  BY <1>3, <1>4 DEF Refuses

\* The accounts before anything is written.
LEMMA InitAccounts == ASSUME Init PROVE Accounts /\ RefusedIsTooLarge
<1>0. Layout /\ Named /\ TypeOK /\ tree \in Trees
  BY InitLayout, InitNames DEF Layout, TypeOK
<1>1. /\ DOMAIN image = {RootEntry} /\ image[RootEntry].dataOffset = 14 /\ image[RootEntry].dataLength = 0
      /\ totalSize = HeaderSize /\ status = "running"
  <2>1. image = [at \in {RootEntry} |-> [EntryAt(Root, "dir", 0) EXCEPT !.dataOffset = HeaderSize]]
    BY DEF Init
  <2>2. DOMAIN image = {RootEntry} /\ image[RootEntry] = [EntryAt(Root, "dir", 0) EXCEPT !.dataOffset = HeaderSize]
    BY <2>1
  <2> QED
    BY <2>2 DEF EntryAt, HeaderSize, Init
<1>2. PICK c : c = Call(Root, RootEntry, 0, 0, HeaderSize)
  OBVIOUS
<1>3. /\ frames # <<>> /\ Top = c /\ c.owner = RootEntry /\ c.dir = Root /\ c.listed = {} /\ c.step = "self"
      /\ c.parentOffset = 0
  <2>1. frames = <<c>>
    BY <1>2 DEF Init
  <2>2. frames # <<>> /\ Head(frames) = c
    BY <2>1
  <2> QED
    BY <1>2, <2>2 DEF Top, Call
<1>4. Reals \subseteq {RootEntry} /\ \A d \in Dirs : d = RootEntry
  BY <1>1 DEF Reals, Dirs
<1>5. \A a \in Reals, d \in Dirs : ~Inside(a, d)
  BY <1>1, <1>4 DEF Inside, TableEnd, Off, Ln, RootEntry
<1>6. Unique /\ Homed
  BY <1>4, <1>5 DEF Unique, Homed
<1>7. Seen
  <2>1. \A a \in Reals : ~Inside(a, RootEntry)
    BY <1>1, <1>4 DEF Inside, TableEnd, Off, Ln, RootEntry
  <2>2. Ln(RootEntry) = 0 /\ LinksSoFar(c) = 0
    BY <1>1, <1>3 DEF Ln, LinksSoFar
  <2>3. Total(NameSize, {}) = 0
    <3>1. Units(NameSize, {}) = {}
      BY DEF Units
    <3> QED
      BY <3>1, FS_EmptySet DEF Total
  <2>4. Total(NameSize, c.listed \intersect Kept) = 0
    <3>1. c.listed \intersect Kept = {}
      BY <1>3
    <3> QED
      BY <2>3, <3>1
  <2>5. SeenBy(c)
    BY <1>3, <2>1, <2>2, <2>4 DEF SeenBy
  <2> QED
    BY <1>3, <2>5 DEF Seen
<1>8. Budget
  BY <1>1, <1>3 DEF Budget, Listing
<1>9. RefusedIsTooLarge
  BY <1>1 DEF RefusedIsTooLarge
<1> QED
  BY <1>6, <1>7, <1>8, <1>9 DEF Accounts

\* A tree that was refused is refused for good reason.
LEMMA StepRefused ==
  ASSUME Layout, Named, Accounts, RefusedIsTooLarge, Step
  PROVE  RefusedIsTooLarge'
<1>1. tree \in Trees
  BY DEF Layout, TypeOK
<1>2. CASE Refuses
  <2>1. Padded >= maxSize
    BY <1>2, RefusedFor DEF Accounts
  <2>2. Padded' = Padded /\ maxSize' = maxSize
    BY <1>1, <1>2, SameTree DEF Refuses, Stop
  <2> QED
    BY <2>1, <2>2 DEF RefusedIsTooLarge
<1>3. ASSUME tree' = tree, maxSize' = maxSize, status' = status PROVE RefusedIsTooLarge'
  <2>1. Padded' = Padded
    BY <1>1, <1>3, SameTree
  <2> QED
    BY <1>3, <2>1 DEF RefusedIsTooLarge
<1>4. ASSUME status' # "too large" PROVE RefusedIsTooLarge'
  BY <1>4 DEF RefusedIsTooLarge
<1>5. CASE Stop("failed") \/ Return \/ WriteOutput
  BY <1>4, <1>5 DEF Stop, Return, WriteOutput
<1>6. ASSUME NEW e \in Entries, NEW top \in Calls, Adds(e, top) PROVE RefusedIsTooLarge'
  BY <1>3, <1>6 DEF Adds, Grows
<1>7. ASSUME NEW n \in Nodes, NEW top \in Calls, Skips(n, top) PROVE RefusedIsTooLarge'
  BY <1>3, <1>7 DEF Skips
<1>8. ASSUME NEW top \in Calls, HasListed(top) PROVE RefusedIsTooLarge'
  BY <1>3, <1>8 DEF HasListed
<1>9. ASSUME NEW c \in Nat, NEW o \in Nat, NEW n \in Nat, NEW t \in Calls, SetsLink(c, o, n, t) \/ SetsFile(c, o, n, t)
      PROVE  RefusedIsTooLarge'
  BY <1>3, <1>9 DEF SetsLink, SetsFile, Sets
<1>10. ASSUME NEW c \in Nat, NEW o \in Nat, NEW t \in Calls, NEW f \in Calls, Opens(c, o, t, f) PROVE RefusedIsTooLarge'
  BY <1>3, <1>10 DEF Opens, Sets
<1> QED
  BY <1>2, <1>5, <1>6, <1>7, <1>8, <1>9, <1>10 DEF Step

\* Nothing that happens changes the accounts.
LEMMA StutterAccounts ==
  ASSUME Layout, Accounts, RefusedIsTooLarge, UNCHANGED vars
  PROVE  Accounts' /\ RefusedIsTooLarge'
<1>1. TypeOK /\ tree \in Trees /\ tree' = tree /\ totalSize \in Nat
  BY DEF Layout, TypeOK, vars
<1>2. Unique' /\ Homed'
  BY DEF Accounts, Unique, Homed, Reals, Dirs, IsLink, Inside, Off, TableEnd, Ln, vars
<1>3. /\ Top' = Top /\ Listing' = Listing /\ Good' = Good /\ Reals' = Reals
      /\ \A d : Ln(d)' = Ln(d) /\ \A a : Inside(a, d)' = Inside(a, d)
  BY DEF vars, Top, Listing, Good, Reals, IsLink, Ln, Inside, Off, TableEnd
<1>4. Seen'
  <2>1. SUFFICES ASSUME Listing PROVE SeenBy(Top)'
    BY <1>3 DEF Seen
  <2>2. SeenBy(Top)
    BY <2>1 DEF Accounts, Seen
  <2>3. PICK c : c = Top
    OBVIOUS
  <2>4. Kept' = Kept /\ NameSize' = NameSize /\ Children(c.dir)' = Children(c.dir) /\ LinksSoFar(c)' = LinksSoFar(c)
    BY <1>1, SameTree DEF LinksSoFar, Links
  <2>5. Total(NameSize, c.listed \intersect Kept)' = Total(NameSize, c.listed \intersect Kept)
    BY <2>4 DEF Total, Units
  <2>6. SeenBy(c)'
    <3>1. image' = image
      BY DEF vars
    <3> QED
      BY <1>3, <2>2, <2>3, <2>4, <2>5, <3>1 DEF SeenBy
  <2> QED
    BY <1>3, <2>3, <2>6, SeenNext DEF SeenBy, LinksSoFar, Links, Children, Inside, TableEnd, Ln, Off
<1>5. Budget'
  <2>1. CASE Good
    <3>1. Done \subseteq Done'
      BY <1>1, <1>3, DoneStays DEF vars, Off
    <3>2. totalSize' = totalSize /\ totalSize' \in Nat
      BY <1>1 DEF vars
    <3> QED
      BY <1>1, <1>3, <2>1, <3>1, <3>2, SameBudget DEF Accounts
  <2>2. CASE ~Good
    BY <1>3, <2>2 DEF Budget
  <2> QED
    BY <2>1, <2>2
<1>6. RefusedIsTooLarge'
  BY <1>1, SameTree DEF RefusedIsTooLarge, vars
<1> QED
  BY <1>2, <1>4, <1>5, <1>6 DEF Accounts

\* The accounts, at every moment.
THEOREM AccountsHold == Spec => [](Accounts /\ RefusedIsTooLarge)
<1>1. Init => Accounts /\ RefusedIsTooLarge
  BY InitAccounts
<1>2. Layout /\ Layout' /\ Named /\ Accounts /\ RefusedIsTooLarge /\ [Next]_vars => (Accounts /\ RefusedIsTooLarge)'
  <2>1. ASSUME Layout, Layout', Named, Accounts, RefusedIsTooLarge, Next PROVE (Accounts /\ RefusedIsTooLarge)'
    <3>1. Step
      BY <2>1, StepIs
    <3>2. Unique' /\ Homed' /\ Seen' /\ Budget'
      BY <2>1, <3>1, StepNodes, StepSeen, StepBudget DEF Accounts
    <3> QED
      BY <2>1, <3>1, <3>2, StepRefused DEF Accounts
  <2> QED
    BY <2>1, StutterAccounts
<1> QED
  BY <1>1, <1>2, LayoutHolds, PTL DEF Spec

\* "Maximum size exceeded" is said of no tree that would fit, padding
\* included, in less than maxSize bytes: whatever order readdir chooses, the
\* check of an entry or a file fails only when all that is still to come
\* would not fit either.
THEOREM RefusedTreesAreTooLarge == Spec => []RefusedIsTooLarge
BY AccountsHold, PTL

-----------------------------------------------------------------------------
(***************************************************************************)
(* What is printed.  The lines of dumpDirectory are those of the tables    *)
(* that can be reached, once its two loops are shown to have values.       *)
(***************************************************************************)
\* Entries do not overlap, and tables lie behind the entries they belong to.
Spaced == \A a, b \in DOMAIN image : a < b => After(a) <= b
Forward == \A d \in Dirs : Ln(d) > 0 => d < Off(d)

\* The loop over the table of an entry, and the recursion.
Loops(l, at, g) ==
    l = [n \in 0 .. image[at].dataLength |->
          LET here == image[at].dataOffset + image[at].dataLength - n IN
          IF n = 0 THEN {}
          ELSE IF here \notin DOMAIN image \/ n < EntrySize THEN Invalid
          ELSE IF n < SizeOf(image[here]) THEN Invalid
          ELSE {[under |-> image[at].name, entry |-> image[here]]}
               \union (IF image[here].type = "dir" /\ image[here].name \notin {Self, Parent} THEN g[here] ELSE {})
               \union l[n - SizeOf(image[here])]]
Walk(at, g) == (CHOOSE l : Loops(l, at, g))[image[at].dataLength]
Dumps(g) == g = [at \in DOMAIN image |-> Walk(at, g)]

\* dumpDirectory is that recursion.
LEMMA DumpIs == DumpDirectory = (CHOOSE g : Dumps(g))[RootEntry]
  BY DEF DumpDirectory, Dumps, Walk, Loops

\* The lines of a table, the tables that can be reached from an entry, and
\* all their lines.
Line(d, a) == [under |-> image[d].name, entry |-> image[a]]
Lines(d) == {Line(d, a) : a \in {b \in DOMAIN image : Inside(b, d)}}
Closed(S) == \A x \in S : \A y \in Dirs : Inside(y, x) => y \in S
Below(d) == {e \in Dirs : \A S \in SUBSET Dirs : d \in S /\ Closed(S) => e \in S}
Printed(d) == UNION {Lines(e) : e \in Below(d)}

\* The loop only looks at what was printed for the directories in the table.
LEMMA WalkSame ==
  ASSUME NEW at, NEW g, NEW h, \A d \in Dirs : g[d] = h[d]
  PROVE  Walk(at, g) = Walk(at, h)
<1>1. ASSUME NEW l PROVE Loops(l, at, g) <=> Loops(l, at, h)
  <2>1. \A a \in DOMAIN image : image[a].type = "dir" /\ image[a].name \notin {Self, Parent} => g[a] = h[a]
    BY DEF Dirs, IsLink
  <2> QED
    BY <2>1 DEF Loops
<1>2. (CHOOSE l : Loops(l, at, g)) = (CHOOSE l : Loops(l, at, h))
  BY <1>1, Zenon
<1> QED
  BY <1>2 DEF Walk

\* A directory, and what is below its subdirectories.
LEMMA BelowIs ==
  ASSUME NEW d \in Dirs
  PROVE  /\ d \in Below(d)
         /\ \A x \in Below(d) : \A y \in Dirs : Inside(y, x) => y \in Below(d)
         /\ Printed(d) = Lines(d) \union UNION {Printed(e) : e \in {y \in Dirs : Inside(y, d)}}
<1>1. d \in Below(d) /\ \A e \in Dirs : e \in Below(e)
  BY DEF Below
<1>2. \A e \in Dirs : \A x \in Below(e) : \A y \in Dirs : Inside(y, x) => y \in Below(e)
  BY DEF Below, Closed
<1>3. ASSUME NEW e \in Dirs, Inside(e, d) PROVE Below(e) \subseteq Below(d)
  <2>1. Below(d) \in SUBSET Dirs /\ Closed(Below(d)) /\ e \in Below(d)
    BY <1>1, <1>2, <1>3 DEF Closed, Below
  <2> QED
    BY <2>1 DEF Below
<1> DEFINE T == {d} \union UNION {Below(e) : e \in {y \in Dirs : Inside(y, d)}}
<1>4. T \in SUBSET Dirs /\ d \in T
  BY DEF Below
<1>5. Closed(T)
  <2> SUFFICES ASSUME NEW x \in T, NEW y \in Dirs, Inside(y, x) PROVE y \in T
    BY DEF Closed
  <2>1. CASE x = d
    BY <1>1, <2>1
  <2>2. CASE \E e \in Dirs : Inside(e, d) /\ x \in Below(e)
    BY <1>2, <2>2
  <2> QED
    BY <2>1, <2>2
<1>6. Below(d) = T
  <2>1. Below(d) \subseteq T
    BY <1>4, <1>5 DEF Below
  <2>2. T \subseteq Below(d)
    BY <1>1, <1>3
  <2> QED
    BY <2>1, <2>2
<1>7. Printed(d) = Lines(d) \union UNION {Printed(e) : e \in {y \in Dirs : Inside(y, d)}}
  <2> HIDE DEF T
  <2>1. \A e : e \in T <=> e = d \/ \E y \in Dirs : Inside(y, d) /\ e \in Below(y)
    BY DEF T
  <2>2. ASSUME NEW z PROVE z \in Printed(d) <=> z \in Lines(d) \union UNION {Printed(e) : e \in {y \in Dirs : Inside(y, d)}}
    <3>1. z \in Printed(d) <=> \E e \in T : z \in Lines(e)
      BY <1>6 DEF Printed
    <3>2. \A y : z \in Printed(y) <=> \E e \in Below(y) : z \in Lines(e)
      BY DEF Printed
    <3> QED
      BY <2>1, <3>1, <3>2
  <2> QED
    BY <2>2
<1> QED
  BY <1>1, <1>2, <1>7

\* What the loop still has to print when n bytes of the table are left.
LastOf(d, n) == {a \in DOMAIN image : TableEnd(d) - n <= a /\ a < TableEnd(d)}
Rest(d, n) == {Line(d, a) : a \in LastOf(d, n)} \union UNION {Printed(e) : e \in LastOf(d, n) \intersect Dirs}
RestOrInvalid(d, n) ==
    IF n = 0 THEN {} ELSE IF TableEnd(d) - n \notin DOMAIN image \/ n < EntrySize THEN Invalid ELSE Rest(d, n)

\* An entry of a table, and what comes behind it.
LEMMA RestIs ==
  ASSUME Layout, Spaced, NEW d \in Dirs, NEW n \in Nat, n <= Ln(d), n > 0,
         NEW h, h = TableEnd(d) - n, h \in DOMAIN image
  PROVE  /\ SizeOf(image[h]) \in Nat /\ SizeOf(image[h]) >= 10 /\ SizeOf(image[h]) <= n /\ Inside(h, d)
         /\ Rest(d, n) = {Line(d, h)} \union (IF h \in Dirs THEN Printed(h) ELSE {})
                         \union RestOrInvalid(d, n - SizeOf(image[h]))
<1>1. TypeOK /\ d \in DOMAIN image
  BY DEF Layout, Dirs
<1>2. /\ Off(d) \in Nat /\ Ln(d) \in Nat /\ TableEnd(d) \in Nat /\ TableEnd(d) = Off(d) + Ln(d)
      /\ \A a \in DOMAIN image : a \in Nat /\ SizeOf(image[a]) \in Nat /\ SizeOf(image[a]) >= 10 /\ After(a) = a + SizeOf(image[a])
  BY <1>1, EntryFields DEF After
<1>3. Inside(h, d) /\ h \in Nat /\ h < TableEnd(d)
  BY <1>2 DEF Inside
<1>4. Ln(d) > 0
  BY <1>2
<1>5. \A a \in DOMAIN image : Inside(a, d) =>
        After(a) <= TableEnd(d) /\ (After(a) \in DOMAIN image \/ After(a) = TableEnd(d))
  BY <1>4 DEF Layout, Tiled
<1>6. PICK s, m : s = SizeOf(image[h]) /\ m = n - s
  OBVIOUS
<1>7. s \in Nat /\ s >= 10 /\ After(h) = h + s /\ h + s <= TableEnd(d) /\ s <= n /\ m \in Nat /\ h + s = TableEnd(d) - m
  BY <1>2, <1>3, <1>5, <1>6
<1>8. LastOf(d, n) = {h} \union LastOf(d, m) /\ LastOf(d, 0) = {}
  <2>1. ASSUME NEW a \in DOMAIN image, h <= a, a # h PROVE h + s <= a
    BY <1>2, <1>3, <1>7, <2>1 DEF Spaced
  <2>2. \A a \in DOMAIN image : a \in LastOf(d, n) <=> h <= a /\ a < TableEnd(d)
    BY DEF LastOf
  <2>3. \A a \in DOMAIN image : a \in LastOf(d, m) <=> h + s <= a /\ a < TableEnd(d)
    BY <1>7 DEF LastOf
  <2>4. ASSUME NEW a PROVE a \in LastOf(d, n) <=> a = h \/ a \in LastOf(d, m)
    <3>1. CASE a \in DOMAIN image
      BY <1>2, <1>3, <1>7, <2>1, <2>2, <2>3, <3>1
    <3>2. CASE a \notin DOMAIN image
      BY <3>2 DEF LastOf
    <3> QED
      BY <3>1, <3>2
  <2>5. LastOf(d, 0) = {}
    BY <1>2 DEF LastOf
  <2> QED
    BY <2>4, <2>5
<1>9. RestOrInvalid(d, m) = Rest(d, m)
  <2>1. CASE m = 0
    BY <1>8, <2>1 DEF RestOrInvalid, Rest
  <2>2. CASE m # 0
    <3>1. h + s \in DOMAIN image
      BY <1>2, <1>3, <1>5, <1>7, <2>2
    <3>2. m >= 10
      <4>1. Inside(h + s, d)
        BY <1>2, <1>3, <1>7, <2>2 DEF Inside
      <4>2. After(h + s) <= TableEnd(d) /\ After(h + s) >= h + s + 10
        BY <1>2, <1>5, <3>1, <4>1
      <4> QED
        BY <1>2, <1>7, <3>1, <4>2
    <3>3. TableEnd(d) - m \in DOMAIN image /\ ~(m < EntrySize)
      BY <1>7, <3>1, <3>2 DEF EntrySize
    <3> QED
      BY <2>2, <3>3 DEF RestOrInvalid
  <2> QED
    BY <2>1, <2>2
<1>10. Rest(d, n) = {Line(d, h)} \union (IF h \in Dirs THEN Printed(h) ELSE {}) \union Rest(d, m)
  <2>1. \A z : z \in Rest(d, n) <=> \/ \E a \in LastOf(d, n) : z = Line(d, a)
                                    \/ \E e \in LastOf(d, n) : e \in Dirs /\ z \in Printed(e)
    BY DEF Rest
  <2>2. \A z : z \in Rest(d, m) <=> \/ \E a \in LastOf(d, m) : z = Line(d, a)
                                    \/ \E e \in LastOf(d, m) : e \in Dirs /\ z \in Printed(e)
    BY DEF Rest
  <2>3. ASSUME NEW z PROVE z \in Rest(d, n) <=> \/ z = Line(d, h)
                                                \/ h \in Dirs /\ z \in Printed(h)
                                                \/ z \in Rest(d, m)
    BY <1>8, <2>1, <2>2
  <2> QED
    BY <2>3
<1> QED
  BY <1>3, <1>6, <1>7, <1>9, <1>10

\* The loop has a value, and prints the table and what is below it.
LEMMA WalkIs ==
  ASSUME Layout, Spaced, NEW d \in Dirs, NEW g, \A e \in Dirs : Inside(e, d) => g[e] = Printed(e)
  PROVE  Walk(d, g) = Printed(d)
<1>1. TypeOK /\ d \in DOMAIN image
  BY DEF Layout, Dirs
<1>2. PICK len : len = Ln(d)
  OBVIOUS
<1>3. /\ len \in Nat /\ image[d].dataLength = len /\ Off(d) \in Nat /\ TableEnd(d) \in Nat /\ TableEnd(d) = Off(d) + len
      /\ image[d].dataOffset = Off(d)
  BY <1>1, <1>2, EntryFields DEF Ln, Off
<1> DEFINE Body(l, n) ==
             LET here == TableEnd(d) - n IN
             IF n = 0 THEN {}
             ELSE IF here \notin DOMAIN image \/ n < EntrySize THEN Invalid
             ELSE IF n < SizeOf(image[here]) THEN Invalid
             ELSE {Line(d, here)}
                  \union (IF image[here].type = "dir" /\ image[here].name \notin {Self, Parent} THEN g[here] ELSE {})
                  \union l[n - SizeOf(image[here])]
<1>4. \A l : Loops(l, d, g) <=> l = [n \in 0 .. len |-> Body(l, n)]
  BY <1>3 DEF Loops, Line
<1>5. ASSUME NEW l, NEW n \in 0 .. len, \A m \in 0 .. len : m < n => l[m] = RestOrInvalid(d, m)
      PROVE  Body(l, n) = RestOrInvalid(d, n)
  <2>1. CASE n = 0 \/ TableEnd(d) - n \notin DOMAIN image \/ n < EntrySize
    BY <2>1 DEF RestOrInvalid
  <2>2. CASE n # 0 /\ TableEnd(d) - n \in DOMAIN image /\ ~(n < EntrySize)
    <3>1. PICK h : h = TableEnd(d) - n
      OBVIOUS
    <3>2. n \in Nat /\ n <= Ln(d) /\ n > 0 /\ h \in DOMAIN image
      BY <1>2, <1>3, <2>2, <3>1
    <3>3. PICK s : s = SizeOf(image[h])
      OBVIOUS
    <3>4. /\ s \in Nat /\ s >= 10 /\ s <= n /\ Inside(h, d)
          /\ Rest(d, n) = {Line(d, h)} \union (IF h \in Dirs THEN Printed(h) ELSE {}) \union RestOrInvalid(d, n - s)
      BY <3>1, <3>2, <3>3, RestIs
    <3>5. l[n - s] = RestOrInvalid(d, n - s)
      BY <1>3, <1>5, <3>2, <3>4
    <3>6. (image[h].type = "dir" /\ image[h].name \notin {Self, Parent}) <=> h \in Dirs
      BY <3>2 DEF Dirs, IsLink
    <3>7. h \in Dirs => g[h] = Printed(h)
      BY <3>4
    <3>8. Body(l, n) = {Line(d, h)} \union (IF h \in Dirs THEN g[h] ELSE {}) \union l[n - s]
      <4>1. ~(n < SizeOf(image[h])) /\ ~(h \notin DOMAIN image \/ n < EntrySize)
        BY <2>2, <3>2, <3>3, <3>4
      <4> QED
        BY <2>2, <3>1, <3>3, <3>6, <4>1
    <3>9. RestOrInvalid(d, n) = Rest(d, n)
      BY <2>2 DEF RestOrInvalid
    <3> HIDE DEF Body
    <3> QED
      BY <3>4, <3>5, <3>7, <3>8, <3>9
  <2> QED
    BY <2>1, <2>2
<1> HIDE DEF Body
<1>6. PICK f : f = [n \in 0 .. len |-> RestOrInvalid(d, n)]
  OBVIOUS
<1>7. Loops(f, d, g)
  <2>1. \A n \in 0 .. len : Body(f, n) = RestOrInvalid(d, n)
    BY <1>5, <1>6
  <2>2. f = [n \in 0 .. len |-> Body(f, n)]
    BY <1>6, <2>1
  <2> QED
    BY <1>4, <2>2
<1>8. ASSUME NEW l, Loops(l, d, g) PROVE l[len] = RestOrInvalid(d, len)
  <2>1. \A n \in 0 .. len : l[n] = Body(l, n)
    <3>1. l = [n \in 0 .. len |-> Body(l, n)]
      BY <1>4, <1>8
    <3> QED
      BY <3>1
  <2> SUFFICES ASSUME l[len] # RestOrInvalid(d, len) PROVE FALSE
    OBVIOUS
  <2> DEFINE T == {n \in 0 .. len : l[n] # RestOrInvalid(d, n)}
  <2>2. T \in SUBSET Nat /\ T # {}
    BY <1>3
  <2>3. PICK n \in T : \A m \in T : n <= m
    BY <2>2, Least
  <2>4. \A m \in 0 .. len : m < n => l[m] = RestOrInvalid(d, m)
    BY <1>3, <2>3
  <2> QED
    BY <1>5, <2>1, <2>3, <2>4
<1>9. Walk(d, g) = RestOrInvalid(d, len)
  BY <1>3, <1>7, <1>8 DEF Walk
<1>10. RestOrInvalid(d, len) = Rest(d, len)
  <2>1. CASE len = 0
    <3>1. LastOf(d, 0) = {}
      BY <1>1, <1>3, EntryFields DEF LastOf
    <3>2. Rest(d, 0) = {}
      BY <3>1 DEF Rest
    <3> QED
      BY <2>1, <3>2 DEF RestOrInvalid
  <2>2. CASE len # 0
    <3>1. Off(d) \in DOMAIN image /\ TableEnd(d) - len = Off(d)
      BY <1>2, <1>3, <2>2 DEF Layout, Tiled
    <3>2. ~(len < EntrySize)
      <4>0. PICK h : h = TableEnd(d) - len
        OBVIOUS
      <4>1. h \in DOMAIN image /\ len \in Nat /\ len <= Ln(d) /\ len > 0
        BY <1>2, <1>3, <2>2, <3>1, <4>0
      <4>2. SizeOf(image[h]) >= 10 /\ SizeOf(image[h]) <= len /\ SizeOf(image[h]) \in Nat
        BY <4>0, <4>1, RestIs
      <4> QED
        BY <1>3, <4>2 DEF EntrySize
    <3> QED
      BY <2>2, <3>1, <3>2 DEF RestOrInvalid
  <2> QED
    BY <2>1, <2>2
<1>11. LastOf(d, len) = {b \in DOMAIN image : Inside(b, d)}
  <2>1. TableEnd(d) - len = Off(d)
    BY <1>3
  <2> QED
    BY <2>1 DEF LastOf, Inside
<1>12. Rest(d, len) = Lines(d) \union UNION {Printed(e) : e \in {y \in Dirs : Inside(y, d)}}
  <2>1. LastOf(d, len) \intersect Dirs = {y \in Dirs : Inside(y, d)}
    BY <1>11 DEF Dirs
  <2> QED
    BY <1>11, <2>1 DEF Rest, Lines
<1> QED
  BY <1>9, <1>10, <1>12, BelowIs

\* Where an entry can be.
LEMMA EntryInBuffer ==
  ASSUME Layout, NEW a \in DOMAIN image
  PROVE  a \in Nat /\ maxSize \in Nat /\ a < maxSize
<1>1. TypeOK /\ a \in Nat /\ maxSize \in Nat /\ maxSize >= 14
  BY EntryFields, TheLimit DEF Layout, TypeOK, HeaderSize
<1>2. CASE a = RootEntry
  BY <1>1, <1>2 DEF RootEntry
<1>3. CASE a # RootEntry
  <2>1. PICK d \in Dirs : Inside(a, d)
    BY <1>3 DEF Layout, Housed
  <2>2. Off(d) \in Nat /\ Ln(d) \in Nat /\ TableEnd(d) = Off(d) + Ln(d)
    BY <1>1, EntryFields DEF Dirs
  <2>3. Ln(d) > 0
    BY <1>1, <2>1, <2>2 DEF Inside
  <2> QED
    BY <1>1, <2>1, <2>2, <2>3 DEF Layout, Bounded, Inside
<1> QED
  BY <1>2, <1>3

\* A directory's entry is before its table.
LEMMA InsideIsBehind ==
  ASSUME Layout, Forward, NEW d \in Dirs, NEW a \in DOMAIN image, Inside(a, d)
  PROVE  d \in Nat /\ a \in Nat /\ d < a /\ d \in DOMAIN image /\ Ln(d) > 0
<1>1. d \in DOMAIN image /\ d \in Nat /\ a \in Nat /\ Off(d) \in Nat /\ Ln(d) \in Nat /\ TableEnd(d) = Off(d) + Ln(d)
  BY EntryFields DEF Layout, Dirs
<1>2. Ln(d) > 0
  BY <1>1 DEF Inside
<1> QED
  BY <1>1, <1>2 DEF Forward, Inside

\* Every directory can be reached from the root.
LEMMA AllBelow ==
  ASSUME Layout, Forward
  PROVE  RootEntry \in Dirs => Below(RootEntry) = Dirs
<1> SUFFICES ASSUME RootEntry \in Dirs, Below(RootEntry) # Dirs PROVE FALSE
  OBVIOUS
<1> DEFINE T == Dirs \ Below(RootEntry)
<1>1. T # {} /\ \A d \in Dirs : d \in DOMAIN image /\ d \in Nat
  BY EntryInBuffer DEF Below, Dirs
<1>2. T \in SUBSET Nat
  BY <1>1
<1>3. PICK d \in T : \A e \in T : d <= e
  BY <1>1, <1>2, Least
<1>4. d # RootEntry /\ d \in DOMAIN image
  BY <1>1, <1>3, BelowIs
<1>5. PICK e \in Dirs : Inside(d, e)
  BY <1>4 DEF Layout, Housed
<1>6. e < d /\ e \in Nat /\ d \in Nat
  BY <1>4, <1>5, InsideIsBehind
<1>7. e \in Below(RootEntry)
  BY <1>3, <1>6
<1>8. d \in Below(RootEntry)
  BY <1>3, <1>5, <1>7, BelowIs
<1> QED
  BY <1>3, <1>8

\* What dumpDirectory prints.
LEMMA DumpValue ==
  ASSUME Layout, Spaced, Forward, RootEntry \in Dirs
  PROVE  DumpDirectory = UNION {Lines(d) : d \in Dirs}
<1>1. Dirs \subseteq DOMAIN image /\ RootEntry \in DOMAIN image
  BY DEF Dirs
<1>2. ASSUME NEW g, Dumps(g) PROVE g[RootEntry] = Printed(RootEntry)
  <2>1. \A d \in Dirs : g[d] = Walk(d, g)
    <3>1. g = [at \in DOMAIN image |-> Walk(at, g)]
      BY <1>2 DEF Dumps
    <3> QED
      BY <1>1, <3>1
  <2> SUFFICES ASSUME g[RootEntry] # Printed(RootEntry) PROVE FALSE
    OBVIOUS
  <2> DEFINE T == {m \in Nat : \E d \in Dirs : g[d] # Printed(d) /\ m = maxSize - d}
  <2>2. \A d \in Dirs : d \in Nat /\ maxSize \in Nat /\ maxSize - d \in Nat
    BY <1>1, EntryInBuffer
  <2>3. T \in SUBSET Nat /\ T # {}
    BY <2>2
  <2>4. PICK m \in T : \A k \in T : m <= k
    BY <2>3, Least
  <2>5. PICK d \in Dirs : g[d] # Printed(d) /\ m = maxSize - d
    BY <2>4
  <2>6. ASSUME NEW e \in Dirs, Inside(e, d) PROVE g[e] = Printed(e)
    <3>1. d < e /\ d \in Nat /\ e \in Nat
      BY <1>1, <2>6, InsideIsBehind
    <3>2. maxSize - e \in Nat /\ ~(m <= maxSize - e)
      BY <2>2, <2>5, <3>1
    <3> QED
      BY <2>4, <3>2
  <2>7. Walk(d, g) = Printed(d)
    BY <2>6, WalkIs
  <2> QED
    BY <2>1, <2>5, <2>7
<1>3. \E g : Dumps(g)
  <2>1. PICK G : G = [d \in Dirs |-> Printed(d)]
    OBVIOUS
  <2>2. PICK g : g = [at \in DOMAIN image |-> Walk(at, G)]
    OBVIOUS
  <2>3. \A d \in Dirs : G[d] = Printed(d)
    BY <2>1
  <2>4. \A d \in Dirs : Walk(d, G) = Printed(d)
    BY <2>3, WalkIs
  <2>5. \A d \in Dirs : G[d] = g[d]
    BY <1>1, <2>2, <2>3, <2>4
  <2>6. \A at \in DOMAIN image : Walk(at, G) = Walk(at, g)
    BY <2>5, WalkSame
  <2>7. g = [at \in DOMAIN image |-> Walk(at, g)]
    BY <2>2, <2>6
  <2> QED
    BY <2>7 DEF Dumps
<1>4. DumpDirectory = Printed(RootEntry)
  BY <1>2, <1>3, DumpIs
<1> QED
  BY <1>4, AllBelow DEF Printed

-----------------------------------------------------------------------------
(***************************************************************************)
(* The tree in the image.  An entry that no call has still to come to has  *)
(* its data, and a table that no call is listing has all its entries.      *)
(***************************************************************************)
Ahead(a) == \E k \in DOMAIN frames : frames[k].pos + frames[k].i <= a /\ a < TableEnd(frames[k].owner)
HasEntry(n) == \E a \in DOMAIN image : image[a].name = n

\* The root has no link to the directory above it; a call knows the table of
\* the call that made it; the names a call has seen have entries.
NotAbove == \A d \in Dirs, a \in DOMAIN image : image[a].name = Parent /\ Inside(a, d) => d # RootEntry
Passed ==
    \A k \in DOMAIN frames : k < Len(frames) =>
      frames[k].parentOffset = frames[k + 1].pos /\ frames[k].parentSize = Ln(frames[k + 1].owner)
Recorded == Listing => \A n \in Top.listed \intersect Kept : HasEntry(n)

\* Tables that are written.
Complete(d) == Ln(d) = Table(image[d].name) /\ \A n \in Children(image[d].name) \intersect Kept : HasEntry(n)
Full == Good => \A d \in Dirs : Ahead(d) \/ (Listing /\ d = Top.owner) \/ Complete(d)

\* Data that is set.
ToItself(a) == \A d \in Dirs : Inside(a, d) => Off(a) = Off(d) /\ Ln(a) = Ln(d)
ToParent(a) == \A d, p \in Dirs : Inside(a, d) /\ Inside(d, p) => Off(a) = Off(p) /\ Ln(a) = Ln(p)
ToFile(a) ==
    /\ Off(a) + Ln(a) <= totalSize /\ Ln(a) = tree.size[image[a].name]
    /\ Ln(a) > 0 => Off(a) \in DOMAIN contents /\ contents[Off(a)] = image[a].name
Points(a) ==
    /\ image[a].name = Self => ToItself(a)
    /\ image[a].name = Parent => ToParent(a)
    /\ a \in Reals => Off(a) % 4 = 0
    /\ image[a].type = "file" => ToFile(a)
Pointing == Good => \A a \in DOMAIN image : a = RootEntry \/ Ahead(a) \/ Points(a)

Shape == Spaced /\ Forward /\ NotAbove
Faithful == Shape /\ Passed /\ Recorded /\ Full /\ Pointing

\* A table holds no more than one entry's place, and never the root's.
LEMMA InsideOne ==
  ASSUME Layout, NEW a \in Nat, NEW d \in Dirs, Inside(a, d)
  PROVE  a # RootEntry /\ Ln(d) > 0 /\ \A e \in Dirs : Inside(a, e) => e = d
<1>1. \A e \in Dirs : e \in DOMAIN image /\ Off(e) \in Nat /\ Ln(e) \in Nat /\ TableEnd(e) = Off(e) + Ln(e)
  BY EntryFields DEF Layout, Dirs
<1>2. \A e \in Dirs : Inside(a, e) => Ln(e) > 0 /\ Off(e) <= a /\ a < TableEnd(e)
  BY <1>1 DEF Inside
<1>3. Off(d) >= HeaderSize
  BY <1>2 DEF Layout, Bounded
<1>4. a # RootEntry
  BY <1>1, <1>2, <1>3 DEF RootEntry, HeaderSize
<1>5. ASSUME NEW e \in Dirs, Inside(a, e), e # d PROVE FALSE
  <2>1. TableEnd(d) <= Off(e) \/ TableEnd(e) <= Off(d)
    BY <1>2, <1>5 DEF Layout, Separate
  <2> QED
    BY <1>1, <1>2, <1>5, <2>1
<1> QED
  BY <1>2, <1>4, <1>5

\* When every table has its entries, every file and directory has one.
LEMMA AllHaveEntries ==
  ASSUME Layout, Named, \A d \in Dirs : Complete(d)
  PROVE  \A n \in Kept : HasEntry(n)
<1>1. TypeOK /\ tree \in Trees /\ RootEntry \in DOMAIN image
  BY DEF Layout, TypeOK
<1>2. /\ tree.parent \in [Nodes \ {Root} -> {n \in Nodes : tree.kind[n] = "dir"}]
      /\ \A S \in SUBSET (Nodes \ {Root}) : S # {} => \E n \in S : tree.parent[n] \notin S
      /\ Root # Self /\ Root # Parent
  BY <1>1, TheTree
<1>3. Kept \subseteq Nodes \ {Root} /\ DOMAIN tree.parent = Nodes \ {Root}
  BY <1>1, <1>2, PaddedIs
<1> SUFFICES ASSUME ~(\A n \in Kept : HasEntry(n)) PROVE FALSE
  OBVIOUS
<1>4. PICK S : S = {n \in Kept : ~HasEntry(n)}
  OBVIOUS
<1>5. S # {} /\ S \in SUBSET (Nodes \ {Root})
  BY <1>3, <1>4
<1>6. PICK n \in S : tree.parent[n] \notin S
  BY <1>2, <1>5
<1>7. PICK p : p = tree.parent[n]
  OBVIOUS
<1>8. n \in Kept /\ n \in Children(p) /\ p \in Nodes /\ tree.kind[p] = "dir" /\ p \notin S
  BY <1>2, <1>3, <1>4, <1>6, <1>7 DEF Children
<1>9. PICK d \in Dirs : image[d].name = p
  <2>1. CASE p = Root
    <3>1. RootEntry \in Dirs /\ image[RootEntry].name = p
      BY <1>1, <1>2, <2>1 DEF Named, Dirs, IsLink
    <3> QED
      BY <3>1
  <2>2. CASE p # Root
    <3>1. p \in Kept
      BY <1>3, <1>8, <2>2 DEF Kept
    <3>2. PICK a \in DOMAIN image : image[a].name = p
      BY <1>4, <1>8, <3>1 DEF HasEntry
    <3>3. a # RootEntry /\ p # Self /\ p # Parent
      BY <1>1, <1>8, <2>2, <3>2, TheTree DEF Named
    <3>4. image[a].type = "dir"
      BY <1>8, <3>2, <3>3 DEF Named, NamedAs
    <3>5. a \in Dirs
      BY <3>2, <3>3, <3>4 DEF Dirs, IsLink
    <3> QED
      BY <3>2, <3>5
  <2> QED
    BY <2>1, <2>2
<1>10. HasEntry(n)
  BY <1>8, <1>9 DEF Complete
<1> QED
  BY <1>4, <1>6, <1>10

\* A compiled image is the tree.
LEMMA ImageIs ==
  ASSUME Layout, Named, Unique, Homed, Faithful, status \in {"compiled", "written"}
  PROVE  ImageIsTheTree
<1>1. TypeOK /\ tree \in Trees /\ Good /\ frames = <<>> /\ DOMAIN frames = {}
  BY NoCall DEF Layout, TypeOK, Running, Good
<1>2. \A a : ~Ahead(a)
  BY <1>1 DEF Ahead
<1>3. \A d \in Dirs : Complete(d)
  BY <1>1, <1>2 DEF Faithful, Full, Listing
<1>4. \A a \in DOMAIN image : a = RootEntry \/ Points(a)
  BY <1>1, <1>2 DEF Faithful, Pointing
<1>5. /\ Root \in Nodes /\ Self \notin Nodes /\ Parent \notin Nodes /\ Self # Parent /\ Root # Self /\ Root # Parent
      /\ Kept \subseteq Nodes \ {Root}
  BY <1>1, TheTree, PaddedIs
<1>6. RootEntry \in Dirs /\ RootEntry \in DOMAIN image /\ image[RootEntry].name = Root
  BY <1>1, <1>5 DEF Named, Dirs, IsLink, TypeOK
<1>7. /\ Reals \subseteq DOMAIN image /\ Dirs \subseteq Reals
      /\ \A a \in Reals : a # RootEntry => image[a].name \in Kept
      /\ \A a \in DOMAIN image : image[a].name \in Nodes => a \in Reals
      /\ \A a \in Reals : image[a].name \in Nodes /\ (image[a].name = Root <=> a = RootEntry)
  BY <1>1, RealIs
<1>8. \A a \in DOMAIN image : a \in Nat /\ (~IsLink(image[a]) <=> a \in Reals)
  BY <1>1, EntryFields DEF Reals
<1>9. PICK lines : lines = DumpDirectory
  OBVIOUS
<1>10. ASSUME NEW l \in lines
       PROVE  \E d \in Dirs : \E a \in DOMAIN image :
                a # RootEntry /\ Inside(a, d) /\ l.under = image[d].name /\ l.entry = image[a]
  <2>1. lines = UNION {Lines(d) : d \in Dirs}
    BY <1>6, <1>9, DumpValue DEF Faithful, Shape
  <2>2. PICK d \in Dirs : \E a \in DOMAIN image : Inside(a, d) /\ l = Line(d, a)
    BY <2>1 DEF Lines
  <2>3. PICK a \in DOMAIN image : Inside(a, d) /\ l = Line(d, a)
    BY <2>2
  <2>4. a # RootEntry
    BY <1>8, <2>3, InsideOne
  <2> QED
    BY <2>3, <2>4 DEF Line
<1>11. ASSUME NEW a \in DOMAIN image, a # RootEntry
       PROVE  \E d \in Dirs : \E l \in lines : Inside(a, d) /\ l.under = image[d].name /\ l.entry = image[a]
  <2>1. lines = UNION {Lines(d) : d \in Dirs}
    BY <1>6, <1>9, DumpValue DEF Faithful, Shape
  <2>2. PICK d \in Dirs : Inside(a, d)
    BY <1>11 DEF Layout, Housed
  <2>3. Line(d, a) \in lines
    BY <2>1, <2>2 DEF Lines
  <2> QED
    BY <2>2, <2>3 DEF Line
<1> DEFINE EntryOf(d) == IF d = Root THEN image[RootEntry] ELSE (CHOOSE l \in lines : l.entry.name = d).entry
           SameData(e, f) == e.dataOffset = f.dataOffset /\ e.dataLength = f.dataLength
<1>12. ASSUME NEW p \in Dirs PROVE EntryOf(image[p].name) = image[p]
  <2>1. CASE p = RootEntry
    BY <1>6, <2>1
  <2>2. CASE p # RootEntry
    <3>1. PICK x : x = image[p].name
      OBVIOUS
    <3>2. x # Root /\ x \in Nodes /\ p \in Reals
      BY <1>7, <2>2, <3>1
    <3>3. \E l \in lines : l.entry.name = x
      BY <1>7, <1>11, <2>2, <3>1, <3>2
    <3>4. PICK m : m = CHOOSE l \in lines : l.entry.name = x
      OBVIOUS
    <3>5. m \in lines /\ m.entry.name = x
      BY <3>3, <3>4
    <3>6. PICK a \in DOMAIN image : m.entry = image[a]
      BY <1>10, <3>5
    <3>7. a = p
      BY <1>7, <3>1, <3>2, <3>5, <3>6 DEF Unique
    <3> QED
      BY <3>1, <3>2, <3>4, <3>6, <3>7
  <2> QED
    BY <2>1, <2>2
<1>13. {<<l.under, l.entry.name, l.entry.type>> : l \in {l \in lines : ~IsLink(l.entry)}}
         = {<<tree.parent[n], n, tree.kind[n]>> : n \in Kept}
  <2>1. ASSUME NEW l \in lines, ~IsLink(l.entry)
        PROVE  \E n \in Kept : <<l.under, l.entry.name, l.entry.type>> = <<tree.parent[n], n, tree.kind[n]>>
    <3>1. PICK d \in Dirs : \E a \in DOMAIN image :
                a # RootEntry /\ Inside(a, d) /\ l.under = image[d].name /\ l.entry = image[a]
      BY <1>10
    <3>2. PICK a \in DOMAIN image : a # RootEntry /\ Inside(a, d) /\ l.under = image[d].name /\ l.entry = image[a]
      BY <3>1
    <3>3. a \in Reals
      BY <1>8, <2>1, <3>2
    <3>4. image[a].name \in Kept /\ tree.parent[image[a].name] = image[d].name
      BY <1>7, <3>2, <3>3 DEF Homed
    <3>5. image[a].type = tree.kind[image[a].name]
      BY <1>5, <3>2, <3>4 DEF Named, NamedAs
    <3> QED
      BY <3>2, <3>4, <3>5
  <2>2. ASSUME NEW n \in Kept
        PROVE  \E l \in {l \in lines : ~IsLink(l.entry)} :
                 <<l.under, l.entry.name, l.entry.type>> = <<tree.parent[n], n, tree.kind[n]>>
    <3>1. PICK a \in DOMAIN image : image[a].name = n
      BY <1>3, AllHaveEntries DEF HasEntry
    <3>2. a \in Reals /\ a # RootEntry
      BY <1>5, <1>7, <3>1
    <3>3. PICK d \in Dirs, l \in lines : Inside(a, d) /\ l.under = image[d].name /\ l.entry = image[a]
      BY <1>11, <3>2
    <3>4. tree.parent[n] = image[d].name
      BY <3>1, <3>2, <3>3 DEF Homed
    <3>5. image[a].type = tree.kind[n]
      BY <1>5, <3>1, <3>2 DEF Named, NamedAs
    <3>6. ~IsLink(l.entry)
      BY <3>2, <3>3 DEF Reals
    <3> QED
      BY <3>1, <3>3, <3>4, <3>5, <3>6
  <2> QED
    BY <2>1, <2>2
<1>14. ASSUME NEW l \in lines, l.entry.name = Self PROVE SameData(l.entry, EntryOf(l.under))
  <2>1. PICK d \in Dirs : \E a \in DOMAIN image :
              a # RootEntry /\ Inside(a, d) /\ l.under = image[d].name /\ l.entry = image[a]
    BY <1>10
  <2>2. PICK a \in DOMAIN image : a # RootEntry /\ Inside(a, d) /\ l.under = image[d].name /\ l.entry = image[a]
    BY <2>1
  <2>3. Off(a) = Off(d) /\ Ln(a) = Ln(d)
    BY <1>4, <1>14, <2>2 DEF Points, ToItself
  <2>4. EntryOf(l.under) = image[d]
    BY <1>12, <2>2
  <2> HIDE DEF EntryOf
  <2> QED
    BY <2>2, <2>3, <2>4 DEF Off, Ln
<1>15. ASSUME NEW l \in lines, l.entry.name = Parent PROVE SameData(l.entry, EntryOf(tree.parent[l.under]))
  <2>1. PICK d \in Dirs : \E a \in DOMAIN image :
              a # RootEntry /\ Inside(a, d) /\ l.under = image[d].name /\ l.entry = image[a]
    BY <1>10
  <2>2. PICK a \in DOMAIN image : a # RootEntry /\ Inside(a, d) /\ l.under = image[d].name /\ l.entry = image[a]
    BY <2>1
  <2>3. d # RootEntry
    BY <1>15, <2>2 DEF Faithful, Shape, NotAbove
  <2>4. d \in DOMAIN image /\ d \in Reals
    BY <1>7
  <2>5. PICK p \in Dirs : Inside(d, p)
    BY <2>3, <2>4 DEF Layout, Housed
  <2>6. Off(a) = Off(p) /\ Ln(a) = Ln(p)
    BY <1>4, <1>15, <2>2, <2>5 DEF Points, ToParent
  <2>7. tree.parent[image[d].name] = image[p].name
    BY <2>4, <2>5 DEF Homed
  <2>8. EntryOf(tree.parent[l.under]) = image[p]
    BY <1>12, <2>2, <2>7
  <2> HIDE DEF EntryOf
  <2> QED
    BY <2>2, <2>6, <2>8 DEF Off, Ln
<1>16. ASSUME NEW l \in lines, l.entry.name # Self, l.entry.name # Parent
       PROVE  /\ l.entry.dataOffset % 4 = 0
              /\ l.entry.dataOffset + l.entry.dataLength <= totalSize
              /\ l.entry.dataLength = SizeIn(l.entry.name)
              /\ l.entry.type = "file" /\ l.entry.dataLength > 0 => contents[l.entry.dataOffset] = l.entry.name
  <2>1. PICK a \in DOMAIN image : a # RootEntry /\ l.entry = image[a]
    BY <1>10
  <2>2. a \in Reals /\ Points(a) /\ image[a].name \in Kept /\ image[a].type = tree.kind[image[a].name]
    <3>1. a \in Reals
      BY <1>16, <2>1 DEF Reals, IsLink
    <3> QED
      BY <1>4, <1>7, <1>16, <2>1, <3>1 DEF Named, NamedAs
  <2>3. Off(a) % 4 = 0
    BY <2>2 DEF Points
  <2>4. image[a].type \in {"dir", "file"}
    BY <1>1, EntryFields
  <2>5. CASE image[a].type = "file"
    <3>1. ToFile(a)
      BY <2>2, <2>5 DEF Points
    <3>2. SizeIn(image[a].name) = tree.size[image[a].name]
      BY <2>2, <2>5 DEF SizeIn
    <3> QED
      BY <2>1, <2>3, <3>1, <3>2 DEF ToFile, Off, Ln
  <2>6. CASE image[a].type = "dir"
    <3>1. a \in Dirs
      BY <2>2, <2>6 DEF Dirs, Reals
    <3>2. Ln(a) = Table(image[a].name) /\ SizeIn(image[a].name) = Table(image[a].name)
      BY <1>3, <2>2, <2>6, <3>1 DEF Complete, SizeIn
    <3>3. Ln(a) > 0
      <4>1. image[a].name \in Nodes
        BY <1>7, <2>2
      <4>2. PICK m : m = image[a].name
        OBVIOUS
      <4>3. /\ Table(m) = Total(NameSize, Children(m) \intersect Kept) + Links(m)
            /\ Total(NameSize, Children(m) \intersect Kept) \in Nat
        BY <1>1, <4>1, <4>2, TableIs
      <4>4. Links(m) \in Nat /\ Links(m) >= 11
        BY DEF Links, EntrySize
      <4> QED
        BY <3>2, <4>2, <4>3, <4>4
    <3>4. TableEnd(a) <= totalSize
      BY <1>1, <3>1, <3>3 DEF Layout, Ended, Listing
    <3> QED
      BY <2>1, <2>3, <2>6, <3>2, <3>4 DEF TableEnd, Off, Ln
  <2> QED
    BY <2>4, <2>5, <2>6
<1>17. \A l \in lines :
         CASE l.entry.name = Self -> SameData(l.entry, EntryOf(l.under))
           [] l.entry.name = Parent -> SameData(l.entry, EntryOf(tree.parent[l.under]))
           [] OTHER -> /\ l.entry.dataOffset % 4 = 0
                       /\ l.entry.dataOffset + l.entry.dataLength <= totalSize
                       /\ l.entry.dataLength = SizeIn(l.entry.name)
                       /\ l.entry.type = "file" /\ l.entry.dataLength > 0 => contents[l.entry.dataOffset] = l.entry.name
  <2> HIDE DEF EntryOf, SameData
  <2> QED
    BY <1>5, <1>14, <1>15, <1>16
<1> QED
  BY <1>9, <1>13, <1>17 DEF ImageIsTheTree

-----------------------------------------------------------------------------
(***************************************************************************)
(* The steps that write no entry keep the tables.                          *)
(***************************************************************************)
Keeps ==
    /\ tree' = tree /\ DOMAIN image' = DOMAIN image
    /\ \A a \in DOMAIN image : /\ image'[a].name = image[a].name /\ image'[a].type = image[a].type
                               /\ image'[a].nameLength = image[a].nameLength
    /\ \A d \in Dirs : Ln(d)' = Ln(d) /\ (Ln(d) > 0 => Off(d)' = Off(d))

\* The fields of an entry, in the next state.
LEMMA FieldsNext ==
  (TypeOK => \A a \in DOMAIN image : /\ a \in Nat /\ Off(a) \in Nat /\ Ln(a) \in Nat
                                     /\ TableEnd(a) \in Nat /\ TableEnd(a) = Off(a) + Ln(a))'
<1>1. TypeOK => \A a \in DOMAIN image : /\ a \in Nat /\ Off(a) \in Nat /\ Ln(a) \in Nat
                                        /\ TableEnd(a) \in Nat /\ TableEnd(a) = Off(a) + Ln(a)
  BY EntryFields
<1> QED
  BY <1>1, PTL

\* What is in a table stays in it.
LEMMA KeepsView ==
  ASSUME TypeOK, TypeOK', Keeps
  PROVE  /\ Dirs' = Dirs /\ Reals' = Reals /\ Dirs \subseteq DOMAIN image
         /\ \A a \in DOMAIN image : a \in Nat /\ After(a)' = After(a)
         /\ \A d \in Dirs : Ln(d) \in Nat /\ Ln(d)' = Ln(d)
         /\ \A d \in Dirs : Ln(d) > 0 => Off(d)' = Off(d) /\ TableEnd(d)' = TableEnd(d)
         /\ \A d \in Dirs, a \in Nat : /\ Inside(a, d)' <=> Inside(a, d)
                                       /\ Inside(a, d) => Ln(d) > 0
<1>1. Dirs' = Dirs /\ Reals' = Reals /\ Dirs \subseteq DOMAIN image
  BY DEF Keeps, Dirs, Reals, IsLink
<1>2. \A a \in DOMAIN image : a \in Nat /\ After(a)' = After(a)
  BY EntryFields DEF Keeps, After, SizeOf
<1>3. ASSUME NEW d \in Dirs
      PROVE  /\ Ln(d) \in Nat /\ Ln(d)' = Ln(d) /\ (Ln(d) > 0 => Off(d)' = Off(d) /\ TableEnd(d)' = TableEnd(d))
             /\ \A a \in Nat : (Inside(a, d)' <=> Inside(a, d)) /\ (Inside(a, d) => Ln(d) > 0)
  <2>1. d \in DOMAIN image /\ d \in DOMAIN image'
    BY <1>1 DEF Keeps
  <2>2. Off(d) \in Nat /\ Ln(d) \in Nat /\ TableEnd(d) = Off(d) + Ln(d)
    BY <2>1, EntryFields
  <2>3. Off(d)' \in Nat /\ Ln(d)' \in Nat /\ TableEnd(d)' = Off(d)' + Ln(d)'
    BY <2>1, FieldsNext
  <2>4. Ln(d)' = Ln(d) /\ (Ln(d) > 0 => Off(d)' = Off(d))
    BY DEF Keeps
  <2>5. Ln(d) > 0 => TableEnd(d)' = TableEnd(d)
    BY <2>2, <2>3, <2>4
  <2>6. ASSUME NEW a \in Nat PROVE (Inside(a, d)' <=> Inside(a, d)) /\ (Inside(a, d) => Ln(d) > 0)
    <3>1. Inside(a, d) <=> Off(d) <= a /\ a < TableEnd(d)
      BY DEF Inside
    <3>2. Inside(a, d)' <=> Off(d)' <= a /\ a < TableEnd(d)'
      BY DEF Inside
    <3> QED
      BY <2>2, <2>3, <2>4, <2>5, <3>1, <3>2
  <2> QED
    BY <2>2, <2>4, <2>5, <2>6
<1> QED
  BY <1>1, <1>2, <1>3

\* A step that leaves the image as it is keeps them.
LEMMA SameKeeps == ASSUME UNCHANGED <<tree, image>> PROVE Keeps
  BY DEF Keeps, Ln, Off

\* So does setting the data of an entry.
LEMMA SetsKeeps ==
  ASSUME Layout, Parsing, NEW c, c = Current, NEW o \in Nat, NEW n \in Nat, Sets(c, o, n), c \in Dirs => n = 0
  PROVE  Keeps
  BY SetsView DEF Keeps, Sets

\* They leave the tables in shape.
LEMMA KeepsShape ==
  ASSUME TypeOK, TypeOK', Keeps, Shape
  PROVE  Shape'
<1>1. DOMAIN image' = DOMAIN image /\ \A a \in DOMAIN image : image'[a].name = image[a].name
  BY DEF Keeps
<1>2. Spaced'
  BY <1>1, KeepsView DEF Shape, Spaced
<1>3. Forward'
  BY <1>1, KeepsView DEF Shape, Forward
<1>4. NotAbove'
  BY <1>1, KeepsView DEF Shape, NotAbove
<1> QED
  BY <1>2, <1>3, <1>4 DEF Shape

\* A table that is written stays so.
LEMMA CompleteStays ==
  ASSUME TypeOK, tree' = tree, DOMAIN image \subseteq DOMAIN image',
         \A a \in DOMAIN image : image'[a].name = image[a].name,
         NEW d \in DOMAIN image, image[d].name \in Nodes, Ln(d)' = Ln(d), Complete(d)
  PROVE  Complete(d)'
<1>1. PICK m : m = image[d].name
  OBVIOUS
<1>2. m \in Nodes /\ image'[d].name = m /\ tree \in Trees
  BY <1>1 DEF TypeOK
<1>3. Table(m)' = Table(m) /\ Children(m)' = Children(m) /\ Kept' = Kept
  BY <1>2, SameTree
<1>4. \A n \in Children(m) \intersect Kept : HasEntry(n)'
  <2>1. \A n \in Children(m) \intersect Kept : HasEntry(n)
    BY <1>1 DEF Complete
  <2> QED
    BY <2>1 DEF HasEntry
<1>5. Ln(d)' = Table(m)'
  BY <1>1, <1>3 DEF Complete
<1>6. Table(image[d].name)' = Table(m)' /\ Children(image[d].name)' = Children(m)'
  BY <1>2 DEF Table, Children
<1> QED
  BY <1>3, <1>4, <1>5, <1>6 DEF Complete

\* An entry that no step changes and whose table stays keeps pointing to the right data.
LEMMA PointsStay ==
  ASSUME TypeOK, TypeOK', Keeps, NEW a \in DOMAIN image, Off(a)' = Off(a), Ln(a)' = Ln(a), Points(a),
         totalSize' >= totalSize, \A b \in DOMAIN contents : b \in DOMAIN contents' /\ contents'[b] = contents[b]
  PROVE  Points(a)'
<1>1. /\ image'[a].name = image[a].name /\ image'[a].type = image[a].type /\ tree' = tree
      /\ a \in Nat /\ Dirs' = Dirs /\ Dirs \subseteq DOMAIN image /\ Reals' = Reals /\ \A d \in Dirs : d \in Nat
  BY KeepsView DEF Keeps
<1>2. image[a].name = Self => ToItself(a)'
  <2> SUFFICES ASSUME image[a].name = Self, NEW d \in Dirs', Inside(a, d)' PROVE Off(a)' = Off(d)' /\ Ln(a)' = Ln(d)'
    BY DEF ToItself
  <2>1. d \in Dirs /\ Inside(a, d) /\ Off(d)' = Off(d) /\ Ln(d)' = Ln(d)
    BY <1>1, KeepsView
  <2> QED
    BY <2>1 DEF Points, ToItself
<1>3. image[a].name = Parent => ToParent(a)'
  <2> SUFFICES ASSUME image[a].name = Parent, NEW d \in Dirs', NEW p \in Dirs', Inside(a, d)', Inside(d, p)'
               PROVE Off(a)' = Off(p)' /\ Ln(a)' = Ln(p)'
    BY DEF ToParent
  <2>1. d \in Dirs /\ p \in Dirs /\ Inside(a, d) /\ Inside(d, p) /\ Off(p)' = Off(p) /\ Ln(p)' = Ln(p)
    BY <1>1, KeepsView
  <2> QED
    BY <2>1 DEF Points, ToParent
<1>4. image[a].type = "file" => ToFile(a)'
  <2>1. SUFFICES ASSUME image[a].type = "file" PROVE ToFile(a)'
    OBVIOUS
  <2>2. ToFile(a) /\ Off(a) \in Nat /\ Ln(a) \in Nat /\ totalSize \in Nat /\ totalSize' \in Nat
    BY <2>1, EntryFields DEF Points, TypeOK
  <2>3. Off(a)' + Ln(a)' <= totalSize'
    BY <2>2 DEF ToFile
  <2>4. Ln(a)' = tree'.size[image'[a].name]
    BY <1>1, <2>2 DEF ToFile
  <2>5. Ln(a)' > 0 => Off(a)' \in DOMAIN contents' /\ contents'[Off(a)'] = image'[a].name
    BY <1>1, <2>2 DEF ToFile
  <2> QED
    BY <2>3, <2>4, <2>5 DEF ToFile
<1>5. a \in Reals => Off(a)' % 4 = 0
  BY DEF Points
<1> QED
  BY <1>1, <1>2, <1>3, <1>4, <1>5 DEF Points

\* What a call in the next state has still to come to.
LEMMA AheadBy ==
  ASSUME NEW k \in DOMAIN frames', NEW x, x = frames'[k], NEW a, x.pos + x.i <= a, a < TableEnd(x.owner)'
  PROVE  Ahead(a)'
  BY DEF Ahead, TableEnd, Off, Ln

-----------------------------------------------------------------------------
(***************************************************************************)
(* What the calls have still to come to, and what they know of each other. *)
(***************************************************************************)
\* A call that a step leaves alone has the same before it.
LEMMA CallStays ==
  ASSUME Layout, TypeOK', Keeps, NEW k \in DOMAIN frames, NEW x, x = frames[k],
         NEW j \in DOMAIN frames', NEW y, y = frames'[j], y.pos = x.pos, y.i = x.i, y.owner = x.owner,
         NEW a \in Nat, x.pos + x.i <= a, a < TableEnd(x.owner)
  PROVE  Ahead(a)'
<1>1. TypeOK /\ x.owner \in Dirs /\ Off(x.owner) = x.pos /\ x.pos \in Nat /\ x.i \in Nat
  BY CallsAre DEF Layout, Owned, OwnerIsPlaced
<1>2. x.owner \in DOMAIN image
  BY <1>1 DEF Dirs
<1>3. Ln(x.owner) \in Nat /\ TableEnd(x.owner) = x.pos + Ln(x.owner)
  BY <1>1, <1>2, EntryFields
<1>4. Ln(x.owner) > 0
  BY <1>1, <1>3
<1>5. TableEnd(x.owner)' = TableEnd(x.owner)
  BY <1>1, <1>4, KeepsView
<1>6. PICK w : w = x.owner
  OBVIOUS
<1>7. TableEnd(y.owner)' = TableEnd(w)' /\ TableEnd(w)' = TableEnd(w)
  BY <1>5, <1>6 DEF TableEnd, Off, Ln
<1> QED
  BY <1>6, <1>7, AheadBy

\* The innermost call changes no more than its step or what it has listed.
LEMMA ListingAhead ==
  ASSUME Layout, TypeOK', Keeps, Listing, NEW top \in Calls, SameCall(top, Top), frames' = <<top>> \o Tail(frames),
         NEW a \in Nat, Ahead(a)
  PROVE  Ahead(a)'
<1>1. /\ Top = frames[1] /\ frames \in Seq(Calls) /\ frames # <<>> /\ DOMAIN frames = 1 .. Len(frames)
      /\ Len(frames) \in Nat /\ Len(frames) >= 1
  BY TheTop DEF Layout, Listing
<1>2. frames'[1] = top /\ DOMAIN frames' = 1 .. Len(frames) /\ \A k \in 2 .. Len(frames) : frames'[k] = frames[k]
  BY <1>1, TopChanges
<1>3. PICK k \in DOMAIN frames : frames[k].pos + frames[k].i <= a /\ a < TableEnd(frames[k].owner)
  BY DEF Ahead
<1>4. k \in DOMAIN frames' /\ frames'[k].pos = frames[k].pos /\ frames'[k].i = frames[k].i /\ frames'[k].owner = frames[k].owner
  BY <1>1, <1>2, <1>3 DEF SameCall
<1>5. PICK x, y : x = frames[k] /\ y = frames'[k]
  OBVIOUS
<1> QED
  BY <1>3, <1>4, <1>5, CallStays

\* The innermost call comes to the next entry.
LEMMA ParsingAhead ==
  ASSUME Layout, TypeOK', Keeps, Spaced, Parsing, NEW c, c = Current, NEW t \in Calls, GoesOn(t),
         frames' = <<t>> \o Tail(frames), NEW a \in DOMAIN image, a # c, Ahead(a)
  PROVE  Ahead(a)'
<1>1. /\ TypeOK /\ Top = frames[1] /\ frames \in Seq(Calls) /\ frames # <<>> /\ DOMAIN frames = 1 .. Len(frames)
      /\ Len(frames) \in Nat /\ Len(frames) >= 1 /\ c \in DOMAIN image /\ c = Top.pos + Top.i
  BY AtEntry, TheTop DEF Layout
<1>2. frames'[1] = t /\ DOMAIN frames' = 1 .. Len(frames) /\ \A k \in 2 .. Len(frames) : frames'[k] = frames[k]
  BY <1>1, TopChanges
<1>3. PICK k \in DOMAIN frames : frames[k].pos + frames[k].i <= a /\ a < TableEnd(frames[k].owner)
  BY DEF Ahead
<1>4. a \in Nat /\ c \in Nat
  BY <1>1, EntryFields
<1>5. CASE k = 1
  <2>1. After(c) <= a
    BY <1>1, <1>3, <1>4, <1>5 DEF Spaced
  <2>2. t.owner = Top.owner /\ t.pos + t.i = After(c)
    BY TopAdvances DEF GoesOn
  <2>3. PICK w : w = Top.owner
    OBVIOUS
  <2>4. w \in Dirs /\ Ln(w) > 0
    BY <2>3, <1>1, AtEntry, TopTable
  <2>5. TableEnd(w)' = TableEnd(w)
    BY <1>1, <2>4, KeepsView
  <2>6. TableEnd(t.owner)' = TableEnd(w)'
    BY <2>2, <2>3 DEF TableEnd, Off, Ln
  <2>7. t.pos + t.i <= a /\ a < TableEnd(t.owner)' /\ 1 \in DOMAIN frames'
    BY <1>1, <1>2, <1>3, <1>5, <2>1, <2>2, <2>3, <2>5, <2>6
  <2> QED
    BY <1>2, <2>7, AheadBy
<1>6. CASE k # 1
  <2>1. k \in DOMAIN frames' /\ frames'[k] = frames[k]
    BY <1>1, <1>2, <1>6
  <2>2. PICK x : x = frames[k]
    OBVIOUS
  <2> QED
    BY <1>3, <1>4, <2>1, <2>2, CallStays
<1> QED
  BY <1>5, <1>6

\* It also does when it makes a call.
LEMMA OpeningAhead ==
  ASSUME Layout, TypeOK', Keeps, Spaced, Parsing, NEW c, c = Current, NEW t \in Calls, NEW f \in Calls, GoesOn(t),
         frames' = <<f>> \o (<<t>> \o Tail(frames)), NEW a \in DOMAIN image, a # c, Ahead(a)
  PROVE  Ahead(a)'
<1>1. /\ TypeOK /\ Top = frames[1] /\ frames \in Seq(Calls) /\ frames # <<>> /\ DOMAIN frames = 1 .. Len(frames)
      /\ Len(frames) \in Nat /\ Len(frames) >= 1 /\ c \in DOMAIN image /\ c = Top.pos + Top.i
  BY AtEntry, TheTop DEF Layout
<1>2. frames'[2] = t /\ DOMAIN frames' = 1 .. Len(frames) + 1 /\ \A k \in 3 .. Len(frames) + 1 : frames'[k] = frames[k - 1]
  BY <1>1, CallStarts
<1>3. PICK k \in DOMAIN frames : frames[k].pos + frames[k].i <= a /\ a < TableEnd(frames[k].owner)
  BY DEF Ahead
<1>4. a \in Nat /\ c \in Nat
  BY <1>1, EntryFields
<1>5. CASE k = 1
  <2>1. After(c) <= a
    BY <1>1, <1>3, <1>4, <1>5 DEF Spaced
  <2>2. t.owner = Top.owner /\ t.pos + t.i = After(c)
    BY TopAdvances DEF GoesOn
  <2>3. PICK w : w = Top.owner
    OBVIOUS
  <2>4. w \in Dirs /\ Ln(w) > 0
    BY <2>3, <1>1, AtEntry, TopTable
  <2>5. TableEnd(w)' = TableEnd(w)
    BY <1>1, <2>4, KeepsView
  <2>6. TableEnd(t.owner)' = TableEnd(w)'
    BY <2>2, <2>3 DEF TableEnd, Off, Ln
  <2>7. t.pos + t.i <= a /\ a < TableEnd(t.owner)' /\ 2 \in DOMAIN frames'
    BY <1>1, <1>2, <1>3, <1>5, <2>1, <2>2, <2>3, <2>5, <2>6
  <2> QED
    BY <1>2, <2>7, AheadBy
<1>6. CASE k # 1
  <2>1. PICK j : j = k + 1
    OBVIOUS
  <2>2. j \in DOMAIN frames' /\ frames'[j] = frames[k]
    <3>1. j \in 3 .. Len(frames) + 1 /\ j - 1 = k
      BY <1>1, <1>6, <2>1
    <3> QED
      BY <1>2, <3>1
  <2>3. PICK x : x = frames[k]
    OBVIOUS
  <2> QED
    BY <1>3, <1>4, <2>2, <2>3, CallStays
<1> QED
  BY <1>5, <1>6

\* The innermost call returns.
LEMMA CallReturns ==
  ASSUME NEW S, NEW s \in Seq(S), s # <<>>
  PROVE  LET r == Tail(s) IN
         DOMAIN r = 1 .. Len(s) - 1 /\ Len(r) = Len(s) - 1 /\ \A k \in 1 .. Len(s) - 1 : r[k] = s[k + 1]
<1>1. PICK r : r = Tail(s)
  OBVIOUS
<1>2. /\ r \in Seq(S) /\ Len(r) = Len(s) - 1 /\ \A k \in 1 .. Len(s) - 1 : r[k] = s[k + 1]
  BY <1>1, TopIs
<1>3. DOMAIN r = 1 .. Len(r)
  BY <1>2
<1> QED
  BY <1>1, <1>2, <1>3

\* A call that returns has come to the end.
LEMMA ReturnAhead ==
  ASSUME Layout, TypeOK', Return, NEW a \in Nat, Ahead(a)
  PROVE  Ahead(a)'
<1>1. /\ TypeOK /\ Top = frames[1] /\ frames \in Seq(Calls) /\ frames # <<>> /\ DOMAIN frames = 1 .. Len(frames)
      /\ Len(frames) \in Nat /\ Len(frames) >= 1 /\ Top.i = Length /\ frames' = Tail(frames)
  <2>1. frames # <<>> /\ TypeOK
    BY DEF Return, Layout, Running
  <2> QED
    BY <2>1, TheTop DEF Return
<1>2. Keeps
  BY SameKeeps DEF Return
<1>3. \A k \in 1 .. Len(frames) - 1 : k \in DOMAIN frames' /\ frames'[k] = frames[k + 1]
  BY <1>1, CallReturns
<1>4. PICK k \in DOMAIN frames : frames[k].pos + frames[k].i <= a /\ a < TableEnd(frames[k].owner)
  BY DEF Ahead
<1>5. k # 1
  <2>1. /\ TableEnd(Top.owner) = Top.pos + Length /\ Length \in Nat /\ Top.pos \in Nat
    BY <1>1, TopTable, CallsAre
  <2>2. ~(Top.pos + Top.i <= a /\ a < TableEnd(Top.owner))
    BY <1>1, <2>1
  <2> QED
    BY <1>1, <1>4, <2>2
<1>6. PICK j : j = k - 1
  OBVIOUS
<1>7. j \in DOMAIN frames' /\ frames'[j] = frames[k]
  <2>1. j \in 1 .. Len(frames) - 1 /\ j + 1 = k
    BY <1>1, <1>5, <1>6
  <2> QED
    BY <1>3, <2>1
<1>8. PICK x : x = frames[k]
  OBVIOUS
<1> QED
  BY <1>2, <1>4, <1>7, <1>8, CallStays

\* An entry that is written is before the call that writes it.
LEMMA AddingAhead ==
  ASSUME Layout, NEW e \in Entries, NEW top \in Calls, Adds(e, top), NEW p, p = Free
  PROVE  Ahead(p)' /\ \A a \in Nat : Ahead(a) => Ahead(a)'
<1>1. PICK o : o = Top.owner
  OBVIOUS
<1>2. Listing /\ Good /\ e.dataOffset = 0 /\ e.dataLength = 0 /\ Grows(e) /\ Free \notin DOMAIN image
  BY DEF Adds, WritesNext
<1>3. /\ frames' # <<>> /\ DOMAIN frames' = DOMAIN frames /\ SizeOf(e) \in Nat /\ SizeOf(e) >= 10 /\ p \in Nat /\ p = TableEnd(o)
      /\ o \in Dirs /\ Top' = frames'[1] /\ SameCall(Top', Top) /\ Dirs \subseteq DOMAIN image
      /\ \A a \in DOMAIN image : a # o => TableEnd(a)' = TableEnd(a)
      /\ TableEnd(o)' = p + SizeOf(e)
  BY <1>1, <1>2, GrowsView
<1>4. /\ TypeOK /\ Top = frames[1] /\ DOMAIN frames = 1 .. Len(frames) /\ 1 \in DOMAIN frames /\ Len(frames) \in Nat
      /\ frames # <<>>
  BY <1>2, TheTop DEF Layout, Listing
<1>5. \A k \in DOMAIN frames : k # 1 => frames'[k] = frames[k]
  BY <1>2, <1>4 DEF Grows
<1>6. ASSUME NEW k \in DOMAIN frames, NEW a \in Nat, frames[k].pos + frames[k].i <= a,
             IF frames[k].owner = o THEN a < p + SizeOf(e) ELSE a < TableEnd(frames[k].owner)
      PROVE  Ahead(a)'
  <2>1. PICK w, y : w = frames[k].owner /\ y = frames'[k]
    OBVIOUS
  <2>2. y.pos = frames[k].pos /\ y.i = frames[k].i /\ y.owner = w
    BY <1>3, <1>4, <1>5, <2>1 DEF SameCall
  <2>3. w \in DOMAIN image
    <3>1. w \in Dirs
      BY <2>1 DEF Layout, Owned, OwnerIsPlaced
    <3> QED
      BY <1>3, <3>1
  <2>4. a < TableEnd(w)'
    <3>1. CASE w = o
      <4>1. TableEnd(w)' = TableEnd(o)'
        BY <3>1 DEF TableEnd, Off, Ln
      <4> QED
        BY <1>3, <1>6, <2>1, <3>1, <4>1
    <3>2. CASE w # o
      BY <1>3, <1>6, <2>1, <2>3, <3>2
    <3> QED
      BY <3>1, <3>2
  <2>5. TableEnd(y.owner)' = TableEnd(w)'
    BY <2>2 DEF TableEnd, Off, Ln
  <2>6. k \in DOMAIN frames' /\ y.pos + y.i <= a /\ a < TableEnd(y.owner)'
    BY <1>3, <1>6, <2>2, <2>4, <2>5
  <2> QED
    BY <2>1, <2>6, AheadBy
<1>7. Ahead(p)'
  <2>1. Top.i = 0 /\ Top.pos \in Nat /\ Length \in Nat /\ p = Top.pos + Length
    BY <1>2, <1>4, TopTable, CallsAre DEF Layout, Standing, StandsAtEntry, Listing, Free
  <2>2. /\ frames[1].pos + frames[1].i <= p /\ frames[1].owner = o /\ p < p + SizeOf(e)
        /\ p \in Nat /\ 1 \in DOMAIN frames
    BY <1>1, <1>3, <1>4, <2>1
  <2> QED
    BY <1>6, <2>2
<1>8. ASSUME NEW a \in Nat, Ahead(a) PROVE Ahead(a)'
  <2>1. PICK k \in DOMAIN frames : frames[k].pos + frames[k].i <= a /\ a < TableEnd(frames[k].owner)
    BY <1>8 DEF Ahead
  <2>2. frames[k].owner = o => a < p + SizeOf(e)
    BY <1>3, <2>1
  <2> QED
    BY <1>6, <2>1, <2>2
<1> QED
  BY <1>7, <1>8

\* The calls below the innermost: they wait, and their tables are not its own.
LEMMA TheOthers ==
  ASSUME Layout, NEW k \in DOMAIN frames, k > 1, NEW w, w = frames[k].owner
  PROVE  w \in Dirs /\ w \in DOMAIN image /\ Ln(w) > 0 /\ w # Top.owner /\ frames # <<>>
<1>1. TypeOK /\ frames \in Seq(Calls)
  BY DEF Layout, TypeOK
<1>2. frames # <<>> /\ 1 \in DOMAIN frames
  BY <1>1
<1>3. Top = frames[1] /\ Off(Top.owner) = Top.pos
  BY <1>1, <1>2, TheTop, TopTable
<1>4. w \in Dirs /\ w \in DOMAIN image /\ Ln(w) > 0
  BY DEF Layout, Owned, OwnerIsPlaced, Nested, Waits, Dirs
<1>5. TableEnd(w) <= Top.pos
  BY <1>2, <1>3 DEF Layout, Apart, EndsBefore
<1>6. Off(w) \in Nat /\ Ln(w) \in Nat /\ TableEnd(w) = Off(w) + Ln(w)
  BY <1>1, <1>4, EntryFields
<1>7. w # Top.owner
  BY <1>3, <1>4, <1>5, <1>6
<1> QED
  BY <1>2, <1>4, <1>7

\* The calls are the same, and what they have passed to each other.
LEMMA PassedStays ==
  ASSUME Layout, Passed, DOMAIN frames' = DOMAIN frames, Len(frames') = Len(frames),
         \A k \in DOMAIN frames : /\ frames'[k].parentOffset = frames[k].parentOffset
                                  /\ frames'[k].parentSize = frames[k].parentSize
                                  /\ frames'[k].pos = frames[k].pos /\ frames'[k].owner = frames[k].owner,
         \A d \in Dirs : d # Top.owner => Ln(d)' = Ln(d)
  PROVE  Passed'
<1> SUFFICES ASSUME NEW k \in DOMAIN frames', k < Len(frames')
             PROVE  /\ frames'[k].parentOffset = frames'[k + 1].pos
                    /\ frames'[k].parentSize = Ln(frames[k + 1].owner)'
  BY DEF Passed
<1>1. k \in DOMAIN frames /\ k + 1 \in DOMAIN frames /\ k + 1 > 1 /\ k < Len(frames)
  <2>1. frames \in Seq(Calls)
    BY DEF Layout, TypeOK
  <2>2. DOMAIN frames = 1 .. Len(frames) /\ Len(frames) \in Nat
    BY <2>1
  <2> QED
    BY <2>2
<1>2. PICK w : w = frames[k + 1].owner
  OBVIOUS
<1>3. w \in Dirs /\ w # Top.owner
  BY <1>1, <1>2, TheOthers
<1>4. Ln(w)' = Ln(w)
  BY <1>3
<1>5. Ln(frames[k + 1].owner)' = Ln(w)'
  BY <1>1, <1>2 DEF Ln
<1>6. frames[k].parentOffset = frames[k + 1].pos /\ frames[k].parentSize = Ln(w)
  BY <1>1, <1>2 DEF Passed
<1> QED
  BY <1>1, <1>4, <1>5, <1>6

\* A call knows the table of the call that made it.
LEMMA StepPassed ==
  ASSUME Layout, Layout', Passed, Step
  PROVE  Passed'
<1>0. TypeOK /\ TypeOK' /\ frames \in Seq(Calls)
  BY DEF Layout, TypeOK
<1>1. ASSUME frames' = <<>> PROVE Passed'
  <2>1. DOMAIN frames' = {}
    BY <1>1, NoCall
  <2> QED
    BY <2>1 DEF Passed
<1>2. ASSUME NEW e \in Entries, NEW top \in Calls, Adds(e, top) PROVE Passed'
  <2>1. PICK p, o : p = Free /\ o = Top.owner
    OBVIOUS
  <2>2. /\ Listing /\ e.dataOffset = 0 /\ e.dataLength = 0 /\ Grows(e) /\ Free \notin DOMAIN image
    BY <1>2 DEF Adds, WritesNext
  <2>3. /\ DOMAIN frames' = DOMAIN frames /\ Len(frames') = Len(frames) /\ SameCall(Top', Top) /\ Top' = frames'[1]
        /\ Dirs \subseteq DOMAIN image /\ \A a \in DOMAIN image : a # o => Ln(a)' = Ln(a)
    BY <2>1, <2>2, GrowsView
  <2>4. Top = frames[1] /\ DOMAIN frames = 1 .. Len(frames)
    BY <1>0, <2>2, TheTop DEF Listing
  <2>5. \A k \in DOMAIN frames : k # 1 => frames'[k] = frames[k]
    BY <1>0, <2>2, <2>4 DEF Grows
  <2>6. \A k \in DOMAIN frames : /\ frames'[k].parentOffset = frames[k].parentOffset
                                 /\ frames'[k].parentSize = frames[k].parentSize
                                 /\ frames'[k].pos = frames[k].pos /\ frames'[k].owner = frames[k].owner
    BY <2>3, <2>4, <2>5 DEF SameCall
  <2> QED
    BY <2>1, <2>3, <2>6, PassedStays
<1>3. ASSUME frames # <<>>, NEW t \in Calls, frames' = <<t>> \o Tail(frames), Keeps,
             /\ t.owner = Top.owner /\ t.pos = Top.pos
             /\ t.parentOffset = Top.parentOffset /\ t.parentSize = Top.parentSize
      PROVE  Passed'
  <2>1. /\ frames'[1] = t /\ DOMAIN frames' = 1 .. Len(frames) /\ Len(frames') = Len(frames)
        /\ \A k \in 2 .. Len(frames) : frames'[k] = frames[k]
    BY <1>0, <1>3, TopChanges
  <2>2. Top = frames[1] /\ DOMAIN frames = 1 .. Len(frames) /\ Len(frames) \in Nat
    BY <1>0, <1>3, TheTop
  <2>3. \A k \in DOMAIN frames : k = 1 \/ k \in 2 .. Len(frames)
    BY <2>2
  <2>4. \A k \in DOMAIN frames : /\ frames'[k].parentOffset = frames[k].parentOffset
                                 /\ frames'[k].parentSize = frames[k].parentSize
                                 /\ frames'[k].pos = frames[k].pos /\ frames'[k].owner = frames[k].owner
    BY <1>3, <2>1, <2>2, <2>3
  <2>5. \A d \in Dirs : Ln(d)' = Ln(d)
    BY <1>3 DEF Keeps
  <2> QED
    BY <2>1, <2>2, <2>4, <2>5, PassedStays
<1>4. ASSUME NEW top \in Calls, Listing, SameCall(top, Top), frames' = <<top>> \o Tail(frames), UNCHANGED <<tree, image>>
      PROVE  Passed'
  BY <1>3, <1>4, SameKeeps DEF SameCall, Listing
<1>5. ASSUME NEW c \in Nat, NEW o \in Nat, NEW n \in Nat, NEW t \in Calls,
             Parsing, c = Current, c \notin Dirs, Sets(c, o, n), GoesOn(t), frames' = <<t>> \o Tail(frames)
      PROVE  Passed'
  <2>1. Keeps /\ frames # <<>>
    BY <1>5, SetsKeeps, AtEntry
  <2> QED
    BY <1>3, <1>5, <2>1, TopAdvances DEF GoesOn
<1>6. ASSUME NEW c \in Nat, NEW o \in Nat, NEW t \in Calls, NEW f \in Calls, Opens(c, o, t, f) PROVE Passed'
  <2>1. /\ Parsing /\ c = Current /\ Keeps /\ GoesOn(t) /\ frames' = <<f>> \o (<<t>> \o Tail(frames)) /\ frames # <<>>
        /\ f = Call(image[c].name, c, Top.pos, Length, o)
    BY <1>6, SetsKeeps, AtEntry DEF Opens
  <2>2. /\ frames'[1] = f /\ frames'[2] = t /\ DOMAIN frames' = 1 .. Len(frames) + 1 /\ Len(frames') = Len(frames) + 1
        /\ \A k \in 3 .. Len(frames) + 1 : frames'[k] = frames[k - 1]
    BY <1>0, <2>1, CallStarts
  <2>3. Top = frames[1] /\ DOMAIN frames = 1 .. Len(frames) /\ Len(frames) \in Nat /\ Length = Ln(Top.owner) /\ Top.owner \in Dirs
    BY <1>0, <2>1, TheTop, TopTable
  <2>4. /\ f.parentOffset = Top.pos /\ f.parentSize = Length /\ t.pos = Top.pos /\ t.owner = Top.owner
        /\ t.parentOffset = Top.parentOffset /\ t.parentSize = Top.parentSize
    BY <2>1, TopAdvances DEF Call, GoesOn
  <2>5. SUFFICES ASSUME NEW k \in DOMAIN frames', k < Len(frames')
                 PROVE  /\ frames'[k].parentOffset = frames'[k + 1].pos
                        /\ frames'[k].parentSize = Ln(frames[k + 1].owner)'
    BY DEF Passed
  <2>6. k \in 1 .. Len(frames)
    BY <2>2, <2>3, <2>5
  <2>7. CASE k = 1
    <3>1. PICK w : w = Top.owner
      OBVIOUS
    <3>2. Ln(w)' = Ln(w)
      BY <2>1, <2>3, <3>1 DEF Keeps
    <3>3. k + 1 = 2 /\ frames'[k] = f /\ frames'[k + 1] = t
      BY <2>2, <2>7
    <3>4. Ln(frames[k + 1].owner)' = Ln(w)'
      BY <2>4, <3>1, <3>3 DEF Ln
    <3> QED
      BY <2>3, <2>4, <3>1, <3>2, <3>3, <3>4
  <2>8. CASE k # 1
    <3>1. PICK j : j = k - 1
      OBVIOUS
    <3>2. j \in DOMAIN frames /\ j + 1 \in DOMAIN frames /\ j < Len(frames) /\ j + 1 > 1 /\ j + 1 = k
          /\ k + 1 \in 3 .. Len(frames) + 1 /\ (k + 1) - 1 = j + 1
      BY <2>3, <2>6, <2>8, <3>1
    <3>3. frames'[k + 1] = frames[j + 1]
      BY <2>2, <3>2
    <3>4. frames'[k].parentOffset = frames[j].parentOffset /\ frames'[k].parentSize = frames[j].parentSize
      <4>1. CASE k = 2
        <5>1. j = 1
          BY <3>2, <4>1
        <5> QED
          BY <2>2, <2>3, <2>4, <4>1, <5>1
      <4>2. CASE k # 2
        <5>1. k \in 3 .. Len(frames) + 1 /\ k - 1 = j
          BY <2>3, <2>6, <2>8, <3>1, <4>2
        <5> QED
          BY <2>2, <5>1
      <4> QED
        BY <4>1, <4>2
    <3>5. PICK w : w = frames[j + 1].owner
      OBVIOUS
    <3>6. Ln(w)' = Ln(w)
      BY <2>1, <3>2, <3>5 DEF Keeps, Layout, Owned, OwnerIsPlaced
    <3>7. Ln(frames[k + 1].owner)' = Ln(w)'
      BY <3>3, <3>5 DEF Ln
    <3> QED
      BY <3>2, <3>3, <3>4, <3>5, <3>6, <3>7 DEF Passed
  <2> QED
    BY <2>7, <2>8
<1>7. CASE Return
  <2>1. frames # <<>> /\ frames' = Tail(frames) /\ image' = image
    BY <1>7 DEF Return, Layout, Running
  <2>2. /\ DOMAIN frames' = 1 .. Len(frames) - 1 /\ Len(frames') = Len(frames) - 1
        /\ \A k \in 1 .. Len(frames) - 1 : frames'[k] = frames[k + 1]
    BY <1>0, <2>1, CallReturns
  <2>3. DOMAIN frames = 1 .. Len(frames) /\ Len(frames) \in Nat
    BY <1>0, <2>1, TheTop
  <2>4. SUFFICES ASSUME NEW k \in DOMAIN frames', k < Len(frames')
                 PROVE  /\ frames'[k].parentOffset = frames'[k + 1].pos
                        /\ frames'[k].parentSize = Ln(frames[k + 1].owner)'
    BY DEF Passed
  <2>5. PICK j : j = k + 1
    OBVIOUS
  <2>6. j \in DOMAIN frames /\ j < Len(frames) /\ frames'[k] = frames[j] /\ frames'[k + 1] = frames[j + 1]
    <3>1. k \in 1 .. Len(frames) - 1 /\ k + 1 \in 1 .. Len(frames) - 1
      BY <2>2, <2>3, <2>4
    <3> QED
      BY <2>2, <2>3, <2>5, <3>1
  <2>7. Ln(frames[k + 1].owner)' = Ln(frames[j + 1].owner)
    BY <2>1, <2>6 DEF Ln
  <2> QED
    BY <2>6, <2>7 DEF Passed
<1>8. CASE Stop("failed") \/ Refuses \/ WriteOutput
  <2>1. frames' = <<>>
    BY <1>8 DEF Stop, Refuses, WriteOutput, Layout, Running
  <2> QED
    BY <1>1, <2>1
<1> QED
  BY <1>2, <1>4, <1>5, <1>6, <1>7, <1>8 DEF Step, Skips, HasListed, SetsLink, SetsFile

-----------------------------------------------------------------------------
(***************************************************************************)
(* The tables, step by step.                                               *)
(***************************************************************************)
\* Only an entry that is written changes a table.
LEMMA KeepsOrAdds ==
  ASSUME Layout, Step
  PROVE  Keeps \/ \E e \in Entries, top \in Calls : Adds(e, top)
<1>1. ASSUME NEW n \in Nodes, NEW top \in Calls, Skips(n, top) PROVE Keeps
  BY <1>1, SameKeeps DEF Skips
<1>2. ASSUME NEW top \in Calls, HasListed(top) PROVE Keeps
  BY <1>2, SameKeeps DEF HasListed
<1>3. ASSUME NEW c \in Nat, NEW o \in Nat, NEW n \in Nat, NEW t \in Calls, SetsLink(c, o, n, t) PROVE Keeps
  BY <1>3, SetsKeeps DEF SetsLink
<1>4. ASSUME NEW c \in Nat, NEW o \in Nat, NEW n \in Nat, NEW t \in Calls, SetsFile(c, o, n, t) PROVE Keeps
  BY <1>4, SetsKeeps DEF SetsFile
<1>5. ASSUME NEW c \in Nat, NEW o \in Nat, NEW t \in Calls, NEW f \in Calls, Opens(c, o, t, f) PROVE Keeps
  BY <1>5, SetsKeeps DEF Opens
<1>6. CASE Stop("failed") \/ Refuses \/ Return \/ WriteOutput
  BY <1>6, SameKeeps DEF Stop, Refuses, Return, WriteOutput
<1> QED
  BY <1>1, <1>2, <1>3, <1>4, <1>5, <1>6 DEF Step

\* An entry that is written is in the table of the innermost call, and the
\* others are where they were.
LEMMA AddedInside ==
  ASSUME Layout, NEW e \in Entries, NEW top \in Calls, Adds(e, top),
         NEW p, p = Free, NEW o, o = Top.owner, NEW d \in Dirs', NEW a \in DOMAIN image', Inside(a, d)'
  PROVE  /\ d \in Dirs /\ (a = p => d = o)
         /\ a # p => a \in DOMAIN image /\ a < p /\ Inside(a, d)
<1>1. Listing /\ Good /\ e.dataOffset = 0 /\ e.dataLength = 0 /\ Grows(e) /\ Free \notin DOMAIN image
  BY DEF Adds, WritesNext
<1>2. /\ p \in Nat /\ p = TableEnd(o) /\ o \in Dirs /\ Dirs' \subseteq Dirs \union {p} /\ Dirs \subseteq DOMAIN image
      /\ \A b \in DOMAIN image : b # o => \A x \in Nat : Inside(x, b)' <=> Inside(x, b)
      /\ \A x \in Nat : Inside(x, o)' <=> Off(o) <= x /\ x < p + SizeOf(e)
      /\ Off(p)' = 0 /\ Ln(p)' = 0
  BY <1>1, GrowsView
<1>3. a \in Nat /\ DOMAIN image' = DOMAIN image \union {p} /\ TypeOK
  <2>1. DOMAIN image' = DOMAIN image \union {p} /\ TypeOK
    BY <1>1 DEF Grows, Layout
  <2> QED
    BY <1>2, <2>1, EntryFields
<1>4. d # p
  <2>1. ~Inside(a, p)'
    BY <1>2, <1>3 DEF Inside, TableEnd
  <2> QED
    BY <2>1
<1>5. d \in Dirs
  BY <1>2, <1>4
<1>6. a = p => d = o
  <2>1. SUFFICES ASSUME a = p, d # o PROVE FALSE
    OBVIOUS
  <2>2. Inside(Free, d)
    BY <1>2, <1>3, <1>5, <2>1
  <2> QED
    BY <1>1, <1>5, <2>1, <2>2, NoTableAtTheEnd
<1>7. ASSUME a # p PROVE a \in DOMAIN image /\ a < p /\ Inside(a, d)
  <2>1. a \in DOMAIN image
    BY <1>3, <1>7
  <2>2. a < p
    BY <1>1, <2>1, BeforeTheEnd DEF Free
  <2>3. Inside(a, d)
    <3>1. CASE d = o
      BY <1>2, <1>3, <2>2, <3>1 DEF Inside
    <3>2. CASE d # o
      <4>1. d \in DOMAIN image
        BY <1>2, <1>5
      <4>2. Inside(a, d)' <=> Inside(a, d)
        BY <1>2, <1>3, <3>2, <4>1
      <4> QED
        BY <4>2
    <3> QED
      BY <3>1, <3>2
  <2> QED
    BY <2>1, <2>2, <2>3
<1> QED
  BY <1>5, <1>6, <1>7

\* Tables stay in shape when an entry is written.
LEMMA AddsShape ==
  ASSUME Layout, Named, Seen, Shape, NEW e \in Entries, NEW top \in Calls, Adds(e, top)
  PROVE  Shape'
<1>1. PICK p, o : p = Free /\ o = Top.owner
  OBVIOUS
<1>2. Listing /\ Good /\ e.dataOffset = 0 /\ e.dataLength = 0 /\ Grows(e) /\ Free \notin DOMAIN image /\ WritesNext(e, top)
  BY DEF Adds, WritesNext
<1>3. /\ p \in Nat /\ o \in Dirs /\ Dirs' \subseteq Dirs \union {p} /\ Dirs \subseteq DOMAIN image
      /\ \A a \in DOMAIN image : /\ Off(a)' = Off(a) /\ After(a)' = After(a)
                                 /\ a # o => Ln(a)' = Ln(a)
      /\ Ln(p)' = 0
  BY <1>1, <1>2, GrowsView
<1>4. /\ DOMAIN image' = DOMAIN image \union {p} /\ image'[p] = e /\ p \notin DOMAIN image
      /\ \A a \in DOMAIN image : image'[a].name = image[a].name
  BY <1>1, <1>2 DEF Grows
<1>5. TypeOK /\ frames # <<>> /\ tree \in Trees /\ \A a \in DOMAIN image : a \in Nat /\ After(a) \in Nat
  BY <1>2, EntryFields DEF Layout, Listing, TypeOK
<1>6. ASSUME NEW a \in DOMAIN image PROVE a < p /\ After(a) <= p
  <2>1. a < p /\ (a # RootEntry => After(a) <= p)
    BY <1>1, <1>2, BeforeTheEnd DEF Free
  <2>2. CASE a = RootEntry
    <3>1. After(a) = 14
      BY <2>2 DEF Named, After, SizeOf, EntrySize, RootEntry
    <3>2. Top.pos >= HeaderSize /\ Top.pos \in Nat /\ Length \in Nat
      BY <1>5, TopTable, TheTop, CallsAre
    <3> QED
      BY <1>1, <2>1, <3>1, <3>2 DEF HeaderSize, Free
  <2> QED
    BY <2>1, <2>2
<1>7. Spaced'
  <2> SUFFICES ASSUME NEW a \in DOMAIN image', NEW b \in DOMAIN image', a < b PROVE After(a)' <= b
    BY DEF Spaced
  <2>1. a # p
    BY <1>3, <1>4, <1>5, <1>6
  <2>2. a \in DOMAIN image /\ After(a)' = After(a)
    BY <1>3, <1>4, <2>1
  <2> QED
    BY <1>4, <1>6, <2>2 DEF Shape, Spaced
<1>8. Forward'
  <2> SUFFICES ASSUME NEW d \in Dirs', Ln(d)' > 0 PROVE d < Off(d)'
    BY DEF Forward
  <2>1. d \in Dirs /\ d \in DOMAIN image
    BY <1>3
  <2>2. CASE d = o
    BY <1>1, <1>3, <1>5, <2>1, <2>2, TopTable
  <2>3. CASE d # o
    BY <1>3, <2>1, <2>3 DEF Shape, Forward
  <2> QED
    BY <2>2, <2>3
<1>9. NotAbove'
  <2> SUFFICES ASSUME NEW d \in Dirs', NEW a \in DOMAIN image', image'[a].name = Parent, Inside(a, d)' PROVE d # RootEntry
    BY DEF NotAbove
  <2>1. d \in Dirs /\ (a = p => d = o) /\ (a # p => a \in DOMAIN image /\ a < p /\ Inside(a, d))
    BY <1>1, AddedInside
  <2>2. CASE a = p
    <3>1. e.name = Parent /\ Self # Parent /\ Parent \notin Kept
      BY <1>4, <1>5, <2>2, TheTree, PaddedIs
    <3>2. Top.step = "parent"
      BY <1>2, <3>1 DEF WritesNext
    <3>3. Top.dir # Root
      BY <1>2, <3>2 DEF Seen, SeenBy
    <3> QED
      BY <1>1, <1>5, <2>1, <2>2, <3>3, RootCall
  <2>3. CASE a # p
    BY <1>4, <2>1, <2>3 DEF Shape, NotAbove
  <2> QED
    BY <2>2, <2>3
<1> QED
  BY <1>7, <1>8, <1>9 DEF Shape

\* No step brings the tables out of shape.
LEMMA StepShape ==
  ASSUME Layout, Layout', Named, Seen, Shape, Step
  PROVE  Shape'
<1>1. TypeOK /\ TypeOK'
  BY DEF Layout
<1> QED
  BY <1>1, KeepsOrAdds, KeepsShape, AddsShape

\* Names that a call has seen have entries.
LEMMA StepRecorded ==
  ASSUME Layout, Recorded, Step
  PROVE  Recorded'
<1>0. TypeOK /\ tree \in Trees /\ frames \in Seq(Calls)
  BY DEF Layout, TypeOK
<1>1. CASE ~Listing'
  BY <1>1 DEF Recorded
<1>2. ASSUME NEW e \in Entries, NEW top \in Calls, Adds(e, top) PROVE Recorded'
  <2>1. PICK p, o : p = Free /\ o = Top.owner
    OBVIOUS
  <2>2. /\ Listing /\ e.dataOffset = 0 /\ e.dataLength = 0 /\ Grows(e) /\ Free \notin DOMAIN image
        /\ WritesNext(e, top) /\ frames'[1] = top
    BY <1>2 DEF Adds, WritesNext
  <2>3. Top' = top
    BY <2>1, <2>2, GrowsView
  <2>4. /\ DOMAIN image' = DOMAIN image \union {p} /\ image'[p] = e /\ p \notin DOMAIN image /\ tree' = tree
        /\ \A a \in DOMAIN image : image'[a].name = image[a].name
    BY <2>1, <2>2 DEF Grows
  <2>5. Kept' = Kept
    BY <1>0, <2>4, SameTree
  <2>6. \A n \in top.listed : n \in Top.listed \/ n = e.name
    BY <2>2 DEF WritesNext
  <2>7. ASSUME NEW n \in top.listed \intersect Kept PROVE HasEntry(n)'
    <3>1. CASE n = e.name
      BY <2>4, <3>1 DEF HasEntry
    <3>2. CASE n \in Top.listed
      <4>1. HasEntry(n)
        BY <2>2, <2>7, <3>2 DEF Recorded
      <4> QED
        BY <2>4, <4>1 DEF HasEntry
    <3> QED
      BY <2>6, <2>7, <3>1, <3>2
  <2> QED
    BY <2>3, <2>5, <2>7 DEF Recorded
<1>3. ASSUME NEW m \in Nodes, NEW top \in Calls, Skips(m, top) PROVE Recorded'
  <2>1. /\ Listing /\ m \notin Kept /\ top.listed = Top.listed \union {m} /\ frames' = <<top>> \o Tail(frames)
        /\ image' = image /\ tree' = tree /\ frames # <<>>
    BY <1>3 DEF Skips, Listing
  <2>2. Top' = top /\ Kept' = Kept
    BY <1>0, <2>1, TopChanges, SameTree DEF Top
  <2>3. \A n \in top.listed \intersect Kept : HasEntry(n)'
    BY <2>1 DEF Recorded, HasEntry
  <2> QED
    BY <2>2, <2>3 DEF Recorded
<1>4. ASSUME NEW c \in Nat, NEW o \in Nat, NEW t \in Calls, NEW f \in Calls, Opens(c, o, t, f) PROVE Recorded'
  <2>1. f.listed = {} /\ frames' = <<f>> \o (<<t>> \o Tail(frames)) /\ frames # <<>>
    BY <1>4, AtEntry DEF Opens, Call
  <2>2. Top' = f
    BY <1>0, <2>1, CallStarts DEF Top
  <2> QED
    BY <2>1, <2>2 DEF Recorded
<1> QED
  BY <1>1, <1>2, <1>3, <1>4, StillListing

\* A table that no call has come to and none is listing is written.
LEMMA StepFull ==
  ASSUME Layout, Layout', Named, Seen, Spaced, Recorded, Full, Step
  PROVE  Full'
<1>0. TypeOK /\ TypeOK' /\ tree \in Trees /\ frames \in Seq(Calls)
  BY DEF Layout, TypeOK
<1>1. CASE ~Good'
  BY <1>1 DEF Full
<1>2. \A d \in Dirs : d \in DOMAIN image /\ d \in Nat /\ image[d].name \in Nodes
  BY <1>0, EntryFields DEF Dirs, IsLink
<1>3. ASSUME Keeps, NEW d \in Dirs, Complete(d) PROVE Complete(d)'
  <2>1. /\ tree' = tree /\ DOMAIN image' = DOMAIN image /\ \A a \in DOMAIN image : image'[a].name = image[a].name
        /\ Ln(d)' = Ln(d)
    BY <1>3 DEF Keeps
  <2> QED
    BY <1>0, <1>2, <1>3, <2>1, CompleteStays
<1>4. ASSUME Keeps PROVE Dirs' = Dirs
  BY <1>0, <1>4, KeepsView
<1>5. ASSUME NEW e \in Entries, NEW top \in Calls, Adds(e, top) PROVE Full'
  <2>1. PICK p, o : p = Free /\ o = Top.owner
    OBVIOUS
  <2>2. /\ Listing /\ Good /\ e.dataOffset = 0 /\ e.dataLength = 0 /\ Grows(e) /\ Free \notin DOMAIN image
    BY <1>5 DEF Adds, WritesNext
  <2>3. /\ Listing' /\ SameCall(Top', Top) /\ Dirs' \subseteq Dirs \union {p}
        /\ \A a \in DOMAIN image : a # o => Ln(a)' = Ln(a)
    BY <2>1, <2>2, GrowsView
  <2>4. /\ DOMAIN image \subseteq DOMAIN image' /\ tree' = tree
        /\ \A a \in DOMAIN image : image'[a].name = image[a].name
    BY <2>2 DEF Grows
  <2>5. Ahead(p)' /\ \A a \in Nat : Ahead(a) => Ahead(a)'
    BY <1>5, <2>1, AddingAhead
  <2> SUFFICES ASSUME NEW d \in Dirs' PROVE Ahead(d)' \/ (Listing' /\ d = Top'.owner) \/ Complete(d)'
    BY DEF Full
  <2>6. CASE d = p
    BY <2>5, <2>6
  <2>7. CASE d = o
    BY <2>1, <2>3, <2>7 DEF SameCall
  <2>8. CASE d # p /\ d # o
    <3>1. d \in Dirs /\ d \in DOMAIN image /\ d \in Nat /\ image[d].name \in Nodes
      BY <1>2, <2>3, <2>8
    <3>2. Ahead(d) \/ Complete(d)
      BY <2>1, <2>2, <2>8, <3>1 DEF Full
    <3>3. Complete(d) => Complete(d)'
      BY <1>0, <2>3, <2>4, <2>8, <3>1, CompleteStays
    <3> QED
      BY <2>5, <3>1, <3>2, <3>3
  <2> QED
    BY <2>6, <2>7, <2>8
<1>6. ASSUME NEW n \in Nodes, NEW top \in Calls, Skips(n, top) PROVE Full'
  <2>1. /\ Listing /\ Good /\ SameCall(top, Top) /\ frames' = <<top>> \o Tail(frames) /\ top.step = "list"
        /\ UNCHANGED <<tree, image>> /\ frames # <<>>
    BY <1>6 DEF Skips, Listing
  <2>2. Keeps
    BY <2>1, SameKeeps
  <2>3. Top' = top /\ frames' # <<>>
    BY <1>0, <2>1, TopChanges DEF Top
  <2>4. Listing' /\ Top'.owner = Top.owner
    BY <2>1, <2>3 DEF Listing, SameCall
  <2>5. \A a \in Nat : Ahead(a) => Ahead(a)'
    BY <1>0, <2>1, <2>2, ListingAhead
  <2>6. \A d \in Dirs : Ahead(d) \/ (Listing /\ d = Top.owner) \/ Complete(d)
    BY <2>1 DEF Full
  <2>7. \A d \in Dirs : Complete(d) => Complete(d)'
    BY <1>3, <2>2
  <2>8. \A d \in Dirs : Ahead(d)' \/ (Listing' /\ d = Top'.owner) \/ Complete(d)'
    BY <1>2, <2>1, <2>4, <2>5, <2>6, <2>7
  <2> QED
    BY <1>4, <2>2, <2>8 DEF Full
<1>7. ASSUME NEW top \in Calls, HasListed(top) PROVE Full'
  <2>1. /\ Listing /\ Good /\ SameCall(top, Top) /\ frames' = <<top>> \o Tail(frames) /\ Top.step = "list"
        /\ Children(Top.dir) = Top.listed /\ UNCHANGED <<tree, image>> /\ frames # <<>>
    BY <1>7 DEF HasListed, Listing
  <2>2. Keeps
    BY <2>1, SameKeeps
  <2>3. \A a \in Nat : Ahead(a) => Ahead(a)'
    BY <1>0, <2>1, <2>2, ListingAhead
  <2>4. PICK o : o = Top.owner
    OBVIOUS
  <2>5. o \in Dirs /\ image[o].name = Top.dir /\ Ln(o) = Length
    BY <1>0, <2>1, <2>4, TheTop, TopTable DEF Layout, Owned, OwnerIsPlaced
  <2>6. Length = Table(Top.dir)
    BY <2>1, TableListed
  <2>7. \A n \in Children(Top.dir) \intersect Kept : HasEntry(n)
    BY <2>1 DEF Recorded
  <2>8. Complete(o)
    BY <2>5, <2>6, <2>7 DEF Complete
  <2>9. \A d \in Dirs : Ahead(d) \/ Complete(d)
    BY <2>1, <2>4, <2>8 DEF Full
  <2>10. \A d \in Dirs : Complete(d) => Complete(d)'
    BY <1>3, <2>2
  <2>11. \A d \in Dirs : Ahead(d)' \/ Complete(d)'
    BY <1>2, <2>3, <2>9, <2>10
  <2> QED
    BY <1>4, <2>2, <2>11 DEF Full
<1>8. ASSUME NEW c \in Nat, NEW o \in Nat, NEW n \in Nat, NEW t \in Calls,
             Parsing, c = Current, c \notin Dirs, Sets(c, o, n), GoesOn(t), frames' = <<t>> \o Tail(frames)
      PROVE  Full'
  <2>1. Keeps /\ ~Listing /\ Good
    BY <1>8, SetsKeeps, AtEntry
  <2>2. \A a \in DOMAIN image : a # c /\ Ahead(a) => Ahead(a)'
    BY <1>0, <1>8, <2>1, ParsingAhead
  <2>3. \A d \in Dirs : Ahead(d) \/ Complete(d)
    BY <2>1 DEF Full
  <2>4. \A d \in Dirs : Complete(d) => Complete(d)'
    BY <1>3, <2>1
  <2>5. \A d \in Dirs : Ahead(d)' \/ Complete(d)'
    BY <1>2, <1>8, <2>2, <2>3, <2>4
  <2> QED
    BY <1>4, <2>1, <2>5 DEF Full
<1>9. ASSUME NEW c \in Nat, NEW o \in Nat, NEW t \in Calls, NEW f \in Calls, Opens(c, o, t, f) PROVE Full'
  <2>1. /\ Parsing /\ c = Current /\ Keeps /\ GoesOn(t) /\ frames' = <<f>> \o (<<t>> \o Tail(frames)) /\ frames # <<>>
        /\ f.owner = c /\ f.step = "self" /\ ~Listing /\ Good
    BY <1>9, SetsKeeps, AtEntry DEF Opens, Call
  <2>2. Top' = f /\ frames' # <<>>
    BY <1>0, <2>1, CallStarts DEF Top
  <2>3. Listing' /\ Top'.owner = c
    BY <2>1, <2>2 DEF Listing
  <2>4. \A a \in DOMAIN image : a # c /\ Ahead(a) => Ahead(a)'
    BY <1>0, <2>1, OpeningAhead
  <2>5. \A d \in Dirs : Ahead(d) \/ Complete(d)
    BY <2>1 DEF Full
  <2>6. \A d \in Dirs : Complete(d) => Complete(d)'
    BY <1>3, <2>1
  <2>7. \A d \in Dirs : Ahead(d)' \/ (Listing' /\ d = Top'.owner) \/ Complete(d)'
    BY <1>2, <2>3, <2>4, <2>5, <2>6
  <2> QED
    BY <1>4, <2>1, <2>7 DEF Full
<1>10. ASSUME ~Listing, Good, Keeps, \A a \in Nat : Ahead(a) => Ahead(a)' PROVE Full'
  <2>1. \A d \in Dirs : Ahead(d) \/ Complete(d)
    BY <1>10 DEF Full
  <2>2. \A d \in Dirs : Complete(d) => Complete(d)'
    BY <1>3, <1>10
  <2>3. \A d \in Dirs : Ahead(d)' \/ Complete(d)'
    BY <1>2, <1>10, <2>1, <2>2
  <2> QED
    BY <1>4, <1>10, <2>3 DEF Full
<1>11. CASE Return
  <2>1. ~Listing /\ Good /\ Keeps
    BY <1>11, ReturnsToParse, SameKeeps DEF Return, Good
  <2> QED
    BY <1>0, <1>10, <1>11, <2>1, ReturnAhead
<1>12. CASE WriteOutput
  <2>1. ~Listing /\ Good /\ Keeps
    BY <1>12, SameKeeps DEF WriteOutput, Layout, Running, Listing, Good
  <2>2. \A a \in Nat : Ahead(a) => Ahead(a)'
    BY <1>12 DEF WriteOutput, Ahead, TableEnd, Off, Ln
  <2> QED
    BY <1>10, <2>1, <2>2
<1>13. CASE Stop("failed") \/ Refuses
  BY <1>1, <1>13 DEF Stop, Refuses, Good
<1> QED
  BY <1>5, <1>6, <1>7, <1>8, <1>9, <1>11, <1>12, <1>13 DEF Step, SetsLink, SetsFile

-----------------------------------------------------------------------------
(***************************************************************************)
(* The data, step by step.                                                 *)
(***************************************************************************)
\* An entry of the table that is being listed has its data still to come.
LEMMA ListedIsAhead ==
  ASSUME Layout, Listing, NEW a \in Nat, Inside(a, Top.owner)
  PROVE  Ahead(a) /\ (a \in DOMAIN image => Ln(a) = 0)
<1>1. TypeOK /\ frames # <<>> /\ Top = frames[1] /\ 1 \in DOMAIN frames
  BY TheTop DEF Layout, Listing
<1>2. Top.i = 0 /\ Top.pos \in Nat /\ Off(Top.owner) = Top.pos
  BY <1>1, TopTable, CallsAre DEF Layout, Standing, StandsAtEntry, Listing
<1>3. Top.pos + Top.i <= a /\ a < TableEnd(Top.owner)
  BY <1>2 DEF Inside
<1>4. a \in DOMAIN image => Ln(a) = 0
  BY <1>1, <1>3 DEF Layout, Blank, BlankFrom
<1> QED
  BY <1>1, <1>3, <1>4 DEF Ahead

\* An entry that is written has its data to come; the others keep theirs.
LEMMA AddsPointing ==
  ASSUME Layout, Layout', Pointing, NEW e \in Entries, NEW top \in Calls, Adds(e, top)
  PROVE  Pointing'
<1>1. PICK p, o : p = Free /\ o = Top.owner
  OBVIOUS
<1>2. Listing /\ Good /\ e.dataOffset = 0 /\ e.dataLength = 0 /\ Grows(e) /\ Free \notin DOMAIN image
  BY DEF Adds, WritesNext
<1>3. /\ p \in Nat /\ o \in Dirs /\ Dirs \subseteq DOMAIN image
      /\ \A a \in DOMAIN image : Off(a)' = Off(a) /\ (a # o => Ln(a)' = Ln(a))
  BY <1>1, <1>2, GrowsView
<1>4. /\ DOMAIN image' = DOMAIN image \union {p} /\ tree' = tree /\ totalSize' = totalSize /\ contents' = contents
      /\ \A a \in DOMAIN image : image'[a].name = image[a].name /\ image'[a].type = image[a].type
  BY <1>1, <1>2 DEF Grows
<1>5. Ahead(p)' /\ \A a \in Nat : Ahead(a) => Ahead(a)'
  BY <1>1, AddingAhead
<1>6. \A a \in DOMAIN image : a \in Nat /\ Off(a) \in Nat /\ Ln(a) \in Nat
  BY EntryFields DEF Layout
<1>7. \A d \in Dirs', a \in DOMAIN image' : Inside(a, d)' =>
        d \in Dirs /\ (a = p => d = o) /\ (a # p => a \in DOMAIN image /\ a < p /\ Inside(a, d))
  BY <1>1, AddedInside
<1> SUFFICES ASSUME NEW a \in DOMAIN image', a # RootEntry, ~Ahead(a)' PROVE Points(a)'
  BY DEF Pointing
<1>8. a # p /\ a \in DOMAIN image /\ ~Ahead(a) /\ Points(a)
  BY <1>2, <1>4, <1>5, <1>6 DEF Pointing
<1>9. \A d \in Dirs' : Inside(a, d)' => d \in Dirs /\ Inside(a, d) /\ d # o
  <2> SUFFICES ASSUME NEW d \in Dirs', Inside(a, d)' PROVE d \in Dirs /\ Inside(a, d) /\ d # o
    OBVIOUS
  <2>1. d \in Dirs /\ Inside(a, d)
    BY <1>7, <1>8
  <2>2. d # o
    BY <1>1, <1>2, <1>6, <1>8, <2>1, ListedIsAhead
  <2> QED
    BY <2>1, <2>2
<1>10. image[a].name = Self => ToItself(a)'
  <2> SUFFICES ASSUME image[a].name = Self, NEW d \in Dirs', Inside(a, d)' PROVE Off(a)' = Off(d)' /\ Ln(a)' = Ln(d)'
    BY DEF ToItself
  <2>1. d \in Dirs /\ Inside(a, d) /\ d # o
    BY <1>9
  <2>2. a # o
    BY <1>3 DEF Dirs, IsLink
  <2>3. Off(a) = Off(d) /\ Ln(a) = Ln(d)
    BY <1>8, <2>1 DEF Points, ToItself
  <2> QED
    BY <1>3, <1>8, <2>1, <2>2, <2>3
<1>11. image[a].name = Parent => ToParent(a)'
  <2> SUFFICES ASSUME image[a].name = Parent, NEW d \in Dirs', NEW q \in Dirs', Inside(a, d)', Inside(d, q)'
               PROVE Off(a)' = Off(q)' /\ Ln(a)' = Ln(q)'
    BY DEF ToParent
  <2>1. d \in Dirs /\ Inside(a, d) /\ d # o /\ d \in DOMAIN image /\ d \in DOMAIN image'
    BY <1>3, <1>4, <1>9
  <2>2. d # p
    <3>1. p \notin DOMAIN image
      BY <1>1, <1>2
    <3> QED
      BY <2>1, <3>1
  <2>3. q \in Dirs /\ Inside(d, q)
    BY <1>7, <2>1, <2>2
  <2>4. q # o
    <3>1. Ln(d) > 0
      BY <1>6, <1>8, <2>1 DEF Inside, TableEnd
    <3> QED
      BY <1>1, <1>2, <1>6, <2>1, <2>3, <3>1, ListedIsAhead
  <2>5. a # o
    BY <1>3 DEF Dirs, IsLink
  <2>6. Off(a) = Off(q) /\ Ln(a) = Ln(q)
    BY <1>8, <2>1, <2>3 DEF Points, ToParent
  <2> QED
    BY <1>3, <1>8, <2>3, <2>4, <2>5, <2>6
<1>12. image[a].type = "file" => ToFile(a)'
  <2>1. SUFFICES ASSUME image[a].type = "file" PROVE ToFile(a)'
    OBVIOUS
  <2>2. a # o
    BY <1>3, <2>1 DEF Dirs
  <2>3. ToFile(a) /\ Off(a)' = Off(a) /\ Ln(a)' = Ln(a)
    BY <1>3, <1>8, <2>1, <2>2 DEF Points
  <2> QED
    BY <1>4, <1>8, <2>3 DEF ToFile
<1>13. a \in Reals' => Off(a)' % 4 = 0
  <2>1. a \in Reals' => a \in Reals
    BY <1>4, <1>8 DEF Reals, IsLink
  <2> QED
    BY <1>3, <1>8, <2>1 DEF Points
<1> QED
  BY <1>4, <1>8, <1>10, <1>11, <1>12, <1>13 DEF Points

\* A link gets the table of its directory, or of the one above.
LEMMA LinkPoints ==
  ASSUME Layout, Layout', Named, NotAbove, Passed, NEW c \in Nat, NEW o \in Nat, NEW n \in Nat, NEW t \in Calls,
         SetsLink(c, o, n, t)
  PROVE  Points(c)'
<1>1. TypeOK /\ TypeOK' /\ tree \in Trees /\ Self # Parent
  BY TheTree DEF Layout, TypeOK
<1>2. Parsing /\ c = Current /\ Keeps /\ Sets(c, o, n)
  BY SetsKeeps DEF SetsLink
<1>3. /\ c \in DOMAIN image /\ c # RootEntry /\ Inside(c, Top.owner) /\ frames # <<>>
      /\ Top.owner \in Dirs /\ Top.owner \in DOMAIN image /\ Off(Top.owner) = Top.pos /\ Length = Ln(Top.owner)
  BY <1>2, AtEntry, TopTable
<1>4. Off(c)' = o /\ Ln(c)' = n /\ image'[c].name = image[c].name /\ image'[c].type = image[c].type
  BY <1>2, <1>3 DEF Sets, Off, Ln
<1>5. PICK w : w = Top.owner
  OBVIOUS
<1>6. w \in Dirs /\ Inside(c, w) /\ \A d \in Dirs : Inside(c, d) => d = w
  BY <1>3, <1>5, InsideOne
<1>7. /\ Dirs' = Dirs /\ \A d \in Dirs : d \in Nat /\ Ln(d)' = Ln(d) /\ (Ln(d) > 0 => Off(d)' = Off(d))
      /\ \A d \in Dirs, a \in Nat : (Inside(a, d)' <=> Inside(a, d)) /\ (Inside(a, d) => Ln(d) > 0)
  BY <1>1, <1>2, KeepsView
<1>8. image[c].name \in {Self, Parent} /\ image[c].type = "dir"
  BY <1>3 DEF SetsLink, Named, NamedAs
<1>9. image[c].name = Self => ToItself(c)'
  <2> SUFFICES ASSUME image[c].name = Self, NEW d \in Dirs', Inside(c, d)' PROVE Off(c)' = Off(d)' /\ Ln(c)' = Ln(d)'
    BY DEF ToItself
  <2>1. d = w /\ Ln(w) > 0
    BY <1>6, <1>7
  <2>2. o = Off(w) /\ n = Ln(w)
    BY <1>1, <1>3, <1>5 DEF SetsLink
  <2> QED
    BY <1>4, <1>6, <1>7, <2>1, <2>2
<1>10. image[c].name = Parent => ToParent(c)'
  <2> SUFFICES ASSUME image[c].name = Parent, NEW d \in Dirs', NEW q \in Dirs', Inside(c, d)', Inside(d, q)'
               PROVE Off(c)' = Off(q)' /\ Ln(c)' = Ln(q)'
    BY DEF ToParent
  <2>1. d = w /\ d \in Nat /\ q \in Dirs /\ Inside(w, q) /\ Ln(q) > 0
    BY <1>6, <1>7
  <2>2. w # RootEntry
    BY <1>3, <1>6 DEF NotAbove
  <2>3. /\ Top = frames[1] /\ 1 \in DOMAIN frames /\ DOMAIN frames = 1 .. Len(frames) /\ Len(frames) \in Nat
    BY <1>1, <1>3, TheTop
  <2>4. 1 < Len(frames) /\ 2 \in DOMAIN frames
    BY <1>5, <2>2, <2>3 DEF Layout, Nested
  <2>5. PICK v : v = frames[2].owner
    OBVIOUS
  <2>6. Inside(w, v)
    <3>1. MadeBy(frames[1], frames[1 + 1])
      BY <2>3, <2>4 DEF Layout, Nested
    <3> QED
      BY <1>5, <2>3, <2>5, <3>1 DEF MadeBy
  <2>7. v \in Dirs /\ Off(v) = frames[2].pos
    BY <2>4, <2>5 DEF Layout, Owned, OwnerIsPlaced
  <2>8. q = v
    BY <2>1, <2>6, <2>7, InsideOne
  <2>9. Top.parentOffset = frames[2].pos /\ Top.parentSize = Ln(v)
    <3>1. frames[1].parentOffset = frames[1 + 1].pos /\ frames[1].parentSize = Ln(frames[1 + 1].owner)
      BY <2>3, <2>4 DEF Passed
    <3> QED
      BY <2>3, <2>5, <3>1
  <2>10. o = Off(q) /\ n = Ln(q)
    BY <1>1, <2>7, <2>8, <2>9 DEF SetsLink
  <2> QED
    BY <1>4, <1>7, <2>1, <2>10
<1>11. c \notin Reals'
  BY <1>4, <1>8 DEF Reals, IsLink
<1> QED
  BY <1>4, <1>8, <1>9, <1>10, <1>11 DEF Points

\* A file gets its bytes, behind what there is.
LEMMA FilePoints ==
  ASSUME Layout, Layout', NEW c \in Nat, NEW o \in Nat, NEW n \in Nat, NEW t \in Calls, SetsFile(c, o, n, t)
  PROVE  Points(c)'
<1>1. /\ tree \in Trees /\ totalSize \in Nat /\ c \in DOMAIN image /\ Sets(c, o, n) /\ tree' = tree
  BY AtEntry DEF Layout, TypeOK, SetsFile, Sets
<1>2. Off(c)' = o /\ Ln(c)' = n /\ image'[c].name = image[c].name /\ image'[c].type = image[c].type
  BY <1>1 DEF Sets, Off, Ln
<1>3. image[c].name # Self /\ image[c].name # Parent
  <2>1. image[c].name \in Nodes
    BY <1>1, PaddedIs DEF SetsFile
  <2> QED
    BY <1>1, <2>1, TheTree
<1>4. o % 4 = 0
  BY <1>1, AlignIs DEF SetsFile
<1>5. ToFile(c)'
  <2>1. o + n <= totalSize' /\ n = tree'.size[image'[c].name]
    BY <1>1, <1>2 DEF SetsFile
  <2>2. n > 0 => o \in DOMAIN contents' /\ contents'[o] = image'[c].name
    BY <1>2 DEF SetsFile, Written
  <2> QED
    BY <1>2, <2>1, <2>2 DEF ToFile
<1> QED
  BY <1>2, <1>3, <1>4, <1>5 DEF Points

\* Every entry that no call has still to come to has its data.
LEMMA StepPointing ==
  ASSUME Layout, Layout', Named, Spaced, NotAbove, Passed, Pointing, Step
  PROVE  Pointing'
<1>0. TypeOK /\ TypeOK' /\ frames \in Seq(Calls) /\ totalSize \in Nat /\ \A a \in DOMAIN image : a \in Nat
  BY EntryFields DEF Layout, TypeOK
<1>1. CASE ~Good'
  BY <1>1 DEF Pointing
<1>2. ASSUME Good, Keeps, image' = image, totalSize' >= totalSize, contents' = contents, \A a \in Nat : Ahead(a) => Ahead(a)'
      PROVE  Pointing'
  <2> SUFFICES ASSUME NEW a \in DOMAIN image', a # RootEntry, ~Ahead(a)' PROVE Points(a)'
    BY DEF Pointing
  <2>1. a \in DOMAIN image /\ Points(a)
    BY <1>0, <1>2 DEF Pointing
  <2>2. Off(a)' = Off(a) /\ Ln(a)' = Ln(a) /\ \A b \in DOMAIN contents : b \in DOMAIN contents' /\ contents'[b] = contents[b]
    BY <1>2 DEF Off, Ln
  <2> QED
    BY <1>0, <1>2, <2>1, <2>2, PointsStay
<1>3. ASSUME Good, Keeps, NEW c, NEW o, NEW n, Sets(c, o, n), totalSize' >= totalSize,
             \A b \in DOMAIN contents : b \in DOMAIN contents' /\ contents'[b] = contents[b],
             \A a \in DOMAIN image : a # c /\ Ahead(a) => Ahead(a)', Points(c)'
      PROVE  Pointing'
  <2> SUFFICES ASSUME NEW a \in DOMAIN image', a # RootEntry, ~Ahead(a)' PROVE Points(a)'
    BY DEF Pointing
  <2>1. CASE a = c
    BY <1>3, <2>1 DEF Points, ToItself, ToParent, ToFile, Off, Ln
  <2>2. CASE a # c
    <3>1. a \in DOMAIN image
      BY <1>3 DEF Sets
    <3>2. Points(a)
      BY <1>3, <2>2, <3>1 DEF Pointing
    <3>3. Off(a)' = Off(a) /\ Ln(a)' = Ln(a)
      BY <1>3, <2>2, <3>1 DEF Sets, Off, Ln
    <3> QED
      BY <1>0, <1>3, <3>1, <3>2, <3>3, PointsStay
  <2> QED
    BY <2>1, <2>2
<1>4. ASSUME NEW e \in Entries, NEW top \in Calls, Adds(e, top) PROVE Pointing'
  BY <1>4, AddsPointing
<1>5. ASSUME NEW top \in Calls, Listing, Good, SameCall(top, Top), frames' = <<top>> \o Tail(frames),
             UNCHANGED <<tree, image, contents>>, totalSize' >= totalSize
      PROVE  Pointing'
  <2>1. Keeps
    BY <1>5, SameKeeps
  <2>2. \A a \in Nat : Ahead(a) => Ahead(a)'
    BY <1>0, <1>5, <2>1, ListingAhead
  <2> QED
    BY <1>2, <1>5, <2>1, <2>2
<1>6. ASSUME NEW n \in Nodes, NEW top \in Calls, Skips(n, top) PROVE Pointing'
  BY <1>0, <1>5, <1>6 DEF Skips
<1>7. ASSUME NEW top \in Calls, HasListed(top) PROVE Pointing'
  <2>1. totalSize' >= totalSize
    <3>1. Length \in Nat
      BY <1>7, TopTable DEF HasListed, Listing
    <3> QED
      BY <1>0, <1>7, <3>1 DEF HasListed
  <2> QED
    BY <1>5, <1>7, <2>1 DEF HasListed
<1>8. ASSUME NEW c \in Nat, NEW o \in Nat, NEW n \in Nat, NEW t \in Calls, SetsLink(c, o, n, t) PROVE Pointing'
  <2>1. /\ Parsing /\ c = Current /\ Keeps /\ Sets(c, o, n) /\ GoesOn(t) /\ frames' = <<t>> \o Tail(frames) /\ Good
        /\ totalSize' = totalSize /\ contents' = contents
    BY <1>8, SetsKeeps, AtEntry DEF SetsLink
  <2>2. \A a \in DOMAIN image : a # c /\ Ahead(a) => Ahead(a)'
    BY <1>0, <2>1, ParsingAhead
  <2>3. Points(c)'
    BY <1>8, LinkPoints
  <2> QED
    BY <1>0, <1>3, <2>1, <2>2, <2>3
<1>9. ASSUME NEW c \in Nat, NEW o \in Nat, NEW n \in Nat, NEW t \in Calls, SetsFile(c, o, n, t) PROVE Pointing'
  <2>1. /\ Parsing /\ c = Current /\ Keeps /\ Sets(c, o, n) /\ GoesOn(t) /\ frames' = <<t>> \o Tail(frames) /\ Good
        /\ totalSize' = o + n /\ o = Align(totalSize) /\ n = tree.size[image[c].name]
    BY <1>9, SetsKeeps, AtEntry DEF SetsFile
  <2>2. \A a \in DOMAIN image : a # c /\ Ahead(a) => Ahead(a)'
    BY <1>0, <2>1, ParsingAhead
  <2>3. Points(c)'
    BY <1>9, FilePoints
  <2>4. o >= totalSize /\ totalSize' >= totalSize
    BY <1>0, <2>1, AlignIs, SMTT(30)
  <2>5. ASSUME NEW b \in DOMAIN contents PROVE b \in DOMAIN contents' /\ contents'[b] = contents[b]
    <3>1. FileEnd(b) <= totalSize /\ b < FileEnd(b) /\ b \in Nat /\ FileEnd(b) \in Nat
      <4>1. contents[b] \in Nodes /\ b \in Nat /\ tree \in Trees
        BY <1>0 DEF TypeOK
      <4>2. FileEnd(b) \in Nat
        BY <4>1, TheTree DEF FileEnd
      <4> QED
        BY <2>1, <4>1, <4>2 DEF Layout, Bounded, Ended
    <3>2. b # o
      BY <1>0, <2>4, <3>1
    <3> QED
      BY <1>9, <3>2 DEF SetsFile, Written
  <2> QED
    BY <1>3, <2>1, <2>2, <2>3, <2>4, <2>5
<1>10. ASSUME NEW c \in Nat, NEW o \in Nat, NEW t \in Calls, NEW f \in Calls, Opens(c, o, t, f) PROVE Pointing'
  <2>1. /\ Parsing /\ c = Current /\ Keeps /\ Sets(c, o, 0) /\ GoesOn(t) /\ frames' = <<f>> \o (<<t>> \o Tail(frames)) /\ Good
        /\ totalSize' = o /\ o = Align(totalSize) /\ contents' = contents /\ c \in Dirs /\ c \in DOMAIN image
    BY <1>10, SetsKeeps, AtEntry DEF Opens
  <2>2. \A a \in DOMAIN image : a # c /\ Ahead(a) => Ahead(a)'
    BY <1>0, <2>1, OpeningAhead
  <2>3. o >= totalSize /\ o % 4 = 0
    BY <1>0, <2>1, AlignIs
  <2>4. image'[c].name # Self /\ image'[c].name # Parent /\ image'[c].type = "dir" /\ Off(c)' = o
    BY <2>1 DEF Sets, Off, Dirs, IsLink
  <2>5. Points(c)'
    BY <2>3, <2>4 DEF Points
  <2> QED
    BY <1>3, <2>1, <2>2, <2>3, <2>5
<1>11. CASE Return
  <2>1. Good /\ Keeps /\ image' = image /\ totalSize' = totalSize /\ contents' = contents
    BY <1>11, SameKeeps DEF Return, Good
  <2> QED
    BY <1>0, <1>2, <1>11, <2>1, ReturnAhead
<1>12. CASE WriteOutput
  <2>1. Good /\ Keeps /\ image' = image /\ totalSize' = totalSize /\ contents' = contents
    BY <1>12, SameKeeps DEF WriteOutput, Good
  <2>2. \A a \in Nat : Ahead(a) => Ahead(a)'
    BY <1>12 DEF WriteOutput, Ahead, TableEnd, Off, Ln
  <2> QED
    BY <1>0, <1>2, <2>1, <2>2
<1>13. CASE Stop("failed") \/ Refuses
  BY <1>1, <1>13 DEF Stop, Refuses, Good
<1> QED
  BY <1>4, <1>6, <1>7, <1>8, <1>9, <1>10, <1>11, <1>12, <1>13 DEF Step

\* Before anything is written only the root has an entry.
LEMMA InitFaithful == ASSUME Init PROVE Faithful
<1>1. /\ DOMAIN image = {RootEntry} /\ image[RootEntry].name = Root
      /\ image[RootEntry].dataOffset = 14 /\ image[RootEntry].dataLength = 0
  <2>1. image = [at \in {RootEntry} |-> [EntryAt(Root, "dir", 0) EXCEPT !.dataOffset = HeaderSize]]
    BY DEF Init
  <2>2. DOMAIN image = {RootEntry} /\ image[RootEntry] = [EntryAt(Root, "dir", 0) EXCEPT !.dataOffset = HeaderSize]
    BY <2>1
  <2> QED
    BY <2>2 DEF EntryAt, HeaderSize
<1>2. PICK c : c = Call(Root, RootEntry, 0, 0, HeaderSize)
  OBVIOUS
<1>3. frames = <<c>> /\ c.owner = RootEntry /\ c.listed = {} /\ c.step = "self"
  BY <1>2 DEF Init, Call
<1>4. frames # <<>> /\ Top = c /\ Len(frames) = 1 /\ DOMAIN frames = {1}
  BY <1>3 DEF Top
<1>5. Dirs \subseteq {RootEntry} /\ RootEntry \in Nat
  BY <1>1 DEF Dirs, RootEntry
<1>6. Spaced /\ Forward /\ NotAbove
  <2>1. Spaced
    BY <1>1, <1>5 DEF Spaced
  <2>2. Forward
    BY <1>1, <1>5 DEF Forward, Ln
  <2>3. NotAbove
    <3>1. ~Inside(RootEntry, RootEntry)
      BY <1>1 DEF Inside, TableEnd, Off, Ln, RootEntry
    <3> QED
      BY <1>1, <1>5, <3>1 DEF NotAbove
  <2> QED
    BY <2>1, <2>2, <2>3
<1>7. Passed
  BY <1>4 DEF Passed
<1>8. Recorded
  BY <1>3, <1>4 DEF Recorded
<1>9. Full
  BY <1>3, <1>4, <1>5 DEF Full, Listing
<1>10. Pointing
  BY <1>1 DEF Pointing
<1> QED
  BY <1>6, <1>7, <1>8, <1>9, <1>10 DEF Faithful, Shape

\* Nothing that happens changes the tree in the image.
LEMMA StutterFaithful == ASSUME Layout, Layout', Faithful, UNCHANGED vars PROVE Faithful'
<1>0. TypeOK /\ TypeOK' /\ tree \in Trees /\ totalSize \in Nat
  BY DEF Layout, TypeOK
<1>1. Keeps /\ Dirs' = Dirs
  <2>1. Keeps
    BY SameKeeps DEF vars
  <2> QED
    BY <1>0, <2>1, KeepsView
<1>2. Shape'
  BY <1>0, <1>1, KeepsShape DEF Faithful
<1>3. frames' = frames /\ Top' = Top /\ Listing' = Listing /\ Good' = Good /\ totalSize' = totalSize /\ contents' = contents
      /\ image' = image /\ Kept' = Kept
  BY DEF vars, Top, Listing, Good, Kept
<1>4. Passed'
  BY <1>3 DEF Faithful, Passed, Ln
<1>5. Recorded'
  BY <1>3 DEF Faithful, Recorded, HasEntry
<1>6. \A a : Ahead(a)' = Ahead(a)
  BY <1>3 DEF Ahead, TableEnd, Off, Ln
<1>7. Full'
  <2>1. \A d \in Dirs : Complete(d) => Complete(d)'
    <3>1. \A d \in Dirs : d \in DOMAIN image /\ image[d].name \in Nodes
      BY <1>0, EntryFields DEF Dirs, IsLink
    <3>2. tree' = tree /\ \A d \in Dirs : Ln(d)' = Ln(d)
      BY <1>1 DEF Keeps
    <3> QED
      BY <1>0, <1>3, <3>1, <3>2, CompleteStays
  <2> QED
    BY <1>1, <1>3, <1>6, <2>1 DEF Faithful, Full
<1>8. Pointing'
  <2>1. \A a \in DOMAIN image : Points(a) => Points(a)'
    <3>1. totalSize' >= totalSize
      BY <1>0, <1>3
    <3>2. \A a \in DOMAIN image : Off(a)' = Off(a) /\ Ln(a)' = Ln(a)
      BY <1>3 DEF Off, Ln
    <3> QED
      BY <1>0, <1>1, <1>3, <3>1, <3>2, PointsStay
  <2> QED
    BY <1>3, <1>6, <2>1 DEF Faithful, Pointing
<1> QED
  BY <1>2, <1>4, <1>5, <1>7, <1>8 DEF Faithful

\* At every moment, the tables that are written hold what the tree says, and
\* the entries the calls have passed lead where they should.
THEOREM FaithfulHolds == Spec => []Faithful
<1>1. Init => Faithful
  BY InitFaithful
<1>2. Layout /\ Layout' /\ Named /\ Accounts /\ Faithful /\ [Next]_vars => Faithful'
  <2>1. ASSUME Layout, Layout', Named, Accounts, Faithful, Next PROVE Faithful'
    <3>1. Step
      BY <2>1, StepIs
    <3>2. Shape /\ Spaced /\ NotAbove /\ Passed /\ Recorded /\ Full /\ Pointing /\ Seen
      BY <2>1 DEF Faithful, Shape, Accounts
    <3>3. Shape' /\ Passed' /\ Recorded' /\ Full' /\ Pointing'
      BY <2>1, <3>1, <3>2, StepShape, StepPassed, StepRecorded, StepFull, StepPointing
    <3> QED
      BY <3>3 DEF Faithful
  <2> QED
    BY <2>1, StutterFaithful
<1> QED
  BY <1>1, <1>2, LayoutHolds, AccountsHold, PTL DEF Spec

\* Whenever main writes its output, what dumpDirectory reads in it is the
\* tree: each kept file and directory once, in its directory, with its own
\* data; `.' leads to the directory itself and `..' to the one above.
THEOREM ImageIsRight == Spec => []ImageIsTheTree
<1>1. Layout /\ Named /\ Accounts /\ Faithful => ImageIsTheTree
  <2>1. CASE status \in {"compiled", "written"}
    BY <2>1, ImageIs DEF Accounts
  <2>2. CASE status \notin {"compiled", "written"}
    BY <2>2 DEF ImageIsTheTree
  <2> QED
    BY <2>1, <2>2
<1> QED
  BY <1>1, LayoutHolds, AccountsHold, FaithfulHolds, PTL
=============================================================================
