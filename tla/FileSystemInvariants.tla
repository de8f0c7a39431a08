------------------------ MODULE FileSystemInvariants ------------------------
(* What the proofs of FileSystem speak of: the inductive invariants DiskInv   *)
(* (types and names) and StoreInv (sectors), and below them what the loops of *)
(* an allocation, a directory that is written, and each call leave on a disk. *)
(* Much of it quantifies over all sectors, naturals or functions and is for   *)
(* the prover only.                                                           *)
EXTENDS FileSystem

(* f is the results of n rounds of F, from g on.                              *)
Recurs(f, g, n, F) == f[0] = g /\ \A i \in 1 .. n : f[i] = F[<<f[i - 1], i>>]

(* The loop of an allocation, round by round. *)
IndirectTurn(n, h, i) == Ask(IndirectAllocate, n, h, i)

IndirectBelow(g, limit, n) == AllocateBelow(IndirectAllocate, g, limit, n)

IndirectStays(S, limit, n) == \A h \in S, i \in 1 .. limit : IndirectTurn(n, h, i) \in S

IndirectRun(S, g, limit, n) ==
  \E f \in [0 .. limit -> S] :
    /\ f[0] = g
    /\ \A i \in 1 .. limit : f[i] = IndirectTurn(n, f[i - 1], i)
    /\ IndirectBelow(g, limit, n) = f[limit]

DoubleTurn(n, h, i) == Ask(DoubleAllocate, n, h, i)

DoubleBelow(g, limit, n) == AllocateBelow(DoubleAllocate, g, limit, n)

DoubleStays(S, limit, n) == \A h \in S, i \in 1 .. limit : DoubleTurn(n, h, i) \in S

DoubleRun(S, g, limit, n) ==
  \E f \in [0 .. limit -> S] :
    /\ f[0] = g
    /\ \A i \in 1 .. limit : f[i] = DoubleTurn(n, f[i - 1], i)
    /\ DoubleBelow(g, limit, n) = f[limit]

(* The state of an allocation, and the states of its loops: no block is full  *)
(* beyond its end and no sector is given back.                                *)
Allocation == [map : SUBSET Sector, block : [Sector -> Seq(Sector)], sectors : Seq(Sector),
               count : Int, dead : BOOLEAN]

BlocksFit(block) == \A s \in Sector : Len(block[s]) <= MaxBlocksNum

Going(map, limit) ==
  {h \in Allocation : BlocksFit(h.block) /\ Len(h.sectors) <= limit /\ map \subseteq h.map}

(* A disk as TypeOK wants it; a header in memory may have one pointer more.   *)
Disk ==
  {d \in [used : SUBSET Sector, header : [Sector -> FileHeader],
          block : [Sector -> Seq(Sector)],
          table : [Sector -> Seq(Entry \cup {FreeEntry})], lost : SUBSET Sector] :
     BlocksFit(d.block) /\ \A s \in Sector : Len(d.header[s].sectors) < NumDirect}

Table == Seq(Entry \cup {FreeEntry})

OpenHeader == {h \in FileHeader : Len(h.sectors) <= NumDirect}

(* What an allocation gives for a disk with this map. *)
Granted(map, a) ==
  /\ a.ok \in BOOLEAN /\ a.dead \in BOOLEAN /\ (a.ok => ~a.dead)
  /\ a.map \in SUBSET Sector /\ map \subseteq a.map
  /\ a.block \in [Sector -> Seq(Sector)] /\ BlocksFit(a.block)
  /\ a.header \in OpenHeader

(* What writes to files leave: "w" is a file being written. *)
Writing == [disk : Disk, header : OpenHeader, dead : BOOLEAN]

(* No sector becomes free and no table changes. *)
Keeps(d, e) == d.used \subseteq e.used /\ d.table = e.table

(* A directory is written: first the number of its entries, for which it is    *)
(* made longer, then the entries.  An ASSERT may stop this anywhere.          *)
Stored(d, s, t, w) ==
  /\ w \in Writing
  /\ d.used \subseteq w.disk.used
  /\ IF w.dead
     THEN \/ w.disk.table = d.table
          \/ w.disk.table = [d.table EXCEPT ![s] = ExpandSize(d.table[s], Len(t))]
     ELSE w.disk.table = [d.table EXCEPT ![s] = t]

(* The part of a table that a directory keeps in memory. *)
Visible(t) == IF Len(t) > 2 * NumDirEntries THEN SubSeq(t, 1, 2 * NumDirEntries) ELSE t

(* No name stands in a table twice. *)
OneEach(t) ==
  \A i, j \in 1 .. Len(t) : t[i].inUse /\ t[j].inUse /\ t[i].name = t[j].name => i = j

(* Any path that may be looked up.                                            *)
AnyPath == Seq(Name \cup {SwapName}) \ {<<>>}

(* The loop of parse_path: where it is after n names. *)
NextDirectories(d, path, T, i) == UNION {Subdirectories(Fetch(d, s), path[i]) : s \in T}

Walks(S, n, d, path, first) ==
  {dir \in [0 .. n -> S] :
     /\ dir[0] = first
     /\ \A i \in 1 .. n : dir[i] = NextDirectories(d, path, dir[i - 1], i)}

(* Where no directory has a name twice, a path stands for one thing at most. *)
UniqueNames(d) == \A s \in Sector : OneEach(d.table[s])

(* The tables when the one of a new sector is made, and what a call that puts *)
(* an entry into a directory leaves.                                          *)
Fresh(d, sector) == [d.table EXCEPT ![sector] = NewTable]

Result == [disk : Disk, ok : BOOLEAN, dead : BOOLEAN]

Entered(d, dir, entry, r) ==
  /\ r \in Result
  /\ d.used \subseteq r.disk.used
  /\ \/ /\ r.ok /\ ~r.dead /\ entry.sector \in r.disk.used
        /\ r.disk.table = [Fresh(d, entry.sector) EXCEPT ![dir] = AddEntry(Fetch(d, dir), entry)]
     \/ ~r.ok /\ r.disk = d
     \/ ~r.ok /\ r.dead /\ r.disk.table = Fresh(d, entry.sector)
     \/ /\ ~r.ok /\ r.dead
        /\ \E n \in Nat :
             r.disk.table = [Fresh(d, entry.sector) EXCEPT
                               ![dir] = ExpandSize(Fresh(d, entry.sector)[dir], n)]

(* The entry of a new file or directory.                                      *)
NewEntry(d, path, isDirectory) ==
  [inUse |-> TRUE, name |-> Last(path), sector |-> FindClear(d.used), isDirectory |-> isDirectory]

(* The table of a new directory. *)
DotEntry(name, s) == [inUse |-> TRUE, name |-> name, sector |-> s, isDirectory |-> TRUE]

DotTable(s, parent) == AddEntry(AddEntry(NewTable, DotEntry(".", s)), DotEntry("..", parent))

(* The sectors that the deletion of a file frees.                             *)
Freed(d, sector) == Sectors(d, d.header[sector]) \cup {sector}

(* What a removal leaves of a disk d.                                         *)
Removed(d, dir, entry, r) ==
  /\ r \in Result /\ r.ok = ~r.dead
  /\ Deallocate(d, entry.sector).used \subseteq r.disk.used
  /\ \E w : /\ Stored(Deallocate(d, entry.sector), dir, Without(Fetch(d, dir), entry), w)
            /\ r.disk = w.disk /\ r.dead = w.dead

(* The path of the swap file.                                                 *)
Swap == <<SwapName>>

(* A disk without a name.                                                     *)
NoNames(d) == \A s \in Sector : \A x : Entries(Visible(d.table[s]), x) = {}

(* The inductive invariant. *)
DiskInv ==
  /\ machine \in {"boot", "copy", "run", "halted"}
  /\ disk \in Disk
  /\ UniqueNames(disk)

(* No directory has a name twice, so that removing a name removes what was    *)
(* created under it: FindIndex takes the first entry it finds (directory.cc). *)
NamesUnique == UniqueNames(disk)

(* The pointers of all files.                                                 *)
AllPointers(d) == UNION {PointersOf(d, file) : file \in Files(d)}

(* The file that holds the directory a path is looked up in.                  *)
DirectoryFile(path) == IF Len(path) = 1 THEN <<"root">> ELSE Front(path)

(* A call that changes the entries of the name p only, in the directory it is  *)
(* looked up in, changes what p stands for and no other path.                 *)
Elsewhere(d, e, p) ==
  \A q \in Path \ {p} : \A s \in ParsePath(d, q) :
    Entries(Fetch(e, s), Last(q)) = Entries(Fetch(d, s), Last(q))

NoDirectory(d, p) == \A x \in Find(d, p) : ~x.isDirectory

EmptyBelow(d, e, p) ==
  \A s \in ParsePath(d, p) : \A x \in Entries(Fetch(e, s), Last(p)) :
    x.isDirectory => \A name \in Name : Entries(Fetch(e, x.sector), name) = {}

SameFinds(d, e, p) ==
  /\ \A q \in Path \ {p} : Find(e, q) = Find(d, q)
  /\ p \in Path => ParsePath(e, p) = ParsePath(d, p)

(* Where directories lie: in used sectors, no two in the same one, and in none *)
(* of the sectors that the removal of a file sets free.                       *)
AnyFile == Path \cup {Swap}

PlacedIn(d) == \A q \in AnyFile : ParsePath(d, q) \subseteq d.used

ApartFrom(d, p) ==
  \A q \in Path \ {p} : Last(q) = Last(p) => ParsePath(d, q) \cap ParsePath(d, p) = {}

FreedApart(d, p) ==
  \A e \in Find(d, p) : ~e.isDirectory =>
    \A q \in AnyFile : ParsePath(d, q) \cap Freed(d, e.sector) = {}

(* Create and Make_Dir give the directory of the path an entry at most, and    *)
(* what the entry points to has no names below it.                            *)
AnyName == Name \cup {SwapName}

Gains(d, e, dir, entry) ==
  /\ \A s \in d.used \ {dir} : \A x \in AnyName : Entries(Fetch(e, s), x) = Entries(Fetch(d, s), x)
  /\ \A x \in AnyName \ {entry.name} : Entries(Fetch(e, dir), x) = Entries(Fetch(d, dir), x)
  /\ Entries(Fetch(e, dir), entry.name) \subseteq {entry}
  /\ \A x \in AnyName : Entries(Fetch(e, entry.sector), x) = {}

Appears(d, e, p, entry) ==
  /\ \A q \in Path \ {p} : Find(e, q) = Find(d, q)
  /\ p \in Path =>
       \/ Find(e, p) = Find(d, p)
       \/ Find(d, p) = {} /\ ParsePath(d, p) # {} /\ Find(e, p) = {entry}

(* Remove takes the entry of a file out of its directory.                     *)
Disappears(d, e, p) ==
  /\ \A q \in Path \ {p} : ParsePath(e, q) = ParsePath(d, q) /\ Find(e, q) = Find(d, q)
  /\ p \in Path =>
       \/ Find(e, p) = Find(d, p)
       \/ Find(e, p) = {} /\ \E x \in Find(d, p) : ~x.isDirectory

(* The tree of names that a disk stands for.                                  *)
TreeOf(d) == [path \in Path |-> Kind(d, path)]

Added(t, u, p, kind) ==
  /\ t[p] = "none"
  /\ Len(p) > 1 => t[Front(p)] = "directory"
  /\ u = [t EXCEPT ![p] = kind]

Deleted(t, u, p) == t[p] = "file" /\ u = [t EXCEPT ![p] = "none"]

(* A round that makes a new block: c is its sector, t what it holds then. *)
Makes(h, c, t, r) ==
  /\ r.sectors = Append(h.sectors, c) /\ r.block = [h.block EXCEPT ![c] = t]
  /\ r.map = h.map \cup {c} \cup Range(t) /\ Range(t) \cap (h.map \cup {c}) = {} /\ ~r.dead

(* A new block is taken: it is in the map, empty and the last of the list.    *)
Made(h, c) ==
  [h EXCEPT !.map = @ \cup {c}, !.block[c] = <<>>, !.sectors = Append(@, c)]

(* What hangs below a list of sectors: one level, and the whole of it. *)
Twig(block, S) == UNION {Range(block[s]) : s \in S}

Index(block, q) == Range(q) \cup Twig(block, Range(q))

Tree(block, q) == Index(block, q) \cup Twig(block, Index(block, q))

(* The blocks of U are what they were.                                        *)
Alike(b, c, U) == \A s \in U : c[s] = b[s]

(* The k-th sector below a list of index blocks is there. *)
Reaches(block, q, k) ==
  /\ k \div MaxBlocksNum < Len(q)
  /\ k % MaxBlocksNum < Len(block[q[(k \div MaxBlocksNum) + 1]])

(* The loop over the blocks below a new block, from the map m and the blocks b, after i rounds. *)
Stem(m, b, h) ==
  /\ Alike(b, h.block, m)
  /\ h.map \ m = Range(h.sectors) \cup Twig(h.block, Range(h.sectors))

(* As long as nothing failed, every block but the last is full and every      *)
(* sector asked for is reached.                                               *)
Filling(n, h) ==
  /\ h.count \in 0 .. n
  /\ h.count < n => h.count = MaxBlocksNum * Len(h.sectors)
  /\ \A k \in 0 .. h.count - 1 : Reaches(h.block, h.sectors, k)
  /\ h.count = n /\ 1 <= n /\ n <= MaxBlocksNum =>
       Len(h.sectors) = 1 /\ Len(h.block[h.sectors[1]]) = n

(* Where the sectors ran out, one block at least is empty and no sector that  *)
(* could fill another is free.                                                *)
Starved(n, h, i) ==
  /\ h.count < n /\ Cardinality(Clear(h.map)) < n - h.count /\ Len(h.sectors) = i
  /\ \E s \in Range(h.sectors) : h.block[s] = <<>>
  /\ n = 1 => i = 1 /\ Clear(h.map) = {}

(* The map has fewer free sectors than n and its index blocks need.           *)
Tight(m, n, k) == n <= MaxBlocksNum => Cardinality(Clear(m)) < n + k

(* What the loop below a double-indirect block has done after i rounds.       *)
Fills(m, b, n, h, i) ==
  /\ Stem(m, b, h)
  /\ \/ h.dead /\ Tight(m, n, 1)
     \/ ~h.dead /\ Filling(n, h) /\ (h.count < n => Len(h.sectors) = i)
     \/ ~h.dead /\ Starved(n, h, i) /\ Tight(m, n, 1)

(* A round that plants a new double-indirect block c, filled by the inner loop up to g. *)
Plants(h, c, g, r) ==
  /\ r.sectors = Append(h.sectors, c) /\ r.map = g.map /\ r.count = h.count + g.count
  /\ r.dead = g.dead /\ r.block = IF g.dead THEN g.block ELSE [g.block EXCEPT ![c] = g.sectors]

(* The loop of FileHeader::Allocate for a new file, which starts from the map m and blocks b. *)
Branches(m, h) == h.map \ m = Tree(h.block, h.sectors)

(* A file whose first block, or one right below it, was left empty.           *)
Gap(block, q) ==
  /\ Len(q) >= 1
  /\ \E s \in {q[1]} \cup Range(block[q[1]]) : block[s] = <<>>
  /\ \A j \in 2 .. Len(q) : block[q[j]] = <<>>

(* A file with one double-indirect block that reaches all of its n sectors.   *)
Whole(n, block, q) ==
  /\ Len(q) = 1 /\ q[1] \notin Range(block[q[1]])
  /\ \A k \in 0 .. n - 1 : Reaches(block, block[q[1]], k)
  /\ n <= MaxBlocksNum => Len(block[q[1]]) = 1 /\ Len(block[block[q[1]][1]]) = n

(* The loop has too few sectors and too few are free: a block is left empty.  *)
Wanting(n, h, i) ==
  /\ h.count < n /\ Cardinality(Clear(h.map)) < n - h.count /\ Len(h.sectors) = i
  /\ Gap(h.block, h.sectors)
  /\ n = 1 => i = 1 /\ Clear(h.map) = {}

(* What the loop over the header has done after i rounds.                     *)
Sprouts(m, b, n, h, i) ==
  /\ Alike(b, h.block, m)
  /\ \/ h.dead /\ Tight(m, n, 2)
     \/ ~h.dead /\ Branches(m, h) /\ h.sectors[1] = FindClear(m) /\ h.count >= n /\ Whole(n, h.block, h.sectors)
     \/ ~h.dead /\ Branches(m, h) /\ h.sectors[1] = FindClear(m) /\ Wanting(n, h, i) /\ Tight(m, n, 2)

(* The state before the first round. *)
Starting(m, b, h) ==
  h.map = m /\ h.block = b /\ h.sectors = <<>> /\ h.count = 0 /\ ~h.dead

(* What FileHeader::Allocate gives for n sectors of a new file. *)
Planted(block, map, n, a) ==
  /\ Alike(block, a.block, map)
  /\ ~a.ok => Tight(map, n, 2)
  /\ a.ok => /\ a.map \ map = Tree(a.block, a.header.sectors)
             /\ n = 0 => a.header.sectors = <<>> /\ a.map = map /\ a.block = block
             /\ n > 0 => /\ a.header.sectors[1] = FindClear(map)
                         /\ \/ Whole(n, a.block, a.header.sectors)
                            \/ n > 1 /\ Gap(a.block, a.header.sectors) /\ Tight(map, n, 2)

(* A file with one pointer in its header, to a block x of one pointer, to the block y. *)
Grown(block, map, y, n, g) ==
  /\ g.map = map \cup Range(FirstClear(map, n))
  /\ g.block = [block EXCEPT ![y] = block[y] \o FirstClear(map, n)]
  /\ g.count = n /\ ~g.dead

(* A file with one pointer in its header to x, and one pointer in x to y.     *)
Rooted(block, q, x, y) ==
  q = <<x>> /\ block[x] = <<y>> /\ x # y /\ x \in Sector /\ y \in Sector

(* The file with the pointer block y has grown by its first size bytes. *)
Enlarged(block, map, header, y, size, a) ==
  IF Cardinality(Clear(map)) < Roundup(size) THEN ~a.ok /\ ~a.dead /\ a.block = block
  ELSE /\ a.ok /\ a.map = map \cup Range(FirstClear(map, Roundup(size)))
       /\ a.block = [block EXCEPT ![y] = block[y] \o FirstClear(map, Roundup(size))]
       /\ a.header = [bytes |-> header.bytes + size, sectors |-> header.sectors]

(* The index blocks and all the sectors below the header at s.                *)
Blocks(d, s) == Index(d.block, d.header[s].sectors)

Holdings(d, s) == Tree(d.block, d.header[s].sectors)

(* What WriteBack keeps of a header. *)
Kept(h) == SubSeq(h.sectors, 1, Min({Len(h.sectors), NumDirect - 1}))

Behind(h) ==
  SubSeq(h.sectors, Min({Len(h.sectors), NumDirect - 1}) + 1, Len(h.sectors))

(* A directory is empty or has one block of pointers below its header. *)
Room == Roundup(DirectoryFileSize)

(* x is the one pointer of the header h and y that of x; y holds enough       *)
(* sectors, and at most as many as the directory can grow to.                 *)
Leafy(block, used, h, x, y) ==
  /\ x \in used /\ y \in used /\ Rooted(block, h.sectors, x, y)
  /\ h.bytes > 0 /\ Roundup(h.bytes) <= Len(block[y]) /\ Len(block[y]) <= 4 * Room
  /\ h.bytes <= 2 * DirectoryFileSize => Len(block[y]) <= 2 * Room
  /\ h.bytes <= DirectoryFileSize => Len(block[y]) <= Room

(* The sectors of a directory.                                                *)
DirShape(d, s) ==
  d.header[s] = NewHeader \/ \E x, y : Leafy(d.block, d.used, d.header[s], x, y)

(* The sector c, which was free in U, belongs to the file at s for good. *)
HoldsAt(U, e, s, c) ==
  \/ c \in Range(e.header[s].sectors)
  \/ \E x, y \in U : Rooted(e.block, e.header[s].sectors, x, y) /\ c \in Range(e.block[y])

(* Nothing that is used changes.                                              *)
KeptAs(d, e, s) ==
  e.header[s] = d.header[s] /\ e.used = d.used /\ Alike(d.block, e.block, d.used)

(* What writing the directory at s leaves of a disk. *)
Extends(d, e, s) ==
  /\ \A u \in Sector \ {s} : e.header[u] = d.header[u]
  /\ e.lost = d.lost /\ d.used \subseteq e.used
  /\ \A u \in d.used \ Blocks(d, s) : e.block[u] = d.block[u]
  /\ Blocks(e, s) \cap d.used \subseteq Blocks(d, s)
  /\ Holdings(d, s) \subseteq Holdings(e, s)
  /\ Holdings(e, s) \subseteq Holdings(d, s) \cup (Sector \ d.used)
  /\ e.used \subseteq d.used \cup Holdings(e, s)
  /\ Holdings(d, s) \subseteq d.used => Holdings(e, s) \subseteq e.used
  /\ Range(d.header[s].sectors) \subseteq Range(e.header[s].sectors)
  /\ \A x, y \in d.used : Rooted(d.block, d.header[s].sectors, x, y) =>
       /\ Rooted(e.block, e.header[s].sectors, x, y)
       /\ Range(d.block[y]) \subseteq Range(e.block[y])
  /\ d.header[s].bytes <= e.header[s].bytes
  /\ KeptAs(d, e, s) \/ HoldsAt(d.used, e, s, FindClear(d.used))

(* The disk after an allocation for the file at s is stored. *)
Stores(d, s, a, e) ==
  /\ e \in Disk /\ e.header = [d.header EXCEPT ![s] = [bytes |-> a.header.bytes, sectors |-> Kept(a.header)]]
  /\ e.lost = d.lost \cup Range(Behind(a.header))
  /\ e.used = a.map /\ e.block = a.block /\ e.table = d.table

(* A write that was not stopped has taken the first free sector for good, or   *)
(* has left the directory as it was.                                          *)
Firm(d, e, s) ==
  \/ HoldsAt(d.used, e, s, FindClear(d.used))
  \/ KeptAs(d, e, s) /\ e.block = d.block

(* What one write to the directory at s leaves. *)
Wrote(d, s, w) ==
  /\ w \in Writing /\ w.header = w.disk.header[s] /\ w.disk.table = d.table
  /\ Extends(d, w.disk, s) /\ DirShape(w.disk, s)
  /\ ~w.dead => w.disk.header[s].bytes > 0 /\ Firm(d, w.disk, s)

(* The write before the bytes are looked for. *)
Begun(d, s, h, position, n) ==
  IF position + n <= h.bytes THEN [disk |-> d, header |-> h, dead |-> FALSE]
  ELSE Extend(d, s, h, Allocate(d.block, d.used, h, n))

(* What writing a table to the directory at s leaves. *)
TableWrote(d, s, t, w) ==
  /\ Stored(d, s, t, w) /\ Extends(d, w.disk, s) /\ DirShape(w.disk, s)
  /\ ~w.dead => Firm(d, w.disk, s)

(* Files by the sectors of their headers: H has those of all files, D those of  *)
(* the directories.                                                           *)
OwnedAt(d, s) == {s} \cup Holdings(d, s)

(* The files with headers at H share no sector and use only used ones.        *)
SoundAt(d, H) ==
  /\ \A s \in H : OwnedAt(d, s) \subseteq d.used /\ s \notin Holdings(d, s)
  /\ \A s, u \in H : s # u => OwnedAt(d, s) \cap OwnedAt(d, u) = {}

(* All they own.                                                              *)
AllOwned(d, H) == UNION {OwnedAt(d, s) : s \in H}

(* What is used they own, or it was cut off.                                  *)
CoveredBy(d, H) == d.used \subseteq AllOwned(d, H) \cup d.lost

(* The file at s is a directory of D, or has all its bytes, or an index block *)
(* of it is empty.                                                            *)
GoodAt(d, s, D) ==
  IF s \in D THEN DirShape(d, s)
  ELSE \/ Backed(d, d.header[s], d.header[s].bytes)
       \/ s # FreeMapSector /\ \E u \in Blocks(d, s) : d.block[u] = <<>>

(* The disk d with its headers H, the directories D among them.               *)
Fit(d, H, D) ==
  /\ H \subseteq Sector /\ D \subseteq H /\ SoundAt(d, H) /\ CoveredBy(d, H)
  /\ \A s \in H : GoodAt(d, s, D)

(* What the header at s leads to is the same on both disks.                   *)
Untouched(d, e, s) == e.header[s] = d.header[s] /\ \A u \in Blocks(d, s) : e.block[u] = d.block[u]

(* The disk when Create has written the header and the blocks of a new file. *)
Written(d, c, a) ==
  [WriteHeader([d EXCEPT !.block = a.block], c, a.header) EXCEPT !.table[c] = NewTable]

(* The fields of Written.                                                     *)
WrittenAs(d, c, a, m) ==
  /\ m \in Disk /\ m.used = d.used /\ m.block = a.block /\ m.table = Fresh(d, c)
  /\ m.header = [d.header EXCEPT ![c] = [bytes |-> a.header.bytes, sectors |-> Kept(a.header)]]
  /\ m.lost = d.lost \cup Range(Behind(a.header))

(* A new file: all its bytes are there, or an index block is empty.           *)
Provided(e, c, size) ==
  Backed(e, e.header[c], size) \/ \E u \in Blocks(e, c) : e.block[u] = <<>>

(* What the allocation for a new file at c gives on a disk where it is written. *)
Planned(d, c, size, a, e) ==
  /\ Alike(d.block, e.block, d.used) /\ c \in a.map /\ d.used \subseteq a.map
  /\ a.map \subseteq d.used \cup OwnedAt(e, c) \cup Range(Behind(a.header))
  /\ Holdings(e, c) \subseteq a.map \ (d.used \cup {c})
  /\ e.header[c].bytes = size
  /\ Provided(e, c, size)
  /\ size = 0 => e.header[c] = NewHeader /\ a.map = d.used \cup {c}

(* What writing a new entry's directory leaves behind. *)
Joins(d, H, D, dir, c, size, a, w) ==
  ~w.dead =>
    \A e \in Disk : e.used = a.map /\ e.header = w.disk.header /\ e.block = w.disk.block
                    /\ e.lost = w.disk.lost =>
      /\ size = 0 => e.header[c] = NewHeader
      /\ \/ HoldsAt(d.used, e, dir, c)
         \/ /\ Fit(e, H \cup {c}, D)
            /\ size = 0 => Fit(e, H \cup {c}, D \cup {c})

(* Every directory has the entries of a new one, or twice as many: so many are  *)
(* enough for the names there are, and all of them are found.                 *)
TableShape(d) == \A s \in Sector : Len(d.table[s]) \in {NumDirEntries, 2 * NumDirEntries}

(* All the names that a directory can hold.                                   *)
EveryName == Name \cup {SwapName} \cup Dots

(* A call changes what its own path stands for, and that is in its directory.  *)
FindsKept(d, e, p) == \A q \in AnyFile \ {p} : Find(e, q) = Find(d, q)

(* The file is found as long as its directory has not been written.           *)
NamesRemoved(d, p, r) ==
  /\ FindsKept(d, r.disk, p) /\ TableShape(r.disk)
  /\ r.dead => Find(r.disk, p) = Find(d, p)
  /\ ~r.dead => Find(r.disk, p) = {}

(* The headers of all files and of all directories.                           *)
Headers(d) == {HeaderSector(d, f) : f \in Files(d)}

Dirs(d) == {HeaderSector(d, f) : f \in Directories(d)}

(* A sector that is no header lies below one header only.                     *)
Pointer(holder, i, s) == <<<<"sector", holder>>, i, s>>

(* Create, and the part of Make_Dir that is the same: the allocation a, the     *)
(* directory dir and what w writing it leaves.                                *)
TableWith(d, p, b, dir) == AddEntry(Fetch(d, dir), NewEntry(d, p, b))

(* r is the result: it fails when the directory cannot be written, and writes *)
(* the free map last.                                                         *)
Entering(d, p, size, b, r, a, dir, w) ==
  /\ Find(d, p) = {} /\ NewEntry(d, p, b) \in Entry
  /\ FindClear(d.used) \in Sector \ d.used /\ dir \in ParsePath(d, p)
  /\ a = Allocate(d.block, d.used \cup {FindClear(d.used)}, NewHeader, size) /\ a.ok
  /\ Granted(d.used \cup {FindClear(d.used)}, a)
  /\ w = WriteTable(Written(d, FindClear(d.used), a), dir, TableWith(d, p, b, dir))
  /\ w \in Writing /\ r \in Result /\ r.ok = ~w.dead /\ r.dead = w.dead
  /\ r.disk = IF w.dead THEN w.disk ELSE [w.disk EXCEPT !.used = a.map]

(* What Enter leaves of the names. *)
NamesEntered(d, p, b, dir, r) ==
  /\ TableWith(d, p, b, dir) \in Table
  /\ Len(TableWith(d, p, b, dir)) \in {NumDirEntries, 2 * NumDirEntries}
  /\ r.disk \in Disk /\ UniqueNames(r.disk) /\ TableShape(r.disk) /\ FindsKept(d, r.disk, p)
  /\ r.ok => Find(r.disk, p) = {NewEntry(d, p, b)}
  /\ ~r.ok => Find(r.disk, p) = {}

(* A disk whose files own all that is used, each its own.                     *)
Healthy(d) == UniqueNames(d) /\ TableShape(d) /\ Fit(d, Headers(d), Dirs(d))

(* A disk that is healthy unless its files share sectors. *)
Well(d) == TableShape(d) /\ (SoundAt(d, Headers(d)) => Fit(d, Headers(d), Dirs(d)))

(* Remove writes the directory without the entry. *)
Removing(d, entry, dir) ==
  WriteTable(Deallocate(d, entry.sector), dir, Without(Fetch(d, dir), entry))

(* The sectors of the two files of a new disk: the map has one, the directory  *)
(* has all it needs.                                                          *)
FirstFiles(map, dir) ==
  /\ map.ok /\ dir.ok
  /\ map.map \in SUBSET Sector /\ dir.map \in SUBSET Sector
  /\ {FreeMapSector, DirectorySector} \subseteq map.map /\ map.map \subseteq dir.map
  /\ map.header \in OpenHeader /\ dir.header \in OpenHeader
  /\ dir.block \in [Sector -> Seq(Sector)] /\ BlocksFit(dir.block)
  /\ map.header.bytes = FreeMapFileSize /\ dir.header.bytes = DirectoryFileSize
  /\ map.map \ {FreeMapSector, DirectorySector} = Tree(dir.block, map.header.sectors)
  /\ dir.map \ map.map = Tree(dir.block, dir.header.sectors)
  /\ \E x, y : Rooted(dir.block, map.header.sectors, x, y)
  /\ Whole(Roundup(FreeMapFileSize), dir.block, map.header.sectors)
  /\ \E x, y : Rooted(dir.block, dir.header.sectors, x, y) /\ Len(dir.block[y]) = Room

(* The disk before the root directory is written.                             *)
Formatting(map, dir, d) ==
  /\ d \in Disk /\ d.used = dir.map /\ d.block = dir.block /\ d.lost = {}
  /\ d.table = [s \in Sector |-> NewTable]
  /\ d.header[FreeMapSector] = map.header /\ d.header[DirectorySector] = dir.header

(* The inductive invariant of the sectors: what DiskInv says and, where no     *)
(* directory has to hold more names than are read back, a disk whose tables    *)
(* have one of their two sizes and whose files, as long as they share no       *)
(* sector, have all the used sectors and all their bytes between them.         *)
StoreInv == DiskInv /\ (FewNames => Well(disk))
=============================================================================
