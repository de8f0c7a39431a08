----------------------------- MODULE FileSystem -----------------------------
(* Names, directories and the allocation of sectors on the Nachos disk:      *)
(* filesys.cc, filehdr.cc, block_for_file.cc, directory.cc and the part of   *)
(* openfile.cc that extends a file. One call of the file system is one       *)
(* action, as filesys.cc:31 assumes; a failed ASSERT ends the call half-way, *)
(* with what it has written so far on the disk, and Nachos is started again. *)
(* The unit of length is an int. Contents of files other than the map and    *)
(* the directories are left out, and protections, the names "." and ".." in  *)
(* paths, and names so long that strncmp takes two of them for one.          *)
EXTENDS Integers, FiniteSets, FiniteSetsExt, SequencesExt

CONSTANTS
  NumSectors, SectorSize,    \* of the disk
  EntrySize, NumDirEntries,  \* length of a DirectoryEntry, entries of a new directory
  Name,                      \* names users give to files
  MaxDepth,                  \* bound on the length of a path
  SwapName, SwapSize,        \* the kernel's file, not among Name
  CopySize,                  \* lengths of the files copied from Unix
  NoSector                   \* -1 in the code

IntSize == 1
FreeMapSector == 0
DirectorySector == 1
FreeMapFileSize == SectorSize
DirectoryFileSize == EntrySize * NumDirEntries
MaxBlocksNum == SectorSize \div IntSize
NumDirect == (SectorSize - 2 * IntSize) \div IntSize

(* One double-indirect block reaches all the disk, as it does with 128 bytes *)
(* to a sector and 1024 sectors.                                             *)
ASSUME DiskAssumption ==
  /\ NumSectors \in Nat /\ SectorSize \in Nat /\ SectorSize > 3
  /\ NumSectors > DirectorySector /\ NumSectors <= MaxBlocksNum * MaxBlocksNum
  /\ EntrySize \in Nat \ {0} /\ NumDirEntries \in Nat /\ NumDirEntries > 1
  /\ SwapSize \in Nat /\ CopySize \subseteq Nat
  /\ NoSector \notin 0 .. NumSectors - 1

Roundup(n) == (n + SectorSize - 1) \div SectorSize

(* The disk has room for its format, and an index block for a directory that *)
(* has doubled: 8 of 32 pointers, with 20 bytes to an entry and 10 entries.  *)
ASSUME DirectoryAssumption ==
  /\ 2 * Roundup(DirectoryFileSize) + 7 <= NumSectors
  /\ 4 * Roundup(DirectoryFileSize) <= MaxBlocksNum

Dots == {".", ".."}

(* Users give other names than the system has given already.                 *)
ASSUME NameAssumption ==
  /\ IsFiniteSet(Name) /\ MaxDepth \in Nat
  /\ (Name \cup {SwapName}) \cap (Dots \cup {"map", "root"}) = {}
  /\ SwapName \notin Name

Sector == 0 .. NumSectors - 1
Path == UNION {[1 .. n -> Name] : n \in 1 .. MaxDepth}

VARIABLES
  disk,     \* used: the map of used sectors, as in its file
            \* header: file headers, by sector
            \* block: the pointers of indirect and double-indirect blocks
            \* table: entries of directories, by the sector of the header
            \* lost: history, sectors whose only pointer was cut off
  machine   \* "boot", "copy": options of the command line, in that order;
            \* "run": system calls; "halted": an ASSERT failed

vars == <<disk, machine>>

FileHeader == [bytes : Nat, sectors : Seq(Sector)]
NewHeader == [bytes |-> 0, sectors |-> <<>>]
FreeEntry == [inUse |-> FALSE]
Entry == [inUse : {TRUE}, name : Name \cup Dots \cup {SwapName},
          sector : Sector, isDirectory : BOOLEAN]

-----------------------------------------------------------------------------
(* The map of free sectors; "g" is an allocation in progress: the map, the  *)
(* index blocks, the pointers of the block being filled, the data sectors   *)
(* taken, and whether an ASSERT has failed.                                 *)

Clear(map) == Sector \ map

FindClear(map) == IF Clear(map) = {} THEN NoSector ELSE Min(Clear(map))

FirstClear(map, k) ==
  [i \in 1 .. k |-> CHOOSE s \in Clear(map) : Cardinality({t \in Clear(map) : t < s}) = i - 1]

(* Mutant: the number of pointers in a block is not tested. *)
IndirectAllocateUnbounded(g, s, n) ==
  IF Cardinality(Clear(g.map)) < n
  THEN [g EXCEPT !.count = -1]
  ELSE [g EXCEPT !.map = @ \cup Range(FirstClear(g.map, n)),
                 !.block[s] = @ \o FirstClear(g.map, n), !.count = n]

(* Mutant: what was asked for is returned, not what was allocated. *)
IndirectAllocateMiscounts(g, s, n) ==
  LET k == Min({n, MaxBlocksNum - Len(g.block[s])})
      taken == FirstClear(g.map, k)
  IN IF Cardinality(Clear(g.map)) < n
     THEN [g EXCEPT !.count = -1]
     ELSE [g EXCEPT !.map = @ \cup Range(taken), !.block[s] = @ \o taken, !.count = n]

(* Indirect::Allocate_block: up to n sectors for the block at sector s. *)
IndirectAllocate(g, s, n) ==
  LET k == Min({n, MaxBlocksNum - Len(g.block[s])})
      taken == FirstClear(g.map, k)
  IN IF Cardinality(Clear(g.map)) < n
     THEN [g EXCEPT !.count = -1]
     ELSE [g EXCEPT !.map = @ \cup Range(taken), !.block[s] = @ \o taken, !.count = k]

Joined(g, below) ==
  [g EXCEPT !.map = below.map, !.block = below.block,
            !.count = @ + below.count, !.dead = below.dead]

(* The loop that DoubleIndirect::Allocate_block and FileHeader::Allocate     *)
(* share: the blocks one level down are asked in turn, a new one is made     *)
(* where there is none. Without a free sector for it, the block is written   *)
(* to sector -1, which the disk's ASSERT refuses.                            *)
Ask(BelowAllocate(_, _, _), n, h, i) ==
  LET isNew == i > Len(h.sectors)
      sector == IF isNew THEN FindClear(h.map) ELSE h.sectors[i]
      made == IF isNew
              THEN [h EXCEPT !.map = @ \cup {sector}, !.block[sector] = <<>>,
                             !.sectors = Append(@, sector)]
              ELSE h
  IN IF h.dead \/ h.count >= n THEN h
     ELSE IF sector = NoSector THEN [h EXCEPT !.dead = TRUE]
     ELSE Joined(made, BelowAllocate(made, sector, n - h.count))

AllocateBelow(BelowAllocate(_, _, _), g, limit, n) ==
  LET asked[i \in 0 .. limit] == IF i = 0 THEN g ELSE Ask(BelowAllocate, n, asked[i - 1], i)
  IN asked[limit]

Filled(g, s) == IF g.dead THEN g ELSE [g EXCEPT !.block[s] = g.sectors]

DoubleAllocate(g, s, n) ==
  IF Cardinality(Clear(g.map)) < n THEN [g EXCEPT !.count = -1]
  ELSE Filled(AllocateBelow(IndirectAllocate, [g EXCEPT !.sectors = g.block[s], !.count = 0],
                            MaxBlocksNum, n),
              s)

(* FileHeader::Allocate: size more bytes for the file with this header. *)
Allocated(g, header, size) ==
  [ok |-> ~g.dead, dead |-> g.dead, map |-> g.map, block |-> g.block,
   header |-> [bytes |-> header.bytes + size, sectors |-> g.sectors]]

Allocate(block, map, header, size) ==
  LET start == [map |-> map, block |-> block, sectors |-> header.sectors,
                count |-> 0, dead |-> FALSE]
  IN IF Cardinality(Clear(map)) < Roundup(size)
     THEN [ok |-> FALSE, dead |-> FALSE, map |-> map, block |-> block, header |-> header]
     ELSE Allocated(AllocateBelow(DoubleAllocate, start, NumDirect, Roundup(size)), header, size)

(* FileHeader::WriteBack: the object is an int longer than a sector, so the *)
(* last of its NumDirect pointers stays behind.                             *)
WriteHeader(d, s, header) ==
  LET kept == Min({Len(header.sectors), NumDirect - 1})
      behind == SubSeq(header.sectors, kept + 1, Len(header.sectors))
  IN [d EXCEPT !.header[s] = [header EXCEPT !.sectors = SubSeq(@, 1, kept)],
               !.lost = @ \cup Range(behind)]

-----------------------------------------------------------------------------
(* Files *)

At(sectors, i) == IF i < Len(sectors) THEN sectors[i + 1] ELSE NoSector

(* FileHeader::ByteToSector for the k-th sector of the file. *)
ByteToSector(d, header, k) ==
  LET double == At(header.sectors, k \div (MaxBlocksNum * MaxBlocksNum))
      indirect == IF double = NoSector THEN NoSector ELSE At(d.block[double], k \div MaxBlocksNum)
  IN IF indirect = NoSector THEN NoSector ELSE At(d.block[indirect], k % MaxBlocksNum)

(* The sectors of the first n bytes are there: the ASSERTs of ByteToSector. *)
Backed(d, header, n) == \A k \in 0 .. Roundup(n) - 1 : ByteToSector(d, header, k) # NoSector

(* OpenFile::Write: when the write ends behind the end of the file, the file *)
(* grows by what is written.                                                 *)
Extend(d, s, header, a) ==
  IF ~a.ok THEN [disk |-> [d EXCEPT !.block = a.block], header |-> header, dead |-> TRUE]
  ELSE [disk |-> [WriteHeader([d EXCEPT !.block = a.block], s, a.header) EXCEPT !.used = a.map],
        header |-> a.header, dead |-> FALSE]

WriteAt(w, n) == [w EXCEPT !.dead = @ \/ ~Backed(w.disk, w.header, n)]

Write(d, s, header, position, size) ==
  WriteAt(IF position + size <= header.bytes
          THEN [disk |-> d, header |-> header, dead |-> FALSE]
          ELSE Extend(d, s, header, Allocate(d.block, d.used, header, size)),
          position + size)

-----------------------------------------------------------------------------
(* Directories *)

NewTable == [i \in 1 .. NumDirEntries |-> FreeEntry]

ExpandSize(table, size) == table \o [i \in 1 .. size - Len(table) |-> FreeEntry]

(* Directory::FindIndex, as the set of the entries found: at most one, for *)
(* a name that is there is not added again.                                *)
Entries(table, name) == {e \in Range(table) : e.inUse /\ e.name = name}

Subdirectories(table, name) ==
  {e.sector : e \in {x \in Entries(table, name) : x.isDirectory}}

AddEntry(table, entry) ==
  LET room == IF \E i \in DOMAIN table : ~table[i].inUse
              THEN table ELSE ExpandSize(table, 2 * Len(table))
  IN [room EXCEPT ![Min({i \in DOMAIN room : ~room[i].inUse})] = entry]

(* Directory::WriteBack through an open file with this header: first the    *)
(* number of entries, then the entries.                                     *)
WriteEntries(w, s, table) ==
  IF w.dead THEN w
  ELSE Write([w.disk EXCEPT !.table[s] = ExpandSize(@, Len(table))], s, w.header,
             IntSize, Len(table) * EntrySize)

SetTable(w, s, table) == IF w.dead THEN w ELSE [w EXCEPT !.disk.table[s] = table]

WriteTable(d, s, table) ==
  SetTable(WriteEntries(Write(d, s, d.header[s], 0, IntSize), s, table), s, table)

(* Directory::FetchFrom: ExpandSize doubles the length once, whatever length *)
(* it was asked for.                                                         *)
Fetch(d, s) ==
  IF Len(d.table[s]) > 2 * NumDirEntries THEN SubSeq(d.table[s], 1, 2 * NumDirEntries)
  ELSE d.table[s]

(* parse_path: the sector of the directory the last name is looked up in,   *)
(* as a set, which is empty for -1. Directories can be read (BytesStored).   *)
ParsePath(d, path) ==
  LET dir[n \in 0 .. Len(path) - 1] ==
        IF n = 0 THEN {DirectorySector}
        ELSE UNION {Subdirectories(Fetch(d, s), path[n]) : s \in dir[n - 1]}
  IN dir[Len(path) - 1]

(* The entry of the path, if there is one. *)
Find(d, path) == UNION {Entries(Fetch(d, s), Last(path)) : s \in ParsePath(d, path)}

The(S) == CHOOSE x \in S : TRUE

-----------------------------------------------------------------------------
(* Calls of the file system: what they leave on the disk, whether they       *)
(* report success and whether an ASSERT stopped them.                        *)

Failed(d) == [disk |-> d, ok |-> FALSE, dead |-> FALSE]

Ended(w) == [disk |-> w.disk, ok |-> ~w.dead, dead |-> w.dead]

(* The steps that FileSystem::Create and Make_Dir share. The map is read     *)
(* before and written after the directory, which may grow in between with a  *)
(* map of its own. A failed Allocate has written free sectors only.          *)
SaveMap(r, map) == IF r.ok THEN [r EXCEPT !.disk.used = map] ELSE r

StoreEntry(d, dir, entry, a) ==
  LET sector == entry.sector
      written == [WriteHeader([d EXCEPT !.block = a.block], sector, a.header)
                    EXCEPT !.table[sector] = NewTable]
  IN IF a.ok THEN SaveMap(Ended(WriteTable(written, dir, AddEntry(Fetch(d, dir), entry))), a.map)
     ELSE [Failed(d) EXCEPT !.dead = a.dead]

Enter(d, path, size, isDirectory) ==
  LET sector == FindClear(d.used)
      entry == [inUse |-> TRUE, name |-> Last(path), sector |-> sector,
                isDirectory |-> isDirectory]
  IN IF ParsePath(d, path) = {} \/ Find(d, path) # {} \/ sector = NoSector THEN Failed(d)
     ELSE StoreEntry(d, The(ParsePath(d, path)), entry,
                     Allocate(d.block, d.used \cup {sector}, NewHeader, size))

Create(d, path, size) == Enter(d, path, size, FALSE)

(* The rest of Make_Dir. *)
AddDots(r, sector, parent) ==
  LET Dot(name, s) == [inUse |-> TRUE, name |-> name, sector |-> s, isDirectory |-> TRUE]
      table == AddEntry(AddEntry(NewTable, Dot(".", sector)), Dot("..", parent))
  IN IF r.ok THEN Ended(WriteTable(r.disk, sector, table)) ELSE r

MakeDir(d, path) ==
  AddDots(Enter(d, path, 0, TRUE), FindClear(d.used), The(ParsePath(d, path)))

(* The sectors below a header: index blocks, then data. *)
Below(d, S) == UNION {Range(d.block[s]) : s \in S}
IndexBlocks(d, header) == Range(header.sectors) \cup Below(d, Range(header.sectors))
Sectors(d, header) == IndexBlocks(d, header) \cup Below(d, IndexBlocks(d, header))

(* Mutant: the index blocks are not cleared. *)
DeallocateData(d, sector) ==
  LET blocks == IndexBlocks(d, d.header[sector])
      freed == (Sectors(d, d.header[sector]) \ blocks) \cup {sector}
  IN [d EXCEPT !.used = @ \ freed, !.header[sector] = NewHeader, !.table[sector] = NewTable]

(* FileHeader::Deallocate and the header's own sector. *)
Deallocate(d, sector) ==
  LET freed == Sectors(d, d.header[sector]) \cup {sector}
  IN [d EXCEPT !.used = @ \ freed,
               !.block = [s \in Sector |-> IF s \in freed THEN <<>> ELSE @[s]],
               !.header[sector] = NewHeader, !.table[sector] = NewTable]

(* Mutant: the directory is not written back. *)
RemoveNameKeepsEntry(d, path) ==
  LET entry == The(Find(d, path))
  IN IF Find(d, path) = {} \/ entry.isDirectory THEN Failed(d)
     ELSE [disk |-> Deallocate(d, entry.sector), ok |-> TRUE, dead |-> FALSE]

Without(table, entry) ==
  [i \in DOMAIN table |-> IF table[i] = entry THEN FreeEntry ELSE table[i]]

(* Mutant: directories are removed like files. *)
RemoveNameAny(d, path) ==
  LET dir == The(ParsePath(d, path))
      entry == The(Find(d, path))
  IN IF Find(d, path) = {} THEN Failed(d)
     ELSE Ended(WriteTable(Deallocate(d, entry.sector), dir, Without(Fetch(d, dir), entry)))

RemoveName(d, path) ==
  LET dir == The(ParsePath(d, path))
      entry == The(Find(d, path))
  IN IF Find(d, path) = {} \/ entry.isDirectory THEN Failed(d)
     ELSE Ended(WriteTable(Deallocate(d, entry.sector), dir, Without(Fetch(d, dir), entry)))

(* FileSystem::FileSystem(TRUE) on an empty disk. *)
FormatWith(d, map, dir) ==
  LET headers == WriteHeader(WriteHeader([d EXCEPT !.block = dir.block, !.used = dir.map],
                                         FreeMapSector, map.header),
                             DirectorySector, dir.header)
  IN WriteTable(headers, DirectorySector, NewTable).disk

FormatMap(d, map) == FormatWith(d, map, Allocate(map.block, map.map, NewHeader, DirectoryFileSize))

Format ==
  LET empty == [used |-> {}, header |-> [s \in Sector |-> NewHeader],
                block |-> [s \in Sector |-> <<>>], table |-> [s \in Sector |-> NewTable],
                lost |-> {}]
  IN FormatMap(empty, Allocate(empty.block, {FreeMapSector, DirectorySector},
                               NewHeader, FreeMapFileSize))

(* Kernel::Initialize: a swap file that is left over is made anew. *)
MakeSwapFile(d) ==
  LET Again(removed) ==
        IF removed.dead THEN removed ELSE Create(removed.disk, <<SwapName>>, SwapSize)
      First(r) == IF r.ok \/ r.dead THEN r ELSE Again(RemoveName(r.disk, <<SwapName>>))
  IN First(Create(d, <<SwapName>>, SwapSize))

-----------------------------------------------------------------------------
File == {<<"map">>, <<"root">>} \cup Path \cup {<<SwapName>>}

HasHeader(d, file) == file \in {<<"map">>, <<"root">>} \/ Find(d, file) # {}

HeaderSector(d, file) ==
  CASE file = <<"map">> -> FreeMapSector
    [] file = <<"root">> -> DirectorySector
    [] OTHER -> The(Find(d, file)).sector

Files(d) == {file \in File : HasHeader(d, file)}

Header(d, file) == d.header[HeaderSector(d, file)]

Owned(d, file) == {HeaderSector(d, file)} \cup Sectors(d, Header(d, file))

(* A pointer: what holds it, its place there and the sector. *)
Pointers(holder, sectors) == {<<<<"sector", holder>>, i, sectors[i]>> : i \in DOMAIN sectors}

PointersOf(d, file) ==
  {<<file, 0, HeaderSector(d, file)>>}
  \cup Pointers(HeaderSector(d, file), Header(d, file).sectors)
  \cup UNION {Pointers(s, d.block[s]) : s \in IndexBlocks(d, Header(d, file))}

Directories(d) ==
  {<<"root">>} \cup {path \in Path : \E entry \in Find(d, path) : entry.isDirectory}

OwnedOnce(d) ==
  LET all == UNION {PointersOf(d, file) : file \in Files(d)}
  IN Cardinality({p[3] : p \in all}) = Cardinality(all)

InUse(d) == \A file \in Files(d) : Owned(d, file) \subseteq d.used

(* What the code does on a disk where files share sectors depends on the     *)
(* bytes they hold; the model stops there.                                   *)
Intact(d) == OwnedOnce(d) /\ InUse(d)

-----------------------------------------------------------------------------
Does(r, next) ==
  /\ disk' = r.disk
  /\ machine' = IF r.dead THEN "halted" ELSE next

Init ==
  /\ disk = MakeSwapFile(Format).disk
  /\ machine = "boot"

(* nachos -rm *)
RemoveOption(path) == machine = "boot" /\ Does(RemoveName(disk, path), "copy")

(* nachos -cp: the copy opens the file it has created, and writes all of it. *)
CopyInto(r, path, size) ==
  IF r.ok
  THEN [r EXCEPT !.dead =
          \/ Find(r.disk, path) = {}
          \/ ~Backed(r.disk, r.disk.header[HeaderSector(r.disk, path)], size)]
  ELSE r

Copy(path, size) ==
  /\ machine \in {"boot", "copy"}
  /\ Does(CopyInto(Create(disk, path, size), path, size), "run")

Run == machine \in {"boot", "copy"} /\ machine' = "run" /\ UNCHANGED disk

SysCreate(path) == machine = "run" /\ Does(Create(disk, path, 0), "run")

SysMakeDir(path) == machine = "run" /\ Does(MakeDir(disk, path), "run")

(* The last SC_Close of a file. *)
RemoveFile(path) == machine = "run" /\ Does(RemoveName(disk, path), "run")

Restart == Does(MakeSwapFile(disk), "boot")

Next ==
  /\ Intact(disk)
  /\ \/ \E path \in Path :
          \/ \E size \in CopySize : Copy(path, size)
          \/ RemoveOption(path)
          \/ SysCreate(path)
          \/ SysMakeDir(path)
          \/ RemoveFile(path)
     \/ Run
     \/ Restart

Spec == Init /\ [][Next]_vars
-----------------------------------------------------------------------------
TypeOK ==
  /\ machine \in {"boot", "copy", "run", "halted"}
  /\ disk \in [used : SUBSET Sector, header : [Sector -> FileHeader],
               block : [Sector -> Seq(Sector)],
               table : [Sector -> Seq(Entry \cup {FreeEntry})], lost : SUBSET Sector]
  /\ \A s \in Sector :
       Len(disk.header[s].sectors) < NumDirect /\ Len(disk.block[s]) <= MaxBlocksNum

(* No directory has more entries than FetchFrom reads when it has grown: what *)
(* is created in an entry behind those is not found again.                   *)
FewNames == Cardinality(Name \cup {SwapName} \cup Dots) <= 2 * NumDirEntries

(* Every used sector belongs to a file or was cut off a header: removing a   *)
(* file, a failed call and a halt in the middle of one leak nothing          *)
(* (FileHeader::Deallocate, the order of the writes in Create and Remove).   *)
(* Where files share sectors one can overwrite the index block of another.   *)
NothingLeaks ==
  FewNames /\ Intact(disk) =>
    disk.used \subseteq (UNION {Owned(disk, file) : file \in Files(disk)}) \cup disk.lost

(* No sector belongs to two files, or to one twice (filehdr.cc:41). *)
SectorsOwnedOnce == OwnedOnce(disk)

(* A call that comes to its end leaves a sector that belongs to two files,  *)
(* or to one and is marked free, only when a directory that was there changed *)
(* its sectors: the map that Create and Make_Dir write last does not know of *)
(* those. A call that an ASSERT stops may: Remove writes the map first.      *)
OnlyGrowthCorrupts ==
  [][\A next \in {disk'} :
        /\ Intact(disk)
        /\ machine' # "halted"
        /\ \A dir \in Directories(disk) : Owned(next, dir) = Owned(disk, dir)
        => Intact(next)]_vars

(* A file has a sector for each of its bytes, or an index block that was     *)
(* left empty when the sectors ran out (FileHeader::Allocate). The map and   *)
(* the directories have all of theirs.                                       *)
BytesStored ==
  FewNames /\ Intact(disk) => \A file \in Files(disk) :
    LET header == Header(disk, file)
    IN \/ Backed(disk, header, header.bytes)
       \/ /\ file \notin Directories(disk) \cup {<<"map">>}
          /\ \E s \in IndexBlocks(disk, header) : disk.block[s] = <<>>

Kind(d, path) ==
  IF Find(d, path) = {} THEN "none"
  ELSE IF The(Find(d, path)).isDirectory THEN "directory" ELSE "file"

Names == INSTANCE NameTree WITH tree <- [path \in Path |-> Kind(disk, path)]

(* Each call creates or removes the name it was given and no other, and a    *)
(* file that is opened by its name later is the one that was made under it.  *)
ImplementsNames == Names!Spec
=============================================================================
