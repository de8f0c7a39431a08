----------------------------- MODULE Containers -----------------------------
(* The containers of lib/, one in each behaviour: List, SortedList, HashTable *)
(* (hash.h, hash.cc) and Bitmap (bitmap.cc), which is kept in a file by       *)
(* PersistentBitmap (filesys/pbitmap.cc).  Callers do what list.h, hash.h and *)
(* bitmap.h ask of them: what is added is not there, what is removed is.      *)
EXTENDS LinkedLists
LOCAL INSTANCE SequencesExt
LOCAL INSTANCE FiniteSetsExt
LOCAL INSTANCE Folds

CONSTANTS Hash,         \* hash(getKey(item)); the key of an item is its own
          InitialBuckets, ResizeRatio, IncreaseSizeBy,
          MaxBuckets,   \* bound on the growth of the table
          NumBits, BitsInWord,
          None

VARIABLES kind, heap, list,
          buckets, numItems,  \* of the hash table
          map,                \* Bitmap::map, the words
          file,               \* the bitmap's file
          returned            \* what the last call returned (history)

cvars == <<kind, heap, list, buckets, numItems, map, file, returned>>

NumWords == NumBits \div BitsInWord + (IF NumBits % BitsInWord > 0 THEN 1 ELSE 0)
Bit == 0 .. NumBits - 1

InitBuckets(size) == [b \in 0 .. size - 1 |-> EmptyList]

CInit ==
  /\ kind \in {"List", "SortedList", "HashTable", "Bitmap"}
  /\ heap = EmptyHeap /\ list = EmptyList
  /\ buckets = InitBuckets(InitialBuckets) /\ numItems = 0
  /\ map = [w \in 0 .. NumWords - 1 |-> 0] /\ file = map
  /\ returned = None

Becomes(after) == heap' = after.heap /\ list' = after.list

-----------------------------------------------------------------------------
ListAppend(x) ==
  /\ kind = "List" /\ ~IsInList(heap, list, x)
  /\ Becomes(AppendItem(heap, list, x)) /\ returned' = None
  /\ UNCHANGED <<kind, buckets, numItems, map, file>>

ListPrepend(x) ==
  /\ kind = "List" /\ ~IsInList(heap, list, x)
  /\ Becomes(PrependItem(heap, list, x)) /\ returned' = None
  /\ UNCHANGED <<kind, buckets, numItems, map, file>>

SortedInsert(x) ==
  /\ kind = "SortedList" /\ ~IsInList(heap, list, x)
  /\ Becomes(InsertItem(heap, list, x)) /\ returned' = None
  /\ UNCHANGED <<kind, buckets, numItems, map, file>>

ListRemoveFront ==
  /\ kind \in {"List", "SortedList"} /\ ~IsEmpty(list)
  /\ Becomes(RemoveFrontItem(heap, list)) /\ returned' = FrontItem(heap, list)
  /\ UNCHANGED <<kind, buckets, numItems, map, file>>

ListRemove(x) ==
  /\ kind \in {"List", "SortedList"} /\ IsInList(heap, list, x)
  /\ Becomes(RemoveItem(heap, list, x)) /\ returned' = None
  /\ UNCHANGED <<kind, buckets, numItems, map, file>>

-----------------------------------------------------------------------------
HashValue(x, table) == Hash[x] % Cardinality(DOMAIN table)
IsInTable(x) == IsInList(heap, buckets[HashValue(x, buckets)], x)

AddTo(t, x) ==
  LET b == HashValue(x, t.table)
      a == AppendItem(t.heap, t.table[b], x)
  IN [heap |-> a.heap, table |-> [t.table EXCEPT ![b] = a.list]]

(* ReHash takes the fronts of the old buckets, one bucket after the other.    *)
Move(t, b) ==
  LET x       == FrontItem(t.heap, t.old[b])
      removed == RemoveFrontItem(t.heap, t.old[b])
      added   == AddTo([heap |-> removed.heap, table |-> t.table], x)
  IN [heap |-> added.heap, table |-> added.table, old |-> [t.old EXCEPT ![b] = removed.list]]

ReHash ==
  LET size  == Cardinality(DOMAIN buckets)
      moves == FlattenSeq([b \in 1 .. size |->
                 [i \in 1 .. buckets[b - 1].numInList |-> b - 1]])
      start == [heap |-> heap, table |-> InitBuckets(size * IncreaseSizeBy), old |-> buckets]
      done  == FoldLeft(Move, start, moves)
  IN [heap |-> done.heap, table |-> done.table]

Full == numItems \div Cardinality(DOMAIN buckets) >= ResizeRatio

Inserted(x) == AddTo(IF Full THEN ReHash ELSE [heap |-> heap, table |-> buckets], x)

TableInsert(x) ==
  /\ kind = "HashTable" /\ ~IsInTable(x)
  /\ Full => Cardinality(DOMAIN buckets) * IncreaseSizeBy <= MaxBuckets
  /\ heap' = Inserted(x).heap /\ buckets' = Inserted(x).table
  /\ numItems' = numItems + 1 /\ returned' = None
  /\ UNCHANGED <<kind, list, map, file>>

TableRemove(x) ==
  LET b == HashValue(x, buckets)
      r == RemoveItem(heap, buckets[b], x) IN
  /\ kind = "HashTable" /\ IsInTable(x)
  /\ heap' = r.heap /\ buckets' = [buckets EXCEPT ![b] = r.list]
  /\ numItems' = numItems - 1 /\ returned' = x
  /\ UNCHANGED <<kind, list, map, file>>

(* HashIterator, which skips the buckets that are empty. *)
Visited ==
  FlattenSeq([b \in 1 .. Cardinality(DOMAIN buckets) |-> Items(heap, buckets[b - 1])])

(* SanityCheck *)
SaneTable ==
  /\ numItems = Len(Visited)
  /\ \A b \in DOMAIN buckets :
       /\ SaneList(heap, buckets[b])
       /\ \A x \in Range(Items(heap, buckets[b])) : HashValue(x, buckets) = b

-----------------------------------------------------------------------------
Mask(b) == 2 ^ (b % BitsInWord)
Test(b) == (map[b \div BitsInWord] \div Mask(b)) % 2 = 1

Marked(b)  == [map EXCEPT ![b \div BitsInWord] = IF Test(b) THEN @ ELSE @ + Mask(b)]
Cleared(b) == [map EXCEPT ![b \div BitsInWord] = IF Test(b) THEN @ - Mask(b) ELSE @]

BitmapMark(b) ==
  /\ kind = "Bitmap"
  /\ map' = Marked(b) /\ returned' = None
  /\ UNCHANGED <<kind, heap, list, buckets, numItems, file>>

BitmapClear(b) ==
  /\ kind = "Bitmap"
  /\ map' = Cleared(b) /\ returned' = None
  /\ UNCHANGED <<kind, heap, list, buckets, numItems, file>>

BitmapFindAndSet ==
  LET clear == {b \in Bit : ~Test(b)} IN
  /\ kind = "Bitmap"
  /\ IF clear = {} THEN returned' = -1 /\ UNCHANGED map
                   ELSE returned' = Min(clear) /\ map' = Marked(Min(clear))
  /\ UNCHANGED <<kind, heap, list, buckets, numItems, file>>

BitmapNumClear ==
  /\ kind = "Bitmap"
  /\ returned' = Cardinality({b \in Bit : ~Test(b)})
  /\ UNCHANGED <<kind, heap, list, buckets, numItems, map, file>>

(* The file holds the words. *)
BitmapWriteBack ==
  /\ kind = "Bitmap" /\ file' = map /\ returned' = None
  /\ UNCHANGED <<kind, heap, list, buckets, numItems, map>>

BitmapFetchFrom ==
  /\ kind = "Bitmap" /\ map' = file /\ returned' = None
  /\ UNCHANGED <<kind, heap, list, buckets, numItems, file>>

CNext ==
  \/ \E x \in Item : \/ ListAppend(x) \/ ListPrepend(x) \/ SortedInsert(x)
                     \/ ListRemove(x) \/ TableInsert(x) \/ TableRemove(x)
  \/ ListRemoveFront
  \/ \E b \in Bit : BitmapMark(b) \/ BitmapClear(b)
  \/ BitmapFindAndSet \/ BitmapNumClear \/ BitmapWriteBack \/ BitmapFetchFrom

-----------------------------------------------------------------------------
(* The heap, the lists, the buckets and the words have their types.           *)
ContainersTypeOK ==
  /\ heap \in Heap /\ list \in ListType
  /\ DOMAIN buckets = 0 .. Cardinality(DOMAIN buckets) - 1
  /\ \A b \in DOMAIN buckets : buckets[b] \in ListType
  /\ numItems \in Nat
  /\ map \in [0 .. NumWords - 1 -> 0 .. 2 ^ BitsInWord - 1]
  /\ file \in [0 .. NumWords - 1 -> 0 .. 2 ^ BitsInWord - 1]

(* The SanityChecks: the ends and the lengths of the lists are right, every   *)
(* item is in its bucket and in no other, and an iterator meets it once.      *)
Legal ==
  /\ ContainersTypeOK
  /\ SaneList(heap, list)
  /\ kind = "SortedList" => SaneSortedList(heap, list)
  /\ SaneTable
  /\ IsInjective(Visited)

Abstract == INSTANCE ContainersSpec WITH
              queue   <- Items(heap, list),
              members <- {x \in Item : IsInTable(x)},
              bits    <- {b \in Bit : Test(b)},
              saved   <- {b \in Bit : (file[b \div BitsInWord] \div Mask(b)) % 2 = 1}

(* What is put into a container is found there until it is removed, in order  *)
(* where there is one, however elements and words are linked, moved and       *)
(* allocated again.                                                           *)
ImplementsContainers == Abstract!Spec
=============================================================================
