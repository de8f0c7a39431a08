--------------------------- MODULE ContainersSpec ---------------------------
(* What the containers of lib/ promise their callers: a list is a sequence    *)
(* without repetitions, a sorted one in the order of the ranks and, within a  *)
(* rank, of the insertions; a hash table is a set that is looked up by key; a *)
(* bitmap is a set of numbers, and its file keeps it.                         *)
EXTENDS Integers, Sequences, FiniteSets

CONSTANTS Item, Rank, NumBits, None

VARIABLES kind,      \* which container this is
          queue, members, bits,
          saved,     \* the bitmap in the file
          returned   \* what the last call returned

vars == <<kind, queue, members, bits, saved, returned>>

Listed == {queue[i] : i \in DOMAIN queue}
Without(x) == SelectSeq(queue, LAMBDA y : y # x)
Bit == 0 .. NumBits - 1

Init ==
  /\ kind \in {"List", "SortedList", "HashTable", "Bitmap"}
  /\ queue = <<>> /\ members = {} /\ bits = {} /\ saved = {}
  /\ returned = None

List(x) ==
  /\ kind = "List"
  /\ \/ x \notin Listed /\ queue' \in {Append(queue, x), <<x>> \o queue} /\ returned' = None
     \/ x \in Listed /\ queue' = Without(x) /\ returned' = None
     \/ queue # <<>> /\ queue' = Tail(queue) /\ returned' = Head(queue)
  /\ UNCHANGED <<kind, members, bits, saved>>

SortedList(x) ==
  LET NotLater(y) == Rank[y] <= Rank[x]
      Later(y)    == Rank[y] > Rank[x] IN
  /\ kind = "SortedList"
  /\ \/ /\ x \notin Listed
        /\ queue' = SelectSeq(queue, NotLater) \o <<x>> \o SelectSeq(queue, Later)
        /\ returned' = None
     \/ x \in Listed /\ queue' = Without(x) /\ returned' = None
     \/ queue # <<>> /\ queue' = Tail(queue) /\ returned' = Head(queue)
  /\ UNCHANGED <<kind, members, bits, saved>>

HashTable(x) ==
  /\ kind = "HashTable"
  /\ \/ x \notin members /\ members' = members \cup {x} /\ returned' = None
     \/ x \in members /\ members' = members \ {x} /\ returned' = x
  /\ UNCHANGED <<kind, queue, bits, saved>>

FindAndSet ==
  LET clear == Bit \ bits IN
  IF clear = {} THEN bits' = bits /\ returned' = -1
  ELSE \E b \in clear : /\ \A c \in clear : b <= c
                        /\ bits' = bits \cup {b} /\ returned' = b

Bitmap ==
  /\ kind = "Bitmap"
  /\ \/ /\ \/ FindAndSet
           \/ /\ returned' = None
              /\ \/ \E b \in Bit : bits' \in {bits \cup {b}, bits \ {b}}
                 \/ bits' = saved
        /\ UNCHANGED saved
     \/ saved' = bits /\ returned' = None /\ UNCHANGED bits
     \/ returned' = NumBits - Cardinality(bits) /\ UNCHANGED <<bits, saved>>
  /\ UNCHANGED <<kind, queue, members>>

Next == Bitmap \/ \E x \in Item : List(x) \/ SortedList(x) \/ HashTable(x)

Spec == Init /\ [][Next]_vars
=============================================================================
