---------------------------- MODULE LinkedLists ----------------------------
(* List and SortedList of lib/list.h and lib/list.cc, element by element: a   *)
(* heap has what is in the elements, a list has its ends and its length.  An  *)
(* operation takes a heap and a list and returns both as they are after it.   *)
EXTENDS Integers, Sequences, FiniteSets
LOCAL INSTANCE SequencesExt

CONSTANTS Item, Null,
          Cell,       \* the elements there is memory for
          Rank        \* what compare compares

EmptyHeap == [item |-> [c \in Cell |-> Null], next |-> [c \in Cell |-> Null]]
EmptyList == [first |-> Null, last |-> Null, numInList |-> 0]

Heap     == [item : [Cell -> Item \cup {Null}], next : [Cell -> Cell \cup {Null}]]
ListType == [first : Cell \cup {Null}, last : Cell \cup {Null}, numInList : Nat]

After(h, l) == [heap |-> h, list |-> l]

IsEmpty(l) == l.numInList = 0

(* The elements from the first one to one without a next, by ListIterator.    *)
RECURSIVE Walk(_, _, _)
Walk(next, c, most) ==
  IF c = Null \/ most = 0 THEN <<>> ELSE <<c>> \o Walk(next, next[c], most - 1)

Elements(h, l) == Walk(h.next, l.first, Cardinality(Cell) + 1)

Items(h, l) == LET e == Elements(h, l) IN [i \in DOMAIN e |-> h.item[e[i]]]

IsInList(h, l, x) == \E i \in DOMAIN Elements(h, l) : h.item[Elements(h, l)[i]] = x

(* new ListElement, and its address. *)
Fresh(h) == CHOOSE c \in Cell : h.item[c] = Null
New(h, x) == [h EXCEPT !.item[Fresh(h)] = x, !.next[Fresh(h)] = Null]

(* What was deleted keeps its pointer until it is allocated again.            *)
Delete(h, c) == [h EXCEPT !.item[c] = Null]

Only(h, x) == After(New(h, x), [first |-> Fresh(h), last |-> Fresh(h), numInList |-> 1])

AppendItem(h, l, x) ==
  IF IsEmpty(l) THEN Only(h, x)
  ELSE After([New(h, x) EXCEPT !.next[l.last] = Fresh(h)],
             [l EXCEPT !.last = Fresh(h), !.numInList = @ + 1])

PrependItem(h, l, x) ==
  IF IsEmpty(l) THEN Only(h, x)
  ELSE After([New(h, x) EXCEPT !.next[Fresh(h)] = l.first],
             [l EXCEPT !.first = Fresh(h), !.numInList = @ + 1])

FrontItem(h, l) == h.item[l.first]

RemoveFrontItem(h, l) ==
  After(Delete(h, l.first),
        IF l.first = l.last THEN EmptyList
        ELSE [l EXCEPT !.first = h.next[l.first], !.numInList = @ - 1])

(* Mutant: the end of the list stays at the element that is deleted. *)
UnlinkKeepsLast(h, l, prev) ==
  LET c == h.next[prev] IN
  After([Delete(h, c) EXCEPT !.next[prev] = h.next[c]], [l EXCEPT !.numInList = @ - 1])

(* The element after prev is taken out. *)
Unlink(h, l, prev) ==
  LET c == h.next[prev] IN
  After([Delete(h, c) EXCEPT !.next[prev] = h.next[c]],
        [l EXCEPT !.last = IF h.next[c] = Null THEN prev ELSE @, !.numInList = @ - 1])

RemoveItem(h, l, x) ==
  IF x = FrontItem(h, l) THEN RemoveFrontItem(h, l)
  ELSE LET e == Elements(h, l)
           i == CHOOSE i \in 2 .. Len(e) : h.item[e[i]] = x /\ \A j \in 2 .. i - 1 : h.item[e[j]] # x
       IN Unlink(h, l, e[i - 1])

(* SortedList::Insert: before the first element that is later, or at the end. *)
InsertItem(h, l, x) ==
  LET e == Elements(h, l)
      Later(i) == Rank[x] < Rank[h.item[e[i]]] IN
  IF IsEmpty(l) THEN Only(h, x)
  ELSE IF Later(1) THEN PrependItem(h, l, x)
  ELSE IF \E i \in DOMAIN e : Later(i)
  THEN LET i == CHOOSE i \in DOMAIN e : Later(i) /\ \A j \in 1 .. i - 1 : ~Later(j) IN
       After([New(h, x) EXCEPT !.next[Fresh(h)] = e[i], !.next[e[i - 1]] = Fresh(h)],
             [l EXCEPT !.numInList = @ + 1])
  ELSE AppendItem(h, l, x)

(* SanityCheck: from first to last there are as many as were counted. *)
SaneList(h, l) ==
  IF l.first = Null THEN l.last = Null /\ l.numInList = 0
  ELSE LET e == Elements(h, l) IN
       /\ l.last \in Cell /\ h.next[l.last] = Null
       /\ Len(e) = l.numInList /\ Last(e) = l.last

SaneSortedList(h, l) ==
  /\ SaneList(h, l)
  /\ LET x == Items(h, l) IN \A i, j \in DOMAIN x : i < j => Rank[x[i]] <= Rank[x[j]]
=============================================================================
