------------------------------ MODULE NameTree ------------------------------
(* What the file system promises of names: a path stands for nothing, a file  *)
(* or a directory, and one call creates or removes the name it was given, in  *)
(* a directory that exists, or changes nothing.                               *)
EXTENDS Sequences, Naturals

CONSTANT Path    \* non-empty sequences of names, closed under non-empty prefixes

VARIABLE tree

Parent(path) == SubSeq(path, 1, Len(path) - 1)

Init == tree = [path \in Path |-> "none"]

Add(path, kind) ==
  /\ tree[path] = "none"
  /\ Len(path) > 1 => tree[Parent(path)] = "directory"
  /\ tree' = [tree EXCEPT ![path] = kind]

Delete(path) ==
  /\ tree[path] = "file"
  /\ tree' = [tree EXCEPT ![path] = "none"]

Next == \E path \in Path : Add(path, "file") \/ Add(path, "directory") \/ Delete(path)

Spec == Init /\ [][Next]_tree
=============================================================================
