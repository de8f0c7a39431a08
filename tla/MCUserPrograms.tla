--------------------------- MODULE MCUserPrograms ---------------------------
(* UserPrograms with small constants.                                         *)
EXTENDS UserPrograms, TLC

CONSTANTS p1, p2, file1, file2, longer, t1, t2, letter, ff

MCProcess == {p1, p2}
MCThread == {t1, t2}
MCChar == {letter, ff}

(* Two names in the root directory, and a path to another file with the first. *)
MCName == {file1, file2}
MCPath == {file1, file2, longer}
MCNameOf == [path \in MCPath |-> IF path = longer THEN file1 ELSE path]
MCDirOf == [path \in MCPath |-> IF path = longer THEN "d" ELSE "root"]
MCExecutable == {<<"root", file2>>}
MCUncleared == {{}, {0}}

Symmetry == Permutations(MCProcess)

(* States of a part count as one that no property of the run tells apart, nor  *)
(* anything that follows them: those in which Nachos has stopped; what the     *)
(* pages hold of which ContentsKept says nothing (while it holds, the versions *)
(* say what the others hold); the history variable of FrontIsLeastRecent; the  *)
(* tables of a process that ended.                                             *)
Claimed(k) == KnownCalls /\ k \notin damaged
Seen(content) ==
  IF content.key \in Key /\ Claimed(content.key) THEN content ELSE Junk

PagesView ==
  <<pc, loader, nextPage, randomFlag, frame, valid, frameMap, list, callPage,
    [p \in Process |-> [fault[p] EXCEPT !.copy = Seen(@)]],
    IF damaged # {} /\ KnownCalls THEN damaged ELSE {},
    IF astray # {} /\ KnownCalls THEN astray ELSE {},
    IF KnownCalls
    THEN <<slot, slotCounter, [k \in Key |-> IF Claimed(k) THEN version[k] ELSE 0]>>
    ELSE <<>>>>

FilesView ==
  <<disk, table, removedFlag, stage, call, late,
    [p \in Program |-> IF stage[p] = "end" THEN <<>> ELSE <<local[p], nameId[p]>>]>>

WhatCounts ==
  CASE part = "pages"     -> <<part, IF machine # "runs" THEN <<machine, KnownCalls>>
                                                 ELSE PagesView>>
    [] part = "processor" -> <<part, processor>>
    [] part = "console"   -> <<part, console>>
    [] part = "files"     -> <<part, IF kernel # "runs" THEN kernel ELSE FilesView>>

Instruction(op, rs, rt, rd, extra) ==
  [op |-> op, rs |-> rs, rt |-> rt, rd |-> rd, extra |-> extra]

(* Every operation, on the registers 1 and 2.                                 *)
MCCode ==
  {Instruction(op, 1, 2, 3, 1) : op \in RegisterOps \cup Jumps \cup {"ADD", "SUB", "RES"}}
  \cup {Instruction(op, 1, 2, 0, -1) : op \in ImmediateOps \cup {"ADDI"}}
  \cup {Instruction(op, 1, 2, 0, 0) : op \in {"DIV", "DIVU", "MULT", "MULTU", "MTHI", "MTLO"}}
  \cup {Instruction(op, 0, 0, 1, 0) : op \in {"MFHI", "MFLO"}}
  \cup {Instruction(op, 1, 2, 0, x) : op \in Loads \cup Stores, x \in {0, 1}}
  \cup {Instruction("LW", 1, 0, 0, 0), Instruction("SYSCALL", 0, 0, 0, 0)}

General(a, b, c) == [r \in Reg |-> CASE r = 1 -> a [] r = 2 -> b [] r = 3 -> c [] OTHER -> 0]

(* One instruction on words of every value, and two on a few.                 *)
MCStarts ==
  {[gpr |-> General(a, b, 0), bytes |-> [n \in Address |-> (n \div 3) % 2], left |-> 1] :
     a \in Word, b \in {-SignBit, -5, -1, 0, 1, 3, SignBit - 1}}
  \cup
  {[gpr |-> General(a, -5, 3), bytes |-> [n \in Address |-> (n + 1) % 2], left |-> 2] :
     a \in {0, 4}}

MCHandled == {1, 2, -5}
MCResults == {-1}
MCLeftover == {[Entry(General(5, 5, 5)) EXCEPT !.load = 2, !.value = 7]}
=============================================================================
