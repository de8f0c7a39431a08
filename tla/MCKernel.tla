------------------------------ MODULE MCKernel ------------------------------
(* What a kernel thread stands on, one part in each behaviour: the processes  *)
(* and the scheduler (Processes), the clock and its interrupts (Interrupts),  *)
(* the containers of lib/ (Containers).  They share a run, and nothing else.  *)
EXTENDS MCProcesses, Interrupts, TLC

CONSTANTS Item, Null, Cell, Rank, Hash, InitialBuckets, ResizeRatio, IncreaseSizeBy,
          MaxBuckets, NumBits, BitsInWord, None

VARIABLES kind, heap, list, buckets, numItems, map, file, returned,
          part

C == INSTANCE Containers

processes  == vars
clock      == clockVars
containers == <<kind, heap, list, buckets, numItems, map, file, returned>>

NoTime       == ClockInit /\ quantum = -1 /\ ~randomize /\ Head(pending).when = 1
NoContainers == C!CInit /\ kind = "List"

PartInit ==
  /\ Init
  /\ \/ part = "processes"  /\ NoTime    /\ NoContainers
     \/ part = "clock"      /\ ClockInit /\ NoContainers
     \/ part = "containers" /\ NoTime    /\ C!CInit

PartNext ==
  /\ UNCHANGED part
  /\ \/ part = "processes"  /\ Next      /\ UNCHANGED <<clock, containers>>
     \/ part = "clock"      /\ ClockNext /\ UNCHANGED <<processes, containers>>
     \/ part = "containers" /\ C!CNext   /\ UNCHANGED <<processes, clock>>

PartSpec == PartInit /\ [][PartNext]_<<part, processes, clock, containers>>

-----------------------------------------------------------------------------
(* The variables of every part have their types; the containers pass their    *)
(* SanityChecks.  The other properties of the run are those of the modules of *)
(* the parts: a part that stands still keeps them as it keeps its state.      *)
PartsTypeOK ==
  CASE part = "processes"  -> TypeOK
    [] part = "clock"      -> InterruptsTypeOK
    [] part = "containers" -> C!Legal

(* The containers are sequences and sets.                                     *)
ImplementsContainers ==
  C!Abstract!Init /\ [][part = "containers" => C!Abstract!Next]_containers

-----------------------------------------------------------------------------
MCQuanta == {-1, 2}
MCItem == 1 .. 4
MCRank == <<1, 2, 2, 3>>
MCHash == <<0, 1, 2, 5>>
=============================================================================
