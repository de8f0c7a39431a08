---------------------------- MODULE UserPrograms ----------------------------
(* What runs a user program, one part in each behaviour: its pages (Paging),  *)
(* the processor (Mips), the console (Consoles), its files (OpenFiles).  They *)
(* are put together, and not run one after the other, only to share a run.    *)
EXTENDS Paging, Mips, Consoles, OpenFiles

VARIABLE part

paging    == vars
processor == processorVars
console   == consoleVars
files     == openFileVars

NoPaging == Init /\ randomFlag
NoFiles  == OpenFilesInit /\ disk = {} /\ \A s \in DOMAIN table : table[s] = Free
NoProgram ==
  LET s == CHOOSE s \in Starts : TRUE IN
  /\ regs = Entry(s.gpr) /\ saved = Entry(s.gpr) /\ bytes = s.bytes
  /\ resident = {} /\ instr = CHOOSE i \in Code : TRUE
  /\ mode = "user" /\ left = 0

PartInit ==
  \/ part = "pages"     /\ Init     /\ NoProgram     /\ ConsolesInit /\ NoFiles
  \/ part = "processor" /\ NoPaging /\ ProcessorInit /\ ConsolesInit /\ NoFiles
  \/ part = "console"   /\ NoPaging /\ NoProgram     /\ ConsolesInit /\ NoFiles
  \/ part = "files"     /\ NoPaging /\ NoProgram     /\ ConsolesInit /\ OpenFilesInit

PartNext ==
  /\ UNCHANGED part
  /\ \/ part = "pages"     /\ Next          /\ UNCHANGED <<processor, console, files>>
     \/ part = "processor" /\ ProcessorNext /\ UNCHANGED <<paging, console, files>>
     \/ part = "console"   /\ ConsolesNext  /\ UNCHANGED <<paging, processor, files>>
     \/ part = "files"     /\ OpenFilesNext /\ UNCHANGED <<paging, processor, console>>

PartSpec == PartInit /\ [][PartNext]_<<part, paging, processor, console, files>>

(* The variables of every part have their types.  The other properties of the *)
(* run are those of the modules of the parts: a part that stands still keeps  *)
(* them as it keeps its state.                                                *)
PartsTypeOK ==
  CASE part = "pages"     -> TypeOK
    [] part = "processor" -> MipsTypeOK
    [] part = "console"   -> ConsolesTypeOK
    [] part = "files"     -> OpenFilesTypeOK
=============================================================================
