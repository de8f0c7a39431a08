-------------------------------- MODULE Mips --------------------------------
(* The processor that runs user programs: Machine::OneInstruction and its     *)
(* parts in machine/mipssim.cc, RaiseException in machine/machine.cc, ReadMem,*)
(* WriteMem and Translate in machine/translate.cc, and the saving of the      *)
(* registers at a context switch in threads/thread.cc.                        *)
(*                                                                            *)
(* One program is followed, and only the outline of the kernel: a page fault  *)
(* makes the page resident and may take others away (Paging.tla), while other *)
(* threads use the processor (Scheduler.tla); a page keeps its contents.  An  *)
(* exception that the kernel does not know ends in ASSERTNOTREACHED.          *)
(*                                                                            *)
(* The loaded word reaches its register one instruction late.  A fault in     *)
(* that instruction lets the word through, and then the instruction starts    *)
(* again: what it may name in the meantime is up to the program (Follows).    *)
EXTENDS MipsCode

VARIABLES regs,      \* Machine::registers
          bytes,     \* the program's memory
          resident,  \* its valid pages
          instr,     \* the instruction at PC
          mode,      \* "user"; "away": another thread runs; "stuck"; "stopped"
          saved,     \* Thread::userRegisters
          left       \* bound: the instructions that may still be executed

processorVars == <<regs, bytes, resident, instr, mode, saved, left>>

Registers == [gpr : [Reg -> Word], hi : Word, lo : Word, pc : Word, next : Word,
              load : Reg, value : Word]

(* Another thread leaves registers of the same kind. *)
ASSUME LeftoverAssumption == Leftover \subseteq {r \in Registers : r.gpr[0] = 0}

(* R0 is zero between two instructions, whatever was put in it.               *)
MipsTypeOK ==
  /\ regs \in Registers /\ saved \in Registers
  /\ regs.gpr[0] = 0 /\ saved.gpr[0] = 0
  /\ bytes \in [Address -> Byte]
  /\ resident \in SUBSET (0 .. PageTableSize - 1)
  /\ instr \in Code
  /\ mode \in {"user", "away", "stuck", "stopped"}
  /\ left \in Nat

ProcessorInit ==
  /\ \E s \in Starts :
       /\ regs = Entry(s.gpr) /\ saved = Entry(s.gpr)
       /\ bytes = s.bytes /\ left = s.left
  /\ resident = {}
  /\ instr \in Code
  /\ mode = "user"

-----------------------------------------------------------------------------
A == regs.gpr[instr.rs]
B == regs.gpr[instr.rt]
X == instr.extra

(* Mutant: a word that is loaded into R0 stays there. *)
DelayedLoadKeepsR0(gpr) == [r \in Reg |-> IF r = regs.load THEN regs.value ELSE gpr[r]]

(* DelayedLoad: the word in flight reaches its register, and R0 is 0. *)
DelayedLoad(gpr) ==
  [r \in Reg |-> IF r = 0 THEN 0 ELSE IF r = regs.load THEN regs.value ELSE gpr[r]]

(* Mutant: the word in flight is dropped. *)
DrainedDropping == [regs EXCEPT !.load = 0, !.value = 0]

(* RaiseException and CheckIfDue: DelayedLoad(0, 0). *)
Drained == [regs EXCEPT !.gpr = DelayedLoad(regs.gpr), !.load = 0, !.value = 0]

-----------------------------------------------------------------------------
(* Translate. *)
PageOf(a) == Unsigned(a) \div PageSize

Translate(a, size) ==
  IF a % size # 0 \/ PageOf(a) >= PageTableSize THEN "AddressError"
  ELSE IF PageOf(a) \notin resident THEN "PageFault" ELSE "NoException"

(* LWL, LWR, SWL and SWR access the aligned word around their address. *)
DataAddress == WrapOnce(A + X)
Aligned ==
  IF instr.op \in {"LWL", "LWR", "SWL", "SWR"} THEN DataAddress - (DataAddress % 4)
  ELSE DataAddress

(* The instruction is fetched before it accesses memory: the address that     *)
(* meets an exception first, and the exception.                               *)
Access ==
  CASE Translate(regs.pc, 4) # "NoException" ->
         [exception |-> Translate(regs.pc, 4), at |-> regs.pc]
    [] Translate(regs.pc, 4) = "NoException" /\ instr.op \in Loads \cup Stores ->
         [exception |-> Translate(Aligned, Width(instr.op)), at |-> Aligned]
    [] OTHER -> [exception |-> "NoException", at |-> regs.pc]

Runs == mode = "user" /\ left > 0
Executes == Runs /\ Access.exception = "NoException"

(* ExceptionHandler makes the page resident, and the instruction starts again. *)
PageFault ==
  /\ Runs /\ Access.exception = "PageFault"
  /\ regs' = Drained
  /\ \E kept \in SUBSET resident : resident' = kept \cup {PageOf(Access.at)}
  /\ UNCHANGED <<bytes, instr, mode, saved, left>>

(* Exceptions that the kernel does not know, and the one of the host for a    *)
(* quotient that does not fit.                                                *)
Trapped ==
  CASE instr.op = "ADD"  -> AddOverflows(A, B)
    [] instr.op = "ADDI" -> AddOverflows(A, X)
    [] instr.op = "SUB"  -> SubOverflows(A, B)
    [] instr.op = "DIV"  -> DivisionFails(A, B)
    [] OTHER             -> instr.op = "RES"

Trap ==
  /\ Runs
  /\ Access.exception = "AddressError" \/ (Executes /\ Trapped)
  /\ mode' = "stopped" /\ regs' = Drained
  /\ UNCHANGED <<bytes, resident, instr, saved, left>>

-----------------------------------------------------------------------------
(* The instructions that may come next, with a word on its way to loaded.     *)
Follows(i, loaded) ==
  /\ loaded # 0 => loaded \notin Names(i)
  /\ instr.op \in Jumps => i.op \notin Jumps \cup {"SYSCALL"}

(* The instruction at the new PC.  After the last one none is looked at.      *)
Fetches(loaded) ==
  /\ left' = left - 1
  /\ IF left > 1 THEN instr' \in {i \in Code : Follows(i, loaded)} ELSE UNCHANGED instr

(* The end of OneInstruction. *)
Complete(new, nextReg, nextValue, pcAfter) ==
  /\ Executes /\ ~Trapped
  /\ regs' = [new EXCEPT !.gpr = DelayedLoad(new.gpr), !.load = nextReg,
                         !.value = nextValue, !.pc = regs.next, !.next = pcAfter]
  /\ Fetches(nextReg)
  /\ UNCHANGED <<resident, mode, saved>>

InOrder == WrapOnce(regs.next + 4)

(* Into rd. *)
RegisterOp ==
  LET op == CASE instr.op = "ADD" -> "ADDU" [] instr.op = "SUB" -> "SUBU"
              [] OTHER -> instr.op IN
  /\ op \in RegisterOps
  /\ Complete([regs EXCEPT !.gpr[instr.rd] = RegisterResult(op, A, B, X)], 0, 0, InOrder)
  /\ UNCHANGED bytes

(* Into rt. *)
ImmediateOp ==
  LET op == IF instr.op = "ADDI" THEN "ADDIU" ELSE instr.op IN
  /\ op \in ImmediateOps
  /\ Complete([regs EXCEPT !.gpr[instr.rt] = ImmediateResult(op, A, X)], 0, 0, InOrder)
  /\ UNCHANGED bytes

(* The special registers. *)
HiLo ==
  IF instr.op \in {"DIV", "DIVU"} /\ B = 0 THEN [hi |-> 0, lo |-> 0]
  ELSE
  CASE instr.op = "DIV"   -> [lo |-> Quotient(A, B), hi |-> Remainder(A, B)]
    [] instr.op = "DIVU"  -> [lo |-> Wrap(Unsigned(A) \div Unsigned(B)),
                              hi |-> Wrap(Unsigned(A) % Unsigned(B))]
    [] instr.op = "MULT"  -> Mult(A, B, TRUE)
    [] instr.op = "MULTU" -> Mult(A, B, FALSE)
    [] instr.op = "MTHI"  -> [hi |-> A, lo |-> regs.lo]
    [] instr.op = "MTLO"  -> [hi |-> regs.hi, lo |-> A]

HiLoOp ==
  /\ instr.op \in {"DIV", "DIVU", "MULT", "MULTU", "MTHI", "MTLO"}
  /\ \E d \in {HiLo} :
       Complete([regs EXCEPT !.hi = d.hi, !.lo = d.lo], 0, 0, InOrder)
  /\ UNCHANGED bytes

MoveFrom ==
  /\ instr.op \in {"MFHI", "MFLO"}
  /\ Complete([regs EXCEPT !.gpr[instr.rd] =
                 IF instr.op = "MFHI" THEN regs.hi ELSE regs.lo], 0, 0, InOrder)
  /\ UNCHANGED bytes

-----------------------------------------------------------------------------
(* NextPC, the address of the delay slot, is what branches are relative to.   *)
PcAfter ==
  CASE instr.op \in {"J", "JAL"} -> Wrap(InOrder - (InOrder % Region) + 4 * X)
    [] instr.op \in {"JR", "JALR"} -> A
    [] instr.op \in Branches /\ Taken(instr.op, A, B) -> Wrap(regs.next + 4 * X)
    [] OTHER -> InOrder

Linked ==
  CASE instr.op \in {"JAL", "BGEZAL", "BLTZAL"} -> [regs EXCEPT !.gpr[GPRs] = InOrder]
    [] instr.op = "JALR" -> [regs EXCEPT !.gpr[instr.rd] = InOrder]
    [] OTHER -> regs

(* The link register is written before the operand is read: CodeAssumption.   *)
Jump ==
  /\ instr.op \in Jumps
  /\ Complete(Linked, 0, 0, PcAfter)
  /\ UNCHANGED bytes

-----------------------------------------------------------------------------
(* Mutant: LWL and LWR do not look at the word in flight. *)
OldRegister == B

(* LWL and LWR keep a part of rt, which may still be in flight. *)
Old == IF regs.load = instr.rt THEN regs.value ELSE B

(* 3 - byte in the code. *)
Shift == 3 - (DataAddress % 4)

LoadedWord(word) ==
  CASE instr.op = "LB" -> Signed(word, ByteSize)
    [] instr.op = "LH" -> Signed(word, HalfSize)
    [] instr.op \in {"LBU", "LHU"} -> word
    [] instr.op = "LW" -> Wrap(word)
    [] instr.op = "LWL" ->
         Wrap(LowBytes(Unsigned(Old), Shift) + word * BytePower(Shift))
    [] instr.op = "LWR" ->
         Wrap(Unsigned(Old) - LowBytes(Unsigned(Old), Shift + 1) + HighBytes(word, 3 - Shift))

Load ==
  /\ instr.op \in Loads
  /\ Executes
  /\ Complete(regs, instr.rt, LoadedWord(BytesAt(bytes, Aligned, Width(instr.op))), InOrder)
  /\ UNCHANGED bytes

(* The bytes that are written; SWL and SWR read the word first. *)
StoredWord(word) ==
  CASE instr.op = "SWL" -> word - LowBytes(word, 4 - Shift) + HighBytes(Unsigned(B), Shift)
    [] instr.op = "SWR" -> LowBytes(word, 3 - Shift) + Unsigned(B) * BytePower(3 - Shift)
    [] OTHER            -> B

Store ==
  /\ instr.op \in Stores
  /\ Complete(regs, 0, 0, InOrder)
  /\ \E word \in {StoredWord(BytesAt(bytes, Aligned, Width(instr.op)))} :
       bytes' = [a \in Address |->
                   IF a \in Aligned .. Aligned + Width(instr.op) - 1
                   THEN ByteOf(word, a - Aligned) ELSE bytes[a]]

-----------------------------------------------------------------------------
(* A system call, whose number is in R2: most return a result there, and all  *)
(* set PC and NextPC.                                                         *)
Syscall ==
  /\ instr.op = "SYSCALL" /\ Executes /\ Drained.gpr[2] \in Handled
  /\ \E result \in Results \cup {Drained.gpr[2]} :
       regs' = [Drained EXCEPT !.gpr[2] = result, !.pc = WrapOnce(@ + 4),
                               !.next = WrapOnce(regs.pc + 8)]
  /\ Fetches(0)
  /\ UNCHANGED <<bytes, resident, mode, saved>>

(* Another number ends in the case of PageFaultException, with 0 as the       *)
(* address.  Nothing moves PC on, so the same call is made again and again.   *)
UnexpectedSyscall ==
  /\ instr.op = "SYSCALL" /\ Executes /\ Drained.gpr[2] \notin Handled
  /\ regs' = Drained
  /\ resident' = resident \cup {0}
  /\ mode' = "stuck"
  /\ UNCHANGED <<bytes, instr, saved, left>>

(* The handler of an interrupt runs between two instructions. *)
Interrupted ==
  /\ mode = "user"
  /\ regs' = Drained
  /\ UNCHANGED <<bytes, resident, instr, mode, saved, left>>

(* A timer interrupt, or a call or fault that sleeps: SaveUserState and, when *)
(* the thread runs again, RestoreUserState.  Pages may be taken meanwhile.    *)
SwitchAway ==
  /\ mode = "user"
  /\ mode' = "away" /\ saved' = Drained
  /\ regs' \in Leftover
  /\ resident' \in SUBSET resident
  /\ UNCHANGED <<bytes, instr, left>>

SwitchBack ==
  /\ mode = "away"
  /\ mode' = "user" /\ regs' = saved
  /\ UNCHANGED <<bytes, resident, instr, saved, left>>

ProcessorNext ==
  \/ PageFault \/ Trap
  \/ RegisterOp \/ ImmediateOp \/ HiLoOp \/ MoveFrom \/ Jump \/ Load \/ Store
  \/ Syscall \/ UnexpectedSyscall
  \/ Interrupted \/ SwitchAway \/ SwitchBack

ProcessorSpec == ProcessorInit /\ [][ProcessorNext]_processorVars

-----------------------------------------------------------------------------
(* The registers as the program knows them: a load is complete at once.       *)
Own == IF mode = "away" THEN saved ELSE regs

Settled(r) ==
  [n \in Reg |-> IF n = 0 THEN 0 ELSE IF n = r.load THEN r.value ELSE r.gpr[n]]

View == [gpr |-> Settled(Own), hi |-> Own.hi, lo |-> Own.lo, pc |-> Own.pc,
         next |-> Own.next, mem |-> bytes]

(* Page faults and context switches change nothing the program can see, a     *)
(* word in flight included: only a completed instruction or call does.        *)
ViewKept == left' = left /\ mode' # "stopped" => View' = View

FaultsInvisible == [][ViewKept]_processorVars

(* No instruction uses a register while the word for it is on its way: what   *)
(* it reads is what the program expects.                                      *)
OperandsSettled ==
  mode \in {"user", "away"} /\ left > 0 =>
    \A n \in Names(instr) \cap Reg : Own.gpr[n] = Settled(Own)[n]

Live == mode \in {"user", "away"}

Ideal == INSTANCE MipsSpec WITH
           gpr  <- View.gpr, hi <- View.hi, lo <- View.lo, pc <- View.pc,
           next <- View.next, mem <- bytes, live <- Live

(* The delayed loads, the restarts after a fault, the tests for overflow, the *)
(* multiplication by shifts, the division and the unaligned accesses together *)
(* do what the processor without any of them does.  This is Ideal!Spec, in a  *)
(* form that TLC need not look for an instruction of Ideal in most steps.     *)
ImplementsIdeal ==
  Ideal!Init /\ [][UNCHANGED <<View, instr, Live>> \/ Ideal!Next]_processorVars
=============================================================================
