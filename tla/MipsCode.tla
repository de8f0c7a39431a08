------------------------------ MODULE MipsCode ------------------------------
(* The instructions as Instruction::Decode of machine/mipssim.cc leaves them, *)
(* records [op, rs, rt, rd, extra], and what a program made of them may do.   *)
EXTENDS MipsWords

CONSTANTS GPRs,       \* the last general register, R31 in the code
          PageSize,
          PageTableSize, \* of the program, in pages
          Region,     \* bytes that the field of a jump can address
          Code,       \* instructions programs are made of, as Decode has them
          Starts,     \* [gpr, bytes, left]: how programs start, and their length
          Handled,    \* the system calls of ExceptionHandler
          Results,    \* what system calls return
          Leftover    \* registers another thread leaves in the processor

Reg  == 0 .. GPRs
Byte == 0 .. ByteSize - 1
Address == 0 .. PageTableSize * PageSize - 1

Loads  == {"LB", "LBU", "LH", "LHU", "LW", "LWL", "LWR"}
Stores == {"SB", "SH", "SW", "SWL", "SWR"}

Width(op) ==
  CASE op \in {"LB", "LBU", "SB"} -> 1
    [] op \in {"LH", "LHU", "SH"} -> 2
    [] OTHER                      -> 4

(* What an assembler sees to: no instruction names the register that the one  *)
(* before it loads, but for a load into the same register that does not use   *)
(* it as its address; no branch and no system call follows a branch.          *)
Names(i) ==
  CASE i.op \in RegisterOps \cup {"ADD", "SUB", "JALR"} -> {i.rs, i.rt, i.rd}
    [] i.op \in ImmediateOps \cup Stores \cup {"ADDI"} -> {i.rs, i.rt}
    [] i.op \in Loads -> {i.rs}
    [] i.op \in {"MFHI", "MFLO"} -> {i.rd}
    [] i.op \in {"JAL", "BGEZAL", "BLTZAL"} -> {i.rs, GPRs}
    [] i.op = "SYSCALL" -> {}
    [] OTHER -> {i.rs, i.rt}

Jumps == {"J", "JAL", "JR", "JALR"} \cup Branches

(* InitRegisters *)
Entry(gpr) == [gpr |-> gpr, hi |-> 0, lo |-> 0, pc |-> 0, next |-> 4,
               load |-> 0, value |-> 0]

Shifts == {"SLL", "SRA", "SRL"}

(* What Decode and the loader make of a program, whatever it is: registers    *)
(* and shifts have fields of five bits, and the pages fit half of the space.  *)
ASSUME MipsAssumption ==
  /\ GPRs \in Nat /\ GPRs >= 3
  /\ PageSize \in Nat /\ PageSize > 0 /\ PageSize % 4 = 0 /\ PageTableSize \in Nat \ {0}
  /\ PageTableSize * PageSize <= SignBit /\ Region \in Nat \ {0}
  /\ \A s \in Starts : /\ s.left \in Nat /\ s.bytes \in [Address -> Byte]
                       /\ s.gpr \in [Reg -> Word] /\ s.gpr[0] = 0
  /\ Results \subseteq Word

ASSUME CodeAssumption ==
  \A i \in Code : /\ i.rs \in Reg /\ i.rt \in Reg /\ i.rd \in Reg /\ i.extra \in Word
                  /\ i.op \in Shifts => i.extra \in 0 .. WordBits - 1
                  /\ i.op = "JALR" => i.rd # i.rs
                  /\ i.op \in {"BGEZAL", "BLTZAL"} => i.rs # GPRs
=============================================================================
