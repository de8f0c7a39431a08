------------------------------ MODULE MipsSpec ------------------------------
(* What a user program may believe of its processor: instructions take effect *)
(* one after the other and at once, memory is all there, sums, products and   *)
(* quotients are those of the integers, and what goes wrong stops the program.*)
EXTENDS MipsWords

CONSTANTS GPRs, PageSize, PageTableSize, Region, Code, Starts, Handled, Results

VARIABLES gpr, hi, lo, pc, next, mem, instr,
          live       \* the program goes on

vars == <<gpr, hi, lo, pc, next, mem, instr, live>>

Init ==
  /\ \E s \in Starts : gpr = s.gpr /\ mem = s.bytes
  /\ hi = 0 /\ lo = 0 /\ pc = 0 /\ next = 4
  /\ instr \in Code
  /\ live = TRUE

A == gpr[instr.rs]
B == gpr[instr.rt]
X == instr.extra

Mapped(a, size) == a % size = 0 /\ Unsigned(a) + size <= PageTableSize * PageSize

Goes(pcAfter) ==
  live /\ live' /\ Mapped(pc, 4) /\ pc' = next /\ next' = pcAfter /\ instr' \in Code

InOrder == Wrap(next + 4)

Writes(r, x) == gpr' = [gpr EXCEPT ![r] = IF r = 0 THEN 0 ELSE x]

(* A sum is exact, or the program stops. *)
Sum(x) == x \in Word /\ Writes(IF instr.op = "ADDI" THEN instr.rt ELSE instr.rd, x)

Calculates ==
  /\ CASE instr.op = "ADD"  -> Sum(A + B)
       [] instr.op = "ADDI" -> Sum(A + X)
       [] instr.op = "SUB"  -> Sum(A - B)
       [] instr.op = "MFHI" -> Writes(instr.rd, hi)
       [] instr.op = "MFLO" -> Writes(instr.rd, lo)
       [] instr.op \in RegisterOps -> Writes(instr.rd, RegisterResult(instr.op, A, B, X))
       [] instr.op \in ImmediateOps -> Writes(instr.rt, ImmediateResult(instr.op, A, X))
       [] OTHER -> FALSE
  /\ Goes(InOrder)
  /\ UNCHANGED <<hi, lo, mem>>

(* q and r are the quotient, towards zero, and the remainder of a and b.      *)
Divides(a, b, q, r) ==
  IF b = 0 THEN q = 0 /\ r = 0
  ELSE a = q * b + r /\ Abs(r) < Abs(b) /\ r * a >= 0

DividesOrMultiplies ==
  /\ CASE instr.op = "DIV"   -> Divides(A, B, lo', hi')
       [] instr.op = "DIVU"  -> Divides(Unsigned(A), Unsigned(B), Unsigned(lo'), Unsigned(hi'))
       [] instr.op = "MULT"  -> hi' * WordSize + Unsigned(lo') = A * B
       [] instr.op = "MULTU" ->
            Unsigned(hi') * WordSize + Unsigned(lo') = Unsigned(A) * Unsigned(B)
       [] instr.op = "MTHI"  -> hi' = A /\ lo' = lo
       [] instr.op = "MTLO"  -> hi' = hi /\ lo' = A
       [] OTHER -> FALSE
  /\ Goes(InOrder)
  /\ UNCHANGED <<gpr, mem>>

(* Where jumps go, and where they leave the way back. *)
Jumps ==
  /\ CASE instr.op \in {"J", "JAL"} -> Goes(Wrap(InOrder - (InOrder % Region) + 4 * X))
       [] instr.op \in {"JR", "JALR"} -> Goes(A)
       [] instr.op \in Branches ->
            Goes(IF Taken(instr.op, A, B) THEN Wrap(next + 4 * X) ELSE InOrder)
       [] OTHER -> FALSE
  /\ CASE instr.op \in {"JAL", "BGEZAL", "BLTZAL"} -> Writes(GPRs, InOrder)
       [] instr.op = "JALR" -> Writes(instr.rd, InOrder)
       [] OTHER -> UNCHANGED gpr
  /\ UNCHANGED <<hi, lo, mem>>

-----------------------------------------------------------------------------
Place == Unsigned(Wrap(A + X))

Joined(byte) == byte[0] + byte[1] * BytePower(1) + byte[2] * BytePower(2) + byte[3] * BytePower(3)

(* LWL: the bytes of the word up to Place go to the top of the register;      *)
(* LWR: those from Place on go to its bottom.  The others stay.               *)
Merged ==
  Joined([n \in 0 .. 3 |->
            CASE instr.op = "LWL" /\ n >= 3 - (Place % 4) -> mem[Place - 3 + n]
              [] instr.op = "LWR" /\ n <= 3 - (Place % 4) -> mem[Place + n]
              [] OTHER -> ByteOf(B, n)])

Value ==
  CASE instr.op = "LB"  -> Signed(BytesAt(mem, Place, 1), ByteSize)
    [] instr.op = "LBU" -> BytesAt(mem, Place, 1)
    [] instr.op = "LH"  -> Signed(BytesAt(mem, Place, 2), HalfSize)
    [] instr.op = "LHU" -> BytesAt(mem, Place, 2)
    [] instr.op = "LW"  -> Wrap(BytesAt(mem, Place, 4))
    [] instr.op \in {"LWL", "LWR"} -> Wrap(Merged)

(* The bytes an access needs: for the halves of a word, up to or from Place.  *)
Reaches ==
  CASE instr.op \in {"LH", "LHU", "SH"} -> Mapped(Place, 2)
    [] instr.op \in {"LW", "SW"} -> Mapped(Place, 4)
    [] OTHER -> Mapped(Place, 1)

Loads ==
  /\ instr.op \in {"LB", "LBU", "LH", "LHU", "LW", "LWL", "LWR"}
  /\ Reaches /\ Writes(instr.rt, Value) /\ Goes(InOrder)
  /\ UNCHANGED <<hi, lo, mem>>

(* The bytes of rt that a store puts at Place and after, SWL at Place and before. *)
Stores ==
  /\ instr.op \in {"SB", "SH", "SW", "SWL", "SWR"}
  /\ Reaches /\ Goes(InOrder)
  /\ mem' = [a \in DOMAIN mem |->
       CASE instr.op = "SB"  /\ a = Place -> ByteOf(B, 0)
         [] instr.op = "SH"  /\ a \in Place .. Place + 1 -> ByteOf(B, a - Place)
         [] instr.op = "SW"  /\ a \in Place .. Place + 3 -> ByteOf(B, a - Place)
         [] instr.op = "SWL" /\ a \in Place - (Place % 4) .. Place -> ByteOf(B, 3 + a - Place)
         [] instr.op = "SWR" /\ a \in Place .. Place + 3 - (Place % 4) -> ByteOf(B, a - Place)
         [] OTHER -> mem[a]]
  /\ UNCHANGED <<gpr, hi, lo>>

(* A call that the kernel knows returns to the next instruction. *)
Calls ==
  /\ instr.op = "SYSCALL" /\ gpr[2] \in Handled
  /\ live /\ live' /\ Mapped(pc, 4)
  /\ \E result \in Results \cup {gpr[2]} : gpr' = [gpr EXCEPT ![2] = result]
  /\ pc' = Wrap(pc + 4) /\ next' = Wrap(pc + 8) /\ instr' \in Code
  /\ UNCHANGED <<hi, lo, mem>>

(* What has no result stops the program, and nothing else does. *)
Impossible ==
  \/ ~Mapped(pc, 4)
  \/ instr.op = "ADD" /\ A + B \notin Word
  \/ instr.op = "ADDI" /\ A + X \notin Word
  \/ instr.op = "SUB" /\ A - B \notin Word
  \/ instr.op = "DIV" /\ ~\E q, r \in Word : Divides(A, B, q, r)
  \/ instr.op = "RES"
  \/ instr.op = "SYSCALL" /\ gpr[2] \notin Handled
  \/ instr.op \in {"LB", "LBU", "LH", "LHU", "LW", "LWL", "LWR",
                   "SB", "SH", "SW", "SWL", "SWR"} /\ ~Reaches

Stops ==
  /\ live /\ Impossible
  /\ ~live'
  /\ UNCHANGED <<gpr, hi, lo, pc, next, mem, instr>>

Next ==
  \/ Calculates \/ DividesOrMultiplies \/ Jumps \/ Loads \/ Stores
  \/ Calls \/ Stops

Spec == Init /\ [][Next]_vars
=============================================================================
