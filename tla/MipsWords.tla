------------------------------ MODULE MipsWords ------------------------------
(* The words of the simulated MIPS processor, machine/mipssim.cc: integers in *)
(* two's complement, of four bytes.  The number of bits of a byte is a        *)
(* parameter, 8 in the code.                                                  *)
EXTENDS Integers

CONSTANTS ByteBits

ASSUME WordAssumption == ByteBits \in Nat \ {0}

WordBits == 4 * ByteBits

(* Powers of two, by their first property: the prover knows no other.         *)
TwoTo[n \in 0 .. WordBits] == IF n = 0 THEN 1 ELSE 2 * TwoTo[n - 1]

ByteSize == TwoTo[ByteBits]
HalfSize == TwoTo[2 * ByteBits]      \* a half word, as the immediates are
WordSize == TwoTo[WordBits]
SignBit  == TwoTo[WordBits - 1]

Word == -SignBit .. SignBit - 1

Unsigned(x) == x % WordSize

Signed(u, size) == IF 2 * u >= size THEN u - size ELSE u

(* The word with the low bits of x. *)
Wrap(x) == Signed(x % WordSize, WordSize)

(* The same for a sum or a difference of words, which is one turn off at most. *)
WrapOnce(x) ==
  CASE x >= SignBit  -> x - WordSize
    [] x < -SignBit  -> x + WordSize
    [] OTHER         -> x

-----------------------------------------------------------------------------
(* Bit by bit. *)
BitAt(x, n) == (x \div TwoTo[n]) % 2

FromBits(bits) ==
  LET sum[n \in 0 .. WordBits] ==
        IF n = 0 THEN 0 ELSE sum[n - 1] + bits[n - 1] * TwoTo[n - 1]
  IN Wrap(sum[WordBits])

BitAnd(x, y) == FromBits([n \in 0 .. WordBits - 1 |-> BitAt(x, n) * BitAt(y, n)])
BitXor(x, y) == FromBits([n \in 0 .. WordBits - 1 |-> (BitAt(x, n) + BitAt(y, n)) % 2])
BitNot(x)    == -1 - x
BitOr(x, y)  == BitNot(BitAnd(BitNot(x), BitNot(y)))

ShiftLeft(x, n)  == Wrap(x * TwoTo[n])
ShiftRight(x, n) == x \div TwoTo[n]       \* of an int: the sign bit is copied

-----------------------------------------------------------------------------
(* The tests of OP_ADD, OP_ADDI and OP_SUB: SIGN_BIT of x ^ y is set.         *)
SignsDiffer(x, y) == (x < 0) # (y < 0)

(* Mutant: the operands' signs are not looked at. *)
AddOverflowsLoosely(x, y) == SignsDiffer(x, WrapOnce(x + y))

AddOverflows(x, y) == ~SignsDiffer(x, y) /\ SignsDiffer(x, WrapOnce(x + y))
SubOverflows(x, y) == SignsDiffer(x, y) /\ SignsDiffer(x, WrapOnce(x - y))

(* Division as in C, towards zero.  -SignBit / -1 has no result. *)
Abs(x) == IF x < 0 THEN -x ELSE x
Quotient(x, y) ==
  IF SignsDiffer(x, y) THEN -(Abs(x) \div Abs(y)) ELSE Abs(x) \div Abs(y)
Remainder(x, y) == x - y * Quotient(x, y)
DivisionFails(x, y) == x = -SignBit /\ y = -1

-----------------------------------------------------------------------------
(* Mult.  The loop looks at the bits of a, and adds b, which it doubles, into *)
(* lo and hi; unsigned arithmetic, with the carries made by hand.             *)
MultStart(a, b) == [a |-> a, bLo |-> Unsigned(b), bHi |-> 0, lo |-> 0, hi |-> 0]

(* Mutant: the carry out of the low word is forgotten. *)
AddInNoCarry(m) ==
  [m EXCEPT !.lo = (@ + m.bLo) % WordSize, !.hi = (@ + m.bHi) % WordSize]

AddIn(m) ==
  [m EXCEPT !.lo = (@ + m.bLo) % WordSize,
            !.hi = (@ + m.bHi + (m.lo + m.bLo) \div WordSize) % WordSize]

Double(m) ==
  [m EXCEPT !.bHi = (2 * @ + m.bLo \div SignBit) % WordSize,
            !.bLo = (2 * @) % WordSize,
            !.a   = ShiftRight(@, 1)]

(* The loop is left early when no bit of a is left. *)
MultTurn(m) ==
  IF m.a = 1 THEN [AddIn(m) EXCEPT !.a = 0]
  ELSE IF BitAt(m.a, 0) = 1 THEN Double(AddIn(m)) ELSE Double(m)

MultLoop(start) ==
  LET turns[n \in 0 .. WordBits] == IF n = 0 THEN start ELSE MultTurn(turns[n - 1])
  IN turns[WordBits]

(* The two's complement of the double word. *)
Negate(m) ==
  [m EXCEPT !.lo = (-@) % WordSize,
            !.hi = (WordSize - 1 - @ + IF m.lo = 0 THEN 1 ELSE 0) % WordSize]

MultParts(m) == [hi |-> Wrap(m.hi), lo |-> Wrap(m.lo)]

Mult(a, b, signedArith) ==
  IF a = 0 \/ b = 0 THEN [hi |-> 0, lo |-> 0]
  ELSE IF signedArith THEN
    LET m == MultLoop(MultStart(WrapOnce(Abs(a)), WrapOnce(Abs(b))))
    IN MultParts(IF SignsDiffer(a, b) THEN Negate(m) ELSE m)
  ELSE MultParts(MultLoop(MultStart(a, b)))

-----------------------------------------------------------------------------
(* What the instructions without a trap, a load or a jump put in their        *)
(* register.  a and b are the registers rs and rt, x the sign-extended        *)
(* immediate or the shift, which is modulo 32 when it is in a register.       *)
Bool(b) == IF b THEN 1 ELSE 0

RegisterOps == {"ADDU", "SUBU", "AND", "OR", "XOR", "NOR", "SLT", "SLTU",
                "SLL", "SLLV", "SRA", "SRL", "SRAV", "SRLV"}

RegisterResult(op, a, b, x) ==
  CASE op = "ADDU" -> WrapOnce(a + b)
    [] op = "SUBU" -> WrapOnce(a - b)
    [] op = "AND"  -> BitAnd(a, b)
    [] op = "OR"   -> BitOr(a, b)
    [] op = "XOR"  -> BitXor(a, b)
    [] op = "NOR"  -> BitNot(BitOr(a, b))
    [] op = "SLT"  -> Bool(a < b)
    [] op = "SLTU" -> Bool(Unsigned(a) < Unsigned(b))
    [] op = "SLL"  -> ShiftLeft(b, x)
    [] op = "SLLV" -> ShiftLeft(b, a % WordBits)
    [] op \in {"SRA", "SRL"}   -> ShiftRight(b, x)   \* tmp is an int in both
    [] op \in {"SRAV", "SRLV"} -> ShiftRight(b, a % WordBits)

ImmediateOps == {"ADDIU", "ANDI", "ORI", "XORI", "SLTI", "SLTIU", "LUI"}

ImmediateResult(op, a, x) ==
  CASE op = "ADDIU" -> WrapOnce(a + x)
    [] op = "ANDI"  -> BitAnd(a, x % HalfSize)
    [] op = "ORI"   -> BitOr(a, x % HalfSize)
    [] op = "XORI"  -> BitXor(a, x % HalfSize)
    [] op = "SLTI"  -> Bool(a < x)
    [] op = "SLTIU" -> Bool(Unsigned(a) < Unsigned(x))
    [] op = "LUI"   -> ShiftLeft(x, 2 * ByteBits)

(* The branches. *)
Branches == {"BEQ", "BNE", "BGEZ", "BGEZAL", "BGTZ", "BLEZ", "BLTZ", "BLTZAL"}

Taken(op, a, b) ==
  CASE op = "BEQ"  -> a = b
    [] op = "BNE"  -> a # b
    [] op = "BGTZ" -> a > 0
    [] op = "BLEZ" -> a <= 0
    [] op \in {"BGEZ", "BGEZAL"} -> a >= 0
    [] op \in {"BLTZ", "BLTZAL"} -> a < 0

-----------------------------------------------------------------------------
(* Memory is little endian: the bytes at a, as an unsigned number. *)
BytePower(n) == TwoTo[n * ByteBits]

BytesAt(mem, a, size) ==
  LET sum[n \in 0 .. size] ==
        IF n = 0 THEN 0 ELSE sum[n - 1] + mem[a + n - 1] * BytePower(n - 1)
  IN sum[size]

(* The lowest n bytes of an unsigned number, and the number without them.     *)
LowBytes(u, n)  == u % BytePower(n)
HighBytes(u, n) == u \div BytePower(n)

ByteOf(x, n) == HighBytes(Unsigned(x), n) % ByteSize
=============================================================================
