-------------------------- MODULE UserProgramsProofs --------------------------
(* What runs a user program: its pages, for any number of processes, pages    *)
(* and frames, as long as there are no more processes than frames (Paging);   *)
(* the processor, for words of any width and any program (Mips); the console, *)
(* for any threads and characters (Consoles); and the open-file tables, for   *)
(* any programs, names and paths (OpenFiles).  The proofs about the processor end    *)
(* with the refinement of MipsSpec.                                           *)
EXTENDS UserPrograms, FiniteSetTheorems, TLAPS

LEMMA LeastNatural ==
  ASSUME NEW T \in SUBSET Nat, T # {}
  PROVE  \E x \in T : \A y \in T : x <= y
<1> DEFINE R == {ss \in Nat \X Nat : ss[1] < ss[2]}
<1>1. IsWellFoundedOn(R, Nat)
  BY NatLessThanWellFounded DEF OpToRel
<1>2. \E x \in T : \A y \in T : ~(<<y, x>> \in R)
  <2> HIDE DEF R
  <2> QED BY <1>1, WFMin
<1>3. ASSUME NEW x \in Nat, NEW y \in Nat, ~(<<y, x>> \in R) PROVE x <= y
  BY <1>3
<1> QED BY <1>2, <1>3

(* f is what a loop that starts from g has after each of n rounds of F.       *)
Loops(f, S, n, g, F) ==
  f \in [0 .. n -> S] /\ f[0] = g /\ \A i \in 1 .. n : f[i] = F[<<f[i - 1], i>>]

Rounding(F, S, n) == F \in [S \X (1 .. n) -> S]

LEMMA Recursion ==
  ASSUME NEW S, NEW n \in Nat, NEW g \in S, NEW F, Rounding(F, S, n)
  PROVE  \E f : Loops(f, S, n, g, F)
<1> DEFINE Goes(m, f) == f[0] = g /\ \A i \in 1 .. m : f[i] = F[<<f[i - 1], i>>]
           Bad == {m \in 0 .. n : ~\E f \in [0 .. m -> S] : Goes(m, f)}
<1>1. SUFFICES ASSUME Bad # {} PROVE FALSE
  <2>1. n \notin Bad
    BY <1>1
  <2> QED BY <2>1 DEF Loops
<1>2. PICK m \in Bad : \A k \in Bad : m <= k
  <2>1. Bad \in SUBSET Nat
    OBVIOUS
  <2> HIDE DEF Bad
  <2> QED BY <1>1, <2>1, LeastNatural
<1>3. m # 0
  <2>1. [i \in 0 .. 0 |-> g] \in [0 .. 0 -> S] /\ Goes(0, [i \in 0 .. 0 |-> g])
    OBVIOUS
  <2>2. 0 \notin Bad
    BY <2>1
  <2> QED BY <1>2, <2>2
<1>4. m \in 1 .. n /\ m - 1 \in 0 .. n /\ m - 1 \notin Bad
  BY <1>2, <1>3
<1>5. PICK f \in [0 .. m - 1 -> S] : Goes(m - 1, f)
  BY <1>4
<1> DEFINE next == F[<<f[m - 1], m>>]
           h == [i \in 0 .. m |-> IF i = m THEN next ELSE f[i]]
<1>6. next \in S
  <2>1. f[m - 1] \in S
    BY <1>4, <1>5
  <2> QED BY <1>4, <2>1 DEF Rounding
<1>7. h \in [0 .. m -> S]
  <2> HIDE DEF next
  <2> QED BY <1>4, <1>5, <1>6
<1>8. h[0] = g
  BY <1>4, <1>5
<1>9. ASSUME NEW i \in 1 .. m PROVE h[i] = F[<<h[i - 1], i>>]
  <2>1. h[i - 1] = f[i - 1]
    BY <1>4
  <2>2. CASE i = m
    BY <1>4, <2>1, <2>2
  <2>3. CASE i # m
    <3>1. i \in 1 .. m - 1 /\ h[i] = f[i]
      BY <1>4, <2>3
    <3> QED BY <1>5, <2>1, <3>1
  <2> QED BY <2>2, <2>3
<1> HIDE DEF h
<1>10. m \notin Bad
  BY <1>7, <1>8, <1>9
<1> QED BY <1>2, <1>10

LEMMA Rounds ==
  ASSUME NEW S, NEW n \in Nat, NEW f, f[0] \in S,
         \A i \in 1 .. n : f[i - 1] \in S => f[i] \in S
  PROVE  \A i \in 0 .. n : f[i] \in S
<1> DEFINE Bad == {i \in 0 .. n : f[i] \notin S}
<1>1. SUFFICES ASSUME Bad # {} PROVE FALSE
  OBVIOUS
<1>2. PICK i \in Bad : \A k \in Bad : i <= k
  <2>1. Bad \in SUBSET Nat
    OBVIOUS
  <2> HIDE DEF Bad
  <2> QED BY <1>1, <2>1, LeastNatural
<1>3. i # 0 /\ i - 1 \in 0 .. n /\ i - 1 \notin Bad
  BY <1>2
<1> QED BY <1>2, <1>3

-----------------------------------------------------------------------------
(* Powers of two, and division by them.                                       *)
LEMMA PowerTable ==
  /\ TwoTo \in [0 .. WordBits -> Nat \ {0}]
  /\ TwoTo[0] = 1
  /\ \A n \in 1 .. WordBits : TwoTo[n] = 2 * TwoTo[n - 1]
<1> DEFINE F == [x \in (Nat \ {0}) \X (1 .. WordBits) |-> 2 * x[1]]
           Table(f) == [n \in 0 .. WordBits |-> IF n = 0 THEN 1 ELSE 2 * f[n - 1]]
<1>1. WordBits \in Nat
  BY WordAssumption DEF WordBits
<1>2. 1 \in Nat \ {0} /\ Rounding(F, Nat \ {0}, WordBits)
  BY DEF Rounding
<1>3. PICK f : Loops(f, Nat \ {0}, WordBits, 1, F)
  <2> HIDE DEF F
  <2> QED BY <1>1, <1>2, Recursion
<1>4. ASSUME NEW n \in 1 .. WordBits PROVE f[n] = 2 * f[n - 1]
  <2>1. f[n - 1] \in Nat \ {0}
    BY <1>1, <1>3 DEF Loops
  <2>2. F[<<f[n - 1], n>>] = 2 * f[n - 1]
    BY <2>1
  <2> QED BY <1>3, <2>2 DEF Loops
<1>5. f = Table(f)
  BY <1>1, <1>3, <1>4 DEF Loops
<1>6. TwoTo = Table(TwoTo)
  BY <1>5 DEF TwoTo
<1>7. TwoTo[0] = 1 /\ \A n \in 1 .. WordBits : TwoTo[n] = 2 * TwoTo[n - 1]
  BY <1>1, <1>6
<1>8. \A n \in 0 .. WordBits : TwoTo[n] \in Nat \ {0}
  <2> DEFINE P == Nat \ {0}
  <2>1. TwoTo[0] \in P
    BY <1>7
  <2>2. ASSUME NEW n \in 1 .. WordBits, TwoTo[n - 1] \in P PROVE TwoTo[n] \in P
    BY <1>7, <2>2
  <2> HIDE DEF P
  <2>3. \A n \in 0 .. WordBits : TwoTo[n] \in P
    BY <1>1, <2>1, <2>2, Rounds
  <2> QED BY <2>3 DEF P
<1>9. TwoTo \in [0 .. WordBits -> Nat \ {0}]
  BY <1>6, <1>8
<1> QED BY <1>7, <1>9

LEMMA PowersAdd ==
  ASSUME NEW m \in Nat, NEW n \in Nat, m + n <= WordBits
  PROVE  TwoTo[m + n] = TwoTo[m] * TwoTo[n]
<1>1. WordBits \in Nat
  BY WordAssumption DEF WordBits
<1> DEFINE Adds == [i \in 0 .. n |-> IF TwoTo[m + i] = TwoTo[m] * TwoTo[i] THEN 1 ELSE 0]
<1>2. Adds[0] \in {1}
  <2>1. m + 0 = m /\ m \in 0 .. WordBits
    BY <1>1
  <2> QED BY <2>1, PowerTable
<1>3. ASSUME NEW i \in 1 .. n, Adds[i - 1] \in {1} PROVE Adds[i] \in {1}
  <2>1. /\ m + i \in 1 .. WordBits /\ i \in 1 .. WordBits /\ m \in 0 .. WordBits
        /\ m + (i - 1) = (m + i) - 1 /\ i - 1 \in 0 .. WordBits
    BY <1>1
  <2>2. TwoTo[m + i] = 2 * TwoTo[m + (i - 1)] /\ TwoTo[i] = 2 * TwoTo[i - 1]
    BY <2>1, PowerTable
  <2>3. TwoTo[m + (i - 1)] = TwoTo[m] * TwoTo[i - 1]
    <3>1. i - 1 \in 0 .. n
      OBVIOUS
    <3> QED BY <1>3, <3>1
  <2>4. TwoTo[m] \in Nat /\ TwoTo[i - 1] \in Nat
    BY <2>1, PowerTable
  <2>5. 2 * (TwoTo[m] * TwoTo[i - 1]) = TwoTo[m] * (2 * TwoTo[i - 1])
    BY <2>4
  <2> QED BY <2>2, <2>3, <2>5
<1>4. \A i \in 0 .. n : Adds[i] \in {1}
  <2> DEFINE P == {1}
  <2>1. Adds[0] \in P /\ \A i \in 1 .. n : Adds[i - 1] \in P => Adds[i] \in P
    BY <1>2, <1>3
  <2>2. \A i \in 0 .. n : Adds[i] \in P
    <3> HIDE DEF P, Adds
    <3> QED BY <2>1, Rounds
  <2> QED BY <2>2
<1> HIDE DEF Adds
<1> QED BY <1>4 DEF Adds

LEMMA WordFacts ==
  /\ ByteSize \in Nat /\ ByteSize >= 2
  /\ BytePower(0) = 1 /\ BytePower(1) = ByteSize
  /\ BytePower(2) = ByteSize * ByteSize
  /\ BytePower(3) = ByteSize * ByteSize * ByteSize
  /\ BytePower(4) = WordSize
  /\ HalfSize = ByteSize * ByteSize
  /\ WordSize = ByteSize * ByteSize * ByteSize * ByteSize
  /\ SignBit \in Nat /\ WordSize = 2 * SignBit
  /\ \E k \in Nat \ {0} : SignBit = 8 * k
<1> DEFINE b == ByteBits
<1>1. b \in Nat \ {0} /\ WordBits = 4 * b
  BY WordAssumption DEF WordBits
<1>2. TwoTo[0] = 1 /\ TwoTo[1] = 2 /\ TwoTo[2] = 4 /\ TwoTo[3] = 8
  <2>1. /\ {1, 2, 3} \subseteq 1 .. WordBits
        /\ 1 - 1 = 0 /\ 2 - 1 = 1 /\ 3 - 1 = 2
    BY <1>1
  <2> QED BY <2>1, PowerTable
<1>3. ByteSize \in Nat /\ ByteSize >= 2
  <2>1. b \in 1 .. WordBits /\ b - 1 \in 0 .. WordBits
    BY <1>1
  <2>2. TwoTo[b] = 2 * TwoTo[b - 1] /\ TwoTo[b - 1] \in Nat \ {0}
    BY <2>1, PowerTable
  <2> QED BY <2>2 DEF ByteSize
<1>4. /\ TwoTo[b + b] = TwoTo[b] * TwoTo[b]
      /\ TwoTo[(b + b) + b] = TwoTo[b + b] * TwoTo[b]
      /\ TwoTo[((b + b) + b) + b] = TwoTo[(b + b) + b] * TwoTo[b]
  <2>1. /\ b + b \in Nat /\ (b + b) + b \in Nat
        /\ b + b <= WordBits /\ (b + b) + b <= WordBits /\ ((b + b) + b) + b <= WordBits
    BY <1>1
  <2> QED BY <1>1, <2>1, PowersAdd
<1>5. /\ 0 * b = 0 /\ 1 * b = b /\ 2 * b = b + b /\ 3 * b = (b + b) + b
      /\ 4 * b = ((b + b) + b) + b
  BY <1>1
<1>6. SignBit \in Nat /\ WordSize = 2 * SignBit
  <2>1. WordBits \in 1 .. WordBits /\ WordBits - 1 \in 0 .. WordBits
    BY <1>1
  <2> QED BY <2>1, PowerTable DEF SignBit, WordSize
<1>7. \E k \in Nat \ {0} : SignBit = 8 * k
  <2>1. 3 \in Nat /\ WordBits - 4 \in Nat /\ 3 + (WordBits - 4) = WordBits - 1 /\ WordBits - 1 <= WordBits
        /\ WordBits - 4 \in 0 .. WordBits
    BY <1>1
  <2>2. TwoTo[3 + (WordBits - 4)] = TwoTo[3] * TwoTo[WordBits - 4]
    BY <2>1, PowersAdd
  <2> QED BY <1>2, <2>1, <2>2, PowerTable DEF SignBit
<1> QED
  BY <1>1, <1>2, <1>3, <1>4, <1>5, <1>6, <1>7 DEF BytePower, ByteSize, HalfSize, WordSize

(* Division with a remainder, and what tells it from others.                  *)
LEMMA Divided ==
  ASSUME NEW x \in Int, NEW m \in Nat \ {0}
  PROVE  /\ x \div m \in Int /\ x % m \in 0 .. m - 1
         /\ x = m * (x \div m) + (x % m)
<1>1. m \in Int /\ m > 0
  OBVIOUS
<1>2. x \div m \in Int
  BY <1>1
<1>3. x % m \in 0 .. m - 1
  BY <1>1
<1>4. x = m * (x \div m) + (x % m)
  BY <1>1
<1> QED BY <1>2, <1>3, <1>4

LEMMA DividedOnce ==
  ASSUME NEW m \in Nat \ {0}, NEW q \in Int, NEW r \in 0 .. m - 1
  PROVE  (m * q + r) \div m = q /\ (m * q + r) % m = r
<1> DEFINE x == m * q + r
<1>1. x \in Int
  OBVIOUS
<1> HIDE DEF x
<1>2. /\ x \div m \in Int /\ x % m \in 0 .. m - 1
      /\ x = m * (x \div m) + (x % m)
  BY <1>1, Divided
<1>3. x = m * q + r
  BY DEF x
<1>4. x \div m = q
  BY <1>2, <1>3
<1>5. x % m = r
  BY <1>2, <1>3, <1>4
<1> QED BY <1>4, <1>5 DEF x

LEMMA TurnsVanish ==
  ASSUME NEW x \in Int, NEW m \in Nat \ {0}, NEW k \in Int
  PROVE  (x + m * k) % m = x % m
<1> DEFINE q == x \div m
           r == x % m
<1>1. q \in Int /\ r \in 0 .. m - 1 /\ x = m * q + r
  BY Divided
<1> HIDE DEF q, r
<1>2. x + m * k = m * (q + k) + r /\ q + k \in Int
  BY <1>1
<1>3. (m * (q + k) + r) % m = r
  BY <1>1, <1>2, DividedOnce
<1> QED BY <1>2, <1>3 DEF r

-----------------------------------------------------------------------------
(* Words.                                                                     *)
LEMMA WordSizes ==
  /\ SignBit \in Nat /\ SignBit >= 8 /\ WordSize = 2 * SignBit
  /\ WordSize \in Nat \ {0}
BY WordFacts

LEMMA Unsigneds ==
  ASSUME NEW x \in Word
  PROVE  Unsigned(x) = IF x < 0 THEN x + WordSize ELSE x
<1>1. CASE x < 0
  <2>1. x \in Int /\ x + WordSize \in 0 .. WordSize - 1
    BY <1>1, WordSizes DEF Word
  <2>2. (WordSize * 0 + (x + WordSize)) % WordSize = x + WordSize
    BY <2>1, WordSizes, DividedOnce
  <2>3. (x + WordSize * 1) % WordSize = x % WordSize
    BY <2>1, WordSizes, TurnsVanish
  <2>4. x + WordSize * 1 = WordSize * 0 + (x + WordSize)
    BY <2>1, WordSizes
  <2> QED BY <1>1, <2>2, <2>3, <2>4 DEF Unsigned
<1>2. CASE ~(x < 0)
  <2>1. x = WordSize * 0 + x /\ x \in 0 .. WordSize - 1
    BY <1>2, WordSizes DEF Word
  <2>2. (WordSize * 0 + x) % WordSize = x
    BY <2>1, WordSizes, DividedOnce
  <2> QED BY <1>2, <2>1, <2>2 DEF Unsigned
<1> QED BY <1>1, <1>2

LEMMA UnsignedType ==
  ASSUME NEW x \in Int
  PROVE  Unsigned(x) \in 0 .. WordSize - 1
BY WordSizes, Divided DEF Unsigned

LEMMA WrapFacts ==
  ASSUME NEW x \in Int
  PROVE  /\ Wrap(x) \in Word
         /\ Unsigned(Wrap(x)) = x % WordSize
         /\ x \in Word => Wrap(x) = x
<1>1. x % WordSize \in 0 .. WordSize - 1
  BY WordSizes, Divided
<1>2. Wrap(x) \in Word
  BY <1>1, WordSizes DEF Wrap, Signed, Word
<1>3. Unsigned(Wrap(x)) = x % WordSize
  BY <1>1, <1>2, WordSizes, Unsigneds DEF Wrap, Signed
<1>4. x \in Word => Wrap(x) = x
  BY WordSizes, Unsigneds DEF Unsigned, Wrap, Signed, Word
<1> QED BY <1>2, <1>3, <1>4

LEMMA WrapTurns ==
  ASSUME NEW x \in Int, NEW k \in Int
  PROVE  Wrap(x + WordSize * k) = Wrap(x)
BY WordSizes, TurnsVanish DEF Wrap

(* A sum or difference of words is one turn off at most. *)
LEMMA WrapOnceFacts ==
  ASSUME NEW x \in -WordSize .. WordSize
  PROVE  WrapOnce(x) = Wrap(x) /\ WrapOnce(x) \in Word
<1>1. PICK k \in {-1, 0, 1} : x + WordSize * k \in Word
  BY WordSizes DEF Word
<1>2. Wrap(x + WordSize * k) = x + WordSize * k
  BY <1>1, WordSizes, WrapFacts
<1>3. Wrap(x + WordSize * k) = Wrap(x)
  <2>1. k \in Int /\ x \in Int
    BY WordSizes
  <2> QED BY <2>1, WrapTurns
<1>4. WrapOnce(x) = x + WordSize * k
  BY <1>1, WordSizes DEF WrapOnce, Word
<1> QED BY <1>1, <1>2, <1>3, <1>4

LEMMA SumWraps ==
  ASSUME NEW a \in Word, NEW b \in Word
  PROVE  /\ WrapOnce(a + b) = Wrap(a + b) /\ WrapOnce(a + b) \in Word
         /\ WrapOnce(a - b) = Wrap(a - b) /\ WrapOnce(a - b) \in Word
<1>1. a + b \in -WordSize .. WordSize /\ a - b \in -WordSize .. WordSize
  BY WordSizes DEF Word
<1> QED BY <1>1, WrapOnceFacts

-----------------------------------------------------------------------------
(* What instructions put in registers is a word.                              *)
LEMMA ShiftFacts ==
  ASSUME NEW x \in Word, NEW n \in 0 .. WordBits - 1
  PROVE  ShiftRight(x, n) \in Word /\ ShiftLeft(x, n) \in Word
<1>1. WordBits \in Nat /\ n \in 0 .. WordBits
  BY WordAssumption DEF WordBits
<1> DEFINE t == TwoTo[n]
           q == x \div t
           r == x % t
<1>2. t \in Nat \ {0}
  BY <1>1, PowerTable
<1>3. x \in Int
  BY WordSizes DEF Word
<1> HIDE DEF t
<1>4. q \in Int /\ r \in 0 .. t - 1 /\ x = t * q + r
  BY <1>2, <1>3, Divided
<1> HIDE DEF q, r
<1>5. q \in Word
  <2>1. ASSUME q > SignBit - 1 PROVE FALSE
    <3>1. t * q \in Int /\ t * q >= q
      BY <1>2, <1>4, <2>1, WordSizes
    <3> QED BY <1>3, <1>4, <2>1, <3>1, WordSizes DEF Word
  <2>2. ASSUME q < -SignBit PROVE FALSE
    <3>1. t * q \in Int /\ t * (q + 1) <= q + 1
      BY <1>2, <1>4, <2>2, WordSizes
    <3>2. t * (q + 1) = t * q + t
      BY <1>2, <1>4
    <3> QED BY <1>2, <1>3, <1>4, <2>2, <3>1, <3>2, WordSizes DEF Word
  <2> QED BY <1>4, <2>1, <2>2, WordSizes DEF Word
<1>6. x * TwoTo[n] \in Int
  BY <1>2, <1>3 DEF t
<1> QED BY <1>5, <1>6, WrapFacts DEF q, t, ShiftRight, ShiftLeft

LEMMA SumExists ==
  ASSUME NEW n \in Nat, NEW term \in [1 .. n -> Int]
  PROVE  \E f \in [0 .. n -> Int] : f[0] = 0 /\ \A i \in 1 .. n : f[i] = f[i - 1] + term[i]
<1> DEFINE F == [x \in Int \X (1 .. n) |-> x[1] + term[x[2]]]
<1>1. 0 \in Int /\ Rounding(F, Int, n)
  BY DEF Rounding
<1>2. PICK f : Loops(f, Int, n, 0, F)
  <2> HIDE DEF F
  <2> QED BY <1>1, Recursion
<1>3. ASSUME NEW i \in 1 .. n PROVE f[i] = f[i - 1] + term[i]
  <2>1. f[i - 1] \in Int
    BY <1>2 DEF Loops
  <2>2. F[<<f[i - 1], i>>] = f[i - 1] + term[i]
    BY <2>1
  <2> QED BY <1>2, <2>2 DEF Loops
<1> QED BY <1>2, <1>3 DEF Loops

LEMMA FromBitsType ==
  ASSUME NEW bits \in [0 .. WordBits - 1 -> Int]
  PROVE  FromBits(bits) \in Word
<1> DEFINE term == [n \in 1 .. WordBits |-> bits[n - 1] * TwoTo[n - 1]]
           Sum(f) == [n \in 0 .. WordBits |->
                        IF n = 0 THEN 0 ELSE f[n - 1] + bits[n - 1] * TwoTo[n - 1]]
           sum == CHOOSE f : f = Sum(f)
<1>1. WordBits \in Nat
  BY WordAssumption DEF WordBits
<1>2. term \in [1 .. WordBits -> Int]
  <2>1. ASSUME NEW n \in 1 .. WordBits PROVE bits[n - 1] * TwoTo[n - 1] \in Int
    <3>1. n - 1 \in 0 .. WordBits - 1 /\ n - 1 \in 0 .. WordBits
      BY <1>1
    <3>2. bits[n - 1] \in Int /\ TwoTo[n - 1] \in Int
      BY <3>1, PowerTable
    <3> QED BY <3>2
  <2> QED BY <2>1
<1>3. PICK f \in [0 .. WordBits -> Int] :
        f[0] = 0 /\ \A n \in 1 .. WordBits : f[n] = f[n - 1] + term[n]
  <2> HIDE DEF term
  <2> QED BY <1>1, <1>2, SumExists
<1>4. f = Sum(f)
  BY <1>1, <1>3
<1>5. sum = Sum(sum)
  BY <1>4
<1>6. FromBits(bits) = Wrap(sum[WordBits])
  BY DEF FromBits
<1> HIDE DEF sum
<1>7. sum[0] = 0 /\ \A n \in 1 .. WordBits : sum[n] = sum[n - 1] + term[n]
  BY <1>1, <1>5
<1> HIDE DEF term
<1>8. \A n \in 0 .. WordBits : sum[n] \in Int
  <2>1. sum[0] \in Int /\ \A n \in 1 .. WordBits : sum[n - 1] \in Int => sum[n] \in Int
    BY <1>2, <1>7
  <2> DEFINE P == Int
  <2>2. sum[0] \in P /\ \A n \in 1 .. WordBits : sum[n - 1] \in P => sum[n] \in P
    BY <2>1
  <2>3. \A n \in 0 .. WordBits : sum[n] \in P
    <3> HIDE DEF P
    <3> QED BY <1>1, <2>2, Rounds
  <2> QED BY <2>3
<1> QED BY <1>1, <1>6, <1>8, WrapFacts

LEMMA BitTypes ==
  ASSUME NEW x \in Int, NEW y \in Int
  PROVE  BitAnd(x, y) \in Word /\ BitXor(x, y) \in Word
<1>1. ASSUME NEW z \in Int, NEW n \in 0 .. WordBits - 1 PROVE BitAt(z, n) \in {0, 1}
  <2>1. n \in 0 .. WordBits
    BY WordAssumption DEF WordBits
  <2>2. z \div TwoTo[n] \in Int
    BY <2>1, PowerTable, Divided
  <2> QED BY <2>2 DEF BitAt
<1> DEFINE both == [n \in 0 .. WordBits - 1 |-> BitAt(x, n) * BitAt(y, n)]
           one  == [n \in 0 .. WordBits - 1 |-> (BitAt(x, n) + BitAt(y, n)) % 2]
<1>2. both \in [0 .. WordBits - 1 -> Int] /\ one \in [0 .. WordBits - 1 -> Int]
  BY <1>1
<1> HIDE DEF both, one
<1>3. FromBits(both) \in Word /\ FromBits(one) \in Word
  BY <1>2, FromBitsType
<1> QED BY <1>3 DEF BitAnd, BitXor, both, one

LEMMA NotOrTypes ==
  ASSUME NEW x \in Int, NEW y \in Int
  PROVE  BitOr(x, y) \in Word /\ BitNot(BitOr(x, y)) \in Word
<1>1. BitNot(x) \in Int /\ BitNot(y) \in Int
  BY DEF BitNot
<1>2. BitAnd(BitNot(x), BitNot(y)) \in Word
  BY <1>1, BitTypes
<1> QED BY <1>2, WordSizes DEF BitOr, BitNot, Word

LEMMA RegisterResultType ==
  ASSUME NEW op \in RegisterOps, NEW a \in Word, NEW b \in Word, NEW x \in Word,
         op \in Shifts => x \in 0 .. WordBits - 1
  PROVE  RegisterResult(op, a, b, x) \in Word
<1>1. a \in Int /\ b \in Int /\ x \in Int
  BY WordSizes DEF Word
<1>2. a % WordBits \in 0 .. WordBits - 1
  <2>1. WordBits \in Nat \ {0}
    BY WordAssumption DEF WordBits
  <2> QED BY <1>1, <2>1, Divided
<1>3. Bool(a < b) \in Word /\ Bool(Unsigned(a) < Unsigned(b)) \in Word
  BY WordSizes DEF Bool, Word
<1>4. CASE op \in {"ADDU", "SUBU"}
  BY <1>4, SumWraps DEF RegisterResult
<1>5. CASE op \in {"AND", "OR", "XOR", "NOR"}
  BY <1>1, <1>5, BitTypes, NotOrTypes DEF RegisterResult
<1>6. CASE op \in {"SLT", "SLTU"}
  BY <1>3, <1>6 DEF RegisterResult
<1>7. CASE op \in {"SLL", "SLLV", "SRA", "SRL", "SRAV", "SRLV"}
  BY <1>2, <1>7, ShiftFacts DEF RegisterResult, Shifts
<1> QED BY <1>4, <1>5, <1>6, <1>7 DEF RegisterOps

LEMMA ImmediateResultType ==
  ASSUME NEW op \in ImmediateOps, NEW a \in Word, NEW x \in Word
  PROVE  ImmediateResult(op, a, x) \in Word
<1>1. a \in Int /\ x \in Int /\ x % HalfSize \in Int
  <2>1. a \in Int /\ x \in Int
    BY WordSizes DEF Word
  <2>2. HalfSize \in Nat \ {0}
    BY WordFacts
  <2> QED BY <2>1, <2>2, Divided
<1>2. Bool(a < x) \in Word /\ Bool(Unsigned(a) < Unsigned(x)) \in Word
  BY WordSizes DEF Bool, Word
<1>3. CASE op = "ADDIU"
  BY <1>3, SumWraps DEF ImmediateResult
<1>4. CASE op \in {"ANDI", "ORI", "XORI"}
  BY <1>1, <1>4, BitTypes, NotOrTypes DEF ImmediateResult
<1>5. CASE op \in {"SLTI", "SLTIU"}
  BY <1>2, <1>5 DEF ImmediateResult
<1>6. CASE op = "LUI"
  <2>1. 2 * ByteBits \in 0 .. WordBits - 1
    BY WordAssumption DEF WordBits
  <2> QED BY <1>6, <2>1, ShiftFacts DEF ImmediateResult
<1> QED BY <1>3, <1>4, <1>5, <1>6 DEF ImmediateOps

(* OP_ADD and OP_ADDI: the test on the signs finds out whether the sum fits.  *)
THEOREM AddTestExact ==
  ASSUME NEW a \in Word, NEW b \in Word
  PROVE  AddOverflows(a, b) <=> a + b \notin Word
BY WordSizes DEF AddOverflows, SignsDiffer, WrapOnce, Word

(* OP_SUB: so does the one for the difference.                                *)
THEOREM SubTestExact ==
  ASSUME NEW a \in Word, NEW b \in Word
  PROVE  SubOverflows(a, b) <=> a - b \notin Word
BY WordSizes DEF SubOverflows, SignsDiffer, WrapOnce, Word

-----------------------------------------------------------------------------
(* Division.                                                                  *)
LEMMA NaturalDivision ==
  ASSUME NEW u \in Nat, NEW v \in Nat \ {0}
  PROVE  /\ u \div v \in 0 .. u /\ u % v \in 0 .. v - 1
         /\ u = v * (u \div v) + (u % v)
         /\ v >= 2 => 2 * (u \div v) <= u
<1> DEFINE q == u \div v
           r == u % v
<1>1. q \in Int /\ r \in 0 .. v - 1 /\ u = v * q + r
  BY Divided
<1> HIDE DEF q, r
<1>2. q >= 0
  <2>1. ASSUME q <= -1 PROVE FALSE
    <3>1. v * (q + 1) <= 0 /\ v * (q + 1) = v * q + v
      BY <1>1, <2>1
    <3> QED BY <1>1, <3>1
  <2> QED BY <1>1, <2>1
<1>3. v * q >= q
  BY <1>1, <1>2
<1>4. v >= 2 => v * q >= 2 * q
  BY <1>1, <1>2
<1> QED BY <1>1, <1>2, <1>3, <1>4 DEF q, r

(* The quotient of C is towards zero, and the remainder has the sign of the   *)
(* dividend.                                                                  *)
Shares(a, b, q, r) == a = q * b + r /\ Abs(r) < Abs(b) /\ r * a >= 0

(* OP_DIV: the two words are quotient and remainder, and the one division     *)
(* that fails, of the lowest word by -1, has no quotient that is a word.      *)
THEOREM SignedDivision ==
  ASSUME NEW a \in Word, NEW b \in Word, b # 0
  PROVE  /\ Quotient(a, b) \in Int /\ Remainder(a, b) \in Int
         /\ Shares(a, b, Quotient(a, b), Remainder(a, b))
         /\ ~DivisionFails(a, b) => Quotient(a, b) \in Word /\ Remainder(a, b) \in Word
         /\ DivisionFails(a, b) => ~\E q, r \in Word : Shares(a, b, q, r)
<1> DEFINE u == Abs(a)
           v == Abs(b)
           q == u \div v
           r == u % v
<1>1. a \in Int /\ b \in Int /\ u \in Nat /\ v \in Nat \ {0} /\ u <= SignBit /\ v <= SignBit
  BY WordSizes DEF Abs, Word
<1>2. /\ q \in 0 .. u /\ r \in 0 .. v - 1 /\ u = v * q + r
      /\ v >= 2 => 2 * q <= u
  BY <1>1, NaturalDivision
<1> HIDE DEF u, v
<1>3. /\ Quotient(a, b) = IF SignsDiffer(a, b) THEN -q ELSE q
      /\ Remainder(a, b) = IF a < 0 THEN -r ELSE r
  <2> HIDE DEF q, r
  <2>1. Quotient(a, b) = IF SignsDiffer(a, b) THEN -q ELSE q
    BY DEF Quotient, q, u, v
  <2>2. CASE a >= 0 /\ b >= 0
    <3>1. a = u /\ b = v /\ ~SignsDiffer(a, b)
      BY <1>1, <2>2 DEF u, v, Abs, SignsDiffer
    <3> QED BY <1>1, <1>2, <2>1, <2>2, <3>1 DEF Remainder
  <2>3. CASE a < 0 /\ b < 0
    <3>1. a = -u /\ b = -v /\ ~SignsDiffer(a, b)
      BY <1>1, <2>3 DEF u, v, Abs, SignsDiffer
    <3>2. a - b * q = -(u - v * q)
      BY <1>1, <1>2, <3>1
    <3> QED BY <1>1, <1>2, <2>1, <2>3, <3>1, <3>2 DEF Remainder
  <2>4. CASE a >= 0 /\ b < 0
    <3>1. a = u /\ b = -v /\ SignsDiffer(a, b)
      BY <1>1, <2>4 DEF u, v, Abs, SignsDiffer
    <3>2. a - b * (-q) = u - v * q
      BY <1>1, <1>2, <3>1
    <3> QED BY <1>1, <1>2, <2>1, <2>4, <3>1, <3>2 DEF Remainder
  <2>5. CASE a < 0 /\ b >= 0
    <3>1. a = -u /\ b = v /\ SignsDiffer(a, b)
      BY <1>1, <2>5 DEF u, v, Abs, SignsDiffer
    <3>2. a - b * (-q) = -(u - v * q)
      BY <1>1, <1>2, <3>1
    <3> QED BY <1>1, <1>2, <2>1, <2>5, <3>1, <3>2 DEF Remainder
  <2> QED BY <1>1, <2>2, <2>3, <2>4, <2>5
<1> HIDE DEF q, r
<1>4. Quotient(a, b) \in Int /\ Remainder(a, b) \in Int
  BY <1>1, <1>2, <1>3
<1>5. a = Quotient(a, b) * b + Remainder(a, b)
  BY <1>1, <1>4 DEF Remainder
<1>6. Abs(Remainder(a, b)) < Abs(b)
  <2>1. Abs(Remainder(a, b)) = r
    BY <1>1, <1>2, <1>3 DEF Abs
  <2> QED BY <1>1, <1>2, <2>1 DEF v
<1>7. Remainder(a, b) * a >= 0
  <2>1. CASE a < 0
    <3>1. (-r) * a = r * (-a) /\ r * (-a) >= 0
      BY <1>1, <1>2, <2>1
    <3> QED BY <1>3, <2>1, <3>1
  <2>2. CASE a >= 0
    <3>1. r * a >= 0
      BY <1>1, <1>2, <2>2
    <3> QED BY <1>1, <1>3, <2>2, <3>1
  <2> QED BY <1>1, <2>1, <2>2
<1>8. ASSUME ~DivisionFails(a, b) PROVE Quotient(a, b) \in Word /\ Remainder(a, b) \in Word
  <2>1. Remainder(a, b) \in Word
    BY <1>1, <1>2, <1>3, WordSizes DEF Word
  <2>2. CASE SignsDiffer(a, b)
    BY <1>1, <1>2, <1>3, <2>2, WordSizes DEF Word
  <2>3. CASE ~SignsDiffer(a, b) /\ u < SignBit
    BY <1>1, <1>2, <1>3, <2>3, WordSizes DEF Word
  <2>4. CASE ~SignsDiffer(a, b) /\ v >= 2
    BY <1>1, <1>2, <1>3, <2>4, WordSizes DEF Word
  <2>5. ~(~SignsDiffer(a, b) /\ u = SignBit /\ v = 1)
    BY <1>1, <1>8, WordSizes DEF DivisionFails, SignsDiffer, u, v, Abs, Word
  <2> QED BY <1>1, <2>1, <2>2, <2>3, <2>4, <2>5, WordSizes
<1>9. ASSUME DivisionFails(a, b), NEW x \in Word, NEW y \in Word, Shares(a, b, x, y)
      PROVE FALSE
  <2>1. a = -SignBit /\ b = -1 /\ x \in Int /\ y \in Int
    BY <1>9, WordSizes DEF DivisionFails, Word
  <2>2. y = 0
    BY <1>9, <2>1 DEF Shares, Abs
  <2>3. x = SignBit
    BY <1>9, <2>1, <2>2, WordSizes DEF Shares
  <2> QED BY <1>9, <2>3, WordSizes DEF Word
<1> QED BY <1>4, <1>5, <1>6, <1>7, <1>8, <1>9 DEF Shares

(* OP_DIVU: the words hold the quotient and the remainder of the operands,    *)
(* both read as unsigned.                                                     *)
THEOREM UnsignedDivision ==
  ASSUME NEW a \in Word, NEW b \in Word, b # 0
  PROVE  /\ Wrap(Unsigned(a) \div Unsigned(b)) \in Word
         /\ Wrap(Unsigned(a) % Unsigned(b)) \in Word
         /\ Unsigned(b) # 0
         /\ Shares(Unsigned(a), Unsigned(b), Unsigned(Wrap(Unsigned(a) \div Unsigned(b))),
                   Unsigned(Wrap(Unsigned(a) % Unsigned(b))))
<1> DEFINE u == Unsigned(a)
           v == Unsigned(b)
           q == u \div v
           r == u % v
<1>1. u \in 0 .. WordSize - 1 /\ v \in 1 .. WordSize - 1
  BY WordSizes, Unsigneds DEF Word
<1> HIDE DEF u, v
<1>2. q \in 0 .. u /\ r \in 0 .. v - 1 /\ u = v * q + r
  <2>1. u \in Nat /\ v \in Nat \ {0}
    BY <1>1, WordSizes
  <2> QED BY <2>1, NaturalDivision
<1> HIDE DEF q, r
<1>3. ASSUME NEW x \in 0 .. WordSize - 1
      PROVE  Wrap(x) \in Word /\ Unsigned(Wrap(x)) = x
  <2>1. x \in Int /\ x = WordSize * 0 + x
    BY WordSizes
  <2>2. x % WordSize = x
    BY <1>3, <2>1, WordSizes, DividedOnce
  <2> QED BY <2>1, <2>2, WrapFacts
<1>4. q \in 0 .. WordSize - 1 /\ r \in 0 .. WordSize - 1
  BY <1>1, <1>2, WordSizes
<1>5. Shares(u, v, q, r)
  <2>1. q * v + r = u /\ r * u >= 0
    BY <1>1, <1>2, WordSizes
  <2> QED BY <1>1, <1>2, <2>1, WordSizes DEF Shares, Abs
<1>6. /\ Wrap(q) \in Word /\ Wrap(r) \in Word /\ v # 0
      /\ Shares(u, v, Unsigned(Wrap(q)), Unsigned(Wrap(r)))
  BY <1>1, <1>3, <1>4, <1>5, WordSizes
<1> QED BY <1>6 DEF u, v, q, r

-----------------------------------------------------------------------------
(* Multiplication.  The loop keeps the pairs of words below the square of     *)
(* WordSize, so that no carry out of the high word is ever lost.              *)
LEMMA Reduced ==
  ASSUME NEW m \in Nat \ {0}, NEW x \in 0 .. m - 1
  PROVE  x % m = x
<1>1. x = m * 0 + x
  OBVIOUS
<1>2. (m * 0 + x) % m = x
  BY DividedOnce
<1> QED BY <1>1, <1>2

LEMMA WrapReduced ==
  ASSUME NEW x \in 0 .. WordSize - 1
  PROVE  /\ Wrap(x) \in Word /\ Unsigned(Wrap(x)) = x
         /\ Wrap(x) = IF x >= SignBit THEN x - WordSize ELSE x
<1>1. x \in Int /\ x % WordSize = x
  BY WordSizes, Reduced
<1>2. Wrap(x) = IF x >= SignBit THEN x - WordSize ELSE x
  BY <1>1, WordSizes DEF Wrap, Signed
<1> QED BY <1>1, <1>2, WrapFacts

Cell == 0 .. WordSize - 1

Multiplier == [a : Int, bLo : Cell, bHi : Cell, lo : Cell, hi : Cell]

Pair(high, low) == high * WordSize + low

LEMMA PairBelow ==
  ASSUME NEW h \in Int, NEW l \in Nat, Pair(h, l) < WordSize * WordSize
  PROVE  h < WordSize
<1>1. WordSize \in Nat \ {0}
  BY WordSizes
<1>2. ASSUME h >= WordSize PROVE FALSE
  <2>1. h * WordSize >= WordSize * WordSize
    BY <1>1, <1>2
  <2> QED BY <1>1, <2>1 DEF Pair
<1> QED BY <1>1, <1>2

LEMMA AddInFacts ==
  ASSUME NEW m \in Multiplier
  PROVE  /\ AddIn(m) \in Multiplier
         /\ AddIn(m).a = m.a /\ AddIn(m).bLo = m.bLo /\ AddIn(m).bHi = m.bHi
         /\ Pair(m.hi, m.lo) + Pair(m.bHi, m.bLo) < WordSize * WordSize
              => Pair(AddIn(m).hi, AddIn(m).lo) = Pair(m.hi, m.lo) + Pair(m.bHi, m.bLo)
<1> DEFINE c == (m.lo + m.bLo) \div WordSize
           l == (m.lo + m.bLo) % WordSize
           h == m.hi + m.bHi + c
<1>1. /\ m.lo \in Cell /\ m.hi \in Cell /\ m.bLo \in Cell /\ m.bHi \in Cell
      /\ WordSize \in Nat \ {0}
  BY WordSizes DEF Multiplier
<1>2. m.lo + m.bLo \in Nat
  BY <1>1 DEF Cell
<1>3. c \in Nat /\ l \in Cell /\ m.lo + m.bLo = WordSize * c + l
  <2>1. c \in 0 .. m.lo + m.bLo
    BY <1>1, <1>2, NaturalDivision
  <2>2. /\ l \in 0 .. WordSize - 1 /\ c \in Int
        /\ m.lo + m.bLo = WordSize * c + l
    <3>1. m.lo + m.bLo \in Int
      BY <1>2
    <3> QED BY <1>1, <3>1, Divided
  <2> QED BY <1>2, <2>1, <2>2 DEF Cell
<1>4. AddIn(m).lo = l /\ AddIn(m).hi = h % WordSize
      /\ AddIn(m).a = m.a /\ AddIn(m).bLo = m.bLo /\ AddIn(m).bHi = m.bHi
  BY DEF AddIn, Multiplier
<1> HIDE DEF c, l
<1>5. h \in Nat
  BY <1>1, <1>3 DEF Cell
<1>6. h % WordSize \in Cell
  <2> HIDE DEF h
  <2>1. h \in Int
    BY <1>5
  <2>2. h % WordSize \in 0 .. WordSize - 1
    BY <1>1, <2>1, Divided
  <2> QED BY <2>2 DEF Cell
<1>7. AddIn(m) \in Multiplier
  <2>1. l \in Cell /\ h % WordSize \in Cell
    BY <1>3, <1>6
  <2>2. AddIn(m) = [m EXCEPT !.lo = l, !.hi = h % WordSize]
    BY DEF AddIn, l, c
  <2> HIDE DEF h
  <2> QED BY <2>1, <2>2 DEF Multiplier
<1>8. ASSUME Pair(m.hi, m.lo) + Pair(m.bHi, m.bLo) < WordSize * WordSize
      PROVE  Pair(h % WordSize, l) = Pair(m.hi, m.lo) + Pair(m.bHi, m.bLo)
  <2>1. Pair(h, l) = Pair(m.hi, m.lo) + Pair(m.bHi, m.bLo)
    <3>1. h * WordSize = m.hi * WordSize + m.bHi * WordSize + WordSize * c
      BY <1>1, <1>3 DEF Cell
    <3>2. WordSize * c + l = m.lo + m.bLo
      BY <1>3
    <3>3. h * WordSize \in Int /\ l \in Int /\ WordSize * c \in Int
      BY <1>1, <1>3, <1>5 DEF Cell
    <3>4. /\ m.hi * WordSize \in Int /\ m.bHi * WordSize \in Int
          /\ m.lo \in Int /\ m.bLo \in Int
      BY <1>1 DEF Cell
    <3> HIDE DEF h
    <3> DEFINE p == h * WordSize
               q == m.hi * WordSize
               r == m.bHi * WordSize
               s == WordSize * c
    <3>5. p = q + r + s /\ s + l = m.lo + m.bLo
      BY <3>1, <3>2
    <3>6. p \in Int /\ q \in Int /\ r \in Int /\ s \in Int
      BY <3>3, <3>4
    <3>7. Pair(h, l) = p + l /\ Pair(m.hi, m.lo) = q + m.lo /\ Pair(m.bHi, m.bLo) = r + m.bLo
      BY DEF Pair
    <3> HIDE DEF p, q, r, s
    <3> QED BY <3>3, <3>4, <3>5, <3>6, <3>7
  <2>2. l \in Nat /\ h \in Int
    BY <1>3, <1>5 DEF Cell
  <2> HIDE DEF h
  <2>3. h < WordSize
    BY <1>8, <2>1, <2>2, PairBelow
  <2>4. h % WordSize = h
    BY <1>1, <1>5, <2>3, Reduced
  <2> QED BY <2>1, <2>4
<1> QED BY <1>4, <1>7, <1>8

LEMMA DoubleFacts ==
  ASSUME NEW m \in Multiplier
  PROVE  /\ Double(m) \in Multiplier
         /\ Double(m).a = m.a \div 2 /\ Double(m).lo = m.lo /\ Double(m).hi = m.hi
         /\ 2 * Pair(m.bHi, m.bLo) < WordSize * WordSize
              => Pair(Double(m).bHi, Double(m).bLo) = 2 * Pair(m.bHi, m.bLo)
<1> DEFINE c == m.bLo \div SignBit
           r == m.bLo % SignBit
           h == 2 * m.bHi + c
           l == (2 * m.bLo) % WordSize
<1>1. /\ m.bLo \in Cell /\ m.bHi \in Cell /\ m.a \in Int
      /\ WordSize \in Nat \ {0} /\ SignBit \in Nat \ {0} /\ WordSize = 2 * SignBit
  BY WordSizes DEF Multiplier
<1>2. c \in Nat /\ r \in 0 .. SignBit - 1 /\ m.bLo = SignBit * c + r
  <2>1. m.bLo \in Nat
    BY <1>1 DEF Cell
  <2>2. c \in 0 .. m.bLo
    BY <1>1, <2>1, NaturalDivision
  <2>3. /\ r \in 0 .. SignBit - 1 /\ c \in Int
        /\ m.bLo = SignBit * c + r
    <3>1. m.bLo \in Int
      BY <2>1
    <3> QED BY <1>1, <3>1, Divided
  <2> QED BY <2>1, <2>2, <2>3
<1>3. TwoTo[1] = 2
  <2>1. 1 \in 1 .. WordBits /\ 1 - 1 = 0
    BY WordAssumption DEF WordBits
  <2> QED BY <2>1, PowerTable
<1>4. /\ Double(m).bHi = h % WordSize /\ Double(m).bLo = l
      /\ Double(m).a = m.a \div 2 /\ Double(m).lo = m.lo /\ Double(m).hi = m.hi
  BY <1>3 DEF Double, Multiplier, ShiftRight
<1>5. l = 2 * r
  <2>1. 2 * m.bLo = WordSize * c + 2 * r /\ 2 * r \in 0 .. WordSize - 1
    BY <1>1, <1>2
  <2> HIDE DEF c, r
  <2>2. c \in Int
    BY <1>2
  <2>3. (WordSize * c + 2 * r) % WordSize = 2 * r
    BY <1>1, <2>1, <2>2, DividedOnce
  <2> QED BY <2>1, <2>3
<1>6. l \in Cell /\ h \in Nat
  BY <1>1, <1>2, <1>5 DEF Cell
<1> HIDE DEF c, r
<1>7. h % WordSize \in Cell
  <2> HIDE DEF h
  <2>1. h \in Int
    BY <1>6
  <2>2. h % WordSize \in 0 .. WordSize - 1
    BY <1>1, <2>1, Divided
  <2> QED BY <2>2 DEF Cell
<1>8. Double(m) \in Multiplier
  <2>1. m.a \div 2 \in Int
    BY <1>1, Divided
  <2>2. Double(m) = [m EXCEPT !.bHi = h % WordSize, !.bLo = l, !.a = m.a \div 2]
    BY <1>3 DEF Double, ShiftRight, c
  <2> HIDE DEF h, l
  <2> QED BY <1>6, <1>7, <2>1, <2>2 DEF Multiplier
<1>9. ASSUME 2 * Pair(m.bHi, m.bLo) < WordSize * WordSize
      PROVE  Pair(h % WordSize, l) = 2 * Pair(m.bHi, m.bLo)
  <2>1. Pair(h, l) = 2 * Pair(m.bHi, m.bLo)
    <3>1. h * WordSize = 2 * (m.bHi * WordSize) + WordSize * c
      BY <1>1, <1>2 DEF Cell
    <3>2. 2 * m.bLo = WordSize * c + 2 * r
      BY <1>1, <1>2
    <3> QED BY <1>1, <1>2, <1>5, <3>1, <3>2 DEF Pair, Cell
  <2>2. l \in Nat /\ h \in Int
    BY <1>6 DEF Cell
  <2> HIDE DEF h, l
  <2>3. h < WordSize
    BY <1>9, <2>1, <2>2, PairBelow
  <2>4. h % WordSize = h
    BY <1>1, <1>6, <2>3, Reduced
  <2> QED BY <2>1, <2>4
<1> QED BY <1>4, <1>8, <1>9

LEMMA MultTurnType ==
  ASSUME NEW m \in Multiplier
  PROVE  MultTurn(m) \in Multiplier
<1>1. AddIn(m) \in Multiplier /\ Double(m) \in Multiplier
  BY AddInFacts, DoubleFacts
<1>2. Double(AddIn(m)) \in Multiplier
  BY <1>1, DoubleFacts
<1>3. [AddIn(m) EXCEPT !.a = 0] \in Multiplier
  BY <1>1 DEF Multiplier
<1> QED BY <1>1, <1>2, <1>3 DEF MultTurn

(* The loop after n turns, for a multiplier a: it has added the product of b  *)
(* and the lowest n bits, or it is done.                                      *)
Product(m, n, a, b) ==
  /\ m \in Multiplier
  /\ \/ /\ m.a = a \div TwoTo[n]
        /\ Pair(m.bHi, m.bLo) = Unsigned(b) * TwoTo[n]
        /\ Pair(m.hi, m.lo) = Unsigned(b) * (a % TwoTo[n])
     \/ /\ m.a = 0
        /\ Pair(m.hi, m.lo) = Unsigned(b) * Unsigned(a)

LEMMA PowersBelow ==
  ASSUME NEW n \in 0 .. WordBits
  PROVE  TwoTo[n] \in Nat \ {0} /\ TwoTo[n] <= WordSize
<1>1. WordBits \in Nat
  BY WordAssumption DEF WordBits
<1>2. n \in Nat /\ WordBits - n \in Nat /\ n + (WordBits - n) = WordBits
      /\ n + (WordBits - n) <= WordBits /\ WordBits - n \in 0 .. WordBits
  BY <1>1
<1>3. TwoTo[n + (WordBits - n)] = TwoTo[n] * TwoTo[WordBits - n]
  BY <1>2, PowersAdd
<1>4. TwoTo[n] \in Nat \ {0} /\ TwoTo[WordBits - n] \in Nat \ {0}
  BY <1>2, PowerTable
<1>5. TwoTo[n] * TwoTo[WordBits - n] >= TwoTo[n]
  BY <1>4
<1> QED BY <1>2, <1>3, <1>4, <1>5 DEF WordSize

(* One more bit of a number. *)
LEMMA NextBit ==
  ASSUME NEW a \in Int, NEW t \in Nat \ {0}
  PROVE  /\ (a \div t) \div 2 = a \div (2 * t)
         /\ (a \div t) % 2 \in {0, 1}
         /\ a % (2 * t) = t * ((a \div t) % 2) + (a % t)
<1> DEFINE q == a \div t
           r == a % t
           h == q \div 2
           c == q % 2
<1>1. q \in Int /\ r \in 0 .. t - 1 /\ a = t * q + r
  BY Divided
<1> HIDE DEF q, r
<1>2. h \in Int /\ c \in 0 .. 1 /\ q = 2 * h + c
  <2>1. 2 \in Nat \ {0}
    OBVIOUS
  <2> QED BY <1>1, <2>1, Divided
<1> HIDE DEF h, c
<1>3. t * q = (2 * t) * h + t * c
  BY <1>1, <1>2
<1>4. t * c + r \in 0 .. (2 * t) - 1 /\ 2 * t \in Nat \ {0}
  <2>1. t * c = IF c = 0 THEN 0 ELSE t
    BY <1>2
  <2> QED BY <1>1, <1>2, <2>1
<1>5. a = (2 * t) * h + (t * c + r)
  BY <1>1, <1>2, <1>3
<1>6. a \div (2 * t) = h /\ a % (2 * t) = t * c + r
  BY <1>2, <1>4, <1>5, DividedOnce
<1> QED BY <1>2, <1>6 DEF q, r, h, c

LEMMA ProductStep ==
  ASSUME NEW a \in Word, NEW b \in Word, NEW n \in 1 .. WordBits, NEW m,
         Product(m, n - 1, a, b)
  PROVE  Product(MultTurn(m), n, a, b)
<1> DEFINE t == TwoTo[n - 1]
           u == Unsigned(b)
           r == a % t
           c == (a \div t) % 2
<1>1. /\ n - 1 \in 0 .. WordBits /\ n \in 0 .. WordBits
      /\ WordSize \in Nat \ {0} /\ a \in Int /\ b \in Int
  BY WordSizes, WordAssumption DEF WordBits, Word
<1>2. t \in Nat \ {0} /\ TwoTo[n] = 2 * t /\ 2 * t <= WordSize
  BY <1>1, PowerTable, PowersBelow
<1>3. u \in 0 .. WordSize - 1
  BY <1>1, UnsignedType
<1> HIDE DEF t, u
<1>4. r \in 0 .. t - 1 /\ a \div t \in Int /\ a = t * (a \div t) + r
  BY <1>1, <1>2, Divided
<1>5. /\ (a \div t) \div 2 = a \div (2 * t) /\ c \in {0, 1}
      /\ a % (2 * t) = t * c + r
  BY <1>1, <1>2, NextBit
<1>6. m \in Multiplier /\ MultTurn(m) \in Multiplier
  BY MultTurnType DEF Product
<1>7. CASE m.a = 0 /\ Pair(m.hi, m.lo) = u * Unsigned(a)
  <2>1. BitAt(m.a, 0) = 0
    <3>1. TwoTo[0] = 1
      BY PowerTable
    <3>2. 0 \div 1 = 0 /\ 0 % 2 = 0
      OBVIOUS
    <3> QED BY <1>7, <3>1, <3>2 DEF BitAt
  <2>2. MultTurn(m) = Double(m)
    BY <1>7, <2>1 DEF MultTurn
  <2>3. Double(m).a = 0 /\ Double(m).hi = m.hi /\ Double(m).lo = m.lo
    BY <1>6, <1>7, DoubleFacts
  <2> QED BY <1>6, <1>7, <2>2, <2>3 DEF Product, u
<1>8. CASE /\ m.a = a \div t
           /\ Pair(m.bHi, m.bLo) = u * t
           /\ Pair(m.hi, m.lo) = u * r
  <2>1. u * (2 * t) < WordSize * WordSize
    <3>1. u * (2 * t) <= u * WordSize
      BY <1>1, <1>2, <1>3
    <3>2. u * WordSize < WordSize * WordSize
      BY <1>1, <1>3
    <3>3. u * (2 * t) \in Int /\ u * WordSize \in Int /\ WordSize * WordSize \in Int
      BY <1>1, <1>2, <1>3
    <3> QED BY <3>1, <3>2, <3>3
  <2>2. u * (2 * t) = 2 * (u * t) /\ u * t + u * r < 2 * (u * t) + 1
    <3>1. u * r <= u * t
      BY <1>1, <1>2, <1>3, <1>4
    <3> QED BY <1>1, <1>2, <1>3, <1>4, <3>1
  <2>3. u * r \in Int /\ u * t \in Int /\ WordSize * WordSize \in Int
    BY <1>1, <1>2, <1>3, <1>4
  <2>4. Pair(m.hi, m.lo) + Pair(m.bHi, m.bLo) < WordSize * WordSize
    BY <1>8, <2>1, <2>2, <2>3
  <2>5. 2 * Pair(m.bHi, m.bLo) < WordSize * WordSize
    BY <1>8, <2>1, <2>2
  <2>6. /\ AddIn(m) \in Multiplier /\ AddIn(m).a = m.a
        /\ AddIn(m).bHi = m.bHi /\ AddIn(m).bLo = m.bLo
        /\ Pair(AddIn(m).hi, AddIn(m).lo) = u * r + u * t
    BY <1>6, <1>8, <2>4, AddInFacts
  <2>7. u * (t * c + r) = IF c = 1 THEN u * r + u * t ELSE u * r
    <3> HIDE DEF r, c
    <3>1. CASE c = 1
      <4>1. t * c + r = r + t
        BY <1>2, <1>4, <3>1
      <4>2. u * (r + t) = u * r + u * t
        BY <1>2, <1>3, <1>4
      <4> QED BY <3>1, <4>1, <4>2
    <3>2. CASE c = 0
      <4>1. t * c + r = r
        BY <1>2, <1>4, <3>2
      <4> QED BY <3>2, <4>1
    <3> QED BY <1>5, <3>1, <3>2
  <2>8. CASE m.a = 1
    <3>1. MultTurn(m) = [AddIn(m) EXCEPT !.a = 0]
      BY <2>8 DEF MultTurn
    <3>2. /\ MultTurn(m).a = 0 /\ MultTurn(m).hi = AddIn(m).hi
          /\ MultTurn(m).lo = AddIn(m).lo
      BY <2>6, <3>1 DEF Multiplier
    <3>3. a = t + r
      BY <1>2, <1>4, <1>8, <2>8
    <3>4. Unsigned(a) = a
      BY <1>2, <1>4, <3>3, Unsigneds
    <3>5. u * Unsigned(a) = u * r + u * t
      BY <1>2, <1>3, <1>4, <3>3, <3>4
    <3> QED BY <1>6, <2>6, <3>2, <3>5 DEF Product, u
  <2>9. BitAt(m.a, 0) = c
    <3>1. TwoTo[0] = 1
      BY PowerTable
    <3>2. (a \div t) \div 1 = a \div t
      BY <1>4
    <3> QED BY <1>8, <3>1, <3>2 DEF BitAt
  <2>10. CASE m.a # 1 /\ c = 1
    <3>1. MultTurn(m) = Double(AddIn(m))
      BY <2>9, <2>10 DEF MultTurn
    <3>2. /\ Double(AddIn(m)).a = a \div (2 * t)
          /\ Double(AddIn(m)).hi = AddIn(m).hi /\ Double(AddIn(m)).lo = AddIn(m).lo
          /\ Pair(Double(AddIn(m)).bHi, Double(AddIn(m)).bLo) = 2 * (u * t)
      BY <1>5, <1>8, <2>5, <2>6, DoubleFacts
    <3>3. Pair(MultTurn(m).hi, MultTurn(m).lo) = u * (a % (2 * t))
      BY <1>5, <2>6, <2>7, <2>10, <3>1, <3>2
    <3> QED BY <1>2, <1>6, <2>2, <3>1, <3>2, <3>3 DEF Product, u
  <2>11. CASE m.a # 1 /\ c = 0
    <3>1. MultTurn(m) = Double(m)
      BY <2>9, <2>11 DEF MultTurn
    <3>2. /\ Double(m).a = a \div (2 * t)
          /\ Double(m).hi = m.hi /\ Double(m).lo = m.lo
          /\ Pair(Double(m).bHi, Double(m).bLo) = 2 * (u * t)
      BY <1>5, <1>6, <1>8, <2>5, DoubleFacts
    <3>3. Pair(MultTurn(m).hi, MultTurn(m).lo) = u * (a % (2 * t))
      BY <1>5, <1>8, <2>7, <2>11, <3>1, <3>2
    <3> QED BY <1>2, <1>6, <2>2, <3>1, <3>2, <3>3 DEF Product, u
  <2> QED BY <1>5, <2>8, <2>10, <2>11
<1> QED BY <1>7, <1>8 DEF Product, t, u

LEMMA MultLoopProduct ==
  ASSUME NEW a \in Word, NEW b \in Word
  PROVE  /\ MultLoop(MultStart(a, b)) \in Multiplier
         /\ MultLoop(MultStart(a, b)).hi \in Cell
         /\ MultLoop(MultStart(a, b)).lo \in Cell
         /\ Pair(MultLoop(MultStart(a, b)).hi, MultLoop(MultStart(a, b)).lo)
              = Unsigned(a) * Unsigned(b)
<1> DEFINE start == MultStart(a, b)
           F == [x \in Multiplier \X (1 .. WordBits) |-> MultTurn(x[1])]
           Turns(f) == [n \in 0 .. WordBits |-> IF n = 0 THEN start ELSE MultTurn(f[n - 1])]
           turns == CHOOSE f : f = Turns(f)
<1>1. WordBits \in Nat /\ a \in Int /\ b \in Int /\ WordSize \in Nat \ {0}
  BY WordSizes, WordAssumption DEF WordBits, Word
<1>2. Unsigned(b) \in 0 .. WordSize - 1 /\ Unsigned(a) \in 0 .. WordSize - 1
  BY <1>1, UnsignedType
<1>3. start \in Multiplier
  BY <1>1, <1>2 DEF MultStart, Multiplier, Cell
<1>4. Product(start, 0, a, b)
  <2>1. TwoTo[0] = 1 /\ a \div 1 = a /\ a % 1 = 0
    BY <1>1, PowerTable
  <2>2. /\ start.a = a /\ Pair(start.bHi, start.bLo) = Unsigned(b) * 1
        /\ Pair(start.hi, start.lo) = Unsigned(b) * 0
    BY <1>1, <1>2 DEF MultStart, Pair
  <2> QED BY <1>3, <2>1, <2>2 DEF Product
<1> HIDE DEF start
<1>5. Rounding(F, Multiplier, WordBits)
  BY MultTurnType DEF Rounding
<1>6. PICK f : Loops(f, Multiplier, WordBits, start, F)
  <2> HIDE DEF F
  <2> QED BY <1>1, <1>3, <1>5, Recursion
<1>7. ASSUME NEW n \in 1 .. WordBits PROVE f[n] = MultTurn(f[n - 1])
  <2>1. f[n - 1] \in Multiplier
    BY <1>1, <1>6 DEF Loops
  <2>2. F[<<f[n - 1], n>>] = MultTurn(f[n - 1])
    BY <2>1
  <2> QED BY <1>6, <2>2 DEF Loops
<1>8. f = Turns(f)
  BY <1>1, <1>6, <1>7 DEF Loops
<1>9. turns = Turns(turns)
  BY <1>8
<1>10. MultLoop(start) = turns[WordBits]
  BY DEF MultLoop
<1> HIDE DEF turns
<1>11. turns[0] = start /\ \A n \in 1 .. WordBits : turns[n] = MultTurn(turns[n - 1])
  BY <1>1, <1>9
<1> DEFINE Kept == [n \in 0 .. WordBits |-> IF Product(turns[n], n, a, b) THEN 1 ELSE 0]
           P == {1}
<1>12. Kept[0] \in P
  BY <1>1, <1>4, <1>11
<1>13. ASSUME NEW n \in 1 .. WordBits, Kept[n - 1] \in P PROVE Kept[n] \in P
  <2>1. n - 1 \in 0 .. WordBits
    BY <1>1
  <2>2. Product(turns[n - 1], n - 1, a, b)
    BY <1>13, <2>1
  <2>3. Product(turns[n], n, a, b)
    BY <1>11, <2>2, ProductStep
  <2> QED BY <2>3
<1>14. \A n \in 0 .. WordBits : Kept[n] \in P
  <2> HIDE DEF Kept, P
  <2> QED BY <1>1, <1>12, <1>13, Rounds
<1>15. Product(turns[WordBits], WordBits, a, b)
  <2>1. Kept[WordBits] \in P
    <3> HIDE DEF Kept, P
    <3> QED BY <1>1, <1>14
  <2> QED BY <1>1, <2>1
<1>16. Unsigned(b) * (a % TwoTo[WordBits]) = Unsigned(a) * Unsigned(b)
       /\ Unsigned(b) * Unsigned(a) = Unsigned(a) * Unsigned(b)
  <2>1. a % TwoTo[WordBits] = Unsigned(a)
    BY DEF Unsigned, WordSize
  <2> QED BY <1>2, <2>1
<1> QED BY <1>10, <1>15, <1>16 DEF Product, Multiplier, start

(* OP_MULTU and Mult: the two words that the loop makes hold the product of   *)
(* the operands, both read as unsigned; no carry is lost.                     *)
THEOREM UnsignedProduct ==
  ASSUME NEW a \in Word, NEW b \in Word
  PROVE  /\ Mult(a, b, FALSE).hi \in Word /\ Mult(a, b, FALSE).lo \in Word
         /\ Unsigned(Mult(a, b, FALSE).hi) * WordSize + Unsigned(Mult(a, b, FALSE).lo)
              = Unsigned(a) * Unsigned(b)
<1> DEFINE x == Mult(a, b, FALSE)
<1> SUFFICES /\ x.hi \in Word /\ x.lo \in Word
             /\ Unsigned(x.hi) * WordSize + Unsigned(x.lo) = Unsigned(a) * Unsigned(b)
  OBVIOUS
<1> HIDE DEF x
<1>1. Unsigned(0) = 0 /\ 0 \in Word
  <2>1. 0 \in Word
    BY WordSizes DEF Word
  <2> QED BY <2>1, Unsigneds
<1>2. CASE a = 0 \/ b = 0
  <2>1. x.hi = 0 /\ x.lo = 0
    BY <1>2 DEF Mult, x
  <2>2. Unsigned(a) \in Int /\ Unsigned(b) \in Int /\ WordSize \in Int
    BY WordSizes, Unsigneds DEF Word
  <2> QED BY <1>1, <1>2, <2>1, <2>2
<1>3. CASE ~(a = 0 \/ b = 0)
  <2> DEFINE m == MultLoop(MultStart(a, b))
  <2>1. m.hi \in Cell /\ m.lo \in Cell /\ Pair(m.hi, m.lo) = Unsigned(a) * Unsigned(b)
    BY MultLoopProduct
  <2> HIDE DEF m
  <2>2. x = MultParts(m)
    BY <1>3 DEF Mult, m, x
  <2>3. x.hi = Wrap(m.hi) /\ x.lo = Wrap(m.lo)
    BY <2>2 DEF MultParts
  <2>4. /\ Wrap(m.hi) \in Word /\ Unsigned(Wrap(m.hi)) = m.hi
        /\ Wrap(m.lo) \in Word /\ Unsigned(Wrap(m.lo)) = m.lo
    BY <2>1, WrapReduced DEF Cell
  <2> QED BY <2>1, <2>3, <2>4 DEF Pair
<1> QED BY <1>2, <1>3

LEMMA AbsFacts ==
  ASSUME NEW a \in Word
  PROVE  /\ Abs(a) \in 0 .. SignBit /\ WrapOnce(Abs(a)) \in Word
         /\ Unsigned(WrapOnce(Abs(a))) = Abs(a)
         /\ a # 0 => Abs(a) > 0
<1>1. Abs(a) \in 0 .. SignBit /\ (a # 0 => Abs(a) > 0)
  BY WordSizes DEF Abs, Word
<1>2. Abs(a) \in 0 .. WordSize - 1 /\ Abs(a) \in -WordSize .. WordSize
  BY <1>1, WordSizes
<1> QED BY <1>1, <1>2, WrapOnceFacts, WrapReduced

LEMMA Complement ==
  ASSUME NEW x \in Cell
  PROVE  (-x) % WordSize = IF x = 0 THEN 0 ELSE WordSize - x
<1> DEFINE y == -x
           z == WordSize - x
<1>1. y \in Int /\ z \in Int /\ x \in Int
  BY WordSizes DEF Cell
<1>2. y + WordSize * 1 = z
  BY <1>1, WordSizes
<1>3. z \in IF x = 0 THEN {WordSize} ELSE 0 .. WordSize - 1
  BY WordSizes DEF Cell
<1>4. x = 0 => y % WordSize = 0
  <2>1. 0 \in 0 .. WordSize - 1 /\ WordSize \in Nat \ {0}
    BY WordSizes
  <2>2. 0 % WordSize = 0
    BY <2>1, Reduced
  <2> QED BY <2>2
<1> HIDE DEF y, z
<1>5. (y + WordSize * 1) % WordSize = y % WordSize
  <2> DEFINE k == 1
  <2>1. k \in Int
    OBVIOUS
  <2> HIDE DEF k
  <2>2. (y + WordSize * k) % WordSize = y % WordSize
    BY <1>1, <2>1, WordSizes, TurnsVanish
  <2> QED BY <2>2 DEF k
<1>6. x # 0 => z % WordSize = z
  BY <1>3, WordSizes, Reduced
<1> QED BY <1>2, <1>4, <1>5, <1>6 DEF y, z

LEMMA NegateFacts ==
  ASSUME NEW m \in Multiplier, m.hi < SignBit, Pair(m.hi, m.lo) > 0
  PROVE  /\ Negate(m).hi \in Cell /\ Negate(m).lo \in Cell
         /\ Wrap(Negate(m).hi) * WordSize + Negate(m).lo = -Pair(m.hi, m.lo)
<1> DEFINE h == WordSize - 1 - m.hi + IF m.lo = 0 THEN 1 ELSE 0
<1>1. /\ WordSize \in Nat \ {0} /\ WordSize = 2 * SignBit /\ SignBit \in Nat
      /\ m.hi \in Cell /\ m.lo \in Cell
  BY WordSizes DEF Multiplier
<1>2. Negate(m).lo = (-m.lo) % WordSize /\ Negate(m).hi = h % WordSize
  BY DEF Negate, Multiplier
<1>3. h \in Cell /\ h >= SignBit
  <2>1. m.lo = 0 => m.hi > 0
    BY <1>1 DEF Pair, Cell
  <2> QED BY <1>1, <2>1 DEF Cell
<1>4. h % WordSize = h
  <2> HIDE DEF h
  <2> QED BY <1>1, <1>3, Reduced DEF Cell
<1>5. Wrap(h) = h - WordSize
  <2> HIDE DEF h
  <2> QED BY <1>3, WrapReduced DEF Cell
<1>6. (-m.lo) % WordSize = IF m.lo = 0 THEN 0 ELSE WordSize - m.lo
  BY <1>1, Complement
<1>7. Negate(m).hi = h /\ Negate(m).lo = IF m.lo = 0 THEN 0 ELSE WordSize - m.lo
  BY <1>2, <1>4, <1>6
<1>8. Negate(m).hi \in Cell /\ Negate(m).lo \in Cell
  BY <1>1, <1>3, <1>7 DEF Cell
<1>9. (h - WordSize) * WordSize + Negate(m).lo = -Pair(m.hi, m.lo)
  <2>1. CASE m.lo = 0
    <3>1. h - WordSize = -m.hi
      BY <1>1, <2>1 DEF Cell
    <3>2. (-m.hi) * WordSize = -(m.hi * WordSize)
      BY <1>1 DEF Cell
    <3> QED BY <1>1, <1>7, <2>1, <3>1, <3>2 DEF Pair, Cell
  <2>2. CASE m.lo # 0
    <3>1. h - WordSize = -m.hi - 1
      BY <1>1, <2>2 DEF Cell
    <3>2. (-m.hi - 1) * WordSize = -(m.hi * WordSize) - WordSize
      BY <1>1 DEF Cell
    <3> QED BY <1>1, <1>7, <2>2, <3>1, <3>2 DEF Pair, Cell
  <2> QED BY <2>1, <2>2
<1> QED BY <1>5, <1>7, <1>8, <1>9

(* OP_MULT and Mult: so do they for operands with a sign, which is taken off  *)
(* before the loop and put back after it, for the lowest word as well.        *)
THEOREM SignedProduct ==
  ASSUME NEW a \in Word, NEW b \in Word
  PROVE  /\ Mult(a, b, TRUE).hi \in Word /\ Mult(a, b, TRUE).lo \in Word
         /\ Mult(a, b, TRUE).hi * WordSize + Unsigned(Mult(a, b, TRUE).lo) = a * b
<1> DEFINE x == Mult(a, b, TRUE)
<1> SUFFICES /\ x.hi \in Word /\ x.lo \in Word
             /\ x.hi * WordSize + Unsigned(x.lo) = a * b
  OBVIOUS
<1> HIDE DEF x
<1>1. a \in Int /\ b \in Int /\ WordSize \in Nat /\ WordSize = 2 * SignBit /\ SignBit \in Nat
      /\ SignBit >= 8
  BY WordSizes DEF Word
<1>2. CASE a = 0 \/ b = 0
  <2>1. x.hi = 0 /\ x.lo = 0
    BY <1>2 DEF Mult, x
  <2>2. 0 \in Word /\ Unsigned(0) = 0
    <3>1. 0 \in Word
      BY WordSizes DEF Word
    <3> QED BY <3>1, Unsigneds
  <2> QED BY <1>1, <1>2, <2>1, <2>2
<1>3. CASE ~(a = 0 \/ b = 0)
  <2> DEFINE m == MultLoop(MultStart(WrapOnce(Abs(a)), WrapOnce(Abs(b))))
             u == Abs(a)
             v == Abs(b)
  <2>1. /\ m \in Multiplier /\ m.hi \in Cell /\ m.lo \in Cell
        /\ Pair(m.hi, m.lo) = u * v
    BY MultLoopProduct, AbsFacts
  <2>2. u \in 1 .. SignBit /\ v \in 1 .. SignBit
    BY <1>1, <1>3, AbsFacts
  <2>3. a * b = IF SignsDiffer(a, b) THEN -(u * v) ELSE u * v
    BY <1>1 DEF SignsDiffer, Abs
  <2> HIDE DEF m, u, v
  <2>4. u * v > 0 /\ u * v <= SignBit * SignBit
    <3>1. u * v <= u * SignBit /\ u * SignBit <= SignBit * SignBit /\ u * v > 0
      BY <1>1, <2>2
    <3>2. u * v \in Int /\ u * SignBit \in Int /\ SignBit * SignBit \in Int
      BY <1>1, <2>2
    <3> QED BY <3>1, <3>2
  <2>5. m.hi < SignBit
    <3>1. ASSUME m.hi >= SignBit PROVE FALSE
      <4>1. m.hi * WordSize >= SignBit * WordSize
        BY <1>1, <2>1, <3>1 DEF Cell
      <4>2. SignBit * WordSize = SignBit * SignBit + SignBit * SignBit
        BY <1>1
      <4>3. m.hi * WordSize \in Int /\ m.lo \in Nat /\ SignBit * SignBit > 0
        BY <1>1, <2>1 DEF Cell
      <4> QED BY <1>1, <2>1, <2>4, <4>1, <4>2, <4>3 DEF Pair
    <3> QED BY <1>1, <2>1, <3>1 DEF Cell
  <2>6. CASE ~SignsDiffer(a, b)
    <3>1. x = MultParts(m)
      BY <1>3, <2>6 DEF Mult, m, x
    <3>2. x.hi = Wrap(m.hi) /\ x.lo = Wrap(m.lo)
      BY <3>1 DEF MultParts
    <3>3. /\ Wrap(m.hi) \in Word /\ Wrap(m.hi) = m.hi
          /\ Wrap(m.lo) \in Word /\ Unsigned(Wrap(m.lo)) = m.lo
      BY <1>1, <2>1, <2>5, WrapReduced DEF Cell
    <3> QED BY <2>1, <2>3, <2>6, <3>2, <3>3 DEF Pair
  <2>7. CASE SignsDiffer(a, b)
    <3>1. x = MultParts(Negate(m))
      BY <1>3, <2>7 DEF Mult, m, x
    <3>2. /\ x.hi = Wrap(Negate(m).hi)
          /\ x.lo = Wrap(Negate(m).lo)
      BY <3>1 DEF MultParts
    <3>3. /\ Negate(m).hi \in Cell /\ Negate(m).lo \in Cell
          /\ Wrap(Negate(m).hi) * WordSize + Negate(m).lo = -Pair(m.hi, m.lo)
      BY <2>1, <2>4, <2>5, NegateFacts
    <3>4. /\ Wrap(Negate(m).hi) \in Word /\ Wrap(Negate(m).lo) \in Word
          /\ Unsigned(Wrap(Negate(m).lo)) = Negate(m).lo
      BY <3>3, WrapReduced DEF Cell
    <3> QED BY <2>1, <2>3, <2>7, <3>2, <3>3, <3>4
  <2> QED BY <2>6, <2>7
<1> QED BY <1>2, <1>3

-----------------------------------------------------------------------------
(* Words as four bytes, the lowest first.                                     *)
Digits(d0, d1, d2, d3) ==
  d0 + d1 * BytePower(1) + d2 * BytePower(2) + d3 * BytePower(3)

LEMMA Horner ==
  ASSUME NEW d0 \in Byte, NEW d1 \in Byte, NEW d2 \in Byte, NEW d3 \in Byte
  PROVE  /\ Digits(d0, d1, d2, d3) = ByteSize * (d1 + ByteSize * (d2 + ByteSize * d3)) + d0
         /\ Digits(d0, d1, d2, d3)
              = (ByteSize * ByteSize) * (d2 + ByteSize * d3) + (d0 + ByteSize * d1)
         /\ Digits(d0, d1, d2, d3)
              = (ByteSize * ByteSize * ByteSize) * d3
                + (d0 + ByteSize * d1 + ByteSize * ByteSize * d2)
<1> DEFINE s == ByteSize
<1>1. s \in Nat /\ BytePower(1) = s /\ BytePower(2) = s * s /\ BytePower(3) = s * s * s
  BY WordFacts
<1>2. d0 \in Int /\ d1 \in Int /\ d2 \in Int /\ d3 \in Int
  BY <1>1 DEF Byte
<1> HIDE DEF s
<1>3. Digits(d0, d1, d2, d3) = d0 + d1 * s + d2 * (s * s) + d3 * (s * s * s)
  BY <1>1 DEF Digits
<1>4. d0 + d1 * s + d2 * (s * s) + d3 * (s * s * s) = s * (d1 + s * (d2 + s * d3)) + d0
  BY <1>1, <1>2
<1>5. d0 + d1 * s + d2 * (s * s) + d3 * (s * s * s) = (s * s) * (d2 + s * d3) + (d0 + s * d1)
  BY <1>1, <1>2
<1>6. d0 + d1 * s + d2 * (s * s) + d3 * (s * s * s)
        = (s * s * s) * d3 + (d0 + s * d1 + s * s * d2)
  BY <1>1, <1>2
<1> QED BY <1>3, <1>4, <1>5, <1>6 DEF s

LEMMA DigitBounds ==
  ASSUME NEW d0 \in Byte, NEW d1 \in Byte, NEW d2 \in Byte, NEW d3 \in Byte
  PROVE  /\ d0 + ByteSize * d1 \in 0 .. ByteSize * ByteSize - 1
         /\ d0 + ByteSize * d1 + ByteSize * ByteSize * d2
              \in 0 .. ByteSize * ByteSize * ByteSize - 1
         /\ Digits(d0, d1, d2, d3) \in Cell
<1> DEFINE s == ByteSize
           low == d0 + s * d1
           lower == low + s * s * d2
<1>1. s \in Nat \ {0} /\ WordSize = s * s * s * s
  BY WordFacts
<1>2. d0 \in 0 .. s - 1 /\ d1 \in 0 .. s - 1 /\ d2 \in 0 .. s - 1 /\ d3 \in 0 .. s - 1
  BY DEF Byte
<1> HIDE DEF s
<1>3. ASSUME NEW m \in Nat \ {0}, NEW x \in 0 .. m - 1, NEW y \in 0 .. s - 1
      PROVE  x + m * y \in 0 .. m * s - 1
  <2>1. m * y >= 0 /\ m * (y + 1) <= m * s /\ m * (y + 1) = m * y + m
    BY <1>1, <1>3
  <2>2. m * y \in Int /\ m * s \in Int
    BY <1>1, <1>3
  <2> QED BY <2>1, <2>2
<1>4. low \in 0 .. s * s - 1
  BY <1>1, <1>2, <1>3
<1>5. lower \in 0 .. s * s * s - 1
  <2>1. s * s \in Nat \ {0}
    BY <1>1
  <2> HIDE DEF low
  <2> QED BY <1>2, <1>3, <1>4, <2>1
<1>6. Digits(d0, d1, d2, d3) \in 0 .. s * s * s * s - 1
  <2>1. s * s * s \in Nat \ {0}
    BY <1>1
  <2>2. Digits(d0, d1, d2, d3) = lower + (s * s * s) * d3
    <3>1. Digits(d0, d1, d2, d3) = (s * s * s) * d3 + lower
      BY Horner DEF s
    <3>2. (s * s * s) * d3 \in Int /\ lower \in Int
      BY <1>1, <1>2, <1>5
    <3> HIDE DEF lower
    <3> QED BY <3>1, <3>2
  <2> HIDE DEF lower
  <2> QED BY <1>2, <1>3, <1>5, <2>1, <2>2
<1> QED BY <1>1, <1>4, <1>5, <1>6 DEF s, Cell

(* What is above and below each of the digits. *)
LEMMA DigitFacts ==
  ASSUME NEW d0 \in Byte, NEW d1 \in Byte, NEW d2 \in Byte, NEW d3 \in Byte,
         NEW N, N = Digits(d0, d1, d2, d3)
  PROVE  /\ HighBytes(N, 0) = N /\ HighBytes(N, 1) = Digits(d1, d2, d3, 0)
         /\ HighBytes(N, 2) = Digits(d2, d3, 0, 0) /\ HighBytes(N, 3) = Digits(d3, 0, 0, 0)
         /\ LowBytes(N, 0) = 0 /\ LowBytes(N, 1) = Digits(d0, 0, 0, 0)
         /\ LowBytes(N, 2) = Digits(d0, d1, 0, 0) /\ LowBytes(N, 3) = Digits(d0, d1, d2, 0)
         /\ LowBytes(N, 4) = N
<1> DEFINE s == ByteSize
           low == d0 + s * d1
           lower == d0 + s * d1 + s * s * d2
           high == d2 + s * d3
           higher == d1 + s * high
<1>1. s \in Nat \ {0} /\ WordSize = s * s * s * s
  BY WordFacts
<1>2. d0 \in 0 .. s - 1 /\ d1 \in 0 .. s - 1 /\ d2 \in 0 .. s - 1 /\ d3 \in 0 .. s - 1
  BY DEF Byte
<1>3. 0 \in Byte
  BY <1>1 DEF Byte
<1>4. /\ N \in Cell /\ low \in 0 .. s * s - 1 /\ lower \in 0 .. s * s * s - 1
  BY DigitBounds
<1>5. /\ N = s * higher + d0 /\ N = (s * s) * high + low /\ N = (s * s * s) * d3 + lower
  BY Horner
<1>6. /\ Digits(d1, d2, d3, 0) = higher /\ Digits(d2, d3, 0, 0) = high
      /\ Digits(d3, 0, 0, 0) = d3 /\ Digits(d0, 0, 0, 0) = d0
      /\ Digits(d0, d1, 0, 0) = low /\ Digits(d0, d1, d2, 0) = lower
  <2>1. /\ BytePower(1) = s /\ BytePower(2) = s * s /\ BytePower(3) = s * s * s
    BY WordFacts
  <2> HIDE DEF s
  <2>2. d1 + d2 * s + d3 * (s * s) = higher
    BY <1>1, <1>2
  <2>3. d0 + d1 * s + d2 * (s * s) = lower
    BY <1>1, <1>2
  <2>4. d0 + d1 * s = low /\ d2 + d3 * s = high
    BY <1>1, <1>2
  <2>5. 0 * s = 0 /\ 0 * (s * s) = 0 /\ 0 * (s * s * s) = 0
    BY <1>1
  <2>6. /\ d1 + d2 * s + d3 * (s * s) \in Int /\ d0 + d1 * s + d2 * (s * s) \in Int
        /\ d0 + d1 * s \in Int /\ d2 + d3 * s \in Int /\ d0 \in Int /\ d3 \in Int
    BY <1>1, <1>2
  <2> QED BY <2>1, <2>2, <2>3, <2>4, <2>5, <2>6 DEF Digits
<1>7. higher \in Int /\ high \in Int /\ d3 \in Int
  BY <1>1, <1>2
<1> HIDE DEF s, low, lower, high, higher
<1>8. N \div s = higher /\ N % s = d0
  BY <1>1, <1>2, <1>5, <1>7, DividedOnce
<1>9. N \div (s * s) = high /\ N % (s * s) = low
  <2>1. s * s \in Nat \ {0}
    BY <1>1
  <2> QED BY <1>4, <1>5, <1>7, <2>1, DividedOnce
<1>10. N \div (s * s * s) = d3 /\ N % (s * s * s) = lower
  <2>1. s * s * s \in Nat \ {0}
    BY <1>1
  <2> QED BY <1>4, <1>5, <1>7, <2>1, DividedOnce
<1>11. N % WordSize = N
  BY <1>4, WordSizes, Reduced DEF Cell
<1>12. N \div 1 = N /\ N % 1 = 0
  <2>1. N \in Int
    BY <1>4, WordSizes DEF Cell
  <2> QED BY <2>1
<1>13. /\ BytePower(0) = 1 /\ BytePower(1) = s /\ BytePower(2) = s * s
       /\ BytePower(3) = s * s * s /\ BytePower(4) = WordSize
  BY WordFacts DEF s
<1> QED BY <1>6, <1>8, <1>9, <1>10, <1>11, <1>12, <1>13 DEF HighBytes, LowBytes

LEMMA DigitsExist ==
  ASSUME NEW N \in Cell
  PROVE  \E d0, d1, d2, d3 \in Byte : N = Digits(d0, d1, d2, d3)
<1> DEFINE s == ByteSize
           q1 == N \div s
           q2 == q1 \div s
           q3 == q2 \div s
           d0 == N % s
           d1 == q1 % s
           d2 == q2 % s
<1>1. s \in Nat \ {0} /\ WordSize = s * s * s * s /\ N \in Nat /\ N < WordSize
  BY WordFacts, WordSizes DEF Cell
<1> HIDE DEF s
<1>2. q1 \in Nat /\ d0 \in 0 .. s - 1 /\ N = s * q1 + d0
  <2>1. q1 \in 0 .. N /\ N = s * q1 + d0 /\ d0 \in 0 .. s - 1
    BY <1>1, NaturalDivision
  <2> QED BY <1>1, <2>1
<1> HIDE DEF q1, d0
<1>3. q2 \in Nat /\ d1 \in 0 .. s - 1 /\ q1 = s * q2 + d1
  <2>1. q2 \in 0 .. q1 /\ q1 = s * q2 + d1 /\ d1 \in 0 .. s - 1
    BY <1>1, <1>2, NaturalDivision
  <2> QED BY <1>2, <2>1
<1> HIDE DEF q2, d1
<1>4. q3 \in Nat /\ d2 \in 0 .. s - 1 /\ q2 = s * q3 + d2
  <2>1. q3 \in 0 .. q2 /\ q2 = s * q3 + d2 /\ d2 \in 0 .. s - 1
    BY <1>1, <1>3, NaturalDivision
  <2> QED BY <1>3, <2>1
<1> HIDE DEF q3, d2
<1>5. N = s * (d1 + s * (d2 + s * q3)) + d0
  <2>1. q2 = d2 + s * q3 /\ q1 = d1 + s * q2
    BY <1>1, <1>2, <1>3, <1>4
  <2> QED BY <1>2, <2>1
<1>6. q3 < s
  <2>1. ASSUME q3 >= s PROVE FALSE
    <3>1. s * q3 >= s * s /\ s * q3 \in Int
      BY <1>1, <1>4, <2>1
    <3>2. q2 >= s * s
      BY <1>1, <1>3, <1>4, <3>1
    <3>3. s * q2 >= s * (s * s) /\ s * q2 \in Int /\ s * (s * s) \in Int
      BY <1>1, <1>3, <3>2
    <3>4. q1 >= s * (s * s)
      BY <1>1, <1>2, <1>3, <3>3
    <3>5. s * q1 >= s * (s * (s * s)) /\ s * q1 \in Int /\ s * (s * (s * s)) \in Int
      BY <1>1, <1>2, <3>3, <3>4
    <3>6. s * (s * (s * s)) = s * s * s * s
      BY <1>1
    <3> QED BY <1>1, <1>2, <3>5, <3>6
  <2> QED BY <1>1, <1>4, <2>1
<1>7. d0 \in Byte /\ d1 \in Byte /\ d2 \in Byte /\ q3 \in Byte
  BY <1>1, <1>2, <1>3, <1>4, <1>6 DEF Byte, s
<1>8. N = Digits(d0, d1, d2, q3)
  BY <1>5, <1>7, Horner DEF s
<1> QED BY <1>7, <1>8

LEMMA BytesAtSum ==
  ASSUME NEW mem, NEW a \in Int, NEW size \in 1 .. 4,
         \A n \in 1 .. size : mem[a + n - 1] \in Byte
  PROVE  \E sum : /\ BytesAt(mem, a, size) = sum[size]
                  /\ sum[0] = 0
                  /\ \A n \in 1 .. size :
                       sum[n] = sum[n - 1] + mem[a + n - 1] * BytePower(n - 1)
<1> DEFINE term == [n \in 1 .. size |-> mem[a + n - 1] * BytePower(n - 1)]
           Sum(f) == [n \in 0 .. size |->
                        IF n = 0 THEN 0 ELSE f[n - 1] + mem[a + n - 1] * BytePower(n - 1)]
           sum == CHOOSE f : f = Sum(f)
<1>1. size \in Nat /\ ByteSize \in Nat
  BY WordFacts
<1>2. term \in [1 .. size -> Int]
  <2>1. ASSUME NEW n \in 1 .. size PROVE mem[a + n - 1] * BytePower(n - 1) \in Int
    <3>1. n - 1 \in {0, 1, 2, 3}
      OBVIOUS
    <3>2. BytePower(n - 1) \in Int
      BY <1>1, <3>1, WordFacts
    <3>3. mem[a + n - 1] \in Int
      BY DEF Byte
    <3> QED BY <3>2, <3>3
  <2> QED BY <2>1
<1>3. PICK f \in [0 .. size -> Int] :
        f[0] = 0 /\ \A n \in 1 .. size : f[n] = f[n - 1] + term[n]
  <2> HIDE DEF term
  <2> QED BY <1>1, <1>2, SumExists
<1>4. f = Sum(f)
  BY <1>1, <1>3
<1>5. sum = Sum(sum)
  BY <1>4
<1>6. BytesAt(mem, a, size) = sum[size]
  BY DEF BytesAt
<1> HIDE DEF sum
<1>7. sum[0] = 0 /\ \A n \in 1 .. size :
                      sum[n] = sum[n - 1] + mem[a + n - 1] * BytePower(n - 1)
  BY <1>1, <1>5
<1> QED BY <1>6, <1>7

LEMMA BytesAtFacts ==
  ASSUME NEW mem, NEW a \in Int
  PROVE  /\ mem[a] \in Byte => BytesAt(mem, a, 1) = Digits(mem[a], 0, 0, 0)
         /\ mem[a] \in Byte /\ mem[a + 1] \in Byte =>
              BytesAt(mem, a, 2) = Digits(mem[a], mem[a + 1], 0, 0)
         /\ (\A n \in 0 .. 3 : mem[a + n] \in Byte) =>
              BytesAt(mem, a, 4) = Digits(mem[a], mem[a + 1], mem[a + 2], mem[a + 3])
<1>1. /\ BytePower(0) = 1 /\ BytePower(1) \in Int /\ BytePower(2) \in Int
      /\ BytePower(3) \in Int /\ Byte \subseteq Int
  BY WordFacts DEF Byte
<1>2. /\ a + 1 - 1 = a /\ a + 2 - 1 = a + 1 /\ a + 3 - 1 = a + 2 /\ a + 4 - 1 = a + 3
      /\ 1 - 1 = 0 /\ 2 - 1 = 1 /\ 3 - 1 = 2 /\ 4 - 1 = 3
  OBVIOUS
<1> DEFINE Part(d, n) == d * BytePower(n)
<1>3. ASSUME NEW d \in Byte
      PROVE  /\ Part(d, 0) = d /\ d \in Int
             /\ Part(d, 1) \in Int /\ Part(d, 2) \in Int /\ Part(d, 3) \in Int
  BY <1>1
<1>4. Part(0, 1) = 0 /\ Part(0, 2) = 0 /\ Part(0, 3) = 0
  BY <1>1
<1>5. ASSUME NEW d0, NEW d1, NEW d2, NEW d3
      PROVE  Digits(d0, d1, d2, d3) = d0 + Part(d1, 1) + Part(d2, 2) + Part(d3, 3)
  BY DEF Digits
<1>6. ASSUME mem[a] \in Byte PROVE BytesAt(mem, a, 1) = Digits(mem[a], 0, 0, 0)
  <2>1. \A n \in 1 .. 1 : mem[a + n - 1] \in Byte
    <3>1. \A n \in 1 .. 1 : n = 1
      OBVIOUS
    <3> QED BY <1>2, <1>6, <3>1
  <2>2. PICK sum : /\ BytesAt(mem, a, 1) = sum[1] /\ sum[0] = 0
                   /\ \A n \in 1 .. 1 :
                        sum[n] = sum[n - 1] + mem[a + n - 1] * BytePower(n - 1)
    BY <2>1, BytesAtSum
  <2>3. sum[1] = sum[0] + mem[a] * BytePower(0)
    <3>1. 1 \in 1 .. 1
      OBVIOUS
    <3> QED BY <1>2, <2>2, <3>1
  <2>4. sum[1] = 0 + Part(mem[a], 0)
    BY <2>2, <2>3
  <2> HIDE DEF Part
  <2> QED BY <1>6, <1>3, <1>4, <1>5, <2>2, <2>4
<1>7. ASSUME mem[a] \in Byte, mem[a + 1] \in Byte
      PROVE  BytesAt(mem, a, 2) = Digits(mem[a], mem[a + 1], 0, 0)
  <2>1. \A n \in 1 .. 2 : mem[a + n - 1] \in Byte
    <3>1. \A n \in 1 .. 2 : n = 1 \/ n = 2
      OBVIOUS
    <3> QED BY <1>2, <1>7, <3>1
  <2>2. PICK sum : /\ BytesAt(mem, a, 2) = sum[2] /\ sum[0] = 0
                   /\ \A n \in 1 .. 2 :
                        sum[n] = sum[n - 1] + mem[a + n - 1] * BytePower(n - 1)
    BY <2>1, BytesAtSum
  <2>3. /\ sum[1] = sum[0] + mem[a] * BytePower(0)
        /\ sum[2] = sum[1] + mem[a + 1] * BytePower(1)
    <3>1. 1 \in 1 .. 2 /\ 2 \in 1 .. 2
      OBVIOUS
    <3> QED BY <1>2, <2>2, <3>1
  <2>4. sum[2] = 0 + Part(mem[a], 0) + Part(mem[a + 1], 1)
    BY <2>2, <2>3
  <2> HIDE DEF Part
  <2> QED BY <1>7, <1>3, <1>4, <1>5, <2>2, <2>4
<1>8. ASSUME \A n \in 0 .. 3 : mem[a + n] \in Byte
      PROVE  BytesAt(mem, a, 4) = Digits(mem[a], mem[a + 1], mem[a + 2], mem[a + 3])
  <2>1. mem[a] \in Byte /\ mem[a + 1] \in Byte /\ mem[a + 2] \in Byte /\ mem[a + 3] \in Byte
    <3>1. a + 0 = a
      OBVIOUS
    <3> QED BY <1>8, <3>1
  <2>2. \A n \in 1 .. 4 : mem[a + n - 1] \in Byte
    <3>1. \A n \in 1 .. 4 : n = 1 \/ n = 2 \/ n = 3 \/ n = 4
      OBVIOUS
    <3> QED BY <1>2, <2>1, <3>1
  <2>3. PICK sum : /\ BytesAt(mem, a, 4) = sum[4] /\ sum[0] = 0
                   /\ \A n \in 1 .. 4 :
                        sum[n] = sum[n - 1] + mem[a + n - 1] * BytePower(n - 1)
    BY <2>2, BytesAtSum
  <2>4. /\ sum[1] = sum[0] + mem[a] * BytePower(0)
        /\ sum[2] = sum[1] + mem[a + 1] * BytePower(1)
        /\ sum[3] = sum[2] + mem[a + 2] * BytePower(2)
        /\ sum[4] = sum[3] + mem[a + 3] * BytePower(3)
    <3>1. 1 \in 1 .. 4 /\ 2 \in 1 .. 4 /\ 3 \in 1 .. 4 /\ 4 \in 1 .. 4
      OBVIOUS
    <3> QED BY <1>2, <2>3, <3>1
  <2>5. sum[4] = 0 + Part(mem[a], 0) + Part(mem[a + 1], 1) + Part(mem[a + 2], 2)
                 + Part(mem[a + 3], 3)
    BY <2>3, <2>4
  <2> HIDE DEF Part
  <2> QED BY <1>3, <1>5, <2>1, <2>3, <2>5
<1> QED BY <1>6, <1>7, <1>8

-----------------------------------------------------------------------------
(* Addresses.                                                                 *)
Within(a, size) == a % size = 0 /\ Unsigned(a) + size <= PageTableSize * PageSize

LEMMA Multiples ==
  ASSUME NEW s \in {1, 2, 4}
  PROVE  \E h \in Nat, k \in Nat : SignBit = s * h /\ PageTableSize * PageSize = s * k
<1>1. PICK h \in Nat : SignBit = 8 * h
  BY WordFacts
<1>2. PICK k \in Nat : PageSize = 4 * k
  <2>1. PageSize \in Int /\ PageSize % 4 = 0 /\ PageSize > 0
    BY MipsAssumption
  <2>2. PageSize = 4 * (PageSize \div 4) /\ PageSize \div 4 \in Int
    BY <2>1
  <2>3. PageSize \div 4 \in Nat
    BY <2>1, <2>2
  <2> QED BY <2>2, <2>3
<1>3. PageTableSize \in Nat
  BY MipsAssumption
<1> DEFINE p == PageTableSize * k
<1>4. p \in Nat /\ PageTableSize * PageSize = 4 * p
  BY <1>2, <1>3
<1> HIDE DEF p
<1>5. /\ SignBit = 1 * (8 * h) /\ SignBit = 2 * (4 * h) /\ SignBit = 4 * (2 * h)
      /\ PageTableSize * PageSize = 1 * (4 * p) /\ PageTableSize * PageSize = 2 * (2 * p)
  BY <1>1, <1>4
<1>6. CASE s = 1
  <2>1. 8 * h \in Nat /\ 4 * p \in Nat
    BY <1>4
  <2> QED BY <1>5, <1>6, <2>1
<1>7. CASE s = 2
  <2>1. 4 * h \in Nat /\ 2 * p \in Nat
    BY <1>4
  <2> QED BY <1>5, <1>7, <2>1
<1>8. CASE s = 4
  <2>1. 2 * h \in Nat
    OBVIOUS
  <2> QED BY <1>4, <1>5, <1>8, <2>1
<1> QED BY <1>6, <1>7, <1>8

LEMMA MemoryEnds ==
  PageTableSize * PageSize \in Nat /\ PageTableSize * PageSize <= SignBit
BY MipsAssumption

LEMMA TranslateFacts ==
  ASSUME NEW a \in Word, NEW s \in {1, 2, 4}
  PROVE  /\ Translate(a, s) # "AddressError" <=> Within(a, s)
         /\ Within(a, s) => /\ a \in Nat /\ Unsigned(a) = a
                            /\ a + s <= PageTableSize * PageSize
<1> DEFINE L == PageTableSize * PageSize
           u == Unsigned(a)
           p == u \div PageSize
<1>1. PICK h \in Nat, k \in Nat : SignBit = s * h /\ L = s * k
  BY Multiples
<1>2. L \in Nat /\ L <= SignBit /\ PageSize \in Nat \ {0} /\ PageTableSize \in Nat
  BY MemoryEnds, MipsAssumption
<1>3. a \in Int /\ u \in Nat /\ (a < 0 => u >= SignBit) /\ (a >= 0 => u = a)
  BY WordSizes, Unsigneds DEF Word
<1>4. Translate(a, s) # "AddressError" <=> a % s = 0 /\ p < PageTableSize
  <2>1. p \in Int
    BY <1>2, <1>3, Divided
  <2>2. p >= PageTableSize <=> ~(p < PageTableSize)
    BY <1>2, <2>1
  <2> QED BY <2>2 DEF Translate, PageOf
<1> HIDE DEF u, L
<1>5. p < PageTableSize <=> u < L
  <2> DEFINE r == u % PageSize
  <2>1. p \in Int /\ r \in 0 .. PageSize - 1 /\ u = PageSize * p + r
    BY <1>2, <1>3, Divided
  <2> HIDE DEF p, r
  <2>2. ASSUME p < PageTableSize PROVE u < L
    <3>1. PageSize * (p + 1) <= PageSize * PageTableSize
      BY <1>2, <2>1, <2>2
    <3>2. PageSize * (p + 1) = PageSize * p + PageSize /\ PageSize * PageTableSize = L
      BY <1>2, <2>1 DEF L
    <3>3. PageSize * p \in Int
      BY <1>2, <2>1
    <3> QED BY <1>2, <2>1, <3>1, <3>2, <3>3
  <2>3. ASSUME p >= PageTableSize PROVE u >= L
    <3>1. PageSize * p >= PageSize * PageTableSize
      BY <1>2, <2>1, <2>3
    <3>2. PageSize * PageTableSize = L
      BY <1>2 DEF L
    <3>3. PageSize * p \in Int
      BY <1>2, <2>1
    <3> QED BY <1>2, <2>1, <3>1, <3>2, <3>3
  <2> QED BY <1>2, <1>3, <2>1, <2>2, <2>3
<1>6. a % s = 0 /\ a >= 0 => (u < L <=> u + s <= L)
  <2>1. ASSUME a % s = 0, a >= 0, a < L PROVE a + s <= L
    <3>1. a = s * (a \div s) /\ a \div s \in Int
      <4>1. s \in Nat \ {0}
        OBVIOUS
      <4>2. a \div s \in Int /\ a = s * (a \div s) + (a % s) /\ a % s \in Int
        BY <1>3, <4>1, Divided
      <4> QED BY <1>3, <2>1, <4>2
    <3>2. PICK q \in Int : a = s * q
      BY <3>1
    <3>3. CASE s = 1
      BY <1>1, <1>2, <2>1, <3>2, <3>3
    <3>4. CASE s = 2
      BY <1>1, <1>2, <2>1, <3>2, <3>4
    <3>5. CASE s = 4
      BY <1>1, <1>2, <2>1, <3>2, <3>5
    <3> QED BY <3>3, <3>4, <3>5
  <2> QED BY <1>2, <1>3, <2>1
<1>7. Within(a, s) <=> a % s = 0 /\ u + s <= L
  BY DEF Within, u, L
<1>8. Within(a, s) => a >= 0
  BY <1>2, <1>3, <1>7, WordSizes
<1>9. Translate(a, s) # "AddressError" => a >= 0
  BY <1>2, <1>3, <1>4, <1>5, WordSizes
<1>10. Translate(a, s) # "AddressError" <=> Within(a, s)
  BY <1>4, <1>5, <1>6, <1>7, <1>8, <1>9
<1> QED BY <1>3, <1>7, <1>8, <1>10 DEF u, L

-----------------------------------------------------------------------------
(* The words of the ideal processor are those of this one.                    *)
LEMMA SameSizes ==
  /\ Ideal!WordBits = WordBits /\ Ideal!TwoTo = TwoTo
  /\ Ideal!ByteSize = ByteSize /\ Ideal!HalfSize = HalfSize /\ Ideal!WordSize = WordSize
  /\ Ideal!SignBit = SignBit /\ Ideal!Word = Word
<1>1. Ideal!WordBits = WordBits
  BY DEF Ideal!WordBits, WordBits
<1>2. Ideal!TwoTo = TwoTo
  BY <1>1 DEF Ideal!TwoTo, TwoTo
<1>3. /\ Ideal!ByteSize = ByteSize /\ Ideal!HalfSize = HalfSize
      /\ Ideal!WordSize = WordSize /\ Ideal!SignBit = SignBit
  BY <1>1, <1>2 DEF Ideal!ByteSize, ByteSize, Ideal!HalfSize, HalfSize,
                    Ideal!WordSize, WordSize, Ideal!SignBit, SignBit
<1>4. Ideal!Word = Word
  BY <1>3 DEF Ideal!Word, Word
<1> QED BY <1>1, <1>2, <1>3, <1>4

LEMMA SameWraps ==
  ASSUME NEW x
  PROVE  /\ Ideal!Unsigned(x) = Unsigned(x) /\ Ideal!Wrap(x) = Wrap(x)
         /\ Ideal!WrapOnce(x) = WrapOnce(x) /\ Ideal!Abs(x) = Abs(x)
<1>1. Ideal!Unsigned(x) = Unsigned(x)
  BY SameSizes DEF Ideal!Unsigned, Unsigned
<1>2. Ideal!Wrap(x) = Wrap(x)
  BY SameSizes DEF Ideal!Wrap, Wrap, Ideal!Signed, Signed
<1>3. Ideal!WrapOnce(x) = WrapOnce(x)
  BY SameSizes DEF Ideal!WrapOnce, WrapOnce
<1>4. Ideal!Abs(x) = Abs(x)
  BY DEF Ideal!Abs, Abs
<1> QED BY <1>1, <1>2, <1>3, <1>4

LEMMA SameSigned ==
  ASSUME NEW x, NEW size
  PROVE  Ideal!Signed(x, size) = Signed(x, size)
BY DEF Ideal!Signed, Signed

LEMMA SameFromBits ==
  ASSUME NEW bits
  PROVE  Ideal!FromBits(bits) = FromBits(bits)
BY SameSizes, SameWraps DEF Ideal!FromBits, FromBits

LEMMA SameBitAt ==
  ASSUME NEW x, NEW n
  PROVE  Ideal!BitAt(x, n) = BitAt(x, n)
BY SameSizes DEF Ideal!BitAt, BitAt

LEMMA SameAnd ==
  ASSUME NEW x, NEW y
  PROVE  Ideal!BitAnd(x, y) = BitAnd(x, y)
<1> DEFINE ideal == [n \in 0 .. Ideal!WordBits - 1 |-> Ideal!BitAt(x, n) * Ideal!BitAt(y, n)]
           real == [n \in 0 .. WordBits - 1 |-> BitAt(x, n) * BitAt(y, n)]
<1>1. ideal = real
  BY SameSizes DEF Ideal!BitAt, BitAt
<1>2. Ideal!BitAnd(x, y) = Ideal!FromBits(ideal)
  BY DEF Ideal!BitAnd
<1>3. BitAnd(x, y) = FromBits(real)
  BY DEF BitAnd
<1> HIDE DEF ideal, real
<1>4. Ideal!FromBits(ideal) = FromBits(ideal)
  BY SameFromBits
<1> QED BY <1>1, <1>2, <1>3, <1>4

LEMMA SameXor ==
  ASSUME NEW x, NEW y
  PROVE  Ideal!BitXor(x, y) = BitXor(x, y)
<1> DEFINE ideal == [n \in 0 .. Ideal!WordBits - 1 |->
                       (Ideal!BitAt(x, n) + Ideal!BitAt(y, n)) % 2]
           real == [n \in 0 .. WordBits - 1 |-> (BitAt(x, n) + BitAt(y, n)) % 2]
<1>1. ideal = real
  BY SameSizes DEF Ideal!BitAt, BitAt
<1>2. Ideal!BitXor(x, y) = Ideal!FromBits(ideal)
  BY DEF Ideal!BitXor
<1>3. BitXor(x, y) = FromBits(real)
  BY DEF BitXor
<1> HIDE DEF ideal, real
<1>4. Ideal!FromBits(ideal) = FromBits(ideal)
  BY SameFromBits
<1> QED BY <1>1, <1>2, <1>3, <1>4

LEMMA SameOr ==
  ASSUME NEW x, NEW y
  PROVE  /\ Ideal!BitNot(x) = BitNot(x) /\ Ideal!BitOr(x, y) = BitOr(x, y)
         /\ Ideal!BitNot(Ideal!BitOr(x, y)) = BitNot(BitOr(x, y))
<1>1. ASSUME NEW z PROVE Ideal!BitNot(z) = BitNot(z)
  BY DEF Ideal!BitNot, BitNot
<1>2. Ideal!BitOr(x, y) = Ideal!BitNot(Ideal!BitAnd(Ideal!BitNot(x), Ideal!BitNot(y)))
  BY DEF Ideal!BitOr
<1>3. Ideal!BitOr(x, y) = BitOr(x, y)
  BY <1>1, <1>2, SameAnd DEF BitOr
<1> QED BY <1>1, <1>3

LEMMA SameShifts ==
  ASSUME NEW x, NEW n
  PROVE  Ideal!ShiftLeft(x, n) = ShiftLeft(x, n) /\ Ideal!ShiftRight(x, n) = ShiftRight(x, n)
<1>1. Ideal!ShiftRight(x, n) = ShiftRight(x, n)
  BY SameSizes DEF Ideal!ShiftRight, ShiftRight
<1>2. Ideal!ShiftLeft(x, n) = Ideal!Wrap(x * TwoTo[n])
  BY SameSizes DEF Ideal!ShiftLeft
<1>3. Ideal!ShiftLeft(x, n) = ShiftLeft(x, n)
  BY <1>2, SameWraps DEF ShiftLeft
<1> QED BY <1>1, <1>3

LEMMA SameRegisterResult ==
  ASSUME NEW op \in RegisterOps, NEW a, NEW b, NEW x
  PROVE  Ideal!RegisterResult(op, a, b, x) = RegisterResult(op, a, b, x)
<1>1. /\ Ideal!WrapOnce(a + b) = WrapOnce(a + b) /\ Ideal!WrapOnce(a - b) = WrapOnce(a - b)
      /\ Ideal!Unsigned(a) = Unsigned(a) /\ Ideal!Unsigned(b) = Unsigned(b)
  BY SameWraps
<1>2. /\ Ideal!BitAnd(a, b) = BitAnd(a, b) /\ Ideal!BitXor(a, b) = BitXor(a, b)
      /\ Ideal!BitOr(a, b) = BitOr(a, b)
      /\ Ideal!BitNot(Ideal!BitOr(a, b)) = BitNot(BitOr(a, b))
  BY SameAnd, SameXor, SameOr
<1>3. Ideal!WordBits = WordBits
  BY SameSizes
<1>4. /\ Ideal!ShiftLeft(b, x) = ShiftLeft(b, x) /\ Ideal!ShiftRight(b, x) = ShiftRight(b, x)
      /\ Ideal!ShiftLeft(b, a % WordBits) = ShiftLeft(b, a % WordBits)
      /\ Ideal!ShiftRight(b, a % WordBits) = ShiftRight(b, a % WordBits)
  BY SameShifts
<1>5. CASE op \in {"ADDU", "SUBU"}
  BY <1>1, <1>5 DEF Ideal!RegisterResult, RegisterResult
<1>6. CASE op \in {"AND", "OR", "XOR", "NOR"}
  BY <1>2, <1>6 DEF Ideal!RegisterResult, RegisterResult
<1>7. CASE op = "SLT"
  BY <1>7 DEF Ideal!RegisterResult, RegisterResult, Ideal!Bool, Bool
<1>8. CASE op = "SLTU"
  BY <1>1, <1>8 DEF Ideal!RegisterResult, RegisterResult, Ideal!Bool, Bool
<1>9. CASE op \in {"SLL", "SLLV", "SRA", "SRL", "SRAV", "SRLV"}
  BY <1>3, <1>4, <1>9 DEF Ideal!RegisterResult, RegisterResult
<1> QED BY <1>5, <1>6, <1>7, <1>8, <1>9 DEF RegisterOps

LEMMA SameImmediateResult ==
  ASSUME NEW op \in ImmediateOps, NEW a, NEW x
  PROVE  Ideal!ImmediateResult(op, a, x) = ImmediateResult(op, a, x)
<1>1. /\ Ideal!WrapOnce(a + x) = WrapOnce(a + x)
      /\ Ideal!Unsigned(a) = Unsigned(a) /\ Ideal!Unsigned(x) = Unsigned(x)
  BY SameWraps
<1>2. Ideal!HalfSize = HalfSize
  BY SameSizes
<1>3. /\ Ideal!BitAnd(a, x % HalfSize) = BitAnd(a, x % HalfSize)
      /\ Ideal!BitXor(a, x % HalfSize) = BitXor(a, x % HalfSize)
      /\ Ideal!BitOr(a, x % HalfSize) = BitOr(a, x % HalfSize)
  BY SameAnd, SameXor, SameOr
<1>4. Ideal!ShiftLeft(x, 2 * ByteBits) = ShiftLeft(x, 2 * ByteBits)
  BY SameShifts
<1>5. CASE op = "ADDIU"
  BY <1>1, <1>5 DEF Ideal!ImmediateResult, ImmediateResult
<1>6. CASE op \in {"ANDI", "ORI", "XORI"}
  BY <1>2, <1>3, <1>6 DEF Ideal!ImmediateResult, ImmediateResult
<1>7. CASE op \in {"SLTI", "SLTIU"}
  BY <1>1, <1>7 DEF Ideal!ImmediateResult, ImmediateResult, Ideal!Bool, Bool
<1>8. CASE op = "LUI"
  BY <1>4, <1>8 DEF Ideal!ImmediateResult, ImmediateResult
<1> QED BY <1>5, <1>6, <1>7, <1>8 DEF ImmediateOps

LEMMA SameBytes ==
  /\ \A n : Ideal!BytePower(n) = BytePower(n)
  /\ \A m, a, size : Ideal!BytesAt(m, a, size) = BytesAt(m, a, size)
  /\ \A x, n : Ideal!ByteOf(x, n) = ByteOf(x, n)
<1>1. ASSUME NEW n PROVE Ideal!BytePower(n) = BytePower(n)
  BY SameSizes DEF Ideal!BytePower, BytePower
<1>2. ASSUME NEW m, NEW a, NEW size PROVE Ideal!BytesAt(m, a, size) = BytesAt(m, a, size)
  BY <1>1 DEF Ideal!BytesAt, BytesAt
<1>3. ASSUME NEW x, NEW n PROVE Ideal!ByteOf(x, n) = ByteOf(x, n)
  BY <1>1, SameSizes, SameWraps DEF Ideal!ByteOf, ByteOf, Ideal!HighBytes, HighBytes
<1> QED BY <1>1, <1>2, <1>3

LEMMA SameOps ==
  /\ Ideal!RegisterOps = RegisterOps /\ Ideal!ImmediateOps = ImmediateOps
  /\ Ideal!Branches = Branches
  /\ \A op, a, b : Ideal!Taken(op, a, b) = Taken(op, a, b)
BY DEF Ideal!RegisterOps, RegisterOps, Ideal!ImmediateOps, ImmediateOps,
       Ideal!Branches, Branches, Ideal!Taken, Taken

-----------------------------------------------------------------------------
(* The instruction, its operands and its address.                             *)
LEMMA CodeFacts ==
  ASSUME instr \in Code
  PROVE  /\ instr.rs \in Reg /\ instr.rt \in Reg /\ instr.rd \in Reg /\ X \in Word
         /\ instr.op \in Shifts => X \in 0 .. WordBits - 1
         /\ instr.op = "JALR" => instr.rd # instr.rs
         /\ instr.op \in {"BGEZAL", "BLTZAL"} => instr.rs # GPRs
         /\ 0 \in Reg /\ GPRs \in Reg /\ 2 \in Reg /\ GPRs # 0
<1>1. 0 \in Reg /\ GPRs \in Reg /\ 2 \in Reg /\ GPRs # 0
  BY MipsAssumption DEF Reg
<1> QED BY <1>1, CodeAssumption DEF X

LEMMA Small ==
  ASSUME NEW n \in -7 .. 7
  PROVE  n \in Word
BY WordSizes DEF Word

LEMMA OperandTypes ==
  ASSUME MipsTypeOK
  PROVE  /\ A \in Word /\ B \in Word /\ X \in Word
         /\ regs.pc \in Word /\ regs.next \in Word /\ regs.hi \in Word /\ regs.lo \in Word
         /\ regs.value \in Word /\ regs.load \in Reg /\ regs.gpr \in [Reg -> Word]
         /\ InOrder \in Word /\ InOrder = Wrap(regs.next + 4)
         /\ DataAddress \in Word /\ DataAddress = Wrap(A + X)
<1>1. instr \in Code /\ regs \in Registers
  BY DEF MipsTypeOK
<1>2. A \in Word /\ B \in Word /\ X \in Word
  BY <1>1, CodeFacts DEF Registers, A, B
<1>3. 4 \in Word /\ regs.next \in Word
  BY <1>1, Small DEF Registers
<1>4. InOrder \in Word /\ InOrder = Wrap(regs.next + 4)
  BY <1>3, SumWraps DEF InOrder
<1>5. DataAddress \in Word /\ DataAddress = Wrap(A + X)
  BY <1>2, SumWraps DEF DataAddress
<1> QED BY <1>1, <1>2, <1>4, <1>5 DEF Registers

MemoryOps == Loads \cup Stores
Halves == {"LWL", "LWR", "SWL", "SWR"}

LEMMA WidthFacts ==
  /\ \A op : Width(op) \in {1, 2, 4}
  /\ \A op \in Halves : Width(op) = 4
BY DEF Width, Halves

LEMMA Fourths ==
  ASSUME NEW a \in Word
  PROVE  a % 4 \in 0 .. 3 /\ (a - (a % 4)) % 4 = 0 /\ a - (a % 4) \in Word
<1>1. a \in Int
  BY WordSizes DEF Word
<1>2. PICK h \in Nat : SignBit = 4 * h
  BY Multiples
<1> DEFINE q == a \div 4
           r == a % 4
<1>3. q \in Int /\ r \in 0 .. 3 /\ a = 4 * q + r
  <2>1. 4 \in Nat \ {0} /\ 4 - 1 = 3
    OBVIOUS
  <2> QED BY <1>1, <2>1, Divided
<1> HIDE DEF q, r
<1>4. (4 * q + 0) % 4 = 0
  <2>1. 4 \in Nat \ {0} /\ 0 \in 0 .. 4 - 1
    OBVIOUS
  <2> QED BY <1>3, <2>1, DividedOnce
<1>5. a - r = 4 * q + 0
  BY <1>3
<1>6. a - r \in Word
  BY <1>1, <1>2, <1>3 DEF Word
<1> QED BY <1>3, <1>4, <1>5, <1>6 DEF r

LEMMA AlignedFacts ==
  ASSUME MipsTypeOK
  PROVE  /\ Aligned \in Word
         /\ instr.op \in Halves => Aligned = DataAddress - (DataAddress % 4)
         /\ instr.op \notin Halves => Aligned = DataAddress
         /\ DataAddress % 4 \in 0 .. 3
BY OperandTypes, Fourths DEF Aligned, Halves

(* What an instruction that is executed has met no exception at. *)
LEMMA Reached ==
  ASSUME MipsTypeOK, Executes
  PROVE  /\ Within(regs.pc, 4)
         /\ instr.op \in MemoryOps =>
              /\ Within(Aligned, Width(instr.op)) /\ Aligned \in Nat
              /\ \A n \in 0 .. Width(instr.op) - 1 :
                   Aligned + n \in Address /\ bytes[Aligned + n] \in Byte
<1>1. Translate(regs.pc, 4) = "NoException"
  BY DEF Executes, Access
<1>2. Within(regs.pc, 4)
  BY <1>1, OperandTypes, TranslateFacts
<1>3. ASSUME instr.op \in MemoryOps
      PROVE  /\ Within(Aligned, Width(instr.op)) /\ Aligned \in Nat
             /\ \A n \in 0 .. Width(instr.op) - 1 :
                   Aligned + n \in Address /\ bytes[Aligned + n] \in Byte
  <2>1. Translate(Aligned, Width(instr.op)) = "NoException"
    BY <1>1, <1>3 DEF Executes, Access, MemoryOps
  <2>2. Width(instr.op) \in {1, 2, 4} /\ Aligned \in Word
    BY AlignedFacts, WidthFacts
  <2>3. /\ Within(Aligned, Width(instr.op)) /\ Aligned \in Nat
        /\ Aligned + Width(instr.op) <= PageTableSize * PageSize
    BY <2>1, <2>2, TranslateFacts
  <2>4. \A n \in 0 .. Width(instr.op) - 1 : Aligned + n \in Address
    BY <2>2, <2>3, MemoryEnds DEF Address
  <2> QED BY <2>3, <2>4 DEF MipsTypeOK
<1> QED BY <1>2, <1>3

(* The sizes of what is loaded. *)
LEMMA SizesFit ==
  /\ ByteSize \in Nat \ {0} /\ HalfSize \in Nat \ {0}
  /\ ByteSize <= HalfSize /\ HalfSize <= SignBit
<1> DEFINE s == ByteSize
<1>1. /\ s \in Nat /\ s >= 2 /\ HalfSize = s * s /\ 2 * SignBit = s * s * s * s
      /\ SignBit \in Nat
  BY WordFacts
<1> HIDE DEF s
<1>2. s <= s * s /\ s * s \in Nat \ {0}
  BY <1>1
<1>3. s * s * s * s >= 2 * (s * s)
  <2>1. s * s >= 2
    BY <1>1
  <2>2. (s * s) * (s * s) >= 2 * (s * s)
    BY <1>2, <2>1
  <2>3. (s * s) * (s * s) = s * s * s * s
    BY <1>1
  <2> QED BY <2>2, <2>3
<1> QED BY <1>1, <1>2, <1>3 DEF s

LEMMA PowerType ==
  ASSUME NEW n \in 0 .. 4
  PROVE  BytePower(n) \in Nat \ {0}
<1>1. n * ByteBits \in 0 .. WordBits
  <2>1. /\ ByteBits \in Nat /\ WordBits = 4 * ByteBits
        /\ n = 0 \/ n = 1 \/ n = 2 \/ n = 3 \/ n = 4
    BY WordAssumption DEF WordBits
  <2> QED BY <2>1
<1> QED BY <1>1, PowerTable DEF BytePower

LEMMA LowType ==
  ASSUME NEW u \in Int, NEW n \in 0 .. 4
  PROVE  LowBytes(u, n) \in Int
<1>1. BytePower(n) \in Nat \ {0}
  BY PowerType
<1>2. u % BytePower(n) \in 0 .. BytePower(n) - 1
  BY <1>1, Divided
<1> QED BY <1>1, <1>2 DEF LowBytes

LEMMA HighType ==
  ASSUME NEW u \in Int, NEW n \in 0 .. 4
  PROVE  HighBytes(u, n) \in Int
BY PowerType, Divided DEF HighBytes

LEMMA ByteOfType ==
  ASSUME NEW x \in Int, NEW n \in 0 .. 3
  PROVE  ByteOf(x, n) \in Byte
<1>1. Unsigned(x) \in Int
  BY UnsignedType, WordSizes
<1>2. HighBytes(Unsigned(x), n) \in Int
  BY <1>1, HighType
<1>3. ByteSize \in Nat \ {0}
  BY SizesFit
<1> QED BY <1>2, <1>3, Divided DEF ByteOf, Byte

LEMMA ShortDigits ==
  ASSUME NEW d0 \in Byte, NEW d1 \in Byte
  PROVE  /\ Digits(d0, 0, 0, 0) = d0
         /\ Digits(d0, d1, 0, 0) \in 0 .. HalfSize - 1
<1>1. ByteSize \in Nat \ {0} /\ HalfSize = ByteSize * ByteSize /\ 0 \in Byte
  BY SizesFit, WordFacts DEF Byte
<1>2. d0 \in Int /\ d1 \in Int
  BY <1>1 DEF Byte
<1>3. /\ Digits(d0, 0, 0, 0) = ByteSize * (0 + ByteSize * (0 + ByteSize * 0)) + d0
      /\ Digits(d0, d1, 0, 0)
           = (ByteSize * ByteSize) * (0 + ByteSize * 0) + (d0 + ByteSize * d1)
  BY <1>1, Horner
<1>4. d0 + ByteSize * d1 \in 0 .. ByteSize * ByteSize - 1
  BY <1>1, DigitBounds
<1> DEFINE s == ByteSize
           x == d0 + s * d1
<1>5. s * (0 + s * (0 + s * 0)) = 0 /\ (s * s) * (0 + s * 0) = 0 /\ x \in Int
  BY <1>1, <1>2
<1> HIDE DEF x, s
<1> QED BY <1>1, <1>2, <1>3, <1>4, <1>5 DEF x, s

LEMMA SignedType ==
  ASSUME NEW size \in {ByteSize, HalfSize}, NEW u \in 0 .. size - 1
  PROVE  u \in Word /\ Signed(u, size) \in Word
BY SizesFit, WordSizes DEF Signed, Word

LEMMA OldType ==
  ASSUME MipsTypeOK
  PROVE  /\ Old \in Word /\ Unsigned(Old) \in Cell /\ Unsigned(B) \in Cell
         /\ Shift \in 0 .. 3
<1>1. Old \in Word /\ B \in Word
  BY OperandTypes DEF Old
<1>2. Old \in Int /\ B \in Int
  BY <1>1, WordSizes DEF Word
<1>3. Unsigned(Old) \in Cell /\ Unsigned(B) \in Cell
  BY <1>2, UnsignedType DEF Cell
<1>4. Shift \in 0 .. 3
  BY AlignedFacts DEF Shift
<1> QED BY <1>1, <1>3, <1>4

(* The word that is loaded from, and changed by a store. *)
LEMMA WordAtType ==
  ASSUME MipsTypeOK, Executes, instr.op \in MemoryOps
  PROVE  /\ Width(instr.op) = 1 =>
              BytesAt(bytes, Aligned, Width(instr.op)) \in 0 .. ByteSize - 1
         /\ Width(instr.op) = 2 =>
              BytesAt(bytes, Aligned, Width(instr.op)) \in 0 .. HalfSize - 1
         /\ Width(instr.op) = 4 =>
              /\ BytesAt(bytes, Aligned, Width(instr.op))
                   = Digits(bytes[Aligned], bytes[Aligned + 1],
                            bytes[Aligned + 2], bytes[Aligned + 3])
              /\ bytes[Aligned] \in Byte /\ bytes[Aligned + 1] \in Byte
              /\ bytes[Aligned + 2] \in Byte /\ bytes[Aligned + 3] \in Byte
         /\ BytesAt(bytes, Aligned, Width(instr.op)) \in Int
<1> DEFINE a == Aligned
           w == Width(instr.op)
<1>1. w \in {1, 2, 4} /\ a \in Nat /\ \A n \in 0 .. w - 1 : bytes[a + n] \in Byte
  BY Reached, WidthFacts
<1> HIDE DEF a, w
<1>2. a + 0 = a /\ a \in Int
  BY <1>1
<1>3. 0 \in Byte /\ ByteSize \in Nat \ {0} /\ HalfSize \in Nat \ {0} /\ WordSize \in Nat
  BY SizesFit, WordSizes DEF Byte
<1>4. ASSUME w = 1
      PROVE  BytesAt(bytes, a, w) \in 0 .. ByteSize - 1
  <2>1. bytes[a] \in Byte
    BY <1>1, <1>2, <1>4
  <2>2. BytesAt(bytes, a, 1) = Digits(bytes[a], 0, 0, 0)
    BY <1>2, <2>1, BytesAtFacts
  <2>3. Digits(bytes[a], 0, 0, 0) = bytes[a]
    BY <1>3, <2>1, ShortDigits
  <2> QED BY <1>4, <2>1, <2>2, <2>3 DEF Byte
<1>5. ASSUME w = 2
      PROVE  BytesAt(bytes, a, w) \in 0 .. HalfSize - 1
  <2>1. bytes[a] \in Byte /\ bytes[a + 1] \in Byte
    BY <1>1, <1>2, <1>5
  <2>2. BytesAt(bytes, a, 2) = Digits(bytes[a], bytes[a + 1], 0, 0)
    BY <1>2, <2>1, BytesAtFacts
  <2> QED BY <1>5, <2>1, <2>2, ShortDigits
<1>6. ASSUME w = 4
      PROVE  /\ BytesAt(bytes, a, w)
                  = Digits(bytes[a], bytes[a + 1], bytes[a + 2], bytes[a + 3])
             /\ bytes[a] \in Byte /\ bytes[a + 1] \in Byte
             /\ bytes[a + 2] \in Byte /\ bytes[a + 3] \in Byte
             /\ BytesAt(bytes, a, w) \in Cell
  <2>1. \A n \in 0 .. 3 : bytes[a + n] \in Byte
    <3>1. 4 - 1 = 3
      OBVIOUS
    <3> QED BY <1>1, <1>6, <3>1
  <2>2. /\ bytes[a] \in Byte /\ bytes[a + 1] \in Byte
        /\ bytes[a + 2] \in Byte /\ bytes[a + 3] \in Byte
    BY <1>2, <2>1
  <2>3. BytesAt(bytes, a, 4) = Digits(bytes[a], bytes[a + 1], bytes[a + 2], bytes[a + 3])
    BY <1>2, <2>1, BytesAtFacts
  <2> QED BY <1>6, <2>2, <2>3, DigitBounds
<1>7. BytesAt(bytes, a, w) \in Int
  <2>1. w = 1 \/ w = 2 \/ w = 4
    BY <1>1
  <2>2. 0 .. ByteSize - 1 \subseteq Int /\ 0 .. HalfSize - 1 \subseteq Int /\ Cell \subseteq Int
    BY <1>3 DEF Cell
  <2> QED BY <1>4, <1>5, <1>6, <2>1, <2>2
<1> QED BY <1>4, <1>5, <1>6, <1>7 DEF a, w

LEMMA LoadedType ==
  ASSUME MipsTypeOK, Executes, instr.op \in Loads
  PROVE  LoadedWord(BytesAt(bytes, Aligned, Width(instr.op))) \in Word
<1> DEFINE w == BytesAt(bytes, Aligned, Width(instr.op))
<1>1. /\ Width(instr.op) = 1 => w \in 0 .. ByteSize - 1
      /\ Width(instr.op) = 2 => w \in 0 .. HalfSize - 1
      /\ w \in Int
  BY WordAtType DEF MemoryOps
<1> SUFFICES LoadedWord(w) \in Word
  OBVIOUS
<1> HIDE DEF w
<1>2. /\ instr.op \in {"LB", "LBU"} => Width(instr.op) = 1
      /\ instr.op \in {"LH", "LHU"} => Width(instr.op) = 2
  BY DEF Width
<1>3. CASE instr.op \in {"LB", "LBU"}
  BY <1>1, <1>2, <1>3, SignedType DEF LoadedWord
<1>4. CASE instr.op \in {"LH", "LHU"}
  BY <1>1, <1>2, <1>4, SignedType DEF LoadedWord
<1>5. CASE instr.op = "LW"
  BY <1>1, <1>5, WrapFacts DEF LoadedWord
<1>6. Shift \in 0 .. 3 /\ Shift \in 0 .. 4 /\ Shift + 1 \in 0 .. 4 /\ 3 - Shift \in 0 .. 4
      /\ Unsigned(Old) \in Int
  BY OldType, WordSizes DEF Cell
<1>7. CASE instr.op = "LWL"
  <2>1. LowBytes(Unsigned(Old), Shift) \in Int
    BY <1>6, LowType
  <2>2. BytePower(Shift) \in Int
    BY <1>6, PowerType
  <2>3. w * BytePower(Shift) \in Int
    BY <1>1, <2>2
  <2>4. LowBytes(Unsigned(Old), Shift) + w * BytePower(Shift) \in Int
    BY <2>1, <2>3
  <2> QED BY <1>7, <2>4, WrapFacts DEF LoadedWord
<1>8. CASE instr.op = "LWR"
  <2>1. LowBytes(Unsigned(Old), Shift + 1) \in Int /\ HighBytes(w, 3 - Shift) \in Int
    BY <1>1, <1>6, LowType, HighType
  <2>2. Unsigned(Old) - LowBytes(Unsigned(Old), Shift + 1) + HighBytes(w, 3 - Shift) \in Int
    BY <1>6, <2>1
  <2> QED BY <1>8, <2>2, WrapFacts DEF LoadedWord
<1> QED BY <1>3, <1>4, <1>5, <1>7, <1>8 DEF Loads

LEMMA StoredType ==
  ASSUME MipsTypeOK, Executes, instr.op \in Stores
  PROVE  StoredWord(BytesAt(bytes, Aligned, Width(instr.op))) \in Int
<1> DEFINE w == BytesAt(bytes, Aligned, Width(instr.op))
<1>1. w \in Int
  BY WordAtType DEF MemoryOps
<1> HIDE DEF w
<1>2. /\ Shift \in 0 .. 4 /\ 4 - Shift \in 0 .. 4 /\ 3 - Shift \in 0 .. 4
      /\ Unsigned(B) \in Int /\ B \in Int
  BY OldType, OperandTypes, WordSizes DEF Cell, Word
<1>3. /\ LowBytes(w, 4 - Shift) \in Int /\ LowBytes(w, 3 - Shift) \in Int
      /\ HighBytes(Unsigned(B), Shift) \in Int /\ BytePower(3 - Shift) \in Int
  <2>1. LowBytes(w, 4 - Shift) \in Int
    BY <1>1, <1>2, LowType
  <2>2. LowBytes(w, 3 - Shift) \in Int
    BY <1>1, <1>2, LowType
  <2>3. HighBytes(Unsigned(B), Shift) \in Int
    BY <1>2, HighType
  <2>4. BytePower(3 - Shift) \in Int
    BY <1>2, PowerType
  <2> QED BY <2>1, <2>2, <2>3, <2>4
<1>4. Unsigned(B) * BytePower(3 - Shift) \in Int
  BY <1>2, <1>3
<1>5. StoredWord(w) \in Int
  <2> HIDE DEF w
  <2> QED BY <1>1, <1>2, <1>3, <1>4 DEF StoredWord
<1> QED BY <1>5 DEF w

-----------------------------------------------------------------------------
(* The processor's registers stay words.                                      *)
LEMMA HiLoType ==
  ASSUME MipsTypeOK, instr.op \in {"DIV", "DIVU", "MULT", "MULTU", "MTHI", "MTLO"},
         ~Trapped
  PROVE  HiLo.hi \in Word /\ HiLo.lo \in Word
<1>1. A \in Word /\ B \in Word /\ regs.hi \in Word /\ regs.lo \in Word /\ 0 \in Word
  BY OperandTypes, Small
<1>2. CASE instr.op \in {"DIV", "DIVU"} /\ B = 0
  BY <1>1, <1>2 DEF HiLo
<1>3. CASE instr.op = "DIV" /\ B # 0
  <2>1. Quotient(A, B) \in Word /\ Remainder(A, B) \in Word
    BY <1>1, <1>3, SignedDivision DEF Trapped
  <2>2. HiLo.hi = Remainder(A, B) /\ HiLo.lo = Quotient(A, B)
    BY <1>3 DEF HiLo
  <2> QED BY <2>1, <2>2
<1>4. CASE instr.op = "DIVU" /\ B # 0
  <2>1. /\ Wrap(Unsigned(A) \div Unsigned(B)) \in Word
        /\ Wrap(Unsigned(A) % Unsigned(B)) \in Word
    BY <1>1, <1>4, UnsignedDivision
  <2>2. /\ HiLo.lo = Wrap(Unsigned(A) \div Unsigned(B))
        /\ HiLo.hi = Wrap(Unsigned(A) % Unsigned(B))
    BY <1>4 DEF HiLo
  <2> QED BY <2>1, <2>2
<1>5. CASE instr.op = "MULT"
  <2>1. HiLo = Mult(A, B, TRUE)
    BY <1>5 DEF HiLo
  <2> QED BY <1>1, <2>1, SignedProduct
<1>6. CASE instr.op = "MULTU"
  <2>1. HiLo = Mult(A, B, FALSE)
    BY <1>6 DEF HiLo
  <2> QED BY <1>1, <2>1, UnsignedProduct
<1>7. CASE instr.op \in {"MTHI", "MTLO"}
  BY <1>1, <1>7 DEF HiLo
<1> QED BY <1>2, <1>3, <1>4, <1>5, <1>6, <1>7

LEMMA RegisterWritten ==
  ASSUME MipsTypeOK, NEW k \in Reg, NEW x \in Word
  PROVE  [regs EXCEPT !.gpr[k] = x] \in Registers
BY DEF MipsTypeOK, Registers

LEMMA DelayedLoadType ==
  ASSUME MipsTypeOK, NEW gpr \in [Reg -> Word]
  PROVE  DelayedLoad(gpr) \in [Reg -> Word] /\ DelayedLoad(gpr)[0] = 0
BY OperandTypes, Small, MipsAssumption DEF DelayedLoad, Reg

LEMMA DrainedType ==
  ASSUME MipsTypeOK
  PROVE  Drained \in Registers /\ Drained.gpr[0] = 0
<1>1. DelayedLoad(regs.gpr) \in [Reg -> Word] /\ DelayedLoad(regs.gpr)[0] = 0
  BY OperandTypes, DelayedLoadType
<1>2. 0 \in Reg /\ 0 \in Word /\ regs \in Registers
  BY Small, MipsAssumption DEF MipsTypeOK, Reg
<1> HIDE DEF DelayedLoad
<1> QED BY <1>1, <1>2 DEF Drained, Registers

LEMMA CompleteTypes ==
  ASSUME MipsTypeOK, NEW new \in Registers, NEW n \in Reg, NEW v \in Word, NEW p \in Word,
         Complete(new, n, v, p), bytes' \in [Address -> Byte]
  PROVE  MipsTypeOK'
<1>1. DelayedLoad(new.gpr) \in [Reg -> Word] /\ DelayedLoad(new.gpr)[0] = 0
  BY DelayedLoadType DEF Registers
<1>2. regs' = [new EXCEPT !.gpr = DelayedLoad(new.gpr), !.load = n, !.value = v,
                          !.pc = regs.next, !.next = p]
  BY DEF Complete
<1>3. regs' \in Registers /\ regs'.gpr[0] = 0
  <2> HIDE DEF DelayedLoad
  <2>1. regs.next \in Word
    BY OperandTypes
  <2> QED BY <1>1, <1>2, <2>1 DEF Registers
<1>4. left' \in Nat /\ instr' \in Code
  <2>1. left \in Nat /\ left > 0 /\ instr \in Code
    BY DEF Complete, Executes, Runs, MipsTypeOK
  <2> QED BY <2>1 DEF Complete, Fetches
<1>5. UNCHANGED <<resident, mode, saved>>
  BY DEF Complete
<1> QED BY <1>3, <1>4, <1>5 DEF MipsTypeOK

LEMMA PageTypes ==
  ASSUME MipsTypeOK, NEW a \in Word, NEW s \in {1, 2, 4}, Translate(a, s) = "PageFault"
  PROVE  PageOf(a) \in 0 .. PageTableSize - 1
<1>1. a \in Int
  BY WordSizes DEF Word
<1>2. Unsigned(a) \in Nat /\ PageSize \in Nat \ {0} /\ PageTableSize \in Nat
  BY <1>1, UnsignedType, MipsAssumption, WordSizes
<1>3. PageOf(a) \in Nat
  <2>1. PageOf(a) \in 0 .. Unsigned(a)
    BY <1>2, NaturalDivision DEF PageOf
  <2> QED BY <1>2, <2>1
<1> QED BY <1>2, <1>3 DEF Translate

LEMMA FaultTypes ==
  ASSUME MipsTypeOK, PageFault
  PROVE  MipsTypeOK'
<1>1. PageOf(Access.at) \in 0 .. PageTableSize - 1
  <2>1. CASE Translate(regs.pc, 4) # "NoException"
    BY <2>1, OperandTypes, PageTypes DEF PageFault, Access
  <2>2. CASE Translate(regs.pc, 4) = "NoException"
    <3>1. /\ Access.at = Aligned
          /\ Translate(Aligned, Width(instr.op)) = "PageFault"
      BY <2>2 DEF PageFault, Access
    <3>2. Width(instr.op) \in {1, 2, 4} /\ Aligned \in Word
      BY AlignedFacts, WidthFacts
    <3> QED BY <3>1, <3>2, PageTypes
  <2> QED BY <2>1, <2>2
<1>2. resident' \in SUBSET (0 .. PageTableSize - 1)
  BY <1>1 DEF PageFault, MipsTypeOK
<1>3. regs' \in Registers /\ regs'.gpr[0] = 0
  BY DrainedType DEF PageFault
<1> QED BY <1>2, <1>3 DEF PageFault, MipsTypeOK

LEMMA NextMipsTypes ==
  MipsTypeOK /\ [ProcessorNext]_processorVars => MipsTypeOK'
<1> SUFFICES ASSUME MipsTypeOK, [ProcessorNext]_processorVars PROVE MipsTypeOK'
  OBVIOUS
<1>1. /\ regs \in Registers /\ bytes \in [Address -> Byte] /\ instr \in Code
      /\ 0 \in Word /\ 0 \in Reg /\ PageTableSize \in Nat \ {0}
  BY Small, MipsAssumption DEF MipsTypeOK, Reg
<1>2. /\ A \in Word /\ B \in Word /\ X \in Word /\ InOrder \in Word
      /\ regs.next \in Word /\ regs.hi \in Word /\ regs.lo \in Word /\ regs.pc \in Word
  BY OperandTypes
<1>3. ASSUME NEW k \in Reg, NEW x \in Word, NEW p \in Word,
             Complete([regs EXCEPT !.gpr[k] = x], 0, 0, p), UNCHANGED bytes
      PROVE  MipsTypeOK'
  <2>1. [regs EXCEPT !.gpr[k] = x] \in Registers
    BY <1>3, RegisterWritten
  <2> QED BY <1>1, <1>3, <2>1, CompleteTypes
<1>4. CASE RegisterOp
  <2> DEFINE op == CASE instr.op = "ADD" -> "ADDU" [] instr.op = "SUB" -> "SUBU"
                     [] OTHER -> instr.op
  <2>1. /\ op \in RegisterOps /\ UNCHANGED bytes
        /\ Complete([regs EXCEPT !.gpr[instr.rd] = RegisterResult(op, A, B, X)], 0, 0, InOrder)
    BY <1>4 DEF RegisterOp
  <2>2. instr.rd \in Reg /\ (op \in Shifts => X \in 0 .. WordBits - 1)
    BY <1>1, CodeFacts DEF Shifts
  <2> HIDE DEF op
  <2>3. RegisterResult(op, A, B, X) \in Word
    BY <1>2, <2>1, <2>2, RegisterResultType
  <2> QED BY <1>2, <1>3, <2>1, <2>2, <2>3
<1>5. CASE ImmediateOp
  <2> DEFINE op == IF instr.op = "ADDI" THEN "ADDIU" ELSE instr.op
  <2>1. /\ op \in ImmediateOps /\ UNCHANGED bytes
        /\ Complete([regs EXCEPT !.gpr[instr.rt] = ImmediateResult(op, A, X)], 0, 0, InOrder)
    BY <1>5 DEF ImmediateOp
  <2>2. instr.rt \in Reg
    BY <1>1, CodeFacts
  <2> HIDE DEF op
  <2>3. ImmediateResult(op, A, X) \in Word
    BY <1>2, <2>1, ImmediateResultType
  <2> QED BY <1>2, <1>3, <2>1, <2>2, <2>3
<1>6. CASE HiLoOp
  <2>1. /\ Complete([regs EXCEPT !.hi = HiLo.hi, !.lo = HiLo.lo], 0, 0, InOrder)
        /\ UNCHANGED bytes
    BY <1>6 DEF HiLoOp
  <2>2. HiLo.hi \in Word /\ HiLo.lo \in Word
    BY <1>6, <2>1, HiLoType DEF HiLoOp, Complete
  <2>3. [regs EXCEPT !.hi = HiLo.hi, !.lo = HiLo.lo] \in Registers
    BY <1>1, <2>2 DEF Registers
  <2> QED BY <1>1, <1>2, <2>1, <2>3, CompleteTypes
<1>7. CASE MoveFrom
  <2>1. instr.rd \in Reg
    BY <1>1, CodeFacts
  <2> QED BY <1>2, <1>3, <1>7, <2>1 DEF MoveFrom
<1>8. CASE Jump
  <2>1. PcAfter \in Word
    <3> DEFINE far == InOrder - (InOrder % Region) + 4 * X
               near == regs.next + 4 * X
    <3>1. InOrder \in Int /\ X \in Int /\ regs.next \in Int
      BY <1>2, WordSizes DEF Word
    <3>2. Region \in Nat \ {0}
      BY MipsAssumption
    <3>3. far \in Int /\ near \in Int
      <4>1. InOrder % Region \in 0 .. Region - 1
        BY <3>1, <3>2, Divided
      <4>2. InOrder % Region \in Int
        BY <3>2, <4>1
      <4> QED BY <3>1, <4>2
    <3>4. Wrap(far) \in Word /\ Wrap(near) \in Word
      <4> HIDE DEF far, near
      <4> QED BY <3>3, WrapFacts
    <3> QED BY <1>2, <3>4 DEF PcAfter
  <2>2. Linked \in Registers
    <3>1. instr.rd \in Reg /\ GPRs \in Reg
      BY <1>1, CodeFacts
    <3>2. /\ [regs EXCEPT !.gpr[GPRs] = InOrder] \in Registers
          /\ [regs EXCEPT !.gpr[instr.rd] = InOrder] \in Registers
      BY <1>2, <3>1, RegisterWritten
    <3> QED BY <1>1, <3>2 DEF Linked
  <2>3. Complete(Linked, 0, 0, PcAfter) /\ UNCHANGED bytes
    BY <1>8 DEF Jump
  <2> QED BY <1>1, <2>1, <2>2, <2>3, CompleteTypes
<1>9. CASE Load
  <2> DEFINE word == LoadedWord(BytesAt(bytes, Aligned, Width(instr.op)))
  <2>1. word \in Word
    BY <1>9, LoadedType DEF Load
  <2>2. Complete(regs, instr.rt, word, InOrder) /\ UNCHANGED bytes
    BY <1>9 DEF Load
  <2>3. instr.rt \in Reg
    BY <1>1, CodeFacts
  <2> HIDE DEF word
  <2> QED BY <1>1, <1>2, <2>1, <2>2, <2>3, CompleteTypes
<1>10. CASE Store
  <2> DEFINE word == StoredWord(BytesAt(bytes, Aligned, Width(instr.op)))
  <2>1. Complete(regs, 0, 0, InOrder) /\ Executes /\ instr.op \in Stores
    BY <1>10 DEF Store, Complete
  <2>2. bytes' = [a \in Address |->
                    IF a \in Aligned .. Aligned + Width(instr.op) - 1
                    THEN ByteOf(word, a - Aligned) ELSE bytes[a]]
    BY <1>10 DEF Store
  <2>3. word \in Int /\ Aligned \in Nat
    BY <2>1, StoredType, Reached DEF MemoryOps
  <2> HIDE DEF word
  <2>4. ASSUME NEW a \in Address, a \in Aligned .. Aligned + Width(instr.op) - 1
        PROVE  ByteOf(word, a - Aligned) \in Byte
    <3>1. Width(instr.op) \in {1, 2, 4} /\ a \in Int
      BY WidthFacts, MemoryEnds DEF Address
    <3>2. a - Aligned \in 0 .. 3
      BY <2>3, <2>4, <3>1
    <3> QED BY <2>3, <3>2, ByteOfType
  <2>5. bytes' \in [Address -> Byte]
    BY <1>1, <2>2, <2>4
  <2> QED BY <1>1, <1>2, <2>1, <2>5, CompleteTypes
<1>11. CASE Syscall
  <2>1. PICK result \in Results \cup {Drained.gpr[2]} :
          regs' = [Drained EXCEPT !.gpr[2] = result, !.pc = WrapOnce(@ + 4),
                                  !.next = WrapOnce(regs.pc + 8)]
    BY <1>11 DEF Syscall
  <2>2. Drained \in Registers /\ Drained.gpr[0] = 0 /\ Drained.pc = regs.pc
    BY DrainedType DEF Drained
  <2>3. 2 \in Reg /\ result \in Word
    BY <1>1, <2>2, CodeFacts, MipsAssumption DEF Registers
  <2>4. WrapOnce(regs.pc + 4) \in Word /\ WrapOnce(regs.pc + 8) \in Word
    <3>1. regs.pc + 4 \in -WordSize .. WordSize /\ regs.pc + 8 \in -WordSize .. WordSize
      BY <1>2, WordSizes DEF Word
    <3> QED BY <3>1, WrapOnceFacts
  <2>5. regs' \in Registers /\ regs'.gpr[0] = 0
    <3> HIDE DEF WrapOnce, Drained
    <3>1. [Drained.gpr EXCEPT ![2] = result] \in [Reg -> Word]
          /\ [Drained.gpr EXCEPT ![2] = result][0] = 0
      BY <1>1, <2>2, <2>3 DEF Registers
    <3>2. regs' = [Drained EXCEPT !.gpr = [Drained.gpr EXCEPT ![2] = result],
                                  !.pc = WrapOnce(regs.pc + 4),
                                  !.next = WrapOnce(regs.pc + 8)]
      BY <2>1, <2>2
    <3> QED BY <2>2, <2>4, <3>1, <3>2 DEF Registers
  <2>6. left' \in Nat /\ instr' \in Code
    <3>1. left \in Nat /\ left > 0
      BY <1>11 DEF Syscall, Executes, Runs, MipsTypeOK
    <3> QED BY <1>1, <1>11, <3>1 DEF Syscall, Fetches
  <2> QED BY <1>11, <2>5, <2>6 DEF Syscall, MipsTypeOK
<1>12. CASE PageFault
  BY <1>12, FaultTypes
<1>13. CASE Trap \/ Interrupted \/ UnexpectedSyscall
  <2>1. Drained \in Registers /\ Drained.gpr[0] = 0
    BY DrainedType
  <2>2. regs' = Drained /\ UNCHANGED <<bytes, instr, saved, left>>
    BY <1>13 DEF Trap, Interrupted, UnexpectedSyscall
  <2>3. mode' \in {"user", "away", "stuck", "stopped"}
    BY <1>13 DEF Trap, Interrupted, UnexpectedSyscall
  <2>4. resident' \in SUBSET (0 .. PageTableSize - 1)
    <3>1. 0 \in 0 .. PageTableSize - 1 /\ resident \in SUBSET (0 .. PageTableSize - 1)
      BY <1>1 DEF MipsTypeOK
    <3> QED BY <1>13, <3>1 DEF Trap, Interrupted, UnexpectedSyscall
  <2> QED BY <2>1, <2>2, <2>3, <2>4 DEF MipsTypeOK
<1>14. CASE SwitchAway
  <2>1. Drained \in Registers /\ Drained.gpr[0] = 0
    BY DrainedType
  <2> QED BY <1>14, <2>1, LeftoverAssumption DEF SwitchAway, MipsTypeOK
<1>15. CASE SwitchBack
  BY <1>15 DEF SwitchBack, MipsTypeOK
<1>16. CASE UNCHANGED processorVars
  BY <1>16 DEF processorVars, MipsTypeOK
<1> QED BY <1>4, <1>5, <1>6, <1>7, <1>8, <1>9, <1>10, <1>11, <1>12, <1>13, <1>14, <1>15,
           <1>16 DEF ProcessorNext

LEMMA InitMipsTypes == ProcessorInit => MipsTypeOK
<1>1. /\ 0 \in Word /\ 4 \in Word /\ 0 \in Reg
      /\ \A s \in Starts : /\ s.left \in Nat /\ s.bytes \in [Address -> Byte]
                           /\ s.gpr \in [Reg -> Word] /\ s.gpr[0] = 0
  BY Small, MipsAssumption DEF Reg
<1>2. ASSUME NEW s \in Starts PROVE Entry(s.gpr) \in Registers /\ Entry(s.gpr).gpr[0] = 0
  BY <1>1 DEF Entry, Registers
<1> QED BY <1>1, <1>2 DEF ProcessorInit, MipsTypeOK

(* Registers hold words, memory holds bytes, and R0 is zero between any two   *)
(* instructions, whatever has been put in it (OneInstruction, DelayedLoad).   *)
THEOREM ProcessorTypes == ProcessorSpec => []MipsTypeOK
BY InitMipsTypes, NextMipsTypes, PTL DEF ProcessorSpec

-----------------------------------------------------------------------------
(* An instruction that completes uses up one of those that are left.          *)
LEMMA CompletionCounts ==
  ASSUME \/ RegisterOp \/ ImmediateOp \/ HiLoOp \/ MoveFrom
         \/ Jump \/ Load \/ Store \/ Syscall
  PROVE  left > 0 /\ left' = left - 1
BY DEF RegisterOp, ImmediateOp, HiLoOp, MoveFrom, Jump, Load, Store, Syscall,
       Complete, Fetches, Executes, Runs

CountsDown == left \in Nat

(* The bound on the instructions is a number that only goes down to zero.     *)
LEMMA BoundCounts == ProcessorSpec => []CountsDown
<1> USE DEF CountsDown
<1>1. ProcessorInit => CountsDown
  BY MipsAssumption DEF ProcessorInit
<1>2. CountsDown /\ [ProcessorNext]_processorVars => CountsDown'
  <2> SUFFICES ASSUME CountsDown, [ProcessorNext]_processorVars PROVE CountsDown'
    OBVIOUS
  <2>1. CASE \/ RegisterOp \/ ImmediateOp \/ HiLoOp \/ MoveFrom
             \/ Jump \/ Load \/ Store \/ Syscall
    BY <2>1, CompletionCounts
  <2>2. CASE \/ PageFault \/ Trap \/ UnexpectedSyscall
             \/ Interrupted \/ SwitchAway \/ SwitchBack
    BY <2>2 DEF PageFault, Trap, UnexpectedSyscall, Interrupted, SwitchAway, SwitchBack
  <2>3. CASE UNCHANGED processorVars
    BY <2>3 DEF processorVars
  <2> QED BY <2>1, <2>2, <2>3 DEF ProcessorNext
<1> QED BY <1>1, <1>2, PTL DEF ProcessorSpec

-----------------------------------------------------------------------------
(* OperandsSettled is inductive once R0 is known to be zero and the register  *)
(* that waits for a word is not named by the instruction.                     *)
Unnamed ==
  mode \in {"user", "away"} /\ left > 0 =>
    Own.gpr[0] = 0 /\ (Own.load # 0 => Own.load \notin Names(instr))

LEMMA OperandsUnnamed == ProcessorSpec => []Unnamed
<1>1. ProcessorInit => Unnamed
  BY MipsAssumption DEF ProcessorInit, Unnamed, Own, Entry
<1>2. CountsDown /\ Unnamed /\ [ProcessorNext]_processorVars => Unnamed'
  <2> SUFFICES ASSUME CountsDown, Unnamed, [ProcessorNext]_processorVars,
                      mode' \in {"user", "away"}, left' > 0
               PROVE  /\ Own'.gpr[0] = 0
                      /\ Own'.load # 0 => Own'.load \notin Names(instr')
    BY DEF Unnamed
  <2> USE DEF CountsDown
  <2>1. ASSUME NEW new, NEW n, NEW v, NEW p, Complete(new, n, v, p)
        PROVE  /\ Own'.gpr[0] = 0
               /\ Own'.load # 0 => Own'.load \notin Names(instr')
    <3>1. Own' = regs' /\ left > 1
      BY <2>1 DEF Complete, Executes, Runs, Own, Fetches
    <3>2. n # 0 => n \notin Names(instr')
      BY <2>1, <3>1 DEF Complete, Fetches, Follows
    <3>3. regs'.gpr[0] = 0 /\ regs'.load = n
      BY <2>1, MipsAssumption DEF Complete, DelayedLoad, Reg
    <3> QED BY <3>1, <3>2, <3>3
  <2>2. CASE RegisterOp \/ ImmediateOp \/ HiLoOp \/ MoveFrom \/ Jump \/ Load \/ Store
    BY <2>1, <2>2 DEF RegisterOp, ImmediateOp, HiLoOp, MoveFrom, Jump, Load, Store
  <2>3. CASE Syscall
    <3>1. Own' = regs' /\ regs'.load = 0
      BY <2>3 DEF Syscall, Executes, Runs, Own, Drained
    <3>2. regs'.gpr[0] = 0
      BY <2>3, MipsAssumption DEF Syscall, Drained, DelayedLoad, Reg
    <3> QED BY <3>1, <3>2
  <2>4. CASE PageFault \/ Interrupted \/ SwitchAway
    <3>1. Own' = Drained
      BY <2>4 DEF PageFault, Interrupted, SwitchAway, Runs, Own
    <3>2. Drained.gpr[0] = 0 /\ Drained.load = 0
      BY MipsAssumption DEF Drained, DelayedLoad, Reg
    <3> QED BY <3>1, <3>2
  <2>5. CASE SwitchBack
    BY <2>5 DEF SwitchBack, Own, Unnamed
  <2>6. CASE Trap \/ UnexpectedSyscall
    BY <2>6 DEF Trap, UnexpectedSyscall
  <2>7. CASE UNCHANGED processorVars
    BY <2>7 DEF processorVars, Own, Unnamed
  <2> QED BY <2>2, <2>3, <2>4, <2>5, <2>6, <2>7 DEF ProcessorNext
<1> QED BY <1>1, <1>2, BoundCounts, PTL DEF ProcessorSpec

(* A register that an instruction names has the word that the program put     *)
(* there, although loads come late and faults, interrupts and other threads   *)
(* come at any point (OneInstruction, DelayedLoad).                           *)
THEOREM OperandsAreSettled == ProcessorSpec => []OperandsSettled
<1>1. Unnamed => OperandsSettled
  BY DEF Unnamed, OperandsSettled, Settled
<1> QED BY <1>1, OperandsUnnamed, PTL

-----------------------------------------------------------------------------
(* Letting the word in flight through is nothing the program can see.         *)
LEMMA DrainedSettled ==
  /\ Settled(Drained) = Settled(regs)
  /\ Drained.hi = regs.hi /\ Drained.lo = regs.lo
  /\ Drained.pc = regs.pc /\ Drained.next = regs.next
<1>1. \A n \in Reg : DelayedLoad(regs.gpr)[n] = Settled(regs)[n]
  BY DEF DelayedLoad, Settled
<1>2. Drained.gpr = DelayedLoad(regs.gpr) /\ Drained.load = 0
  BY DEF Drained
<1>3. Settled(Drained) = Settled(regs)
  BY <1>1, <1>2 DEF Settled
<1> QED BY <1>3 DEF Drained

(* Faults, and the threads that run in between, leave the registers and the   *)
(* memory of the program alone, at any point of it and for any program.       *)
THEOREM FaultsAreInvisible == ProcessorSpec => FaultsInvisible
<1>1. CountsDown /\ [ProcessorNext]_processorVars
        => [ViewKept]_processorVars
  <2> SUFFICES ASSUME left \in Nat, ProcessorNext, left' = left, mode' # "stopped"
               PROVE  View' = View
    BY DEF processorVars, CountsDown, ViewKept
  <2>1. CASE PageFault \/ UnexpectedSyscall \/ Interrupted \/ SwitchAway
    <3>1. Own = regs /\ bytes' = bytes
      BY <2>1 DEF PageFault, UnexpectedSyscall, Interrupted, SwitchAway, Executes, Runs, Own
    <3>2. Own' = Drained
      BY <2>1 DEF PageFault, UnexpectedSyscall, Interrupted, SwitchAway, Executes, Runs, Own
    <3>3. Settled(Own)' = Settled(Own)
      BY <3>1, <3>2, DrainedSettled DEF Settled
    <3> QED BY <3>1, <3>2, <3>3, DrainedSettled DEF View
  <2>2. CASE SwitchBack
    <3>1. Own' = Own /\ bytes' = bytes
      BY <2>2 DEF SwitchBack, Own
    <3> QED BY <3>1 DEF View, Settled
  <2>3. CASE Trap
    BY <2>3 DEF Trap
  <2>4. CASE \/ RegisterOp \/ ImmediateOp \/ HiLoOp \/ MoveFrom
             \/ Jump \/ Load \/ Store \/ Syscall
    BY <2>4, CompletionCounts
  <2> QED BY <2>1, <2>2, <2>3, <2>4 DEF ProcessorNext
<1> QED BY <1>1, BoundCounts, PTL DEF ProcessorSpec, FaultsInvisible

-----------------------------------------------------------------------------
(* What an instruction that completes does to what the program can see.       *)
Ready == MipsTypeOK /\ Unnamed

LEMMA SameWithin ==
  ASSUME NEW a, NEW s
  PROVE  Ideal!Mapped(a, s) <=> Within(a, s)
BY SameWraps DEF Ideal!Mapped, Within

LEMMA Seen ==
  ASSUME mode = "user"
  PROVE  /\ Own = regs /\ Live
         /\ View.gpr = Settled(regs) /\ View.hi = regs.hi /\ View.lo = regs.lo
         /\ View.pc = regs.pc /\ View.next = regs.next
BY DEF Own, Live, View

LEMMA Operand ==
  ASSUME Ready, Runs, NEW r \in Names(instr) \cap Reg
  PROVE  View.gpr[r] = regs.gpr[r] /\ (regs.load # 0 => r # regs.load)
<1>1. Own = regs /\ View.gpr = Settled(regs)
  BY Seen DEF Runs
<1>2. regs.load # 0 => regs.load \notin Names(instr)
  BY <1>1 DEF Ready, Unnamed, Runs
<1>3. regs.gpr[0] = 0
  BY DEF Ready, MipsTypeOK
<1> QED BY <1>1, <1>2, <1>3 DEF Settled

LEMMA CompleteSees ==
  ASSUME MipsTypeOK, NEW new \in Registers, NEW n, NEW v, NEW p, Complete(new, n, v, p)
  PROVE  /\ Ideal!Goes(p)
         /\ View'.gpr = [r \in Reg |-> IF r = 0 THEN 0 ELSE IF r = n THEN v
                                       ELSE IF r = regs.load THEN regs.value ELSE new.gpr[r]]
         /\ View'.hi = regs'.hi /\ View'.lo = regs'.lo
<1>1. /\ mode = "user" /\ mode' = "user" /\ Executes
      /\ regs' = [new EXCEPT !.gpr = DelayedLoad(new.gpr), !.load = n, !.value = v,
                             !.pc = regs.next, !.next = p]
      /\ instr' \in Code
  BY DEF Complete, Executes, Runs, Fetches, MipsTypeOK
<1>2. Own' = regs' /\ Live /\ Live'
  BY <1>1 DEF Own, Live
<1>3. View' = [gpr |-> Settled(regs'), hi |-> regs'.hi, lo |-> regs'.lo, pc |-> regs'.pc,
               next |-> regs'.next, mem |-> bytes']
  BY <1>2 DEF View, Settled
<1>4. regs'.pc = regs.next /\ regs'.next = p /\ regs'.load = n /\ regs'.value = v
      /\ regs'.gpr = DelayedLoad(new.gpr)
  BY <1>1 DEF Registers
<1>5. Within(View.pc, 4)
  BY <1>1, Reached, Seen
<1>6. Ideal!Goes(p)
  BY <1>1, <1>2, <1>3, <1>4, <1>5, Seen, SameWithin DEF Ideal!Goes
<1>7. View'.gpr = Settled(regs')
  BY <1>3
<1>8. Settled(regs') = [r \in Reg |-> IF r = 0 THEN 0 ELSE IF r = n THEN v
                                      ELSE IF r = regs.load THEN regs.value ELSE new.gpr[r]]
  BY <1>4 DEF Settled, DelayedLoad
<1> QED BY <1>3, <1>6, <1>7, <1>8

LEMMA InOrderSeen ==
  ASSUME MipsTypeOK, Runs
  PROVE  Ideal!InOrder = InOrder
<1>1. View.next = regs.next
  BY Seen DEF Runs
<1> QED BY <1>1, OperandTypes, SameWraps DEF Ideal!InOrder

LEMMA RegisterSeen ==
  ASSUME Ready, NEW k \in Reg, NEW x \in Word, NEW p,
         regs.load # 0 => k # regs.load,
         Complete([regs EXCEPT !.gpr[k] = x], 0, 0, p)
  PROVE  /\ Ideal!Writes(k, x) /\ Ideal!Goes(p)
         /\ View'.hi = View.hi /\ View'.lo = View.lo
<1> DEFINE new == [regs EXCEPT !.gpr[k] = x]
<1>1. new \in Registers /\ regs \in Registers
  BY RegisterWritten DEF Ready, MipsTypeOK
<1>2. new.gpr = [regs.gpr EXCEPT ![k] = x] /\ new.hi = regs.hi /\ new.lo = regs.lo
  BY <1>1 DEF Registers
<1>3. Complete(new, 0, 0, p)
  OBVIOUS
<1> HIDE DEF new
<1>4. /\ Ideal!Goes(p)
      /\ View'.gpr = [r \in Reg |-> IF r = 0 THEN 0 ELSE IF r = 0 THEN 0
                                    ELSE IF r = regs.load THEN regs.value ELSE new.gpr[r]]
      /\ View'.hi = regs'.hi /\ View'.lo = regs'.lo
  BY <1>1, <1>3, CompleteSees DEF Ready
<1>5. regs'.hi = regs.hi /\ regs'.lo = regs.lo
  BY <1>1, <1>2, <1>3 DEF Complete, Registers
<1>6. View.gpr = Settled(regs) /\ View.hi = regs.hi /\ View.lo = regs.lo
  BY <1>3, Seen DEF Complete, Executes, Runs
<1>7. View'.gpr = [View.gpr EXCEPT ![k] = IF k = 0 THEN 0 ELSE x]
  <2>1. new.gpr = [regs.gpr EXCEPT ![k] = x] /\ regs.gpr \in [Reg -> Word]
    BY <1>1, <1>2 DEF Registers
  <2> QED BY <1>4, <1>6, <2>1 DEF Settled
<1> QED BY <1>4, <1>5, <1>6, <1>7 DEF Ideal!Writes

LEMMA LoadSeen ==
  ASSUME Ready, NEW k \in Reg, NEW x, NEW p, Complete(regs, k, x, p)
  PROVE  /\ Ideal!Writes(k, x) /\ Ideal!Goes(p)
         /\ View'.hi = View.hi /\ View'.lo = View.lo
<1>1. regs \in Registers
  BY DEF Ready, MipsTypeOK
<1>2. /\ Ideal!Goes(p)
      /\ View'.gpr = [r \in Reg |-> IF r = 0 THEN 0 ELSE IF r = k THEN x
                                    ELSE IF r = regs.load THEN regs.value ELSE regs.gpr[r]]
      /\ View'.hi = regs'.hi /\ View'.lo = regs'.lo
  BY <1>1, CompleteSees DEF Ready
<1>3. regs'.hi = regs.hi /\ regs'.lo = regs.lo
  BY <1>1 DEF Complete, Registers
<1>4. View.gpr = Settled(regs) /\ View.hi = regs.hi /\ View.lo = regs.lo
  BY Seen DEF Complete, Executes, Runs
<1>5. View'.gpr = [View.gpr EXCEPT ![k] = IF k = 0 THEN 0 ELSE x]
  BY <1>2, <1>4 DEF Settled
<1> QED BY <1>2, <1>3, <1>4, <1>5 DEF Ideal!Writes

LEMMA RestSeen ==
  ASSUME Ready, NEW new \in Registers, NEW p, Complete(new, 0, 0, p), new.gpr = regs.gpr
  PROVE  /\ View'.gpr = View.gpr /\ Ideal!Goes(p)
         /\ View'.hi = new.hi /\ View'.lo = new.lo
<1>1. /\ Ideal!Goes(p)
      /\ View'.gpr = [r \in Reg |-> IF r = 0 THEN 0 ELSE IF r = 0 THEN 0
                                    ELSE IF r = regs.load THEN regs.value ELSE new.gpr[r]]
      /\ View'.hi = regs'.hi /\ View'.lo = regs'.lo
  BY CompleteSees DEF Ready
<1>2. regs'.hi = new.hi /\ regs'.lo = new.lo
  BY DEF Complete, Registers
<1>3. View.gpr = Settled(regs)
  BY Seen DEF Complete, Executes, Runs
<1> QED BY <1>1, <1>2, <1>3 DEF Settled

LEMMA RegisterOpIdeal ==
  ASSUME Ready, RegisterOp
  PROVE  Ideal!Calculates
<1> DEFINE op == CASE instr.op = "ADD" -> "ADDU" [] instr.op = "SUB" -> "SUBU"
                   [] OTHER -> instr.op
           x == RegisterResult(op, A, B, X)
<1>1. /\ op \in RegisterOps /\ UNCHANGED bytes /\ Executes /\ ~Trapped
      /\ Complete([regs EXCEPT !.gpr[instr.rd] = x], 0, 0, InOrder)
  BY DEF RegisterOp, Complete
<1>2. instr \in Code /\ A \in Word /\ B \in Word /\ X \in Word /\ Runs
  BY <1>1, OperandTypes DEF Ready, MipsTypeOK, Executes
<1>3. /\ instr.rs \in Reg /\ instr.rt \in Reg /\ instr.rd \in Reg
      /\ op \in Shifts => X \in 0 .. WordBits - 1
  BY <1>2, CodeFacts DEF Shifts
<1>4. instr.op \in RegisterOps \cup {"ADD", "SUB"}
  BY <1>1
<1>5. Names(instr) = {instr.rs, instr.rt, instr.rd}
  BY <1>4 DEF Names, RegisterOps, ImmediateOps, Stores, Loads
<1>6. /\ Ideal!A = A /\ Ideal!B = B /\ Ideal!X = X
      /\ regs.load # 0 => instr.rd # regs.load
  BY <1>2, <1>3, <1>5, Operand DEF Ideal!A, A, Ideal!B, B, Ideal!X, X
<1>7. x \in Word
  <2> HIDE DEF op
  <2> QED BY <1>1, <1>2, <1>3, RegisterResultType
<1>8. /\ Ideal!Writes(instr.rd, x) /\ Ideal!Goes(Ideal!InOrder)
      /\ View'.hi = View.hi /\ View'.lo = View.lo
  <2> HIDE DEF x
  <2> QED BY <1>1, <1>2, <1>3, <1>6, <1>7, RegisterSeen, InOrderSeen DEF Ready
<1>9. CASE instr.op = "ADD"
  <2>1. A + B \in Word
    BY <1>1, <1>2, <1>9, AddTestExact DEF Trapped
  <2>2. A + B \in Int
    BY <1>2, WordSizes DEF Word
  <2>3. x = A + B
    BY <1>2, <1>9, <2>1, <2>2, SumWraps, WrapFacts DEF RegisterResult
  <2>4. Ideal!Sum(Ideal!A + Ideal!B)
    BY <1>6, <1>8, <1>9, <2>1, <2>3, SameSizes DEF Ideal!Sum
  <2> QED BY <1>1, <1>8, <1>9, <2>4, SameOps
           DEF Ideal!Calculates, RegisterOps, ImmediateOps
<1>10. CASE instr.op = "SUB"
  <2>1. A - B \in Word
    BY <1>1, <1>2, <1>10, SubTestExact DEF Trapped
  <2>2. A - B \in Int
    BY <1>2, WordSizes DEF Word
  <2>3. x = A - B
    BY <1>2, <1>10, <2>1, <2>2, SumWraps, WrapFacts DEF RegisterResult
  <2>4. Ideal!Sum(Ideal!A - Ideal!B)
    BY <1>6, <1>8, <1>10, <2>1, <2>3, SameSizes DEF Ideal!Sum
  <2> QED BY <1>1, <1>8, <1>10, <2>4, SameOps
           DEF Ideal!Calculates, RegisterOps, ImmediateOps
<1>11. CASE instr.op \in RegisterOps
  <2>1. op = instr.op
    BY <1>11 DEF RegisterOps
  <2>2. x = Ideal!RegisterResult(instr.op, Ideal!A, Ideal!B, Ideal!X)
    BY <1>6, <1>11, <2>1, SameRegisterResult
  <2>3. /\ instr.op \in Ideal!RegisterOps /\ instr.op \notin Ideal!ImmediateOps
        /\ instr.op \notin {"ADD", "ADDI", "SUB", "MFHI", "MFLO"}
    BY <1>11, SameOps DEF RegisterOps, ImmediateOps
  <2> HIDE DEF x
  <2> QED BY <1>1, <1>8, <2>2, <2>3, SameOps
           DEF Ideal!Calculates
<1> QED BY <1>4, <1>9, <1>10, <1>11

LEMMA ImmediateOpIdeal ==
  ASSUME Ready, ImmediateOp
  PROVE  Ideal!Calculates
<1> DEFINE op == IF instr.op = "ADDI" THEN "ADDIU" ELSE instr.op
           x == ImmediateResult(op, A, X)
<1>1. /\ op \in ImmediateOps /\ UNCHANGED bytes /\ Executes /\ ~Trapped
      /\ Complete([regs EXCEPT !.gpr[instr.rt] = x], 0, 0, InOrder)
  BY DEF ImmediateOp, Complete
<1>2. instr \in Code /\ A \in Word /\ X \in Word /\ Runs
  BY <1>1, OperandTypes DEF Ready, MipsTypeOK, Executes
<1>3. instr.rs \in Reg /\ instr.rt \in Reg
  BY <1>2, CodeFacts
<1>4. instr.op \in ImmediateOps \cup {"ADDI"}
  BY <1>1
<1>5. Names(instr) = {instr.rs, instr.rt}
  BY <1>4 DEF Names, RegisterOps, ImmediateOps, Stores, Loads
<1>6. /\ Ideal!A = A /\ Ideal!X = X
      /\ regs.load # 0 => instr.rt # regs.load
  BY <1>2, <1>3, <1>5, Operand DEF Ideal!A, A, Ideal!X, X
<1>7. x \in Word
  <2> HIDE DEF op
  <2> QED BY <1>1, <1>2, ImmediateResultType
<1>8. /\ Ideal!Writes(instr.rt, x) /\ Ideal!Goes(Ideal!InOrder)
      /\ View'.hi = View.hi /\ View'.lo = View.lo
  <2> HIDE DEF x
  <2> QED BY <1>1, <1>2, <1>3, <1>6, <1>7, RegisterSeen, InOrderSeen DEF Ready
<1>9. CASE instr.op = "ADDI"
  <2>1. A + X \in Word
    BY <1>1, <1>2, <1>9, AddTestExact DEF Trapped
  <2>2. A + X \in Int
    BY <1>2, WordSizes DEF Word
  <2>3. x = A + X
    BY <1>2, <1>9, <2>1, <2>2, SumWraps, WrapFacts DEF ImmediateResult
  <2>4. Ideal!Sum(Ideal!A + Ideal!X)
    BY <1>6, <1>8, <1>9, <2>1, <2>3, SameSizes DEF Ideal!Sum
  <2> QED BY <1>1, <1>8, <1>9, <2>4, SameOps
           DEF Ideal!Calculates, RegisterOps, ImmediateOps
<1>10. CASE instr.op \in ImmediateOps
  <2>1. op = instr.op
    BY <1>10 DEF ImmediateOps
  <2>2. x = Ideal!ImmediateResult(instr.op, Ideal!A, Ideal!X)
    BY <1>6, <1>10, <2>1, SameImmediateResult
  <2>3. /\ instr.op \in Ideal!ImmediateOps /\ instr.op \notin Ideal!RegisterOps
        /\ instr.op \notin {"ADD", "ADDI", "SUB", "MFHI", "MFLO"}
    BY <1>10, SameOps DEF RegisterOps, ImmediateOps
  <2> HIDE DEF x
  <2> QED BY <1>1, <1>8, <2>2, <2>3, SameOps
           DEF Ideal!Calculates
<1> QED BY <1>4, <1>9, <1>10

LEMMA MoveFromIdeal ==
  ASSUME Ready, MoveFrom
  PROVE  Ideal!Calculates
<1> DEFINE x == IF instr.op = "MFHI" THEN regs.hi ELSE regs.lo
<1>1. /\ instr.op \in {"MFHI", "MFLO"} /\ UNCHANGED bytes /\ Runs
      /\ Complete([regs EXCEPT !.gpr[instr.rd] = x], 0, 0, InOrder)
  BY DEF MoveFrom, Complete, Executes
<1>2. instr.rd \in Reg /\ x \in Word
  BY CodeFacts, OperandTypes DEF Ready, MipsTypeOK
<1>3. Names(instr) = {instr.rd}
  BY <1>1 DEF Names, RegisterOps, ImmediateOps, Stores, Loads
<1>4. regs.load # 0 => instr.rd # regs.load
  BY <1>1, <1>2, <1>3, Operand
<1>5. /\ Ideal!Writes(instr.rd, x) /\ Ideal!Goes(Ideal!InOrder)
      /\ View'.hi = View.hi /\ View'.lo = View.lo
  <2> HIDE DEF x
  <2> QED BY <1>1, <1>2, <1>4, RegisterSeen, InOrderSeen DEF Ready
<1>6. View.hi = regs.hi /\ View.lo = regs.lo
  BY <1>1, Seen DEF Runs
<1> QED BY <1>1, <1>5, <1>6, SameOps DEF Ideal!Calculates, RegisterOps, ImmediateOps

LEMMA HiLoIdeal ==
  ASSUME Ready, HiLoOp
  PROVE  Ideal!DividesOrMultiplies
<1> DEFINE new == [regs EXCEPT !.hi = HiLo.hi, !.lo = HiLo.lo]
<1>1. /\ instr.op \in {"DIV", "DIVU", "MULT", "MULTU", "MTHI", "MTLO"}
      /\ Complete(new, 0, 0, InOrder) /\ UNCHANGED bytes /\ ~Trapped /\ Runs
  BY DEF HiLoOp, Complete, Executes
<1>2. HiLo.hi \in Word /\ HiLo.lo \in Word /\ regs \in Registers
  BY <1>1, HiLoType DEF Ready, MipsTypeOK
<1>3. new \in Registers /\ new.gpr = regs.gpr /\ new.hi = HiLo.hi /\ new.lo = HiLo.lo
  BY <1>2 DEF Registers
<1> HIDE DEF new
<1>4. /\ View'.gpr = View.gpr /\ Ideal!Goes(Ideal!InOrder)
      /\ View'.hi = HiLo.hi /\ View'.lo = HiLo.lo
  BY <1>1, <1>3, RestSeen, InOrderSeen DEF Ready
<1>5. View.hi = regs.hi /\ View.lo = regs.lo
  BY <1>1, Seen DEF Runs
<1>6. A \in Word /\ B \in Word /\ instr.rs \in Reg /\ instr.rt \in Reg
  BY OperandTypes, CodeFacts DEF Ready, MipsTypeOK
<1>7. Names(instr) = {instr.rs, instr.rt}
  BY <1>1 DEF Names, RegisterOps, ImmediateOps, Stores, Loads
<1>8. Ideal!A = A /\ Ideal!B = B
  BY <1>1, <1>6, <1>7, Operand DEF Ideal!A, A, Ideal!B, B
<1> DEFINE h == HiLo.hi
           l == HiLo.lo
<1>9. SUFFICES /\ CASE instr.op = "DIV"   -> Ideal!Divides(A, B, l, h)
                 [] instr.op = "DIVU"  -> Ideal!Divides(Ideal!Unsigned(A), Ideal!Unsigned(B),
                                                        Ideal!Unsigned(l), Ideal!Unsigned(h))
                 [] instr.op = "MULT"  -> h * Ideal!WordSize + Ideal!Unsigned(l) = A * B
                 [] instr.op = "MULTU" -> Ideal!Unsigned(h) * Ideal!WordSize + Ideal!Unsigned(l)
                                            = Ideal!Unsigned(A) * Ideal!Unsigned(B)
                 [] instr.op = "MTHI"  -> h = A /\ l = regs.lo
                 [] instr.op = "MTLO"  -> h = regs.hi /\ l = A
                 [] OTHER -> FALSE
  BY <1>1, <1>4, <1>5, <1>8 DEF Ideal!DividesOrMultiplies
<1>10. /\ Ideal!WordSize = WordSize /\ Ideal!Unsigned(A) = Unsigned(A)
       /\ Ideal!Unsigned(B) = Unsigned(B) /\ Ideal!Unsigned(l) = Unsigned(l)
       /\ Ideal!Unsigned(h) = Unsigned(h)
  BY SameSizes, SameWraps
<1>11. ASSUME NEW a, NEW b, NEW q, NEW r
       PROVE  Ideal!Divides(a, b, q, r)
                <=> IF b = 0 THEN q = 0 /\ r = 0 ELSE Shares(a, b, q, r)
  BY SameWraps DEF Ideal!Divides, Shares
<1> HIDE DEF h, l
<1>12. CASE instr.op = "DIV"
  <2>1. CASE B = 0
    BY <1>11, <1>12, <2>1 DEF HiLo, h, l
  <2>2. CASE B # 0
    <3>1. h = Remainder(A, B) /\ l = Quotient(A, B)
      BY <1>12, <2>2 DEF HiLo, h, l
    <3>2. Shares(A, B, l, h)
      BY <1>6, <2>2, <3>1, SignedDivision
    <3> QED BY <1>11, <1>12, <2>2, <3>2
  <2> QED BY <2>1, <2>2
<1>13. CASE instr.op = "DIVU"
  <2>1. CASE B = 0
    <3>1. Unsigned(0) = 0
      BY Small, Unsigneds
    <3>2. h = 0 /\ l = 0
      BY <1>13, <2>1 DEF HiLo, h, l
    <3> QED BY <1>10, <1>11, <1>13, <2>1, <3>1, <3>2
  <2>2. CASE B # 0
    <3>1. h = Wrap(Unsigned(A) % Unsigned(B)) /\ l = Wrap(Unsigned(A) \div Unsigned(B))
      BY <1>13, <2>2 DEF HiLo, h, l
    <3>2. Unsigned(B) # 0 /\ Shares(Unsigned(A), Unsigned(B), Unsigned(l), Unsigned(h))
      BY <1>6, <2>2, <3>1, UnsignedDivision
    <3> QED BY <1>10, <1>11, <1>13, <3>2
  <2> QED BY <2>1, <2>2
<1>14. CASE instr.op = "MULT"
  <2>1. HiLo = Mult(A, B, TRUE)
    BY <1>14 DEF HiLo
  <2>2. h * WordSize + Unsigned(l) = A * B
    BY <1>6, <2>1, SignedProduct DEF h, l
  <2> QED BY <1>10, <1>14, <2>2
<1>15. CASE instr.op = "MULTU"
  <2>1. HiLo = Mult(A, B, FALSE)
    BY <1>15 DEF HiLo
  <2>2. Unsigned(h) * WordSize + Unsigned(l) = Unsigned(A) * Unsigned(B)
    BY <1>6, <2>1, UnsignedProduct DEF h, l
  <2> QED BY <1>10, <1>15, <2>2
<1>16. CASE instr.op \in {"MTHI", "MTLO"}
  BY <1>16 DEF HiLo, h, l
<1> QED BY <1>1, <1>12, <1>13, <1>14, <1>15, <1>16

LEMMA JumpIdeal ==
  ASSUME Ready, Jump
  PROVE  Ideal!Jumps
<1>1. /\ instr.op \in {"J", "JAL", "JR", "JALR"} \cup Branches
      /\ Complete(Linked, 0, 0, PcAfter) /\ UNCHANGED bytes /\ Runs
  BY DEF Jump, Jumps, Complete, Executes
<1>2. /\ instr.rs \in Reg /\ instr.rt \in Reg /\ instr.rd \in Reg /\ GPRs \in Reg
      /\ regs \in Registers /\ MipsTypeOK
  BY CodeFacts DEF Ready, MipsTypeOK
<1>3. /\ {instr.rs} \subseteq Names(instr)
      /\ instr.op \in {"JR", "J"} \cup Branches => instr.rs \in Names(instr)
      /\ instr.op \in {"BEQ", "BNE"} => instr.rt \in Names(instr)
      /\ instr.op = "JALR" => instr.rd \in Names(instr)
      /\ instr.op \in {"JAL", "BGEZAL", "BLTZAL"} => GPRs \in Names(instr)
  BY <1>1 DEF Names, RegisterOps, ImmediateOps, Stores, Loads, Branches
<1>4. /\ Ideal!A = A /\ (instr.op \in {"BEQ", "BNE"} => Ideal!B = B) /\ Ideal!X = X
      /\ View.next = regs.next /\ Ideal!InOrder = InOrder
  <2>1. Ideal!A = A
    BY <1>1, <1>2, <1>3, Operand DEF Ideal!A, A
  <2>2. instr.op \in {"BEQ", "BNE"} => Ideal!B = B
    BY <1>1, <1>2, <1>3, Operand DEF Ideal!B, B
  <2>3. View.next = regs.next
    BY <1>1, Seen DEF Runs
  <2> QED BY <1>1, <1>2, <2>1, <2>2, <2>3, InOrderSeen DEF Ideal!X, X
<1>5. instr.op \in Branches => (Ideal!Taken(instr.op, Ideal!A, Ideal!B) <=> Taken(instr.op, A, B))
  <2>1. instr.op \in Branches \ {"BEQ", "BNE"} =>
          (Taken(instr.op, A, Ideal!B) <=> Taken(instr.op, A, B))
    BY DEF Taken, Branches
  <2>2. instr.op \in {"BEQ", "BNE"} =>
          (Taken(instr.op, A, Ideal!B) <=> Taken(instr.op, A, B))
    BY <1>4
  <2> QED BY <1>4, <2>1, <2>2, SameOps
<1>6. /\ Ideal!Wrap(InOrder - (InOrder % Region) + 4 * X)
           = Wrap(InOrder - (InOrder % Region) + 4 * X)
      /\ Ideal!Wrap(regs.next + 4 * X) = Wrap(regs.next + 4 * X)
  BY SameWraps
<1>7. InOrder \in Word
  BY <1>2, OperandTypes
<1>8. /\ Ideal!Goes(PcAfter) /\ View'.hi = View.hi /\ View'.lo = View.lo
      /\ CASE instr.op \in {"JAL", "BGEZAL", "BLTZAL"} -> Ideal!Writes(GPRs, InOrder)
           [] instr.op = "JALR" -> Ideal!Writes(instr.rd, InOrder)
           [] OTHER -> UNCHANGED View.gpr
  <2>1. CASE instr.op \in {"JAL", "BGEZAL", "BLTZAL"}
    <3>1. Complete([regs EXCEPT !.gpr[GPRs] = InOrder], 0, 0, PcAfter)
      BY <1>1, <2>1 DEF Linked
    <3>2. regs.load # 0 => GPRs # regs.load
      BY <1>1, <1>2, <1>3, <2>1, Operand
    <3> QED BY <1>2, <1>7, <2>1, <3>1, <3>2, RegisterSeen
  <2>2. CASE instr.op = "JALR"
    <3>1. Complete([regs EXCEPT !.gpr[instr.rd] = InOrder], 0, 0, PcAfter)
      BY <1>1, <2>2 DEF Linked
    <3>2. regs.load # 0 => instr.rd # regs.load
      BY <1>1, <1>2, <1>3, <2>2, Operand
    <3> QED BY <1>2, <1>7, <2>2, <3>1, <3>2, RegisterSeen
  <2>3. CASE instr.op \notin {"JAL", "BGEZAL", "BLTZAL", "JALR"}
    <3>1. Complete(regs, 0, 0, PcAfter)
      BY <1>1, <2>3 DEF Linked
    <3>2. View.hi = regs.hi /\ View.lo = regs.lo
      BY <1>1, Seen DEF Runs
    <3>3. View'.gpr = View.gpr /\ Ideal!Goes(PcAfter) /\ View'.hi = View.hi /\ View'.lo = View.lo
      BY <1>2, <3>1, <3>2, RestSeen
    <3> QED BY <2>3, <3>3
  <2> QED BY <2>1, <2>2, <2>3
<1>9. /\ CASE instr.op \in {"J", "JAL"} ->
                  Ideal!Goes(Wrap(InOrder - (InOrder % Region) + 4 * X))
           [] instr.op \in {"JR", "JALR"} -> Ideal!Goes(A)
           [] instr.op \in Branches ->
                Ideal!Goes(IF Taken(instr.op, A, B) THEN Wrap(regs.next + 4 * X) ELSE InOrder)
           [] OTHER -> FALSE
  BY <1>1, <1>8 DEF PcAfter, Branches
<1> DEFINE to == IF Taken(instr.op, A, B) THEN Wrap(regs.next + 4 * X) ELSE InOrder
<1>10. /\ CASE instr.op \in {"J", "JAL"} ->
              Ideal!Goes(Ideal!Wrap(Ideal!InOrder - (Ideal!InOrder % Region) + 4 * Ideal!X))
         [] instr.op \in {"JR", "JALR"} -> Ideal!Goes(Ideal!A)
         [] instr.op \in Ideal!Branches ->
              Ideal!Goes(IF Ideal!Taken(instr.op, Ideal!A, Ideal!B)
                         THEN Ideal!Wrap(View.next + 4 * Ideal!X) ELSE Ideal!InOrder)
         [] OTHER -> FALSE
  <2>1. CASE instr.op \in {"J", "JAL", "JR", "JALR"}
    <3>1. instr.op \notin Branches /\ instr.op \notin Ideal!Branches
      BY <2>1, SameOps DEF Branches
    <3>2. CASE instr.op \in {"J", "JAL"}
      <4>1. Ideal!Goes(Wrap(InOrder - (InOrder % Region) + 4 * X))
        BY <1>9, <3>1, <3>2
      <4> QED BY <1>4, <1>6, <3>1, <3>2, <4>1
    <3>3. CASE instr.op \in {"JR", "JALR"}
      <4>1. Ideal!Goes(A)
        BY <1>9, <3>1, <3>3
      <4> QED BY <1>4, <3>1, <3>3, <4>1
    <3> QED BY <2>1, <3>2, <3>3
  <2>2. CASE instr.op \in Branches
    <3>1. Ideal!Goes(to) /\ instr.op \notin {"J", "JAL", "JR", "JALR"}
      BY <1>9, <2>2 DEF Branches
    <3>2. to = IF Ideal!Taken(instr.op, Ideal!A, Ideal!B)
               THEN Ideal!Wrap(View.next + 4 * Ideal!X) ELSE Ideal!InOrder
      BY <1>4, <1>5, <1>6, <2>2
    <3>3. instr.op \in Ideal!Branches
      BY <2>2, SameOps
    <3> HIDE DEF to
    <3> QED BY <3>1, <3>2, <3>3
  <2> QED BY <1>1, <2>1, <2>2
<1> QED BY <1>1, <1>4, <1>8, <1>10 DEF Ideal!Jumps

-----------------------------------------------------------------------------
(* Addresses, as the program gives them.                                      *)
LEMMA Residues ==
  ASSUME NEW a \in Word, NEW s \in {1, 2, 4}
  PROVE  Unsigned(a) % s = a % s
<1>1. PICK h \in Nat : SignBit = s * h
  BY Multiples
<1>2. a \in Int /\ s \in Nat \ {0}
  BY WordSizes DEF Word
<1> DEFINE k == 2 * h
<1>3. k \in Int /\ WordSize = s * k
  BY <1>1, <1>2, WordSizes
<1> HIDE DEF k
<1>4. (a + s * k) % s = a % s
  BY <1>2, <1>3, TurnsVanish
<1> QED BY <1>3, <1>4, Unsigneds

LEMMA PlaceFacts ==
  ASSUME Ready, Runs, instr.op \in MemoryOps
  PROVE  /\ Ideal!Place = Unsigned(DataAddress)
         /\ Ideal!A = A
         /\ instr.op \in Stores => Ideal!B = B
<1>1. /\ instr.rs \in Reg /\ instr.rt \in Reg /\ DataAddress = Wrap(A + X)
  BY CodeFacts, OperandTypes DEF Ready, MipsTypeOK
<1>2. /\ instr.rs \in Names(instr)
      /\ instr.op \in Stores => instr.rt \in Names(instr)
  BY DEF Names, MemoryOps, RegisterOps, ImmediateOps, Stores, Loads
<1>3. Ideal!A = A /\ (instr.op \in Stores => Ideal!B = B)
  BY <1>1, <1>2, Operand DEF Ideal!A, A, Ideal!B, B
<1>4. Ideal!Place = Unsigned(DataAddress)
  BY <1>1, <1>3, SameWraps DEF Ideal!Place, Ideal!X, X
<1> QED BY <1>3, <1>4

(* What the processor needs of an address is what the program believes that   *)
(* it needs.                                                                  *)
LEMMA ReachSame ==
  ASSUME Ready, Runs, instr.op \in MemoryOps
  PROVE  Ideal!Reaches <=> Within(Aligned, Width(instr.op))
<1> DEFINE d == DataAddress
           p == Unsigned(d)
           L == PageTableSize * PageSize
<1>1. Ideal!Place = p
  BY PlaceFacts
<1>2. d \in Word /\ d \in Int
  BY OperandTypes, WordSizes DEF Ready, Word
<1>3. /\ p \in 0 .. WordSize - 1 /\ (d < 0 => p >= SignBit) /\ (d >= 0 => p = d)
  BY <1>2, WordSizes, Unsigneds DEF Word
<1>4. p \in Int /\ p % WordSize = p
  BY <1>3, WordSizes, Reduced
<1> HIDE DEF d
<1>5. ASSUME NEW s \in {1, 2, 4} PROVE Ideal!Mapped(p, s) <=> Within(d, s)
  <2>1. Unsigned(p) = p
    BY <1>4 DEF Unsigned
  <2>2. p % s = d % s
    BY <1>2, <1>5, Residues
  <2>3. Within(p, s) <=> Within(d, s)
    BY <2>1, <2>2 DEF Within
  <2> QED BY <2>3, SameWithin
<1> HIDE DEF p
<1>6. CASE instr.op \notin Halves
  <2>1. Aligned = d
    BY <1>6, AlignedFacts DEF Ready, d
  <2>2. /\ instr.op \in {"LH", "LHU", "SH"} => Width(instr.op) = 2
        /\ instr.op \in {"LW", "SW"} => Width(instr.op) = 4
        /\ instr.op \notin {"LH", "LHU", "SH", "LW", "SW"} => Width(instr.op) = 1
    BY <1>6 DEF Width, MemoryOps, Loads, Stores, Halves
  <2>3. Ideal!Reaches <=> Ideal!Mapped(p, Width(instr.op))
    BY <1>1, <2>2 DEF Ideal!Reaches
  <2> QED BY <1>5, <2>1, <2>3, WidthFacts
<1>7. CASE instr.op \in Halves
  <2> DEFINE r == d % 4
  <2>1. Aligned = d - r /\ Width(instr.op) = 4 /\ Aligned \in Word
    BY <1>7, AlignedFacts, WidthFacts DEF Ready, d
  <2>2. r \in 0 .. 3 /\ (d - r) % 4 = 0
    BY <1>2, Fourths
  <2>3. Ideal!Reaches <=> Within(d, 1)
    <3>1. Ideal!Reaches <=> Ideal!Mapped(p, 1)
      BY <1>1, <1>7 DEF Ideal!Reaches, Halves
    <3> QED BY <1>5, <3>1
  <2>4. d % 1 = 0
    BY <1>2
  <2>5. Within(d, 1) <=> p + 1 <= L
    BY <2>4 DEF Within, p
  <2> HIDE DEF r
  <2>6. PICK k \in Nat : L = 4 * k
    BY Multiples
  <2>7. L \in Nat /\ L <= SignBit
    BY MemoryEnds
  <2>8. Within(Aligned, 4) <=> Unsigned(d - r) + 4 <= L
    BY <2>1, <2>2 DEF Within
  <2> HIDE DEF L
  <2>9. CASE d < 0
    <3>1. ~(p + 1 <= L)
      BY <1>3, <2>7, <2>9, WordSizes
    <3>2. d - r < 0 /\ Unsigned(d - r) = d - r + WordSize /\ d - r >= -SignBit
      BY <1>2, <2>1, <2>2, <2>9, Unsigneds, WordSizes DEF Word
    <3>3. ~(Unsigned(d - r) + 4 <= L)
      BY <1>2, <2>2, <2>7, <3>2, WordSizes
    <3> QED BY <2>1, <2>3, <2>5, <2>8, <3>1, <3>3
  <2>10. CASE d >= 0
    <3>1. PICK q \in Int : d = 4 * q + r
      <4>1. 4 \in Nat \ {0}
        OBVIOUS
      <4> QED BY <1>2, <4>1, Divided DEF r
    <3>2. d - r >= 0 /\ Unsigned(d - r) = d - r
      <4>1. d - r >= 0
        BY <2>2, <2>10, <3>1
      <4> QED BY <2>1, <4>1, Unsigneds
    <3>3. d + 1 <= L <=> d - r + 4 <= L
      BY <2>2, <2>6, <3>1
    <3> QED BY <1>3, <2>1, <2>3, <2>5, <2>8, <2>10, <3>2, <3>3
  <2> QED BY <1>2, <2>9, <2>10
<1> QED BY <1>6, <1>7

(* The place of an access that is made, and the word around it. *)
LEMMA PlaceReached ==
  ASSUME Ready, Executes, instr.op \in MemoryOps
  PROVE  /\ Ideal!Place \in Nat
         /\ instr.op \notin Halves => Ideal!Place = Aligned
         /\ instr.op \in Halves =>
              Ideal!Place = Aligned + (3 - Shift) /\ Ideal!Place % 4 = 3 - Shift
<1> DEFINE d == DataAddress
           r == d % 4
<1>1. Runs /\ MipsTypeOK
  BY DEF Executes, Ready
<1>2. Ideal!Place = Unsigned(d) /\ Aligned \in Nat
  BY <1>1, PlaceFacts, Reached
<1>3. d \in Word /\ d \in Int /\ r \in 0 .. 3 /\ r = 3 - Shift
  <2>1. d \in Word /\ d \in Int
    BY <1>1, OperandTypes, WordSizes DEF Word
  <2>2. r \in 0 .. 3 /\ Shift = 3 - r
    BY <2>1, Fourths DEF Shift
  <2> HIDE DEF r
  <2>3. r = 3 - Shift
    BY <2>2
  <2> QED BY <2>1, <2>2, <2>3
<1>4. instr.op \notin Halves => Aligned = d
  BY <1>1, AlignedFacts
<1>5. instr.op \in Halves => Aligned = d - r
  BY <1>1, AlignedFacts
<1> HIDE DEF d, r
<1>6. d >= 0
  BY <1>2, <1>3, <1>4, <1>5
<1>7. Unsigned(d) = d
  BY <1>3, <1>6, Unsigneds
<1>8. instr.op \in Halves => d = Aligned + (3 - Shift) /\ d % 4 = 3 - Shift
  <2>1. d % 4 = 3 - Shift
    BY <1>3 DEF r
  <2>2. ASSUME instr.op \in Halves PROVE d = Aligned + r
    BY <1>2, <1>3, <1>5, <2>2
  <2> QED BY <1>3, <2>1, <2>2
<1> QED BY <1>2, <1>3, <1>4, <1>6, <1>7, <1>8

-----------------------------------------------------------------------------
(* The unaligned accesses, byte by byte.                                      *)
LEMMA DigitsForm ==
  \E p, q, r \in Int : \A c0, c1, c2, c3 :
     Digits(c0, c1, c2, c3) = c0 + c1 * p + c2 * q + c3 * r
<1>1. BytePower(1) \in Int /\ BytePower(2) \in Int /\ BytePower(3) \in Int
  BY PowerType
<1> DEFINE p == BytePower(1)
           q == BytePower(2)
           r == BytePower(3)
<1>2. p \in Int /\ q \in Int /\ r \in Int
  BY <1>1
<1>3. \A c0, c1, c2, c3 : Digits(c0, c1, c2, c3) = c0 + c1 * p + c2 * q + c3 * r
  BY DEF Digits
<1> HIDE DEF p, q, r
<1> QED BY <1>2, <1>3

(* Moved up by n bytes, a word loses its last n. *)
LEMMA DigitsUp ==
  ASSUME NEW d0 \in Byte, NEW d1 \in Byte, NEW d2 \in Byte, NEW d3 \in Byte
  PROVE  /\ Digits(d0, d1, d2, d3) * BytePower(0) = Digits(d0, d1, d2, d3)
         /\ Digits(d0, d1, d2, d3) * BytePower(1) = Digits(0, d0, d1, d2) + WordSize * d3
         /\ Digits(d0, d1, d2, d3) * BytePower(2)
              = Digits(0, 0, d0, d1) + WordSize * (d2 + ByteSize * d3)
         /\ Digits(d0, d1, d2, d3) * BytePower(3)
              = Digits(0, 0, 0, d0)
                + WordSize * (d1 + ByteSize * d2 + ByteSize * ByteSize * d3)
<1> DEFINE s == ByteSize
           N == d0 + d1 * s + d2 * (s * s) + d3 * (s * s * s)
<1>1. /\ s \in Int /\ BytePower(0) = 1 /\ BytePower(1) = s /\ BytePower(2) = s * s
      /\ BytePower(3) = s * s * s /\ WordSize = s * s * s * s
  BY WordFacts
<1>2. d0 \in Int /\ d1 \in Int /\ d2 \in Int /\ d3 \in Int
  BY <1>1 DEF Byte
<1> HIDE DEF s
<1>3. /\ Digits(d0, d1, d2, d3) = N
      /\ Digits(0, d0, d1, d2) = 0 + d0 * s + d1 * (s * s) + d2 * (s * s * s)
      /\ Digits(0, 0, d0, d1) = 0 + 0 * s + d0 * (s * s) + d1 * (s * s * s)
      /\ Digits(0, 0, 0, d0) = 0 + 0 * s + 0 * (s * s) + d0 * (s * s * s)
  BY <1>1 DEF Digits
<1>4. N * 1 = N
  BY <1>1, <1>2
<1>5. N * s = 0 + d0 * s + d1 * (s * s) + d2 * (s * s * s) + (s * s * s * s) * d3
  BY <1>1, <1>2
<1>6. N * (s * s) = 0 + 0 * s + d0 * (s * s) + d1 * (s * s * s)
                    + (s * s * s * s) * (d2 + s * d3)
  BY <1>1, <1>2
<1>7. N * (s * s * s) = 0 + 0 * s + 0 * (s * s) + d0 * (s * s * s)
                        + (s * s * s * s) * (d1 + s * d2 + s * s * d3)
  BY <1>1, <1>2
<1> HIDE DEF N
<1> QED BY <1>1, <1>3, <1>4, <1>5, <1>6, <1>7 DEF s

(* The bytes of a word. *)
LEMMA DigitsBytes ==
  ASSUME NEW x, NEW d0 \in Byte, NEW d1 \in Byte, NEW d2 \in Byte, NEW d3 \in Byte,
         Unsigned(x) = Digits(d0, d1, d2, d3)
  PROVE  ByteOf(x, 0) = d0 /\ ByteOf(x, 1) = d1 /\ ByteOf(x, 2) = d2 /\ ByteOf(x, 3) = d3
<1> DEFINE N == Digits(d0, d1, d2, d3)
<1>1. N = Digits(d0, d1, d2, d3) /\ Unsigned(x) = N
  OBVIOUS
<1>2. 0 \in Byte
  BY SizesFit DEF Byte
<1> HIDE DEF N
<1>3. /\ HighBytes(N, 0) = Digits(d0, d1, d2, d3) /\ HighBytes(N, 1) = Digits(d1, d2, d3, 0)
      /\ HighBytes(N, 2) = Digits(d2, d3, 0, 0) /\ HighBytes(N, 3) = Digits(d3, 0, 0, 0)
  BY <1>1, DigitFacts
<1>4. ASSUME NEW e0 \in Byte, NEW e1 \in Byte, NEW e2 \in Byte, NEW e3 \in Byte
      PROVE  Digits(e0, e1, e2, e3) % ByteSize = e0
  <2>1. LowBytes(Digits(e0, e1, e2, e3), 1) = Digits(e0, 0, 0, 0)
    BY DigitFacts
  <2>2. Digits(e0, 0, 0, 0) = e0
    BY ShortDigits
  <2> QED BY <2>1, <2>2, WordFacts DEF LowBytes
<1> QED BY <1>1, <1>2, <1>3, <1>4 DEF ByteOf

(* LWL and LWR: parts of a word w of memory and of the register o. *)
LEMMA Merges ==
  ASSUME NEW low \in [0 .. 3 -> Byte], NEW old \in [0 .. 3 -> Byte]
  PROVE  LET w == Digits(low[0], low[1], low[2], low[3])
             o == Digits(old[0], old[1], old[2], old[3])
         IN
         /\ Wrap(LowBytes(o, 0) + w * BytePower(0)) = Wrap(Digits(low[0], low[1], low[2], low[3]))
         /\ Wrap(LowBytes(o, 1) + w * BytePower(1)) = Wrap(Digits(old[0], low[0], low[1], low[2]))
         /\ Wrap(LowBytes(o, 2) + w * BytePower(2)) = Wrap(Digits(old[0], old[1], low[0], low[1]))
         /\ Wrap(LowBytes(o, 3) + w * BytePower(3)) = Wrap(Digits(old[0], old[1], old[2], low[0]))
         /\ o - LowBytes(o, 1) + HighBytes(w, 3) = Digits(low[3], old[1], old[2], old[3])
         /\ o - LowBytes(o, 2) + HighBytes(w, 2) = Digits(low[2], low[3], old[2], old[3])
         /\ o - LowBytes(o, 3) + HighBytes(w, 1) = Digits(low[1], low[2], low[3], old[3])
         /\ o - LowBytes(o, 4) + HighBytes(w, 0) = Digits(low[0], low[1], low[2], low[3])
<1> DEFINE w0 == low[0]
           w1 == low[1]
           w2 == low[2]
           w3 == low[3]
           o0 == old[0]
           o1 == old[1]
           o2 == old[2]
           o3 == old[3]
           w == Digits(w0, w1, w2, w3)
           o == Digits(o0, o1, o2, o3)
<1> SUFFICES /\ Wrap(LowBytes(o, 0) + w * BytePower(0)) = Wrap(Digits(w0, w1, w2, w3))
             /\ Wrap(LowBytes(o, 1) + w * BytePower(1)) = Wrap(Digits(o0, w0, w1, w2))
             /\ Wrap(LowBytes(o, 2) + w * BytePower(2)) = Wrap(Digits(o0, o1, w0, w1))
             /\ Wrap(LowBytes(o, 3) + w * BytePower(3)) = Wrap(Digits(o0, o1, o2, w0))
             /\ o - LowBytes(o, 1) + HighBytes(w, 3) = Digits(w3, o1, o2, o3)
             /\ o - LowBytes(o, 2) + HighBytes(w, 2) = Digits(w2, w3, o2, o3)
             /\ o - LowBytes(o, 3) + HighBytes(w, 1) = Digits(w1, w2, w3, o3)
             /\ o - LowBytes(o, 4) + HighBytes(w, 0) = Digits(w0, w1, w2, w3)
  OBVIOUS
<1>1. w0 \in Byte /\ w1 \in Byte /\ w2 \in Byte /\ w3 \in Byte
  OBVIOUS
<1>2. o0 \in Byte /\ o1 \in Byte /\ o2 \in Byte /\ o3 \in Byte
  OBVIOUS
<1>3. w = Digits(w0, w1, w2, w3) /\ o = Digits(o0, o1, o2, o3)
  OBVIOUS
<1> HIDE DEF w, o, w0, w1, w2, w3, o0, o1, o2, o3
<1>4. /\ w0 \in Int /\ w1 \in Int /\ w2 \in Int /\ w3 \in Int
      /\ o0 \in Int /\ o1 \in Int /\ o2 \in Int /\ o3 \in Int
      /\ ByteSize \in Int /\ WordSize \in Int
  BY <1>1, <1>2, SizesFit, WordSizes DEF Byte
<1> PICK p \in Int, q \in Int, r \in Int :
       \A c0, c1, c2, c3 : Digits(c0, c1, c2, c3) = c0 + c1 * p + c2 * q + c3 * r
  BY DigitsForm
<1>5. 0 * p = 0 /\ 0 * q = 0 /\ 0 * r = 0
  OBVIOUS
<1>6. /\ o1 * p \in Int /\ w0 * p \in Int /\ w1 * p \in Int /\ w2 * p \in Int
       /\ w3 * p \in Int /\ o2 * q \in Int /\ w0 * q \in Int /\ w1 * q \in Int
       /\ w2 * q \in Int /\ w3 * q \in Int /\ o3 * r \in Int /\ w0 * r \in Int
       /\ w1 * r \in Int /\ w2 * r \in Int /\ w3 * r \in Int
  BY <1>4
<1>7. o \in Int /\ w \in Int
  BY <1>4, <1>6, <1>3
<1>8. /\ LowBytes(o, 0) = 0 /\ LowBytes(o, 1) = Digits(o0, 0, 0, 0)
      /\ LowBytes(o, 2) = Digits(o0, o1, 0, 0) /\ LowBytes(o, 3) = Digits(o0, o1, o2, 0)
      /\ LowBytes(o, 4) = o
  BY <1>3, <1>2, DigitFacts
<1>9. /\ HighBytes(w, 0) = w /\ HighBytes(w, 1) = Digits(w1, w2, w3, 0)
      /\ HighBytes(w, 2) = Digits(w2, w3, 0, 0) /\ HighBytes(w, 3) = Digits(w3, 0, 0, 0)
  BY <1>3, <1>1, DigitFacts
<1> DEFINE k1 == w3
           k2 == w2 + ByteSize * w3
           k3 == w1 + ByteSize * w2 + ByteSize * ByteSize * w3
<1>10. k1 \in Int /\ k2 \in Int /\ k3 \in Int
  BY <1>4
<1>11. /\ w * BytePower(0) = w
      /\ w * BytePower(1) = Digits(0, w0, w1, w2) + WordSize * k1
      /\ w * BytePower(2) = Digits(0, 0, w0, w1) + WordSize * k2
      /\ w * BytePower(3) = Digits(0, 0, 0, w0) + WordSize * k3
  BY <1>3, <1>1, DigitsUp
<1> HIDE DEF k1, k2, k3
<1>12. /\ Digits(o0, 0, 0, 0) + Digits(0, w0, w1, w2) = Digits(o0, w0, w1, w2)
      /\ Digits(o0, o1, 0, 0) + Digits(0, 0, w0, w1) = Digits(o0, o1, w0, w1)
      /\ Digits(o0, o1, o2, 0) + Digits(0, 0, 0, w0) = Digits(o0, o1, o2, w0)
  BY <1>4, <1>5, <1>6
<1>13. /\ Digits(o0, 0, 0, 0) \in Int /\ Digits(0, w0, w1, w2) \in Int
      /\ Digits(o0, o1, 0, 0) \in Int /\ Digits(0, 0, w0, w1) \in Int
      /\ Digits(o0, o1, o2, 0) \in Int /\ Digits(0, 0, 0, w0) \in Int
      /\ WordSize * k1 \in Int /\ WordSize * k2 \in Int /\ WordSize * k3 \in Int
  BY <1>4, <1>10, <1>5, <1>6
<1>14. /\ LowBytes(o, 1) + w * BytePower(1) = Digits(o0, w0, w1, w2) + WordSize * k1
      /\ LowBytes(o, 2) + w * BytePower(2) = Digits(o0, o1, w0, w1) + WordSize * k2
      /\ LowBytes(o, 3) + w * BytePower(3) = Digits(o0, o1, o2, w0) + WordSize * k3
  BY <1>8, <1>11, <1>12, <1>13
<1>15. LowBytes(o, 0) + w * BytePower(0) = w
  BY <1>3, <1>7, <1>8, <1>11
<1>16. /\ Digits(o0, o1, o2, o3) - Digits(o0, 0, 0, 0) = Digits(0, o1, o2, o3)
       /\ Digits(o0, o1, o2, o3) - Digits(o0, o1, 0, 0) = Digits(0, 0, o2, o3)
       /\ Digits(o0, o1, o2, o3) - Digits(o0, o1, o2, 0) = Digits(0, 0, 0, o3)
  BY <1>4, <1>5, <1>6
<1>17. /\ Digits(0, o1, o2, o3) + Digits(w3, 0, 0, 0) = Digits(w3, o1, o2, o3)
       /\ Digits(0, 0, o2, o3) + Digits(w2, w3, 0, 0) = Digits(w2, w3, o2, o3)
       /\ Digits(0, 0, 0, o3) + Digits(w1, w2, w3, 0) = Digits(w1, w2, w3, o3)
  BY <1>4, <1>5, <1>6
<1>18. o - LowBytes(o, 4) + HighBytes(w, 0) = w
  BY <1>3, <1>7, <1>8, <1>9
<1>19. /\ o - LowBytes(o, 1) + HighBytes(w, 3) = Digits(w3, o1, o2, o3)
       /\ o - LowBytes(o, 2) + HighBytes(w, 2) = Digits(w2, w3, o2, o3)
       /\ o - LowBytes(o, 3) + HighBytes(w, 1) = Digits(w1, w2, w3, o3)
  BY <1>3, <1>8, <1>9, <1>16, <1>17
<1>20. /\ Digits(o0, w0, w1, w2) \in Int /\ Digits(o0, o1, w0, w1) \in Int
       /\ Digits(o0, o1, o2, w0) \in Int
  BY <1>4, <1>6
<1>21. /\ Wrap(LowBytes(o, 1) + w * BytePower(1)) = Wrap(Digits(o0, w0, w1, w2))
       /\ Wrap(LowBytes(o, 2) + w * BytePower(2)) = Wrap(Digits(o0, o1, w0, w1))
       /\ Wrap(LowBytes(o, 3) + w * BytePower(3)) = Wrap(Digits(o0, o1, o2, w0))
  BY <1>10, <1>14, <1>20, WrapTurns
<1> QED BY <1>3, <1>15, <1>18, <1>19, <1>21

LEMMA WordBytes ==
  ASSUME NEW x \in Int
  PROVE  \E d0, d1, d2, d3 \in Byte :
           /\ Unsigned(x) = Digits(d0, d1, d2, d3)
           /\ ByteOf(x, 0) = d0 /\ ByteOf(x, 1) = d1 /\ ByteOf(x, 2) = d2 /\ ByteOf(x, 3) = d3
<1>1. Unsigned(x) \in Cell
  BY UnsignedType DEF Cell
<1>2. PICK d0 \in Byte, d1 \in Byte, d2 \in Byte, d3 \in Byte :
        Unsigned(x) = Digits(d0, d1, d2, d3)
  BY <1>1, DigitsExist
<1> QED BY <1>2, DigitsBytes

LEMMA JoinedDigits ==
  ASSUME NEW byte
  PROVE  Ideal!Joined(byte) = Digits(byte[0], byte[1], byte[2], byte[3])
BY SameBytes DEF Ideal!Joined, Digits

LEMMA MergedIdeal ==
  ASSUME Ready, Executes, instr.op \in {"LWL", "LWR"}, instr.rt # 0
  PROVE  Ideal!Value = LoadedWord(BytesAt(bytes, Aligned, Width(instr.op)))
<1> DEFINE a == Aligned
           s == Shift
           w == BytesAt(bytes, Aligned, Width(instr.op))
           o == Unsigned(Old)
<1>1. /\ MipsTypeOK /\ Runs /\ instr.op \in Halves /\ instr.op \in MemoryOps
      /\ Width(instr.op) = 4
  BY WidthFacts DEF Ready, Executes, Halves, MemoryOps, Loads
<1>2. /\ Old \in Word /\ s \in 0 .. 3 /\ a \in Nat /\ Ideal!Place = a + (3 - s)
      /\ Ideal!Place % 4 = 3 - s
  BY <1>1, OldType, Reached, PlaceReached
<1>3. Ideal!B = Old
  <2>1. View.gpr = Settled(regs) /\ instr.rt \in Reg /\ regs.load \in Reg
    BY <1>1, Seen, CodeFacts, OperandTypes DEF Runs, MipsTypeOK
  <2> QED BY <2>1 DEF Ideal!B, Settled, Old, B
<1>4. PICK o0 \in Byte, o1 \in Byte, o2 \in Byte, o3 \in Byte :
        /\ o = Digits(o0, o1, o2, o3)
        /\ ByteOf(Old, 0) = o0 /\ ByteOf(Old, 1) = o1
        /\ ByteOf(Old, 2) = o2 /\ ByteOf(Old, 3) = o3
  <2>1. Old \in Int
    BY <1>2, WordSizes DEF Word
  <2> QED BY <2>1, WordBytes
<1> DEFINE w0 == bytes[a]
           w1 == bytes[a + 1]
           w2 == bytes[a + 2]
           w3 == bytes[a + 3]
<1>5. /\ w = Digits(w0, w1, w2, w3)
      /\ w0 \in Byte /\ w1 \in Byte /\ w2 \in Byte /\ w3 \in Byte
  BY <1>1, WordAtType
<1> DEFINE low == [n \in 0 .. 3 |-> bytes[a + n]]
           old == [n \in 0 .. 3 |-> ByteOf(Old, n)]
<1>11. /\ low[0] = w0 /\ low[1] = w1 /\ low[2] = w2 /\ low[3] = w3
       /\ old[0] = o0 /\ old[1] = o1 /\ old[2] = o2 /\ old[3] = o3
  <2>1. a + 0 = a
    BY <1>2
  <2> HIDE DEF a
  <2> QED BY <1>4, <2>1
<1>12. low \in [0 .. 3 -> Byte] /\ old \in [0 .. 3 -> Byte]
  <2>1. \A n \in 0 .. 3 : n = 0 \/ n = 1 \/ n = 2 \/ n = 3
    OBVIOUS
  <2>2. \A n \in 0 .. 3 : low[n] \in Byte /\ old[n] \in Byte
    <3> HIDE DEF low, old, w0, w1, w2, w3
    <3> QED BY <1>4, <1>5, <1>11, <2>1
  <2> QED BY <2>2
<1> HIDE DEF low, old
<1> DEFINE byte == [n \in 0 .. 3 |->
                      CASE instr.op = "LWL" /\ n >= 3 - (Ideal!Place % 4) ->
                             bytes[Ideal!Place - 3 + n]
                        [] instr.op = "LWR" /\ n <= 3 - (Ideal!Place % 4) ->
                             bytes[Ideal!Place + n]
                        [] OTHER -> Ideal!ByteOf(Ideal!B, n)]
<1>6. Ideal!Merged = Digits(byte[0], byte[1], byte[2], byte[3])
  BY JoinedDigits DEF Ideal!Merged
<1>7. Ideal!Value = Wrap(Ideal!Merged)
  BY SameWraps DEF Ideal!Value
<1>8. \A n \in 0 .. 3 :
        /\ instr.op = "LWL" => byte[n] = IF n >= s THEN bytes[a + n - s] ELSE ByteOf(Old, n)
        /\ instr.op = "LWR" => byte[n] = IF n <= s THEN bytes[a + n + (3 - s)]
                                         ELSE ByteOf(Old, n)
  <2> TAKE n \in 0 .. 3
  <2>1. Ideal!ByteOf(Ideal!B, n) = ByteOf(Old, n)
    BY <1>3, SameBytes
  <2> HIDE DEF a, s
  <2>2. /\ 3 - (Ideal!Place % 4) = s /\ Ideal!Place - 3 + n = a + n - s
        /\ Ideal!Place + n = a + n + (3 - s)
    BY <1>2
  <2>3. CASE instr.op = "LWL"
    BY <2>1, <2>2, <2>3
  <2>4. CASE instr.op = "LWR"
    BY <2>1, <2>2, <2>4
  <2> QED BY <2>3, <2>4
<1> HIDE DEF byte
<1>9. CASE instr.op = "LWL"
  <2>1. LoadedWord(w) = Wrap(LowBytes(o, s) + w * BytePower(s))
    BY <1>9 DEF LoadedWord
  <2>2. /\ Wrap(LowBytes(o, 0) + w * BytePower(0)) = Wrap(Digits(w0, w1, w2, w3))
        /\ Wrap(LowBytes(o, 1) + w * BytePower(1)) = Wrap(Digits(o0, w0, w1, w2))
        /\ Wrap(LowBytes(o, 2) + w * BytePower(2)) = Wrap(Digits(o0, o1, w0, w1))
        /\ Wrap(LowBytes(o, 3) + w * BytePower(3)) = Wrap(Digits(o0, o1, o2, w0))
    <3> HIDE DEF w, o, w0, w1, w2, w3
    <3> QED BY <1>4, <1>5, <1>11, <1>12, Merges
  <2>3. \A n \in 0 .. 3 : byte[n] = IF n >= s THEN bytes[a + n - s] ELSE ByteOf(Old, n)
    BY <1>8, <1>9
  <2> HIDE DEF w, o, s
  <2>4. CASE s = 0
    <3>1. byte[0] = w0 /\ byte[1] = w1 /\ byte[2] = w2 /\ byte[3] = w3
      <4> HIDE DEF a
      <4> QED BY <1>2, <2>3, <2>4
    <3> QED BY <1>6, <1>7, <2>1, <2>2, <2>4, <3>1 DEF w
  <2>5. CASE s = 1
    <3>1. byte[0] = o0 /\ byte[1] = w0 /\ byte[2] = w1 /\ byte[3] = w2
      <4> HIDE DEF a
      <4> QED BY <1>2, <1>4, <2>3, <2>5
    <3> QED BY <1>6, <1>7, <2>1, <2>2, <2>5, <3>1 DEF w
  <2>6. CASE s = 2
    <3>1. byte[0] = o0 /\ byte[1] = o1 /\ byte[2] = w0 /\ byte[3] = w1
      <4> HIDE DEF a
      <4> QED BY <1>2, <1>4, <2>3, <2>6
    <3> QED BY <1>6, <1>7, <2>1, <2>2, <2>6, <3>1 DEF w
  <2>7. CASE s = 3
    <3>1. byte[0] = o0 /\ byte[1] = o1 /\ byte[2] = o2 /\ byte[3] = w0
      <4>1. a + 3 - s = a
        BY <1>2, <2>7
      <4> HIDE DEF a
      <4>2. ~(0 >= s) /\ ~(1 >= s) /\ ~(2 >= s) /\ 3 >= s
        BY <2>7
      <4> QED BY <1>4, <2>3, <4>1, <4>2
    <3> QED BY <1>6, <1>7, <2>1, <2>2, <2>7, <3>1 DEF w
  <2> QED BY <1>2, <2>4, <2>5, <2>6, <2>7
<1>10. CASE instr.op = "LWR"
  <2>1. LoadedWord(w) = Wrap(o - LowBytes(o, s + 1) + HighBytes(w, 3 - s))
    BY <1>10 DEF LoadedWord
  <2>2. /\ o - LowBytes(o, 1) + HighBytes(w, 3) = Digits(w3, o1, o2, o3)
        /\ o - LowBytes(o, 2) + HighBytes(w, 2) = Digits(w2, w3, o2, o3)
        /\ o - LowBytes(o, 3) + HighBytes(w, 1) = Digits(w1, w2, w3, o3)
        /\ o - LowBytes(o, 4) + HighBytes(w, 0) = Digits(w0, w1, w2, w3)
    <3> HIDE DEF w, o, w0, w1, w2, w3
    <3> QED BY <1>4, <1>5, <1>11, <1>12, Merges
  <2>3. \A n \in 0 .. 3 :
          byte[n] = IF n <= s THEN bytes[a + n + (3 - s)] ELSE ByteOf(Old, n)
    BY <1>8, <1>10
  <2> HIDE DEF w, o, s
  <2>4. CASE s = 0
    <3>1. byte[0] = w3 /\ byte[1] = o1 /\ byte[2] = o2 /\ byte[3] = o3
      <4> HIDE DEF a
      <4> QED BY <1>2, <1>4, <2>3, <2>4
    <3>2. s + 1 = 1 /\ 3 - s = 3
      BY <2>4
    <3> QED BY <1>6, <1>7, <2>1, <2>2, <3>1, <3>2 DEF w
  <2>5. CASE s = 1
    <3>1. byte[0] = w2 /\ byte[1] = w3 /\ byte[2] = o2 /\ byte[3] = o3
      <4> HIDE DEF a
      <4> QED BY <1>2, <1>4, <2>3, <2>5
    <3>2. s + 1 = 2 /\ 3 - s = 2
      BY <2>5
    <3> QED BY <1>6, <1>7, <2>1, <2>2, <3>1, <3>2 DEF w
  <2>6. CASE s = 2
    <3>1. byte[0] = w1 /\ byte[1] = w2 /\ byte[2] = w3 /\ byte[3] = o3
      <4> HIDE DEF a
      <4> QED BY <1>2, <1>4, <2>3, <2>6
    <3>2. s + 1 = 3 /\ 3 - s = 1
      BY <2>6
    <3> QED BY <1>6, <1>7, <2>1, <2>2, <3>1, <3>2 DEF w
  <2>7. CASE s = 3
    <3>1. byte[0] = w0 /\ byte[1] = w1 /\ byte[2] = w2 /\ byte[3] = w3
      <4> HIDE DEF a
      <4> QED BY <1>2, <1>4, <2>3, <2>7
    <3>2. s + 1 = 4 /\ 3 - s = 0
      BY <2>7
    <3> QED BY <1>6, <1>7, <2>1, <2>2, <3>1, <3>2 DEF w
  <2> QED BY <1>2, <2>4, <2>5, <2>6, <2>7
<1> QED BY <1>9, <1>10

LEMMA LoadIdeal ==
  ASSUME Ready, Load
  PROVE  Ideal!Loads
<1> DEFINE w == BytesAt(bytes, Aligned, Width(instr.op))
           v == LoadedWord(w)
<1>1. /\ instr.op \in Loads /\ instr.op \in MemoryOps /\ Executes /\ Runs /\ UNCHANGED bytes
      /\ Complete(regs, instr.rt, v, InOrder) /\ MipsTypeOK /\ instr.rt \in Reg
  BY CodeFacts DEF Load, MemoryOps, Executes, Ready, MipsTypeOK
<1>2. /\ Ideal!Writes(instr.rt, v) /\ Ideal!Goes(InOrder)
      /\ View'.hi = View.hi /\ View'.lo = View.lo
  <2> HIDE DEF v
  <2> QED BY <1>1, LoadSeen
<1>3. Ideal!Reaches /\ Ideal!InOrder = InOrder
  BY <1>1, ReachSame, Reached, InOrderSeen
<1>4. ASSUME instr.rt # 0 PROVE Ideal!Value = v
  <2>1. CASE instr.op \in {"LWL", "LWR"}
    BY <1>1, <1>4, <2>1, MergedIdeal
  <2>2. CASE instr.op \in {"LB", "LBU"}
    <3>1. Width(instr.op) = 1 /\ Ideal!Place = Aligned
      BY <1>1, <2>2, PlaceReached DEF Width, Halves
    <3> QED BY <2>2, <3>1, SameBytes, SameSigned, SameSizes DEF Ideal!Value, LoadedWord
  <2>3. CASE instr.op \in {"LH", "LHU"}
    <3>1. Width(instr.op) = 2 /\ Ideal!Place = Aligned
      BY <1>1, <2>3, PlaceReached DEF Width, Halves
    <3> QED BY <2>3, <3>1, SameBytes, SameSigned, SameSizes DEF Ideal!Value, LoadedWord
  <2>4. CASE instr.op = "LW"
    <3>1. Width(instr.op) = 4 /\ Ideal!Place = Aligned
      BY <1>1, <2>4, PlaceReached DEF Width, Halves
    <3> QED BY <2>4, <3>1, SameBytes, SameWraps DEF Ideal!Value, LoadedWord
  <2> QED BY <1>1, <2>1, <2>2, <2>3, <2>4 DEF Loads
<1>5. Ideal!Writes(instr.rt, Ideal!Value)
  <2> HIDE DEF v
  <2> QED BY <1>2, <1>4 DEF Ideal!Writes
<1> QED BY <1>1, <1>2, <1>3, <1>5 DEF Ideal!Loads, Loads

-----------------------------------------------------------------------------
(* The stores. *)
LEMMA WrappedBytes ==
  ASSUME NEW x \in Int,
         NEW d0 \in Byte, NEW d1 \in Byte, NEW d2 \in Byte, NEW d3 \in Byte,
         Wrap(x) = Wrap(Digits(d0, d1, d2, d3))
  PROVE  ByteOf(x, 0) = d0 /\ ByteOf(x, 1) = d1 /\ ByteOf(x, 2) = d2 /\ ByteOf(x, 3) = d3
<1> DEFINE N == Digits(d0, d1, d2, d3)
<1>1. N \in Cell /\ WordSize \in Nat \ {0}
  BY DigitBounds, WordSizes
<1>2. Wrap(x) = Wrap(N)
  OBVIOUS
<1> HIDE DEF N
<1>3. N \in Int /\ N % WordSize = N
  BY <1>1, Reduced DEF Cell
<1>4. Unsigned(x) = N
  BY <1>2, <1>3, WrapFacts DEF Unsigned
<1> QED BY <1>4, DigitsBytes DEF N

LEMMA StoredBytes ==
  ASSUME Ready, Executes, instr.op \in {"SWL", "SWR"}
  PROVE  LET word == StoredWord(BytesAt(bytes, Aligned, Width(instr.op))) IN
         \A n \in 0 .. 3 :
           /\ instr.op = "SWL" => ByteOf(word, n) = IF n <= 3 - Shift THEN ByteOf(B, n + Shift)
                                                    ELSE bytes[Aligned + n]
           /\ instr.op = "SWR" => ByteOf(word, n) = IF n >= 3 - Shift
                                                    THEN ByteOf(B, n - (3 - Shift))
                                                    ELSE bytes[Aligned + n]
<1> DEFINE a == Aligned
           s == Shift
           o == BytesAt(bytes, Aligned, Width(instr.op))
           b == Unsigned(B)
           word == StoredWord(o)
<1>1. /\ MipsTypeOK /\ Runs /\ instr.op \in Halves /\ instr.op \in MemoryOps
      /\ instr.op \in Stores /\ Width(instr.op) = 4
  BY WidthFacts DEF Ready, Executes, Halves, MemoryOps, Stores
<1>2. B \in Word /\ s \in 0 .. 3 /\ a \in Nat /\ word \in Int
  BY <1>1, OldType, OperandTypes, Reached, StoredType
<1>3. PICK b0 \in Byte, b1 \in Byte, b2 \in Byte, b3 \in Byte :
        /\ b = Digits(b0, b1, b2, b3)
        /\ ByteOf(B, 0) = b0 /\ ByteOf(B, 1) = b1 /\ ByteOf(B, 2) = b2 /\ ByteOf(B, 3) = b3
  <2>1. B \in Int
    BY <1>2, WordSizes DEF Word
  <2> QED BY <2>1, WordBytes
<1> DEFINE o0 == bytes[a]
           o1 == bytes[a + 1]
           o2 == bytes[a + 2]
           o3 == bytes[a + 3]
<1>4. /\ o = Digits(o0, o1, o2, o3)
      /\ o0 \in Byte /\ o1 \in Byte /\ o2 \in Byte /\ o3 \in Byte
  BY <1>1, WordAtType
<1> DEFINE low == [n \in 0 .. 3 |-> ByteOf(B, n)]
           old == [n \in 0 .. 3 |-> bytes[a + n]]
<1>5. /\ low[0] = b0 /\ low[1] = b1 /\ low[2] = b2 /\ low[3] = b3
      /\ old[0] = o0 /\ old[1] = o1 /\ old[2] = o2 /\ old[3] = o3
  <2>1. a + 0 = a
    BY <1>2
  <2> HIDE DEF a
  <2> QED BY <1>3, <2>1
<1>6. low \in [0 .. 3 -> Byte] /\ old \in [0 .. 3 -> Byte]
  <2>1. \A n \in 0 .. 3 : n = 0 \/ n = 1 \/ n = 2 \/ n = 3
    OBVIOUS
  <2>2. \A n \in 0 .. 3 : low[n] \in Byte /\ old[n] \in Byte
    <3> HIDE DEF low, old, o0, o1, o2, o3
    <3> QED BY <1>3, <1>4, <1>5, <2>1
  <2> QED BY <2>2
<1> HIDE DEF low, old
<1>7. /\ Wrap(LowBytes(o, 0) + b * BytePower(0)) = Wrap(Digits(b0, b1, b2, b3))
      /\ Wrap(LowBytes(o, 1) + b * BytePower(1)) = Wrap(Digits(o0, b0, b1, b2))
      /\ Wrap(LowBytes(o, 2) + b * BytePower(2)) = Wrap(Digits(o0, o1, b0, b1))
      /\ Wrap(LowBytes(o, 3) + b * BytePower(3)) = Wrap(Digits(o0, o1, o2, b0))
      /\ o - LowBytes(o, 1) + HighBytes(b, 3) = Digits(b3, o1, o2, o3)
      /\ o - LowBytes(o, 2) + HighBytes(b, 2) = Digits(b2, b3, o2, o3)
      /\ o - LowBytes(o, 3) + HighBytes(b, 1) = Digits(b1, b2, b3, o3)
      /\ o - LowBytes(o, 4) + HighBytes(b, 0) = Digits(b0, b1, b2, b3)
  <2> HIDE DEF o, b, o0, o1, o2, o3
  <2> QED BY <1>3, <1>4, <1>5, <1>6, Merges
<1>8. /\ instr.op = "SWL" => word = o - LowBytes(o, 4 - s) + HighBytes(b, s)
      /\ instr.op = "SWR" => word = LowBytes(o, 3 - s) + b * BytePower(3 - s)
  BY DEF StoredWord
<1> HIDE DEF word, o, b, s
<1>9. s = 0 \/ s = 1 \/ s = 2 \/ s = 3
  BY <1>2
<1>10. \A n \in 0 .. 3 : n = 0 \/ n = 1 \/ n = 2 \/ n = 3
  OBVIOUS
<1>11. a + 0 = a
  BY <1>2
<1>12. CASE instr.op = "SWL"
  <2>1. ASSUME s = 0 PROVE ByteOf(word, 0) = b0 /\ ByteOf(word, 1) = b1
                        /\ ByteOf(word, 2) = b2 /\ ByteOf(word, 3) = b3
    <3>1. word = Digits(b0, b1, b2, b3)
      BY <1>7, <1>8, <1>12, <2>1
    <3> QED BY <1>2, <1>3, <3>1, WrappedBytes
  <2>2. ASSUME s = 1 PROVE ByteOf(word, 0) = b1 /\ ByteOf(word, 1) = b2
                        /\ ByteOf(word, 2) = b3 /\ ByteOf(word, 3) = o3
    <3>1. word = Digits(b1, b2, b3, o3)
      BY <1>7, <1>8, <1>12, <2>2
    <3> QED BY <1>2, <1>3, <1>4, <3>1, WrappedBytes
  <2>3. ASSUME s = 2 PROVE ByteOf(word, 0) = b2 /\ ByteOf(word, 1) = b3
                        /\ ByteOf(word, 2) = o2 /\ ByteOf(word, 3) = o3
    <3>1. word = Digits(b2, b3, o2, o3)
      BY <1>7, <1>8, <1>12, <2>3
    <3> QED BY <1>2, <1>3, <1>4, <3>1, WrappedBytes
  <2>4. ASSUME s = 3 PROVE ByteOf(word, 0) = b3 /\ ByteOf(word, 1) = o1
                        /\ ByteOf(word, 2) = o2 /\ ByteOf(word, 3) = o3
    <3>1. word = Digits(b3, o1, o2, o3)
      BY <1>7, <1>8, <1>12, <2>4
    <3> QED BY <1>2, <1>3, <1>4, <3>1, WrappedBytes
  <2> HIDE DEF a
  <2>5. \A n \in 0 .. 3 : ByteOf(word, n) = IF n <= 3 - s THEN ByteOf(B, n + s)
                                            ELSE bytes[a + n]
    BY <1>3, <1>9, <1>10, <1>11, <2>1, <2>2, <2>3, <2>4
  <2> QED BY <1>12, <2>5 DEF a, s, word, o
<1>13. CASE instr.op = "SWR"
  <2>1. ASSUME s = 3 PROVE ByteOf(word, 0) = b0 /\ ByteOf(word, 1) = b1
                        /\ ByteOf(word, 2) = b2 /\ ByteOf(word, 3) = b3
    <3>1. Wrap(word) = Wrap(Digits(b0, b1, b2, b3))
      BY <1>7, <1>8, <1>13, <2>1
    <3> QED BY <1>2, <1>3, <3>1, WrappedBytes
  <2>2. ASSUME s = 2 PROVE ByteOf(word, 0) = o0 /\ ByteOf(word, 1) = b0
                        /\ ByteOf(word, 2) = b1 /\ ByteOf(word, 3) = b2
    <3>1. Wrap(word) = Wrap(Digits(o0, b0, b1, b2))
      BY <1>7, <1>8, <1>13, <2>2
    <3> QED BY <1>2, <1>3, <1>4, <3>1, WrappedBytes
  <2>3. ASSUME s = 1 PROVE ByteOf(word, 0) = o0 /\ ByteOf(word, 1) = o1
                        /\ ByteOf(word, 2) = b0 /\ ByteOf(word, 3) = b1
    <3>1. Wrap(word) = Wrap(Digits(o0, o1, b0, b1))
      BY <1>7, <1>8, <1>13, <2>3
    <3> QED BY <1>2, <1>3, <1>4, <3>1, WrappedBytes
  <2>4. ASSUME s = 0 PROVE ByteOf(word, 0) = o0 /\ ByteOf(word, 1) = o1
                        /\ ByteOf(word, 2) = o2 /\ ByteOf(word, 3) = b0
    <3>1. Wrap(word) = Wrap(Digits(o0, o1, o2, b0))
      BY <1>7, <1>8, <1>13, <2>4
    <3> QED BY <1>2, <1>3, <1>4, <3>1, WrappedBytes
  <2> HIDE DEF a
  <2>5. \A n \in 0 .. 3 : ByteOf(word, n) = IF n >= 3 - s THEN ByteOf(B, n - (3 - s))
                                            ELSE bytes[a + n]
    BY <1>3, <1>9, <1>10, <1>11, <2>1, <2>2, <2>3, <2>4
  <2> QED BY <1>13, <2>5 DEF a, s, word, o
<1> QED BY <1>12, <1>13

(* A store changes the bytes that the program expects, and no other. *)
LEMMA StoreBytes ==
  ASSUME Ready, Store, NEW x \in Address
  PROVE  bytes'[x] =
           CASE instr.op = "SB"  /\ x = Ideal!Place -> ByteOf(B, 0)
             [] instr.op = "SH"  /\ x \in Ideal!Place .. Ideal!Place + 1
                  -> ByteOf(B, x - Ideal!Place)
             [] instr.op = "SW"  /\ x \in Ideal!Place .. Ideal!Place + 3
                  -> ByteOf(B, x - Ideal!Place)
             [] instr.op = "SWL" /\ x \in Ideal!Place - (Ideal!Place % 4) .. Ideal!Place
                  -> ByteOf(B, 3 + x - Ideal!Place)
             [] instr.op = "SWR" /\ x \in Ideal!Place .. Ideal!Place + 3 - (Ideal!Place % 4)
                  -> ByteOf(B, x - Ideal!Place)
             [] OTHER -> bytes[x]
<1> DEFINE a == Aligned
           s == Shift
           word == StoredWord(BytesAt(bytes, Aligned, Width(instr.op)))
<1>1. /\ instr.op \in Stores /\ instr.op \in MemoryOps /\ Executes /\ Runs /\ MipsTypeOK
      /\ bytes' = [y \in Address |->
                     IF y \in a .. a + Width(instr.op) - 1
                     THEN ByteOf(word, y - a) ELSE bytes[y]]
  BY DEF Store, Complete, MemoryOps, Executes, Ready
<1>2. bytes'[x] = IF x \in a .. a + Width(instr.op) - 1 THEN ByteOf(word, x - a) ELSE bytes[x]
  BY <1>1
<1>3. /\ a \in Nat /\ s \in 0 .. 3 /\ x \in Int
      /\ instr.op \notin Halves => Ideal!Place = a
      /\ instr.op \in Halves => Ideal!Place = a + (3 - s) /\ Ideal!Place % 4 = 3 - s
  BY <1>1, Reached, OldType, PlaceReached, MemoryEnds DEF Address
<1>4. instr.op \in {"SB", "SH", "SW"} => word = B
  BY DEF StoredWord
<1>5. instr.op \in {"SWL", "SWR"} =>
        \A n \in 0 .. 3 :
           /\ instr.op = "SWL" => ByteOf(word, n) = IF n <= 3 - s THEN ByteOf(B, n + s)
                                                    ELSE bytes[a + n]
           /\ instr.op = "SWR" => ByteOf(word, n) = IF n >= 3 - s THEN ByteOf(B, n - (3 - s))
                                                    ELSE bytes[a + n]
  BY <1>1, StoredBytes
<1> HIDE DEF word, a, s
<1>6. CASE instr.op = "SB"
  <2>1. Width(instr.op) = 1 /\ Ideal!Place = a
    BY <1>3, <1>6 DEF Width, Halves
  <2>2. x \in a .. a + 1 - 1 <=> x = a
    BY <1>3
  <2>3. a - a = 0
    BY <1>3
  <2> QED BY <1>2, <1>4, <1>6, <2>1, <2>2, <2>3
<1>7. CASE instr.op = "SH"
  <2>1. Width(instr.op) = 2 /\ Ideal!Place = a
    BY <1>3, <1>7 DEF Width, Halves
  <2>2. x \in a .. a + 2 - 1 <=> x \in a .. a + 1
    BY <1>3
  <2> QED BY <1>2, <1>4, <1>7, <2>1, <2>2
<1>8. CASE instr.op = "SW"
  <2>1. Width(instr.op) = 4 /\ Ideal!Place = a
    BY <1>3, <1>8 DEF Width, Halves
  <2>2. x \in a .. a + 4 - 1 <=> x \in a .. a + 3
    BY <1>3
  <2> QED BY <1>2, <1>4, <1>8, <2>1, <2>2
<1>9. CASE instr.op \in {"SWL", "SWR"}
  <2> DEFINE n == x - a
  <2>1. Width(instr.op) = 4 /\ Ideal!Place = a + (3 - s) /\ Ideal!Place % 4 = 3 - s
    BY <1>3, <1>9, WidthFacts DEF Halves
  <2>2. n \in Int /\ (x \in a .. a + 4 - 1 <=> n \in 0 .. 3) /\ a + n = x
    BY <1>3
  <2>3. /\ x \in Ideal!Place - (Ideal!Place % 4) .. Ideal!Place <=> n \in 0 .. 3 /\ n <= 3 - s
        /\ 3 + x - Ideal!Place = n + s
        /\ x \in Ideal!Place .. Ideal!Place + 3 - (Ideal!Place % 4)
             <=> n \in 0 .. 3 /\ n >= 3 - s
        /\ x - Ideal!Place = n - (3 - s)
    BY <1>3, <2>1
  <2> HIDE DEF n
  <2>4. bytes'[x] = IF n \in 0 .. 3 THEN ByteOf(word, n) ELSE bytes[x]
    BY <1>2, <2>1, <2>2 DEF n
  <2>5. CASE instr.op = "SWL"
    <3>1. bytes'[x] = IF n \in 0 .. 3 /\ n <= 3 - s THEN ByteOf(B, n + s) ELSE bytes[x]
      BY <1>5, <2>2, <2>4, <2>5
    <3> QED BY <2>3, <2>5, <3>1
  <2>6. CASE instr.op = "SWR"
    <3>1. bytes'[x] = IF n \in 0 .. 3 /\ n >= 3 - s THEN ByteOf(B, n - (3 - s)) ELSE bytes[x]
      BY <1>5, <2>2, <2>4, <2>6
    <3> QED BY <2>3, <2>6, <3>1
  <2> QED BY <1>9, <2>5, <2>6
<1> QED BY <1>1, <1>6, <1>7, <1>8, <1>9 DEF Stores

LEMMA StoreIdeal ==
  ASSUME Ready, Store
  PROVE  Ideal!Stores
<1>1. /\ instr.op \in Stores /\ instr.op \in MemoryOps /\ Executes /\ Runs
      /\ Complete(regs, 0, 0, InOrder) /\ MipsTypeOK /\ regs \in Registers
      /\ DOMAIN bytes = Address
  BY DEF Store, Complete, MemoryOps, Executes, Ready, MipsTypeOK
<1>5. bytes' = [x \in Address |-> bytes'[x]]
  BY DEF Store
<1>2. Ideal!Reaches /\ Ideal!InOrder = InOrder /\ Ideal!B = B
  BY <1>1, ReachSame, Reached, InOrderSeen, PlaceFacts
<1>3. /\ View'.gpr = View.gpr /\ Ideal!Goes(InOrder)
      /\ View'.hi = View.hi /\ View'.lo = View.lo
  BY <1>1, RestSeen, Seen DEF Runs
<1>4. bytes' = [x \in Address |->
       CASE instr.op = "SB"  /\ x = Ideal!Place -> Ideal!ByteOf(Ideal!B, 0)
         [] instr.op = "SH"  /\ x \in Ideal!Place .. Ideal!Place + 1
              -> Ideal!ByteOf(Ideal!B, x - Ideal!Place)
         [] instr.op = "SW"  /\ x \in Ideal!Place .. Ideal!Place + 3
              -> Ideal!ByteOf(Ideal!B, x - Ideal!Place)
         [] instr.op = "SWL" /\ x \in Ideal!Place - (Ideal!Place % 4) .. Ideal!Place
              -> Ideal!ByteOf(Ideal!B, 3 + x - Ideal!Place)
         [] instr.op = "SWR" /\ x \in Ideal!Place .. Ideal!Place + 3 - (Ideal!Place % 4)
              -> Ideal!ByteOf(Ideal!B, x - Ideal!Place)
         [] OTHER -> bytes[x]]
  BY <1>1, <1>2, <1>5, StoreBytes, SameBytes
<1> QED BY <1>1, <1>2, <1>3, <1>4 DEF Ideal!Stores, Stores

-----------------------------------------------------------------------------
(* The calls, what stops the program, and what it does not notice.            *)
LEMMA DrainedSeen ==
  ASSUME MipsTypeOK
  PROVE  /\ Settled(Drained) = Settled(regs) /\ Drained.gpr = Settled(regs)
         /\ Drained.hi = regs.hi /\ Drained.lo = regs.lo
         /\ Drained.pc = regs.pc /\ Drained.next = regs.next
         /\ Drained.load = 0
<1>1. regs \in Registers
  BY DEF MipsTypeOK
<1>2. Drained.gpr = DelayedLoad(regs.gpr) /\ Drained.load = 0
  BY <1>1 DEF Drained, Registers
<1>3. DelayedLoad(regs.gpr) = Settled(regs)
  BY DEF DelayedLoad, Settled
<1> QED BY <1>2, <1>3, DrainedSettled

LEMMA SyscallIdeal ==
  ASSUME Ready, Syscall
  PROVE  Ideal!Calls
<1>1. /\ MipsTypeOK /\ Executes /\ Runs /\ mode = "user" /\ mode' = "user"
      /\ instr.op = "SYSCALL" /\ Drained.gpr[2] \in Handled /\ UNCHANGED bytes
      /\ instr' \in Code
  BY DEF Ready, Syscall, Executes, Runs, Fetches, MipsTypeOK
<1>2. PICK result \in Results \cup {Drained.gpr[2]} :
        regs' = [Drained EXCEPT !.gpr[2] = result, !.pc = WrapOnce(@ + 4),
                                !.next = WrapOnce(regs.pc + 8)]
  BY DEF Syscall
<1>3. Own = regs /\ Own' = regs' /\ Live /\ Live'
  BY <1>1 DEF Own, Live
<1>4. /\ View.gpr = Drained.gpr /\ View.hi = Drained.hi /\ View.lo = Drained.lo
      /\ View.pc = regs.pc
  BY <1>1, DrainedSeen, Seen
<1>5. Drained \in Registers /\ Drained.gpr[0] = 0 /\ Drained.pc = regs.pc /\ Drained.load = 0
  BY <1>1, DrainedType, DrainedSeen
<1>6. /\ regs'.gpr = [Drained.gpr EXCEPT ![2] = result] /\ regs'.load = 0
      /\ regs'.hi = Drained.hi /\ regs'.lo = Drained.lo
      /\ regs'.pc = WrapOnce(Drained.pc + 4) /\ regs'.next = WrapOnce(regs.pc + 8)
  BY <1>2, <1>5 DEF Registers
<1>7. View' = [gpr |-> Settled(regs'), hi |-> regs'.hi, lo |-> regs'.lo, pc |-> regs'.pc,
               next |-> regs'.next, mem |-> bytes']
  BY <1>3 DEF View, Settled
<1>8. Settled(regs') = [View.gpr EXCEPT ![2] = result]
  <2>1. Drained.gpr \in [Reg -> Word] /\ 2 \in Reg
    BY <1>1, <1>5, CodeFacts DEF Registers, MipsTypeOK
  <2> QED BY <1>4, <1>5, <1>6, <2>1 DEF Settled
<1>9. WrapOnce(regs.pc + 4) = Wrap(regs.pc + 4) /\ WrapOnce(regs.pc + 8) = Wrap(regs.pc + 8)
  <2>1. regs.pc \in Word /\ SignBit \in Nat /\ SignBit >= 8 /\ WordSize = 2 * SignBit
    BY <1>1, OperandTypes, WordSizes
  <2>2. regs.pc + 4 \in -WordSize .. WordSize /\ regs.pc + 8 \in -WordSize .. WordSize
    BY <2>1 DEF Word
  <2> QED BY <2>2, WrapOnceFacts
<1>10. Ideal!Mapped(View.pc, 4)
  BY <1>1, <1>4, Reached, SameWithin
<1>11. /\ View'.pc = Ideal!Wrap(View.pc + 4) /\ View'.next = Ideal!Wrap(View.pc + 8)
       /\ View'.hi = View.hi /\ View'.lo = View.lo
       /\ View'.gpr = [View.gpr EXCEPT ![2] = result]
  BY <1>4, <1>5, <1>6, <1>7, <1>8, <1>9, SameWraps
<1> QED BY <1>1, <1>2, <1>3, <1>4, <1>10, <1>11 DEF Ideal!Calls

LEMMA DrainedView ==
  ASSUME MipsTypeOK, Own = regs, Own' = Drained, UNCHANGED bytes
  PROVE  View' = View
<1>1. View' = [gpr |-> Settled(Drained), hi |-> Drained.hi, lo |-> Drained.lo,
               pc |-> Drained.pc, next |-> Drained.next, mem |-> bytes]
  BY DEF View, Settled
<1> QED BY <1>1, DrainedSeen DEF View

(* What a trap stops has no result for the integers. *)
LEMMA TrapImpossible ==
  ASSUME Ready, Trap
  PROVE  Ideal!Impossible
<1>1. Runs /\ mode = "user" /\ MipsTypeOK /\ View.pc = regs.pc /\ instr \in Code
  BY Seen DEF Trap, Runs, Ready, MipsTypeOK
<1>2. /\ regs.pc \in Word /\ Aligned \in Word /\ A \in Word /\ B \in Word /\ X \in Word
      /\ instr.rs \in Reg /\ instr.rt \in Reg
  BY <1>1, OperandTypes, AlignedFacts, CodeFacts
<1>3. CASE Access.exception = "AddressError"
  <2>1. CASE Translate(regs.pc, 4) # "NoException"
    <3>1. Translate(regs.pc, 4) = "AddressError"
      BY <1>3, <2>1 DEF Access
    <3>2. ~Within(regs.pc, 4)
      BY <1>2, <3>1, TranslateFacts
    <3> QED BY <1>1, <3>2, SameWithin DEF Ideal!Impossible
  <2>2. CASE Translate(regs.pc, 4) = "NoException"
    <3>1. instr.op \in MemoryOps
      BY <1>3, <2>2 DEF Access, MemoryOps
    <3>2. Translate(Aligned, Width(instr.op)) = "AddressError"
      BY <1>3, <2>2, <3>1 DEF Access, MemoryOps
    <3>3. ~Within(Aligned, Width(instr.op))
      BY <1>2, <3>2, TranslateFacts, WidthFacts
    <3>4. ~Ideal!Reaches
      BY <1>1, <3>1, <3>3, ReachSame
    <3> QED BY <3>1, <3>4 DEF Ideal!Impossible, MemoryOps, Loads, Stores
  <2> QED BY <2>1, <2>2
<1>4. CASE Executes /\ Trapped
  <2>1. instr.op \in {"ADD", "ADDI", "SUB", "DIV", "RES"}
    BY <1>4 DEF Trapped
  <2>2. instr.rs \in Names(instr) /\ instr.rt \in Names(instr)
    BY <2>1 DEF Names, RegisterOps, ImmediateOps, Stores, Loads
  <2>3. Ideal!A = A /\ Ideal!B = B /\ Ideal!X = X
    BY <1>1, <1>2, <2>2, Operand DEF Ideal!A, A, Ideal!B, B, Ideal!X, X
  <2>4. CASE instr.op = "ADD"
    BY <1>2, <1>4, <2>3, <2>4, AddTestExact, SameSizes DEF Trapped, Ideal!Impossible
  <2>5. CASE instr.op = "ADDI"
    BY <1>2, <1>4, <2>3, <2>5, AddTestExact, SameSizes DEF Trapped, Ideal!Impossible
  <2>6. CASE instr.op = "SUB"
    BY <1>2, <1>4, <2>3, <2>6, SubTestExact, SameSizes DEF Trapped, Ideal!Impossible
  <2>7. CASE instr.op = "DIV"
    <3>1. DivisionFails(A, B)
      BY <1>4, <2>7 DEF Trapped
    <3>2. B # 0
      BY <3>1 DEF DivisionFails
    <3>3. ~\E q, r \in Word : Shares(A, B, q, r)
      BY <1>2, <3>1, <3>2, SignedDivision
    <3>4. \A q, r : Ideal!Divides(A, B, q, r) <=> Shares(A, B, q, r)
      BY <3>2, SameWraps DEF Ideal!Divides, Shares
    <3>5. ~\E q, r \in Ideal!Word : Ideal!Divides(Ideal!A, Ideal!B, q, r)
      BY <2>3, <3>3, <3>4, SameSizes
    <3> QED BY <2>7, <3>5 DEF Ideal!Impossible
  <2>8. CASE instr.op = "RES"
    BY <2>8 DEF Ideal!Impossible
  <2> QED BY <2>1, <2>4, <2>5, <2>6, <2>7, <2>8
<1> QED BY <1>3, <1>4 DEF Trap

LEMMA StopIdeal ==
  ASSUME Ready, Trap \/ UnexpectedSyscall
  PROVE  Ideal!Stops
<1>1. /\ MipsTypeOK /\ mode = "user" /\ mode' \in {"stopped", "stuck"} /\ regs' = Drained
      /\ UNCHANGED <<bytes, instr>>
  BY DEF Trap, UnexpectedSyscall, Executes, Runs, Ready
<1>2. Own = regs /\ Own' = Drained /\ Live /\ ~Live'
  BY <1>1 DEF Own, Live
<1>3. View' = View
  BY <1>1, <1>2, DrainedView
<1>4. Ideal!Impossible
  <2>1. CASE Trap
    BY <2>1, TrapImpossible
  <2>2. CASE UnexpectedSyscall
    <3>1. Drained.gpr = View.gpr
      BY <1>1, DrainedSeen, Seen
    <3> QED BY <2>2, <3>1 DEF UnexpectedSyscall, Ideal!Impossible
  <2> QED BY <2>1, <2>2
<1> QED BY <1>1, <1>2, <1>3, <1>4 DEF Ideal!Stops

LEMMA Unnoticed ==
  ASSUME Ready, PageFault \/ Interrupted \/ SwitchAway \/ SwitchBack
  PROVE  UNCHANGED <<View, instr, Live>>
<1>1. MipsTypeOK
  BY DEF Ready
<1>2. CASE PageFault \/ Interrupted \/ SwitchAway
  <2>1. Own = regs /\ Own' = Drained /\ UNCHANGED <<bytes, instr>> /\ Live /\ Live'
    BY <1>2 DEF PageFault, Interrupted, SwitchAway, Runs, Own, Live
  <2> QED BY <1>1, <2>1, DrainedView
<1>3. CASE SwitchBack
  <2>1. Own = saved /\ Own' = saved /\ UNCHANGED <<bytes, instr>> /\ Live /\ Live'
    BY <1>3 DEF SwitchBack, Own, Live
  <2> QED BY <2>1 DEF View, Settled
<1> QED BY <1>2, <1>3

LEMMA StartsIdeal == ProcessorInit => Ideal!Init
<1> SUFFICES ASSUME ProcessorInit PROVE Ideal!Init
  OBVIOUS
<1>1. PICK s \in Starts : regs = Entry(s.gpr) /\ bytes = s.bytes
  BY DEF ProcessorInit
<1>2. mode = "user" /\ instr \in Code
  BY DEF ProcessorInit
<1>3. s.gpr \in [Reg -> Word] /\ s.gpr[0] = 0
  BY MipsAssumption
<1>4. /\ View.gpr = Settled(regs) /\ View.hi = regs.hi /\ View.lo = regs.lo
      /\ View.pc = regs.pc /\ View.next = regs.next /\ Live
  BY <1>2, Seen
<1>5. /\ regs.gpr = s.gpr /\ regs.hi = 0 /\ regs.lo = 0 /\ regs.pc = 0 /\ regs.next = 4
      /\ regs.load = 0
  BY <1>1 DEF Entry
<1>6. Settled(regs) = s.gpr
  BY <1>3, <1>5 DEF Settled
<1> QED BY <1>1, <1>2, <1>4, <1>5, <1>6 DEF Ideal!Init, Live

(* Pages that come and go, interrupts, other threads, loads that come one     *)
(* instruction late, accesses to parts of a word, multiplication by shifts    *)
(* and tests of signs: to the program it is the processor of MipsSpec, whose  *)
(* instructions happen at once and whose results are those of the integers    *)
(* (OneInstruction, Mult, DelayedLoad, RaiseException, Translate).            *)
THEOREM ProcessorImplementsIdeal == ProcessorSpec => ImplementsIdeal
<1>1. ProcessorSpec => []Ready
  BY ProcessorTypes, OperandsUnnamed, PTL DEF Ready
<1>2. Ready /\ [ProcessorNext]_processorVars
        => [UNCHANGED <<View, instr, Live>> \/ Ideal!Next]_processorVars
  <2> SUFFICES ASSUME Ready, ProcessorNext
               PROVE  UNCHANGED <<View, instr, Live>> \/ Ideal!Next
    OBVIOUS
  <2>1. CASE RegisterOp \/ ImmediateOp \/ MoveFrom
    BY <2>1, RegisterOpIdeal, ImmediateOpIdeal, MoveFromIdeal DEF Ideal!Next
  <2>2. CASE HiLoOp
    BY <2>2, HiLoIdeal DEF Ideal!Next
  <2>3. CASE Jump
    BY <2>3, JumpIdeal DEF Ideal!Next
  <2>4. CASE Load
    BY <2>4, LoadIdeal DEF Ideal!Next
  <2>5. CASE Store
    BY <2>5, StoreIdeal DEF Ideal!Next
  <2>6. CASE Syscall
    BY <2>6, SyscallIdeal DEF Ideal!Next
  <2>7. CASE Trap \/ UnexpectedSyscall
    BY <2>7, StopIdeal DEF Ideal!Next
  <2>8. CASE PageFault \/ Interrupted \/ SwitchAway \/ SwitchBack
    BY <2>8, Unnoticed
  <2> QED BY <2>1, <2>2, <2>3, <2>4, <2>5, <2>6, <2>7, <2>8 DEF ProcessorNext
<1> QED BY <1>1, <1>2, StartsIdeal, PTL DEF ProcessorSpec, ImplementsIdeal

-----------------------------------------------------------------------------
(* The console.  ConsoleInv is inductive: who holds a lock and who is served, *)
(* one character on its way through each device, and where what was typed is. *)
States == {"idle", "get", "got", "put", "busy"}
ReaderStates == {"get", "got"}
WriterStates == {"put", "busy"}

(* At most one thread holds a lock, in one of the states L of st; the one that *)
(* is served does.                                                            *)
Held(holders, st, L, served) ==
  /\ holders \in SUBSET Thread /\ st \in [Thread -> States]
  /\ \A t \in holders : st[t] \in L /\ holders = {t}
  /\ \A t \in Thread : st[t] = served => t \in holders

(* One thread is served at a time.                                            *)
LEMMA ServedAlone ==
  ASSUME NEW holders, NEW st, NEW L, NEW served, Held(holders, st, L, served),
         NEW t \in Thread, st[t] = served, NEW u \in Thread, u # t
  PROVE  st[u] # served
BY DEF Held

(* A thread gets the lock. *)
LEMMA Gets ==
  ASSUME NEW st, NEW L, NEW served, Held({}, st, L, served), NEW t \in Thread, st[t] \in L
  PROVE  Held({t}, st, L, served)
BY DEF Held

(* The one that holds it is served. *)
LEMMA Serve ==
  ASSUME NEW holders, NEW st, NEW L, NEW served \in L \cap States, Held(holders, st, L, served),
         NEW t \in holders
  PROVE  Held(holders, [st EXCEPT ![t] = served], L, served)
BY DEF Held

(* The one that was served releases it. *)
LEMMA Releases ==
  ASSUME NEW holders, NEW st, NEW L, NEW served, Held(holders, st, L, served),
         NEW t \in Thread, st[t] = served, NEW l \in States \ {served}
  PROVE  Held(holders \ {t}, [st EXCEPT ![t] = l], L, served)
<1>1. holders = {t} /\ holders \ {t} = {}
  BY DEF Held
<1> QED BY <1>1 DEF Held

(* A thread without the lock changes its state. *)
LEMMA Elsewhere ==
  ASSUME NEW holders, NEW st, NEW L, NEW served, Held(holders, st, L, served),
         NEW t \in Thread, st[t] \notin L, NEW l \in States \ {served}
  PROVE  Held(holders, [st EXCEPT ![t] = l], L, served)
BY DEF Held

NobodyGot  == \A t \in Thread : state[t] # "got"
NobodyBusy == \A t \in Thread : state[t] # "busy"

(* The next poll is scheduled, or a character is on its way to a reader, or   *)
(* the input ended: incoming is then never filled again.                      *)
OneIn ==
  /\ polling => incoming = EndOfFile /\ available = 0 /\ NobodyGot
  /\ available > 0 => available = 1 /\ NobodyGot
  /\ incoming # EndOfFile => available > 0 \/ ~NobodyGot
  /\ \/ polling \/ available > 0 \/ ~NobodyGot
     \/ \E i \in DOMAIN returned : returned[i] = EndOfFile

(* A thread is being served by the output device if and only if the character *)
(* is on its way or its interrupt was.                                        *)
OneOut ==
  /\ putBusy => written = 0
  /\ written \in {0, 1}
  /\ ~NobodyBusy <=> putBusy \/ written = 1

LocksKept ==
  /\ Held(reading, state, ReaderStates, "got")
  /\ Held(writing, state, WriterStates, "busy")

ConsoleInv == ConsolesTypeOK /\ LocksKept /\ OneIn /\ OneOut

(* GetChar releases the lock and goes on with the next character, an echo or  *)
(* nothing.                                                                   *)
LEMMA GoKeepsLocks ==
  ASSUME ConsoleInv, NEW t \in Thread, state[t] = "got", NEW ch, Go(t, ch),
         reading' = reading \ {t}, writing' = writing
  PROVE  /\ LocksKept'
         /\ \A u \in Thread : state'[u] # "got"
         /\ NobodyBusy' <=> NobodyBusy
         /\ rest' \in [Thread -> 0 .. MaxLen] /\ echoing' \in SUBSET Thread
<1>1. /\ Held(reading, state, ReaderStates, "got")
      /\ Held(writing, state, WriterStates, "busy")
      /\ state \in [Thread -> States] /\ MaxLen \in Nat
      /\ rest \in [Thread -> 0 .. MaxLen] /\ echoing \in SUBSET Thread
  BY ConsoleAssumption DEF ConsoleInv, LocksKept, ConsolesTypeOK, States
<1>2. PICK l \in {"put", "get", "idle"} : state' = [state EXCEPT ![t] = l]
  BY DEF Go
<1>3. LocksKept'
  <2>1. l \in States \ {"got", "busy"} /\ state[t] \notin WriterStates
    BY DEF States, WriterStates
  <2>2. Held(reading \ {t}, [state EXCEPT ![t] = l], ReaderStates, "got")
    BY <1>1, <2>1, Releases
  <2>3. Held(writing, [state EXCEPT ![t] = l], WriterStates, "busy")
    BY <1>1, <2>1, Elsewhere
  <2> QED BY <1>2, <2>2, <2>3 DEF LocksKept
<1>4. \A u \in Thread : (state'[u] = "busy" <=> state[u] = "busy") /\ state'[u] # "got"
  BY <1>1, <1>2, ServedAlone
<1>5. rest' \in [Thread -> 0 .. MaxLen] /\ echoing' \in SUBSET Thread
  <2>1. \/ rest' = rest \/ rest' = [rest EXCEPT ![t] = 0]
        \/ rest[t] > 1 /\ rest' = [rest EXCEPT ![t] = @ - 1]
    BY DEF Go
  <2>2. echoing' = echoing \/ echoing' = echoing \ {t}
    BY DEF Go
  <2> QED BY <1>1, <2>1, <2>2
<1> QED BY <1>3, <1>4, <1>5 DEF NobodyBusy

(* FinishPut releases the lock and goes on with the next character, or nothing. *)
LEMMA FinishPutKeepsLocks ==
  ASSUME ConsoleInv, NEW t \in Thread, FinishPut(t)
  PROVE  /\ LocksKept' /\ NobodyBusy'
         /\ NobodyGot' <=> NobodyGot
         /\ rest' \in [Thread -> 0 .. MaxLen]
<1>1. /\ Held(reading, state, ReaderStates, "got")
      /\ Held(writing, state, WriterStates, "busy")
      /\ state \in [Thread -> States] /\ MaxLen \in Nat /\ state[t] = "busy"
      /\ rest \in [Thread -> 0 .. MaxLen]
      /\ writing' = writing \ {t} /\ reading' = reading
  BY ConsoleAssumption DEF ConsoleInv, LocksKept, ConsolesTypeOK, States, FinishPut
<1>2. PICK l \in {"put", "get", "idle"} : state' = [state EXCEPT ![t] = l]
  BY DEF FinishPut
<1>3. LocksKept'
  <2>1. l \in States \ {"got", "busy"} /\ state[t] \notin ReaderStates
    BY <1>1 DEF States, ReaderStates
  <2>2. Held(writing \ {t}, [state EXCEPT ![t] = l], WriterStates, "busy")
    BY <1>1, <2>1, Releases
  <2>3. Held(reading, [state EXCEPT ![t] = l], ReaderStates, "got")
    BY <1>1, <2>1, Elsewhere
  <2> QED BY <1>1, <1>2, <2>2, <2>3 DEF LocksKept
<1>4. \A u \in Thread : (state'[u] = "got" <=> state[u] = "got") /\ state'[u] # "busy"
  BY <1>1, <1>2, ServedAlone
<1>5. rest' \in [Thread -> 0 .. MaxLen]
  <2>1. \/ rest' = rest \/ rest' = [rest EXCEPT ![t] = 0]
        \/ rest[t] > 1 /\ rest' = [rest EXCEPT ![t] = @ - 1]
    BY DEF FinishPut
  <2> QED BY <1>1, <2>1
<1> QED BY <1>3, <1>4, <1>5 DEF NobodyBusy, NobodyGot

LEMMA InitConsoleInv == ConsolesInit => ConsoleInv
<1> SUFFICES ASSUME ConsolesInit PROVE ConsoleInv
  OBVIOUS
<1>1. ConsolesTypeOK
  <2>1. <<>> \in Seq(Char) /\ <<>> \in Seq(Char \cup {EndOfFile})
    OBVIOUS
  <2>2. /\ state \in [Thread -> {"idle", "get", "got", "put", "busy"}]
        /\ rest \in [Thread -> 0 .. MaxLen]
    BY ConsoleAssumption DEF ConsolesInit
  <2> QED BY <2>1, <2>2 DEF ConsolesInit, ConsolesTypeOK
<1>2. LocksKept
  BY DEF ConsolesInit, LocksKept, Held, States
<1>3. OneIn /\ OneOut
  BY DEF ConsolesInit, OneIn, OneOut, NobodyGot, NobodyBusy
<1> QED BY <1>1, <1>2, <1>3 DEF ConsoleInv

(* A step that moves no thread, or one thread between two places.             *)
LEMMA NextConsoleInv == ConsoleInv /\ [ConsolesNext]_consoleVars => ConsoleInv'
<1> SUFFICES ASSUME ConsoleInv, [ConsolesNext]_consoleVars PROVE ConsoleInv'
  OBVIOUS
<1>0. /\ ConsolesTypeOK /\ LocksKept /\ OneIn /\ OneOut /\ MaxLen \in Nat
      /\ Held(reading, state, ReaderStates, "got")
      /\ Held(writing, state, WriterStates, "busy")
      /\ state \in [Thread -> States]
  BY ConsoleAssumption DEF ConsoleInv, LocksKept, Held
<1>1. ASSUME NEW c \in Char, Type(c) PROVE ConsoleInv'
  <2>1. ConsolesTypeOK'
    BY <1>0, <1>1 DEF ConsolesTypeOK, Type, output
  <2>2. LocksKept' /\ OneIn' /\ OneOut'
    BY <1>0, <1>1 DEF LocksKept, OneIn, OneOut, NobodyGot, NobodyBusy, Type, output
  <2> QED BY <2>1, <2>2 DEF ConsoleInv
<1>2. CASE CloseKeyboard
  <2>1. ConsolesTypeOK'
    BY <1>0, <1>2 DEF ConsolesTypeOK, CloseKeyboard, output
  <2>2. LocksKept' /\ OneIn' /\ OneOut'
    BY <1>0, <1>2 DEF LocksKept, OneIn, OneOut, NobodyGot, NobodyBusy, CloseKeyboard, output
  <2> QED BY <2>1, <2>2 DEF ConsoleInv
<1>3. CASE Arrive
  <2>1. ConsolesTypeOK'
    <3>1. /\ available \in Nat /\ incoming \in Char \cup {EndOfFile}
          /\ keyboard \in Seq(Char)
      BY <1>0 DEF ConsolesTypeOK
    <3>2. available' = available + 1 /\ polling' = FALSE
      BY <1>3 DEF Arrive
    <3>3. \/ keyboard # <<>> /\ incoming' = Head(keyboard) /\ keyboard' = Tail(keyboard)
          \/ incoming' = incoming /\ keyboard' = keyboard
      BY <1>3 DEF Arrive
    <3>4. polling' \in BOOLEAN
      BY <3>2
    <3>5. /\ available' \in Nat
          /\ incoming' \in Char \cup {EndOfFile} /\ keyboard' \in Seq(Char)
      BY <3>1, <3>2, <3>3
    <3> QED BY <1>0, <1>3, <3>4, <3>5 DEF ConsolesTypeOK, Arrive, output
  <2>2. LocksKept' /\ OneIn' /\ OneOut'
    BY <1>0, <1>3 DEF LocksKept, OneIn, OneOut, NobodyGot, NobodyBusy, Arrive, output,
                      ConsolesTypeOK
  <2> QED BY <2>1, <2>2 DEF ConsoleInv
<1>4. CASE Written
  <2>1. ConsolesTypeOK'
    <3>1. written \in Nat
      BY <1>0 DEF ConsolesTypeOK
    <3>2. written' = written + 1 /\ putBusy' = FALSE
      BY <1>4 DEF Written
    <3>3. written' \in Nat
      BY <3>1, <3>2
    <3>4. putBusy' \in BOOLEAN
      BY <3>2
    <3> QED BY <1>0, <1>4, <3>3, <3>4 DEF ConsolesTypeOK, Written, input
  <2>2. LocksKept' /\ OneIn' /\ OneOut'
    BY <1>0, <1>4 DEF LocksKept, OneIn, OneOut, NobodyGot, NobodyBusy, Written, input
  <2> QED BY <2>1, <2>2 DEF ConsoleInv
<1>5. ASSUME NEW t \in Thread, NEW n \in 0 .. MaxLen,
             StartWrite(t, n) \/ \E e \in BOOLEAN : StartRead(t, n, e)
      PROVE  ConsoleInv'
  <2>1. PICK l \in {"get", "put"} : state[t] = "idle" /\ state' = [state EXCEPT ![t] = l]
    BY <1>5 DEF StartRead, StartWrite
  <2>2. /\ reading' = reading /\ writing' = writing /\ rest' = [rest EXCEPT ![t] = n]
        /\ echoing' \in {echoing, echoing \cup {t}}
        /\ UNCHANGED <<input, output, typed, returned>>
    BY <1>5 DEF StartRead, StartWrite
  <2>3. LocksKept'
    <3>1. /\ l \in States \ {"got", "busy"} /\ state[t] \notin ReaderStates
          /\ state[t] \notin WriterStates
      BY <2>1 DEF States, ReaderStates, WriterStates
    <3>2. Held(reading, [state EXCEPT ![t] = l], ReaderStates, "got")
      BY <1>0, <3>1, Elsewhere
    <3>3. Held(writing, [state EXCEPT ![t] = l], WriterStates, "busy")
      BY <1>0, <3>1, Elsewhere
    <3> QED BY <2>1, <2>2, <3>2, <3>3 DEF LocksKept
  <2>4. ConsolesTypeOK'
    BY <1>0, <2>1, <2>2 DEF ConsolesTypeOK, input, output
  <2>5. \A u \in Thread : (state'[u] = "got" <=> state[u] = "got") /\ (state'[u] = "busy" <=> state[u] = "busy")
    BY <1>0, <2>1
  <2>6. OneIn' /\ OneOut'
    BY <1>0, <2>2, <2>5 DEF OneIn, OneOut, NobodyGot, NobodyBusy, input, output
  <2> QED BY <2>3, <2>4, <2>6 DEF ConsoleInv
<1>6. ASSUME NEW t \in Thread, AcquireInput(t) \/ AcquireOutput(t) PROVE ConsoleInv'
  <2>1. UNCHANGED <<input, output, state, rest, echoing, typed, returned>>
    BY <1>6 DEF AcquireInput, AcquireOutput
  <2>2. \/ reading = {} /\ state[t] \in ReaderStates /\ reading' = {t} /\ writing' = writing
        \/ writing = {} /\ state[t] \in WriterStates /\ writing' = {t} /\ reading' = reading
    BY <1>6 DEF AcquireInput, AcquireOutput, ReaderStates, WriterStates
  <2>3. LocksKept'
    BY <1>0, <2>1, <2>2, Gets DEF LocksKept
  <2>4. ConsolesTypeOK'
    BY <1>0, <2>1, <2>2 DEF ConsolesTypeOK, input, output
  <2>5. OneIn' /\ OneOut'
    BY <1>0, <2>1 DEF OneIn, OneOut, NobodyGot, NobodyBusy, input, output
  <2> QED BY <2>3, <2>4, <2>5 DEF ConsoleInv
<1>7. ASSUME NEW t \in Thread, AwaitChar(t) PROVE ConsoleInv'
  <2>1. /\ state[t] = "get" /\ t \in reading /\ available > 0 /\ available' = available - 1
        /\ state' = [state EXCEPT ![t] = "got"] /\ reading' = reading /\ writing' = writing
    BY <1>7 DEF AwaitChar
  <2>2. LocksKept'
    <3>1. Held(reading, [state EXCEPT ![t] = "got"], ReaderStates, "got")
      BY <1>0, <2>1, Serve DEF States, ReaderStates
    <3>2. Held(writing, [state EXCEPT ![t] = "got"], WriterStates, "busy")
      BY <1>0, <2>1, Elsewhere DEF States, WriterStates
    <3> QED BY <2>1, <3>1, <3>2 DEF LocksKept
  <2>3. ConsolesTypeOK'
    BY <1>0, <1>7, <2>1 DEF ConsolesTypeOK, AwaitChar, output
  <2>4. state'[t] = "got" /\ \A u \in Thread : state'[u] = "busy" <=> state[u] = "busy"
    BY <1>0, <2>1
  <2>5. OneIn' /\ OneOut'
    BY <1>0, <1>7, <2>1, <2>4 DEF OneIn, OneOut, NobodyGot, NobodyBusy, AwaitChar, output
  <2> QED BY <2>2, <2>3, <2>5 DEF ConsoleInv
<1>8. ASSUME NEW t \in Thread, GetChar(t) PROVE ConsoleInv'
  <2>1. state[t] = "got" /\ Go(t, incoming) /\ available = 0 /\ ~polling
    BY <1>0, <1>8 DEF GetChar, OneIn, NobodyGot, ConsolesTypeOK
  <2>2. /\ LocksKept' /\ (\A u \in Thread : state'[u] # "got") /\ (NobodyBusy' <=> NobodyBusy)
        /\ rest' \in [Thread -> 0 .. MaxLen] /\ echoing' \in SUBSET Thread
    BY <1>8, <2>1, GoKeepsLocks DEF GetChar
  <2>3. /\ incoming' = EndOfFile /\ (polling' <=> incoming # EndOfFile) /\ available' = 0
        /\ polling' \in BOOLEAN
        /\ returned' = Append(returned, incoming) /\ returned' \in Seq(Char \cup {EndOfFile})
        /\ keyboard' = keyboard /\ closed' = closed /\ typed' = typed
        /\ putBusy' = putBusy /\ written' = written
    <3>1. /\ incoming' = EndOfFile /\ (polling' <=> incoming # EndOfFile) /\ available' = 0
          /\ polling' \in BOOLEAN
      BY <1>0, <1>8, <2>1 DEF GetChar, TakeIncoming
    <3>2. returned' = Append(returned, incoming) /\ returned' \in Seq(Char \cup {EndOfFile})
      BY <1>0, <1>8 DEF GetChar, ConsolesTypeOK
    <3> QED BY <1>8, <3>1, <3>2 DEF GetChar, output
  <2>4. ConsolesTypeOK'
    BY <1>0, <2>2, <2>3 DEF ConsolesTypeOK, LocksKept, Held, States
  <2>5. \/ incoming # EndOfFile
        \/ \E i \in DOMAIN returned' : returned'[i] = EndOfFile
    <3>1. returned'[Len(returned) + 1] = incoming /\ Len(returned) + 1 \in DOMAIN returned'
      BY <1>0, <2>3 DEF ConsolesTypeOK
    <3> QED BY <3>1
  <2>6. OneIn' /\ OneOut'
    BY <1>0, <2>2, <2>3, <2>5 DEF OneIn, OneOut, NobodyGot
  <2> QED BY <2>2, <2>4, <2>6 DEF ConsoleInv
<1>9. ASSUME NEW t \in Thread, PutChar(t) PROVE ConsoleInv'
  <2>1. /\ state[t] = "put" /\ t \in writing
        /\ state' = [state EXCEPT ![t] = "busy"] /\ reading' = reading /\ writing' = writing
    BY <1>9 DEF PutChar
  <2>2. LocksKept'
    <3>1. Held(writing, [state EXCEPT ![t] = "busy"], WriterStates, "busy")
      BY <1>0, <2>1, Serve DEF States, WriterStates
    <3>2. Held(reading, [state EXCEPT ![t] = "busy"], ReaderStates, "got")
      BY <1>0, <2>1, Elsewhere DEF States, ReaderStates
    <3> QED BY <2>1, <3>1, <3>2 DEF LocksKept
  <2>3. ConsolesTypeOK'
    BY <1>0, <1>9, <2>1 DEF ConsolesTypeOK, PutChar, input
  <2>4. state'[t] = "busy" /\ \A u \in Thread : state'[u] = "got" <=> state[u] = "got"
    BY <1>0, <2>1
  <2>5. NobodyBusy
    BY <1>0, <2>1 DEF NobodyBusy, Held
  <2>6. OneIn' /\ OneOut'
    BY <1>0, <1>9, <2>1, <2>4, <2>5 DEF OneIn, OneOut, NobodyGot, NobodyBusy, PutChar, input
  <2> QED BY <2>2, <2>3, <2>6 DEF ConsoleInv
<1>10. ASSUME NEW t \in Thread, FinishPut(t) PROVE ConsoleInv'
  <2>1. /\ LocksKept' /\ NobodyBusy' /\ (NobodyGot' <=> NobodyGot)
        /\ rest' \in [Thread -> 0 .. MaxLen]
    BY <1>10, FinishPutKeepsLocks
  <2>2. /\ written = 1 /\ ~putBusy /\ written' = 0 /\ putBusy' = putBusy
    BY <1>0, <1>10 DEF FinishPut, OneOut, ConsolesTypeOK
  <2>3. ConsolesTypeOK'
    <3>1. /\ keyboard' = keyboard /\ closed' = closed /\ incoming' = incoming
          /\ polling' = polling /\ available' = available
          /\ echoing' = echoing /\ typed' = typed /\ returned' = returned
      BY <1>10 DEF FinishPut, input
    <3>2. /\ reading' \in SUBSET Thread /\ writing' \in SUBSET Thread
          /\ state' \in [Thread -> {"idle", "get", "got", "put", "busy"}]
      BY <2>1 DEF LocksKept, Held, States
    <3> QED BY <1>0, <2>1, <2>2, <3>1, <3>2 DEF ConsolesTypeOK
  <2>4. OneIn' /\ OneOut'
    BY <1>0, <1>10, <2>1, <2>2 DEF OneIn, OneOut, FinishPut, input
  <2> QED BY <2>1, <2>3, <2>4 DEF ConsoleInv
<1>11. CASE UNCHANGED consoleVars
  <2>1. ConsolesTypeOK'
    BY <1>0, <1>11 DEF ConsolesTypeOK, consoleVars, input, output
  <2>2. LocksKept' /\ OneIn' /\ OneOut'
    BY <1>0, <1>11 DEF LocksKept, OneIn, OneOut, NobodyGot, NobodyBusy, consoleVars, input, output
  <2> QED BY <2>1, <2>2 DEF ConsoleInv
<1>12. ASSUME NEW t \in Thread,
              \/ \E n \in 1 .. MaxLen : StartRead(t, n, FALSE) \/ StartWrite(t, n)
              \/ StartRead(t, 0, TRUE)
       PROVE  ConsoleInv'
  <2>1. 0 \in 0 .. MaxLen /\ \A n \in 1 .. MaxLen : n \in 0 .. MaxLen
    BY <1>0
  <2> QED BY <1>5, <1>12, <2>1
<1> QED BY <1>1, <1>2, <1>3, <1>4, <1>6, <1>7, <1>8, <1>9, <1>10, <1>11, <1>12 DEF ConsolesNext

(* Every reachable state of the console is well typed.                        *)
THEOREM ConsoleTypes == ConsolesSpec => []ConsolesTypeOK
<1>1. ConsoleInv => ConsolesTypeOK
  BY DEF ConsoleInv
<1> QED BY <1>1, InitConsoleInv, NextConsoleInv, PTL DEF ConsolesSpec

(* The devices are ready when they are used, whoever reads, writes and        *)
(* echoes: ASSERT(incoming == EOF) and ASSERT(putBusy == FALSE) never fail.   *)
THEOREM DevicesAreReady == ConsolesSpec => []DevicesReady
<1>1. ConsoleInv => DevicesReady
  <2> SUFFICES ASSUME ConsoleInv PROVE DevicesReady
    OBVIOUS
  <2>1. ASSUME NEW t \in Thread, state[t] = "put", t \in writing PROVE ~putBusy
    BY <2>1 DEF ConsoleInv, OneOut, LocksKept, Held, NobodyBusy
  <2> QED BY <2>1 DEF ConsoleInv, OneIn, DevicesReady
<1> QED BY <1>1, InitConsoleInv, NextConsoleInv, PTL DEF ConsolesSpec

(* No wake-up of the console is lost.                                         *)
THEOREM ConsoleNeverStalls == ConsolesSpec => []NeverStalls
<1>1. ConsoleInv => NeverStalls
  <2> SUFFICES ASSUME ConsoleInv PROVE NeverStalls
    OBVIOUS
  <2>1. ASSUME NEW t \in reading, state[t] = "get" PROVE NobodyGot
    BY <2>1 DEF ConsoleInv, LocksKept, Held, NobodyGot
  <2>2. \A t \in writing : t \in Thread
    BY DEF ConsoleInv, ConsolesTypeOK
  <2> QED BY <2>1, <2>2 DEF ConsoleInv, OneIn, OneOut, NeverStalls, NobodyBusy
<1> QED BY <1>1, InitConsoleInv, NextConsoleInv, PTL DEF ConsolesSpec

-----------------------------------------------------------------------------
(* What was typed is what was delivered, then the character that is on its    *)
(* way if it looks like EOF, and then what is still to be read; in the end    *)
(* EOF was returned, for such a character or for the end of the input.        *)
Flow ==
  /\ polling \/ incoming # EndOfFile => typed = Delivered \o keyboard
  /\ ~polling /\ incoming = EndOfFile /\ (available > 0 \/ ~NobodyGot)
       => \/ typed = Append(returned, EndOfFile) \o keyboard
          \/ closed /\ typed = returned
  /\ ~polling /\ available = 0 /\ NobodyGot
       => \/ IsStartOf(returned, typed)
          \/ closed /\ returned = Append(typed, EndOfFile)

FInv == ConsoleInv /\ Flow

(* Appending to the second of two strings appends to both.                    *)
LEMMA ConcatAppend ==
  ASSUME NEW S, NEW a \in Seq(S), NEW b \in Seq(S), NEW x \in S
  PROVE  a \o Append(b, x) = Append(a \o b, x)
OBVIOUS

(* The front of the second may as well be the end of the first.               *)
LEMMA ConcatShift ==
  ASSUME NEW S, NEW a \in Seq(S), NEW b \in Seq(S), b # <<>>
  PROVE  a \o b = Append(a, Head(b)) \o Tail(b)
OBVIOUS

(* What a string starts with stays so when it grows.                          *)
LEMMA StartAppend ==
  ASSUME NEW S, NEW a \in Seq(S), NEW b \in Seq(S), NEW x \in S, IsStartOf(a, b)
  PROVE  IsStartOf(a, Append(b, x))
BY DEF IsStartOf

LEMMA StartConcat ==
  ASSUME NEW S, NEW a \in Seq(S), NEW b \in Seq(S)
  PROVE  IsStartOf(a, a \o b)
BY DEF IsStartOf

LEMMA StartOfItself ==
  ASSUME NEW S, NEW a \in Seq(S)
  PROVE  IsStartOf(a, a)
BY DEF IsStartOf

(* What comes before the last character of a start is one, and is shorter.    *)
LEMMA StartShorter ==
  ASSUME NEW S, NEW a \in Seq(S), NEW b \in Seq(S), NEW x \in S, NEW s \in Seq(S),
         s = Append(a, x) \o b
  PROVE  IsStartOf(a, s) /\ Len(a) < Len(s)
<1>1. s = a \o (<<x>> \o b) /\ <<x>> \o b \in Seq(S)
  OBVIOUS
<1>2. Len(s) = Len(a) + 1 + Len(b) /\ Len(a) \in Nat /\ Len(b) \in Nat
  OBVIOUS
<1>3. IsStartOf(a, a \o (<<x>> \o b))
  BY <1>1, StartConcat
<1>4. IsStartOf(a, s)
  BY <1>1, <1>3
<1> QED BY <1>2, <1>4

LEMMA StartLength ==
  ASSUME NEW S, NEW a \in Seq(S), NEW b \in Seq(S), IsStartOf(a, b)
  PROVE  Len(a) <= Len(b)
BY DEF IsStartOf

(* Bytes: what the strings of the console are made of.                        *)
Bytes == Char \cup {EndOfFile}

LEMMA Strings ==
  ConsoleInv => /\ keyboard \in Seq(Bytes) /\ typed \in Seq(Bytes) /\ returned \in Seq(Bytes)
          /\ Delivered \in Seq(Bytes)
          /\ incoming \in Bytes /\ EndOfFile \in Bytes /\ available \in Nat
          /\ polling \in BOOLEAN
<1> SUFFICES ASSUME ConsoleInv
    PROVE  /\ keyboard \in Seq(Bytes) /\ typed \in Seq(Bytes) /\ returned \in Seq(Bytes)
           /\ Delivered \in Seq(Bytes)
           /\ incoming \in Bytes /\ EndOfFile \in Bytes /\ available \in Nat
           /\ polling \in BOOLEAN
  OBVIOUS
<1>1. /\ keyboard \in Seq(Char) /\ typed \in Seq(Char) /\ returned \in Seq(Bytes)
      /\ incoming \in Bytes /\ EndOfFile \in Bytes /\ available \in Nat
      /\ polling \in BOOLEAN
  BY DEF ConsoleInv, ConsolesTypeOK, Bytes
<1>2. Char \subseteq Bytes
  BY DEF Bytes
<1>3. ASSUME NEW s \in Seq(Char) PROVE s \in Seq(Bytes)
  BY <1>2
<1>4. Delivered \in Seq(Bytes)
  BY <1>1 DEF Delivered
<1> QED BY <1>1, <1>3, <1>4

LEMMA InitFInv == ConsolesInit => FInv
<1> SUFFICES ASSUME ConsolesInit PROVE FInv
  OBVIOUS
<1>1. typed = Delivered \o keyboard
  BY DEF ConsolesInit, Delivered
<1> QED BY <1>1, InitConsoleInv DEF FInv, Flow, ConsolesInit

LEMMA NextFInv == FInv /\ [ConsolesNext]_consoleVars => FInv'
<1> SUFFICES ASSUME FInv, [ConsolesNext]_consoleVars PROVE FInv'
  OBVIOUS
<1>0. ConsoleInv /\ ConsoleInv' /\ Flow /\ OneIn
  BY NextConsoleInv DEF FInv, ConsoleInv
<1> SUFFICES Flow'
  BY <1>0 DEF FInv
<1>1. /\ keyboard \in Seq(Bytes) /\ typed \in Seq(Bytes) /\ returned \in Seq(Bytes)
      /\ Delivered \in Seq(Bytes)
      /\ incoming \in Bytes /\ EndOfFile \in Bytes /\ available \in Nat
      /\ polling \in BOOLEAN
  BY <1>0, Strings
<1>2. ASSUME NEW c \in Char, Type(c) PROVE Flow'
  <2>1. /\ keyboard' = Append(keyboard, c) /\ typed' = Append(typed, c) /\ ~closed
        /\ closed' = closed /\ incoming' = incoming /\ polling' = polling
        /\ available' = available /\ state' = state /\ returned' = returned
        /\ c \in Bytes
    BY <1>2 DEF Type, Bytes
  <2>2. /\ Delivered' = Delivered /\ (NobodyGot' <=> NobodyGot)
        /\ Append(returned, EndOfFile) \in Seq(Bytes)
    BY <1>1, <2>1 DEF Delivered, NobodyGot
  <2>3. ASSUME NEW a \in Seq(Bytes), typed = a \o keyboard
        PROVE  typed' = a \o keyboard'
    <3>1. a \o Append(keyboard, c) = Append(a \o keyboard, c)
      BY <1>1, <2>1, ConcatAppend
    <3> QED BY <2>1, <2>3, <3>1
  <2>4. IsStartOf(returned, typed) => IsStartOf(returned', typed')
    BY <1>1, <2>1, StartAppend
  <2> QED BY <1>0, <1>1, <2>1, <2>2, <2>3, <2>4 DEF Flow
<1>3. CASE CloseKeyboard
  BY <1>0, <1>3 DEF Flow, CloseKeyboard, Delivered, NobodyGot, IsStartOf
<1>4. CASE Arrive
  <2>1. /\ polling /\ ~polling' /\ available' = 1
        /\ incoming = EndOfFile /\ typed = returned \o keyboard
        /\ typed' = typed /\ returned' = returned /\ closed' = closed
    BY <1>0, <1>1, <1>4 DEF Arrive, Flow, OneIn, Delivered
  <2>2. CASE keyboard # <<>>
    <3>1. incoming' = Head(keyboard) /\ keyboard' = Tail(keyboard)
      BY <1>4, <2>2 DEF Arrive
    <3>2. typed' = Append(returned, incoming') \o keyboard'
      BY <1>1, <2>1, <2>2, <3>1, ConcatShift
    <3>3. CASE incoming' # EndOfFile
      <4>1. Delivered' = Append(returned, incoming')
        BY <2>1, <3>3 DEF Delivered
      <4> QED BY <2>1, <3>2, <3>3, <4>1 DEF Flow
    <3>4. CASE incoming' = EndOfFile
      <4>1. typed' = Append(returned', EndOfFile) \o keyboard'
        BY <2>1, <3>2, <3>4
      <4> QED BY <2>1, <3>4, <4>1 DEF Flow
    <3> QED BY <3>3, <3>4
  <2>3. CASE keyboard = <<>>
    <3>1. closed /\ incoming' = incoming
      BY <1>4, <2>3 DEF Arrive
    <3>2. typed = returned
      BY <1>1, <2>1, <2>3
    <3> QED BY <2>1, <3>1, <3>2 DEF Flow
  <2> QED BY <2>2, <2>3
<1>5. CASE UNCHANGED <<input, typed, returned>> /\ (NobodyGot' <=> NobodyGot)
  BY <1>0, <1>5 DEF Flow, Delivered, IsStartOf, input
<1>6. ASSUME NEW t \in Thread, AwaitChar(t) PROVE Flow'
  <2>1. /\ available > 0 /\ available' = available - 1
        /\ keyboard' = keyboard /\ closed' = closed /\ incoming' = incoming
        /\ polling' = polling /\ typed' = typed /\ returned' = returned
    BY <1>6 DEF AwaitChar
  <2>2. ~NobodyGot'
    BY <1>0, <1>6 DEF ConsoleInv, ConsolesTypeOK, AwaitChar, NobodyGot
  <2> QED BY <1>0, <2>1, <2>2 DEF Flow, Delivered
<1>7. ASSUME NEW t \in Thread, GetChar(t) PROVE Flow'
  <2>1. state[t] = "got" /\ Go(t, incoming) /\ ~NobodyGot /\ available = 0 /\ ~polling
    BY <1>0, <1>1, <1>7 DEF GetChar, OneIn, NobodyGot
  <2>2. NobodyGot'
    BY <1>0, <1>7, <2>1, GoKeepsLocks DEF GetChar, NobodyGot
  <2>3. /\ incoming' = EndOfFile /\ returned' = Append(returned, incoming)
        /\ (polling' <=> incoming # EndOfFile) /\ available' = 0
        /\ keyboard' = keyboard /\ closed' = closed /\ typed' = typed
    BY <1>1, <1>7, <2>1 DEF GetChar, TakeIncoming
  <2>4. CASE incoming # EndOfFile
    BY <1>0, <2>1, <2>3, <2>4 DEF Flow, Delivered
  <2>5. CASE incoming = EndOfFile
    <3>1. \/ typed = returned' \o keyboard
          \/ closed /\ returned' = Append(typed, EndOfFile)
      BY <1>0, <2>1, <2>3, <2>5 DEF Flow
    <3>2. returned' \in Seq(Bytes)
      BY <1>1, <2>3
    <3>3. typed = returned' \o keyboard => IsStartOf(returned', typed')
      BY <1>1, <2>3, <3>2, StartConcat
    <3> QED BY <2>1, <2>2, <2>3, <2>5, <3>1, <3>3 DEF Flow
  <2> QED BY <2>4, <2>5
<1>8. CASE Written
  BY <1>5, <1>8 DEF Written, NobodyGot
<1>9. ASSUME NEW t \in Thread, FinishPut(t) PROVE Flow'
  BY <1>0, <1>5, <1>9, FinishPutKeepsLocks DEF FinishPut
<1>10. ASSUME NEW t \in Thread, NEW l \in {"get", "put", "busy"},
              state[t] # "got", state' = [state EXCEPT ![t] = l],
              UNCHANGED <<input, typed, returned>>
       PROVE  Flow'
  <2>1. NobodyGot' <=> NobodyGot
    BY <1>0, <1>10 DEF ConsoleInv, ConsolesTypeOK, NobodyGot
  <2> QED BY <1>5, <1>10, <2>1
<1>11. ASSUME NEW t \in Thread,
              \/ \E n \in 1 .. MaxLen : StartRead(t, n, FALSE) \/ StartWrite(t, n)
              \/ StartRead(t, 0, TRUE) \/ PutChar(t)
       PROVE  Flow'
  BY <1>10, <1>11 DEF StartRead, StartWrite, PutChar
<1>12. CASE UNCHANGED consoleVars
  BY <1>5, <1>12 DEF consoleVars, NobodyGot
<1>13. ASSUME NEW t \in Thread, AcquireInput(t) \/ AcquireOutput(t) PROVE Flow'
  BY <1>5, <1>13 DEF AcquireInput, AcquireOutput, NobodyGot
<1> QED BY <1>2, <1>3, <1>4, <1>6, <1>7, <1>8, <1>9, <1>11, <1>12, <1>13 DEF ConsolesNext

(* What is typed reaches the readers in order, none lost or twice, whoever    *)
(* they are and however they and the device interleave.                       *)
THEOREM InputStaysInOrder == ConsolesSpec => []InputInOrder
<1>1. FInv => InputInOrder
  <2> SUFFICES ASSUME FInv PROVE InputInOrder
    OBVIOUS
  <2>0. ConsoleInv /\ Flow
    BY DEF FInv
  <2>1. /\ keyboard \in Seq(Bytes) /\ typed \in Seq(Bytes) /\ returned \in Seq(Bytes)
        /\ Delivered \in Seq(Bytes) /\ EndOfFile \in Bytes /\ available \in Nat
    BY <2>0, Strings
  <2>2. ASSUME NEW a \in Seq(Bytes), IsStartOf(a, typed)
        PROVE  IsStartOf(a, Append(typed, EndOfFile)) /\ ~(Len(a) > Len(typed))
    <3>1. Len(a) <= Len(typed) /\ Len(a) \in Nat /\ Len(typed) \in Nat
      BY <2>1, <2>2, StartLength
    <3> QED BY <2>1, <2>2, <3>1, StartAppend
  <2>3. CASE polling \/ incoming # EndOfFile
    <3>1. typed = Delivered \o keyboard
      BY <2>0, <2>3 DEF Flow
    <3>2. IsStartOf(Delivered, typed)
      BY <2>1, <3>1, StartConcat
    <3>3. Len(returned) <= Len(Delivered)
      BY <2>1 DEF Delivered
    <3>4. ~(Len(returned) > Len(typed))
      BY <2>1, <2>2, <3>2, <3>3
    <3> QED BY <2>1, <2>2, <3>1, <3>2, <3>4 DEF InputInOrder
  <2>4. CASE ~polling /\ incoming = EndOfFile
    <3>1. Delivered = returned
      BY <2>4 DEF Delivered
    <3>2. \/ typed = Append(returned, EndOfFile) \o keyboard
          \/ closed /\ typed = returned
          \/ IsStartOf(returned, typed)
          \/ closed /\ returned = Append(typed, EndOfFile)
      BY <2>0, <2>1, <2>4 DEF Flow
    <3>3. CASE typed = Append(returned, EndOfFile) \o keyboard
      BY <2>1, <2>2, <2>4, <3>1, <3>3, StartShorter DEF InputInOrder
    <3>4. CASE closed /\ typed = returned
      BY <2>1, <2>2, <2>4, <3>1, <3>4, StartOfItself DEF InputInOrder
    <3>5. CASE IsStartOf(returned, typed)
      BY <2>1, <2>2, <2>4, <3>1, <3>5 DEF InputInOrder
    <3>6. CASE closed /\ returned = Append(typed, EndOfFile)
      BY <2>1, <2>4, <3>1, <3>6, StartOfItself DEF InputInOrder
    <3> QED BY <3>2, <3>3, <3>4, <3>5, <3>6
  <2> QED BY <2>1, <2>3, <2>4
<1> QED BY <1>1, InitFInv, NextFInv, PTL DEF ConsolesSpec

-----------------------------------------------------------------------------
(* Open files.  FirstSlot and InsertLocal find a place when there is one, by  *)
(* LeastNatural.                                                              *)
LEMMA FirstSlotType == FirstSlot \in Slot \cup {-1}
<1>1. CASE \E s \in Slot : table[s] = Free
  <2> DEFINE T == {s \in Slot : table[s] = Free}
  <2>1. T \in SUBSET Nat /\ T # {}
    BY <1>1, OpenFilesAssumption DEF Slot
  <2>2. PICK s \in T : \A r \in T : s <= r
    <3> HIDE DEF T
    <3> QED BY <2>1, LeastNatural
  <2>3. s \in Slot /\ table[s] = Free /\ \A r \in 0 .. s - 1 : table[r] # Free
    BY <2>2, OpenFilesAssumption DEF Slot
  <2> QED BY <1>1, <2>3 DEF FirstSlot
<1>2. CASE ~\E s \in Slot : table[s] = Free
  BY <1>2 DEF FirstSlot
<1> QED BY <1>1, <1>2

LEMMA InsertLocalType ==
  ASSUME local \in [Program -> [Local -> Slot \cup {-1}]],
         NEW p \in Program, NEW s \in Slot \cup {-1}, InsertLocal(p, s)
  PROVE  local' \in [Program -> [Local -> Slot \cup {-1}]]
<1> DEFINE Room(i) == i >= 2 /\ local[p][i] = -1
           Place == CHOOSE i \in Local : Room(i) /\ \A j \in 0 .. i - 1 : ~Room(j)
<1>1. CASE \E i \in Local : Room(i)
  <2>1. local' = [local EXCEPT ![p][Place] = s]
    BY <1>1 DEF InsertLocal
  <2> HIDE DEF Place
  <2> QED BY <2>1
<1>2. CASE ~\E i \in Local : Room(i)
  BY <1>2 DEF InsertLocal
<1> QED BY <1>1, <1>2

(* A path leads to a file, whose name the tables know.                        *)
LEMMA FileFacts ==
  /\ Name \subseteq Path /\ \A n \in Name : NameOf[n] = n
  /\ \A path \in Path : /\ FileOf(path) \in File /\ FileOf(path)[2] = NameOf[path]
                        /\ NameOf[path] \in Name
  /\ \A f \in File : f[2] \in Name /\ f[2] \in Path
  /\ Free \notin File /\ Garbage \notin File
BY OpenFilesAssumption DEF File, FileOf

(* The calls have the paths and slots that their stages speak of.             *)
Named ==
  \A p \in Program :
    /\ stage[p] \in {"open", "insert", "exec"} => call[p].path \in Path
    /\ stage[p] = "clear" => call[p].slot \in Slot /\ call[p].file \in File

(* A file that is being deleted has its flag set.                             *)
Flagged == \A p \in Program : stage[p] = "clear" => removedFlag[call[p].file[2]] = "yes"

(* What Open found is still there when it inserts, or its flag is set.        *)
StillThere ==
  \A p \in Program :
    stage[p] = "insert" /\ call[p].found
      => FileOf(call[p].path) \in disk \/ removedFlag[NameOf[call[p].path]] = "yes"

(* An Open whose path's flag is set looked at it before.                      *)
LateKnown ==
  \A p \in Program :
    stage[p] \in {"open", "insert"} /\ removedFlag[call[p].path] = "yes" => p \in late

OTypes == OpenFilesTypeOK /\ Named
OInv == OTypes /\ Flagged /\ StillThere /\ LateKnown /\ LiveOrRemoved

Ops == {"none", "Open", "Close", "Remove", "RunUP", "Exec"}
Calls == [op : Ops, path : Path \cup {Free}, found : BOOLEAN,
          slot : Slot \cup {-1}, file : File \cup {Free}, local : Local \cup {-1}]

LEMMA CallType ==
  /\ NoCall \in Calls
  /\ \A op \in Ops, n \in Path, f \in BOOLEAN :
       [NoCall EXCEPT !.op = op, !.path = n, !.found = f] \in Calls
  /\ \A op \in Ops, n \in Path : [NoCall EXCEPT !.op = op, !.path = n] \in Calls
  /\ \A op \in Ops, n \in Path \cup {Free}, s \in Slot, f \in File, i \in Local \cup {-1} :
       [NoCall EXCEPT !.op = op, !.path = n, !.slot = s, !.file = f, !.local = i] \in Calls
BY DEF NoCall, Calls, Ops

(* A step changes the call of one process; the tables stay what they are.     *)
Steps(p, l, c) ==
  /\ stage' = [stage EXCEPT ![p] = l] /\ call' = [call EXCEPT ![p] = c]

LEMMA StepsType ==
  ASSUME OTypes, NEW p \in Program, NEW c \in Calls, NEW l, Steps(p, l, c),
         l \in {"none", "user", "open", "insert", "clear", "exec", "end"},
         l \in {"open", "insert", "exec"} => c.path \in Path,
         l = "clear" => c.slot \in Slot /\ c.file \in File
  PROVE  /\ stage' \in [Program -> {"none", "user", "open", "insert", "clear", "exec", "end"}]
         /\ call' \in [Program -> Calls]
         /\ Named'
<1>1. /\ stage \in [Program -> {"none", "user", "open", "insert", "clear", "exec", "end"}]
      /\ call \in [Program -> Calls]
  BY DEF OTypes, OpenFilesTypeOK, Calls, Ops
<1>2. /\ stage' \in [Program -> {"none", "user", "open", "insert", "clear", "exec", "end"}]
      /\ call' \in [Program -> Calls]
  BY <1>1 DEF Steps
<1>3. ASSUME NEW q \in Program
      PROVE  /\ stage'[q] \in {"open", "insert", "exec"} => call'[q].path \in Path
             /\ stage'[q] = "clear" => call'[q].slot \in Slot /\ call'[q].file \in File
  <2>1. CASE q = p
    <3>1. stage'[q] = l /\ call'[q] = c
      BY <1>1, <2>1 DEF Steps
    <3> QED BY <3>1
  <2>2. CASE q # p
    <3>1. stage'[q] = stage[q] /\ call'[q] = call[q]
      BY <1>1, <2>2 DEF Steps
    <3> QED BY <3>1 DEF OTypes, Named
  <2> QED BY <2>1, <2>2
<1> QED BY <1>2, <1>3 DEF Named

LEMMA InitOInv == OpenFilesInit => OInv
<1> SUFFICES ASSUME OpenFilesInit PROVE OInv
  OBVIOUS
<1>1. PICK g \in Uncleared : table = [s \in Slot |-> IF s \in g THEN Garbage ELSE Free]
  BY DEF OpenFilesInit
<1>2. NewTable \in [Local -> Slot \cup {-1}]
  BY OpenFilesAssumption DEF NewTable, Local, Slot
<1>3. OpenFilesTypeOK
  <2>1. call \in [Program -> Calls]
    BY CallType DEF OpenFilesInit
  <2> QED BY <1>1, <1>2, <2>1 DEF OpenFilesInit, OpenFilesTypeOK, Calls, Ops
<1>4. \A s \in Slot : ~HasEntry(s)
  BY <1>1, OpenFilesAssumption DEF HasEntry
<1>5. \A p \in Program : stage[p] = "none"
  BY DEF OpenFilesInit
<1> QED BY <1>3, <1>4, <1>5 DEF OInv, OTypes, Named, Flagged, StillThere, LateKnown, LiveOrRemoved

LEMMA FlagType ==
  ASSUME OTypes, NEW n \in Path, Flag(n)
  PROVE  /\ removedFlag' \in [Path -> {"none", "no", "yes"}] /\ late' \in SUBSET Program
         /\ \A m \in Path : removedFlag[m] = "yes" => removedFlag'[m] = "yes"
         /\ \A m \in Path : removedFlag'[m] = "yes" => removedFlag[m] = "yes" \/ m = n
         /\ late \subseteq late'
         /\ removedFlag'[n] = "yes"
BY DEF OTypes, OpenFilesTypeOK, Flag

(* Mark and RemoveEntry, which Close and Remove share.                        *)
LEMMA RemoveEntryType ==
  ASSUME OTypes, NEW p \in Program, NEW op \in Ops, NEW n \in Path \cup {Free}, NEW s,
         NEW i \in Local \cup {-1}, RemoveEntry(p, op, n, s, i)
  PROVE  OTypes'
<1>1. CASE HasEntry(s) /\ Mark(p, op, n, s, i)
  <2> DEFINE c == [NoCall EXCEPT !.op = op, !.path = n, !.slot = s, !.file = table[s], !.local = i]
  <2>1. s \in Slot /\ table[s] \in File
    BY <1>1 DEF HasEntry
  <2>2. c \in Calls /\ c.slot = s /\ c.file = table[s]
    <3>1. c \in Calls
      BY <2>1, CallType
    <3> QED BY <2>1, <3>1 DEF NoCall
  <2>3. Steps(p, "clear", c)
    BY <1>1 DEF Mark, Steps
  <2>4. /\ stage' \in [Program -> {"none", "user", "open", "insert", "clear", "exec", "end"}]
        /\ call' \in [Program -> Calls]
        /\ Named'
    <3> HIDE DEF c
    <3> QED BY <2>1, <2>2, <2>3, StepsType
  <2>5. removedFlag' \in [Path -> {"none", "no", "yes"}] /\ late' \in SUBSET Program
    <3>1. EntryName(s) \in Path /\ Flag(EntryName(s))
      BY <1>1, <2>1, FileFacts DEF Mark, EntryName
    <3> QED BY <3>1, FlagType
  <2> QED BY <1>1, <2>4, <2>5 DEF OTypes, OpenFilesTypeOK, Mark, Calls, Ops
<1>2. CASE s \in Slot /\ table[s] = Garbage /\ Undefined
  BY <1>2 DEF OTypes, OpenFilesTypeOK, Named, Undefined
<1>3. CASE ForgetLocal(p, i) /\ UNCHANGED <<disk, table, nameId, removedFlag, stage, call, kernel, late>>
  <2>1. local' \in [Program -> [Local -> Slot \cup {-1}]]
    BY <1>3 DEF OTypes, OpenFilesTypeOK, ForgetLocal
  <2> QED BY <1>3, <2>1 DEF OTypes, OpenFilesTypeOK, Named
<1> QED BY <1>1, <1>2, <1>3 DEF RemoveEntry

LEMMA NextOTypes == OTypes /\ [OpenFilesNext]_openFileVars => OTypes'
<1> SUFFICES ASSUME OTypes, [OpenFilesNext]_openFileVars PROVE OTypes'
  OBVIOUS
<1>0. /\ OpenFilesTypeOK /\ Named
      /\ stage \in [Program -> {"none", "user", "open", "insert", "clear", "exec", "end"}]
      /\ call \in [Program -> Calls]
      /\ NoCall \in Calls
  BY CallType DEF OTypes, OpenFilesTypeOK, Calls, Ops
<1>1. ASSUME NEW p \in Program, NEW c \in Calls,
             NEW l \in {"none", "user", "open", "insert", "clear", "exec", "end"},
             Steps(p, l, c),
             l \in {"open", "insert", "exec"} => c.path \in Path,
             l # "clear",
             disk' \in SUBSET File, table' \in [Slot -> File \cup {Free, Garbage}],
             local' \in [Program -> [Local -> Slot \cup {-1}]],
             nameId' \in [Program -> [Name -> Slot \cup {-1}]],
             removedFlag' \in [Path -> {"none", "no", "yes"}],
             kernel' = kernel, late' \in SUBSET Program
      PROVE  OTypes'
  <2>1. /\ stage' \in [Program -> {"none", "user", "open", "insert", "clear", "exec", "end"}]
        /\ call' \in [Program -> Calls]
        /\ Named'
    BY <1>1, StepsType
  <2> QED BY <1>0, <1>1, <2>1 DEF OTypes, OpenFilesTypeOK, Calls, Ops
<1>2. ASSUME Undefined PROVE OTypes'
  BY <1>2 DEF OTypes, OpenFilesTypeOK, Named, Undefined
<1> SUFFICES ASSUME NEW p \in Program,
                    \/ \E n \in Path : StartRunUP(p, n) \/ StartExec(p, n) \/ Create(p, n)
                                       \/ Open(p, n)
                    \/ \E n \in Name : RemoveFile(p, n)
                    \/ \E q \in Program : LoadsProgram(p, q)
                    \/ LoadStopsAll(p) \/ ExecFails(p)
                    \/ OpenFinds(p) \/ OpenRefused(p) \/ OpenInserts(p)
                    \/ \E i \in Slot : Close(p, i)
                    \/ \E i \in Ids : Use(p, i)
                    \/ Clear(p) \/ Exits(p)
             PROVE  OTypes'
  <2>1. CASE UNCHANGED openFileVars
    BY <2>1 DEF OTypes, OpenFilesTypeOK, Named, openFileVars
  <2> QED BY <2>1 DEF OpenFilesNext
<1>3. ASSUME NEW n \in Path, NEW op \in {"RunUP", "Exec"}, StartProgram(p, n, op),
             UNCHANGED <<disk, table, local, nameId, removedFlag, kernel, late>>
      PROVE  OTypes'
  <2> DEFINE c == [NoCall EXCEPT !.op = op, !.path = n, !.found = removedFlag[n] # "yes"]
  <2>1. c \in Calls /\ c.path = n
    <3>1. op \in Ops /\ (removedFlag[n] # "yes") \in BOOLEAN
      BY DEF Ops
    <3>2. c \in Calls
      BY <3>1, CallType
    <3> QED BY <3>2 DEF NoCall
  <2>2. Steps(p, "exec", c)
    BY <1>3 DEF StartProgram, Steps
  <2> HIDE DEF c
  <2> QED BY <1>0, <1>1, <1>3, <2>1, <2>2 DEF OpenFilesTypeOK
<1>4. ASSUME NEW n \in Path, StartRunUP(p, n) \/ StartExec(p, n) PROVE OTypes'
  BY <1>3, <1>4 DEF StartRunUP, StartExec
<1>5. ASSUME NEW n \in Path, Create(p, n) PROVE OTypes'
  BY <1>0, <1>5, FileFacts DEF Create, OTypes, OpenFilesTypeOK, Named
<1>6. ASSUME NEW n \in Path, Open(p, n) PROVE OTypes'
  <2> DEFINE c == [NoCall EXCEPT !.op = "Open", !.path = n]
  <2>1. c \in Calls /\ c.path = n
    <3>1. c \in Calls
      BY CallType DEF Ops
    <3> QED BY <3>1 DEF NoCall
  <2>2. Steps(p, "open", c) /\ UNCHANGED <<disk, table, local, nameId, removedFlag, kernel, late>>
    BY <1>6 DEF Open, Steps
  <2> HIDE DEF c
  <2> QED BY <1>0, <1>1, <2>1, <2>2 DEF OpenFilesTypeOK
<1>7. ASSUME NEW n \in Name, RemoveFile(p, n) PROVE OTypes'
  <2>1. "Remove" \in Ops /\ n \in Path \cup {Free} /\ nameId[p][n] \in Local \cup {-1}
    BY <1>7, FileFacts DEF Ops, RemoveFile
  <2> QED BY <1>7, <2>1, RemoveEntryType DEF RemoveFile
<1>8. ASSUME NEW i \in Slot, Close(p, i) PROVE OTypes'
  <2>1. "Close" \in Ops /\ Free \in Path \cup {Free} /\ -1 \in Local \cup {-1}
    BY DEF Ops
  <2> QED BY <1>8, <2>1, RemoveEntryType DEF Close
<1>9. ASSUME NEW q \in Program, LoadsProgram(p, q) PROVE OTypes'
  <2>1. /\ stage[p] = "exec" /\ call[p].path \in Path
        /\ stage' = [stage EXCEPT ![p] = "user", ![q] = "user"]
        /\ call' = [call EXCEPT ![p] = NoCall]
        /\ UNCHANGED <<disk, table, local, nameId, kernel>>
        /\ \/ Flag(call[p].path)
           \/ UNCHANGED <<removedFlag, late>>
    BY <1>0, <1>9 DEF LoadsProgram, Running, Named
  <2>2. removedFlag' \in [Path -> {"none", "no", "yes"}] /\ late' \in SUBSET Program
    BY <1>0, <2>1, FlagType DEF OpenFilesTypeOK
  <2>3. /\ stage' \in [Program -> {"none", "user", "open", "insert", "clear", "exec", "end"}]
        /\ call' \in [Program -> Calls]
    BY <1>0, <2>1
  <2>4. Named'
    BY <1>0, <2>1 DEF Named
  <2> QED BY <1>0, <2>1, <2>2, <2>3, <2>4 DEF OTypes, OpenFilesTypeOK, Calls, Ops
<1>10. CASE LoadStopsAll(p)
  BY <1>10 DEF LoadStopsAll, OTypes, OpenFilesTypeOK, Named
<1>11. CASE ExecFails(p)
  BY <1>2, <1>11 DEF ExecFails
<1>12. CASE OpenFinds(p)
  <2> DEFINE f == FileOf(call[p].path) \in disk
             c == [call[p] EXCEPT !.found = f]
  <2>1. c \in Calls /\ c.path = call[p].path
    <3>1. call[p] \in Calls /\ f \in BOOLEAN
      BY <1>0
    <3>2. \A d \in Calls, g \in BOOLEAN :
            [d EXCEPT !.found = g] \in Calls /\ [d EXCEPT !.found = g].path = d.path
      BY DEF Calls
    <3> QED BY <3>1, <3>2
  <2>2. Steps(p, "insert", c) /\ UNCHANGED <<disk, table, local, nameId, removedFlag, kernel, late>>
    BY <1>0, <1>12 DEF OpenFinds, Steps
  <2>3. c.path \in Path
    BY <1>0, <1>12, <2>1 DEF OpenFinds, Named
  <2> HIDE DEF c
  <2> QED BY <1>0, <1>1, <2>1, <2>2, <2>3 DEF OpenFilesTypeOK
<1>13. CASE OpenRefused(p)
  <2>1. Steps(p, "user", NoCall) /\ late' \in SUBSET Program
        /\ UNCHANGED <<disk, table, local, nameId, removedFlag, kernel>>
    BY <1>0, <1>13 DEF OpenRefused, Steps, OpenFilesTypeOK
  <2> QED BY <1>0, <1>1, <2>1 DEF OpenFilesTypeOK
<1>14. CASE OpenInserts(p)
  <2> DEFINE s == FirstSlot
             n == NameOf[call[p].path]
             f == FileOf(call[p].path)
  <2>1. s \in Slot \cup {-1} /\ n \in Name /\ n \in Path /\ f \in File
    BY <1>0, <1>14, FirstSlotType, FileFacts DEF OpenInserts, Named
  <2>2. /\ Steps(p, "user", NoCall) /\ UNCHANGED <<disk, kernel>> /\ late' = late \ {p}
        /\ InsertLocal(p, s)
        /\ \/ /\ s # -1
              /\ table' = [table EXCEPT ![s] = f]
              /\ nameId' = [nameId EXCEPT ![p][n] = s]
              /\ removedFlag' = [removedFlag EXCEPT ![n] = IF @ = "none" THEN "no" ELSE @]
           \/ UNCHANGED <<table, nameId, removedFlag>>
    BY <1>14 DEF OpenInserts, Steps
  <2> HIDE DEF s, n, f
  <2>3. local' \in [Program -> [Local -> Slot \cup {-1}]]
    BY <1>0, <2>1, <2>2, InsertLocalType DEF OpenFilesTypeOK
  <2>4. /\ table' \in [Slot -> File \cup {Free, Garbage}]
        /\ nameId' \in [Program -> [Name -> Slot \cup {-1}]]
        /\ removedFlag' \in [Path -> {"none", "no", "yes"}]
    <3>1. /\ table \in [Slot -> File \cup {Free, Garbage}]
          /\ nameId \in [Program -> [Name -> Slot \cup {-1}]]
          /\ removedFlag \in [Path -> {"none", "no", "yes"}]
      BY <1>0 DEF OpenFilesTypeOK
    <3>2. CASE UNCHANGED <<table, nameId, removedFlag>>
      BY <3>1, <3>2
    <3>3. CASE /\ s # -1
               /\ table' = [table EXCEPT ![s] = f]
               /\ nameId' = [nameId EXCEPT ![p][n] = s]
               /\ removedFlag' = [removedFlag EXCEPT ![n] = IF @ = "none" THEN "no" ELSE @]
      <4>1. table' \in [Slot -> File \cup {Free, Garbage}]
        BY <2>1, <3>1, <3>3
      <4>2. nameId' \in [Program -> [Name -> Slot \cup {-1}]]
        BY <2>1, <3>1, <3>3
      <4>3. removedFlag' \in [Path -> {"none", "no", "yes"}]
        BY <2>1, <3>1, <3>3
      <4> QED BY <4>1, <4>2, <4>3
    <3> QED BY <2>2, <3>2, <3>3
  <2> QED BY <1>0, <1>1, <2>2, <2>3, <2>4 DEF OpenFilesTypeOK
<1>15. ASSUME NEW i \in Ids, Use(p, i) PROVE OTypes'
  BY <1>2, <1>15 DEF Use
<1>16. CASE Clear(p)
  <2>1. /\ Steps(p, "user", NoCall) /\ UNCHANGED <<nameId, removedFlag, kernel, late>>
        /\ disk' \in SUBSET File /\ table' \in [Slot -> File \cup {Free, Garbage}]
    BY <1>0, <1>16 DEF Clear, Steps, OpenFilesTypeOK
  <2>2. local' \in [Program -> [Local -> Slot \cup {-1}]]
    BY <1>0, <1>16 DEF Clear, ForgetLocal, OpenFilesTypeOK
  <2> QED BY <1>0, <1>1, <2>1, <2>2 DEF OpenFilesTypeOK
<1>17. CASE Exits(p)
  <2>1. stage' = [stage EXCEPT ![p] = "end"] /\ UNCHANGED <<disk, table, local, nameId, removedFlag, call, kernel, late>>
    BY <1>17 DEF Exits
  <2>2. Named'
    BY <1>0, <2>1 DEF Named
  <2> QED BY <1>0, <2>1, <2>2 DEF OTypes, OpenFilesTypeOK
<1> QED BY <1>4, <1>5, <1>6, <1>7, <1>8, <1>9, <1>10, <1>11, <1>12, <1>13, <1>14, <1>15,
           <1>16, <1>17

(* Every reachable state of the open-file tables is well typed.               *)
THEOREM OpenFilesTypes == OpenFilesSpec => []OpenFilesTypeOK
<1>1. OTypes => OpenFilesTypeOK
  BY DEF OTypes
<1>2. OpenFilesInit => OTypes
  BY InitOInv DEF OInv
<1> QED BY <1>1, <1>2, NextOTypes, PTL DEF OpenFilesSpec

-----------------------------------------------------------------------------
(* One process goes on, with what is right for its new stage; what it deletes *)
(* is flagged, and it counts as late whoever overlooks the flag it sets.      *)
LEMMA OthersKept ==
  ASSUME OInv, OTypes', NEW p \in Program, NEW c \in Calls, NEW l, Steps(p, l, c),
         l = "clear" => removedFlag'[c.file[2]] = "yes",
         l = "insert" /\ c.found => FileOf(c.path) \in disk' \/ removedFlag'[NameOf[c.path]] = "yes",
         l \in {"open", "insert"} /\ removedFlag'[c.path] = "yes" => p \in late',
         \A n \in Path : removedFlag[n] = "yes" => removedFlag'[n] = "yes",
         \A f \in disk \ disk' : removedFlag[f[2]] = "yes",
         \A q \in Program \ {p} : q \in late => q \in late',
         \A q \in Program \ {p} : stage[q] \in {"open", "insert"} /\ removedFlag'[call[q].path] = "yes"
           => removedFlag[call[q].path] = "yes" \/ q \in late'
  PROVE  Flagged' /\ StillThere' /\ LateKnown'
<1>1. /\ stage \in [Program -> {"none", "user", "open", "insert", "clear", "exec", "end"}]
      /\ call \in [Program -> Calls]
  BY DEF OInv, OTypes, OpenFilesTypeOK, Calls, Ops
<1>2. /\ stage'[p] = l /\ call'[p] = c
      /\ \A q \in Program \ {p} : stage'[q] = stage[q] /\ call'[q] = call[q]
  BY <1>1 DEF Steps
<1>3. Flagged'
  <2> SUFFICES ASSUME NEW q \in Program, stage'[q] = "clear"
               PROVE  removedFlag'[call'[q].file[2]] = "yes"
    BY DEF Flagged
  <2>1. CASE q = p
    BY <1>2, <2>1
  <2>2. CASE q # p
    <3>1. stage[q] = "clear" /\ call'[q] = call[q]
      BY <1>2, <2>2
    <3>2. call[q].file[2] \in Path /\ removedFlag[call[q].file[2]] = "yes"
      BY <3>1, FileFacts DEF OInv, OTypes, Named, Flagged
    <3> QED BY <3>1, <3>2
  <2> QED BY <2>1, <2>2
<1>4. StillThere'
  <2> SUFFICES ASSUME NEW q \in Program, stage'[q] = "insert", call'[q].found
               PROVE  FileOf(call'[q].path) \in disk' \/ removedFlag'[NameOf[call'[q].path]] = "yes"
    BY DEF StillThere
  <2>1. CASE q = p
    BY <1>2, <2>1
  <2>2. CASE q # p
    <3>1. stage[q] = "insert" /\ call'[q] = call[q] /\ call[q].found
      BY <1>2, <2>2
    <3> DEFINE f == FileOf(call[q].path)
               n == NameOf[call[q].path]
    <3>2. n \in Path /\ f[2] = n /\ (f \in disk \/ removedFlag[n] = "yes")
      BY <3>1, FileFacts DEF OInv, OTypes, Named, StillThere
    <3>3. f \in disk' \/ removedFlag'[n] = "yes"
      <4> HIDE DEF f, n
      <4> QED BY <3>2
    <3> QED BY <3>1, <3>3
  <2> QED BY <2>1, <2>2
<1>5. LateKnown'
  <2> SUFFICES ASSUME NEW q \in Program, stage'[q] \in {"open", "insert"},
                      removedFlag'[call'[q].path] = "yes"
               PROVE  q \in late'
    BY DEF LateKnown
  <2>1. CASE q = p
    BY <1>2, <2>1
  <2>2. CASE q # p
    <3>1. stage[q] \in {"open", "insert"} /\ call'[q] = call[q]
      BY <1>2, <2>2
    <3>2. removedFlag[call[q].path] = "yes" => q \in late
      BY <3>1 DEF OInv, LateKnown
    <3> QED BY <2>2, <3>1, <3>2
  <2> QED BY <2>1, <2>2
<1> QED BY <1>3, <1>4, <1>5

LEMMA FlagOthers ==
  ASSUME OInv, NEW n \in Path, Flag(n)
  PROVE  \A q \in Program : stage[q] \in {"open", "insert"} /\ removedFlag'[call[q].path] = "yes"
           => removedFlag[call[q].path] = "yes" \/ q \in late'
<1> SUFFICES ASSUME NEW q \in Program, stage[q] \in {"open", "insert"},
                    removedFlag'[call[q].path] = "yes", removedFlag[call[q].path] # "yes"
             PROVE  q \in late'
  OBVIOUS
<1>1. call[q].path \in Path
  BY DEF OInv, OTypes, Named
<1>2. call[q].path = n
  BY <1>1, FlagType DEF OInv
<1> QED BY <1>2 DEF Flag

LEMMA RemoveEntryKeeps ==
  ASSUME OInv, OTypes', NEW p \in Program, NEW op \in Ops, NEW n \in Path \cup {Free}, NEW s,
         NEW i \in Local \cup {-1}, stage[p] = "user", RemoveEntry(p, op, n, s, i)
  PROVE  OInv'
<1>1. CASE HasEntry(s) /\ Mark(p, op, n, s, i)
  <2> DEFINE c == [NoCall EXCEPT !.op = op, !.path = n, !.slot = s, !.file = table[s], !.local = i]
  <2>1. /\ s \in Slot /\ table[s] \in File
        /\ Flag(EntryName(s)) /\ EntryName(s) \in Path /\ EntryName(s) = table[s][2]
    BY <1>1, FileFacts DEF HasEntry, Mark, EntryName
  <2>2. c \in Calls /\ c.slot = s /\ c.file = table[s]
    <3>1. c \in Calls
      BY <2>1, CallType
    <3> QED BY <2>1, <3>1 DEF NoCall
  <2>3. Steps(p, "clear", c) /\ UNCHANGED <<disk, table>>
    BY <1>1 DEF Mark, Steps
  <2> HIDE DEF c
  <2>4. /\ \A m \in Path : removedFlag[m] = "yes" => removedFlag'[m] = "yes"
        /\ removedFlag'[table[s][2]] = "yes"
        /\ late \subseteq late'
    BY <2>1, FlagType DEF OInv
  <2>5. Flagged' /\ StillThere' /\ LateKnown'
    BY <2>1, <2>2, <2>3, <2>4, FlagOthers, OthersKept
  <2>6. LiveOrRemoved'
    BY <2>3, <2>4, FileFacts DEF OInv, LiveOrRemoved, HasEntry, EntryName
  <2> QED BY <2>5, <2>6 DEF OInv
<1>2. CASE UNCHANGED <<disk, table, removedFlag, stage, call, late>>
  BY <1>2 DEF OInv, Flagged, StillThere, LateKnown, LiveOrRemoved, HasEntry, EntryName
<1> QED BY <1>1, <1>2 DEF RemoveEntry, Undefined

LEMMA NextOInv == OInv /\ [OpenFilesNext]_openFileVars => OInv'
<1> SUFFICES ASSUME OInv, [OpenFilesNext]_openFileVars PROVE OInv'
  OBVIOUS
<1>0. /\ OTypes /\ OTypes' /\ OpenFilesTypeOK /\ Named
      /\ stage \in [Program -> {"none", "user", "open", "insert", "clear", "exec", "end"}]
      /\ call \in [Program -> Calls]
      /\ NoCall \in Calls
  BY NextOTypes, CallType DEF OInv, OTypes, OpenFilesTypeOK, Calls, Ops
<1>1. ASSUME UNCHANGED <<table, removedFlag, stage, call, late>>, disk \subseteq disk'
      PROVE  OInv'
  BY <1>0, <1>1 DEF OInv, Flagged, StillThere, LateKnown, LiveOrRemoved, HasEntry, EntryName
<1>2. ASSUME NEW p \in Program, NEW c \in Calls, NEW l, Steps(p, l, c), l # "clear",
             l = "insert" /\ c.found => FileOf(c.path) \in disk,
             l \in {"open", "insert"} /\ removedFlag[c.path] = "yes" => p \in late',
             UNCHANGED <<disk, table, removedFlag>>, late' \in {late, late \ {p}}
      PROVE  OInv'
  <2>1. Flagged' /\ StillThere' /\ LateKnown'
    BY <1>0, <1>2, OthersKept
  <2>2. LiveOrRemoved'
    BY <1>2 DEF OInv, LiveOrRemoved, HasEntry, EntryName
  <2> QED BY <1>0, <2>1, <2>2 DEF OInv
<1> SUFFICES ASSUME NEW p \in Program,
                    \/ \E n \in Path : StartRunUP(p, n) \/ StartExec(p, n) \/ Create(p, n)
                                       \/ Open(p, n)
                    \/ \E n \in Name : RemoveFile(p, n)
                    \/ \E q \in Program : LoadsProgram(p, q)
                    \/ LoadStopsAll(p) \/ ExecFails(p)
                    \/ OpenFinds(p) \/ OpenRefused(p) \/ OpenInserts(p)
                    \/ \E i \in Slot : Close(p, i)
                    \/ \E i \in Ids : Use(p, i)
                    \/ Clear(p) \/ Exits(p)
             PROVE  OInv'
  <2>1. CASE UNCHANGED openFileVars
    BY <1>1, <2>1 DEF openFileVars
  <2> QED BY <2>1 DEF OpenFilesNext
<1>3. ASSUME NEW n \in Path, NEW op \in {"RunUP", "Exec"}, StartProgram(p, n, op),
             UNCHANGED <<disk, table, local, nameId, removedFlag, kernel, late>>
      PROVE  OInv'
  <2> DEFINE c == [NoCall EXCEPT !.op = op, !.path = n, !.found = removedFlag[n] # "yes"]
  <2>1. c \in Calls
    <3>1. op \in Ops /\ (removedFlag[n] # "yes") \in BOOLEAN
      BY DEF Ops
    <3> QED BY <3>1, CallType
  <2>2. Steps(p, "exec", c)
    BY <1>3 DEF StartProgram, Steps
  <2> HIDE DEF c
  <2> QED BY <1>2, <1>3, <2>1, <2>2
<1>4. ASSUME NEW n \in Path, StartRunUP(p, n) \/ StartExec(p, n) PROVE OInv'
  BY <1>3, <1>4 DEF StartRunUP, StartExec
<1>5. ASSUME NEW n \in Path, Create(p, n) PROVE OInv'
  BY <1>1, <1>5 DEF Create
<1>6. ASSUME NEW n \in Path, Open(p, n) PROVE OInv'
  <2> DEFINE c == [NoCall EXCEPT !.op = "Open", !.path = n]
  <2>1. c \in Calls /\ c.path = n
    <3>1. c \in Calls
      BY CallType DEF Ops
    <3> QED BY <3>1 DEF NoCall
  <2>2. Steps(p, "open", c) /\ UNCHANGED <<disk, table, removedFlag, late>> /\ removedFlag[n] # "yes"
    BY <1>6 DEF Open, Steps
  <2> HIDE DEF c
  <2> QED BY <1>2, <2>1, <2>2
<1>7. ASSUME NEW n \in Name, RemoveFile(p, n) PROVE OInv'
  <2>1. "Remove" \in Ops /\ n \in Path \cup {Free} /\ nameId[p][n] \in Local \cup {-1}
    BY <1>7, FileFacts DEF Ops, RemoveFile
  <2> QED BY <1>0, <1>7, <2>1, RemoveEntryKeeps DEF RemoveFile, InUser
<1>8. ASSUME NEW i \in Slot, Close(p, i) PROVE OInv'
  <2>1. "Close" \in Ops /\ Free \in Path \cup {Free} /\ -1 \in Local \cup {-1}
    BY DEF Ops
  <2> QED BY <1>0, <1>8, <2>1, RemoveEntryKeeps DEF Close, InUser
<1>9. ASSUME NEW q \in Program, LoadsProgram(p, q) PROVE OInv'
  <2>1. /\ stage[p] = "exec"
        /\ stage' = [stage EXCEPT ![p] = "user", ![q] = "user"]
        /\ call' = [call EXCEPT ![p] = NoCall]
        /\ UNCHANGED <<disk, table>> /\ call[p].path \in Path
        /\ \/ Flag(call[p].path)
           \/ UNCHANGED <<removedFlag, late>>
    BY <1>0, <1>9 DEF LoadsProgram, Running, Named
  <2>2. \A m \in Program : \/ stage'[m] = "user"
                           \/ stage'[m] = stage[m] /\ call'[m] = call[m]
    BY <1>0, <2>1
  <2>3. /\ \A n \in Path : removedFlag[n] = "yes" => removedFlag'[n] = "yes"
        /\ late \subseteq late'
        /\ \A m \in Program : stage[m] \in {"open", "insert"} /\ removedFlag'[call[m].path] = "yes"
             => removedFlag[call[m].path] = "yes" \/ m \in late'
    BY <1>0, <2>1, FlagType, FlagOthers
  <2>4. Flagged' /\ StillThere'
    BY <1>0, <2>1, <2>2, <2>3, FileFacts DEF OInv, Flagged, StillThere, Named
  <2>5. LateKnown'
    BY <2>2, <2>3 DEF OInv, LateKnown
  <2>6. LiveOrRemoved'
    BY <2>1, <2>3, FileFacts DEF OInv, LiveOrRemoved, HasEntry, EntryName
  <2> QED BY <1>0, <2>4, <2>5, <2>6 DEF OInv
<1>10. CASE LoadStopsAll(p)
  BY <1>1, <1>10 DEF LoadStopsAll
<1>11. ASSUME Undefined PROVE OInv'
  BY <1>1, <1>11 DEF Undefined
<1>12. CASE ExecFails(p)
  BY <1>11, <1>12 DEF ExecFails
<1>13. ASSUME NEW i \in Ids, Use(p, i) PROVE OInv'
  BY <1>11, <1>13 DEF Use
<1>14. CASE OpenFinds(p)
  <2> DEFINE f == FileOf(call[p].path) \in disk
             c == [call[p] EXCEPT !.found = f]
  <2>1. c \in Calls /\ c.path = call[p].path /\ (c.found <=> FileOf(c.path) \in disk)
    <3>1. call[p] \in Calls /\ f \in BOOLEAN
      BY <1>0
    <3>2. \A d \in Calls, g \in BOOLEAN :
            /\ [d EXCEPT !.found = g] \in Calls /\ [d EXCEPT !.found = g].path = d.path
            /\ [d EXCEPT !.found = g].found = g
      BY DEF Calls
    <3> QED BY <3>1, <3>2
  <2>2. Steps(p, "insert", c) /\ stage[p] = "open" /\ UNCHANGED <<disk, table, removedFlag, late>>
    BY <1>0, <1>14 DEF OpenFinds, Steps
  <2>3. removedFlag[c.path] = "yes" => p \in late
    BY <2>1, <2>2 DEF OInv, LateKnown
  <2> HIDE DEF c
  <2> QED BY <1>2, <2>1, <2>2, <2>3
<1>15. CASE OpenRefused(p)
  <2>1. Steps(p, "user", NoCall) /\ late' = late \ {p} /\ UNCHANGED <<disk, table, removedFlag>>
    BY <1>15 DEF OpenRefused, Steps
  <2> QED BY <1>0, <1>2, <2>1
<1>16. CASE OpenInserts(p)
  <2> DEFINE s == FirstSlot
             n == NameOf[call[p].path]
             f == FileOf(call[p].path)
  <2>1. /\ s \in Slot \cup {-1} /\ n \in Path /\ f \in File /\ f[2] = n
        /\ stage[p] = "insert"
    BY <1>0, <1>16, FirstSlotType, FileFacts DEF OpenInserts, Named
  <2>2. /\ Steps(p, "user", NoCall) /\ UNCHANGED <<disk, kernel>> /\ late' = late \ {p}
        /\ \/ /\ s # -1 /\ call[p].found
              /\ table' = [table EXCEPT ![s] = f]
              /\ removedFlag' = [removedFlag EXCEPT ![n] = IF @ = "none" THEN "no" ELSE @]
           \/ UNCHANGED <<table, removedFlag>>
    BY <1>16 DEF OpenInserts, Steps
  <2>3. call[p].found => f \in disk \/ removedFlag[n] = "yes"
    BY <2>1 DEF OInv, StillThere
  <2> HIDE DEF s, n, f
  <2>4. CASE UNCHANGED <<table, removedFlag>>
    BY <1>0, <1>2, <2>2, <2>4
  <2>5. CASE /\ s # -1 /\ call[p].found
             /\ table' = [table EXCEPT ![s] = f]
             /\ removedFlag' = [removedFlag EXCEPT ![n] = IF @ = "none" THEN "no" ELSE @]
    <3>1. \A m \in Path : removedFlag[m] = "yes" <=> removedFlag'[m] = "yes"
      BY <1>0, <2>1, <2>5 DEF OpenFilesTypeOK
    <3>2. \A q \in Program : stage[q] \in {"open", "insert"} => call[q].path \in Path
      BY <1>0 DEF Named
    <3>3. Flagged' /\ StillThere' /\ LateKnown'
      BY <1>0, <2>2, <3>1, <3>2, OthersKept
    <3>4. \A r \in Slot : table'[r] = table[r] \/ table'[r] = f
      BY <1>0, <2>5 DEF OpenFilesTypeOK
    <3>5. LiveOrRemoved'
      BY <2>1, <2>2, <2>3, <2>5, <3>1, <3>4, FileFacts DEF OInv, LiveOrRemoved, HasEntry, EntryName
    <3> QED BY <1>0, <3>3, <3>5 DEF OInv
  <2> QED BY <2>2, <2>4, <2>5
<1>17. CASE Clear(p)
  <2> DEFINE d == call[p]
  <2>1. /\ stage[p] = "clear" /\ d.slot \in Slot /\ d.file \in File
        /\ removedFlag[d.file[2]] = "yes"
        /\ Steps(p, "user", NoCall) /\ UNCHANGED <<removedFlag, late>>
        /\ disk' = disk \ {d.file} /\ table' = [table EXCEPT ![d.slot] = Free]
    BY <1>0, <1>17 DEF Clear, Steps, Named, OInv, Flagged
  <2> HIDE DEF d
  <2>2. Flagged' /\ StillThere' /\ LateKnown'
    BY <1>0, <2>1, OthersKept
  <2>3. \A r \in Slot : table'[r] = table[r] \/ table'[r] = Free
    BY <1>0, <2>1 DEF OpenFilesTypeOK
  <2>4. LiveOrRemoved'
    BY <2>1, <2>3, FileFacts DEF OInv, LiveOrRemoved, HasEntry, EntryName
  <2> QED BY <1>0, <2>2, <2>4 DEF OInv
<1>18. CASE Exits(p)
  <2>1. Steps(p, "end", call[p]) /\ UNCHANGED <<disk, table, removedFlag, late>>
    BY <1>0, <1>18 DEF Exits, Steps
  <2>2. call[p] \in Calls
    BY <1>0
  <2> QED BY <1>2, <2>1, <2>2
<1> QED BY <1>4, <1>5, <1>6, <1>7, <1>8, <1>9, <1>10, <1>12, <1>13, <1>14, <1>15, <1>16,
           <1>17, <1>18

(* Files are deleted through the table only, whatever Open and Remove of any  *)
(* processes do at the same time: an entry's file is there or is flagged.     *)
THEOREM EntriesLiveOrRemoved == OpenFilesSpec => []LiveOrRemoved
<1>1. OInv => LiveOrRemoved
  BY DEF OInv
<1> QED BY <1>1, InitOInv, NextOInv, PTL DEF OpenFilesSpec

(* A removed name enters the table again by an Open that was asleep in the    *)
(* disk when it was removed, or by an Open of a longer path to a file of that *)
(* name, and in no other way.                                                 *)
THEOREM ReopenedOnlyLateOrByPath == OpenFilesSpec => ReopenedLateOrByPath
<1> DEFINE Fresh == \A s \in Slot :
                      HasEntry(s)' /\ table'[s] # table[s] /\ removedFlag[EntryName(s)'] = "yes"
                        => \E p \in Program :
                             /\ stage[p] = "insert" /\ FileOf(call[p].path) = table'[s]
                             /\ call[p].path \in Name => p \in late
<1>1. OInv /\ [OpenFilesNext]_openFileVars => [Fresh]_openFileVars
  <2> SUFFICES ASSUME OInv, OpenFilesNext, NEW s \in Slot, HasEntry(s)', table'[s] # table[s],
                      removedFlag[EntryName(s)'] = "yes"
               PROVE  \E p \in Program :
                        /\ stage[p] = "insert" /\ FileOf(call[p].path) = table'[s]
                        /\ call[p].path \in Name => p \in late
    OBVIOUS
  <2>1. table \in [Slot -> File \cup {Free, Garbage}] /\ table'[s] # Free
    BY FileFacts DEF OInv, OTypes, OpenFilesTypeOK, HasEntry
  <2>2. PICK p \in Program : OpenInserts(p) \/ Clear(p)
    <3>1. PICK p \in Program :
            \/ \E n \in Path : StartRunUP(p, n) \/ StartExec(p, n) \/ Create(p, n)
                               \/ Open(p, n)
            \/ \E n \in Name : RemoveFile(p, n)
            \/ \E q \in Program : LoadsProgram(p, q)
            \/ LoadStopsAll(p) \/ ExecFails(p)
            \/ OpenFinds(p) \/ OpenRefused(p) \/ OpenInserts(p)
            \/ \E i \in Slot : Close(p, i)
            \/ \E i \in Ids : Use(p, i)
            \/ Clear(p) \/ Exits(p)
      BY DEF OpenFilesNext
    <3>2. \A op, n, r, i : RemoveEntry(p, op, n, r, i) => UNCHANGED table
      BY DEF RemoveEntry, Mark, Undefined
    <3>3. ASSUME NEW n, \/ StartRunUP(p, n) \/ StartExec(p, n) \/ Create(p, n) \/ Open(p, n)
                        \/ RemoveFile(p, n) \/ Close(p, n) \/ Use(p, n)
          PROVE  UNCHANGED table
      BY <3>2, <3>3 DEF StartRunUP, StartExec, Create, Open, RemoveFile, Close, Use, Undefined
    <3>4. ASSUME NEW q \in Program, LoadsProgram(p, q) PROVE UNCHANGED table
      BY <3>4 DEF LoadsProgram, Running
    <3>5. LoadStopsAll(p) \/ ExecFails(p) \/ OpenFinds(p) \/ OpenRefused(p) \/ Exits(p)
            => UNCHANGED table
      BY DEF LoadStopsAll, ExecFails, Undefined, OpenFinds, OpenRefused, Exits
    <3> QED BY <3>1, <3>3, <3>4, <3>5
  <2>3. OpenInserts(p)
    BY <2>1, <2>2 DEF Clear
  <2>4. stage[p] = "insert" /\ table'[s] = FileOf(call[p].path)
    BY <2>1, <2>3 DEF OpenInserts
  <2>5. call[p].path \in Name => p \in late
    <3>1. EntryName(s)' = NameOf[call[p].path]
      BY <2>4 DEF EntryName, FileOf
    <3>2. call[p].path \in Name => removedFlag[call[p].path] = "yes"
      BY <3>1, FileFacts
    <3> QED BY <2>4, <3>2 DEF OInv, LateKnown
  <2> QED BY <2>4, <2>5
<1>2. ReopenedLateOrByPath <=> [][Fresh]_openFileVars
  BY DEF ReopenedLateOrByPath
<1> QED BY <1>1, <1>2, InitOInv, NextOInv, PTL DEF OpenFilesSpec

-----------------------------------------------------------------------------
(* Demand paging.  The types, and that each load is done by one waiting thread *)
(* (Base), are inductive whatever the programs do.  What is said of frames    *)
(* holds until the first unknown call, which gives a page in memory a second  *)
(* frame: until then FramesAccounted (Ledger) and Stages are inductive        *)
(* together, for what a fault does with its victim's frame is right only while *)
(* nobody else can have that victim, and what Contents says of the pages'     *)
(* contents is inductive on top of them.  A process once in an unknown call   *)
(* never leaves it, so a behaviour has KnownCalls up to some state and never  *)
(* again (KnownSteps).                                                        *)

(* No entry is on the list twice. *)
InjectiveList(l) == \A i, j \in DOMAIN l : l[i] = l[j] => i = j

-----------------------------------------------------------------------------
(* Taking the i-th entry out of a list keeps the others in their order. *)
LEMMA RemoveAtFacts ==
  ASSUME NEW S, NEW l \in Seq(S), NEW i \in 1 .. Len(l)
  PROVE  LET m == RemoveAt(l, i) IN
         /\ m \in Seq(S) /\ Len(m) = Len(l) - 1
         /\ \A n \in 1 .. Len(l) - 1 : m[n] = IF n < i THEN l[n] ELSE l[n + 1]
<1> DEFINE a == SubSeq(l, 1, i - 1)
           b == SubSeq(l, i + 1, Len(l))
<1>1. /\ a \in Seq(S) /\ Len(a) = i - 1
      /\ \A n \in 1 .. i - 1 : a[n] = l[n]
  OBVIOUS
<1>2. /\ b \in Seq(S) /\ Len(b) = Len(l) - i
      /\ \A n \in 1 .. Len(l) - i : b[n] = l[n + i]
  OBVIOUS
<1> HIDE DEF a, b
<1>3. a \o b \in Seq(S) /\ Len(a \o b) = Len(l) - 1
  <2>1. a \in Seq(S) /\ b \in Seq(S)
    BY <1>1, <1>2
  <2>2. a \o b \in Seq(S) /\ Len(a \o b) = Len(a) + Len(b)
    BY <2>1
  <2> QED BY <1>1, <1>2, <2>2
<1>4. ASSUME NEW n \in 1 .. Len(l) - 1
      PROVE  (a \o b)[n] = IF n < i THEN l[n] ELSE l[n + 1]
  <2>1. CASE n < i
    BY <1>1, <1>2, <2>1
  <2>2. CASE ~(n < i)
    <3>1. n - (i - 1) \in 1 .. Len(l) - i /\ n > Len(a) /\ n <= Len(a) + Len(b)
      BY <1>1, <1>2, <2>2
    <3>2. (a \o b)[n] = b[n - (i - 1)]
      BY <1>1, <1>2, <3>1
    <3> QED BY <1>2, <2>2, <3>1, <3>2
  <2> QED BY <2>1, <2>2
<1>5. RemoveAt(l, i) = a \o b
  BY DEF RemoveAt, a, b
<1> QED BY <1>3, <1>4, <1>5

(* Without takes an entry out of a list, and nothing else. *)
LEMMA WithoutFacts ==
  ASSUME NEW S, NEW l \in Seq(S), NEW x
  PROVE  /\ Without(l, x) \in Seq(S)
         /\ InjectiveList(l) =>
              /\ InjectiveList(Without(l, x))
              /\ \A k : InList(Without(l, x), k) <=> InList(l, k) /\ k # x
<1>1. CASE ~InList(l, x)
  BY <1>1 DEF Without, InList
<1>2. CASE InList(l, x)
  <2> DEFINE i == CHOOSE i \in DOMAIN l : l[i] = x
             m == RemoveAt(l, i)
  <2>1. i \in 1 .. Len(l) /\ l[i] = x /\ Without(l, x) = m
    BY <1>2 DEF InList, Without
  <2> HIDE DEF i
  <2>2. /\ m \in Seq(S) /\ Len(m) = Len(l) - 1
        /\ \A n \in 1 .. Len(l) - 1 : m[n] = IF n < i THEN l[n] ELSE l[n + 1]
    BY <2>1, RemoveAtFacts
  <2> HIDE DEF m
  <2>3. DOMAIN m = 1 .. Len(l) - 1 /\ DOMAIN l = 1 .. Len(l) /\ Len(l) \in Nat
    BY <2>2
  <2>4. ASSUME InjectiveList(l)
        PROVE  InjectiveList(m)
    <3> SUFFICES ASSUME NEW j \in 1 .. Len(l) - 1, NEW n \in 1 .. Len(l) - 1, m[j] = m[n]
                 PROVE  j = n
      BY <2>3 DEF InjectiveList
    <3>1. \A a, b \in 1 .. Len(l) : l[a] = l[b] => a = b
      BY <2>3, <2>4 DEF InjectiveList
    <3>2. m[j] = l[IF j < i THEN j ELSE j + 1] /\ m[n] = l[IF n < i THEN n ELSE n + 1]
      BY <2>2
    <3> DEFINE a == IF j < i THEN j ELSE j + 1
               b == IF n < i THEN n ELSE n + 1
    <3>3. a \in 1 .. Len(l) /\ b \in 1 .. Len(l)
      BY <2>1, <2>3
    <3>4. a = b
      BY <3>1, <3>2, <3>3
    <3> QED BY <2>1, <2>3, <3>4
  <2>5. ASSUME InjectiveList(l), NEW k, InList(m, k)
        PROVE  InList(l, k) /\ k # x
    BY <2>1, <2>2, <2>3, <2>5 DEF InjectiveList, InList
  <2>6. ASSUME NEW k, InList(l, k), k # x
        PROVE  InList(m, k)
    <3>1. PICK n \in 1 .. Len(l) : l[n] = k
      BY <2>3, <2>6 DEF InList
    <3>2. CASE n < i
      BY <2>1, <2>2, <2>3, <3>1, <3>2 DEF InList
    <3>3. CASE n > i
      <4>1. n - 1 \in 1 .. Len(l) - 1 /\ m[n - 1] = k
        BY <2>1, <2>2, <2>3, <3>1, <3>3
      <4> QED BY <2>3, <4>1 DEF InList
    <3> QED BY <2>1, <2>6, <3>1, <3>2, <3>3
  <2> QED BY <2>1, <2>2, <2>4, <2>5, <2>6
<1> QED BY <1>1, <1>2

(* Appending a new entry adds it. *)
LEMMA AppendFacts ==
  ASSUME NEW S, NEW l \in Seq(S), NEW x \in S
  PROVE  /\ Append(l, x) \in Seq(S)
         /\ \A k : InList(Append(l, x), k) <=> InList(l, k) \/ k = x
         /\ InjectiveList(l) /\ ~InList(l, x) => InjectiveList(Append(l, x))
<1>1. /\ DOMAIN l = 1 .. Len(l) /\ DOMAIN Append(l, x) = 1 .. Len(l) + 1
      /\ Len(l) \in Nat /\ Append(l, x)[Len(l) + 1] = x
      /\ \A n \in 1 .. Len(l) : Append(l, x)[n] = l[n]
  OBVIOUS
<1> QED BY <1>1 DEF InList, InjectiveList

-----------------------------------------------------------------------------
(* Where the loads are, whatever the programs call.  A load is done for one   *)
(* process by one thread, which does nothing else meanwhile.                  *)
Begun(p) == pc[p] \in {"open", "load"}

LoadStages ==
  /\ \A p \in Process : pc[p] \in {"none", "open"} => nextPage[p] = 0
  /\ \A p \in Process : pc[p] = "load" => nextPage[p] < NumPages
  /\ \A p \in Process : Begun(p) => loader[p] = p \/ pc[loader[p]] = "exec"
  /\ \A p, q \in Process : Begun(p) /\ Begun(q) /\ loader[p] = loader[q] => p = q

Base == TypeOK /\ LoadStages

(* The frames, while there was no unknown call: the conjuncts of              *)
(* FramesAccounted, and what they need to be inductive.  The victim of a fault *)
(* holds its frame until it is written out, the page that faulted afterwards; *)
(* a process whose load failed never faults.                                  *)
Ledger ==
  /\ \A i, j \in DOMAIN list : list[i] = list[j] => i = j
  /\ \A j, k \in Key : Holds(j) /\ Holds(k) /\ frame[j] = frame[k] => j = k
  /\ frameMap = {frame[k] : k \in {j \in Key : Holds(j)}}
  /\ \A k \in Key : InList(list, k) => Holds(k) /\ \A p \in Process : k \notin InFlight(p)
  /\ \A k \in Key : Holds(k) => InList(list, k) \/ \E p \in Process : k \in InFlight(p)
  /\ \A p, q \in Process : p # q => InFlight(p) \cap InFlight(q) = {}

Evicts(p, x, k) == pc[p] = "out" /\ x = fault[p].victim /\ k = <<p, fault[p].page>>
Receives(p, k) == pc[p] = "in" /\ k = <<p, fault[p].page>>

Stages ==
  /\ \A p \in Process, x \in Key, k \in Key :
       Evicts(p, x, k) => Holds(x) /\ ~valid[k] /\ fault[p].frame = frame[x]
  /\ \A p \in Process, k \in Key :
       Receives(p, k) => Holds(k) /\ fault[p].frame = frame[k]
  /\ \A k \in Key : k[1] \in astray => valid[k] /\ nextPage[k[1]] = 0
  /\ \A k \in Key : valid[k] => pc[k[1]] \notin {"none", "open", "load"}

Ordered == Ledger /\ Stages

Inv == Base /\ (KnownCalls => Ordered)

(* A key is a process and one of its pages. *)
LEMMA KeyFacts ==
  /\ \A p \in Process, n \in Page : <<p, n>> \in Key /\ <<p, n>>[1] = p /\ <<p, n>>[2] = n
  /\ \A k \in Key : k[1] \in Process /\ k[2] \in Page /\ k = <<k[1], k[2]>>
  /\ 0 \in Page /\ -1 \notin Frame /\ Page \subseteq Nat /\ NumPages \in Nat
BY PagingAssumption DEF Key, Page, Frame

(* The frame that a page i has in the table of AddrSpace's constructor. *)
LEMMA PagesAreFrames == Page \subseteq Frame
BY PagingAssumption DEF Page, Frame

(* The three cases of InFlight. *)
LEMMA InFlightFacts ==
  ASSUME NEW p \in Process
  PROVE  /\ pc[p] = "out" => InFlight(p) = {fault[p].victim}
         /\ pc[p] = "in" => InFlight(p) = {<<p, fault[p].page>>}
         /\ pc[p] \notin {"out", "in"} => InFlight(p) = {}
BY DEF InFlight

(* The same after a step. *)
LEMMA InFlightAfter ==
  ASSUME NEW p \in Process
  PROVE  /\ pc'[p] = "out" => InFlight(p)' = {fault'[p].victim}
         /\ pc'[p] = "in" => InFlight(p)' = {<<p, fault'[p].page>>}
         /\ pc'[p] \notin {"out", "in"} => InFlight(p)' = {}
BY DEF InFlight

(* A fault has a page, and a victim while it writes one out. *)
LEMMA FaultFacts ==
  ASSUME Base, NEW p \in Process
  PROVE  /\ pc[p] = "out" => \E x \in Key, k \in Key : Evicts(p, x, k)
         /\ pc[p] = "in" => \E k \in Key : Receives(p, k)
         /\ \A x, k : Evicts(p, x, k) => k[1] = p /\ k[2] = fault[p].page
         /\ \A k : Receives(p, k) => k[1] = p /\ k[2] = fault[p].page
<1>1. fault[p].page \in Page /\ (pc[p] = "out" => fault[p].victim \in Key)
  BY DEF Base, TypeOK
<1>2. <<p, fault[p].page>> \in Key
  BY <1>1, KeyFacts
<1> QED BY <1>1, <1>2 DEF Evicts, Receives

(* Faults that a step does not mention. *)
LEMMA FaultSame ==
  ASSUME NEW p \in Process, pc'[p] = pc[p], fault'[p] = fault[p]
  PROVE  /\ \A x, k : Evicts(p, x, k)' <=> Evicts(p, x, k)
         /\ \A k : Receives(p, k)' <=> Receives(p, k)
BY DEF Evicts, Receives

-----------------------------------------------------------------------------
(* The types, and the loads.  What leaves the loads alone: *)
LEMMA LoadsLeftAlone ==
  ASSUME Base, UNCHANGED <<loader, nextPage>>,
         \A q \in Process : \/ pc'[q] = pc[q]
                            \/ /\ pc'[q] \notin {"none", "open", "load"}
                               /\ pc[q] \notin {"none", "open", "load", "exec"}
  PROVE  LoadStages'
<1>1. \A q \in Process : /\ Begun(q)' <=> Begun(q)
                         /\ pc'[q] \in {"none", "open", "load"} => pc'[q] = pc[q]
                         /\ pc[q] = "exec" => pc'[q] = "exec"
  BY DEF Begun
<1>2. \A q \in Process : loader[q] \in Process
  BY DEF Base, TypeOK
<1> QED BY <1>1, <1>2 DEF Base, LoadStages

(* A store to the swap file leaves its type alone. *)
LEMMA WriteSwapTypes ==
  ASSUME TypeOK, NEW k \in Key, NEW c \in Content, WriteSwap(k, c)
  PROVE  swap' \in [0 .. SwapPages - 1 -> Content] /\ damaged' \in SUBSET Key
BY DEF TypeOK, WriteSwap, Stored

(* A page takes a place. *)
LEMMA TakeSlotTypes ==
  ASSUME TypeOK, NEW k \in Key, NEW c \in Nat, TakeSlot(k, c)
  PROVE  slot' \in [Key -> Nat \cup {-1}] /\ slotCounter' \in Nat
<1>1. slot \in [Key -> Nat \cup {-1}]
  BY DEF TypeOK
<1> QED BY <1>1 DEF TakeSlot

(* A program of the command line. *)
LEMMA RunUPBase ==
  ASSUME Base, NEW p \in Process, RunUP(p)
  PROVE  Base'
<1>1. /\ pc[p] = "none" /\ pc' = [pc EXCEPT ![p] = "open"]
      /\ loader' = [loader EXCEPT ![p] = p]
      /\ UNCHANGED <<nextPage, slot, slotCounter, randomFlag, frame, valid, frameMap, list,
                     fault, callPage, astray, memory, swap, machine, version, damaged, recency>>
  BY DEF RunUP, At
<1>2. TypeOK'
  BY <1>1 DEF Base, TypeOK
<1>3. /\ \A q \in Process : pc'[q] = IF q = p THEN "open" ELSE pc[q]
      /\ \A q \in Process : loader'[q] = IF q = p THEN p ELSE loader[q]
      /\ \A q \in Process : loader[q] \in Process
  BY <1>1 DEF Base, TypeOK
<1>4. LoadStages'
  <2>1. ASSUME NEW q \in Process, Begun(q)', q # p
        PROVE  Begun(q) /\ loader'[q] = loader[q] /\ loader[q] # p
    <3>1. Begun(q) /\ loader'[q] = loader[q]
      BY <1>3, <2>1 DEF Begun
    <3>2. loader[q] = q \/ pc[loader[q]] = "exec"
      BY <3>1 DEF Base, LoadStages
    <3> QED BY <1>1, <2>1, <3>1, <3>2
  <2>2. loader'[p] = p
    BY <1>3
  <2>3. ASSUME NEW q \in Process, NEW r \in Process, Begun(q)', Begun(r)', loader'[q] = loader'[r]
        PROVE  q = r
    BY <2>1, <2>2, <2>3 DEF Base, LoadStages
  <2>4. ASSUME NEW q \in Process, Begun(q)'
        PROVE  loader'[q] = q \/ pc'[loader'[q]] = "exec"
    <3>1. CASE q = p
      BY <2>2, <3>1
    <3>2. CASE q # p
      <4>1. loader[q] = q \/ pc[loader[q]] = "exec"
        BY <2>1, <2>4, <3>2 DEF Base, LoadStages
      <4> QED BY <1>3, <2>1, <2>4, <3>2, <4>1
    <3> QED BY <3>1, <3>2
  <2>5. \A q \in Process : /\ pc'[q] = "none" => pc[q] = "none"
                           /\ pc'[q] = "open" => pc[q] \in {"none", "open"}
                           /\ pc'[q] = "load" => pc[q] = "load"
    BY <1>1, <1>3
  <2>6. nextPage' = nextPage
    BY <1>1
  <2> QED BY <2>3, <2>4, <2>5, <2>6 DEF Base, LoadStages
<1> QED BY <1>2, <1>4 DEF Base

(* Exec: the parent waits in "exec" while its thread loads the child.         *)
LEMMA ExecBase ==
  ASSUME Base, NEW p \in Process, NEW q \in Process, Exec(q, p)
  PROVE  Base'
<1>1. /\ pc[q] = "user" /\ pc[p] = "none"
      /\ pc' = [pc EXCEPT ![q] = "exec", ![p] = "open"]
      /\ loader' = [loader EXCEPT ![p] = q] /\ slotCounter' = 0
      /\ UNCHANGED <<nextPage, slot, randomFlag, frame, valid, frameMap, list, fault,
                     callPage, astray, memory, swap, machine, version, damaged, recency>>
  BY DEF Exec, At
<1>2. TypeOK'
  BY <1>1 DEF Base, TypeOK
<1>3. /\ \A r \in Process : pc'[r] = IF r = p THEN "open" ELSE IF r = q THEN "exec" ELSE pc[r]
      /\ \A r \in Process : loader'[r] = IF r = p THEN q ELSE loader[r]
      /\ \A r \in Process : loader[r] \in Process
      /\ p # q
  BY <1>1 DEF Base, TypeOK
<1>4. LoadStages'
  <2>1. \A r \in Process : Begun(r)' => r = p \/ (Begun(r) /\ loader[r] # q /\ loader'[r] = loader[r])
    <3>1. \A r \in Process : Begun(r) => loader[r] = r \/ pc[loader[r]] = "exec"
      BY DEF Base, LoadStages
    <3>2. \A r \in Process : Begun(r) => loader[r] # q
      BY <1>1, <3>1 DEF Begun
    <3> QED BY <1>3, <3>2 DEF Begun
  <2>2. \A r, t \in Process : Begun(r)' /\ Begun(t)' /\ loader'[r] = loader'[t] => r = t
    BY <1>3, <2>1 DEF Base, LoadStages
  <2>3. ASSUME NEW r \in Process, Begun(r)'
        PROVE  loader'[r] = r \/ pc'[loader'[r]] = "exec"
    <3>1. CASE r = p
      BY <1>3, <3>1
    <3>2. CASE r # p
      <4>1. Begun(r) /\ loader'[r] = loader[r] /\ (loader[r] = r \/ pc[loader[r]] = "exec")
        BY <2>1, <2>3, <3>2 DEF Base, LoadStages
      <4> QED BY <1>1, <1>3, <4>1
    <3> QED BY <3>1, <3>2
  <2>4. \A r \in Process : /\ pc'[r] = "none" => pc[r] = "none"
                           /\ pc'[r] = "open" => pc[r] \in {"none", "open"}
                           /\ pc'[r] = "load" => pc[r] = "load"
    <3>1. pc[p] = "none"
      BY <1>1
    <3>2. \A r \in Process : pc'[r] = IF r = p THEN "open" ELSE IF r = q THEN "exec" ELSE pc[r]
      BY <1>3
    <3> QED BY ONLY <3>1, <3>2
  <2>5. nextPage' = nextPage
    BY <1>1
  <2> QED BY <2>2, <2>3, <2>4, <2>5 DEF Base, LoadStages
<1> QED BY <1>2, <1>4 DEF Base

(* The program is open. *)
LEMMA LoadStartsBase ==
  ASSUME Base, NEW p \in Process, LoadStarts(p)
  PROVE  Base'
<1>1. /\ pc[p] = "open" /\ pc' = [pc EXCEPT ![p] = "load"] /\ TakeSlot(<<p, 0>>, slotCounter)
      /\ UNCHANGED <<loader, nextPage, randomFlag, frame, valid, frameMap, list, fault,
                     callPage, astray, memory, swap, machine, version, damaged, recency>>
  BY DEF LoadStarts, At
<1>2. slot' \in [Key -> Nat \cup {-1}] /\ slotCounter' \in Nat
  BY <1>1, KeyFacts, TakeSlotTypes DEF Base, TypeOK
<1>3. TypeOK'
  BY <1>1, <1>2 DEF Base, TypeOK
<1>4. /\ \A q \in Process : pc'[q] = IF q = p THEN "load" ELSE pc[q]
      /\ \A q \in Process : loader[q] \in Process
  BY <1>1 DEF Base, TypeOK
<1>5. LoadStages'
  <2>1. \A q \in Process : Begun(q)' <=> Begun(q)
    BY <1>1, <1>4 DEF Begun
  <2>2. nextPage[p] = 0 /\ 0 < NumPages
    BY <1>1, PagingAssumption DEF Base, LoadStages
  <2>3. \A q \in Process : pc[q] = "exec" => pc'[q] = "exec"
    BY <1>1, <1>4
  <2> QED BY <1>1, <1>4, <2>1, <2>2, <2>3 DEF Base, LoadStages
<1> QED BY <1>3, <1>5 DEF Base

(* After the last page, or when the load failed, both threads go on.          *)
LEMMA LoadEnds ==
  ASSUME Base, NEW p \in Process, Begun(p),
         pc' = [pc EXCEPT ![p] = "user", ![loader[p]] = "user"],
         loader' = [loader EXCEPT ![p] = p],
         \A q \in Process \ {p} : nextPage'[q] = nextPage[q]
  PROVE  /\ pc' \in [Process -> {"none", "open", "load", "exec", "user", "out", "in", "end"}]
         /\ loader' \in [Process -> Process]
         /\ LoadStages'
         /\ \A q \in Process : pc'[q] = pc[q] \/
              (pc'[q] = "user" /\ pc[q] \in {"open", "load", "exec"})
         /\ \A q \in Process : pc'[q] \in {"none", "open", "load"} => pc[q] = pc'[q] /\ q # p
<1>1. PICK b \in Process : b = loader[p]
  BY DEF Base, TypeOK
<1>2. /\ pc \in [Process -> {"none", "open", "load", "exec", "user", "out", "in", "end"}]
      /\ loader \in [Process -> Process]
      /\ pc' = [pc EXCEPT ![p] = "user", ![b] = "user"]
  BY <1>1 DEF Base, TypeOK
<1>3. /\ \A q \in Process : pc'[q] = IF q = p \/ q = b THEN "user" ELSE pc[q]
      /\ \A q \in Process : loader'[q] = IF q = p THEN p ELSE loader[q]
  BY <1>2
<1>4. b = p \/ pc[b] = "exec"
  BY <1>1 DEF Base, LoadStages
<1>5. \A q \in Process : Begun(q)' => Begun(q) /\ q # p /\ q # b /\ loader'[q] = loader[q]
  BY <1>3 DEF Begun
<1>6. ASSUME NEW q \in Process, Begun(q)'
      PROVE  loader'[q] = q \/ pc'[loader'[q]] = "exec"
  <2>1. loader[q] = q \/ pc[loader[q]] = "exec"
    BY <1>5, <1>6 DEF Base, LoadStages
  <2>2. CASE loader[q] = q
    BY <1>5, <1>6, <2>2
  <2>3. CASE pc[loader[q]] = "exec"
    <3>1. loader[q] \in Process /\ loader[q] # p
      BY <1>2, <2>3 DEF Begun
    <3>2. loader[q] # b
      BY <1>1, <1>5, <1>6 DEF Base, LoadStages
    <3> QED BY <1>3, <1>5, <1>6, <2>3, <3>1, <3>2
  <2> QED BY <2>1, <2>2, <2>3
<1>7. \A q, r \in Process : Begun(q)' /\ Begun(r)' /\ loader'[q] = loader'[r] => q = r
  BY <1>5 DEF Base, LoadStages
<1>8. ASSUME NEW q \in Process, pc'[q] \in {"none", "open", "load"}
      PROVE  pc[q] = pc'[q] /\ q # p
  <2>1. pc'[q] # "user"
    BY <1>8
  <2> QED BY <1>3, <2>1
<1>9. LoadStages'
  BY <1>6, <1>7, <1>8 DEF Base, LoadStages
<1>10. \A q \in Process : pc'[q] = pc[q] \/
         (pc'[q] = "user" /\ pc[q] \in {"open", "load", "exec"})
  BY <1>3, <1>4 DEF Begun
<1>11. /\ pc' \in [Process -> {"none", "open", "load", "exec", "user", "out", "in", "end"}]
       /\ loader' \in [Process -> Process]
  BY <1>2
<1> QED BY <1>8, <1>9, <1>10, <1>11

(* The child whose load failed has the table of the constructor.              *)
LEMMA LoadFailsBase ==
  ASSUME Base, NEW p \in Process, LoadFails(p)
  PROVE  Base'
<1>1. /\ pc[p] = "open"
      /\ pc' = [pc EXCEPT ![p] = "user", ![loader[p]] = "user"]
      /\ loader' = [loader EXCEPT ![p] = p] /\ astray' = astray \cup {p}
      /\ slot'  = [k \in Key |-> IF k[1] = p THEN k[2] ELSE slot[k]]
      /\ frame' = [k \in Key |-> IF k[1] = p THEN k[2] ELSE frame[k]]
      /\ valid' = [k \in Key |-> IF k[1] = p THEN TRUE ELSE valid[k]]
      /\ UNCHANGED <<nextPage, slotCounter, randomFlag, frameMap, list, fault, callPage,
                     memory, swap, machine, version, damaged, recency>>
  BY DEF LoadFails, At
<1>2. /\ pc' \in [Process -> {"none", "open", "load", "exec", "user", "out", "in", "end"}]
      /\ loader' \in [Process -> Process] /\ LoadStages'
      /\ \A q \in Process : pc'[q] = pc[q] \/ pc'[q] = "user"
  BY <1>1, LoadEnds DEF Begun
<1>3. \A k \in Key : k[2] \in Nat /\ k[2] \in Frame /\ k[2] # -1
  BY KeyFacts, PagesAreFrames
<1>4. /\ slot' \in [Key -> Nat \cup {-1}]
      /\ frame' \in [Key -> Frame \cup {-1}] /\ valid' \in [Key -> BOOLEAN]
      /\ \A k \in Key : valid'[k] <=> frame'[k] # -1
  <2>1. /\ slot \in [Key -> Nat \cup {-1}] /\ frame \in [Key -> Frame \cup {-1}]
        /\ valid \in [Key -> BOOLEAN] /\ \A k \in Key : valid[k] <=> frame[k] # -1
    BY DEF Base, TypeOK
  <2> QED BY <1>1, <1>3, <2>1
<1>5. TypeOK'
  <2>1. astray' \in SUBSET Process
    BY <1>1 DEF Base, TypeOK
  <2>2. \A q \in Process : pc'[q] \in {"out", "in"} => pc'[q] = pc[q]
    BY <1>2
  <2> QED BY <1>1, <1>2, <1>4, <2>1, <2>2 DEF Base, TypeOK
<1> QED BY <1>2, <1>5 DEF Base

(* A page of a program goes to the swap file.                                 *)
LEMMA LoadPageBase ==
  ASSUME Base, NEW p \in Process, LoadPage(p)
  PROVE  /\ Base'
         /\ \A q \in Process : pc'[q] = pc[q] \/
              (pc'[q] = "user" /\ pc[q] \in {"open", "load", "exec"})
<1> DEFINE n == nextPage[p]
           k == <<p, n>>
           last == ~(n + 1 < NumPages)
<1>1. /\ pc[p] = "load" /\ n \in Page /\ k \in Key
      /\ nextPage' = [nextPage EXCEPT ![p] = n + 1]
      /\ WriteSwap(k, [key |-> k, version |-> 0])
      /\ UNCHANGED <<randomFlag, frame, valid, frameMap, list, fault, callPage, astray,
                     memory, machine, version, recency>>
  BY PagingAssumption DEF LoadPage, At, Base, TypeOK, LoadStages, Page, Key
<1>2. /\ last => /\ pc' = [pc EXCEPT ![p] = "user", ![loader[p]] = "user"]
                 /\ loader' = [loader EXCEPT ![p] = p]
                 /\ UNCHANGED <<slot, slotCounter>>
      /\ ~last => /\ TakeSlot(<<p, n + 1>>, slotCounter)
                  /\ UNCHANGED <<pc, loader>>
  BY DEF LoadPage
<1>3. last \/ n + 1 < NumPages
  OBVIOUS
<1> HIDE DEF last
<1>4. /\ nextPage' \in [Process -> 0 .. NumPages]
      /\ \A q \in Process \ {p} : nextPage'[q] = nextPage[q]
      /\ nextPage'[p] = n + 1
  <2>1. n + 1 \in 0 .. NumPages /\ nextPage \in [Process -> 0 .. NumPages]
    <3>1. nextPage \in [Process -> 0 .. NumPages] /\ NumPages \in Nat
      BY PagingAssumption DEF Base, TypeOK
    <3> QED BY <1>1, <3>1 DEF Page
  <2> QED BY <1>1, <2>1
<1>5. /\ pc' \in [Process -> {"none", "open", "load", "exec", "user", "out", "in", "end"}]
      /\ loader' \in [Process -> Process] /\ LoadStages'
      /\ \A q \in Process : pc'[q] = pc[q] \/
           (pc'[q] = "user" /\ pc[q] \in {"open", "load", "exec"})
  <2>1. CASE last
    BY <1>1, <1>2, <1>4, <2>1, LoadEnds DEF Begun
  <2>2. CASE ~last
    <3>1. LoadStages'
      BY <1>1, <1>2, <1>3, <1>4, <2>2 DEF Base, LoadStages, Begun
    <3> QED BY <1>2, <2>2, <3>1 DEF Base, TypeOK
  <2> QED BY <2>1, <2>2
<1>6. [key |-> k, version |-> 0] \in Content
  BY <1>1, PagingAssumption DEF Content
<1>7. swap' \in [0 .. SwapPages - 1 -> Content] /\ damaged' \in SUBSET Key
  BY <1>1, <1>6, WriteSwapTypes DEF Base
<1>8. slot' \in [Key -> Nat \cup {-1}] /\ slotCounter' \in Nat
  <2>1. CASE last
    BY <1>2, <2>1 DEF Base, TypeOK
  <2>2. CASE ~last
    <3>1. slotCounter \in Nat /\ TakeSlot(<<p, n + 1>>, slotCounter) /\ TypeOK
      BY <1>2, <2>2 DEF Base, TypeOK
    <3>2. <<p, n + 1>> \in Key
      BY <1>1, <1>3, <2>2, PagingAssumption DEF Page, Key
    <3> QED BY <3>1, <3>2, TakeSlotTypes
  <2> QED BY <2>1, <2>2
<1>9. TypeOK'
  <2>1. \A q \in Process : pc'[q] \in {"out", "in"} => pc'[q] = pc[q]
    BY <1>5
  <2> QED BY <1>1, <1>4, <1>5, <1>7, <1>8, <2>1 DEF Base, TypeOK
<1> QED BY <1>5, <1>9 DEF Base

(* What an access to a page in memory leaves alone.                           *)
LEMMA TouchTypes ==
  ASSUME Base, NEW k \in Key, Touch(k)
  PROVE  /\ UNCHANGED <<pc, tables, frame, valid, frameMap, list, fault, callPage, astray,
                        swap, machine>>
         /\ recency' \in Seq(Key) /\ LoadStages'
<1>1. UNCHANGED <<pc, tables, frame, valid, frameMap, list, fault, callPage, astray,
                  swap, machine>>
  BY DEF Touch
<1>2. recency' \in Seq(Key)
  <2>1. recency \in Seq(Key)
    BY DEF Base, TypeOK
  <2>2. Append(Without(recency, k), k) \in Seq(Key)
    BY <2>1, WithoutFacts
  <2> QED BY <2>1, <2>2 DEF Touch
<1>3. LoadStages'
  BY <1>1, LoadsLeftAlone DEF tables
<1> QED BY <1>1, <1>2, <1>3

(* A load moves nothing but recency.                                          *)
LEMMA LoadWordBase ==
  ASSUME Base, NEW k \in Key, LoadWord(k)
  PROVE  Base'
<1>1. UNCHANGED <<memory, version, damaged>> /\ Touch(k)
  BY DEF LoadWord
<1>2. TypeOK'
  BY <1>1, TouchTypes DEF Base, TypeOK, tables
<1> QED BY <1>1, <1>2, TouchTypes DEF Base

(* A store changes the contents of one frame in use.                          *)
LEMMA StoreWordBase ==
  ASSUME Base, NEW k \in Key, StoreWord(k)
  PROVE  Base'
<1>1. /\ Touch(k) /\ version[k] < MaxVersion
      /\ version' = [version EXCEPT ![k] = @ + 1]
      /\ memory' = [memory EXCEPT ![frame[k]] = [key |-> k, version |-> version[k] + 1]]
      /\ damaged' = IF Leaving(k) THEN damaged \cup {k} ELSE damaged
  BY DEF StoreWord
<1>2. version[k] + 1 \in 0 .. MaxVersion
  <2>1. version \in [Key -> 0 .. MaxVersion] /\ MaxVersion \in Nat
    BY PagingAssumption DEF Base, TypeOK
  <2> QED BY <1>1, <2>1
<1>3. [key |-> k, version |-> version[k] + 1] \in Content
  BY <1>2 DEF Content
<1>4. /\ version' \in [Key -> 0 .. MaxVersion] /\ damaged' \in SUBSET Key
      /\ memory' \in [Frame -> Content]
  <2>1. /\ version \in [Key -> 0 .. MaxVersion] /\ damaged \in SUBSET Key
        /\ memory \in [Frame -> Content]
    BY DEF Base, TypeOK
  <2> QED BY <1>1, <1>2, <1>3, <2>1
<1>5. TypeOK'
  BY <1>1, <1>4, TouchTypes DEF Base, TypeOK, tables
<1> QED BY <1>1, <1>5, TouchTypes DEF Base

(* A program whose load failed stores to a frame, or comes to an end.         *)
LEMMA AstrayBase ==
  ASSUME Base, NEW p \in Process,
         AstrayBeyond(p) \/ LoadStops(p) \/ \E f \in Frame : AstrayStore(p, f)
  PROVE  Base'
<1>1. CASE AstrayBeyond(p) \/ LoadStops(p)
  <2>1. /\ machine' \in {"stopped", "undefined"}
        /\ UNCHANGED <<pc, tables, frame, valid, frameMap, list, fault, callPage, astray,
                       memory, swap, version, damaged, recency>>
    BY <1>1 DEF AstrayBeyond, LoadStops
  <2>2. TypeOK'
    BY <2>1 DEF Base, TypeOK, tables
  <2> QED BY <2>1, <2>2, LoadsLeftAlone DEF Base, tables
<1>2. ASSUME NEW f \in Frame, AstrayStore(p, f)
      PROVE  Base'
  <2>1. /\ memory' = [memory EXCEPT ![f] = Junk]
        /\ damaged' = damaged \cup
             {k \in Key : k[1] \notin astray /\ Resident(k) /\ frame[k] = f}
        /\ UNCHANGED <<pc, tables, frame, valid, frameMap, list, fault, callPage, astray,
                       swap, machine, version, recency>>
    BY <1>2 DEF AstrayStore
  <2>2. memory' \in [Frame -> Content] /\ damaged' \in SUBSET Key
    <3>1. memory \in [Frame -> Content] /\ damaged \in SUBSET Key /\ Junk \in Content
      BY DEF Base, TypeOK, Content
    <3> QED BY <2>1, <3>1
  <2>3. TypeOK'
    BY <2>1, <2>2 DEF Base, TypeOK, tables
  <2> QED BY <2>1, <2>3, LoadsLeftAlone DEF Base, tables
<1> QED BY <1>1, <1>2

(* An exit leaves all the tables alone.                                       *)
LEMMA ExitBase ==
  ASSUME Base, NEW p \in Process, Exit(p)
  PROVE  Base'
<1>1. /\ pc[p] = "user" /\ pc' = [pc EXCEPT ![p] = "end"]
      /\ UNCHANGED <<tables, frame, valid, frameMap, list, fault, callPage, astray, memory,
                     swap, machine, version, damaged, recency>>
  BY DEF Exit, At
<1>2. TypeOK'
  BY <1>1 DEF Base, TypeOK, tables
<1>3. \A q \in Process : pc'[q] = IF q = p THEN "end" ELSE pc[q]
  BY <1>1 DEF Base, TypeOK
<1> QED BY <1>1, <1>2, <1>3, LoadsLeftAlone DEF Base, tables

-----------------------------------------------------------------------------
(* A fault that finds a free frame. *)
LEMMA FaultFreeBase ==
  ASSUME Base, NEW k \in Key, FaultFree(k), pc[k[1]] = "user",
         callPage' \in [Process -> Page \cup {-1}]
  PROVE  Base'
<1> DEFINE p == k[1]
           record == [NoFault EXCEPT !.page = k[2], !.frame = frame'[k]]
<1>1. PICK f \in Frame \ frameMap :
        /\ frameMap' = frameMap \cup {f} /\ frame' = [frame EXCEPT ![k] = f]
        /\ fault' = [fault EXCEPT ![p] = [NoFault EXCEPT !.page = k[2], !.frame = f]]
  BY DEF FaultFree
<1>2. /\ p \in Process /\ k[2] \in Page /\ f # -1
      /\ pc' = [pc EXCEPT ![p] = "in"] /\ valid' = [valid EXCEPT ![k] = TRUE]
      /\ UNCHANGED <<tables, list, astray, memory, swap, machine, version, damaged, recency>>
  BY KeyFacts DEF FaultFree
<1>3. /\ frame' \in [Key -> Frame \cup {-1}] /\ valid' \in [Key -> BOOLEAN]
      /\ \A j \in Key : valid'[j] <=> frame'[j] # -1
      /\ frameMap' \in SUBSET Frame
  <2>1. /\ frame \in [Key -> Frame \cup {-1}] /\ valid \in [Key -> BOOLEAN]
        /\ \A j \in Key : valid[j] <=> frame[j] # -1
        /\ frameMap \in SUBSET Frame
    BY DEF Base, TypeOK
  <2> QED BY <1>1, <1>2, <2>1
<1>4. /\ fault' \in [Process -> [page : Page, victim : Key \cup {<<>>},
                                 frame : Frame \cup {-1}, copy : Content]]
      /\ fault'[p].frame # -1
      /\ \A q \in Process \ {p} : fault'[q] = fault[q]
  <2>1. [NoFault EXCEPT !.page = k[2], !.frame = f]
          \in [page : Page, victim : Key \cup {<<>>}, frame : Frame \cup {-1}, copy : Content]
    BY <1>2 DEF NoFault, Content
  <2>2. fault \in [Process -> [page : Page, victim : Key \cup {<<>>},
                               frame : Frame \cup {-1}, copy : Content]]
    BY DEF Base, TypeOK
  <2>3. [NoFault EXCEPT !.page = k[2], !.frame = f].frame = f
    BY DEF NoFault
  <2> QED BY <1>1, <1>2, <2>1, <2>2, <2>3
<1>5. /\ pc' \in [Process -> {"none", "open", "load", "exec", "user", "out", "in", "end"}]
      /\ \A q \in Process : pc'[q] = IF q = p THEN "in" ELSE pc[q]
  BY <1>2 DEF Base, TypeOK
<1>6. TypeOK'
  <2>1. \A q \in Process : pc'[q] = "out" => fault'[q].victim \in Key
    BY <1>4, <1>5 DEF Base, TypeOK
  <2>2. \A q \in Process : pc'[q] \in {"out", "in"} => fault'[q].frame # -1
    BY <1>4, <1>5 DEF Base, TypeOK
  <2> QED BY <1>2, <1>3, <1>4, <1>5, <2>1, <2>2 DEF Base, TypeOK, tables
<1>7. LoadStages'
  BY <1>2, <1>5, LoadsLeftAlone DEF tables
<1> QED BY <1>6, <1>7 DEF Base

(* A victim is on the list. *)
LEMMA VictimFacts ==
  ASSUME Base, list # <<>>, NEW x \in Victims(list)
  PROVE  InList(list, x) /\ x \in Key
<1>1. list \in Seq(Key) /\ Len(list) \in Nat /\ DOMAIN list = 1 .. Len(list) /\ Len(list) # 0
  <2>1. list \in Seq(Key)
    BY DEF Base, TypeOK
  <2> QED BY <2>1
<1>2. \E i \in DOMAIN list : list[i] = x
  <2>1. CASE randomFlag
    BY <2>1 DEF Victims
  <2>2. CASE ~randomFlag
    <3>1. x = Head(list) /\ Head(list) = list[1] /\ 1 \in DOMAIN list
      BY <1>1, <2>2 DEF Victims
    <3> QED BY <3>1
  <2> QED BY <2>1, <2>2
<1> QED BY <1>1, <1>2 DEF InList

(* The two outcomes of a fault that finds no free frame. *)
LEMMA EvictCases ==
  ASSUME Base, NEW k \in Key, FaultEvict(k)
  PROVE  /\ UNCHANGED <<tables, frame, valid, frameMap, astray, memory, swap, version, damaged>>
         /\ \/ \E x \in Key : /\ list # <<>> /\ x \in Victims(list) /\ InList(list, x)
                              /\ valid[x] /\ TakeVictim(k, x)
            \/ /\ \/ list = <<>> /\ machine' = "no victim"
                  \/ /\ \E x \in Key : InList(list, x) /\ ~valid[x]
                     /\ machine' = "undefined"
               /\ UNCHANGED <<list, recency, fault, pc>>
<1>1. \A x \in Victims(list) : list # <<>> => InList(list, x) /\ x \in Key
  BY VictimFacts
<1>2. \/ list # <<>> /\ \E x \in Victims(list) : valid[x] /\ TakeVictim(k, x)
      \/ /\ list # <<>> => \E x \in Victims(list) : ~valid[x]
         /\ machine' = IF list = <<>> THEN "no victim" ELSE "undefined"
         /\ UNCHANGED <<list, recency, fault, pc>>
  BY DEF FaultEvict
<1>3. UNCHANGED <<tables, frame, valid, frameMap, astray, memory, swap, version, damaged>>
  BY DEF FaultEvict
<1> QED BY <1>1, <1>2, <1>3

(* What taking a victim does. *)
LEMMA TakeVictimFacts ==
  ASSUME Base, NEW k \in Key, NEW x \in Key, valid[x], TakeVictim(k, x)
  PROVE  /\ k[1] \in Process
         /\ fault'[k[1]].page = k[2] /\ fault'[k[1]].victim = x
         /\ fault'[k[1]].frame = frame[x] /\ fault'[k[1]].copy = memory[frame[x]]
         /\ frame[x] \in Frame /\ frame[x] # -1
         /\ pc'[k[1]] = "out"
         /\ \A q \in Process \ {k[1]} : pc'[q] = pc[q] /\ fault'[q] = fault[q]
         /\ list' = Without(list, x) /\ UNCHANGED machine
         /\ pc' \in [Process -> {"none", "open", "load", "exec", "user", "out", "in", "end"}]
         /\ fault' \in [Process -> [page : Page, victim : Key \cup {<<>>},
                                    frame : Frame \cup {-1}, copy : Content]]
         /\ list' \in Seq(Key) /\ recency' \in Seq(Key)
<1> DEFINE p == k[1]
           record == [page |-> k[2], victim |-> x, frame |-> frame[x], copy |-> memory[frame[x]]]
<1>1. /\ list' = Without(list, x) /\ recency' = Without(recency, x)
      /\ fault' = [fault EXCEPT ![p] = record]
      /\ pc' = [pc EXCEPT ![p] = "out"] /\ UNCHANGED machine
  BY DEF TakeVictim
<1>2. /\ fault \in [Process -> [page : Page, victim : Key \cup {<<>>},
                                frame : Frame \cup {-1}, copy : Content]]
      /\ pc \in [Process -> {"none", "open", "load", "exec", "user", "out", "in", "end"}]
      /\ list \in Seq(Key) /\ recency \in Seq(Key)
      /\ frame[x] \in Frame /\ frame[x] # -1 /\ memory \in [Frame -> Content]
  BY DEF Base, TypeOK
<1>3. p \in Process /\ k[2] \in Page
  BY KeyFacts
<1>4. /\ record \in [page : Page, victim : Key \cup {<<>>},
                     frame : Frame \cup {-1}, copy : Content]
      /\ record.page = k[2] /\ record.victim = x /\ record.frame = frame[x]
      /\ record.copy = memory[frame[x]]
  BY <1>2, <1>3
<1> HIDE DEF record
<1>5. list' \in Seq(Key) /\ recency' \in Seq(Key)
  BY <1>1, <1>2, WithoutFacts
<1>6. /\ fault'[p] = record /\ pc'[p] = "out"
      /\ \A q \in Process \ {p} : pc'[q] = pc[q] /\ fault'[q] = fault[q]
      /\ pc' \in [Process -> {"none", "open", "load", "exec", "user", "out", "in", "end"}]
      /\ fault' \in [Process -> [page : Page, victim : Key \cup {<<>>},
                                 frame : Frame \cup {-1}, copy : Content]]
  BY <1>1, <1>2, <1>3, <1>4
<1> QED BY <1>1, <1>2, <1>3, <1>4, <1>5, <1>6

(* A fault that finds no free frame. *)
LEMMA FaultEvictBase ==
  ASSUME Base, NEW k \in Key, FaultEvict(k), pc[k[1]] = "user",
         callPage' \in [Process -> Page \cup {-1}]
  PROVE  Base'
<1>1. UNCHANGED <<tables, frame, valid, frameMap, astray, memory, swap, version, damaged>>
  BY EvictCases
<1>2. CASE machine' \in {"no victim", "undefined"} /\ UNCHANGED <<list, recency, fault, pc>>
  <2>1. TypeOK'
    BY <1>1, <1>2 DEF Base, TypeOK, tables
  <2> QED BY <1>1, <1>2, <2>1, LoadsLeftAlone DEF Base, tables
<1>3. ASSUME NEW x \in Key, valid[x], TakeVictim(k, x)
      PROVE  Base'
  <2> DEFINE p == k[1]
  <2>1. /\ p \in Process /\ fault'[p].victim = x /\ fault'[p].frame # -1 /\ pc'[p] = "out"
        /\ \A q \in Process \ {p} : pc'[q] = pc[q] /\ fault'[q] = fault[q]
        /\ pc' \in [Process -> {"none", "open", "load", "exec", "user", "out", "in", "end"}]
        /\ fault' \in [Process -> [page : Page, victim : Key \cup {<<>>},
                                   frame : Frame \cup {-1}, copy : Content]]
        /\ list' \in Seq(Key) /\ recency' \in Seq(Key) /\ UNCHANGED machine
    BY <1>3, TakeVictimFacts
  <2>2. \A q \in Process : pc'[q] = "out" => fault'[q].victim \in Key
    BY <2>1 DEF Base, TypeOK
  <2>3. \A q \in Process : pc'[q] \in {"out", "in"} => fault'[q].frame # -1
    BY <2>1 DEF Base, TypeOK
  <2>4. TypeOK'
    BY <1>1, <2>1, <2>2, <2>3 DEF Base, TypeOK, tables
  <2>5. LoadStages'
    BY <1>1, <2>1, LoadsLeftAlone DEF tables
  <2> QED BY <2>4, <2>5 DEF Base
<1> QED BY <1>2, <1>3, EvictCases

(* The victim's frame changes hands. *)
LEMMA PageOutBase ==
  ASSUME Base, NEW p \in Process, PageOut(p)
  PROVE  Base'
<1>0. PICK x \in Key, k \in Key, f \in Frame :
        x = fault[p].victim /\ k = <<p, fault[p].page>> /\ f = fault[p].frame
  BY KeyFacts DEF Base, TypeOK, PageOut, At
<1>1. /\ pc[p] = "out" /\ WriteSwap(x, fault[p].copy)
      /\ frame' = [frame EXCEPT ![x] = -1, ![k] = f]
      /\ valid' = [valid EXCEPT ![x] = FALSE, ![k] = TRUE]
      /\ pc' = [pc EXCEPT ![p] = "in"]
      /\ UNCHANGED <<tables, frameMap, list, fault, callPage, astray, memory, machine,
                     version, recency>>
  BY <1>0 DEF PageOut, At
<1>2. swap' \in [0 .. SwapPages - 1 -> Content] /\ damaged' \in SUBSET Key
  <2>1. fault[p].copy \in Content
    BY DEF Base, TypeOK
  <2> QED BY <1>1, <2>1, WriteSwapTypes DEF Base
<1>3. /\ frame' \in [Key -> Frame \cup {-1}] /\ valid' \in [Key -> BOOLEAN]
      /\ \A j \in Key : valid'[j] <=> frame'[j] # -1
  <2>1. /\ frame \in [Key -> Frame \cup {-1}] /\ valid \in [Key -> BOOLEAN]
        /\ \A j \in Key : valid[j] <=> frame[j] # -1
        /\ f # -1
    BY KeyFacts DEF Base, TypeOK
  <2> QED BY <1>1, <2>1
<1>4. /\ pc' \in [Process -> {"none", "open", "load", "exec", "user", "out", "in", "end"}]
      /\ \A q \in Process : pc'[q] = IF q = p THEN "in" ELSE pc[q]
  BY <1>1 DEF Base, TypeOK
<1>5. TypeOK'
  <2>1. \A q \in Process : pc'[q] = "out" => fault'[q].victim \in Key
    BY <1>1, <1>4 DEF Base, TypeOK
  <2>2. \A q \in Process : pc'[q] \in {"out", "in"} => fault'[q].frame # -1
    BY <1>1, <1>4 DEF Base, TypeOK
  <2> QED BY <1>1, <1>2, <1>3, <1>4, <2>1, <2>2 DEF Base, TypeOK, tables
<1>6. LoadStages'
  BY <1>1, <1>4, LoadsLeftAlone DEF tables
<1> QED BY <1>5, <1>6 DEF Base

(* The page goes on the list, which loses another one when it is full.        *)
LEMMA PageInBase ==
  ASSUME Base, NEW p \in Process, PageIn(p)
  PROVE  Base'
<1>0. PICK k \in Key : k = <<p, fault[p].page>>
  BY KeyFacts DEF Base, TypeOK
<1>1. /\ pc[p] = "in" /\ pc' = [pc EXCEPT ![p] = "user"]
      /\ memory' = IF Stored(slot[k]) THEN [memory EXCEPT ![fault[p].frame] = swap[slot[k]]]
                                      ELSE memory
      /\ fault' = [fault EXCEPT ![p] = NoFault]
      /\ UNCHANGED <<tables, frame, valid, frameMap, callPage, astray, swap, machine,
                     version, damaged>>
  BY <1>0 DEF PageIn, At
<1>2. PICK x : /\ list' = Insert(list, k, x)
               /\ recency' = Append(Without(Without(recency, k), x), k)
  BY <1>0 DEF PageIn
<1>3. list \in Seq(Key) /\ recency \in Seq(Key)
  BY DEF Base, TypeOK
<1>4. list' \in Seq(Key)
  <2>1. Without(list, x) \in Seq(Key)
    BY <1>3, WithoutFacts
  <2>2. Append(Without(list, x), k) \in Seq(Key)
    BY <2>1
  <2> QED BY <1>2, <1>3, <2>2 DEF Insert
<1>5. recency' \in Seq(Key)
  <2>1. Without(recency, k) \in Seq(Key)
    BY <1>3, WithoutFacts
  <2>2. Without(Without(recency, k), x) \in Seq(Key)
    BY <2>1, WithoutFacts
  <2>3. Append(Without(Without(recency, k), x), k) \in Seq(Key)
    BY <2>2
  <2> QED BY <1>2, <2>3
<1>6. memory' \in [Frame -> Content]
  <2>1. /\ memory \in [Frame -> Content] /\ swap \in [0 .. SwapPages - 1 -> Content]
    BY DEF Base, TypeOK
  <2>2. CASE Stored(slot[k])
    BY <1>1, <2>1, <2>2 DEF Stored
  <2>3. CASE ~Stored(slot[k])
    BY <1>1, <2>1, <2>3
  <2> QED BY <2>2, <2>3
<1>7. /\ fault' \in [Process -> [page : Page, victim : Key \cup {<<>>},
                                 frame : Frame \cup {-1}, copy : Content]]
      /\ \A q \in Process \ {p} : fault'[q] = fault[q]
  <2>1. NoFault \in [page : Page, victim : Key \cup {<<>>}, frame : Frame \cup {-1}, copy : Content]
    BY KeyFacts DEF NoFault, Content
  <2> QED BY <1>1, <2>1 DEF Base, TypeOK
<1>8. /\ pc' \in [Process -> {"none", "open", "load", "exec", "user", "out", "in", "end"}]
      /\ \A q \in Process : pc'[q] = IF q = p THEN "user" ELSE pc[q]
  BY <1>1 DEF Base, TypeOK
<1>9. TypeOK'
  <2>1. \A q \in Process : pc'[q] = "out" => fault'[q].victim \in Key
    BY <1>7, <1>8 DEF Base, TypeOK
  <2>2. \A q \in Process : pc'[q] \in {"out", "in"} => fault'[q].frame # -1
    BY <1>7, <1>8 DEF Base, TypeOK
  <2> QED BY <1>1, <1>4, <1>5, <1>6, <1>7, <1>8, <2>1, <2>2 DEF Base, TypeOK, tables
<1>10. LoadStages'
  BY <1>1, <1>8, LoadsLeftAlone DEF tables
<1> QED BY <1>9, <1>10 DEF Base

(* A fault, of an access or of an unknown call. *)
LEMMA FaultBase ==
  ASSUME Base, (\E k \in Key : AccessFaults(k)) \/ (\E p \in Process : UnknownCall(p))
  PROVE  Base'
<1>1. callPage \in [Process -> Page \cup {-1}]
  BY DEF Base, TypeOK
<1>2. ASSUME NEW k \in Key, AccessFaults(k) PROVE Base'
  <2>1. pc[k[1]] = "user" /\ callPage' \in [Process -> Page \cup {-1}]
    <3>1. Accesses(k) /\ UNCHANGED callPage
      BY <1>2 DEF AccessFaults
    <3>2. pc[k[1]] = "user"
      BY <3>1 DEF Accesses, At
    <3> QED BY <1>1, <3>1, <3>2
  <2>2. FaultFree(k) \/ FaultEvict(k)
    BY <1>2 DEF AccessFaults
  <2> QED BY <2>1, <2>2, FaultFreeBase, FaultEvictBase
<1>3. ASSUME NEW p \in Process, UnknownCall(p) PROVE Base'
  <2>1. PICK page \in Page : /\ Accesses(<<p, page>>)
                             /\ callPage' = [callPage EXCEPT ![p] = page]
    BY <1>3 DEF UnknownCall
  <2>2. pc[p] = "user"
    <3>1. PICK j \in Key : j = <<p, page>> /\ j[1] = p
      BY KeyFacts
    <3>2. Accesses(j)
      BY <2>1, <3>1
    <3> QED BY <3>1, <3>2 DEF Accesses, At
  <2>3. callPage' \in [Process -> Page \cup {-1}]
    BY <1>1, <2>1
  <2>4. PICK k \in Key : k = <<p, 0>> /\ k[1] = p
    BY KeyFacts
  <2>5. FaultFree(k) \/ FaultEvict(k)
    BY <1>3, <2>4 DEF UnknownCall
  <2>6. pc[k[1]] = "user"
    BY <2>2, <2>4
  <2> QED BY <2>3, <2>5, <2>6, FaultFreeBase, FaultEvictBase
<1> QED BY <1>2, <1>3

(* Base is inductive.                                                         *)
LEMMA InitBase == Init => Base
<1> SUFFICES ASSUME Init PROVE Base
  OBVIOUS
<1>1. /\ NoFault \in [page : Page, victim : Key \cup {<<>>}, frame : Frame \cup {-1}, copy : Content]
      /\ Junk \in Content /\ 0 \in 0 .. MaxVersion /\ 0 \in 0 .. NumPages /\ NumPages > 0
  BY KeyFacts, PagingAssumption DEF NoFault, Content
<1>2. TypeOK
  BY <1>1 DEF Init, TypeOK
<1>3. LoadStages
  BY <1>1 DEF Init, LoadStages, Begun
<1> QED BY <1>2, <1>3 DEF Base

LEMMA NextBase == Base /\ [Next]_vars => Base'
<1> SUFFICES ASSUME Base, [Next]_vars PROVE Base'
  OBVIOUS
<1>1. ASSUME NEW p \in Process,
             \/ RunUP(p) \/ LoadStarts(p) \/ LoadStops(p) \/ LoadFails(p) \/ LoadPage(p)
             \/ UnknownCall(p) \/ PageOut(p) \/ PageIn(p) \/ Exit(p) \/ AstrayBeyond(p)
      PROVE  Base'
  BY <1>1, RunUPBase, LoadStartsBase, AstrayBase, LoadFailsBase, LoadPageBase, FaultBase,
     PageOutBase, PageInBase, ExitBase
<1>2. ASSUME NEW p \in Process, NEW q \in Process, Exec(q, p)
      PROVE  Base'
  BY <1>2, ExecBase
<1>3. ASSUME NEW p \in Process, NEW f \in Frame, AstrayStore(p, f)
      PROVE  Base'
  BY <1>3, AstrayBase
<1>4. ASSUME NEW k \in Key, LoadWord(k) \/ StoreWord(k) \/ AccessFaults(k)
      PROVE  Base'
  BY <1>4, LoadWordBase, StoreWordBase, FaultBase
<1>5. CASE UNCHANGED vars
  <2>1. TypeOK'
    BY <1>5 DEF Base, TypeOK, vars, tables
  <2> QED BY <1>5, <2>1, LoadsLeftAlone DEF Base, vars, tables
<1> QED BY <1>1, <1>2, <1>3, <1>4, <1>5 DEF Next

-----------------------------------------------------------------------------
(* The frames.  What the bookkeeping of frames does not mention leaves it     *)
(* alone.                                                                     *)
LEMMA LedgerLeftAlone ==
  ASSUME Ledger, UNCHANGED <<frame, valid, frameMap, list, astray>>,
         \A p \in Process : InFlight(p)' = InFlight(p)
  PROVE  Ledger'
BY DEF Ledger, InList, Holds

(* So do the steps that neither begin nor end a fault. *)
LEMMA StillOrdered ==
  ASSUME Base, Ordered, UNCHANGED <<frame, valid, frameMap, list, fault, astray>>,
         \A q \in Process :
           \/ pc'[q] = pc[q]
           \/ /\ pc[q] \notin {"out", "in"} /\ pc'[q] \notin {"out", "in"}
              /\ pc'[q] \in {"none", "open", "load"} => pc[q] \in {"none", "open", "load"},
         \A q \in Process : pc[q] = "load" \/ nextPage'[q] = nextPage[q]
  PROVE  Ordered'
<1>1. \A q \in Process : InFlight(q)' = InFlight(q)
  BY DEF InFlight
<1>2. Ledger'
  BY <1>1, LedgerLeftAlone DEF Ordered
<1>3. \A q \in Process : /\ \A x, k : Evicts(q, x, k)' => Evicts(q, x, k)
                         /\ \A k : Receives(q, k)' => Receives(q, k)
  BY DEF Evicts, Receives
<1>4. /\ \A q \in Process, x \in Key, k \in Key :
           Evicts(q, x, k)' => Holds(x)' /\ ~valid'[k] /\ fault'[q].frame = frame'[x]
      /\ \A q \in Process, k \in Key :
           Receives(q, k)' => Holds(k)' /\ fault'[q].frame = frame'[k]
  BY <1>3 DEF Ordered, Stages, Holds
<1>5. ASSUME NEW k \in Key, valid'[k]
      PROVE  pc'[k[1]] \notin {"none", "open", "load"} /\ pc[k[1]] # "load"
  <2>1. k[1] \in Process /\ pc[k[1]] \notin {"none", "open", "load"}
    BY <1>5, KeyFacts DEF Ordered, Stages
  <2> QED BY <2>1
<1>6. ASSUME NEW k \in Key, k[1] \in astray'
      PROVE  valid'[k] /\ nextPage'[k[1]] = 0
  <2>1. valid'[k] /\ nextPage[k[1]] = 0 /\ k[1] \in Process
    BY <1>6, KeyFacts DEF Ordered, Stages
  <2> QED BY <1>5, <2>1
<1> QED BY <1>2, <1>4, <1>5, <1>6 DEF Ordered, Stages

(* A program that could not be loaded: its pages held no frame, and hold none. *)
LEMMA LoadFailsOrdered ==
  ASSUME Base, Ordered, NEW p \in Process, LoadFails(p)
  PROVE  Ordered'
<1>1. /\ pc[p] = "open"
      /\ pc' = [pc EXCEPT ![p] = "user", ![loader[p]] = "user"]
      /\ loader' = [loader EXCEPT ![p] = p] /\ astray' = astray \cup {p}
      /\ frame' = [k \in Key |-> IF k[1] = p THEN k[2] ELSE frame[k]]
      /\ valid' = [k \in Key |-> IF k[1] = p THEN TRUE ELSE valid[k]]
      /\ UNCHANGED <<nextPage, frameMap, list, fault>>
  BY DEF LoadFails, At
<1>2. /\ \A q \in Process : pc'[q] = pc[q] \/
           (pc'[q] = "user" /\ pc[q] \in {"open", "load", "exec"})
      /\ \A q \in Process : pc'[q] \in {"none", "open", "load"} => pc[q] = pc'[q] /\ q # p
  BY <1>1, LoadEnds DEF Begun
<1>3. \A k \in Key : k[1] = p => ~valid[k]
  BY <1>1 DEF Ordered, Stages
<1>4. \A k \in Key : k[1] # p => valid'[k] = valid[k] /\ frame'[k] = frame[k]
  BY <1>1
<1>5. \A k \in Key : /\ Holds(k)' <=> Holds(k)
                     /\ Holds(k) => k[1] # p /\ frame'[k] = frame[k]
  BY <1>1, <1>3, <1>4 DEF Holds
<1>6. \A q \in Process : InFlight(q)' = InFlight(q)
  <2>1. UNCHANGED fault
    BY <1>1
  <2> QED BY <1>2, <2>1 DEF InFlight
<1>7. Ledger'
  <2>1. UNCHANGED <<frameMap, list>>
    BY <1>1
  <2>2. {frame'[k] : k \in {j \in Key : Holds(j)'}} = {frame[k] : k \in {j \in Key : Holds(j)}}
    BY <1>5
  <2>3. \A j, k \in Key : Holds(j)' /\ Holds(k)' /\ frame'[j] = frame'[k] => j = k
    BY <1>5 DEF Ordered, Ledger
  <2>4. \A k \in Key : InList(list', k) => Holds(k)' /\ \A q \in Process : k \notin InFlight(q)'
    BY <1>5, <1>6, <2>1 DEF Ordered, Ledger
  <2>5. \A k \in Key : Holds(k)' => InList(list', k) \/ \E q \in Process : k \in InFlight(q)'
    BY <1>5, <1>6, <2>1 DEF Ordered, Ledger
  <2>6. \A q, r \in Process : q # r => InFlight(q)' \cap InFlight(r)' = {}
    BY <1>6 DEF Ordered, Ledger
  <2> QED BY <2>1, <2>2, <2>3, <2>4, <2>5, <2>6 DEF Ordered, Ledger
<1>8. \A q \in Process : /\ \A x, k : Evicts(q, x, k)' => Evicts(q, x, k)
                         /\ \A k : Receives(q, k)' => Receives(q, k)
  <2>1. fault' = fault
    BY <1>1
  <2> QED BY <1>2, <2>1 DEF Evicts, Receives
<1>9. /\ \A q \in Process, x \in Key, k \in Key :
           Evicts(q, x, k)' => Holds(x)' /\ ~valid'[k] /\ fault'[q].frame = frame'[x]
      /\ \A q \in Process, k \in Key :
           Receives(q, k)' => Holds(k)' /\ fault'[q].frame = frame'[k]
  <2>1. ASSUME NEW q \in Process, NEW x \in Key, NEW k \in Key, Evicts(q, x, k)'
        PROVE  Holds(x)' /\ ~valid'[k] /\ fault'[q].frame = frame'[x]
    <3>1. Evicts(q, x, k) /\ fault' = fault /\ pc[q] = "out"
      BY <1>1, <1>8, <2>1 DEF Evicts
    <3>2. k[1] = q /\ q # p
      BY <1>1, <3>1, FaultFacts
    <3> QED BY <1>4, <1>5, <3>1, <3>2 DEF Ordered, Stages
  <2>2. ASSUME NEW q \in Process, NEW k \in Key, Receives(q, k)'
        PROVE  Holds(k)' /\ fault'[q].frame = frame'[k]
    <3>1. Receives(q, k) /\ fault' = fault
      BY <1>1, <1>8, <2>2
    <3> QED BY <1>5, <3>1 DEF Ordered, Stages
  <2> QED BY <2>1, <2>2
<1>10. ASSUME NEW k \in Key, k[1] \in astray'
       PROVE  valid'[k] /\ nextPage'[k[1]] = 0
  <2>1. CASE k[1] = p
    BY <1>1, <2>1 DEF Base, LoadStages
  <2>2. CASE k[1] # p
    BY <1>1, <1>10, <2>2 DEF Ordered, Stages
  <2> QED BY <2>1, <2>2
<1>11. ASSUME NEW k \in Key, valid'[k]
       PROVE  pc'[k[1]] \notin {"none", "open", "load"}
  <2>1. k[1] \in Process
    BY KeyFacts
  <2>2. CASE k[1] = p
    BY <1>2, <2>1, <2>2
  <2>3. CASE k[1] # p
    BY <1>2, <1>4, <1>11, <2>1, <2>3 DEF Ordered, Stages
  <2> QED BY <2>2, <2>3
<1> QED BY <1>7, <1>9, <1>10, <1>11 DEF Ordered, Stages

-----------------------------------------------------------------------------
(* Page faults.  A page in somebody's hands holds a frame. *)
LEMMA InFlightResident ==
  ASSUME Base, Ordered, NEW p \in Process, NEW k \in InFlight(p)
  PROVE  k \in Key /\ Holds(k) /\ valid[k] /\ pc[p] \in {"out", "in"}
<1>1. CASE pc[p] = "out"
  <2>1. PICK x \in Key, j \in Key : Evicts(p, x, j)
    BY <1>1, FaultFacts
  <2>2. k = x
    BY <1>1, <2>1, InFlightFacts DEF Evicts
  <2> QED BY <1>1, <2>1, <2>2 DEF Ordered, Stages, Holds
<1>2. CASE pc[p] = "in"
  <2>1. PICK j \in Key : Receives(p, j)
    BY <1>2, FaultFacts
  <2>2. k = j
    BY <1>2, <2>1, InFlightFacts DEF Receives
  <2> QED BY <1>2, <2>1, <2>2 DEF Ordered, Stages, Holds
<1> QED BY <1>1, <1>2, InFlightFacts

(* A page that is not in memory gets a free frame. *)
LEMMA FaultFreeOrdered ==
  ASSUME Base, Ordered, NEW k \in Key, FaultFree(k), pc[k[1]] = "user", ~valid[k]
  PROVE  Ordered'
<1> DEFINE p == k[1]
<1>1. PICK f \in Frame \ frameMap :
        /\ frameMap' = frameMap \cup {f} /\ frame' = [frame EXCEPT ![k] = f]
        /\ fault' = [fault EXCEPT ![p] = [NoFault EXCEPT !.page = k[2], !.frame = f]]
  BY DEF FaultFree
<1>2. /\ p \in Process /\ k[2] \in Page /\ k = <<p, k[2]>> /\ p \notin astray
      /\ pc' = [pc EXCEPT ![p] = "in"] /\ valid' = [valid EXCEPT ![k] = TRUE]
      /\ UNCHANGED <<tables, list, astray>>
  BY KeyFacts DEF FaultFree, Ordered, Stages
<1>3. /\ fault'[p].page = k[2] /\ fault'[p].frame = f
      /\ \A q \in Process \ {p} : pc'[q] = pc[q] /\ fault'[q] = fault[q]
      /\ pc'[p] = "in"
  BY <1>1, <1>2 DEF Base, TypeOK, NoFault
<1>4. /\ \A j \in Key : valid'[j] <=> valid[j] \/ j = k
      /\ \A j \in Key : frame'[j] = IF j = k THEN f ELSE frame[j]
      /\ f \in Frame /\ f \notin frameMap
  <2>1. valid \in [Key -> BOOLEAN] /\ frame \in [Key -> Frame \cup {-1}]
    BY DEF Base, TypeOK
  <2> QED BY <1>1, <1>2, <2>1
<1>5. \A j \in Key : Holds(j)' <=> Holds(j) \/ j = k
  BY <1>2, <1>4 DEF Holds
<1>6. \A j \in Key : Holds(j) => j # k /\ frame'[j] = frame[j] /\ frame[j] \in frameMap
  BY <1>4 DEF Ordered, Ledger, Holds
<1>7. /\ InFlight(p) = {} /\ InFlight(p)' = {k}
      /\ \A q \in Process \ {p} : InFlight(q)' = InFlight(q)
  <2>1. InFlight(p) = {} /\ InFlight(p)' = {k}
    BY <1>2, <1>3, InFlightFacts, InFlightAfter
  <2> QED BY <1>3, <2>1 DEF InFlight
<1>8. Ledger'
  <2>1. \A i, j \in DOMAIN list' : list'[i] = list'[j] => i = j
    BY <1>2 DEF Ordered, Ledger
  <2>2. \A i, j \in Key : Holds(i)' /\ Holds(j)' /\ frame'[i] = frame'[j] => i = j
    BY <1>4, <1>5, <1>6 DEF Ordered, Ledger
  <2>3. frameMap' = {frame'[i] : i \in {j \in Key : Holds(j)'}}
    BY <1>1, <1>4, <1>5, <1>6 DEF Ordered, Ledger
  <2>4. \A j \in Key : InList(list', j) => Holds(j)' /\ \A q \in Process : j \notin InFlight(q)'
    <3>1. \A j \in Key : InList(list, j) => Holds(j) /\ j # k /\ \A q \in Process : j \notin InFlight(q)
      BY <1>6 DEF Ordered, Ledger
    <3> QED BY <1>2, <1>5, <1>7, <3>1
  <2>5. \A j \in Key : Holds(j)' => InList(list', j) \/ \E q \in Process : j \in InFlight(q)'
    BY <1>2, <1>5, <1>7 DEF Ordered, Ledger
  <2>6. \A q, r \in Process : q # r => InFlight(q)' \cap InFlight(r)' = {}
    <3>1. \A q \in Process : k \notin InFlight(q)
      BY <1>6, InFlightResident
    <3> QED BY <1>2, <1>7, <3>1 DEF Ordered, Ledger
  <2> QED BY <2>1, <2>2, <2>3, <2>4, <2>5, <2>6 DEF Ledger
<1>9. ASSUME NEW q \in Process, NEW x \in Key, NEW j \in Key, Evicts(q, x, j)'
      PROVE  Holds(x)' /\ ~valid'[j] /\ fault'[q].frame = frame'[x]
  <2>1. q # p /\ fault'[q] = fault[q]
    BY <1>3, <1>9 DEF Evicts
  <2>2. Evicts(q, x, j)
    BY <1>3, <1>9, <2>1, FaultSame
  <2>3. Holds(x) /\ ~valid[j] /\ fault[q].frame = frame[x] /\ j # k
    BY <2>1, <2>2, FaultFacts DEF Ordered, Stages
  <2> QED BY <1>4, <1>5, <1>6, <2>1, <2>3
<1>10. ASSUME NEW q \in Process, NEW j \in Key, Receives(q, j)'
       PROVE  Holds(j)' /\ fault'[q].frame = frame'[j]
  <2>1. CASE q = p
    <3>1. j = k
      BY <1>2, <1>3, <1>10, <2>1 DEF Receives
    <3> QED BY <1>3, <1>4, <1>5, <2>1, <3>1
  <2>2. CASE q # p
    <3>1. Receives(q, j) /\ fault'[q] = fault[q]
      BY <1>3, <1>10, <2>2, FaultSame
    <3>2. Holds(j) /\ fault[q].frame = frame[j]
      BY <3>1 DEF Ordered, Stages
    <3> QED BY <1>5, <1>6, <3>1, <3>2
  <2> QED BY <2>1, <2>2
<1>11. \A j \in Key : j[1] \in astray' => valid'[j] /\ nextPage'[j[1]] = 0
  BY <1>2, <1>4 DEF Ordered, Stages, tables
<1>12. ASSUME NEW j \in Key, valid'[j]
       PROVE  pc'[j[1]] \notin {"none", "open", "load"}
  <2>1. j[1] \in Process
    BY KeyFacts
  <2>2. CASE j[1] = p
    BY <1>3, <2>2
  <2>3. CASE j[1] # p
    <3>1. valid[j]
      BY <1>4, <1>12, <2>3
    <3> QED BY <1>3, <2>1, <2>3, <3>1 DEF Ordered, Stages
  <2> QED BY <2>2, <2>3
<1> QED BY <1>8, <1>9, <1>10, <1>11, <1>12 DEF Ordered, Stages

(* With no free frame a victim leaves the list. *)
LEMMA TakeVictimOrdered ==
  ASSUME Base, Ordered, NEW k \in Key, pc[k[1]] = "user", ~valid[k],
         NEW x \in Key, InList(list, x), TakeVictim(k, x),
         UNCHANGED <<tables, frame, valid, frameMap, astray>>
  PROVE  Ordered'
<1> DEFINE p == k[1]
<1>1. Holds(x) /\ valid[x] /\ x # k /\ \A q \in Process : x \notin InFlight(q)
  BY DEF Ordered, Ledger, Holds
<1>2. /\ p \in Process /\ k = <<p, k[2]>>
      /\ fault'[p].page = k[2] /\ fault'[p].victim = x /\ fault'[p].frame = frame[x]
      /\ pc'[p] = "out"
      /\ \A q \in Process \ {p} : pc'[q] = pc[q] /\ fault'[q] = fault[q]
      /\ list' = Without(list, x)
  BY <1>1, TakeVictimFacts, KeyFacts
<1>3. /\ InFlight(p) = {} /\ InFlight(p)' = {x}
      /\ \A q \in Process \ {p} : InFlight(q)' = InFlight(q)
  <2>1. InFlight(p) = {} /\ InFlight(p)' = {x}
    BY <1>2, InFlightFacts, InFlightAfter
  <2> QED BY <1>2, <2>1 DEF InFlight
<1>4. InjectiveList(list') /\ \A j : InList(list', j) <=> InList(list, j) /\ j # x
  <2>1. InjectiveList(list) /\ list \in Seq(Key)
    BY DEF Base, TypeOK, Ordered, Ledger, InjectiveList
  <2> QED BY <1>2, <2>1, WithoutFacts
<1>5. \A j \in Key : Holds(j)' <=> Holds(j)
  BY DEF Holds
<1>6. Ledger'
  <2>1. \A i, j \in DOMAIN list' : list'[i] = list'[j] => i = j
    BY <1>4 DEF InjectiveList
  <2>2. \A i, j \in Key : Holds(i)' /\ Holds(j)' /\ frame'[i] = frame'[j] => i = j
    BY <1>5 DEF Ordered, Ledger
  <2>3. frameMap' = {frame'[i] : i \in {j \in Key : Holds(j)'}}
    BY <1>5 DEF Ordered, Ledger
  <2>4. \A j \in Key : InList(list', j) => Holds(j)' /\ \A q \in Process : j \notin InFlight(q)'
    BY <1>2, <1>3, <1>4, <1>5 DEF Ordered, Ledger
  <2>5. \A j \in Key : Holds(j)' => InList(list', j) \/ \E q \in Process : j \in InFlight(q)'
    BY <1>2, <1>3, <1>4, <1>5 DEF Ordered, Ledger
  <2>6. \A q, r \in Process : q # r => InFlight(q)' \cap InFlight(r)' = {}
    BY <1>1, <1>2, <1>3 DEF Ordered, Ledger
  <2> QED BY <2>1, <2>2, <2>3, <2>4, <2>5, <2>6 DEF Ledger
<1>7. ASSUME NEW q \in Process, NEW y \in Key, NEW j \in Key, Evicts(q, y, j)'
      PROVE  Holds(y)' /\ ~valid'[j] /\ fault'[q].frame = frame'[y]
  <2>1. CASE q = p
    <3>1. y = x /\ j = k
      BY <1>2, <1>7, <2>1 DEF Evicts
    <3> QED BY <1>1, <1>2, <1>5, <2>1, <3>1
  <2>2. CASE q # p
    <3>1. Evicts(q, y, j) /\ fault'[q] = fault[q]
      BY <1>2, <1>7, <2>2, FaultSame
    <3> QED BY <1>5, <3>1 DEF Ordered, Stages
  <2> QED BY <2>1, <2>2
<1>8. ASSUME NEW q \in Process, NEW j \in Key, Receives(q, j)'
      PROVE  Holds(j)' /\ fault'[q].frame = frame'[j]
  <2>1. q # p
    BY <1>2, <1>8 DEF Receives
  <2>2. Receives(q, j) /\ fault'[q] = fault[q]
    BY <1>2, <1>8, <2>1, FaultSame
  <2> QED BY <1>5, <2>2 DEF Ordered, Stages
<1>9. \A j \in Key : j[1] \in astray' => valid'[j] /\ nextPage'[j[1]] = 0
  BY DEF Ordered, Stages, tables
<1>10. ASSUME NEW j \in Key, valid'[j]
       PROVE  pc'[j[1]] \notin {"none", "open", "load"}
  <2>1. j[1] \in Process
    BY KeyFacts
  <2>2. CASE j[1] = p
    BY <1>2, <2>2
  <2>3. CASE j[1] # p
    BY <1>2, <1>10, <2>1, <2>3 DEF Ordered, Stages
  <2> QED BY <2>2, <2>3
<1> QED BY <1>6, <1>7, <1>8, <1>9, <1>10 DEF Ordered, Stages

(* A fault of an access. *)
LEMMA AccessFaultsOrdered ==
  ASSUME Base, Ordered, NEW k \in Key, AccessFaults(k)
  PROVE  Ordered'
<1>1. Accesses(k) /\ ~valid[k] /\ (FaultFree(k) \/ FaultEvict(k))
  BY DEF AccessFaults
<1>2. pc[k[1]] = "user"
  BY <1>1 DEF Accesses, At
<1>3. CASE FaultFree(k)
  BY <1>1, <1>2, <1>3, FaultFreeOrdered
<1>4. CASE FaultEvict(k)
  <2>1. UNCHANGED <<tables, frame, valid, frameMap, astray>>
    BY <1>4, EvictCases
  <2>2. CASE UNCHANGED <<list, recency, fault, pc>>
    BY <2>1, <2>2, StillOrdered DEF tables
  <2>3. ASSUME NEW x \in Key, InList(list, x), TakeVictim(k, x)
        PROVE  Ordered'
    BY <1>1, <1>2, <2>1, <2>3, TakeVictimOrdered
  <2> QED BY <1>4, <2>2, <2>3, EvictCases
<1> QED BY <1>1, <1>3, <1>4

(* The victim's frame changes hands. *)
LEMMA PageOutOrdered ==
  ASSUME Base, Ordered, NEW p \in Process, PageOut(p)
  PROVE  Ordered'
<1>0. PICK x \in Key, k \in Key : Evicts(p, x, k)
  BY FaultFacts DEF PageOut, At
<1>1. /\ pc[p] = "out"
      /\ frame' = [frame EXCEPT ![x] = -1, ![k] = fault[p].frame]
      /\ valid' = [valid EXCEPT ![x] = FALSE, ![k] = TRUE]
      /\ pc' = [pc EXCEPT ![p] = "in"]
      /\ UNCHANGED <<tables, frameMap, list, fault, astray>>
  BY <1>0 DEF PageOut, At, Evicts
<1>2. /\ Holds(x) /\ valid[x] /\ ~valid[k] /\ x # k /\ fault[p].frame = frame[x]
      /\ k[1] = p /\ p \notin astray
  BY <1>0, FaultFacts DEF Ordered, Stages, Holds
<1>3. /\ \A j \in Key : valid'[j] <=> (valid[j] /\ j # x) \/ j = k
      /\ \A j \in Key : frame'[j] = IF j = k THEN frame[x] ELSE IF j = x THEN -1 ELSE frame[j]
      /\ pc'[p] = "in" /\ \A q \in Process \ {p} : pc'[q] = pc[q]
  BY <1>1, <1>2 DEF Base, TypeOK
<1>4. \A j \in Key : Holds(j)' <=> (Holds(j) /\ j # x) \/ j = k
  BY <1>1, <1>2, <1>3 DEF Holds
<1>5. /\ InFlight(p) = {x} /\ InFlight(p)' = {k}
      /\ \A q \in Process \ {p} : InFlight(q)' = InFlight(q)
  <2>1. InFlight(p) = {x} /\ InFlight(p)' = {k}
    BY <1>0, <1>1, <1>3, InFlightFacts, InFlightAfter DEF Evicts
  <2> QED BY <1>1, <1>3, <2>1 DEF InFlight
<1>6. \A q \in Process \ {p} : x \notin InFlight(q) /\ k \notin InFlight(q)
  <2>1. \A q \in Process : k \notin InFlight(q)
    BY <1>2, InFlightResident
  <2> QED BY <1>5, <2>1 DEF Ordered, Ledger
<1>7. Ledger'
  <2>1. \A i, j \in DOMAIN list' : list'[i] = list'[j] => i = j
    BY <1>1 DEF Ordered, Ledger
  <2>2. \A i, j \in Key : Holds(i)' /\ Holds(j)' /\ frame'[i] = frame'[j] => i = j
    BY <1>2, <1>3, <1>4 DEF Ordered, Ledger
  <2>3. frameMap' = {frame'[i] : i \in {j \in Key : Holds(j)'}}
    <3>1. frameMap = {frame[i] : i \in {j \in Key : Holds(j)}}
      BY DEF Ordered, Ledger
    <3>2. ASSUME NEW j \in Key, Holds(j)
          PROVE  \E i \in Key : Holds(i)' /\ frame'[i] = frame[j]
      <4>1. CASE j = x
        BY <1>2, <1>3, <1>4, <4>1
      <4>2. CASE j # x
        <5>1. j # k
          BY <1>2, <3>2 DEF Holds
        <5> QED BY <1>3, <1>4, <3>2, <4>2, <5>1
      <4> QED BY <4>1, <4>2
    <3>3. ASSUME NEW j \in Key, Holds(j)'
          PROVE  \E i \in Key : Holds(i) /\ frame[i] = frame'[j]
      BY <1>2, <1>3, <1>4, <3>3
    <3>4. frameMap' = frameMap
      BY <1>1
    <3>5. \A f : f \in frameMap <=> \E i \in Key : Holds(i) /\ frame[i] = f
      BY <3>1
    <3>6. \A f : f \in frameMap <=> \E i \in Key : Holds(i)' /\ frame'[i] = f
      BY <3>2, <3>3, <3>5
    <3> QED BY <3>4, <3>6
  <2>4. \A j \in Key : InList(list', j) => Holds(j)' /\ \A q \in Process : j \notin InFlight(q)'
    <3>1. \A j \in Key : InList(list, j) => Holds(j) /\ \A q \in Process : j \notin InFlight(q)
      BY DEF Ordered, Ledger
    <3> SUFFICES ASSUME NEW j \in Key, InList(list, j)
                 PROVE  Holds(j)' /\ \A q \in Process : j \notin InFlight(q)'
      BY <1>1
    <3>2. Holds(j) /\ j # x
      BY <1>5, <3>1
    <3>3. j # k
      BY <1>2, <3>2 DEF Holds
    <3> QED BY <1>4, <1>5, <3>1, <3>2, <3>3
  <2>5. \A j \in Key : Holds(j)' => InList(list', j) \/ \E q \in Process : j \in InFlight(q)'
    <3>1. \A j \in Key : Holds(j) => InList(list, j) \/ \E q \in Process : j \in InFlight(q)
      BY DEF Ordered, Ledger
    <3> QED BY <1>1, <1>4, <1>5, <3>1
  <2>6. \A q, r \in Process : q # r => InFlight(q)' \cap InFlight(r)' = {}
    BY <1>5, <1>6 DEF Ordered, Ledger
  <2> QED BY <2>1, <2>2, <2>3, <2>4, <2>5, <2>6 DEF Ledger
<1>8. ASSUME NEW q \in Process, NEW y \in Key, NEW j \in Key, Evicts(q, y, j)'
      PROVE  Holds(y)' /\ ~valid'[j] /\ fault'[q].frame = frame'[y]
  <2>1. q # p
    BY <1>3, <1>8 DEF Evicts
  <2>2. Evicts(q, y, j) /\ fault'[q] = fault[q]
    BY <1>1, <1>3, <1>8, <2>1, FaultSame
  <2>3. Holds(y) /\ valid[y] /\ ~valid[j] /\ fault[q].frame = frame[y] /\ j # k
    BY <1>2, <2>1, <2>2, FaultFacts DEF Ordered, Stages, Holds
  <2>4. y # x
    BY <1>6, <2>1, <2>2, InFlightFacts DEF Evicts
  <2>5. y # k
    BY <1>2, <2>3
  <2> QED BY <1>3, <1>4, <2>2, <2>3, <2>4, <2>5
<1>9. ASSUME NEW q \in Process, NEW j \in Key, Receives(q, j)'
      PROVE  Holds(j)' /\ fault'[q].frame = frame'[j]
  <2>1. CASE q = p
    <3>1. j = k /\ fault'[p].frame = frame[x]
      BY <1>0, <1>1, <1>2, <1>9, <2>1 DEF Receives, Evicts
    <3> QED BY <1>3, <1>4, <2>1, <3>1
  <2>2. CASE q # p
    <3>1. Receives(q, j) /\ fault'[q] = fault[q]
      BY <1>1, <1>3, <1>9, <2>2, FaultSame
    <3>2. Holds(j) /\ valid[j] /\ fault[q].frame = frame[j]
      BY <3>1 DEF Ordered, Stages, Holds
    <3>3. j # x /\ j # k
      BY <1>2, <1>6, <2>2, <3>1, <3>2, InFlightFacts DEF Receives
    <3> QED BY <1>3, <1>4, <3>1, <3>2, <3>3
  <2> QED BY <2>1, <2>2
<1>10. ASSUME NEW j \in Key, j[1] \in astray'
       PROVE  valid'[j] /\ nextPage'[j[1]] = 0
  <2>1. j # x
    BY <1>1, <1>2, <1>10 DEF Holds
  <2> QED BY <1>1, <1>3, <1>10, <2>1 DEF Ordered, Stages, tables
<1>11. ASSUME NEW j \in Key, valid'[j]
       PROVE  pc'[j[1]] \notin {"none", "open", "load"}
  <2>1. j[1] \in Process
    BY KeyFacts
  <2>2. CASE j[1] = p
    BY <1>3, <2>2
  <2>3. CASE j[1] # p
    BY <1>2, <1>3, <1>11, <2>1, <2>3 DEF Ordered, Stages
  <2> QED BY <2>2, <2>3
<1> QED BY <1>7, <1>8, <1>9, <1>10, <1>11 DEF Ordered, Stages

(* The list has room: the page that was read has a frame of its own. *)
LEMMA ListNotFull ==
  ASSUME Base, Ordered, NEW k \in Key, Holds(k), ~InList(list, k)
  PROVE  Len(list) # NumPhysPages
<1>1. /\ list \in Seq(Key) /\ DOMAIN list = 1 .. Len(list) /\ Len(list) \in Nat
      /\ NumPhysPages \in Nat /\ NumPhysPages > 0 /\ frame[k] \in Frame
  <2>1. list \in Seq(Key) /\ frame[k] \in Frame
    BY DEF Base, TypeOK, Holds
  <2> QED BY <2>1, PagingAssumption
<1>2. ASSUME NEW i \in 1 .. Len(list)
      PROVE  list[i] \in Key /\ Holds(list[i]) /\ frame[list[i]] \in Frame \ {frame[k]}
  <2>1. list[i] \in Key /\ InList(list, list[i]) /\ list[i] # k
    BY <1>1 DEF InList
  <2>2. Holds(list[i])
    BY <2>1 DEF Ordered, Ledger
  <2>3. frame[list[i]] \in Frame
    BY <2>1, <2>2 DEF Base, TypeOK, Holds
  <2>4. frame[list[i]] # frame[k]
    BY <2>1, <2>2 DEF Ordered, Ledger
  <2> QED BY <2>1, <2>2, <2>3, <2>4
<1> DEFINE S == 1 .. Len(list)
           T == Frame \ {frame[k]}
           g == [i \in S |-> frame[list[i]]]
<1>3. IsFiniteSet(S) /\ Cardinality(S) = Len(list)
  BY <1>1, FS_Interval
<1>4. IsFiniteSet(T) /\ Cardinality(T) = NumPhysPages - 1
  <2>1. IsFiniteSet(Frame) /\ Cardinality(Frame) = NumPhysPages
    BY <1>1, FS_Interval DEF Frame
  <2> QED BY <1>1, <2>1, FS_RemoveElement
<1>5. g \in [S -> T]
  BY <1>2
<1>6. \A i, j \in S : g[i] = g[j] => i = j
  BY <1>1, <1>2 DEF Ordered, Ledger
<1> HIDE DEF S, T, g
<1>7. ~(Cardinality(T) < Cardinality(S))
  BY <1>3, <1>4, <1>5, <1>6, FS_PigeonHole
<1>8. ~(NumPhysPages - 1 < Len(list))
  BY <1>3, <1>4, <1>7
<1>9. NumPhysPages \in Nat /\ Len(list) \in Nat
  BY <1>1
<1> QED BY <1>8, <1>9

(* The page that was read goes to the tail of the list. *)
LEMMA InsertFacts ==
  ASSUME Base, Ordered, NEW p \in Process, NEW k \in Key, Receives(p, k)
  PROVE  /\ Holds(k) /\ fault[p].frame = frame[k] /\ frame[k] \in Frame
         /\ ~InList(list, k) /\ Leavers(list, k) = {k} /\ InFlight(p) = {k}
         /\ Insert(list, k, k) = Append(list, k)
<1>1. Holds(k) /\ fault[p].frame = frame[k] /\ InFlight(p) = {k}
  BY InFlightFacts DEF Ordered, Stages, Receives
<1>2. frame[k] \in Frame
  BY <1>1 DEF Base, TypeOK, Holds
<1>3. ~InList(list, k)
  BY <1>1 DEF Ordered, Ledger
<1>4. Leavers(list, k) = {k}
  BY <1>1, <1>3, ListNotFull DEF Leavers
<1>5. Insert(list, k, k) = Append(list, k)
  BY <1>3 DEF Insert, Without
<1> QED BY <1>1, <1>2, <1>3, <1>4, <1>5

(* The page that was read goes on the list. *)
LEMMA PageInOrdered ==
  ASSUME Base, Ordered, NEW p \in Process, PageIn(p)
  PROVE  Ordered'
<1>0. PICK k \in Key : Receives(p, k)
  BY FaultFacts DEF PageIn, At
<1>1. /\ pc[p] = "in" /\ pc' = [pc EXCEPT ![p] = "user"]
      /\ fault' = [fault EXCEPT ![p] = NoFault]
      /\ UNCHANGED <<tables, frame, valid, frameMap, astray>>
  BY DEF PageIn, At
<1>2. list' = Append(list, k)
  <2>1. k = <<p, fault[p].page>>
    BY <1>0 DEF Receives
  <2>2. \E x \in Leavers(list, k) : list' = Insert(list, k, x)
    BY <2>1 DEF PageIn
  <2> QED BY <1>0, <2>2, InsertFacts
<1>3. Holds(k) /\ ~InList(list, k) /\ InFlight(p) = {k}
  BY <1>0, InsertFacts
<1>4. pc'[p] = "user" /\ \A q \in Process \ {p} : pc'[q] = pc[q] /\ fault'[q] = fault[q]
  BY <1>1 DEF Base, TypeOK
<1>5. InFlight(p)' = {} /\ \A q \in Process \ {p} : InFlight(q)' = InFlight(q)
  <2>1. InFlight(p)' = {}
    BY <1>4, InFlightAfter
  <2> QED BY <1>4, <2>1 DEF InFlight
<1>6. InjectiveList(list') /\ \A j : InList(list', j) <=> InList(list, j) \/ j = k
  <2>1. InjectiveList(list) /\ list \in Seq(Key)
    BY DEF Base, TypeOK, Ordered, Ledger, InjectiveList
  <2> QED BY <1>2, <1>3, <2>1, AppendFacts
<1>7. \A j \in Key : Holds(j)' <=> Holds(j)
  BY <1>1 DEF Holds
<1>8. Ledger'
  <2>1. \A i, j \in DOMAIN list' : list'[i] = list'[j] => i = j
    BY <1>6 DEF InjectiveList
  <2>2. /\ \A i, j \in Key : Holds(i)' /\ Holds(j)' /\ frame'[i] = frame'[j] => i = j
        /\ frameMap' = {frame'[i] : i \in {j \in Key : Holds(j)'}}
    BY <1>1, <1>7 DEF Ordered, Ledger
  <2>3. \A q \in Process \ {p} : k \notin InFlight(q)
    BY <1>3 DEF Ordered, Ledger
  <2>4. \A j \in Key : InList(list', j) => Holds(j)' /\ \A q \in Process : j \notin InFlight(q)'
    BY <1>3, <1>5, <1>6, <1>7, <2>3 DEF Ordered, Ledger
  <2>5. \A j \in Key : Holds(j)' => InList(list', j) \/ \E q \in Process : j \in InFlight(q)'
    BY <1>3, <1>5, <1>6, <1>7 DEF Ordered, Ledger
  <2>6. \A q, r \in Process : q # r => InFlight(q)' \cap InFlight(r)' = {}
    BY <1>5 DEF Ordered, Ledger
  <2> QED BY <2>1, <2>2, <2>4, <2>5, <2>6 DEF Ledger
<1>9. ASSUME NEW q \in Process, NEW y \in Key, NEW j \in Key, Evicts(q, y, j)'
      PROVE  Holds(y)' /\ ~valid'[j] /\ fault'[q].frame = frame'[y]
  <2>1. q # p
    BY <1>4, <1>9 DEF Evicts
  <2>2. Evicts(q, y, j) /\ fault'[q] = fault[q]
    BY <1>4, <1>9, <2>1, FaultSame
  <2> QED BY <1>1, <1>7, <2>2 DEF Ordered, Stages
<1>10. ASSUME NEW q \in Process, NEW j \in Key, Receives(q, j)'
       PROVE  Holds(j)' /\ fault'[q].frame = frame'[j]
  <2>1. q # p
    BY <1>4, <1>10 DEF Receives
  <2>2. Receives(q, j) /\ fault'[q] = fault[q]
    BY <1>4, <1>10, <2>1, FaultSame
  <2> QED BY <1>1, <1>7, <2>2 DEF Ordered, Stages
<1>11. \A j \in Key : j[1] \in astray' => valid'[j] /\ nextPage'[j[1]] = 0
  BY <1>1 DEF Ordered, Stages, tables
<1>12. ASSUME NEW j \in Key, valid'[j]
       PROVE  pc'[j[1]] \notin {"none", "open", "load"}
  <2>1. j[1] \in Process
    BY KeyFacts
  <2>2. CASE j[1] = p
    BY <1>4, <2>2
  <2>3. CASE j[1] # p
    BY <1>1, <1>4, <1>12, <2>1, <2>3 DEF Ordered, Stages
  <2> QED BY <2>2, <2>3
<1> QED BY <1>8, <1>9, <1>10, <1>11, <1>12 DEF Ordered, Stages

-----------------------------------------------------------------------------
(* Before the first program no frame is in use and no list entry exists.      *)
LEMMA InitInv == Init => Inv
<1> SUFFICES ASSUME Init PROVE Inv
  OBVIOUS
<1>1. \A p \in Process : InFlight(p) = {}
  BY DEF Init, InFlight
<1>2. \A k \in Key : ~valid[k] /\ ~Holds(k) /\ ~InList(list, k)
  BY DEF Init, Holds, InList
<1>3. Ledger
  BY <1>1, <1>2 DEF Init, Ledger
<1>4. Stages
  BY <1>2 DEF Init, Stages, Evicts, Receives
<1> QED BY <1>3, <1>4, InitBase DEF Inv, Ordered

(* The steps of a behaviour without unknown calls. *)
KnownStep ==
  \/ \E p \in Process :
       \/ RunUP(p) \/ LoadStarts(p) \/ LoadStops(p) \/ LoadFails(p) \/ LoadPage(p)
       \/ PageOut(p) \/ PageIn(p) \/ Exit(p) \/ AstrayBeyond(p)
       \/ \E q \in Process : Exec(q, p)
       \/ \E f \in Frame : AstrayStore(p, f)
  \/ \E k \in Key : LoadWord(k) \/ StoreWord(k) \/ AccessFaults(k)
  \/ UNCHANGED vars

(* A program that makes an unknown call makes it for ever. *)
LEMMA KnownSteps ==
  ASSUME Base, [Next]_vars, KnownCalls'
  PROVE  KnownCalls /\ KnownStep
<1>1. ASSUME NEW p \in Process, UnknownCall(p)
      PROVE  FALSE
  <2>1. PICK n \in Page : callPage' = [callPage EXCEPT ![p] = n]
    BY <1>1 DEF UnknownCall
  <2>2. callPage'[p] = n
    <3>1. callPage \in [Process -> Page \cup {-1}]
      BY DEF Base, TypeOK
    <3> QED BY <2>1, <3>1
  <2>3. n # -1
    BY DEF Page
  <2> QED BY <2>2, <2>3 DEF KnownCalls
<1>2. KnownStep
  BY <1>1 DEF Next, KnownStep
<1>3. UNCHANGED callPage
  BY <1>2 DEF KnownStep, RunUP, LoadStarts, LoadStops, LoadFails, LoadPage, PageOut, PageIn,
     Exit, AstrayBeyond, Exec, AstrayStore, LoadWord, StoreWord, Touch, AccessFaults, vars
<1> QED BY <1>2, <1>3 DEF KnownCalls

(* The steps that neither begin nor end a fault, nor touch a table.           *)
LEMMA QuietSteps ==
  ASSUME Base, Ordered,
         \/ \E p \in Process :
              \/ RunUP(p) \/ LoadStarts(p) \/ LoadStops(p) \/ LoadPage(p)
              \/ Exit(p) \/ AstrayBeyond(p)
              \/ \E q \in Process : Exec(q, p)
              \/ \E f \in Frame : AstrayStore(p, f)
         \/ \E k \in Key : LoadWord(k) \/ StoreWord(k)
         \/ UNCHANGED vars
  PROVE  Ordered'
<1>1. ASSUME NEW p \in Process, RunUP(p) PROVE Ordered'
  <2>1. /\ pc[p] = "none" /\ pc' = [pc EXCEPT ![p] = "open"]
        /\ UNCHANGED <<frame, valid, frameMap, list, fault, astray, nextPage>>
    BY <1>1 DEF RunUP, At
  <2>2. \A q \in Process : pc'[q] = IF q = p THEN "open" ELSE pc[q]
    BY <2>1 DEF Base, TypeOK
  <2> QED BY <2>1, <2>2, StillOrdered
<1>2. ASSUME NEW p \in Process, LoadStarts(p) PROVE Ordered'
  <2>1. /\ pc[p] = "open" /\ pc' = [pc EXCEPT ![p] = "load"]
        /\ UNCHANGED <<frame, valid, frameMap, list, fault, astray, nextPage>>
    BY <1>2 DEF LoadStarts, At
  <2>2. \A q \in Process : pc'[q] = IF q = p THEN "load" ELSE pc[q]
    BY <2>1 DEF Base, TypeOK
  <2> QED BY <2>1, <2>2, StillOrdered
<1>3. ASSUME NEW p \in Process, LoadPage(p) PROVE Ordered'
  <2>1. /\ pc[p] = "load" /\ nextPage' = [nextPage EXCEPT ![p] = @ + 1]
        /\ UNCHANGED <<frame, valid, frameMap, list, fault, astray>>
    BY <1>3 DEF LoadPage, At
  <2>2. \A q \in Process : pc[q] = "load" \/ nextPage'[q] = nextPage[q]
    BY <2>1 DEF Base, TypeOK
  <2>3. \A q \in Process : pc'[q] = pc[q] \/
          (pc'[q] = "user" /\ pc[q] \in {"open", "load", "exec"})
    BY <1>3, LoadPageBase
  <2> QED BY <2>1, <2>2, <2>3, StillOrdered
<1>4. ASSUME NEW p \in Process, Exit(p) PROVE Ordered'
  <2>1. /\ pc[p] = "user" /\ pc' = [pc EXCEPT ![p] = "end"]
        /\ UNCHANGED <<frame, valid, frameMap, list, fault, astray, nextPage>>
    BY <1>4 DEF Exit, At, tables
  <2>2. \A q \in Process : pc'[q] = IF q = p THEN "end" ELSE pc[q]
    BY <2>1 DEF Base, TypeOK
  <2> QED BY <2>1, <2>2, StillOrdered
<1>5. ASSUME NEW p \in Process, NEW q \in Process, Exec(q, p) PROVE Ordered'
  <2>1. /\ pc[q] = "user" /\ pc[p] = "none" /\ pc' = [pc EXCEPT ![q] = "exec", ![p] = "open"]
        /\ UNCHANGED <<frame, valid, frameMap, list, fault, astray, nextPage>>
    BY <1>5 DEF Exec, At
  <2>2. \A r \in Process : pc'[r] = IF r = p THEN "open" ELSE IF r = q THEN "exec" ELSE pc[r]
    BY <2>1 DEF Base, TypeOK
  <2>3. \A r \in Process :
          \/ pc'[r] = pc[r]
          \/ /\ pc[r] \notin {"out", "in"} /\ pc'[r] \notin {"out", "in"}
             /\ pc'[r] \in {"none", "open", "load"} => pc[r] \in {"none", "open", "load"}
    <3>1. pc[q] = "user" /\ pc[p] = "none"
      BY <2>1
    <3> QED BY ONLY <2>2, <3>1
  <2> QED BY <2>1, <2>3, StillOrdered
<1>6. CASE UNCHANGED <<pc, frame, valid, frameMap, list, fault, astray, nextPage>>
  BY <1>6, StillOrdered
<1>7. ASSUME NEW p \in Process, LoadStops(p) \/ AstrayBeyond(p) \/ \E f \in Frame : AstrayStore(p, f)
      PROVE  Ordered'
  BY <1>6, <1>7 DEF LoadStops, AstrayBeyond, AstrayStore, tables
<1>8. ASSUME NEW k \in Key, LoadWord(k) \/ StoreWord(k)
      PROVE  Ordered'
  BY <1>6, <1>8 DEF LoadWord, StoreWord, Touch, tables
<1>9. CASE UNCHANGED vars
  BY <1>6, <1>9 DEF vars, tables
<1> QED BY <1>1, <1>2, <1>3, <1>4, <1>5, <1>7, <1>8, <1>9

(* Inv is inductive.                                                          *)
LEMMA NextInv == Inv /\ [Next]_vars => Inv'
<1> SUFFICES ASSUME Inv, [Next]_vars PROVE Inv'
  OBVIOUS
<1>1. Base'
  BY NextBase DEF Inv
<1>2. ASSUME KnownCalls' PROVE Ordered'
  <2>1. Base /\ Ordered /\ KnownStep
    BY <1>2, KnownSteps DEF Inv
  <2>2. ASSUME NEW p \in Process, LoadFails(p) \/ PageOut(p) \/ PageIn(p)
        PROVE  Ordered'
    BY <2>1, <2>2, LoadFailsOrdered, PageOutOrdered, PageInOrdered
  <2>3. ASSUME NEW k \in Key, AccessFaults(k)
        PROVE  Ordered'
    BY <2>1, <2>3, AccessFaultsOrdered
  <2> QED BY <2>1, <2>2, <2>3, QuietSteps DEF KnownStep
<1> QED BY <1>1, <1>2 DEF Inv

(* The tables of the kernel keep their types: a page is valid exactly if it   *)
(* has a frame, and a fault that writes a victim out has one.                 *)
THEOREM PagingTypes == Spec => []TypeOK
<1>1. Inv => TypeOK
  BY DEF Inv, Base
<1> QED BY <1>1, InitInv, NextInv, PTL DEF Spec

(* As long as no program has made an unknown call, every frame in use has one *)
(* page, and that page is on the replacement list or in the hands of one      *)
(* fault; the pages of a program whose load failed hold no frame.             *)
THEOREM FramesStayAccounted == Spec => []FramesAccounted
<1>1. Inv => FramesAccounted
  BY DEF Inv, Ordered, Ledger, FramesAccounted
<1> QED BY <1>1, InitInv, NextInv, PTL DEF Spec

-----------------------------------------------------------------------------
(* When all frames are in use and a process can still fault, the other        *)
(* processes do not hold them all.                                            *)
LEMMA VictimFound ==
  ASSUME Base, Ordered, NEW k \in Key, pc[k[1]] = "user", frameMap = Frame
  PROVE  list # <<>>
<1> DEFINE p == k[1]
<1>1. p \in Process
  BY KeyFacts
<1> SUFFICES ASSUME list = <<>> PROVE FALSE
  OBVIOUS
<1>2. \A j \in Key : ~InList(list, j)
  BY DEF InList
<1>3. \A f \in Frame : \E q \in Process \ {p} : \E j \in Key : frame[j] = f /\ j \in InFlight(q)
  <2> SUFFICES ASSUME NEW f \in Frame
               PROVE  \E q \in Process \ {p} : \E j \in Key : frame[j] = f /\ j \in InFlight(q)
    OBVIOUS
  <2>1. PICK j \in Key : Holds(j) /\ frame[j] = f
    BY DEF Ordered, Ledger
  <2>2. PICK q \in Process : j \in InFlight(q)
    BY <1>2, <2>1 DEF Ordered, Ledger
  <2>3. q # p
    BY <1>1, <2>2, InFlightResident
  <2> QED BY <2>1, <2>2, <2>3
<1> DEFINE T == Process \ {p}
           Has(f, q) == \E j \in Key : frame[j] = f /\ j \in InFlight(q)
           g == [f \in Frame |-> CHOOSE q \in T : Has(f, q)]
<1>4. \A f \in Frame : g[f] \in T /\ Has(f, g[f])
  BY <1>3
<1>5. \A e, f \in Frame, q \in T : Has(e, q) /\ Has(f, q) => e = f
  <2>1. \A q \in T : \A i, j \in InFlight(q) : i = j
    BY InFlightFacts
  <2> QED BY <2>1
<1>6. IsFiniteSet(Frame) /\ Cardinality(Frame) = NumPhysPages
  BY PagingAssumption, FS_Interval DEF Frame
<1>7. IsFiniteSet(T) /\ Cardinality(T) = Cardinality(Process) - 1 /\ Cardinality(Process) \in Nat
  BY <1>1, PagingAssumption, FS_RemoveElement, FS_CardinalityType
<1>8. g \in [Frame -> T] /\ \A e, f \in Frame : g[e] = g[f] => e = f
  BY <1>4, <1>5
<1> HIDE DEF T, g
<1>9. ~(Cardinality(T) < Cardinality(Frame))
  BY <1>6, <1>7, <1>8, FS_PigeonHole
<1>10. NumPhysPages \in Nat
  BY PagingAssumption
<1>11. ~(Cardinality(Process) - 1 < NumPhysPages)
  BY <1>6, <1>7, <1>9
<1> QED BY <1>7, <1>10, <1>11, FramesAssumption

(* removeFront and remove() are never called on an empty list while no        *)
(* program has made an unknown call.                                          *)
THEOREM VictimAlwaysExists == Spec => []VictimExists
<1>1. Init => VictimExists
  BY DEF Init, VictimExists
<1>2. Inv /\ VictimExists /\ [Next]_vars => VictimExists'
  <2> SUFFICES ASSUME Inv, VictimExists, [Next]_vars, KnownCalls'
               PROVE  machine' # "no victim"
    BY DEF VictimExists
  <2>1. Base /\ Ordered /\ KnownCalls /\ KnownStep
    BY KnownSteps DEF Inv
  <2>2. machine # "no victim"
    BY <2>1 DEF VictimExists
  <2>3. ASSUME NEW k \in Key, AccessFaults(k) PROVE machine' # "no victim"
    <3>1. Accesses(k) /\ (FaultFree(k) \/ FaultEvict(k))
      BY <2>3 DEF AccessFaults
    <3>2. pc[k[1]] = "user"
      BY <3>1 DEF Accesses, At
    <3>3. CASE FaultFree(k)
      BY <2>2, <3>3 DEF FaultFree
    <3>4. CASE FaultEvict(k)
      <4>1. list # <<>>
        BY <2>1, <3>2, <3>4, VictimFound DEF FaultEvict
      <4> QED BY <2>2, <3>4, <4>1 DEF FaultEvict, TakeVictim
    <3> QED BY <3>1, <3>3, <3>4
  <2>4. ASSUME NEW k \in Key, LoadWord(k) \/ StoreWord(k)
        PROVE  machine' # "no victim"
    BY <2>2, <2>4 DEF LoadWord, StoreWord, Touch
  <2>5. ASSUME NEW p \in Process,
               \/ RunUP(p) \/ LoadStarts(p) \/ LoadStops(p) \/ LoadFails(p) \/ LoadPage(p)
               \/ PageOut(p) \/ PageIn(p) \/ Exit(p) \/ AstrayBeyond(p)
               \/ \E q \in Process : Exec(q, p)
               \/ \E f \in Frame : AstrayStore(p, f)
        PROVE  machine' # "no victim"
    BY <2>2, <2>5 DEF RunUP, LoadStarts, LoadStops, LoadFails, LoadPage, PageOut, PageIn,
       Exit, AstrayBeyond, Exec, AstrayStore
  <2> QED BY <2>1, <2>2, <2>3, <2>4, <2>5 DEF KnownStep, vars
<1> QED BY <1>1, <1>2, InitInv, NextInv, PTL DEF Spec

-----------------------------------------------------------------------------
(* What ContentsKept needs besides the frames: a page not loaded yet never    *)
(* held one, and the copy a fault writes out is the page as it is.            *)
Loaded ==
  /\ \A k \in Key : k[2] >= nextPage[k[1]] => ~Holds(k) /\ version[k] = 0
  /\ \A p \in Process \ astray :
       pc[p] \notin {"none", "open", "load"} => nextPage[p] = NumPages

(* content is what k's process stored last, if k is loaded and not damaged.   *)
Kept(k, content) ==
  k \notin damaged /\ k[2] < nextPage[k[1]] /\ Stored(slot[k])
    => content = [key |-> k, version |-> version[k]]

(* What a fault is about to write to the swap file is its victim as it is.    *)
Copies == \A p \in Process, x \in Key, k \in Key : Evicts(p, x, k) => Kept(x, fault[p].copy)

(* The page is being read; its frame still has the victim's contents.         *)
Arriving(k) == pc[k[1]] = "in" /\ fault[k[1]].page = k[2]

Contents == Loaded /\ Copies /\ \A k \in Key : Kept(k, Current(k))

ContentsInv == Inv /\ (KnownCalls => Contents)

(* Where the contents of a page are, before and after a step. *)
LEMMA CurrentFacts ==
  ASSUME NEW k \in Key
  PROVE  /\ valid[k] /\ ~Arriving(k) => Current(k) = memory[frame[k]]
         /\ ~valid[k] \/ Arriving(k) => Current(k) = swap[slot[k]]
BY DEF Current, Resident, Arriving

(* The same after a step. *)
LEMMA CurrentAfter ==
  ASSUME NEW k \in Key
  PROVE  /\ valid'[k] /\ ~Arriving(k)' => Current(k)' = memory'[frame'[k]]
         /\ ~valid'[k] \/ Arriving(k)' => Current(k)' = swap'[slot'[k]]
BY DEF Current, Resident, Arriving

(* A page that a step leaves where it is. *)
LEMMA CurrentSame ==
  ASSUME NEW k \in Key, valid'[k] = valid[k], Arriving(k)' <=> Arriving(k),
         valid[k] /\ ~Arriving(k) => memory'[frame'[k]] = memory[frame[k]],
         ~valid[k] \/ Arriving(k) => swap'[slot'[k]] = swap[slot[k]]
  PROVE  Current(k)' = Current(k)
BY DEF Current, Resident, Arriving

(* A page that a step does not name stays where it is. *)
LEMMA ArrivingSame ==
  ASSUME NEW k \in Key, pc'[k[1]] = pc[k[1]], fault'[k[1]] = fault[k[1]]
  PROVE  Arriving(k)' <=> Arriving(k)
BY DEF Arriving

(* A place in the swap file that another page's contents may not reach. *)
LEMMA WriteSwapKeeps ==
  ASSUME Base, NEW k \in Key, NEW c, WriteSwap(k, c), NEW j \in Key, j # k, j \notin damaged'
  PROVE  j \notin damaged /\ (Stored(slot[j]) => swap'[slot[j]] = swap[slot[j]])
<1>1. swap \in [0 .. SwapPages - 1 -> Content]
  BY DEF Base, TypeOK
<1> QED BY <1>1 DEF WriteSwap, Stored

(* The page itself gets what is written. *)
LEMMA WriteSwapWrites ==
  ASSUME Base, NEW k \in Key, NEW c, WriteSwap(k, c)
  PROVE  /\ Stored(slot[k]) => swap'[slot[k]] = c
         /\ k \notin damaged' => k \notin damaged
<1>1. swap \in [0 .. SwapPages - 1 -> Content]
  BY DEF Base, TypeOK
<1> QED BY <1>1 DEF WriteSwap, Stored

(* A page that holds a frame was loaded; one that has not been loaded holds    *)
(* none, and its process is not astray when there is no other reason.          *)
LEMMA LoadedFacts ==
  ASSUME Base, Ordered, Contents, NEW k \in Key
  PROVE  /\ k[1] \in Process /\ k[2] \in Nat /\ nextPage[k[1]] \in Nat
         /\ Holds(k) => k[2] < nextPage[k[1]]
         /\ k[2] < nextPage[k[1]] => k[1] \notin astray
<1>1. k[1] \in Process /\ k[2] \in Nat /\ nextPage[k[1]] \in Nat
  <2>1. nextPage \in [Process -> 0 .. NumPages]
    BY DEF Base, TypeOK
  <2> QED BY <2>1, KeyFacts
<1>2. ASSUME Holds(k) PROVE k[2] < nextPage[k[1]]
  <2>1. ~(k[2] >= nextPage[k[1]])
    BY <1>2 DEF Contents, Loaded
  <2> QED BY <1>1, <2>1
<1>3. ASSUME k[2] < nextPage[k[1]] PROVE k[1] \notin astray
  <2>1. nextPage[k[1]] # 0
    BY <1>1, <1>3
  <2> QED BY <2>1 DEF Ordered, Stages
<1> QED BY <1>1, <1>2, <1>3

(* Steps that leave all contents alone. *)
LEMMA StillContents ==
  ASSUME Base, Ordered, Contents,
         UNCHANGED <<nextPage, frame, valid, fault, memory, swap, version, damaged, astray>>,
         \A j \in Key : j[2] < nextPage[j[1]] => slot'[j] = slot[j],
         \A q \in Process :
           \/ pc'[q] = pc[q]
           \/ /\ pc[q] \notin {"out", "in"} /\ pc'[q] \notin {"out", "in"}
              /\ pc[q] \in {"none", "open", "load"} => pc'[q] \in {"none", "open", "load"}
  PROVE  Contents'
<1>1. \A q \in Process : /\ pc'[q] = "in" <=> pc[q] = "in"
                         /\ pc'[q] = "out" <=> pc[q] = "out"
  OBVIOUS
<1>2. Loaded'
  BY DEF Contents, Loaded, Holds
<1>3. ASSUME NEW j \in Key PROVE Kept(j, Current(j))'
  <2> SUFFICES ASSUME j \notin damaged, j[2] < nextPage[j[1]], Stored(slot'[j])
               PROVE  Current(j)' = [key |-> j, version |-> version[j]]
    BY DEF Kept, Stored
  <2>1. slot'[j] = slot[j]
    OBVIOUS
  <2>2. Arriving(j)' <=> Arriving(j)
    BY <1>1, KeyFacts DEF Arriving
  <2>3. Current(j)' = Current(j)
    BY <2>1, <2>2, CurrentSame
  <2> QED BY <2>1, <2>3 DEF Contents, Kept
<1>4. ASSUME NEW q \in Process, NEW x \in Key, NEW k \in Key, Evicts(q, x, k)'
      PROVE  Kept(x, fault[q].copy)'
  <2>1. Evicts(q, x, k)
    BY <1>1, <1>4 DEF Evicts
  <2>2. Kept(x, fault[q].copy) /\ Holds(x)
    BY <2>1 DEF Contents, Copies, Ordered, Stages
  <2>3. slot'[x] = slot[x]
    BY <2>2, LoadedFacts
  <2> QED BY <2>2, <2>3 DEF Kept, Stored
<1>5. Copies'
  BY <1>4 DEF Copies
<1> QED BY <1>2, <1>3, <1>5 DEF Contents

(* A load that fails concerns no page that was loaded. *)
LEMMA LoadFailsContents ==
  ASSUME Base, Ordered, Contents, NEW p \in Process, LoadFails(p)
  PROVE  Contents'
<1>1. /\ pc[p] = "open"
      /\ pc' = [pc EXCEPT ![p] = "user", ![loader[p]] = "user"]
      /\ loader' = [loader EXCEPT ![p] = p] /\ astray' = astray \cup {p}
      /\ slot'  = [k \in Key |-> IF k[1] = p THEN k[2] ELSE slot[k]]
      /\ frame' = [k \in Key |-> IF k[1] = p THEN k[2] ELSE frame[k]]
      /\ valid' = [k \in Key |-> IF k[1] = p THEN TRUE ELSE valid[k]]
      /\ UNCHANGED <<nextPage, fault, memory, swap, version, damaged>>
  BY DEF LoadFails, At
<1>2. /\ \A q \in Process : pc'[q] = pc[q] \/
           (pc'[q] = "user" /\ pc[q] \in {"open", "load", "exec"})
      /\ \A q \in Process : pc'[q] \in {"none", "open", "load"} => pc[q] = pc'[q] /\ q # p
  BY <1>1, LoadEnds DEF Begun
<1>3. nextPage[p] = 0
  BY <1>1 DEF Base, LoadStages
<1>4. \A j \in Key : j[2] < nextPage[j[1]] =>
        /\ j[1] # p /\ slot'[j] = slot[j] /\ frame'[j] = frame[j] /\ valid'[j] = valid[j]
  <2>1. ASSUME NEW j \in Key, j[2] < nextPage[j[1]] PROVE j[1] # p
    BY <1>3, <2>1, KeyFacts
  <2> QED BY <1>1, <2>1
<1>5. Loaded'
  <2>1. \A k \in Key : Holds(k)' => Holds(k)
    BY <1>1 DEF Holds
  <2>2. ASSUME NEW q \in Process \ astray', pc'[q] \notin {"none", "open", "load"}
        PROVE  nextPage[q] = NumPages
    <3>1. q # p /\ q \in Process \ astray
      BY <1>1
    <3>2. loader[p] = p \/ pc[loader[p]] = "exec"
      BY <1>1 DEF Base, LoadStages, Begun
    <3>3. pc[q] \notin {"none", "open", "load"}
      <4>1. loader[p] \in Process
        BY DEF Base, TypeOK
      <4>2. q # loader[p] => pc'[q] = pc[q]
        BY <1>1, <3>1 DEF Base, TypeOK
      <4> QED BY <2>2, <3>1, <3>2, <4>1, <4>2
    <3> QED BY <3>1, <3>3 DEF Contents, Loaded
  <2> QED BY <1>1, <2>1, <2>2 DEF Contents, Loaded
<1>6. ASSUME NEW j \in Key PROVE Kept(j, Current(j))'
  <2> SUFFICES ASSUME j \notin damaged, j[2] < nextPage[j[1]], Stored(slot'[j])
               PROVE  Current(j)' = [key |-> j, version |-> version[j]]
    BY <1>1 DEF Kept, Stored
  <2>1. Arriving(j)' <=> Arriving(j)
    BY <1>1, <1>2, KeyFacts DEF Arriving
  <2>2. Current(j)' = Current(j)
    BY <1>1, <1>4, <2>1, CurrentSame
  <2> QED BY <1>4, <2>2 DEF Contents, Kept
<1>7. Copies'
  <2> SUFFICES ASSUME NEW q \in Process, NEW x \in Key, NEW k \in Key, Evicts(q, x, k)'
               PROVE  Kept(x, fault[q].copy)'
    BY DEF Copies
  <2>1. Evicts(q, x, k) /\ fault' = fault
    BY <1>1, <1>2 DEF Evicts
  <2>2. Kept(x, fault[q].copy) /\ Holds(x)
    BY <2>1 DEF Contents, Copies, Ordered, Stages
  <2>3. slot'[x] = slot[x]
    BY <1>4, <2>2, LoadedFacts
  <2> QED BY <1>1, <2>1, <2>2, <2>3 DEF Kept, Stored
<1> QED BY <1>5, <1>6, <1>7 DEF Contents

(* A page of a load is written to its place; a page that had the place before *)
(* is damaged.                                                                *)
LEMMA LoadPageContents ==
  ASSUME Base, Ordered, Contents, NEW p \in Process, LoadPage(p)
  PROVE  Contents'
<1> DEFINE n == nextPage[p]
           k == <<p, n>>
           content == [key |-> k, version |-> 0]
<1>1. /\ pc[p] = "load" /\ n \in Page /\ k \in Key /\ k[1] = p /\ k[2] = n
      /\ nextPage' = [nextPage EXCEPT ![p] = n + 1]
      /\ WriteSwap(k, content)
      /\ UNCHANGED <<frame, valid, fault, memory, version, astray>>
  BY PagingAssumption DEF LoadPage, At, Base, TypeOK, LoadStages, Page, Key
<1>2. /\ \A j \in Key : j # <<p, n + 1>> => slot'[j] = slot[j]
      /\ n + 1 < NumPages => pc' = pc
      /\ \A q \in Process : q # p /\ pc'[q] \notin {"none", "open", "load"} =>
           pc[q] \notin {"none", "open", "load"}
  <2>1. CASE n + 1 < NumPages
    BY <2>1 DEF LoadPage, TakeSlot, Base, TypeOK
  <2>2. CASE ~(n + 1 < NumPages)
    <3>1. pc' = [pc EXCEPT ![p] = "user", ![loader[p]] = "user"] /\ slot' = slot
      BY <2>2 DEF LoadPage
    <3>2. loader[p] = p \/ pc[loader[p]] = "exec"
      BY <1>1 DEF Base, LoadStages, Begun
    <3>3. \A q \in Process : q # p /\ q # loader[p] => pc'[q] = pc[q]
      BY <3>1 DEF Base, TypeOK
    <3> QED BY <2>2, <3>1, <3>2, <3>3
  <2> QED BY <2>1, <2>2
<1>3. \A r \in Process : /\ pc'[r] = "in" <=> pc[r] = "in"
                         /\ pc'[r] = "out" <=> pc[r] = "out"
  BY LoadPageBase
<1>4. nextPage \in [Process -> 0 .. NumPages] /\ n \in Nat /\ NumPages \in Nat
  BY <1>1, KeyFacts DEF Base, TypeOK
<1>5. \A r \in Process : nextPage'[r] = IF r = p THEN n + 1 ELSE nextPage[r]
  BY <1>1, <1>4
<1>6. Loaded'
  <2>1. ASSUME NEW j \in Key, j[2] >= nextPage'[j[1]]
        PROVE  ~Holds(j)' /\ version'[j] = 0
    <3>1. j[1] \in Process /\ j[2] \in Nat
      BY KeyFacts
    <3>2. j[2] >= nextPage[j[1]]
      BY <1>4, <1>5, <2>1, <3>1
    <3> QED BY <1>1, <3>2 DEF Contents, Loaded, Holds
  <2>2. ASSUME NEW r \in Process \ astray, pc'[r] \notin {"none", "open", "load"}
        PROVE  nextPage'[r] = NumPages
    <3>1. CASE r = p
      <4>1. ~(n + 1 < NumPages) /\ n < NumPages
        BY <1>1, <1>2, <2>2, <3>1 DEF Base, LoadStages
      <4> QED BY <1>4, <1>5, <3>1, <4>1
    <3>2. CASE r # p
      BY <1>2, <1>5, <2>2, <3>2 DEF Contents, Loaded
    <3> QED BY <3>1, <3>2
  <2> QED BY <1>1, <2>1, <2>2 DEF Loaded
<1>7. ~valid[k] /\ version[k] = 0
  <2>1. k[2] >= nextPage[k[1]]
    BY <1>1, <1>4
  <2>2. version[k] = 0
    BY <1>1, <2>1 DEF Contents, Loaded
  <2> QED BY <1>1, <2>2 DEF Ordered, Stages
<1>8. ASSUME NEW j \in Key, j[2] < nextPage'[j[1]], j # k
      PROVE  j[2] < nextPage[j[1]] /\ slot'[j] = slot[j]
  <2>1. j[1] \in Process /\ j[2] \in Nat /\ j = <<j[1], j[2]>>
    BY KeyFacts
  <2>2. j[2] < nextPage[j[1]]
    <3>1. CASE j[1] = p
      <4>1. j[2] # n /\ j[2] < n + 1
        BY <1>5, <1>8, <2>1, <3>1
      <4> QED BY <1>4, <2>1, <3>1, <4>1
    <3>2. CASE j[1] # p
      BY <1>5, <1>8, <2>1, <3>2
    <3> QED BY <3>1, <3>2
  <2>3. j # <<p, n + 1>>
    BY <1>4, <2>1, <2>2
  <2> QED BY <1>2, <2>2, <2>3
<1>9. ASSUME NEW j \in Key PROVE Kept(j, Current(j))'
  <2> SUFFICES ASSUME j \notin damaged', j[2] < nextPage'[j[1]], Stored(slot'[j])
               PROVE  Current(j)' = [key |-> j, version |-> version[j]]
    BY <1>1 DEF Kept, Stored
  <2>1. CASE j = k
    <3>1. slot'[k] = slot[k]
      BY <1>1, <1>2, <1>4
    <3>2. swap'[slot'[k]] = content
      BY <1>1, <2>1, <3>1, WriteSwapWrites DEF Stored
    <3>3. Current(j)' = content
      BY <1>1, <1>7, <2>1, <3>2, CurrentAfter
    <3> QED BY <1>7, <2>1, <3>3
  <2>2. CASE j # k
    <3>1. j[2] < nextPage[j[1]] /\ slot'[j] = slot[j]
      BY <1>8, <2>2
    <3>2. j \notin damaged /\ Stored(slot[j]) /\ swap'[slot[j]] = swap[slot[j]]
      BY <1>1, <2>2, <3>1, WriteSwapKeeps DEF Stored
    <3>3. Arriving(j)' <=> Arriving(j)
      BY <1>1, <1>3, KeyFacts DEF Arriving
    <3>4. Current(j)' = Current(j)
      BY <1>1, <3>1, <3>2, <3>3, CurrentSame
    <3> QED BY <3>1, <3>2, <3>4 DEF Contents, Kept
  <2> QED BY <2>1, <2>2
<1>10. Copies'
  <2> SUFFICES ASSUME NEW r \in Process, NEW x \in Key, NEW j \in Key, Evicts(r, x, j)'
               PROVE  Kept(x, fault[r].copy)'
    BY DEF Copies
  <2>1. Evicts(r, x, j) /\ fault' = fault
    BY <1>1, <1>3 DEF Evicts
  <2>2. Kept(x, fault[r].copy) /\ Holds(x) /\ x # k
    BY <1>7, <2>1 DEF Contents, Copies, Ordered, Stages, Holds
  <2>3. x[2] < nextPage[x[1]]
    BY <2>2, LoadedFacts
  <2>4. x[2] < nextPage'[x[1]] => slot'[x] = slot[x]
    BY <1>8, <2>2
  <2>5. x \notin damaged' => x \notin damaged
    BY <1>1, <2>2, WriteSwapKeeps
  <2> QED BY <1>1, <2>1, <2>2, <2>3, <2>4, <2>5 DEF Kept, Stored
<1> QED BY <1>6, <1>9, <1>10 DEF Contents

(* A store changes one page; if a fault has copied it before, it is damaged.  *)
LEMMA StoreWordContents ==
  ASSUME Base, Ordered, Contents, NEW k \in Key, StoreWord(k)
  PROVE  Contents'
<1>1. /\ UNCHANGED <<pc, slot, nextPage, frame, valid, fault, swap, astray>>
      /\ valid[k] /\ k[1] \notin astray /\ pc[k[1]] = "user"
      /\ version' = [version EXCEPT ![k] = @ + 1]
      /\ memory' = [memory EXCEPT ![frame[k]] = [key |-> k, version |-> version[k] + 1]]
      /\ damaged' = IF Leaving(k) THEN damaged \cup {k} ELSE damaged
  BY DEF StoreWord, Touch, Accesses, At, tables
<1>2. /\ version'[k] = version[k] + 1 /\ \A j \in Key \ {k} : version'[j] = version[j]
      /\ memory'[frame[k]] = [key |-> k, version |-> version[k] + 1]
      /\ \A f \in Frame : f # frame[k] => memory'[f] = memory[f]
      /\ frame[k] \in Frame /\ Holds(k)
  BY <1>1 DEF Base, TypeOK, Holds
<1>3. \A j \in Key : Holds(j)' <=> Holds(j)
  BY <1>1 DEF Holds
<1>4. Loaded'
  <2>1. k[2] < nextPage[k[1]] /\ k[2] \in Nat /\ nextPage[k[1]] \in Nat
    BY <1>2, LoadedFacts
  <2>2. \A j \in Key : j[2] >= nextPage[j[1]] => j # k
    BY <2>1
  <2> QED BY <1>1, <1>2, <1>3, <2>2 DEF Contents, Loaded
<1>5. ASSUME NEW j \in Key PROVE Kept(j, Current(j))'
  <2>1. CASE j = k
    <3>1. ~Arriving(k)' /\ valid'[k]
      BY <1>1 DEF Arriving
    <3>2. Current(k)' = [key |-> k, version |-> version[k] + 1]
      BY <1>1, <1>2, <3>1, CurrentAfter
    <3> QED BY <1>2, <2>1, <3>2 DEF Kept
  <2>2. CASE j # k
    <3> SUFFICES ASSUME j \notin damaged', j[2] < nextPage[j[1]], Stored(slot[j])
                 PROVE  Current(j)' = [key |-> j, version |-> version[j]]
      BY <1>1, <1>2, <2>2 DEF Kept, Stored
    <3>1. valid[j] => frame[j] \in Frame /\ frame[j] # frame[k]
      <4>1. ASSUME valid[j] PROVE Holds(j)
        BY <4>1, LoadedFacts DEF Holds
      <4> QED BY <1>2, <2>2, <4>1 DEF Base, TypeOK, Ordered, Ledger
    <3>2. Current(j)' = Current(j)
      BY <1>1, <1>2, <3>1, CurrentSame, ArrivingSame
    <3>3. j \notin damaged
      BY <1>1
    <3> QED BY <3>2, <3>3 DEF Contents, Kept
  <2> QED BY <2>1, <2>2
<1>6. Copies'
  <2> SUFFICES ASSUME NEW r \in Process, NEW x \in Key, NEW j \in Key, Evicts(r, x, j)'
               PROVE  Kept(x, fault[r].copy)'
    BY DEF Copies
  <2>1. Evicts(r, x, j) /\ fault' = fault
    BY <1>1 DEF Evicts
  <2>2. Kept(x, fault[r].copy)
    BY <2>1 DEF Contents, Copies
  <2>3. CASE x = k
    <3>1. k \in damaged'
      BY <1>1, <2>1, <2>3 DEF Leaving, Evicts
    <3> QED BY <2>3, <3>1 DEF Kept
  <2>4. CASE x # k
    <3>1. x \notin damaged' => x \notin damaged
      BY <1>1
    <3> QED BY <1>1, <1>2, <2>1, <2>2, <2>4, <3>1 DEF Kept, Stored
  <2> QED BY <2>3, <2>4
<1> QED BY <1>4, <1>5, <1>6 DEF Contents

(* A program that was not loaded damages the page whose frame it stores to.   *)
LEMMA AstrayStoreContents ==
  ASSUME Base, Ordered, Contents, NEW p \in Process, NEW f \in Frame, AstrayStore(p, f)
  PROVE  Contents'
<1>1. /\ memory' = [memory EXCEPT ![f] = Junk]
      /\ damaged' = damaged \cup {k \in Key : k[1] \notin astray /\ Resident(k) /\ frame[k] = f}
      /\ UNCHANGED <<pc, slot, nextPage, frame, valid, fault, swap, astray, version>>
  BY DEF AstrayStore, tables
<1>2. \A g \in Frame \ {f} : memory'[g] = memory[g]
  BY <1>1 DEF Base, TypeOK
<1>3. Loaded'
  BY <1>1 DEF Contents, Loaded, Holds
<1>4. ASSUME NEW j \in Key PROVE Kept(j, Current(j))'
  <2> SUFFICES ASSUME j \notin damaged', j[2] < nextPage[j[1]], Stored(slot[j])
               PROVE  Current(j)' = [key |-> j, version |-> version[j]]
    BY <1>1 DEF Kept, Stored
  <2>1. j \notin damaged /\ j[1] \notin astray
    BY <1>1, LoadedFacts
  <2>2. valid[j] /\ ~Arriving(j) => frame[j] \in Frame \ {f}
    <3>1. valid[j] /\ ~Arriving(j) => Resident(j)
      BY DEF Resident, Arriving
    <3>2. valid[j] => frame[j] \in Frame
      BY DEF Base, TypeOK
    <3> QED BY <1>1, <2>1, <3>1, <3>2
  <2>3. Current(j)' = Current(j)
    BY <1>1, <1>2, <2>2, CurrentSame, ArrivingSame
  <2> QED BY <2>1, <2>3 DEF Contents, Kept
<1>5. Copies'
  <2> SUFFICES ASSUME NEW r \in Process, NEW x \in Key, NEW j \in Key, Evicts(r, x, j)'
               PROVE  Kept(x, fault[r].copy)'
    BY DEF Copies
  <2>1. Evicts(r, x, j) /\ fault' = fault
    BY <1>1 DEF Evicts
  <2>2. x \notin damaged' => x \notin damaged
    BY <1>1
  <2> QED BY <1>1, <2>1, <2>2 DEF Contents, Copies, Kept, Stored
<1> QED BY <1>3, <1>4, <1>5 DEF Contents

(* A page that gets a frame is still what the swap file has. *)
LEMMA FaultFreeContents ==
  ASSUME Base, Ordered, Contents, NEW k \in Key, FaultFree(k), pc[k[1]] = "user", ~valid[k]
  PROVE  Contents'
<1> DEFINE p == k[1]
<1>1. PICK f \in Frame \ frameMap :
        /\ frame' = [frame EXCEPT ![k] = f]
        /\ fault' = [fault EXCEPT ![p] = [NoFault EXCEPT !.page = k[2], !.frame = f]]
  BY DEF FaultFree
<1>2. /\ p \in Process /\ k[2] \in Page /\ p \notin astray
      /\ pc' = [pc EXCEPT ![p] = "in"] /\ valid' = [valid EXCEPT ![k] = TRUE]
      /\ UNCHANGED <<slot, nextPage, memory, swap, version, damaged, astray>>
  BY KeyFacts DEF FaultFree, Ordered, Stages, tables
<1>3. /\ \A j \in Key \ {k} : valid'[j] = valid[j] /\ frame'[j] = frame[j]
      /\ valid'[k] /\ pc'[p] = "in" /\ fault'[p].page = k[2]
      /\ \A r \in Process \ {p} : pc'[r] = pc[r] /\ fault'[r] = fault[r]
  BY <1>1, <1>2 DEF Base, TypeOK, NoFault
<1>4. Loaded'
  <2>1. nextPage[p] = NumPages
    BY <1>2 DEF Contents, Loaded
  <2>2. ~(k[2] >= nextPage[k[1]])
    BY <1>2, <2>1, KeyFacts DEF Page
  <2>3. \A r \in Process : pc'[r] \notin {"none", "open", "load"} =>
                             pc[r] \notin {"none", "open", "load"}
    BY <1>3
  <2>4. \A j \in Key : Holds(j)' => Holds(j) \/ j = k
    BY <1>2, <1>3 DEF Holds
  <2> QED BY <1>2, <2>2, <2>3, <2>4 DEF Contents, Loaded
<1>5. ASSUME NEW j \in Key PROVE Kept(j, Current(j))'
  <2> SUFFICES ASSUME j \notin damaged, j[2] < nextPage[j[1]], Stored(slot[j])
               PROVE  Current(j)' = [key |-> j, version |-> version[j]]
    BY <1>2 DEF Kept, Stored
  <2>1. Current(j)' = Current(j)
    <3>1. CASE j = k
      <4>1. Arriving(k)'
        BY <1>3 DEF Arriving
      <4>2. Current(k)' = swap'[slot'[k]] /\ Current(k) = swap[slot[k]]
        BY <4>1, CurrentFacts, CurrentAfter
      <4> QED BY <1>2, <3>1, <4>2
    <3>2. CASE j # k
      <4>1. j[1] \in Process /\ (j[1] = p => j[2] # k[2])
        BY <3>2, KeyFacts
      <4>2. Arriving(j)' <=> Arriving(j)
        BY <1>3, <4>1 DEF Arriving
      <4> QED BY <1>2, <1>3, <3>2, <4>2, CurrentSame
    <3> QED BY <3>1, <3>2
  <2> QED BY <2>1 DEF Contents, Kept
<1>6. ASSUME NEW r \in Process, NEW x \in Key, NEW j \in Key, Evicts(r, x, j)'
      PROVE  Kept(x, fault[r].copy)'
  <2>1. r # p
    BY <1>3, <1>6 DEF Evicts
  <2>2. Evicts(r, x, j) /\ fault'[r] = fault[r]
    BY <1>3, <1>6, <2>1, FaultSame
  <2>3. Kept(x, fault[r].copy)
    BY <2>2 DEF Contents, Copies
  <2> QED BY <1>2, <2>2, <2>3 DEF Kept, Stored
<1>7. Copies'
  BY <1>6 DEF Copies
<1> QED BY <1>4, <1>5, <1>7 DEF Contents

(* What a fault copies is the page as it is. *)
LEMMA TakeVictimContents ==
  ASSUME Base, Ordered, Contents, NEW k \in Key, pc[k[1]] = "user",
         NEW x \in Key, InList(list, x), TakeVictim(k, x),
         UNCHANGED <<tables, frame, valid, frameMap, astray, memory, swap, version, damaged>>
  PROVE  Contents'
<1> DEFINE p == k[1]
<1>1. Holds(x) /\ valid[x] /\ \A q \in Process : x \notin InFlight(q)
  BY DEF Ordered, Ledger, Holds
<1>2. /\ p \in Process /\ fault'[p].victim = x /\ fault'[p].copy = memory[frame[x]]
      /\ pc'[p] = "out"
      /\ \A r \in Process \ {p} : pc'[r] = pc[r] /\ fault'[r] = fault[r]
  BY <1>1, TakeVictimFacts
<1>3. Current(x) = memory[frame[x]]
  <2>1. x[1] \in Process /\ x = <<x[1], x[2]>>
    BY KeyFacts
  <2>2. Arriving(x) => InFlight(x[1]) = {x}
    BY <2>1, InFlightFacts DEF Arriving
  <2>3. ~Arriving(x)
    BY <1>1, <2>1, <2>2
  <2> QED BY <1>1, <2>3, CurrentFacts
<1>4. UNCHANGED <<slot, nextPage>>
  BY DEF tables
<1>5. Loaded'
  BY <1>2, <1>4 DEF Contents, Loaded, Holds
<1>6. ASSUME NEW j \in Key PROVE Kept(j, Current(j))'
  <2>1. Arriving(j)' <=> Arriving(j)
    BY <1>2, KeyFacts DEF Arriving
  <2>2. Current(j)' = Current(j)
    BY <1>4, <2>1, CurrentSame
  <2> QED BY <1>4, <2>2 DEF Contents, Kept, Stored
<1>7. ASSUME NEW r \in Process, NEW y \in Key, NEW j \in Key, Evicts(r, y, j)'
      PROVE  Kept(y, fault[r].copy)'
  <2>1. Kept(y, fault'[r].copy)
    <3>1. CASE r = p
      <4>1. y = x
        BY <1>2, <1>7, <3>1 DEF Evicts
      <4> QED BY <1>2, <1>3, <3>1, <4>1 DEF Contents
    <3>2. CASE r # p
      <4>1. Evicts(r, y, j) /\ fault'[r] = fault[r]
        BY <1>2, <1>7, <3>2, FaultSame
      <4> QED BY <4>1 DEF Contents, Copies
    <3> QED BY <3>1, <3>2
  <2> QED BY <1>4, <2>1 DEF Kept, Stored
<1>8. Copies'
  BY <1>7 DEF Copies
<1> QED BY <1>5, <1>6, <1>8 DEF Contents

(* Both, for a fault of an access. *)
LEMMA AccessFaultsContents ==
  ASSUME Base, Ordered, Contents, NEW k \in Key, AccessFaults(k)
  PROVE  Contents'
<1>1. Accesses(k) /\ ~valid[k] /\ (FaultFree(k) \/ FaultEvict(k))
  BY DEF AccessFaults
<1>2. pc[k[1]] = "user"
  BY <1>1 DEF Accesses, At
<1>3. CASE FaultFree(k)
  BY <1>1, <1>2, <1>3, FaultFreeContents
<1>4. CASE FaultEvict(k)
  <2>1. UNCHANGED <<tables, frame, valid, frameMap, astray, memory, swap, version, damaged>>
    BY <1>4, EvictCases
  <2>2. CASE UNCHANGED <<list, recency, fault, pc>>
    BY <2>1, <2>2, StillContents DEF tables
  <2>3. ASSUME NEW x \in Key, InList(list, x), TakeVictim(k, x)
        PROVE  Contents'
    BY <1>2, <2>1, <2>3, TakeVictimContents
  <2> QED BY <1>4, <2>2, <2>3, EvictCases
<1> QED BY <1>1, <1>3, <1>4

(* The victim is what the swap file has from now on, and so is the page that  *)
(* faulted.                                                                   *)
LEMMA PageOutContents ==
  ASSUME Base, Ordered, Contents, NEW p \in Process, PageOut(p)
  PROVE  Contents'
<1>0. PICK x \in Key, k \in Key : Evicts(p, x, k)
  BY FaultFacts DEF PageOut, At
<1>1. /\ pc[p] = "out" /\ WriteSwap(x, fault[p].copy)
      /\ frame' = [frame EXCEPT ![x] = -1, ![k] = fault[p].frame]
      /\ valid' = [valid EXCEPT ![x] = FALSE, ![k] = TRUE]
      /\ pc' = [pc EXCEPT ![p] = "in"]
      /\ UNCHANGED <<slot, nextPage, fault, memory, version, astray>>
  BY <1>0 DEF PageOut, At, Evicts, tables
<1>2. /\ Holds(x) /\ valid[x] /\ ~valid[k] /\ x # k
      /\ k[1] = p /\ k[2] = fault[p].page /\ p \in Process /\ k[2] \in Page
      /\ p \notin astray
  BY <1>0, FaultFacts, KeyFacts DEF Ordered, Stages, Holds
<1>3. /\ ~valid'[x] /\ valid'[k]
      /\ \A j \in Key \ {x, k} : valid'[j] = valid[j] /\ frame'[j] = frame[j]
      /\ pc'[p] = "in" /\ \A r \in Process \ {p} : pc'[r] = pc[r]
  BY <1>1, <1>2 DEF Base, TypeOK
<1>4. Loaded'
  <2>1. nextPage[p] = NumPages
    BY <1>1, <1>2 DEF Contents, Loaded
  <2>2. ~(k[2] >= nextPage[k[1]])
    BY <1>2, <2>1, KeyFacts DEF Page
  <2>3. \A r \in Process : pc'[r] \notin {"none", "open", "load"} =>
                             pc[r] \notin {"none", "open", "load"}
    BY <1>1, <1>3
  <2>4. \A j \in Key : Holds(j)' => Holds(j) \/ j = k
    BY <1>1, <1>3 DEF Holds
  <2> QED BY <1>1, <2>2, <2>3, <2>4 DEF Contents, Loaded
<1>5. ASSUME NEW j \in Key PROVE Kept(j, Current(j))'
  <2> SUFFICES ASSUME j \notin damaged', j[2] < nextPage[j[1]], Stored(slot[j])
               PROVE  Current(j)' = [key |-> j, version |-> version[j]]
    BY <1>1 DEF Kept, Stored
  <2>1. CASE j = x
    <3>1. x \notin damaged /\ swap'[slot[x]] = fault[p].copy
      BY <1>1, <2>1, WriteSwapWrites
    <3>2. Kept(x, fault[p].copy)
      BY <1>0 DEF Contents, Copies
    <3>3. Current(x)' = swap'[slot[x]]
      BY <1>1, <1>3, CurrentAfter
    <3>4. fault[p].copy = [key |-> x, version |-> version[x]]
      BY <2>1, <3>1, <3>2 DEF Kept
    <3> QED BY <2>1, <3>1, <3>3, <3>4
  <2>2. CASE j # x
    <3>1. j \notin damaged /\ swap'[slot[j]] = swap[slot[j]]
      BY <1>1, <2>2, WriteSwapKeeps
    <3>2. Current(j)' = Current(j)
      <4>1. CASE j = k
        <5>1. Current(k) = swap[slot[k]]
          BY <1>2, CurrentFacts
        <5>2. Arriving(k)' /\ slot' = slot
          BY <1>1, <1>2, <1>3 DEF Arriving
        <5>3. Current(k)' = swap'[slot[k]]
          BY <5>2, CurrentAfter
        <5> QED BY <3>1, <4>1, <5>1, <5>3
      <4>2. CASE j # k
        <5>1. j[1] \in Process /\ (j[1] = p => j[2] # fault[p].page)
          BY <1>2, <4>2, KeyFacts
        <5>2. Arriving(j)' <=> Arriving(j)
          BY <1>1, <1>3, <5>1 DEF Arriving
        <5> QED BY <1>1, <1>3, <2>2, <3>1, <4>2, <5>2, CurrentSame
      <4> QED BY <4>1, <4>2
    <3> QED BY <3>1, <3>2 DEF Contents, Kept
  <2> QED BY <2>1, <2>2
<1>6. ASSUME NEW r \in Process, NEW y \in Key, NEW j \in Key, Evicts(r, y, j)'
      PROVE  Kept(y, fault[r].copy)'
  <2>1. r # p
    BY <1>3, <1>6 DEF Evicts
  <2>2. Evicts(r, y, j) /\ pc[r] = "out"
    BY <1>1, <1>3, <1>6, <2>1 DEF Evicts
  <2>3. y # x
    <3>1. InFlight(r) = {y} /\ InFlight(p) = {x}
      BY <1>0, <1>1, <2>2, InFlightFacts DEF Evicts
    <3>2. InFlight(r) \cap InFlight(p) = {}
      BY <2>1 DEF Ordered, Ledger
    <3> QED BY <3>1, <3>2
  <2>4. Kept(y, fault[r].copy)
    BY <2>2 DEF Contents, Copies
  <2>5. y \notin damaged' => y \notin damaged
    BY <1>1, <2>3, WriteSwapKeeps
  <2> QED BY <1>1, <2>4, <2>5 DEF Kept, Stored
<1>7. Copies'
  BY <1>1, <1>6 DEF Copies
<1> QED BY <1>4, <1>5, <1>7 DEF Contents

(* A page that arrives is what the swap file had, in a frame of its own. *)
LEMMA PageInContents ==
  ASSUME Base, Ordered, Contents, NEW p \in Process, PageIn(p)
  PROVE  Contents'
<1>0. PICK k \in Key : Receives(p, k)
  BY FaultFacts DEF PageIn, At
<1>1. /\ Holds(k) /\ valid[k] /\ fault[p].frame = frame[k] /\ frame[k] \in Frame
      /\ k = <<p, fault[p].page>> /\ k[1] = p /\ k[2] = fault[p].page
  BY <1>0, InsertFacts, FaultFacts DEF Receives, Holds
<1>2. /\ pc[p] = "in" /\ pc' = [pc EXCEPT ![p] = "user"]
      /\ memory' = IF Stored(slot[k]) THEN [memory EXCEPT ![frame[k]] = swap[slot[k]]]
                                      ELSE memory
      /\ fault' = [fault EXCEPT ![p] = NoFault]
      /\ UNCHANGED <<slot, nextPage, frame, valid, swap, version, damaged, astray>>
  BY <1>1 DEF PageIn, At, tables
<1>3. /\ pc'[p] = "user"
      /\ \A r \in Process \ {p} : pc'[r] = pc[r] /\ fault'[r] = fault[r]
      /\ Stored(slot[k]) => memory'[frame[k]] = swap[slot[k]]
      /\ \A f \in Frame : f # frame[k] => memory'[f] = memory[f]
  BY <1>1, <1>2 DEF Base, TypeOK
<1>4. Loaded'
  <2>1. \A r \in Process : pc'[r] \notin {"none", "open", "load"} =>
                             pc[r] \notin {"none", "open", "load"}
    BY <1>2, <1>3
  <2> QED BY <1>2, <2>1 DEF Contents, Loaded, Holds
<1>5. ASSUME NEW j \in Key PROVE Kept(j, Current(j))'
  <2> SUFFICES ASSUME j \notin damaged, j[2] < nextPage[j[1]], Stored(slot[j])
               PROVE  Current(j)' = [key |-> j, version |-> version[j]]
    BY <1>2 DEF Kept, Stored
  <2>0. Current(j) = [key |-> j, version |-> version[j]]
    BY DEF Contents, Kept
  <2>1. CASE j = k
    <3>1. Arriving(k) /\ ~Arriving(k)' /\ valid'[k] /\ frame' = frame
      BY <1>1, <1>2, <1>3 DEF Arriving
    <3>2. Current(k)' = memory'[frame[k]] /\ Current(k) = swap[slot[k]]
      BY <3>1, CurrentFacts, CurrentAfter
    <3> QED BY <1>3, <2>0, <2>1, <3>2
  <2>2. CASE j # k
    <3>1. valid[j] => frame[j] \in Frame /\ frame[j] # frame[k]
      <4>1. j[1] \notin astray
        BY LoadedFacts
      <4>2. valid[j] => Holds(j) /\ frame[j] \in Frame
        BY <4>1 DEF Holds, Base, TypeOK
      <4> QED BY <1>1, <2>2, <4>2 DEF Ordered, Ledger
    <3>2. j[1] \in Process /\ (j[1] = p => j[2] # fault[p].page)
      BY <1>1, <2>2, KeyFacts
    <3>3. Arriving(j)' <=> Arriving(j)
      BY <1>2, <1>3, <3>2 DEF Arriving
    <3>4. Current(j)' = Current(j)
      BY <1>2, <1>3, <3>1, <3>3, CurrentSame
    <3> QED BY <2>0, <3>4
  <2> QED BY <2>1, <2>2
<1>6. ASSUME NEW r \in Process, NEW x \in Key, NEW j \in Key, Evicts(r, x, j)'
      PROVE  Kept(x, fault[r].copy)'
  <2>1. r # p
    BY <1>3, <1>6 DEF Evicts
  <2>2. Evicts(r, x, j) /\ fault'[r] = fault[r]
    BY <1>3, <1>6, <2>1, FaultSame
  <2>3. Kept(x, fault[r].copy)
    BY <2>2 DEF Contents, Copies
  <2> QED BY <1>2, <2>2, <2>3 DEF Kept, Stored
<1>7. Copies'
  BY <1>6 DEF Copies
<1> QED BY <1>4, <1>5, <1>7 DEF Contents

-----------------------------------------------------------------------------
(* The steps that move no contents. *)
LEMMA QuietContents ==
  ASSUME Base, Ordered, Contents,
         \/ \E p \in Process :
              \/ RunUP(p) \/ LoadStarts(p) \/ LoadStops(p) \/ Exit(p) \/ AstrayBeyond(p)
              \/ \E q \in Process : Exec(q, p)
         \/ \E k \in Key : LoadWord(k)
         \/ UNCHANGED vars
  PROVE  Contents'
<1>1. ASSUME NEW p \in Process, RunUP(p) PROVE Contents'
  <2>1. /\ pc[p] = "none" /\ pc' = [pc EXCEPT ![p] = "open"]
        /\ UNCHANGED <<slot, nextPage, frame, valid, fault, memory, swap, version, damaged, astray>>
    BY <1>1 DEF RunUP, At
  <2>2. \A q \in Process : pc'[q] = IF q = p THEN "open" ELSE pc[q]
    BY <2>1 DEF Base, TypeOK
  <2> QED BY <2>1, <2>2, StillContents
<1>2. ASSUME NEW p \in Process, LoadStarts(p) PROVE Contents'
  <2>1. /\ pc[p] = "open" /\ pc' = [pc EXCEPT ![p] = "load"]
        /\ slot' = [slot EXCEPT ![<<p, 0>>] = slotCounter]
        /\ UNCHANGED <<nextPage, frame, valid, fault, memory, swap, version, damaged, astray>>
    BY <1>2 DEF LoadStarts, At, TakeSlot
  <2>2. \A q \in Process : pc'[q] = IF q = p THEN "load" ELSE pc[q]
    BY <2>1 DEF Base, TypeOK
  <2>3. nextPage[p] = 0
    BY <2>1 DEF Base, LoadStages
  <2>4. ASSUME NEW j \in Key, j[2] < nextPage[j[1]] PROVE slot'[j] = slot[j]
    <3>1. j[1] # p
      BY <2>3, <2>4, KeyFacts
    <3>2. j # <<p, 0>>
      BY <3>1
    <3>3. slot \in [Key -> Nat \cup {-1}]
      BY DEF Base, TypeOK
    <3> QED BY <2>1, <3>2, <3>3
  <2> QED BY <2>1, <2>2, <2>4, StillContents
<1>3. ASSUME NEW p \in Process, LoadStops(p) \/ AstrayBeyond(p) PROVE Contents'
  <2>1. UNCHANGED <<pc, slot, nextPage, frame, valid, fault, memory, swap, version, damaged, astray>>
    BY <1>3 DEF LoadStops, AstrayBeyond, tables
  <2> QED BY <2>1, StillContents
<1>4. ASSUME NEW p \in Process, Exit(p) PROVE Contents'
  <2>1. /\ pc[p] = "user" /\ pc' = [pc EXCEPT ![p] = "end"]
        /\ UNCHANGED <<slot, nextPage, frame, valid, fault, memory, swap, version, damaged, astray>>
    BY <1>4 DEF Exit, At, tables
  <2>2. \A q \in Process : pc'[q] = IF q = p THEN "end" ELSE pc[q]
    BY <2>1 DEF Base, TypeOK
  <2> QED BY <2>1, <2>2, StillContents
<1>5. ASSUME NEW p \in Process, NEW q \in Process, Exec(q, p) PROVE Contents'
  <2>1. /\ pc[q] = "user" /\ pc[p] = "none" /\ pc' = [pc EXCEPT ![q] = "exec", ![p] = "open"]
        /\ UNCHANGED <<slot, nextPage, frame, valid, fault, memory, swap, version, damaged, astray>>
    BY <1>5 DEF Exec, At
  <2>2. \A r \in Process : pc'[r] = IF r = p THEN "open" ELSE IF r = q THEN "exec" ELSE pc[r]
    BY <2>1 DEF Base, TypeOK
  <2>3. pc[q] = "user" /\ pc[p] = "none"
    BY <2>1
  <2>4. \A r \in Process :
          \/ pc'[r] = pc[r]
          \/ /\ pc[r] \notin {"out", "in"} /\ pc'[r] \notin {"out", "in"}
             /\ pc[r] \in {"none", "open", "load"} => pc'[r] \in {"none", "open", "load"}
    BY ONLY <2>2, <2>3
  <2> QED BY <2>1, <2>4, StillContents
<1>6. ASSUME NEW k \in Key, LoadWord(k) PROVE Contents'
  <2>1. UNCHANGED <<pc, slot, nextPage, frame, valid, fault, memory, swap, version, damaged, astray>>
    BY <1>6 DEF LoadWord, Touch, tables
  <2> QED BY <2>1, StillContents
<1>7. CASE UNCHANGED vars
  BY <1>7, StillContents DEF vars, tables
<1> QED BY <1>1, <1>2, <1>3, <1>4, <1>5, <1>6, <1>7

(* Until the first unknown call, what a process finds in its pages, in memory *)
(* or in the swap file, is what it stored there last, except for the losses   *)
(* that damaged records: a store during the write of the page, a place in the *)
(* swap file that Exec gave away again, a store of a child whose Load failed. *)
THEOREM ContentsStayKept == Spec => []ContentsKept
<1>1. Init => ContentsInv
  <2> SUFFICES ASSUME Init PROVE ContentsInv
    OBVIOUS
  <2>1. Loaded /\ Copies
    BY DEF Init, Loaded, Copies, Evicts, Holds
  <2>2. ASSUME NEW k \in Key PROVE Kept(k, Current(k))
    <3>1. ~(k[2] < nextPage[k[1]])
      BY KeyFacts DEF Init, Page
    <3> QED BY <3>1 DEF Kept
  <2> QED BY <2>1, <2>2, InitInv DEF ContentsInv, Contents
<1>2. ContentsInv /\ [Next]_vars => ContentsInv'
  <2> SUFFICES ASSUME ContentsInv, [Next]_vars PROVE ContentsInv'
    OBVIOUS
  <2>1. Inv'
    BY NextInv DEF ContentsInv
  <2>2. ASSUME KnownCalls' PROVE Contents'
    <3>1. Base /\ Ordered /\ Contents /\ KnownStep
      BY <2>2, KnownSteps DEF ContentsInv, Inv
    <3>2. ASSUME NEW p \in Process, LoadPage(p) \/ LoadFails(p) \/ PageOut(p) \/ PageIn(p)
          PROVE  Contents'
      BY <3>1, <3>2, LoadPageContents, LoadFailsContents, PageOutContents, PageInContents
    <3>3. ASSUME NEW p \in Process, NEW f \in Frame, AstrayStore(p, f) PROVE Contents'
      BY <3>1, <3>3, AstrayStoreContents
    <3>4. ASSUME NEW k \in Key, StoreWord(k) \/ AccessFaults(k) PROVE Contents'
      BY <3>1, <3>4, StoreWordContents, AccessFaultsContents
    <3> QED BY <3>1, <3>2, <3>3, <3>4, QuietContents DEF KnownStep
  <2> QED BY <2>1, <2>2 DEF ContentsInv
<1>3. ContentsInv => ContentsKept
  BY DEF ContentsInv, Contents, Kept, ContentsKept
<1> QED BY <1>1, <1>2, <1>3, PTL DEF Spec

-----------------------------------------------------------------------------
(* Each part with what is inductive of it.                                    *)
PartInv ==
  /\ part \in {"pages", "processor", "console", "files"}
  /\ part = "pages"     => Inv
  /\ part = "processor" => MipsTypeOK
  /\ part = "console"   => ConsoleInv
  /\ part = "files"     => OTypes

(* Whichever part a behaviour moves, the variables of that part keep their    *)
(* types (ExceptionHandler, OneInstruction, the console's handlers, Open).    *)
THEOREM PartsTypes == PartSpec => []PartsTypeOK
<1>1. PartInit => PartInv
  BY InitInv, InitMipsTypes, InitConsoleInv, InitOInv DEF PartInit, PartInv, OInv
<1>2. PartInv /\ [PartNext]_<<part, paging, processor, console, files>> => PartInv'
  <2> SUFFICES ASSUME PartInv, [PartNext]_<<part, paging, processor, console, files>>
               PROVE  PartInv'
    OBVIOUS
  <2>1. UNCHANGED part
    BY DEF PartNext
  <2>2. /\ part = "pages"     => [Next]_vars
        /\ part = "processor" => [ProcessorNext]_processorVars
        /\ part = "console"   => [ConsolesNext]_consoleVars
        /\ part = "files"     => [OpenFilesNext]_openFileVars
    BY <2>1 DEF PartNext, PartInv, paging, processor, console, files
  <2>3. CASE part = "pages"
    BY <2>1, <2>2, <2>3, NextInv DEF PartInv
  <2>4. CASE part = "processor"
    BY <2>1, <2>2, <2>4, NextMipsTypes DEF PartInv
  <2>5. CASE part = "console"
    BY <2>1, <2>2, <2>5, NextConsoleInv DEF PartInv
  <2>6. CASE part = "files"
    BY <2>1, <2>2, <2>6, NextOTypes DEF PartInv
  <2> QED BY <2>3, <2>4, <2>5, <2>6 DEF PartInv
<1>3. PartInv => PartsTypeOK
  BY DEF PartInv, PartsTypeOK, Inv, Base, ConsoleInv, OTypes
<1> QED BY <1>1, <1>2, <1>3, PTL DEF PartSpec

=============================================================================
